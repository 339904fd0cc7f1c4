----------------------------- MODULE LanTimers ------------------------------
(***************************************************************************)
(* The clock and the timers of the simulated LAN (src/host/lan.mjs), and   *)
(* the two services that live by them (src/host/lan_services.mjs): pings,  *)
(* each logged with its answer or with none after a second, and dialling,  *)
(* which tries again while the board is not listening.  The board's frames *)
(* enter with times of their own, and the host may call late: no order of  *)
(* the two is assumed but that of the board's clock.                       *)
(***************************************************************************)
EXTENDS Integers, Sequences, SequencesExt

CONSTANTS PingTimes,  \* opts.ping: when each ping is to go out
          DialAt,     \* opts.dial: when to dial
          Tries,      \* how often
          Second, TICK,
          MaxLate,    \* bound: how far the board runs past an event that is due
          MaxTime     \* bound: the board's clock

ASSUME TimersConstants ==
  /\ PingTimes \in Seq(Nat) /\ DialAt \in Nat /\ Tries \in Nat \ {0}
  /\ Second \in Nat \ {0} /\ TICK \in Nat \ {0} /\ MaxLate \in Nat /\ MaxTime \in Nat

VARIABLES lanClock,  \* lan.clockNs
          timers,    \* lan.timers: [at, job, n], soonest first
          asked,     \* how many pings startServices() has put there
          looping,   \* advance() is in its loop
          pinging,   \* lan.pinging: pings without an answer
          pings,     \* when each ping went out (NotYet before), and its log
          dials      \* the attempts: when, and what became of the connection

timerVars == <<lanClock, timers, asked, looping, pinging, pings, dials>>
Pings == 1..Len(PingTimes)
NotYet == -1

-----------------------------------------------------------------------------
(* at(): an event goes behind every one that is no later.                   *)
At(q, ns, job, n) ==
  LET i == Max({0} \cup {j \in DOMAIN q : q[j].at <= ns})
  IN SubSeq(q, 1, i) \o <<[at |-> ns, job |-> job, n |-> n]>> \o SubSeq(q, i + 1, Len(q))

(* startServices(): the dial's event, then one for each ping, before the    *)
(* board runs.                                                              *)
TimersInit ==
  /\ lanClock = 0
  /\ timers = <<[at |-> DialAt, job |-> "dial", n |-> Tries]>>
  /\ asked = 0 /\ looping = FALSE
  /\ pinging = {}
  /\ pings = [i \in Pings |-> [sent |-> NotYet, log |-> <<>>]]
  /\ dials = <<>>

askPing ==
  /\ asked < Len(PingTimes)
  /\ asked' = asked + 1
  /\ timers' = At(timers, PingTimes[asked + 1], "ping", asked + 1)
  /\ UNCHANGED <<lanClock, looping, pinging, pings, dials>>

setClock(ns) == IF ns > lanClock THEN ns ELSE lanClock

nextNs ==
  LET tick == ((lanClock \div TICK) + 1) * TICK
  IN IF timers # <<>> /\ timers[1].at < tick THEN timers[1].at ELSE tick

(* The host may call: no call of it is under way.                           *)
Ready == asked = Len(PingTimes) /\ ~looping

-----------------------------------------------------------------------------
(* What an event does, once it is off the list.  `pcb` is whether lwIP has  *)
(* a block left for a connection.                                           *)
sendPing(n) ==
  /\ timers' = At(Tail(timers), lanClock + Second, "answer", n)
  /\ pinging' = pinging \cup {n} /\ pings' = [pings EXCEPT ![n].sent = lanClock]
  /\ UNCHANGED dials

Logs(n, line) == pings' = [pings EXCEPT ![n].log = Append(@, line)]

(* As noAnswer, but without looking whether the reply has come.             *)
noAnswer_Blind(n) == Logs(n, "none") /\ timers' = Tail(timers) /\ UNCHANGED <<pinging, dials>>

noAnswer(n) ==
  /\ pinging' = pinging \ {n}
  /\ IF n \in pinging THEN Logs(n, "none") ELSE UNCHANGED pings
  /\ timers' = Tail(timers) /\ UNCHANGED dials

attempt(n, pcb) ==
  /\ dials' = IF pcb THEN Append(dials, [at |-> lanClock, conn |-> "trying"]) ELSE dials
  /\ timers' = IF pcb /\ n > 1 THEN At(Tail(timers), lanClock + Second, "redial", n - 1)
               ELSE Tail(timers)
  /\ UNCHANGED <<pinging, pings>>

(* As redial, but the connection is not asked whether it was made.          *)
redial_Always(n, pcb) == attempt(n, pcb)

redial(n, pcb) ==
  IF dials[Len(dials)].conn = "connected"
  THEN timers' = Tail(timers) /\ UNCHANGED <<pinging, pings, dials>>
  ELSE attempt(n, pcb)

Fire(e, pcb) ==
  \/ e.job = "ping" /\ sendPing(e.n)
  \/ e.job = "answer" /\ noAnswer(e.n)
  \/ e.job = "dial" /\ attempt(e.n, pcb)
  \/ e.job = "redial" /\ redial(e.n, pcb)

-----------------------------------------------------------------------------
(* advance(): the clock, then a loop that takes events off the list while   *)
(* the first is due; nothing else of the LAN runs meanwhile.                *)
advance(ns) ==
  /\ Ready
  /\ lanClock' = setClock(ns) /\ looping' = TRUE
  /\ UNCHANGED <<timers, asked, pinging, pings, dials>>

Due == timers # <<>> /\ timers[1].at <= lanClock

runEvent(pcb) ==
  /\ looping /\ Due
  /\ Fire(timers[1], pcb)
  /\ UNCHANGED <<lanClock, asked, looping>>

advanced ==
  /\ looping /\ ~Due
  /\ looping' = FALSE
  /\ UNCHANGED <<lanClock, timers, asked, pinging, pings, dials>>

(* input(): an echo reply from the board, to a ping that went out; a reply  *)
(* that comes twice, or late, is left to lwIP (receive_icmp_echo_reply).    *)
pingReply(n, atNs) ==
  /\ Ready /\ pings[n].sent # NotYet
  /\ lanClock' = setClock(atNs)
  /\ pinging' = pinging \ {n}
  /\ IF n \in pinging THEN Logs(n, "reply") ELSE UNCHANGED pings
  /\ UNCHANGED <<timers, asked, looping, dials>>

(* input(): the board accepts an attempt, however late, or refuses it.      *)
dialAnswer(k, how, atNs) ==
  /\ Ready /\ dials[k].conn = "trying"
  /\ lanClock' = setClock(atNs)
  /\ dials' = [dials EXCEPT ![k].conn = how]
  /\ UNCHANGED <<timers, asked, looping, pinging, pings>>

(* The host calls when the board's clock is at nextNs or up to MaxLate past *)
(* it: a board that is busy sends frames, with the time it sent them, after *)
(* an event was due.  A frame may also be stamped in the LAN's past.        *)
Calls  == {ns \in nextNs..(nextNs + MaxLate) : ns <= MaxTime}
Stamps == {ns \in 0..(lanClock + 1) : ns + 1 >= lanClock /\ ns <= nextNs + MaxLate /\ ns <= MaxTime}

TimersNext ==
  \/ askPing \/ advanced
  \/ \E ns \in Calls : advance(ns)
  \/ \E pcb \in BOOLEAN : runEvent(pcb)
  \/ \E ns \in Stamps, n \in Pings : pingReply(n, ns)
  \/ \E ns \in Stamps, k \in DOMAIN dials, how \in {"connected", "refused"} : dialAnswer(k, how, ns)

(* The board's clock goes on, the host calls when the LAN is due, and its   *)
(* loops go on.                                                             *)
OnTime ==
  \/ askPing \/ advanced
  \/ nextNs <= MaxTime /\ advance(nextNs)
  \/ \E pcb \in BOOLEAN : runEvent(pcb)

TimersFair == WF_timerVars(OnTime)

TimersSpec == TimersInit /\ [][TimersNext]_timerVars

-----------------------------------------------------------------------------
(* The type of the state: no more dials are made than Tries allows.         *)
TimersTypeOK ==
  /\ lanClock \in 0..MaxTime
  /\ timers \in Seq([at : Nat, job : {"ping", "answer", "dial", "redial"}, n : Nat])
  /\ pinging \subseteq Pings
  /\ asked \in 0..Len(PingTimes) /\ looping \in BOOLEAN
  /\ pings \in [Pings -> [sent : Nat \cup {NotYet}, log : Seq({"reply", "none"})]]
  /\ dials \in Seq([at : Nat, conn : {"trying", "connected", "refused"}])
  /\ Len(dials) <= Tries

(* The events are kept soonest first whatever order they were asked for in, *)
(* which is all advance() and nextNs() look at (at(), advance()).           *)
SoonestFirst == \A i, j \in DOMAIN timers : i < j => timers[i].at <= timers[j].at

(* Every event that is due when the LAN is called has run when it returns:  *)
(* an answer's second or a retry is never slept over.                       *)
NothingOverdue ==
  [][looping /\ ~looping' => \A i \in DOMAIN timers' : timers'[i].at > lanClock']_timerVars

(* A ping is logged once: with its reply, or, once a whole second has       *)
(* passed, with none; a reply later than that is not logged a second time   *)
(* (the header of pings()).                                                 *)
LoggedOnce ==
  \A n \in Pings :
    /\ Len(pings[n].log) <= 1
    /\ pings[n].log = <<"none">> => lanClock >= pings[n].sent + Second
    /\ (pings[n].sent # NotYet /\ n \notin pinging) => pings[n].log # <<>>

(* Attempts are at least a second apart, and none is made while the one     *)
(* before it is connected: the header of dial() says "trying again a second *)
(* later while the board is not listening yet".                             *)
DialsApart ==
  [][Len(dials') > Len(dials) =>
       \A k \in DOMAIN dials : /\ dials'[Len(dials')].at >= dials[k].at + Second
                               /\ k = Len(dials) => dials[k].conn # "connected"]_timerVars

(* Every ping ends in the log: nothing is left waiting for an answer.       *)
EveryPingLogged == <>(\A n \in Pings : pings[n].log # <<>>)

(* Whatever comes late, twice or in another order, each ping has one line   *)
(* in the log, the right one, and events keep their order (at(), pings()).  *)
TimersSafety == TimersTypeOK /\ SoonestFirst /\ LoggedOnce

(* No event is slept over, none comes before its time, and none that        *)
(* something waits for is missing (advance(), dial() and pings()).          *)
TimersKeepTime == NothingOverdue /\ DialsApart /\ EveryPingLogged
=============================================================================
