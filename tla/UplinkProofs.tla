---------------------------- MODULE UplinkProofs ----------------------------
(***************************************************************************)
(* Proof that an uplink holds one session at most and is never left        *)
(* waiting for nothing, that its frames go out in order and that the       *)
(* platform gets its ethSend back, for any number of frames, checks and    *)
(* failures and any room for the frames that wait.                         *)
(*                                                                         *)
(* The helper is a chain of functions on the pair [r, l] of the connection *)
(* and the link, each of which may call the other's handlers.  The first   *)
(* part says what each function leaves behind, for any pair; the second is *)
(* the invariant of the whole state, and the third goes through the events.*)
(***************************************************************************)
EXTENDS Uplink, TLAPS

Relays == [state : {"idle", "connecting", "open", "waiting", "closed"},
           ws : {"none", "opening", "open"}, retry : BOOLEAN, checks : 0..MaxChecks,
           failures : 0..MaxFailures, sessions : 0..2, beat : BOOLEAN,
           probe : BOOLEAN, live : 0..1, suspended : BOOLEAN]
Links == [kind : {"wsproxy", "relaynet"}, ethSend : {"before", "link"}, open : BOOLEAN,
          pending : Seq(1..MaxFrames), promise : {"none", "pending", "resolved", "rejected"},
          ended : BOOLEAN, threw : BOOLEAN]
Frames == [n : 0..MaxFrames, early : 0..MaxFrames, out : Seq(1..MaxFrames), deaths : 0..MaxDeaths]

(* The connection holds the one socket that is live.                       *)
OneLive(r) == r.live = IF r.ws = "none" THEN 0 ELSE 1

(* A RelayConnection says what its socket is, and waits for something.     *)
InStep(r) ==
  /\ r.ws = "open" <=> r.state = "open"
  /\ r.ws = "opening" <=> r.state = "connecting"
  /\ r.state = "waiting" => r.retry \/ r.checks > 0 \/ r.suspended

(* A plain WebSocket leaves the connection alone.                          *)
Unused(r) == r.state = "idle" /\ ~r.retry /\ r.checks = 0 /\ ~r.beat /\ ~r.probe

(* The platform has its ethSend back once the link is over.                *)
GivenBack(r, l) ==
  (l.promise = "rejected" \/ r.state = "closed") /\ ~l.threw => l.ethSend = "before"

SessionInv ==
  /\ relay \in Relays /\ link \in Links /\ path \in {"good", "dead"}
  /\ OneLive(relay)
  /\ link.kind = "relaynet" => InStep(relay)
  /\ link.kind = "wsproxy" => Unused(relay)
  /\ GivenBack(relay, link)
  /\ link.promise = "none" => Unused(relay) /\ relay.ws = "none" /\ link.ethSend = "before"

(* Frames go out and wait in the order they were sent, the waiting ones    *)
(* after the others.                                                       *)
Ordered(out, pending, n) ==
  /\ \A i \in DOMAIN out : out[i] <= n
  /\ \A j \in DOMAIN pending : pending[j] <= n
  /\ \A i, j \in DOMAIN out : i < j => out[i] < out[j]
  /\ \A i, j \in DOMAIN pending : i < j => pending[i] < pending[j]
  /\ \A i \in DOMAIN out, j \in DOMAIN pending : out[i] < pending[j]

(* The first n of a sequence of frames are the first n the board sent.     *)
Begins(s, n) == Len(s) >= n /\ \A i \in 1..n : s[i] = i

(* While the link is awaited, every frame that there is room for waits.    *)
FramesInv ==
  /\ frames \in Frames
  /\ Ordered(frames.out, link.pending, frames.n)
  /\ link.open => link.pending = <<>> /\ link.promise # "pending"
  /\ link.promise = "none" => /\ frames.n = 0 /\ frames.early = 0 /\ frames.out = <<>>
                              /\ link.pending = <<>> /\ ~link.open
  /\ link.promise = "pending" => frames.out = <<>> /\ frames.early = frames.n
  /\ link.promise = "pending" =>
       /\ Len(link.pending) = Min({frames.n, PENDING_MAX})
       /\ Begins(link.pending, Len(link.pending))
  /\ link.promise = "resolved" => Begins(frames.out, Min({frames.early, PENDING_MAX}))

UpInv == SessionInv /\ FramesInv

-----------------------------------------------------------------------------
(* A connection and a link; and a connection without a socket.             *)
Pairs == [r : Relays, l : Links]
Down(r) == r.ws = "none" /\ r.live = 0

(* What the handlers of a helper may do to a link: nothing of the frames   *)
(* that wait, and of the promise only that it is rejected.                 *)
LinkStep(l, m) ==
  /\ m.kind = l.kind /\ m.open = l.open /\ m.pending = l.pending /\ m.threw = l.threw
  /\ m.promise = l.promise \/ (l.promise = "pending" /\ m.promise = "rejected")

(* How a session that is over ends: it will be tried again, or the link    *)
(* has given up.                                                           *)
Over(w, v) ==
  /\ v \in Pairs /\ Down(v.r) /\ LinkStep(w.l, v.l)
  /\ \/ v.r.state = "waiting" /\ (v.r.retry \/ v.r.checks > 0) /\ v.l = w.l
     \/ v.r.state = "closed" /\ v.l.ethSend = "before"

(* The fields a change of session sets, one group at a time.               *)
LEMMA RelayFields ==
  ASSUME NEW r \in Relays, NEW x \in {"none", "opening", "open"}, NEW y \in 0..1
  PROVE  /\ [r EXCEPT !.live = y] \in Relays
         /\ [r EXCEPT !.ws = x, !.live = y] \in Relays
<1>1. [r EXCEPT !.live = y] \in Relays
  BY DEF Relays
<1>2. [r EXCEPT !.live = y].ws = r.ws
  BY DEF Relays
<1>3. \A q \in Relays : [q EXCEPT !.ws = x] \in Relays
  BY DEF Relays
<1>4. [r EXCEPT !.ws = x, !.live = y] = [[r EXCEPT !.live = y] EXCEPT !.ws = x]
  BY DEF Relays
<1> QED
  BY <1>1, <1>3, <1>4

(* detach() leaves no socket, whether there was one or not.                *)
LEMMA DetachFacts ==
  ASSUME NEW r \in Relays, OneLive(r)
  PROVE  /\ detach(r) \in Relays /\ Down(detach(r)) /\ OneLive(detach(r))
         /\ detach(r).state = r.state /\ detach(r).failures = r.failures
         /\ detach(r).checks = r.checks
<1>1. (IF r.ws = "none" THEN r.live ELSE r.live - 1) = 0
  BY DEF Relays, OneLive
<1>2. detach(r) = [r EXCEPT !.ws = "none", !.live = 0]
  BY <1>1 DEF detach
<1>3. detach(r) \in Relays
  <2>1. 0 \in 0..1 /\ "none" \in {"none", "opening", "open"}
    OBVIOUS
  <2>2. [r EXCEPT !.ws = "none", !.live = 0] \in Relays
    BY <2>1, RelayFields
  <2> QED
    BY <1>2, <2>2
<1>4. /\ detach(r).ws = "none" /\ detach(r).live = 0 /\ detach(r).state = r.state
      /\ detach(r).failures = r.failures /\ detach(r).checks = r.checks
  BY <1>2 DEF Relays
<1> QED
  BY <1>3, <1>4 DEF Down, OneLive

(* Stopping the heartbeat changes nothing else.                            *)
LEMMA StopFacts ==
  ASSUME NEW r \in Relays
  PROVE  /\ stopHeartbeat(r) \in Relays /\ stopHeartbeat(r).state = r.state
         /\ stopHeartbeat(r).failures = r.failures /\ stopHeartbeat(r).checks = r.checks
         /\ stopHeartbeat(r).ws = r.ws /\ stopHeartbeat(r).live = r.live
BY DEF stopHeartbeat, Relays

(* close() leaves no socket and no timer.                                  *)
LEMMA CloseFacts ==
  ASSUME NEW r \in Relays, OneLive(r)
  PROVE  /\ closeRelay(r) \in Relays /\ Down(closeRelay(r)) /\ closeRelay(r).state = "closed"
<1> DEFINE d == detach(stopHeartbeat(r))
<1>1. stopHeartbeat(r) \in Relays /\ OneLive(stopHeartbeat(r))
  BY StopFacts DEF OneLive
<1>2. d \in Relays /\ Down(d)
  BY <1>1, DetachFacts
<1>3. closeRelay(r) = [d EXCEPT !.retry = FALSE, !.state = "closed"]
  BY DEF closeRelay
<1> HIDE DEF d
<1> QED
  BY <1>2, <1>3 DEF Relays, Down

(* connect() opens a socket where there is none, and does nothing to a     *)
(* connection that is up, on its way or closed.                            *)
LEMMA ConnectFacts ==
  ASSUME NEW r \in Relays, OneLive(r), InStep(r)
  PROVE  /\ connect(r) \in Relays /\ OneLive(connect(r)) /\ InStep(connect(r))
         /\ r.state = "closed" <=> connect(r).state = "closed"
<1>1. CASE r.state \in {"closed", "connecting", "open"}
  <2>1. connect(r) = [r EXCEPT !.retry = FALSE]
    BY <1>1 DEF connect
  <2> QED
    BY <1>1, <2>1 DEF Relays, OneLive, InStep
<1>2. CASE r.state \in {"idle", "waiting"}
  <2>1. connect(r) = [r EXCEPT !.retry = FALSE, !.state = "connecting", !.ws = "opening",
                               !.live = r.live + 1, !.suspended = FALSE]
    BY <1>2 DEF connect
  <2>2. r.live + 1 = 1
    BY <1>2 DEF Relays, OneLive, InStep
  <2>3. connect(r) = [r EXCEPT !.retry = FALSE, !.state = "connecting", !.ws = "opening",
                               !.live = 1, !.suspended = FALSE]
    BY <2>1, <2>2
  <2>4. connect(r) \in Relays
    <3>1. 1 \in 0..1 /\ "opening" \in {"none", "opening", "open"}
      OBVIOUS
    <3>2. [r EXCEPT !.ws = "opening", !.live = 1] \in Relays
      BY <3>1, RelayFields
    <3>3. \A q \in Relays : [q EXCEPT !.retry = FALSE, !.state = "connecting", !.suspended = FALSE] \in Relays
      BY DEF Relays
    <3>4. connect(r) = [[r EXCEPT !.ws = "opening", !.live = 1]
                          EXCEPT !.retry = FALSE, !.state = "connecting", !.suspended = FALSE]
      BY <2>3 DEF Relays
    <3> QED
      BY <3>2, <3>3, <3>4
  <2>5. connect(r).state = "connecting" /\ connect(r).ws = "opening" /\ connect(r).live = 1
    BY <2>3 DEF Relays
  <2> QED
    BY <1>2, <2>4, <2>5 DEF OneLive, InStep
<1> QED
  BY <1>1, <1>2 DEF Relays

(* probe() sends one probe at most, and to an open socket.                 *)
LEMMA ProbeFacts ==
  ASSUME NEW r \in Relays
  PROVE  /\ probe(r) \in Relays /\ (OneLive(r) => OneLive(probe(r)))
         /\ (InStep(r) => InStep(probe(r))) /\ probe(r).state = r.state
         /\ probe(r).live = r.live /\ probe(r).ws = r.ws
BY DEF probe, Relays, OneLive, InStep

(* restore() puts ethSend back, and leaves the frames that wait.           *)
LEMMA RestoreFacts ==
  ASSUME NEW l \in Links
  PROVE  /\ restore(l) \in Links /\ LinkStep(l, restore(l)) /\ restore(l).ethSend = "before"
         /\ settle(restore(l), "rejected") \in Links
         /\ LinkStep(l, settle(restore(l), "rejected"))
         /\ settle(restore(l), "rejected").ethSend = "before"
<1>1. restore(l) \in Links /\ LinkStep(l, restore(l)) /\ restore(l).ethSend = "before"
  BY DEF restore, Links, LinkStep
<1>2. ASSUME NEW m \in Links
      PROVE  /\ settle(m, "rejected") \in Links /\ settle(m, "rejected").ethSend = m.ethSend
             /\ LinkStep(m, settle(m, "rejected"))
  BY DEF settle, Links, LinkStep
<1> QED
  BY <1>1, <1>2 DEF LinkStep, Links

(* onClose(): the link keeps going, or has given ethSend back.             *)
LEMMA OnCloseFacts ==
  ASSUME NEW w \in Pairs, Down(w.r), NEW final \in BOOLEAN
  PROVE  LET v == onClose(w, final)
         IN /\ v \in Pairs /\ Down(v.r) /\ LinkStep(w.l, v.l)
            /\ (v = w /\ ~final) \/ (v.l.ethSend = "before" /\ v.r.state = "closed")
                                 \/ (v.l.ethSend = "before" /\ final /\ v.r = w.r)
<1>1. w.r \in Relays /\ w.l \in Links /\ OneLive(w.r)
  BY DEF Pairs, Down, OneLive
<1>2. CASE ~w.l.open
  <2>1. onClose(w, final) = [r |-> closeRelay(w.r), l |-> settle(restore(w.l), "rejected")]
    BY <1>2 DEF onClose
  <2> QED
    BY <1>1, <2>1, CloseFacts, RestoreFacts DEF Pairs
<1>3. CASE w.l.open /\ final
  <2>1. onClose(w, final) = [w EXCEPT !.l = restore(w.l)]
    BY <1>3 DEF onClose
  <2> QED
    BY <1>1, <1>3, <2>1, RestoreFacts DEF Pairs
<1>4. CASE w.l.open /\ ~final
  <2>1. onClose(w, final) = w
    BY <1>4 DEF onClose
  <2> QED
    BY <1>1, <1>4, <2>1 DEF LinkStep
<1> QED
  BY <1>2, <1>3, <1>4

(* retryIn(): a timer is set, even if the handler gave up.                      *)
LEMMA RetryFacts ==
  ASSUME NEW w \in Pairs, Down(w.r), w.r.state # "closed"
  PROVE  Over(w, retryIn(w))
<1> DEFINE u == [w EXCEPT !.r.state = "waiting"]
           v == onClose(u, FALSE)
<1>1. u \in Pairs /\ Down(u.r) /\ u.l = w.l /\ u.r.state = "waiting"
  BY DEF Pairs, Relays, Down
<1>2. retryIn(w) = [v EXCEPT !.r.retry = TRUE]
  BY DEF retryIn
<1> HIDE DEF u
<1>3. /\ v \in Pairs /\ Down(v.r) /\ LinkStep(u.l, v.l)
      /\ v = u \/ (v.l.ethSend = "before" /\ v.r.state = "closed")
  BY <1>1, OnCloseFacts
<1> HIDE DEF v
<1>4. /\ [v EXCEPT !.r.retry = TRUE] \in Pairs /\ Down([v EXCEPT !.r.retry = TRUE].r)
      /\ [v EXCEPT !.r.retry = TRUE].l = v.l /\ [v EXCEPT !.r.retry = TRUE].r.state = v.r.state
      /\ [v EXCEPT !.r.retry = TRUE].r.retry
  BY <1>3 DEF Pairs, Relays, Down
<1> QED
  BY <1>1, <1>2, <1>3, <1>4 DEF Over

(* finish() gives up, whatever the handler did.                            *)
LEMMA FinishFacts ==
  ASSUME NEW w \in Pairs, OneLive(w.r)
  PROVE  Over(w, finish(w))
<1> DEFINE u == [w EXCEPT !.r = closeRelay(w.r)]
<1>1. w.r \in Relays /\ w.l \in Links
  BY DEF Pairs
<1>2. u \in Pairs /\ Down(u.r) /\ u.l = w.l /\ u.r.state = "closed"
  BY <1>1, CloseFacts DEF Pairs
<1>3. finish(w) = onClose(u, TRUE)
  BY DEF finish
<1> HIDE DEF u
<1> QED
  BY <1>2, <1>3, OnCloseFacts DEF Over

(* A failure more.                                                         *)
LEMMA FailedFacts ==
  ASSUME NEW r \in Relays
  PROVE  /\ Failed(r) \in Relays /\ Failed(r).state = r.state /\ Failed(r).ws = r.ws
         /\ Failed(r).live = r.live /\ Failed(r).checks = r.checks
<1>1. (IF r.failures < MaxFailures THEN r.failures + 1 ELSE r.failures) \in 0..MaxFailures
  BY UplinkConstants DEF Relays
<1> QED
  BY <1>1 DEF Failed, Relays

(* closed(), for a socket that did not open.                               *)
LEMMA RefusedFacts ==
  ASSUME NEW w \in Pairs, Down(w.r), w.r.state # "closed", w.r.checks < MaxChecks
  PROVE  Over(w, refusedUpgrade(w))
<1>1. w.r \in Relays /\ w.l \in Links
  BY DEF Pairs
<1> DEFINE f == Failed(w.r)
<1>2. /\ f \in Relays /\ f.state = w.r.state /\ Down(f) /\ f.checks = w.r.checks
  BY <1>1, FailedFacts DEF Down
<1>3. CASE w.r.failures = 0
  <2>1. refusedUpgrade(w) = [w EXCEPT !.r = [f EXCEPT !.state = "waiting", !.checks = @ + 1]]
    BY <1>3 DEF refusedUpgrade
  <2> HIDE DEF f
  <2>2. f.checks + 1 \in 0..MaxChecks /\ f.checks + 1 > 0
    BY <1>1, <1>2, UplinkConstants DEF Relays
  <2>3. /\ [f EXCEPT !.state = "waiting", !.checks = @ + 1] \in Relays
        /\ Down([f EXCEPT !.state = "waiting", !.checks = @ + 1])
        /\ [f EXCEPT !.state = "waiting", !.checks = @ + 1].state = "waiting"
        /\ [f EXCEPT !.state = "waiting", !.checks = @ + 1].checks > 0
    BY <1>2, <2>2 DEF Relays, Down
  <2> QED
    BY <1>1, <2>1, <2>3 DEF Over, Pairs, LinkStep
<1>4. CASE w.r.failures # 0
  <2>1. refusedUpgrade(w) = retryIn([w EXCEPT !.r = f])
    BY <1>4 DEF refusedUpgrade
  <2> HIDE DEF f
  <2>2. [w EXCEPT !.r = f] \in Pairs /\ [w EXCEPT !.r = f].r = f /\ [w EXCEPT !.r = f].l = w.l
    BY <1>2 DEF Pairs
  <2> QED
    BY <1>2, <2>1, <2>2, RetryFacts DEF Over
<1> QED
  BY <1>3, <1>4

(* closed(), for a session, by what its end means.                         *)
LEMMA SessionClosedFacts ==
  ASSUME NEW w \in Pairs, Down(w.r), w.r.state # "closed",
         NEW verdict \in {"final", "restart", "retry"}, NEW stable \in BOOLEAN
  PROVE  Over(w, sessionClosed(w, verdict, stable))
<1> DEFINE r == IF stable THEN [w.r EXCEPT !.failures = 0] ELSE w.r
<1>1. w.r \in Relays /\ w.l \in Links
  BY DEF Pairs
<1>2. /\ \A q \in Relays : /\ [q EXCEPT !.failures = 0] \in Relays
                           /\ [q EXCEPT !.failures = 0].state = q.state
                           /\ [q EXCEPT !.failures = 0].ws = q.ws
                           /\ [q EXCEPT !.failures = 0].live = q.live
  BY UplinkConstants DEF Relays
<1>3. r \in Relays /\ Down(r) /\ r.state # "closed"
  BY <1>1, <1>2 DEF Down
<1>4. sessionClosed(w, verdict, stable)
               = CASE verdict = "final"   -> finish([w EXCEPT !.r = r])
                   [] verdict = "restart" -> retryIn([w EXCEPT !.r = [r EXCEPT !.failures = 0]])
                   [] verdict = "retry"   -> retryIn([w EXCEPT !.r = Failed(r)])
  BY DEF sessionClosed
<1> HIDE DEF r
<1>5. /\ [r EXCEPT !.failures = 0] \in Relays /\ Down([r EXCEPT !.failures = 0])
      /\ [r EXCEPT !.failures = 0].state # "closed"
      /\ Failed(r) \in Relays /\ Down(Failed(r)) /\ Failed(r).state # "closed"
  BY <1>2, <1>3, FailedFacts DEF Down
<1>6. ASSUME NEW q \in Relays, Down(q), q.state # "closed"
      PROVE  Over(w, finish([w EXCEPT !.r = q])) /\ Over(w, retryIn([w EXCEPT !.r = q]))
  <2> DEFINE u == [w EXCEPT !.r = q]
  <2>1. u \in Pairs /\ u.r = q /\ u.l = w.l /\ OneLive(q)
    BY <1>6 DEF Pairs, Down, OneLive
  <2> HIDE DEF u
  <2>2. Over(u, finish(u)) /\ Over(u, retryIn(u))
    BY <1>6, <2>1, FinishFacts, RetryFacts
  <2>3. Over(w, finish(u)) /\ Over(w, retryIn(u))
    BY <2>1, <2>2 DEF Over
  <2> QED
    BY <2>3 DEF u
<1>7. CASE verdict = "final"
  BY <1>3, <1>4, <1>6, <1>7
<1>8. CASE verdict = "restart"
  BY <1>4, <1>5, <1>6, <1>8
<1>9. CASE verdict = "retry"
  BY <1>4, <1>5, <1>6, <1>9
<1> QED
  BY <1>7, <1>8, <1>9

-----------------------------------------------------------------------------
(* What a step has to keep: the invariant, and a connection that is closed *)
(* closed.                                                                 *)
StaysClosed == relay.state = "closed" => relay'.state = "closed" /\ relay'.live = 0
Kept == UpInv' /\ StaysClosed

(* The smaller of two numbers.                                             *)
LEMMA MinOfPair ==
  ASSUME NEW a \in Nat, NEW b \in Nat
  PROVE  /\ a <= b => Min({a, b}) = a
         /\ b <= a => Min({a, b}) = b
         /\ Min({a, b}) \in Nat
<1>1. ASSUME a <= b PROVE Min({a, b}) = a
  <2>1. a \in {a, b} /\ (\A y \in {a, b} : a =< y) /\ (\A x \in {a, b} : (\A y \in {a, b} : x =< y) => x = a)
    BY <1>1
  <2> QED
    BY <2>1 DEF Min
<1>2. ASSUME b <= a PROVE Min({a, b}) = b
  <2>1. b \in {a, b} /\ (\A y \in {a, b} : b =< y) /\ (\A x \in {a, b} : (\A y \in {a, b} : x =< y) => x = b)
    BY <1>2
  <2> QED
    BY <2>1 DEF Min
<1> QED
  BY <1>1, <1>2

(* The handlers of a helper leave the frames as they are.                  *)
LEMMA FramesKept ==
  ASSUME UpInv, LinkStep(link, link'), frames' = frames
  PROVE  FramesInv'
BY DEF UpInv, FramesInv, LinkStep

(* A session that is over, one way or the other.                           *)
LEMMA OverKept ==
  ASSUME UpInv, link.kind = "relaynet", link.promise # "none", relay.state # "closed",
         NEW w, w.l = link, NEW v, Over(w, v), Become(v), Quiet
  PROVE  Kept
<1>1. /\ relay' = v.r /\ link' = v.l /\ path' = path /\ frames' = frames
      /\ relay' \in Relays /\ link' \in Links /\ Down(relay') /\ LinkStep(link, link')
      /\ \/ relay'.state = "waiting" /\ (relay'.retry \/ relay'.checks > 0) /\ link' = link
         \/ relay'.state = "closed" /\ link'.ethSend = "before"
  BY DEF Become, Quiet, Over, Pairs
<1>2. FramesInv'
  BY <1>1, FramesKept
<1>3. OneLive(relay') /\ InStep(relay')
  BY <1>1 DEF OneLive, InStep, Down
<1>4. GivenBack(relay', link')
  BY <1>1 DEF UpInv, SessionInv, GivenBack
<1>5. link'.kind = "relaynet" /\ link'.promise # "none"
  BY <1>1 DEF LinkStep
<1> QED
  BY <1>1, <1>2, <1>3, <1>4, <1>5 DEF Kept, StaysClosed, UpInv, SessionInv

(* A step of the connection alone.                                         *)
LEMMA RelayKept ==
  ASSUME UpInv, UNCHANGED link, Quiet, relay' \in Relays, OneLive(relay'),
         link.kind = "relaynet" => InStep(relay'),
         link.kind = "wsproxy" \/ link.promise = "none" => Unused(relay'),
         link.promise = "none" => relay'.ws = "none",
         relay'.state = "closed" <=> relay.state = "closed"
  PROVE  Kept
<1>1. FramesInv'
  <2>1. LinkStep(link, link')
    BY DEF LinkStep
  <2> QED
    BY <2>1, FramesKept DEF Quiet
<1>2. SessionInv'
  BY DEF UpInv, SessionInv, GivenBack, Quiet
<1>3. StaysClosed
  <2> SUFFICES ASSUME relay.state = "closed" PROVE relay'.state = "closed" /\ relay'.live = 0
    BY DEF StaysClosed
  <2>1. link.kind = "relaynet"
    BY DEF UpInv, SessionInv, Unused, Links
  <2> QED
    BY <2>1 DEF InStep, OneLive, Relays
<1> QED
  BY <1>1, <1>2, <1>3 DEF Kept, UpInv

(* What waited goes out as the link opens, after what went out before.     *)
LEMMA FlushKept ==
  ASSUME UpInv, link.promise # "none", link' = LinkOpened(link), frames' = Flushed
  PROVE  FramesInv' /\ link' \in Links /\ link'.kind = link.kind /\ link'.threw = link.threw
         /\ link'.ethSend = link.ethSend /\ link'.promise # "none"
         /\ (link'.promise = "rejected" => link.promise = "rejected")
<1> DEFINE out == frames.out
           pen == link.pending
           new == out \o pen
<1>1. frames \in Frames /\ link \in Links /\ Ordered(out, pen, frames.n)
  BY DEF UpInv, SessionInv, FramesInv
<1>2. out \in Seq(1..MaxFrames) /\ pen \in Seq(1..MaxFrames) /\ frames.n \in 0..MaxFrames
  BY <1>1 DEF Frames, Links
<1>3. /\ frames' \in [n : 0..MaxFrames, early : 0..MaxFrames, out : {new}, deaths : 0..MaxDeaths]
      /\ frames'.out = new /\ frames'.n = frames.n /\ frames'.early = frames.early
  BY <1>1 DEF Flushed, Frames
<1>4. /\ link' \in Links /\ link'.kind = link.kind /\ link'.threw = link.threw
      /\ link'.ethSend = link.ethSend /\ link'.open /\ link'.pending = <<>>
      /\ link'.promise = (IF link.promise = "pending" THEN "resolved" ELSE link.promise)
  <2> DEFINE l == settle(link, "resolved")
  <2>1. /\ l \in Links /\ l.kind = link.kind /\ l.threw = link.threw /\ l.ethSend = link.ethSend
        /\ l.promise = (IF link.promise = "pending" THEN "resolved" ELSE link.promise)
    BY <1>1 DEF settle, Links
  <2>2. link' = [l EXCEPT !.open = TRUE, !.pending = <<>>]
    BY DEF LinkOpened
  <2>3. <<>> \in Seq(1..MaxFrames)
    OBVIOUS
  <2> HIDE DEF l
  <2> QED
    BY <2>1, <2>2, <2>3 DEF Links
<1> HIDE DEF out, pen
<1>5. /\ new \in Seq(1..MaxFrames) /\ Len(new) = Len(out) + Len(pen)
      /\ \A i \in 1..Len(out) : new[i] = out[i]
      /\ \A i \in (Len(out) + 1)..Len(new) : new[i] = pen[i - Len(out)] /\ i - Len(out) \in 1..Len(pen)
      /\ Len(out) \in Nat /\ Len(pen) \in Nat /\ DOMAIN new = 1..Len(new)
      /\ DOMAIN out = 1..Len(out) /\ DOMAIN pen = 1..Len(pen)
  BY <1>2
<1>6. Ordered(new, <<>>, frames.n)
  <2> HIDE DEF new
  <2>1. \A i \in DOMAIN new : new[i] <= frames.n
    <3> SUFFICES ASSUME NEW i \in DOMAIN new PROVE new[i] <= frames.n
      OBVIOUS
    <3>1. CASE i <= Len(out)
      <4>1. i \in DOMAIN out /\ new[i] = out[i]
        BY <1>5, <3>1
      <4> QED
        BY <1>1, <4>1 DEF Ordered
    <3>2. CASE i > Len(out)
      <4>1. i - Len(out) \in DOMAIN pen /\ new[i] = pen[i - Len(out)]
        BY <1>5, <3>2
      <4> QED
        BY <1>1, <4>1 DEF Ordered
    <3> QED
      BY <1>5, <3>1, <3>2
  <2>2. ASSUME NEW i \in DOMAIN new, NEW j \in DOMAIN new, i < j PROVE new[i] < new[j]
    <3>1. CASE j <= Len(out)
      BY <1>1, <1>5, <2>2, <3>1 DEF Ordered
    <3>2. CASE i > Len(out)
      <4>1. /\ i \in (Len(out) + 1)..Len(new) /\ j \in (Len(out) + 1)..Len(new)
            /\ i - Len(out) < j - Len(out)
        BY <1>5, <2>2, <3>2
      <4> QED
        BY <1>1, <1>5, <4>1 DEF Ordered
    <3>3. CASE i <= Len(out) /\ j > Len(out)
      <4>1. i \in 1..Len(out) /\ j \in (Len(out) + 1)..Len(new)
        BY <1>5, <3>3
      <4> QED
        BY <1>1, <1>5, <4>1 DEF Ordered
    <3> QED
      BY <1>5, <3>1, <3>2, <3>3
  <2> QED
    BY <2>1, <2>2 DEF Ordered
<1>7. ASSUME link'.promise = "resolved"
      PROVE  Begins(new, Min({frames.early, PENDING_MAX}))
  <2> DEFINE m == Min({frames.early, PENDING_MAX})
  <2>1. m \in Nat
    BY <1>1, MinOfPair, UplinkConstants DEF Frames
  <2>2. CASE link.promise = "pending"
    <3>1. out = <<>> /\ Len(pen) = m /\ Begins(pen, Len(pen))
      BY <2>2 DEF UpInv, FramesInv, out, pen
    <3>2. new = pen
      BY <1>2, <3>1
    <3> QED
      BY <3>1, <3>2
  <2>3. CASE link.promise = "resolved"
    <3>1. Begins(out, m)
      BY <2>3 DEF UpInv, FramesInv, out
    <3> HIDE DEF m, new
    <3>2. Len(out) >= m /\ \A i \in 1..m : out[i] = i
      BY <3>1 DEF Begins
    <3>3. Len(new) >= m
      BY <1>5, <2>1, <3>2
    <3>4. \A i \in 1..m : i \in 1..Len(out)
      BY <1>5, <2>1, <3>2
    <3>5. Begins(new, m)
      BY <1>5, <3>2, <3>3, <3>4 DEF Begins
    <3> QED
      BY <3>5 DEF m
  <2> QED
    BY <1>4, <1>7, <2>2, <2>3
<1> HIDE DEF new
<1>8. FramesInv'
  BY <1>3, <1>4, <1>5, <1>6, <1>7 DEF FramesInv, Frames
<1> QED
  BY <1>4, <1>8

-----------------------------------------------------------------------------
(* What the invariant says of a connection, by the kind of its link.       *)
LEMMA RelayFacts ==
  ASSUME UpInv
  PROVE  /\ relay \in Relays /\ link \in Links /\ OneLive(relay) /\ W \in Pairs
         /\ W.r = relay /\ W.l = link
         /\ link.kind = "relaynet" => InStep(relay)
         /\ link.kind = "wsproxy" => Unused(relay)
         /\ link.kind # "wsproxy" => link.kind = "relaynet"
         /\ link.promise = "none" => Unused(relay) /\ relay.ws = "none"
BY DEF UpInv, SessionInv, W, Pairs, Links

(* A connection that is closed has no socket.                              *)
LEMMA ClosedFacts ==
  ASSUME UpInv, relay.state = "closed"
  PROVE  relay.live = 0
<1>1. link.kind = "relaynet"
  BY RelayFacts DEF Unused
<1> QED
  BY <1>1, RelayFacts DEF InStep, OneLive, Relays

(* The pair after its connection has changed.                              *)
LEMMA PairFacts ==
  ASSUME UpInv, NEW q \in Relays
  PROVE  [W EXCEPT !.r = q] \in Pairs /\ [W EXCEPT !.r = q].r = q /\ [W EXCEPT !.r = q].l = link
BY RelayFacts DEF W, Pairs

(* A socket that is taken from the connection with its heartbeat.          *)
LEMMA DropFacts ==
  ASSUME UpInv
  PROVE  LET q == stopHeartbeat(detach(relay))
         IN /\ q \in Relays /\ Down(q) /\ OneLive(q) /\ q.state = relay.state
            /\ q.failures = relay.failures /\ q.checks = relay.checks
<1>1. detach(relay) \in Relays /\ Down(detach(relay)) /\ detach(relay).state = relay.state
      /\ detach(relay).failures = relay.failures /\ detach(relay).checks = relay.checks
  BY RelayFacts, DetachFacts
<1> QED
  BY <1>1, StopFacts DEF Down, OneLive

(* connectUplink(), which makes the first connection.                      *)
LEMMA ConnectUplinkKept ==
  ASSUME UpInv, connectUplink
  PROVE  Kept
<1>1. /\ link.promise = "none" /\ link' = [link EXCEPT !.promise = "pending", !.ethSend = "link"]
      /\ relay' = (IF link.kind = "relaynet" THEN connect(relay) ELSE [relay EXCEPT !.ws = "opening", !.live = 1])
      /\ path' = path /\ frames' = frames
  BY DEF connectUplink, Quiet
<1>2. /\ link' \in Links /\ link'.kind = link.kind /\ link'.promise = "pending"
      /\ link'.open = link.open /\ link'.pending = link.pending
  BY <1>1, RelayFacts DEF Links
<1>3. /\ frames.n = 0 /\ frames.early = 0 /\ frames.out = <<>>
      /\ link.pending = <<>> /\ ~link.open
  BY <1>1 DEF UpInv, FramesInv
<1>4. FramesInv'
  <2>1. Min({0, PENDING_MAX}) = 0
    BY MinOfPair, UplinkConstants
  <2>2. Begins(<<>>, 0)
    BY DEF Begins
  <2>3. Ordered(frames'.out, link'.pending, frames'.n) /\ frames' \in Frames
    BY <1>1, <1>2 DEF UpInv, FramesInv
  <2> QED
    BY <1>1, <1>2, <1>3, <2>1, <2>2, <2>3 DEF FramesInv
<1>5. relay.state = "idle" /\ relay.ws = "none"
  BY <1>1, RelayFacts DEF Unused
<1>6. /\ relay' \in Relays /\ OneLive(relay') /\ relay'.state # "closed"
      /\ link.kind = "relaynet" => InStep(relay')
      /\ link.kind = "wsproxy" => Unused(relay')
  <2>1. CASE link.kind = "relaynet"
    BY <1>1, <1>5, <2>1, RelayFacts, ConnectFacts
  <2>2. CASE link.kind = "wsproxy"
    <3>1. 1 \in 0..1 /\ relay' = [relay EXCEPT !.ws = "opening", !.live = 1]
      BY <1>1, <2>2
    <3>2. relay' \in Relays
      BY <3>1, RelayFacts, RelayFields
    <3>3. relay'.ws = "opening" /\ relay'.live = 1 /\ Unused(relay')
      BY <1>1, <3>1, RelayFacts DEF Relays, Unused
    <3> QED
      BY <2>2, <3>2, <3>3 DEF OneLive, Unused
  <2> QED
    BY <2>1, <2>2, RelayFacts
<1>7. SessionInv'
  BY <1>1, <1>2, <1>6 DEF SessionInv, UpInv, GivenBack
<1> QED
  BY <1>4, <1>5, <1>7 DEF Kept, UpInv, StaysClosed

(* A constructor that throws leaves ethSend where it put it.               *)
LEMMA ConnectThrowsKept ==
  ASSUME UpInv, connectThrows
  PROVE  Kept
<1>1. /\ link.promise = "none" /\ link.kind = "relaynet" /\ relay' = closeRelay(relay)
      /\ link' = [link EXCEPT !.promise = "rejected", !.ethSend = "link", !.threw = TRUE]
      /\ path' = path /\ frames' = frames
  BY DEF connectThrows, Quiet
<1>2. /\ link' \in Links /\ link'.kind = link.kind /\ link'.promise = "rejected" /\ link'.threw
      /\ link'.open = link.open /\ link'.pending = link.pending
  BY <1>1, RelayFacts DEF Links
<1>3. FramesInv'
  BY <1>1, <1>2 DEF UpInv, FramesInv
<1>4. relay' \in Relays /\ Down(relay') /\ relay'.state = "closed"
  BY <1>1, RelayFacts, CloseFacts
<1>5. SessionInv'
  BY <1>1, <1>2, <1>4 DEF SessionInv, UpInv, GivenBack, OneLive, InStep, Down
<1> QED
  BY <1>3, <1>4, <1>5 DEF Kept, UpInv, StaysClosed, Down

(* The socket of a session opens.                                          *)
LEMMA RelayOpenKept ==
  ASSUME UpInv, relayOpen
  PROVE  Kept
<1>1. /\ link.kind = "relaynet" /\ relay.ws = "opening" /\ path' = "good"
      /\ relay' = [relay EXCEPT !.ws = "open", !.state = "open", !.sessions = IF @ < 2 THEN @ + 1 ELSE @,
                                !.beat = TRUE, !.probe = FALSE]
      /\ IF relay.sessions = 0 THEN link' = LinkOpened(link) /\ frames' = Flushed
         ELSE link' = link /\ frames' = frames
  BY DEF relayOpen
<1>2. relay.state = "connecting" /\ relay.live = 1 /\ link.promise # "none"
  BY <1>1, RelayFacts DEF InStep, OneLive
<1>3. relay' \in Relays /\ relay'.ws = "open" /\ relay'.state = "open" /\ relay'.live = relay.live
  <2>1. (IF relay.sessions < 2 THEN relay.sessions + 1 ELSE relay.sessions) \in 0..2
    BY RelayFacts DEF Relays
  <2> QED
    BY <1>1, <2>1, RelayFacts DEF Relays
<1>4. OneLive(relay') /\ InStep(relay')
  BY <1>2, <1>3 DEF OneLive, InStep
<1>5. /\ FramesInv' /\ link' \in Links /\ link'.kind = link.kind /\ link'.threw = link.threw
      /\ link'.ethSend = link.ethSend /\ link'.promise # "none"
      /\ (link'.promise = "rejected" => link.promise = "rejected")
  <2>1. CASE relay.sessions = 0
    BY <1>1, <1>2, <2>1, FlushKept
  <2>2. CASE relay.sessions # 0
    <3>1. link' = link /\ frames' = frames /\ LinkStep(link, link')
      BY <1>1, <2>2 DEF LinkStep
    <3> QED
      BY <1>2, <3>1, FramesKept, RelayFacts
  <2> QED
    BY <2>1, <2>2
<1>6. SessionInv'
  BY <1>1, <1>3, <1>4, <1>5 DEF SessionInv, UpInv, GivenBack
<1> QED
  BY <1>2, <1>5, <1>6 DEF Kept, UpInv, StaysClosed

(* The relay speaks something else.                                        *)
LEMMA RelayMisfitKept ==
  ASSUME UpInv, relayMisfit
  PROVE  Kept
<1> DEFINE w == [W EXCEPT !.r = detach(relay)]
<1>1. link.kind = "relaynet" /\ relay.ws = "opening" /\ Become(finish(w)) /\ Quiet
  BY DEF relayMisfit
<1>2. detach(relay) \in Relays /\ OneLive(detach(relay))
  BY RelayFacts, DetachFacts
<1>3. w \in Pairs /\ w.l = link /\ OneLive(w.r)
  BY <1>2, PairFacts
<1>4. relay.state # "closed" /\ link.promise # "none"
  BY <1>1, RelayFacts DEF InStep
<1> HIDE DEF w
<1> QED
  BY <1>1, <1>3, <1>4, FinishFacts, OverKept

(* The socket of a session is closed before it opened.                     *)
LEMMA RelayRefusedKept ==
  ASSUME UpInv, relayRefused
  PROVE  Kept
<1> DEFINE q == stopHeartbeat(detach(relay))
           w == [W EXCEPT !.r = q]
<1>1. /\ link.kind = "relaynet" /\ relay.ws = "opening" /\ relay.checks < MaxChecks
      /\ Become(refusedUpgrade(w)) /\ Quiet
  BY DEF relayRefused
<1>2. q \in Relays /\ Down(q) /\ q.state = relay.state /\ q.checks = relay.checks
  BY DropFacts
<1>3. w \in Pairs /\ w.l = link /\ w.r = q
  BY <1>2, PairFacts
<1>4. relay.state # "closed" /\ link.promise # "none"
  BY <1>1, RelayFacts DEF InStep
<1> HIDE DEF w, q
<1>5. Over(w, refusedUpgrade(w))
  BY <1>1, <1>2, <1>3, <1>4, RefusedFacts
<1> QED
  BY <1>1, <1>3, <1>4, <1>5, OverKept

(* The socket of a session is closed after it opened.                      *)
LEMMA RelayClosedKept ==
  ASSUME UpInv, NEW verdict \in {"final", "restart", "retry"}, NEW stable \in BOOLEAN,
         relayClosed(verdict, stable)
  PROVE  Kept
<1> DEFINE q == stopHeartbeat(detach(relay))
           w == [W EXCEPT !.r = q]
<1>1. /\ link.kind = "relaynet" /\ relay.ws = "open"
      /\ Become(sessionClosed(w, verdict, stable)) /\ Quiet
  BY DEF relayClosed
<1>2. q \in Relays /\ Down(q) /\ q.state = relay.state
  BY DropFacts
<1>3. w \in Pairs /\ w.l = link /\ w.r = q
  BY <1>2, PairFacts
<1>4. relay.state # "closed" /\ link.promise # "none"
  BY <1>1, RelayFacts DEF InStep
<1> HIDE DEF w, q
<1>5. Over(w, sessionClosed(w, verdict, stable))
  BY <1>2, <1>3, <1>4, SessionClosedFacts
<1> QED
  BY <1>1, <1>3, <1>4, <1>5, OverKept

(* The answer of a token check, which only a connection that waits heeds.  *)
LEMMA TokenAnswerKept ==
  ASSUME UpInv, NEW refused \in BOOLEAN, tokenAnswer(refused)
  PROVE  Kept
<1> DEFINE w == [W EXCEPT !.r.checks = @ - 1]
           q == [relay EXCEPT !.checks = @ - 1]
<1>1. /\ relay.checks > 0 /\ Quiet
      /\ Become(IF relay.state # "waiting" THEN w ELSE IF refused THEN finish(w) ELSE retryIn(w))
  BY DEF tokenAnswer
<1>2. link.kind = "relaynet" /\ link.promise # "none"
  BY <1>1, RelayFacts DEF Unused
<1>3. /\ q \in Relays /\ q.state = relay.state /\ q.ws = relay.ws /\ q.live = relay.live
  <2>1. relay.checks - 1 \in 0..MaxChecks
    BY <1>1, RelayFacts, UplinkConstants DEF Relays
  <2> QED
    BY <2>1, RelayFacts DEF Relays
<1>4. w \in Pairs /\ w.l = link /\ w.r = q
  BY <1>3, RelayFacts DEF Pairs, W
<1> HIDE DEF w, q
<1>5. CASE relay.state = "waiting"
  <2>1. Down(w.r) /\ OneLive(w.r)
    BY <1>2, <1>3, <1>4, <1>5, RelayFacts DEF Down, OneLive, InStep, Relays
  <2>2. Over(w, finish(w)) /\ Over(w, retryIn(w))
    BY <1>3, <1>4, <1>5, <2>1, FinishFacts, RetryFacts
  <2> QED
    BY <1>1, <1>2, <1>4, <1>5, <2>2, OverKept
<1>6. CASE relay.state # "waiting"
  <2>1. relay' = q /\ link' = link
    BY <1>1, <1>4, <1>6 DEF Become
  <2>2. OneLive(relay') /\ InStep(relay')
    BY <1>2, <1>3, <1>6, <2>1, RelayFacts DEF OneLive, InStep
  <2> QED
    BY <1>1, <1>2, <1>3, <2>1, <2>2, RelayKept, RelayFacts
<1> QED
  BY <1>5, <1>6

(* The retry timer fires.                                                  *)
LEMMA RetryFiresKept ==
  ASSUME UpInv, retryFires
  PROVE  Kept
<1>1. relay.retry /\ relay' = connect(relay) /\ UNCHANGED link /\ Quiet
  BY DEF retryFires
<1>2. link.kind = "relaynet" /\ link.promise # "none"
  BY <1>1, RelayFacts DEF Unused
<1>3. /\ relay' \in Relays /\ OneLive(relay') /\ InStep(relay')
      /\ relay'.state = "closed" <=> relay.state = "closed"
  BY <1>1, <1>2, RelayFacts, ConnectFacts
<1> QED
  BY <1>1, <1>2, <1>3, RelayKept

(* The heartbeat's tick.                                                  *)
LEMMA HeartbeatKept ==
  ASSUME UpInv, heartbeat
  PROVE  Kept
<1>1. relay.beat /\ relay' = probe(relay) /\ UNCHANGED link /\ Quiet
  BY DEF heartbeat
<1>2. link.kind = "relaynet" /\ link.promise # "none"
  BY <1>1, RelayFacts DEF Unused
<1>3. /\ relay' \in Relays /\ OneLive(relay') /\ InStep(relay')
      /\ relay'.state = "closed" <=> relay.state = "closed"
  BY <1>1, <1>2, RelayFacts, ProbeFacts
<1> QED
  BY <1>1, <1>2, <1>3, RelayKept

(* Something is received, over either kind of link.                        *)
LEMMA ReceiveKept ==
  ASSUME UpInv, relayReceive
  PROVE  Kept
<1>1. /\ relay.ws = "open" /\ relay' = [relay EXCEPT !.probe = FALSE] /\ UNCHANGED link /\ Quiet
  BY DEF relayReceive
<1>2. /\ relay' \in Relays /\ OneLive(relay') /\ relay'.state = relay.state /\ relay'.ws = relay.ws
      /\ (InStep(relay) => InStep(relay')) /\ (Unused(relay) => Unused(relay'))
  BY <1>1, RelayFacts DEF Relays, OneLive, InStep, Unused
<1> QED
  BY <1>1, <1>2, RelayFacts, RelayKept

(* The probe expires: the session is over, or a late timer probes again.   *)
LEMMA ProbeExpiredKept ==
  ASSUME UpInv, NEW late \in BOOLEAN, probeExpired(late)
  PROVE  Kept
<1> DEFINE q == stopHeartbeat(detach(relay))
           w == [W EXCEPT !.r = q]
<1>1. /\ relay.probe /\ relay.ws = "open" /\ Quiet
      /\ Become(IF late THEN [W EXCEPT !.r = probe(relay)] ELSE sessionClosed(w, "retry", FALSE))
  BY DEF probeExpired, Expires, W
<1>2. link.kind = "relaynet" /\ link.promise # "none" /\ relay.state # "closed"
  BY <1>1, RelayFacts DEF Unused, InStep
<1>3. q \in Relays /\ Down(q) /\ q.state = relay.state
  BY DropFacts
<1>4. w \in Pairs /\ w.l = link /\ w.r = q
  BY <1>3, PairFacts
<1> HIDE DEF w, q
<1>5. CASE late
  <2>1. /\ probe(relay) \in Relays /\ OneLive(probe(relay)) /\ InStep(probe(relay))
        /\ probe(relay).state = relay.state
    BY <1>2, RelayFacts, ProbeFacts
  <2>2. relay' = probe(relay) /\ link' = link
    BY <1>1, <1>5, <2>1, PairFacts DEF Become
  <2> QED
    BY <1>1, <1>2, <2>1, <2>2, RelayKept
<1>6. CASE ~late
  <2>1. Over(w, sessionClosed(w, "retry", FALSE))
    BY <1>2, <1>3, <1>4, SessionClosedFacts
  <2> QED
    BY <1>1, <1>2, <1>4, <1>6, <2>1, OverKept
<1> QED
  BY <1>5, <1>6

(* An event after which the network may be back.                           *)
LEMMA WakeKept ==
  ASSUME UpInv, wake
  PROVE  Kept
<1>1. /\ link.kind = "relaynet" /\ relay.state \in {"open", "waiting"} /\ UNCHANGED link /\ Quiet
      /\ relay' = IF relay.state = "open" THEN probe(relay) ELSE connect(relay)
  BY DEF wake
<1>2. link.promise # "none"
  BY <1>1, RelayFacts DEF Unused
<1>3. /\ relay' \in Relays /\ OneLive(relay') /\ InStep(relay')
      /\ relay'.state = "closed" <=> relay.state = "closed"
  BY <1>1, RelayFacts, ProbeFacts, ConnectFacts
<1> QED
  BY <1>1, <1>2, <1>3, RelayKept

(* The page is put away.                                                   *)
LEMMA SuspendKept ==
  ASSUME UpInv, suspend
  PROVE  Kept
<1> DEFINE d == detach(stopHeartbeat(relay))
<1>1. /\ link.kind = "relaynet" /\ relay.state \notin {"closed", "idle"} /\ UNCHANGED link /\ Quiet
      /\ relay' = [d EXCEPT !.retry = FALSE, !.state = "waiting", !.suspended = TRUE]
  BY DEF suspend
<1>2. d \in Relays /\ Down(d)
  <2>1. stopHeartbeat(relay) \in Relays /\ OneLive(stopHeartbeat(relay))
    BY RelayFacts, StopFacts DEF OneLive
  <2> QED
    BY <2>1, DetachFacts
<1> HIDE DEF d
<1>3. /\ relay' \in Relays /\ relay'.ws = "none" /\ relay'.live = 0
      /\ relay'.state = "waiting" /\ relay'.suspended
  BY <1>1, <1>2 DEF Relays, Down
<1>4. link.promise # "none"
  BY <1>1, RelayFacts DEF Unused
<1> QED
  BY <1>1, <1>3, <1>4, RelayKept DEF OneLive, InStep

(* The plain WebSocket opens.                                              *)
LEMMA ProxyOpenKept ==
  ASSUME UpInv, proxyOpen
  PROVE  Kept
<1>1. /\ link.kind = "wsproxy" /\ relay.ws = "opening" /\ relay' = [relay EXCEPT !.ws = "open"]
      /\ link' = LinkOpened(link) /\ frames' = Flushed /\ path' = path
  BY DEF proxyOpen
<1>2. /\ relay' \in Relays /\ relay'.ws = "open" /\ OneLive(relay') /\ Unused(relay')
  BY <1>1, RelayFacts DEF Relays, OneLive, Unused
<1>3. link.promise # "none"
  BY <1>1, RelayFacts
<1>4. /\ FramesInv' /\ link' \in Links /\ link'.kind = link.kind /\ link'.threw = link.threw
      /\ link'.ethSend = link.ethSend /\ link'.promise # "none"
      /\ (link'.promise = "rejected" => link.promise = "rejected")
  BY <1>1, <1>3, FlushKept
<1>5. SessionInv'
  BY <1>1, <1>2, <1>4 DEF SessionInv, UpInv, GivenBack, Unused
<1>6. relay.state # "closed"
  BY <1>1, RelayFacts DEF Unused
<1> QED
  BY <1>4, <1>5, <1>6 DEF Kept, UpInv, StaysClosed

(* The plain WebSocket fails before it opens.                              *)
LEMMA ProxyFailedKept ==
  ASSUME UpInv, proxyFailed
  PROVE  Kept
<1>1. /\ link.kind = "wsproxy" /\ relay.ws = "opening" /\ relay' = detach(relay)
      /\ link' = settle(restore(link), "rejected") /\ path' = path /\ frames' = frames
  BY DEF proxyFailed, Quiet
<1>2. link' \in Links /\ LinkStep(link, link') /\ link'.ethSend = "before"
  BY <1>1, RelayFacts, RestoreFacts
<1>3. FramesInv'
  BY <1>1, <1>2, FramesKept
<1>4. /\ relay' \in Relays /\ OneLive(relay') /\ Down(relay') /\ relay'.state = relay.state
  BY <1>1, RelayFacts, DetachFacts
<1>5. relay' = [relay EXCEPT !.ws = "none", !.live = relay.live - 1]
  BY <1>1 DEF detach
<1>6. Unused(relay')
  BY <1>1, <1>5, RelayFacts DEF Relays, Unused
<1>7. link.promise # "none"
  BY <1>1, RelayFacts
<1>8. SessionInv'
  BY <1>1, <1>2, <1>4, <1>6, <1>7 DEF SessionInv, UpInv, GivenBack, LinkStep
<1> QED
  BY <1>3, <1>6, <1>8, <1>1, RelayFacts DEF Kept, UpInv, StaysClosed, Unused

(* The relay closes the plain WebSocket: nothing is put back.              *)
LEMMA ProxyClosedKept ==
  ASSUME UpInv, proxyClosed
  PROVE  Kept
<1>1. /\ link.kind = "wsproxy" /\ relay.ws = "open" /\ relay' = detach(relay)
      /\ link' = [link EXCEPT !.open = FALSE] /\ path' = path /\ frames' = frames
  BY DEF proxyClosed, Quiet
<1>2. /\ link' \in Links /\ link'.kind = link.kind /\ link'.promise = link.promise
      /\ link'.pending = link.pending /\ ~link'.open /\ link'.threw = link.threw
      /\ link'.ethSend = link.ethSend
  BY <1>1, RelayFacts DEF Links
<1>3. FramesInv'
  BY <1>1, <1>2 DEF UpInv, FramesInv
<1>4. /\ relay' \in Relays /\ OneLive(relay') /\ Down(relay') /\ relay'.state = relay.state
  BY <1>1, RelayFacts, DetachFacts
<1>5. relay' = [relay EXCEPT !.ws = "none", !.live = relay.live - 1]
  BY <1>1 DEF detach
<1>6. Unused(relay')
  BY <1>1, <1>5, RelayFacts DEF Relays, Unused
<1>7. link.promise # "none"
  BY <1>1, RelayFacts
<1>8. SessionInv'
  BY <1>1, <1>2, <1>4, <1>6, <1>7 DEF SessionInv, UpInv, GivenBack
<1> QED
  BY <1>3, <1>6, <1>8, <1>1, RelayFacts DEF Kept, UpInv, StaysClosed, Unused

(* The link's close().                                                     *)
LEMMA CloseLinkKept ==
  ASSUME UpInv, closeLink
  PROVE  Kept
<1>1. /\ link.promise = "resolved" /\ link' = restore(link) /\ path' = path /\ frames' = frames
      /\ relay' = IF link.kind = "relaynet" THEN closeRelay(relay) ELSE detach(relay)
  BY DEF closeLink, Quiet
<1>2. link' \in Links /\ LinkStep(link, link') /\ link'.ethSend = "before"
  BY <1>1, RelayFacts, RestoreFacts
<1>3. FramesInv'
  BY <1>1, <1>2, FramesKept
<1>4. CASE link.kind = "relaynet"
  <2>1. relay' \in Relays /\ Down(relay') /\ relay'.state = "closed"
    BY <1>1, <1>4, RelayFacts, CloseFacts
  <2>2. SessionInv'
    BY <1>1, <1>2, <1>4, <2>1 DEF SessionInv, UpInv, GivenBack, LinkStep, OneLive, InStep, Down
  <2> QED
    BY <1>3, <2>1, <2>2 DEF Kept, UpInv, StaysClosed, Down
<1>5. CASE link.kind = "wsproxy"
  <2>1. relay' = detach(relay)
    BY <1>1, <1>5
  <2>2. /\ relay' \in Relays /\ OneLive(relay')
    BY <2>1, RelayFacts, DetachFacts
  <2>3. relay' = [relay EXCEPT !.ws = "none", !.live = IF relay.ws = "none" THEN relay.live ELSE relay.live - 1]
    BY <2>1 DEF detach
  <2>4. Unused(relay')
    BY <1>5, <2>3, RelayFacts DEF Relays, Unused
  <2>5. SessionInv'
    BY <1>1, <1>2, <1>5, <2>2, <2>4 DEF SessionInv, UpInv, GivenBack, LinkStep
  <2> QED
    BY <1>3, <1>5, <2>5, RelayFacts DEF Kept, UpInv, StaysClosed, Unused
<1> QED
  BY <1>4, <1>5, RelayFacts

(* The network behind a socket dies.                                       *)
LEMMA PathDiesKept ==
  ASSUME UpInv, pathDies
  PROVE  Kept
<1>1. /\ relay.ws = "open" /\ frames.deaths < MaxDeaths /\ path' = "dead" /\ relay' = relay /\ link' = link
      /\ frames' = [frames EXCEPT !.deaths = @ + 1]
  BY DEF pathDies
<1>2. /\ frames' \in Frames /\ frames'.n = frames.n /\ frames'.early = frames.early /\ frames'.out = frames.out
  <2>1. frames \in Frames
    BY DEF UpInv, FramesInv
  <2>2. frames.deaths + 1 \in 0..MaxDeaths
    BY <1>1, <2>1, UplinkConstants DEF Frames
  <2> QED
    BY <1>1, <2>1, <2>2 DEF Frames
<1>3. FramesInv'
  BY <1>1, <1>2 DEF UpInv, FramesInv
<1>4. SessionInv'
  BY <1>1 DEF UpInv, SessionInv
<1>5. relay.state # "closed"
  BY <1>1, RelayFacts DEF InStep, Unused
<1> QED
  BY <1>3, <1>4, <1>5 DEF Kept, UpInv, StaysClosed

(* One more frame at the end of a sequence.                                *)
LEMMA OneMore ==
  ASSUME NEW s \in Seq(Nat), NEW f \in Nat
  PROVE  /\ Append(s, f) \in Seq(Nat) /\ Len(Append(s, f)) = Len(s) + 1
         /\ Append(s, f)[Len(s) + 1] = f /\ \A i \in 1..Len(s) : Append(s, f)[i] = s[i]
         /\ DOMAIN Append(s, f) = 1..(Len(s) + 1) /\ DOMAIN s = 1..Len(s) /\ Len(s) \in Nat
         /\ \A i \in DOMAIN s : s[i] \in Nat
<1>1. Append(s, f) \in Seq(Nat) /\ Len(Append(s, f)) = Len(s) + 1
  OBVIOUS
<1>2. Append(s, f)[Len(s) + 1] = f /\ \A i \in 1..Len(s) : Append(s, f)[i] = s[i]
  OBVIOUS
<1>3. DOMAIN s = 1..Len(s) /\ Len(s) \in Nat /\ \A i \in DOMAIN s : s[i] \in Nat
  OBVIOUS
<1> QED
  BY <1>1, <1>2, <1>3

(* The next frame comes after all the others, wherever it goes.            *)
LEMMA NextOrdered ==
  ASSUME NEW out \in Seq(Nat), NEW pen \in Seq(Nat), NEW n \in Nat, Ordered(out, pen, n)
  PROVE  /\ Ordered(out, pen, n + 1)
         /\ Ordered(out, Append(pen, n + 1), n + 1)
         /\ pen = <<>> => Ordered(Append(out, n + 1), <<>>, n + 1)
<1> DEFINE f == n + 1
<1>1. f \in Nat /\ (\A x \in Nat : x <= n => x < f /\ x <= f)
  OBVIOUS
<1>2. /\ \A i \in DOMAIN out : out[i] \in Nat /\ out[i] <= n
      /\ \A j \in DOMAIN pen : pen[j] \in Nat /\ pen[j] <= n
  BY DEF Ordered
<1> HIDE DEF f
<1>3. Ordered(out, pen, f)
  BY <1>1, <1>2 DEF Ordered
<1>4. ASSUME NEW s \in Seq(Nat), \A i \in DOMAIN s : s[i] \in Nat /\ s[i] <= n,
             \A i, j \in DOMAIN s : i < j => s[i] < s[j]
      PROVE  /\ \A i \in DOMAIN Append(s, f) : Append(s, f)[i] <= f
             /\ \A i, j \in DOMAIN Append(s, f) : i < j => Append(s, f)[i] < Append(s, f)[j]
  <2> DEFINE t == Append(s, f)
  <2>1. /\ DOMAIN t = 1..(Len(s) + 1) /\ DOMAIN s = 1..Len(s) /\ Len(s) \in Nat
        /\ t[Len(s) + 1] = f /\ \A i \in 1..Len(s) : t[i] = s[i]
    BY <1>1, OneMore
  <2> HIDE DEF t
  <2>2. \A i \in DOMAIN t : i = Len(s) + 1 \/ (i \in DOMAIN s /\ t[i] = s[i] /\ i < Len(s) + 1)
    BY <2>1
  <2>3. \A i \in DOMAIN t : t[i] <= f
    <3> SUFFICES ASSUME NEW i \in DOMAIN t PROVE t[i] <= f
      OBVIOUS
    <3>1. CASE i = Len(s) + 1
      BY <1>1, <2>1, <3>1
    <3>2. CASE i \in DOMAIN s /\ t[i] = s[i]
      BY <1>1, <1>4, <3>2
    <3> QED
      BY <2>2, <3>1, <3>2
  <2>4. \A i, j \in DOMAIN t : i < j => t[i] < t[j]
    <3> SUFFICES ASSUME NEW i \in DOMAIN t, NEW j \in DOMAIN t, i < j PROVE t[i] < t[j]
      OBVIOUS
    <3>1. i \in DOMAIN s /\ t[i] = s[i]
      BY <2>1, <2>2
    <3> QED
      BY <1>1, <1>4, <2>1, <2>2, <3>1
  <2> QED
    BY <2>3, <2>4 DEF t
<1>5. Ordered(out, Append(pen, f), f)
  <2>1. \A i, j \in DOMAIN pen : i < j => pen[i] < pen[j]
    BY DEF Ordered
  <2>2. /\ \A i \in DOMAIN Append(pen, f) : Append(pen, f)[i] <= f
        /\ \A i, j \in DOMAIN Append(pen, f) : i < j => Append(pen, f)[i] < Append(pen, f)[j]
    BY <1>2, <1>4, <2>1
  <2>3. \A i \in DOMAIN out, j \in DOMAIN Append(pen, f) : out[i] < Append(pen, f)[j]
    <3> SUFFICES ASSUME NEW i \in DOMAIN out, NEW j \in DOMAIN Append(pen, f)
                 PROVE  out[i] < Append(pen, f)[j]
      OBVIOUS
    <3>1. (j \in DOMAIN pen /\ Append(pen, f)[j] = pen[j]) \/ Append(pen, f)[j] = f
      BY <1>1, OneMore
    <3> QED
      BY <1>1, <1>2, <3>1 DEF Ordered
  <2> QED
    BY <1>3, <2>2, <2>3 DEF Ordered
<1>6. Ordered(Append(out, f), <<>>, f)
  <2>1. \A i, j \in DOMAIN out : i < j => out[i] < out[j]
    BY DEF Ordered
  <2>2. /\ \A i \in DOMAIN Append(out, f) : Append(out, f)[i] <= f
        /\ \A i, j \in DOMAIN Append(out, f) : i < j => Append(out, f)[i] < Append(out, f)[j]
    BY <1>2, <1>4, <2>1
  <2> QED
    BY <2>2 DEF Ordered
<1> QED
  BY <1>3, <1>5, <1>6 DEF f

(* What a sequence begins with, it still begins with.                      *)
LEMMA NextBegins ==
  ASSUME NEW s \in Seq(Nat), NEW f \in Nat, NEW m \in Nat, Begins(s, m)
  PROVE  /\ Begins(Append(s, f), m)
         /\ m = Len(s) /\ f = m + 1 => Begins(Append(s, f), m + 1)
<1> DEFINE t == Append(s, f)
<1>1. /\ Len(t) = Len(s) + 1 /\ Len(s) \in Nat
      /\ t[Len(s) + 1] = f /\ \A i \in 1..Len(s) : t[i] = s[i]
  BY OneMore
<1>2. Len(s) >= m /\ \A i \in 1..m : s[i] = i /\ i \in 1..Len(s)
  BY <1>1 DEF Begins
<1> HIDE DEF t
<1>3. Begins(t, m)
  BY <1>1, <1>2 DEF Begins
<1>4. ASSUME m = Len(s), f = m + 1 PROVE Begins(t, m + 1)
  <2>1. \A i \in 1..(m + 1) : i = m + 1 \/ i \in 1..m
    OBVIOUS
  <2> QED
    BY <1>1, <1>2, <1>4, <2>1 DEF Begins
<1> QED
  BY <1>3, <1>4 DEF t

(* There is room for one more to wait, or there is none.                   *)
LEMMA NextWaits ==
  ASSUME NEW n \in Nat, NEW len \in Nat, len = Min({n, PENDING_MAX})
  PROVE  /\ len < PENDING_MAX => len = n /\ Min({n + 1, PENDING_MAX}) = n + 1
         /\ ~(len < PENDING_MAX) => len = PENDING_MAX /\ Min({n + 1, PENDING_MAX}) = len
<1>1. PENDING_MAX \in Nat /\ n + 1 \in Nat
  BY UplinkConstants
<1>2. (n <= PENDING_MAX => len = n) /\ (PENDING_MAX <= n => len = PENDING_MAX)
  BY <1>1, MinOfPair
<1>3. /\ n + 1 <= PENDING_MAX => Min({n + 1, PENDING_MAX}) = n + 1
      /\ PENDING_MAX <= n + 1 => Min({n + 1, PENDING_MAX}) = PENDING_MAX
  BY <1>1, MinOfPair
<1> QED
  BY <1>1, <1>2, <1>3

(* The board sends a frame: over the link, or to wait for it if there is   *)
(* room.                                                                   *)
LEMMA EthSendKept ==
  ASSUME UpInv, ethSend
  PROVE  Kept
<1> DEFINE f == frames.n + 1
<1>1. /\ link.ethSend = "link" /\ frames.n < MaxFrames /\ relay' = relay /\ path' = path
      /\ IF link.open
         THEN /\ frames' = [frames EXCEPT !.n = f, !.out = IF relay.ws = "open" THEN Append(@, f) ELSE @]
              /\ link' = link
         ELSE /\ frames' = [frames EXCEPT !.n = f, !.early = IF link.promise = "pending" THEN f ELSE @]
              /\ link' = IF Len(link.pending) < PENDING_MAX
                         THEN [link EXCEPT !.pending = Append(@, f)] ELSE link
  BY DEF ethSend
<1>2. frames \in Frames /\ link \in Links /\ Ordered(frames.out, link.pending, frames.n)
  BY RelayFacts DEF UpInv, FramesInv
<1>3. /\ f \in 1..MaxFrames /\ f \in 0..MaxFrames /\ frames.n \in Nat /\ f = frames.n + 1
      /\ frames.out \in Seq(1..MaxFrames) /\ link.pending \in Seq(1..MaxFrames)
  BY <1>1, <1>2, UplinkConstants DEF Frames, Links
<1> HIDE DEF f
<1>4. /\ frames.out \in Seq(Nat) /\ link.pending \in Seq(Nat) /\ f \in Nat
      /\ Append(frames.out, f) \in Seq(1..MaxFrames) /\ Append(link.pending, f) \in Seq(1..MaxFrames)
  BY <1>3, UplinkConstants
<1>5. CASE link.open
  <2>1. link' = link /\ link.pending = <<>> /\ link.promise \notin {"none", "pending"}
    BY <1>1, <1>5 DEF UpInv, FramesInv
  <2>2. /\ frames' \in Frames /\ frames'.n = f /\ frames'.early = frames.early
        /\ frames'.out = frames.out \/ frames'.out = Append(frames.out, f)
    BY <1>1, <1>2, <1>3, <1>4, <1>5 DEF Frames
  <2>3. Ordered(frames'.out, <<>>, f)
    <3>1. Ordered(frames.out, <<>>, f) /\ Ordered(Append(frames.out, f), <<>>, f)
      BY <1>2, <1>3, <1>4, <2>1, NextOrdered
    <3> QED
      BY <2>2, <3>1
  <2>4. ASSUME link.promise = "resolved"
        PROVE  Begins(frames'.out, Min({frames.early, PENDING_MAX}))
    <3> DEFINE m == Min({frames.early, PENDING_MAX})
    <3>1. m \in Nat
      BY <1>2, MinOfPair, UplinkConstants DEF Frames
    <3>2. Begins(frames.out, m)
      BY <2>4 DEF UpInv, FramesInv
    <3> HIDE DEF m
    <3>3. Begins(frames'.out, m)
      BY <1>4, <2>2, <3>1, <3>2, NextBegins
    <3> QED
      BY <3>3 DEF m
  <2>5. FramesInv'
    BY <2>1, <2>2, <2>3, <2>4 DEF FramesInv
  <2>6. SessionInv'
    BY <1>1, <2>1 DEF UpInv, SessionInv
  <2> QED
    BY <1>1, <2>5, <2>6, ClosedFacts DEF Kept, UpInv, StaysClosed
<1>6. CASE ~link.open
  <2>1. /\ frames' \in Frames /\ frames'.n = f /\ frames'.out = frames.out
        /\ frames'.early = (IF link.promise = "pending" THEN f ELSE frames.early)
    BY <1>1, <1>2, <1>3, <1>6 DEF Frames
  <2>2. /\ link' \in Links /\ link'.kind = link.kind /\ link'.open = link.open /\ link'.ethSend = link.ethSend
        /\ link'.promise = link.promise /\ link'.threw = link.threw
        /\ link'.pending = (IF Len(link.pending) < PENDING_MAX THEN Append(link.pending, f) ELSE link.pending)
    <3>1. CASE Len(link.pending) < PENDING_MAX
      <4>1. link' = [link EXCEPT !.pending = Append(link.pending, f)]
        BY <1>1, <1>6, <3>1
      <4> QED
        BY <1>2, <1>4, <3>1, <4>1 DEF Links
    <3>2. CASE ~(Len(link.pending) < PENDING_MAX)
      BY <1>1, <1>2, <1>6, <3>2
    <3> QED
      BY <3>1, <3>2
  <2>3. link.promise # "none"
    BY <1>1 DEF UpInv, SessionInv
  <2>4. Ordered(frames.out, link'.pending, f)
    <3>1. Ordered(frames.out, link.pending, f) /\ Ordered(frames.out, Append(link.pending, f), f)
      BY <1>2, <1>3, <1>4, NextOrdered
    <3> QED
      BY <2>2, <3>1
  <2>5. ASSUME link.promise = "pending"
        PROVE  /\ Len(link'.pending) = Min({f, PENDING_MAX})
               /\ Begins(link'.pending, Len(link'.pending))
    <3>1. /\ Len(link.pending) = Min({frames.n, PENDING_MAX})
          /\ Begins(link.pending, Len(link.pending)) /\ frames.early = frames.n
      BY <2>5 DEF UpInv, FramesInv
    <3>2. /\ Len(link.pending) \in Nat
          /\ Len(link.pending) < PENDING_MAX => Len(link.pending) = frames.n /\ Min({f, PENDING_MAX}) = f
          /\ ~(Len(link.pending) < PENDING_MAX) => Min({f, PENDING_MAX}) = Len(link.pending)
      <4>1. Len(link.pending) \in Nat
        BY <1>4
      <4>2. /\ Len(link.pending) < PENDING_MAX
                 => Len(link.pending) = frames.n /\ Min({frames.n + 1, PENDING_MAX}) = frames.n + 1
            /\ ~(Len(link.pending) < PENDING_MAX) => Min({frames.n + 1, PENDING_MAX}) = Len(link.pending)
        BY <1>3, <3>1, <4>1, NextWaits
      <4> QED
        BY <1>3, <4>1, <4>2
    <3>3. CASE Len(link.pending) < PENDING_MAX
      <4>1. link'.pending = Append(link.pending, f) /\ Len(link'.pending) = f
        BY <1>3, <1>4, <2>2, <3>2, <3>3
      <4>2. Begins(link'.pending, f)
        BY <1>3, <1>4, <3>1, <3>2, <3>3, <4>1, NextBegins
      <4> QED
        BY <3>2, <3>3, <4>1, <4>2
    <3>4. CASE ~(Len(link.pending) < PENDING_MAX)
      BY <2>2, <3>1, <3>2, <3>4
    <3> QED
      BY <3>3, <3>4
  <2>6. link.promise = "pending" => frames.out = <<>>
    BY DEF UpInv, FramesInv
  <2>7. link.promise = "resolved" => Begins(frames.out, Min({frames.early, PENDING_MAX}))
    BY DEF UpInv, FramesInv
  <2>8. FramesInv'
    BY <1>6, <2>1, <2>2, <2>3, <2>4, <2>5, <2>6, <2>7 DEF FramesInv
  <2>9. SessionInv'
    BY <1>1, <2>2, <2>3 DEF UpInv, SessionInv, GivenBack
  <2> QED
    BY <1>1, <2>8, <2>9, ClosedFacts DEF Kept, UpInv, StaysClosed
<1> QED
  BY <1>5, <1>6

-----------------------------------------------------------------------------
(* The invariant holds at first.                                           *)
LEMMA UpInvInit == UplinkInit => UpInv
<1> SUFFICES ASSUME UplinkInit PROVE UpInv
  OBVIOUS
<1>1. /\ relay = RelayInit0 /\ link \in {LinkInit0(k) : k \in {"wsproxy", "relaynet"}}
      /\ path = "good" /\ frames = [n |-> 0, early |-> 0, out |-> <<>>, deaths |-> 0]
  BY DEF UplinkInit
<1>2. /\ 0 \in 0..MaxChecks /\ 0 \in 0..MaxFailures /\ 0 \in 0..MaxFrames /\ 0 \in 0..MaxDeaths
      /\ 0 \in 0..1 /\ 0 \in 0..2
  BY UplinkConstants
<1>3. /\ relay \in Relays /\ OneLive(relay) /\ InStep(relay) /\ Unused(relay) /\ relay.ws = "none"
      /\ relay.state = "idle"
  BY <1>1, <1>2 DEF RelayInit0, Relays, OneLive, InStep, Unused
<1>4. /\ link \in Links /\ link.promise = "none" /\ link.ethSend = "before" /\ ~link.open
      /\ link.pending = <<>>
  <2>1. PICK k \in {"wsproxy", "relaynet"} : link = LinkInit0(k)
    BY <1>1
  <2>2. <<>> \in Seq(1..MaxFrames)
    OBVIOUS
  <2> QED
    BY <2>1, <2>2 DEF LinkInit0, Links
<1>5. SessionInv
  BY <1>1, <1>3, <1>4 DEF SessionInv, GivenBack
<1>6. FramesInv
  <2>1. frames \in Frames
    BY <1>1, <1>2 DEF Frames
  <2> QED
    BY <1>1, <1>4, <2>1 DEF FramesInv, Ordered
<1> QED
  BY <1>5, <1>6 DEF UpInv

(* Every event of the connection, of the link and of the board keeps it.   *)
LEMMA UpInvStep == UpInv /\ [UplinkNext]_upVars => Kept
<1> SUFFICES ASSUME UpInv, [UplinkNext]_upVars PROVE Kept
  OBVIOUS
<1>1. CASE connectUplink
  BY <1>1, ConnectUplinkKept
<1>2. CASE connectThrows
  BY <1>2, ConnectThrowsKept
<1>3. CASE relayOpen
  BY <1>3, RelayOpenKept
<1>4. CASE relayMisfit
  BY <1>4, RelayMisfitKept
<1>5. CASE relayRefused
  BY <1>5, RelayRefusedKept
<1>6. ASSUME NEW v \in {"final", "restart", "retry"}, NEW stable \in BOOLEAN, relayClosed(v, stable)
      PROVE  Kept
  BY <1>6, RelayClosedKept
<1>7. ASSUME NEW b \in BOOLEAN, tokenAnswer(b) PROVE Kept
  BY <1>7, TokenAnswerKept
<1>8. ASSUME NEW b \in BOOLEAN, probeExpired(b) PROVE Kept
  BY <1>8, ProbeExpiredKept
<1>9. CASE retryFires
  BY <1>9, RetryFiresKept
<1>10. CASE heartbeat
  BY <1>10, HeartbeatKept
<1>11. CASE relayReceive
  BY <1>11, ReceiveKept
<1>12. CASE wake
  BY <1>12, WakeKept
<1>13. CASE suspend
  BY <1>13, SuspendKept
<1>14. CASE proxyOpen
  BY <1>14, ProxyOpenKept
<1>15. CASE proxyFailed
  BY <1>15, ProxyFailedKept
<1>16. CASE proxyClosed
  BY <1>16, ProxyClosedKept
<1>17. CASE closeLink
  BY <1>17, CloseLinkKept
<1>18. CASE ethSend
  BY <1>18, EthSendKept
<1>19. CASE pathDies
  BY <1>19, PathDiesKept
<1>20. CASE UNCHANGED upVars
  <2>1. UpInv'
    BY <1>20 DEF upVars, UpInv, SessionInv, FramesInv
  <2> QED
    BY <1>20, <2>1, ClosedFacts DEF upVars, Kept, StaysClosed
<1> QED
  BY <1>1, <1>2, <1>3, <1>4, <1>5, <1>6, <1>7, <1>8, <1>9, <1>10, <1>11, <1>12, <1>13, <1>14,
     <1>15, <1>16, <1>17, <1>18, <1>19, <1>20 DEF UplinkNext

(* However refusals, retries, probes, wakes, suspends, late answers and    *)
(* closes interleave, there is one socket at most, the connection says     *)
(* truly whether it has one, and a connection that waits has something to  *)
(* wait for (RelayConnection of relaynet.mjs).                             *)
THEOREM OneSessionAtMost == UplinkInit /\ [][UplinkNext]_upVars => []SessionSafety
<1>1. UpInv => SessionSafety
  <2> SUFFICES ASSUME UpInv PROVE SessionSafety
    OBVIOUS
  <2>1. relay.state = "waiting" => link.kind = "relaynet"
    BY RelayFacts DEF Unused
  <2>2. WaitsForSomething
    BY <2>1, RelayFacts DEF WaitsForSomething, InStep
  <2>3. OneSocket
    BY RelayFacts DEF OneSocket, OneLive, InStep
  <2>4. UplinkTypeOK
    BY DEF UpInv, SessionInv, UplinkTypeOK, Relays, Links
  <2> QED
    BY <2>2, <2>3, <2>4 DEF SessionSafety
<1>2. Kept => UpInv'
  BY DEF Kept
<1> QED
  BY <1>1, <1>2, UpInvInit, UpInvStep, PTL

(* The frames of the board go out in the order they were sent, each once,  *)
(* those that waited first, and the platform's ethSend is put back when    *)
(* the link is over (connectUplink() and connectRelayV1()).                *)
THEOREM FramesGoWhereTheyBelong == UplinkInit /\ [][UplinkNext]_upVars => []FramesSafety
<1>1. UpInv => FramesSafety
  BY DEF UpInv, SessionInv, FramesInv, FramesSafety, PutBack, GivenBack, FramesInOrder, Ordered, Begins
<1>2. Kept => UpInv'
  BY DEF Kept
<1> QED
  BY <1>1, <1>2, UpInvInit, UpInvStep, PTL

(* A connection that is closed stays closed and opens no socket, whatever  *)
(* timer was set as it closed and whatever answer is still to come         *)
(* (close() and retryIn() of relaynet.mjs).                                *)
THEOREM ClosedForGood == UplinkInit /\ [][UplinkNext]_upVars => ClosedStays
<1>1. UpInv /\ [UplinkNext]_upVars =>
        [relay.state = "closed" => relay'.state = "closed" /\ relay'.live = 0]_upVars
  BY UpInvStep DEF Kept, StaysClosed
<1>2. Kept => UpInv'
  BY DEF Kept
<1> QED
  BY <1>1, <1>2, UpInvInit, UpInvStep, PTL DEF ClosedStays
=============================================================================
