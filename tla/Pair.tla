-------------------------------- MODULE Pair --------------------------------
(***************************************************************************)
(* Two boards on one timeline (host/pair.mjs), with the part of each       *)
(* board's driver loop that moves its clock (runUntil() and                *)
(* advanceToNextDeadline() of host/core.mjs).                              *)
(*                                                                         *)
(* A board's clock starts at zero when it is powered on; its epoch puts it *)
(* on the pair's timeline.  Frames carry the time they arrive, a wire's    *)
(* latency after they are sent.  The pair runs one board at a time, the    *)
(* one that is behind, and gives it a limit beyond which the other board   *)
(* could still reach it.                                                   *)
(*                                                                         *)
(* The guest is whatever it may do to the clock and the wire in a step:    *)
(* spin, program its alarm, send, read, reboot, and suspend.  It does so   *)
(* only while it has work: from power-on, or from an interrupt, until it   *)
(* idles.  An idle thread that is woken for nothing idles again.  A board  *)
(* has no deadlines but its alarm and the frames.                          *)
(***************************************************************************)
EXTENDS Integers, Sequences

CONSTANTS
  Latency,      \* LINK_LATENCY_NS
  Delay,        \* delayNs: when the second board is powered on
  PaceModes,    \* the values opts.paced may have
  PaceYield,    \* PACE_YIELD_NS
  QueueMax,     \* ETH_QUEUE_MAX
  MaxTime,      \* maxTimeMs, on a board's own clock
  MaxReboots,   \* maxReboots of each board
  MaxPresses,   \* bound: how often someone outside touches a board
  Readers       \* the boards whose guest has a driver that reads frames

Boards == {0, 1}
Null   == -1

ASSUME PairAssumption ==
  /\ Latency \in Nat \ {0} /\ Delay \in Nat
  /\ PaceModes \subseteq BOOLEAN /\ PaceYield \in Nat \ {0}
  /\ QueueMax \in Nat \ {0} /\ MaxTime \in Nat
  /\ MaxReboots \in Nat /\ MaxPresses \in Nat
  /\ Readers \subseteq Boards

VARIABLES
  paced,        \* opts.paced
  on,           \* Pair.on
  epoch,        \* epochNs of each board
  now,          \* nowNs of each board, on its own clock
  alarm,        \* alarmNs of each board, on its own clock
  queue,        \* ethQueue of each board: arrival times on the timeline
  stepLimit,    \* stepLimitNs of the board that runs, on its own clock
  seen,         \* Pair.seen
  latched,      \* externalIrqs of each board, on lines it has enabled
  work,         \* the guest has a thread to run or an interrupt to take
  pc,           \* "pick", "until" and "guest": where the host is
  turn,         \* the board runUntil() was called on last
  reboots,      \* reboots of each board
  presses,      \* counts MaxPresses
  ended,        \* why the run is over, "no" while it is not
  settled       \* history: how far each board's clock had come when it last
                \* began a step or let time pass idle, on the timeline

boardVars == <<paced, on, epoch, now, alarm, queue, latched, work, reboots>>
vars      == <<boardVars, stepLimit, seen, pc, turn, presses, ended, settled>>

Other(i)   == 1 - i
Later(a, b) == IF a > b THEN a ELSE b
Start(i)   == IF i = 0 THEN 0 ELSE Delay

(* globalNs *)
Global(i) == epoch[i] + now[i]

(* Pair.time() *)
TimeOf(i) == IF on[i] THEN Global(i) ELSE epoch[i]

(* Pair.asleep() *)
Asleep(i) == on[i] /\ seen[i].idle /\ seen[i].next = Null /\ ~latched[i]

Running == [idle |-> FALSE, next |-> Null]
IdleTo(t) == [idle |-> TRUE, next |-> t]

-----------------------------------------------------------------------------
(* The pair's loop. *)

(* A faulty variant: the board that is behind runs even if it is asleep. *)
Behind_Asleep == IF TimeOf(0) <= TimeOf(1) THEN 0 ELSE 1

(* The board that is behind, unless it is asleep. *)
Behind == LET i == IF TimeOf(0) <= TimeOf(1) THEN 0 ELSE 1
          IN  IF Asleep(i) THEN Other(i) ELSE i

(* How far board i may go: as far as the other one could still reach it. *)
LimitFor(i) ==
  LET j == Other(i)
  IN  IF Asleep(j) THEN Null
      ELSE IF ~seen[j].idle THEN TimeOf(j) + Latency
      ELSE IF seen[j].next = Null THEN Null
      ELSE Later(TimeOf(j), seen[j].next) + Latency

(* Paced, at most a little at a time. *)
PacedLimit(i) ==
  LET limit == LimitFor(i)
      step  == Global(i) + PaceYield
  IN  IF paced /\ (limit = Null \/ step < limit) THEN step ELSE limit

(* start(): the second board is powered on when its time has come. *)
PowerOn ==
  /\ pc = "pick" /\ ~(Asleep(0) /\ Asleep(1)) /\ ~on[Behind]
  /\ on' = [on EXCEPT ![Behind] = TRUE]
  /\ seen' = [seen EXCEPT ![Behind] = Running]
  /\ UNCHANGED <<paced, epoch, now, alarm, queue, latched, work, reboots, stepLimit, pc, turn,
                 presses, ended, settled>>

(* The call of runUntil(). *)
RunBoard ==
  /\ pc = "pick" /\ ~(Asleep(0) /\ Asleep(1)) /\ on[Behind]
  /\ turn' = Behind
  /\ LET limit == PacedLimit(Behind)
     IN  stepLimit' = IF limit = Null THEN Null ELSE limit - epoch[Behind]
  /\ pc' = "until"
  /\ UNCHANGED <<boardVars, seen, presses, ended, settled>>

(* Both boards are asleep: the run is over, or, paced, time passes for     *)
(* both as it does for whoever is watching, up to t.                       *)
BothAsleep(t) ==
  /\ pc = "pick" /\ Asleep(0) /\ Asleep(1)
  /\ IF paced
       THEN /\ now' = [i \in Boards |-> IF Global(i) < t THEN t - epoch[i] ELSE now[i]]
            /\ settled' = [i \in Boards |-> IF Global(i) < t THEN t ELSE settled[i]]
            /\ UNCHANGED <<pc, ended>>
       ELSE pc' = "over" /\ ended' = "asleep" /\ UNCHANGED <<now, settled>>
  /\ UNCHANGED <<paced, on, epoch, alarm, queue, latched, work, reboots, stepLimit, seen, turn,
                 presses>>

(* Someone presses a button of board i while the pair gives the event loop *)
(* a turn: setGpioInput() latches the line.                                *)
Press(i) ==
  /\ pc = "pick" /\ on[i] /\ ~latched[i] /\ presses < MaxPresses
  /\ presses' = presses + 1
  /\ latched' = [latched EXCEPT ![i] = TRUE]
  /\ UNCHANGED <<paced, on, epoch, now, alarm, queue, work, reboots, stepLimit, seen, pc, turn,
                 ended, settled>>

-----------------------------------------------------------------------------
(* One turn of runUntil()'s loop on board `turn'. *)

Reached == stepLimit # Null /\ now[turn] >= stepLimit

(* runUntil() returns, "limit" or "budget": the board is still running. *)
StillRunning ==
  /\ seen' = [seen EXCEPT ![turn] = Running]
  /\ pc' = "pick"

LimitReached ==
  /\ pc = "until" /\ Reached
  /\ StillRunning
  /\ UNCHANGED <<boardVars, stepLimit, turn, presses, ended, settled>>

GiveUp ==
  /\ pc' = "over" /\ ended' = "time"
  /\ UNCHANGED settled

(* The line of a frame that is due, where a driver has enabled it. *)
FrameRaised ==
  turn \in Readers /\ queue[turn] # <<>> /\ Head(queue[turn]) <= Global(turn)

(* runStep(): give up if the time is used, otherwise enter the guest. *)
BeginStep ==
  /\ pc = "until" /\ ~Reached
  /\ IF Global(turn) > Start(turn) + MaxTime
       THEN GiveUp /\ UNCHANGED <<latched, work>>
       ELSE /\ pc' = "guest"
            /\ work' = [work EXCEPT ![turn] = @ \/ latched[turn] \/ FrameRaised]
            /\ latched' = [latched EXCEPT ![turn] = FALSE]
            /\ settled' = [settled EXCEPT ![turn] = Global(turn)]
            /\ UNCHANGED ended
  /\ UNCHANGED <<paced, on, epoch, now, alarm, queue, reboots, stepLimit, seen, turn,
                 presses>>

(* What the guest does in a step. *)

(* safepoint_tick(): a spinning guest moves its own clock. *)
safepoint_tick ==
  /\ pc = "guest"
  /\ now' = [now EXCEPT ![turn] = @ + 1]
  /\ IF Global(turn) + 1 > Start(turn) + MaxTime
       THEN GiveUp /\ UNCHANGED <<alarm, work>>
       ELSE /\ IF alarm[turn] # Null /\ now[turn] + 1 >= alarm[turn]
                 THEN /\ alarm' = [alarm EXCEPT ![turn] = Null]
                      /\ work' = [work EXCEPT ![turn] = TRUE]
                 ELSE UNCHANGED <<alarm, work>>
            /\ UNCHANGED <<pc, ended, settled>>
  /\ UNCHANGED <<paced, on, epoch, queue, latched, reboots, stepLimit, seen, turn, presses>>

(* set_alarm_ns() *)
set_alarm_ns(at) ==
  /\ pc = "guest" /\ work[turn] /\ alarm[turn] # at
  /\ at = Null \/ at > now[turn]
  /\ alarm' = [alarm EXCEPT ![turn] = at]
  /\ UNCHANGED <<paced, on, epoch, now, queue, latched, work, reboots, stepLimit, seen, pc, turn,
                 presses, ended, settled>>

(* pushEthernet(): behind the last frame that does not arrive later,       *)
(* dropped when the backlog is full.                                       *)
pushEthernet(q, at) ==
  LET i == CHOOSE n \in 0 .. Len(q) : /\ n = 0 \/ q[n] <= at
                                     /\ \A m \in (n + 1) .. Len(q) : q[m] > at
  IN  IF Len(q) >= QueueMax THEN q
      ELSE SubSeq(q, 1, i) \o <<at>> \o SubSeq(q, i + 1, Len(q))

(* Faulty variants: an idle board is not told of what will arrive; the     *)
(* sender keeps the limit it was given.                                    *)
arriving_NotTold(to, at) ==
  LET limit == at + Latency - epoch[Other(to)]
  IN  /\ UNCHANGED seen
      /\ stepLimit' = IF stepLimit = Null \/ limit < stepLimit
                        THEN limit ELSE stepLimit

arriving_KeepsLimit(to, at) ==
  /\ seen' = IF seen[to].idle /\ (seen[to].next = Null \/ at < seen[to].next)
               THEN [seen EXCEPT ![to].next = at] ELSE seen
  /\ UNCHANGED stepLimit

(* Pair.arriving(): an idle board has something to wake for, and the       *)
(* sender may go no further than the answer's arrival.                     *)
arriving(to, at) ==
  LET limit == at + Latency - epoch[Other(to)]
  IN  /\ seen' = IF seen[to].idle /\ (seen[to].next = Null \/ at < seen[to].next)
                   THEN [seen EXCEPT ![to].next = at] ELSE seen
      /\ stepLimit' = IF stepLimit = Null \/ limit < stepLimit
                        THEN limit ELSE stepLimit

(* eth_send() and Pair.send(): a frame towards a board that is off is lost.*)
eth_send ==
  /\ pc = "guest" /\ work[turn]
  /\ IF on[Other(turn)]
       THEN LET at == Global(turn) + Latency
            IN  /\ queue' = [queue EXCEPT ![Other(turn)] = pushEthernet(@, at)]
                /\ arriving(Other(turn), at)
       ELSE UNCHANGED <<queue, seen, stepLimit>>
  /\ UNCHANGED <<paced, on, epoch, now, alarm, latched, work, reboots, pc, turn, presses, ended,
                 settled>>

(* eth_recv() of a frame that is due. *)
eth_recv ==
  /\ pc = "guest" /\ work[turn] /\ turn \in Readers
  /\ queue[turn] # <<>> /\ Head(queue[turn]) <= Global(turn)
  /\ queue' = [queue EXCEPT ![turn] = Tail(@)]
  /\ UNCHANGED <<paced, on, epoch, now, alarm, latched, work, reboots, stepLimit, seen, pc, turn,
                 presses, ended, settled>>

(* The step is over and the loop comes round, or has used its budget. *)
SwitchOrBusy ==
  /\ pc = "guest" /\ work[turn]
  /\ \/ pc' = "until" /\ UNCHANGED seen
     \/ StillRunning
  /\ UNCHANGED <<boardVars, stepLimit, turn, presses, ended, settled>>

(* resetForReboot(): the clock starts again from zero, later on the        *)
(* timeline; a board that has done so too often gives up.                  *)
Reboot ==
  /\ pc = "guest" /\ work[turn]
  /\ IF reboots[turn] = MaxReboots
       THEN /\ pc' = "over" /\ ended' = "reboots"
            /\ UNCHANGED <<reboots, epoch, now, alarm, seen>>
       ELSE /\ reboots' = [reboots EXCEPT ![turn] = @ + 1]
            /\ epoch' = [epoch EXCEPT ![turn] = Global(turn)]
            /\ now' = [now EXCEPT ![turn] = 0]
            /\ alarm' = [alarm EXCEPT ![turn] = Null]
            /\ \/ pc' = "until" /\ UNCHANGED seen
               \/ StillRunning
            /\ UNCHANGED ended
  /\ UNCHANGED <<paced, on, queue, latched, work, stepLimit, turn, presses, settled>>

-----------------------------------------------------------------------------
(* The idle half of step(), with advanceToNextDeadline(). *)

NextFrame(i) == Head(queue[i]) - epoch[i]

(* The next deadline, if there is one: a tie goes to the frame. *)
NextAt(i) ==
  IF queue[i] = <<>> \/ (alarm[i] # Null /\ alarm[i] < NextFrame(i))
    THEN alarm[i] ELSE NextFrame(i)

HasDeadline(i) == queue[i] # <<>> \/ alarm[i] # Null

(* A faulty variant: a deadline that is already past takes the clock back. *)
Advance_GoesBack(i, t) ==
  /\ now' = [now EXCEPT ![i] = t]
  /\ settled' = IF t > now[i] THEN [settled EXCEPT ![i] = epoch[i] + t] ELSE settled

Advance(i, t) ==
  /\ now' = [now EXCEPT ![i] = Later(@, t)]
  /\ settled' = IF t > now[i] THEN [settled EXCEPT ![i] = epoch[i] + t] ELSE settled

(* runUntil() returns "idle". *)
ReturnIdle(t) ==
  /\ work' = [work EXCEPT ![turn] = FALSE]
  /\ seen' = [seen EXCEPT ![turn] = IdleTo(t)]
  /\ pc' = "pick"

(* Short of its next deadline the board idles up to its limit. *)
IdleToLimit ==
  /\ pc = "guest" /\ HasDeadline(turn)
  /\ stepLimit # Null /\ NextAt(turn) > stepLimit
  /\ Advance(turn, stepLimit)
  /\ ReturnIdle(NextAt(turn) + epoch[turn])
  /\ UNCHANGED <<paced, on, epoch, alarm, queue, latched, reboots, stepLimit, turn,
                 presses, ended>>

(* Within the limit time jumps to the deadline: a frame's line is raised   *)
(* and the frame stays, or the alarm fires.                                *)
IdleToDeadline ==
  /\ pc = "guest" /\ HasDeadline(turn)
  /\ stepLimit = Null \/ NextAt(turn) <= stepLimit
  /\ Advance(turn, NextAt(turn))
  /\ IF queue[turn] # <<>> /\ NextAt(turn) = NextFrame(turn)
       THEN /\ latched' = [latched EXCEPT ![turn] = turn \in Readers]
            /\ work' = [work EXCEPT ![turn] = FALSE]
            /\ UNCHANGED alarm
       ELSE /\ alarm' = [alarm EXCEPT ![turn] = Null]
            /\ work' = [work EXCEPT ![turn] = TRUE]
            /\ UNCHANGED latched
  /\ \/ pc' = "until" /\ UNCHANGED seen
     \/ StillRunning
  /\ UNCHANGED <<paced, on, epoch, queue, reboots, stepLimit, turn, presses, ended>>

(* Nothing is due at all. *)
IdleForGood ==
  /\ pc = "guest" /\ ~HasDeadline(turn)
  /\ ReturnIdle(Null)
  /\ UNCHANGED <<paced, on, epoch, now, alarm, queue, latched, reboots, stepLimit, turn,
                 presses, ended, settled>>

Over == pc = "over" /\ UNCHANGED vars

-----------------------------------------------------------------------------
Init ==
  /\ paced \in PaceModes
  /\ on = [i \in Boards |-> i = 0]
  /\ epoch = [i \in Boards |-> Start(i)]
  /\ now = [i \in Boards |-> 0]
  /\ alarm = [i \in Boards |-> Null]
  /\ queue = [i \in Boards |-> <<>>]
  /\ stepLimit = Null
  /\ seen = [i \in Boards |-> IF i = 0 THEN Running ELSE IdleTo(Delay)]
  /\ latched = [i \in Boards |-> FALSE]
  /\ work = [i \in Boards |-> TRUE]
  /\ pc = "pick"
  /\ turn = 0
  /\ reboots = [i \in Boards |-> 0]
  /\ presses = 0
  /\ ended = "no"
  /\ settled = [i \in Boards |-> Start(i)]

Times == 0 .. (Delay + MaxTime + 1)

GuestStep == \/ safepoint_tick \/ eth_send \/ eth_recv \/ SwitchOrBusy \/ Reboot
             \/ \E at \in Times \cup {Null} : set_alarm_ns(at)

IdleStep == IdleToLimit \/ IdleToDeadline \/ IdleForGood

Next == \/ PowerOn \/ RunBoard \/ LimitReached \/ BeginStep
        \/ \E t \in Times : BothAsleep(t)
        \/ \E i \in Boards : Press(i)
        \/ GuestStep \/ IdleStep
        \/ Over

Spec == Init /\ [][Next]_vars

(* Every step of a guest ends; a guest that spins is charged for it, and   *)
(* one that does not idles; and a driver reads the frames it is            *)
(* interrupted for.                                                        *)
FairSpec ==
  /\ Spec
  /\ WF_vars(PowerOn \/ RunBoard \/ LimitReached \/ BeginStep
             \/ (~paced /\ \E t \in Times : BothAsleep(t)))
  /\ WF_vars(SwitchOrBusy \/ IdleStep)
  /\ SF_vars(IdleStep \/ safepoint_tick)
  /\ \A i \in Readers : SF_vars(turn = i /\ eth_recv)

-----------------------------------------------------------------------------
(* Properties. *)

(* Types of the pair's bookkeeping and of both boards' clocks. *)
TypeOK ==
  /\ paced \in BOOLEAN
  /\ on \in [Boards -> BOOLEAN]
  /\ epoch \in [Boards -> Nat]
  /\ now \in [Boards -> Nat]
  /\ alarm \in [Boards -> Nat \cup {Null}]
  /\ queue \in [Boards -> Seq(Nat)]
  /\ stepLimit \in Nat \cup {Null}
  /\ seen \in [Boards -> [idle : BOOLEAN, next : Nat \cup {Null}]]
  /\ latched \in [Boards -> BOOLEAN]
  /\ work \in [Boards -> BOOLEAN]
  /\ pc \in {"pick", "until", "guest", "over"}
  /\ turn \in Boards
  /\ reboots \in [Boards -> Nat]
  /\ presses \in Nat
  /\ ended \in {"no", "asleep", "time", "reboots"}
  /\ settled \in [Boards -> Nat]

(* Conservative synchronisation: a frame never arrives before a time its   *)
(* receiver has let pass idle, nor before the start of the receiver's last *)
(* step.  Only a step that was already running can have gone past it.      *)
NothingArrivesInThePast ==
  [][ eth_send /\ on[Other(turn)] => Global(turn) + Latency >= settled[Other(turn)] ]_vars

(* A board's time on the pair's timeline never goes back: not when it      *)
(* reboots and its own clock does, not when it idles to the limit it was   *)
(* given or to a frame that was due before it looked.                      *)
TimeNeverGoesBack == [][ \A i \in Boards : Global(i)' >= Global(i) ]_vars

(* When the pair decides that nothing can happen any more, nothing can: no *)
(* alarm is set on either board and no frame is on the wire.               *)
EndsOnlyWhenQuiet ==
  ended = "asleep" => \A i \in Boards : alarm[i] = Null /\ queue[i] = <<>>

(* The two boards never wait for each other for good: an unpaced run comes *)
(* to its end, when both are asleep or a board has used up its time.       *)
RunEnds == <>(pc = "over")

=============================================================================
