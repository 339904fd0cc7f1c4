----------------------------- MODULE PairProofs -----------------------------
(***************************************************************************)
(* Proofs about Pair: its types, that a board's time never goes back, that *)
(* a pair that falls asleep has nothing to wake for, and the conservative  *)
(* synchronisation of the two boards.                                      *)
(***************************************************************************)
EXTENDS Pair, SequenceTheorems, NaturalsInduction, WellFoundedInduction, TLAPS

(* The host is not in the middle of running board i.                       *)
Away(i) == pc = "pick" \/ i # turn

(* What the pair keeps of a board is true to it: one that is off has not   *)
(* begun, and the one that runs is on.                                     *)
OffInv ==
  /\ on[0]
  /\ ~on[1] => /\ now[1] = 0 /\ seen[1] = IdleTo(epoch[1]) /\ settled[1] = epoch[1]
               /\ queue[1] = <<>> /\ alarm[1] = Null /\ ~latched[1]
  /\ pc # "pick" => on[turn]
  /\ ended # "no" => pc = "over"

(* The history is not ahead of the clock.                                  *)
SettledInv == \A i \in Boards : settled[i] <= Global(i)

(* A board that was seen idle without a deadline still has none: what has  *)
(* been sent to it since has been noted.                                   *)
LinkInv ==
  pc # "over" =>
    \A i \in Boards : on[i] /\ Away(i) /\ seen[i] = IdleTo(Null) =>
                        alarm[i] = Null /\ queue[i] = <<>>

(* Nobody has touched a board, and none has rebooted.                      *)
Undisturbed == presses = 0 /\ \A i \in Boards : reboots[i] = 0

(* Board i has something to do without time passing.                       *)
Ready(i) == work[i] \/ latched[i]

(* What board i sends next arrives no earlier than t.                      *)
Within(i, t) ==
  /\ Ready(i) => t <= TimeOf(i) + Latency
  /\ ~Ready(i) /\ HasDeadline(i) => t <= Later(TimeOf(i), NextAt(i) + epoch[i]) + Latency

(* A board that was seen idle is so, and has no deadline before the one    *)
(* that was seen.                                                          *)
Told(i) ==
  on[i] /\ Away(i) /\ seen[i].idle =>
    /\ ~Ready(i)
    /\ HasDeadline(i) => seen[i].next # Null /\ seen[i].next <= NextAt(i) + epoch[i]

(* No board has let time pass beyond what the other may still send.        *)
Bounded == \A i \in Boards : on[Other(i)] => Within(i, settled[Other(i)])

(* Nor may the one that runs, up to its limit.                             *)
Limited ==
  pc \in {"until", "guest"} =>
    IF stepLimit = Null
      THEN ~Ready(Other(turn)) /\ ~HasDeadline(Other(turn))
      ELSE Within(Other(turn), stepLimit + epoch[turn])

SyncInv ==
  pc # "over" /\ Undisturbed =>
    /\ pc = "guest" => ~latched[turn]
    /\ \A i \in Boards : Told(i)
    /\ Bounded
    /\ Limited

-----------------------------------------------------------------------------
(* The frame queue and the deadlines.                                      *)

(* pushEthernet() leaves a queue whose first frame is the one that was     *)
(* first, or the new one.                                                  *)
LEMMA Pushed ==
  ASSUME NEW q \in Seq(Nat), NEW at \in Nat
  PROVE  /\ pushEthernet(q, at) \in Seq(Nat)
         /\ pushEthernet(q, at) # <<>>
         /\ Head(pushEthernet(q, at)) = at \/ (q # <<>> /\ Head(pushEthernet(q, at)) = Head(q))
<1> DEFINE n == Len(q)
<1> DEFINE Fits(i) == /\ i = 0 \/ q[i] <= at
                      /\ \A m \in (i + 1) .. n : q[m] > at
<1> DEFINE Clear == {i \in 0 .. n : \A m \in (i + 1) .. n : q[m] > at}
<1> DEFINE Less == OpToRel(<, Nat)
<1> DEFINE pos == CHOOSE i \in 0 .. n : Fits(i)
<1>1. n \in Nat /\ n \in Clear /\ Clear \subseteq Nat /\ \A i \in 1 .. n : q[i] \in Nat
  OBVIOUS
<1>2. PICK x \in Clear : \A y \in Clear : ~ (<<y, x>> \in Less)
  <2>1. IsWellFoundedOn(Less, Nat)
    BY NatLessThanWellFounded
  <2>. HIDE DEF Clear, Less
  <2>. QED
    BY <1>1, <2>1, WFMin
<1>3. \A y \in Clear : ~ (y < x)
  <2>1. \A a, b \in Nat : b < a => <<b, a>> \in Less
    BY DEF OpToRel
  <2>. QED
    BY <1>1, <1>2, <2>1
<1>4. Fits(x)
  <2>1. CASE x = 0
    BY <2>1
  <2>2. CASE x # 0
    <3>1. x \in 1 .. n /\ x - 1 \in 0 .. n /\ x - 1 < x
      BY <1>1, <2>2
    <3>2. ~ (x - 1 \in Clear)
      BY <1>3, <3>1
    <3>3. PICK m \in x .. n : ~ (q[m] > at)
      BY <3>1, <3>2
    <3>4. m = x
      BY <1>1, <3>1, <3>3
    <3>. QED
      BY <1>1, <3>1, <3>3, <3>4
  <2>. QED
    BY <2>1, <2>2
<1>5. pos \in 0 .. n
  <2>1. \E i \in 0 .. n : Fits(i)
    BY <1>4
  <2>. HIDE DEF Fits
  <2>. QED
    BY <2>1
<1> DEFINE a == SubSeq(q, 1, pos)
<1> DEFINE b == SubSeq(q, pos + 1, n)
<1>6. pushEthernet(q, at) = IF n >= QueueMax THEN q ELSE a \o <<at>> \o b
  BY DEF pushEthernet
<1> HIDE DEF Fits, pos, Clear, Less
<1>7. CASE n >= QueueMax
  <2>1. pushEthernet(q, at) = q /\ q # <<>>
    BY <1>6, <1>7, PairAssumption
  <2>. QED
    BY <2>1
<1>8. CASE ~ (n >= QueueMax)
  <2>1. /\ a \in Seq(Nat) /\ Len(a) = pos
        /\ \A i \in 1 .. pos : a[i] = q[i]
    BY <1>1, <1>5, SubSeqProperties
  <2>2. b \in Seq(Nat)
    BY <1>1, <1>5, SubSeqProperties
  <2>3. pushEthernet(q, at) = a \o <<at>> \o b
    BY <1>6, <1>8
  <2> HIDE DEF a, b
  <2> DEFINE c == a \o <<at>>
  <2>4. /\ c \in Seq(Nat) /\ Len(c) = pos + 1 /\ c[pos + 1] = at
        /\ \A i \in 1 .. pos : c[i] = a[i]
    BY <1>5, <2>1, ConcatProperties
  <2> HIDE DEF c
  <2>5. /\ c \o b \in Seq(Nat) /\ Len(c \o b) = Len(c) + Len(b)
        /\ \A i \in 1 .. Len(c) : (c \o b)[i] = c[i]
    <3>1. Len(b) \in Nat /\ Len(c) \in Nat
      BY <2>2, <2>4
    <3>2. \A i \in 1 .. Len(c) : i \in 1 .. Len(c) + Len(b) /\ i <= Len(c)
      BY <3>1
    <3>3. /\ c \o b \in Seq(Nat) /\ Len(c \o b) = Len(c) + Len(b)
          /\ \A i \in 1 .. Len(c) + Len(b) :
               (c \o b)[i] = IF i <= Len(c) THEN c[i] ELSE b[i - Len(c)]
      BY <2>2, <2>4, ConcatProperties
    <3>. QED
      BY <3>2, <3>3
  <2>6. Head(c \o b) = c[1] /\ c \o b # <<>>
    BY <1>5, <2>2, <2>4, <2>5
  <2>7. CASE pos = 0
    BY <2>3, <2>4, <2>5, <2>6, <2>7 DEF c
  <2>8. CASE pos # 0
    <3>1. 1 \in 1 .. pos /\ c[1] = q[1] /\ q # <<>> /\ Head(q) = q[1]
      BY <1>1, <1>5, <2>1, <2>4, <2>8
    <3>. QED
      BY <2>3, <2>5, <2>6, <3>1 DEF c
  <2>. QED
    BY <2>7, <2>8
<1>. QED
  BY <1>7, <1>8

(* The next deadline is the alarm or the first frame, whichever is first.  *)
LEMMA Deadline ==
  ASSUME NEW i \in Boards, TypeOK
  PROVE  /\ HasDeadline(i) => /\ NextAt(i) \in Int /\ NextAt(i) + epoch[i] \in Nat
                              /\ \/ queue[i] # <<>> /\ NextAt(i) = NextFrame(i)
                                 \/ alarm[i] # Null /\ NextAt(i) = alarm[i]
         /\ alarm[i] # Null => NextAt(i) <= alarm[i]
         /\ queue[i] # <<>> => /\ NextAt(i) <= NextFrame(i) /\ Head(queue[i]) \in Nat
                               /\ NextFrame(i) = Head(queue[i]) - epoch[i]
<1>1. queue[i] \in Seq(Nat) /\ alarm[i] \in Nat \cup {-1} /\ epoch[i] \in Nat
  BY DEF TypeOK, Null
<1>2. queue[i] # <<>> => Head(queue[i]) \in Nat
  BY <1>1
<1>. QED
  BY <1>1, <1>2 DEF HasDeadline, NextAt, NextFrame, Null

(* A board's deadlines are its own.                                        *)
LEMMA DeadlineKept ==
  ASSUME NEW i \in Boards,
         queue'[i] = queue[i], alarm'[i] = alarm[i], epoch'[i] = epoch[i]
  PROVE  NextAt(i)' = NextAt(i) /\ HasDeadline(i)' = HasDeadline(i)
  BY DEF NextAt, NextFrame, HasDeadline

(* So it is after a step.                                                  *)
LEMMA DeadlineLater ==
  ASSUME NEW i \in Boards, TypeOK'
  PROVE  /\ HasDeadline(i)' => /\ NextAt(i)' \in Int
                               /\ \/ queue'[i] # <<>> /\ NextAt(i)' = Head(queue'[i]) - epoch'[i]
                                  \/ alarm'[i] # Null /\ NextAt(i)' = alarm'[i]
         /\ HasDeadline(i)' <=> queue'[i] # <<>> \/ alarm'[i] # Null
<1>1. queue'[i] \in Seq(Nat) /\ alarm'[i] \in Nat \cup {-1} /\ epoch'[i] \in Nat
  BY DEF TypeOK, Null
<1>2. queue'[i] # <<>> => Head(queue'[i]) \in Nat
  BY <1>1
<1>. QED
  BY <1>1, <1>2 DEF HasDeadline, NextAt, NextFrame, Null

(* The board that is behind, and what it may count on.                     *)
LEMMA BehindIs ==
  ASSUME TypeOK, ~ (Asleep(0) /\ Asleep(1))
  PROVE  /\ Behind \in Boards /\ Other(Behind) \in Boards /\ Other(Behind) # Behind
         /\ ~Asleep(Other(Behind)) => TimeOf(Behind) <= TimeOf(Other(Behind))
<1>1. TimeOf(0) \in Nat /\ TimeOf(1) \in Nat
  BY DEF TypeOK, TimeOf, Global, Boards
<1>2. Other(0) = 1 /\ Other(1) = 0
  BY DEF Other
<1>. QED
  BY <1>1, <1>2, Zenon, SMT DEF Behind, Boards

(* The limit is a time the board that is behind has not passed by more     *)
(* than it may.                                                            *)
LEMMA LimitIs ==
  ASSUME TypeOK, ~ (Asleep(0) /\ Asleep(1))
  PROVE  PacedLimit(Behind) = Null \/ (/\ PacedLimit(Behind) \in Nat
                                       /\ PacedLimit(Behind) >= epoch[Behind])
<1> DEFINE i == Behind
<1> DEFINE j == Other(Behind)
<1>1. i \in Boards /\ j \in Boards /\ (~Asleep(j) => TimeOf(i) <= TimeOf(j))
  BY BehindIs
<1>2. Other(i) = j
  OBVIOUS
<1> HIDE DEF i, j
<1>3. /\ epoch[i] \in Nat /\ Global(i) \in Nat /\ Global(i) >= epoch[i]
      /\ TimeOf(i) \in Nat /\ TimeOf(i) >= epoch[i] /\ TimeOf(j) \in Nat
      /\ seen[j].next \in Nat \cup {Null} /\ Latency \in Nat /\ PaceYield \in Nat
  <2>1. epoch[i] \in Nat /\ now[i] \in Nat /\ epoch[j] \in Nat /\ now[j] \in Nat
    BY <1>1 DEF TypeOK
  <2>2. seen[j] \in [idle : BOOLEAN, next : Nat \cup {Null}]
    BY <1>1 DEF TypeOK
  <2>. QED
    BY <2>1, <2>2, PairAssumption DEF TimeOf, Global
<1>4. LimitFor(i) = Null \/ (LimitFor(i) \in Nat /\ LimitFor(i) >= epoch[i])
  BY <1>1, <1>2, <1>3 DEF LimitFor, Later, Null
<1>5. PacedLimit(i) = Null \/ (PacedLimit(i) \in Nat /\ PacedLimit(i) >= epoch[i])
  BY <1>3, <1>4 DEF PacedLimit, Null
<1>. QED
  BY <1>5 DEF i

-----------------------------------------------------------------------------
(* Types.                                                                  *)

(* Every step keeps the types.                                             *)
LEMMA TypeStep == TypeOK /\ [Next]_vars => TypeOK'
<1> SUFFICES ASSUME TypeOK, [Next]_vars PROVE TypeOK'
  OBVIOUS
<1> USE PairAssumption DEF Null
<1>1. /\ turn \in Boards /\ Other(turn) \in Boards
      /\ \A i \in Boards : /\ epoch[i] \in Nat /\ now[i] \in Nat /\ Global(i) \in Nat
                           /\ queue[i] \in Seq(Nat) /\ alarm[i] \in Nat \cup {-1}
  BY DEF TypeOK, Other, Boards, Global
<1>2. \A e \in BOOLEAN, t \in Nat \cup {-1} :
        [idle |-> e, next |-> t] \in [idle : BOOLEAN, next : Nat \cup {-1}]
  OBVIOUS
<1>20. \A i \in Boards : /\ [seen EXCEPT ![i] = Running]
                             \in [Boards -> [idle : BOOLEAN, next : Nat \cup {-1}]]
                         /\ \A t \in Nat \cup {-1} :
                              [seen EXCEPT ![i] = IdleTo(t)]
                                \in [Boards -> [idle : BOOLEAN, next : Nat \cup {-1}]]
  <2>1. Running \in [idle : BOOLEAN, next : Nat \cup {-1}]
    BY DEF Running
  <2>2. \A t \in Nat \cup {-1} : IdleTo(t) \in [idle : BOOLEAN, next : Nat \cup {-1}]
    BY DEF IdleTo
  <2>. QED
    BY <2>1, <2>2 DEF TypeOK
<1>21. \A i \in Boards : \A t \in Nat \cup {-1} :
         [seen EXCEPT ![i].next = t] \in [Boards -> [idle : BOOLEAN, next : Nat \cup {-1}]]
  <2> SUFFICES ASSUME NEW i \in Boards, NEW t \in Nat \cup {-1}
               PROVE  [seen EXCEPT ![i].next = t]
                        \in [Boards -> [idle : BOOLEAN, next : Nat \cup {-1}]]
    OBVIOUS
  <2>1. seen[i] \in [idle : BOOLEAN, next : Nat \cup {-1}]
    BY DEF TypeOK
  <2>2. [seen[i] EXCEPT !.next = t] \in [idle : BOOLEAN, next : Nat \cup {-1}]
    BY <2>1
  <2>3. [seen EXCEPT ![i].next = t] = [seen EXCEPT ![i] = [seen[i] EXCEPT !.next = t]]
    OBVIOUS
  <2>. QED
    BY <2>2, <2>3 DEF TypeOK
<1>22. \A i \in Boards : \A x \in Nat :
         /\ [now EXCEPT ![i] = x] \in [Boards -> Nat]
         /\ [settled EXCEPT ![i] = x] \in [Boards -> Nat]
         /\ [epoch EXCEPT ![i] = x] \in [Boards -> Nat]
         /\ [reboots EXCEPT ![i] = x] \in [Boards -> Nat]
  BY DEF TypeOK
<1>23. \A i \in Boards : \A b \in BOOLEAN :
         /\ [latched EXCEPT ![i] = b] \in [Boards -> BOOLEAN]
         /\ [work EXCEPT ![i] = b] \in [Boards -> BOOLEAN]
         /\ [alarm EXCEPT ![i] = -1] \in [Boards -> Nat \cup {-1}]
  BY DEF TypeOK
<1>24. /\ seen \in [Boards -> [idle : BOOLEAN, next : Nat \cup {-1}]]
       /\ now \in [Boards -> Nat] /\ settled \in [Boards -> Nat]
       /\ alarm \in [Boards -> Nat \cup {-1}]
       /\ latched \in [Boards -> BOOLEAN] /\ work \in [Boards -> BOOLEAN]
  BY DEF TypeOK
<1>25. [seen EXCEPT ![turn] = Running] \in [Boards -> [idle : BOOLEAN, next : Nat \cup {-1}]]
  BY <1>1, <1>20
<1>3. Times \subseteq Nat
  BY DEF Times
<1>4. CASE PowerOn
  <2>1. Behind \in Boards
    BY <1>4, BehindIs DEF PowerOn
  <2>. QED
    BY <1>2, <1>4, <2>1 DEF PowerOn, TypeOK, Running
<1>5. CASE RunBoard
  <2>1. Behind \in Boards
    BY <1>5, BehindIs DEF RunBoard
  <2>2. PacedLimit(Behind) = Null \/ (/\ PacedLimit(Behind) \in Nat
                                      /\ PacedLimit(Behind) >= epoch[Behind])
    BY <1>5, LimitIs DEF RunBoard
  <2>3. stepLimit' \in Nat \cup {-1}
    BY <1>1, <1>5, <2>1, <2>2 DEF RunBoard
  <2>. QED
    BY <1>5, <2>1, <2>3 DEF RunBoard, TypeOK, boardVars
<1>6. CASE \E t \in Times : BothAsleep(t)
  <2>1. PICK t \in Times : BothAsleep(t)
    BY <1>6
  <2>2. CASE paced
    <3>1. now' = [i \in Boards |-> IF Global(i) < t THEN t - epoch[i] ELSE now[i]]
      BY <2>1, <2>2 DEF BothAsleep
    <3>2. settled' = [i \in Boards |-> IF Global(i) < t THEN t ELSE settled[i]]
      BY <2>1, <2>2 DEF BothAsleep
    <3>3. now' \in [Boards -> Nat]
      BY <1>1, <1>3, <3>1 DEF Global
    <3>4. settled' \in [Boards -> Nat]
      BY <1>3, <3>2 DEF TypeOK
    <3>. QED
      BY <2>1, <2>2, <3>3, <3>4 DEF BothAsleep, TypeOK
  <2>3. CASE ~paced
    BY <2>1, <2>3 DEF BothAsleep, TypeOK
  <2>. QED
    BY <2>2, <2>3
<1>7. CASE \E i \in Boards : Press(i)
  BY <1>7 DEF Press, TypeOK
<1>8. CASE LimitReached
  BY <1>1, <1>2, <1>8 DEF LimitReached, StillRunning, Running, TypeOK, boardVars
<1>9. CASE BeginStep
  <2>1. work' \in [Boards -> BOOLEAN]
    <3>1. (work[turn] \/ latched[turn] \/ FrameRaised) \in BOOLEAN
      OBVIOUS
    <3>. QED
      BY <1>9, <3>1, Zenon DEF BeginStep, GiveUp, TypeOK
  <2>2. latched' \in [Boards -> BOOLEAN] /\ settled' \in [Boards -> Nat]
    <3>1. settled' = settled \/ settled' = [settled EXCEPT ![turn] = Global(turn)]
      BY <1>9 DEF BeginStep, GiveUp
    <3>2. latched' = latched \/ latched' = [latched EXCEPT ![turn] = FALSE]
      BY <1>9 DEF BeginStep, GiveUp
    <3>. QED
      <4>1. /\ [settled EXCEPT ![turn] = Global(turn)] \in [Boards -> Nat]
            /\ [latched EXCEPT ![turn] = FALSE] \in [Boards -> BOOLEAN]
        BY <1>1, <1>22, <1>23
      <4>. QED
        BY <1>24, <3>1, <3>2, <4>1
  <2>. QED
    BY <1>9, <2>1, <2>2 DEF BeginStep, GiveUp, TypeOK
<1>10. CASE safepoint_tick
  <2>1. now' \in [Boards -> Nat]
    BY <1>1, <1>10 DEF safepoint_tick, TypeOK
  <2>2. alarm' \in [Boards -> Nat \cup {-1}] /\ work' \in [Boards -> BOOLEAN]
    BY <1>10 DEF safepoint_tick, TypeOK
  <2>. QED
    BY <1>10, <2>1, <2>2 DEF safepoint_tick, GiveUp, TypeOK
<1>11. CASE eth_send
  <2>1. CASE on[Other(turn)]
    <3> DEFINE at == Global(turn) + Latency
    <3>1. at \in Nat /\ at + Latency - epoch[turn] \in Nat /\ Other(Other(turn)) = turn
      <4>1. Other(Other(turn)) = turn
        BY <1>1 DEF Other, Boards
      <4>2. /\ epoch[turn] \in Nat /\ now[turn] \in Nat /\ Latency \in Nat
            /\ at = epoch[turn] + now[turn] + Latency
        BY <1>1 DEF Global
      <4>. HIDE DEF at
      <4>. QED
        BY <4>1, <4>2
    <3>2. queue' = [queue EXCEPT ![Other(turn)] = pushEthernet(@, at)]
      BY <1>11, <2>1 DEF eth_send
    <3>3. arriving(Other(turn), at)
      BY <1>11, <2>1 DEF eth_send
    <3> HIDE DEF at
    <3>4. pushEthernet(queue[Other(turn)], at) \in Seq(Nat)
      BY <1>1, <3>1, Pushed
    <3>5. queue' \in [Boards -> Seq(Nat)]
      BY <3>2, <3>4 DEF TypeOK
    <3>6. seen' \in [Boards -> [idle : BOOLEAN, next : Nat \cup {-1}]]
      <4>1. seen' = seen \/ seen' = [seen EXCEPT ![Other(turn)].next = at]
        BY <3>3 DEF arriving
      <4>2. [seen EXCEPT ![Other(turn)].next = at]
              \in [Boards -> [idle : BOOLEAN, next : Nat \cup {-1}]]
        BY <1>1, <1>21, <3>1
      <4>. QED
        BY <1>24, <4>1, <4>2
    <3>7. stepLimit' \in Nat \cup {-1}
      BY <3>1, <3>3 DEF arriving, TypeOK
    <3>. QED
      BY <1>11, <3>5, <3>6, <3>7 DEF eth_send, TypeOK
  <2>2. CASE ~on[Other(turn)]
    BY <1>11, <2>2 DEF eth_send, TypeOK
  <2>. QED
    BY <2>1, <2>2
<1>12. CASE eth_recv
  <2>1. Tail(queue[turn]) \in Seq(Nat)
    BY <1>1, <1>12 DEF eth_recv
  <2>. QED
    BY <1>12, <2>1 DEF eth_recv, TypeOK
<1>13. CASE SwitchOrBusy
  <2>1. seen' = seen \/ seen' = [seen EXCEPT ![turn] = Running]
    BY <1>13 DEF SwitchOrBusy, StillRunning
  <2>2. seen' \in [Boards -> [idle : BOOLEAN, next : Nat \cup {-1}]]
    BY <1>24, <1>25, <2>1
  <2>. QED
    BY <1>13, <2>2 DEF SwitchOrBusy, StillRunning, TypeOK, boardVars
<1>14. CASE Reboot
  <2>1. /\ now' \in [Boards -> Nat] /\ epoch' \in [Boards -> Nat]
        /\ alarm' \in [Boards -> Nat \cup {-1}] /\ reboots' \in [Boards -> Nat]
    <3>1. CASE reboots[turn] = MaxReboots
      BY <1>14, <3>1 DEF Reboot, TypeOK
    <3>2. CASE reboots[turn] # MaxReboots
      <4>1. reboots[turn] + 1 \in Nat /\ 0 \in Nat /\ TRUE \in BOOLEAN
        BY <1>1 DEF TypeOK
      <4>2. /\ reboots' = [reboots EXCEPT ![turn] = reboots[turn] + 1]
            /\ epoch' = [epoch EXCEPT ![turn] = Global(turn)]
            /\ now' = [now EXCEPT ![turn] = 0]
            /\ alarm' = [alarm EXCEPT ![turn] = -1]
        BY <1>14, <3>2 DEF Reboot
      <4>. QED
        BY <1>1, <1>22, <1>23, <4>1, <4>2
    <3>. QED
      BY <3>1, <3>2
  <2>2. seen' \in [Boards -> [idle : BOOLEAN, next : Nat \cup {-1}]]
    <3>1. seen' = seen \/ seen' = [seen EXCEPT ![turn] = Running]
      BY <1>14 DEF Reboot, StillRunning
    <3>. QED
      BY <1>24, <1>25, <3>1
  <2>. QED
    BY <1>14, <2>1, <2>2 DEF Reboot, StillRunning, TypeOK
<1>15. CASE \E at \in Times \cup {Null} : set_alarm_ns(at)
  BY <1>3, <1>15 DEF set_alarm_ns, TypeOK
<1>16. CASE IdleToLimit
  <2>1. NextAt(turn) \in Int /\ NextAt(turn) + epoch[turn] \in Nat
    BY <1>1, <1>16, Deadline DEF IdleToLimit
  <2>2. stepLimit \in Nat
    BY <1>16 DEF IdleToLimit, TypeOK
  <2>3. now' \in [Boards -> Nat] /\ settled' \in [Boards -> Nat]
    <3>1. /\ now' = [now EXCEPT ![turn] = Later(now[turn], stepLimit)]
          /\ \/ settled' = settled
             \/ /\ settled' = [settled EXCEPT ![turn] = epoch[turn] + stepLimit]
                /\ stepLimit > now[turn]
      BY <1>16 DEF IdleToLimit, Advance
    <3>2. /\ Later(now[turn], stepLimit) \in Nat
          /\ stepLimit > now[turn] => epoch[turn] + stepLimit \in Nat
      BY <1>1, <2>2 DEF Later
    <3>. QED
      BY <1>1, <1>22, <1>24, <3>1, <3>2
  <2>4. seen' \in [Boards -> [idle : BOOLEAN, next : Nat \cup {-1}]]
    BY <1>1, <1>16, <1>20, <2>1 DEF IdleToLimit, ReturnIdle
  <2>. QED
    BY <1>16, <2>3, <2>4 DEF IdleToLimit, ReturnIdle, TypeOK
<1>17. CASE IdleToDeadline
  <2>1. NextAt(turn) \in Int /\ NextAt(turn) + epoch[turn] \in Nat
    BY <1>1, <1>17, Deadline DEF IdleToDeadline
  <2>2. now' \in [Boards -> Nat] /\ settled' \in [Boards -> Nat]
    <3>1. /\ now' = [now EXCEPT ![turn] = Later(now[turn], NextAt(turn))]
          /\ \/ settled' = settled
             \/ /\ settled' = [settled EXCEPT ![turn] = epoch[turn] + NextAt(turn)]
                /\ NextAt(turn) > now[turn]
      BY <1>17 DEF IdleToDeadline, Advance
    <3>2. /\ Later(now[turn], NextAt(turn)) \in Nat
          /\ NextAt(turn) > now[turn] => epoch[turn] + NextAt(turn) \in Nat
      BY <1>1, <2>1 DEF Later
    <3>. QED
      BY <1>1, <1>22, <1>24, <3>1, <3>2
  <2>3. seen' \in [Boards -> [idle : BOOLEAN, next : Nat \cup {-1}]]
    <3>1. seen' = seen \/ seen' = [seen EXCEPT ![turn] = Running]
      BY <1>17 DEF IdleToDeadline, StillRunning
    <3>. QED
      BY <1>24, <1>25, <3>1
  <2>4. /\ alarm' \in [Boards -> Nat \cup {-1}]
        /\ latched' \in [Boards -> BOOLEAN] /\ work' \in [Boards -> BOOLEAN]
    <3>1. /\ alarm' = alarm \/ alarm' = [alarm EXCEPT ![turn] = -1]
          /\ latched' = latched \/ latched' = [latched EXCEPT ![turn] = turn \in Readers]
          /\ \/ work' = [work EXCEPT ![turn] = FALSE]
             \/ work' = [work EXCEPT ![turn] = TRUE]
      BY <1>17 DEF IdleToDeadline
    <3>2. (turn \in Readers) \in BOOLEAN /\ FALSE \in BOOLEAN /\ TRUE \in BOOLEAN
      OBVIOUS
    <3>. QED
      BY <1>1, <1>23, <1>24, <3>1, <3>2, Zenon
  <2>. QED
    BY <1>17, <2>2, <2>3, <2>4 DEF IdleToDeadline, StillRunning, TypeOK
<1>18. CASE IdleForGood
  BY <1>1, <1>2, <1>18 DEF IdleForGood, ReturnIdle, IdleTo, TypeOK
<1>19. CASE Over \/ UNCHANGED vars
  BY <1>19 DEF Over, vars, boardVars, TypeOK
<1>. QED
  BY <1>4, <1>5, <1>6, <1>7, <1>8, <1>9, <1>10, <1>11, <1>12, <1>13, <1>14, <1>15, <1>16,
     <1>17, <1>18, <1>19 DEF Next, GuestStep, IdleStep

(* They hold from the start.                                               *)
LEMMA InitTypes == Init => TypeOK
<1> SUFFICES ASSUME Init PROVE TypeOK
  OBVIOUS
<1> USE PairAssumption DEF Null
<1>1. seen \in [Boards -> [idle : BOOLEAN, next : Nat \cup {-1}]]
  BY DEF Init, Running, IdleTo
<1>2. queue \in [Boards -> Seq(Nat)]
  BY DEF Init
<1>. QED
  BY <1>1, <1>2 DEF Init, TypeOK, Start, Boards

(* The boards' clocks and epochs, the limit and the times the pair keeps   *)
(* of each board are times: none of the subtractions between a board's     *)
(* clock and the timeline goes below zero.                                 *)
THEOREM PairTypes == Spec => []TypeOK
  BY InitTypes, TypeStep, PTL DEF Spec

-----------------------------------------------------------------------------
(* Time.                                                                   *)

(* A reboot sets the board's clock back and its epoch forward; a board     *)
(* that idles goes to the later of its clock and what it idles to.         *)
LEMMA ClockStep == TypeOK /\ [Next]_vars => \A i \in Boards : Global(i)' >= Global(i)
<1> SUFFICES ASSUME TypeOK, [Next]_vars PROVE \A i \in Boards : Global(i)' >= Global(i)
  OBVIOUS
<1>1. /\ turn \in Boards
      /\ \A i \in Boards : epoch[i] \in Nat /\ now[i] \in Nat
  BY DEF TypeOK
<1>2. now \in [Boards -> Nat] /\ epoch \in [Boards -> Nat]
  BY DEF TypeOK
<1>3. CASE UNCHANGED <<now, epoch>>
  BY <1>1, <1>3 DEF Global
<1>4. CASE \E t \in Times : BothAsleep(t)
  <2>1. PICK t \in Times : BothAsleep(t)
    BY <1>4
  <2>2. CASE paced
    <3>1. now' = [i \in Boards |-> IF Global(i) < t THEN t - epoch[i] ELSE now[i]]
          /\ epoch' = epoch
      BY <2>1, <2>2 DEF BothAsleep
    <3>2. t \in Nat
      BY PairAssumption DEF Times
    <3>. QED
      BY <1>1, <3>1, <3>2 DEF Global
  <2>3. CASE ~paced
    BY <1>1, <2>1, <2>3 DEF BothAsleep, Global
  <2>. QED
    BY <2>2, <2>3
<1>5. CASE safepoint_tick
  BY <1>1, <1>2, <1>5 DEF safepoint_tick, Global
<1>6. CASE Reboot
  BY <1>1, <1>2, <1>6 DEF Reboot, Global
<1>7. CASE IdleToLimit
  <2>1. stepLimit \in Int
    BY DEF TypeOK, Null
  <2>. QED
    BY <1>1, <1>2, <1>7, <2>1 DEF IdleToLimit, Advance, Later, Global
<1>8. CASE IdleToDeadline
  <2>1. NextAt(turn) \in Int
    BY <1>1, <1>8, Deadline DEF IdleToDeadline
  <2>. QED
    BY <1>1, <1>2, <1>8, <2>1 DEF IdleToDeadline, Advance, Later, Global
<1>9. CASE PowerOn \/ RunBoard \/ LimitReached \/ BeginStep \/ eth_send \/ eth_recv
           \/ SwitchOrBusy \/ IdleForGood \/ Over \/ UNCHANGED vars
           \/ (\E i \in Boards : Press(i)) \/ \E at \in Times \cup {Null} : set_alarm_ns(at)
  <2>1. UNCHANGED <<now, epoch>>
    BY <1>9 DEF PowerOn, RunBoard, LimitReached, BeginStep, eth_send, eth_recv, SwitchOrBusy,
                IdleForGood, Over, Press, set_alarm_ns, vars, boardVars
  <2>. QED
    BY <1>3, <2>1
<1>. QED
  BY <1>4, <1>5, <1>6, <1>7, <1>8, <1>9 DEF Next, GuestStep, IdleStep

(* A board's time on the pair's timeline only grows.                       *)
THEOREM TimelineOnlyGrows == Spec => TimeNeverGoesBack
<1>1. TypeOK /\ [Next]_vars => [\A i \in Boards : Global(i)' >= Global(i)]_vars
  BY ClockStep
<1>. QED
  BY <1>1, PairTypes, PTL DEF Spec, TimeNeverGoesBack

-----------------------------------------------------------------------------
(* What the pair keeps of the boards.                                      *)

(* The history is not taken ahead of a clock.                              *)
LEMMA SettledStep == TypeOK /\ SettledInv /\ [Next]_vars => SettledInv'
<1> SUFFICES ASSUME TypeOK, SettledInv, [Next]_vars PROVE SettledInv'
  OBVIOUS
<1>1. \A i \in Boards : /\ Global(i) \in Nat /\ Global(i)' \in Nat /\ Global(i)' >= Global(i)
                        /\ settled[i] \in Nat /\ settled[i] <= Global(i)
                        /\ epoch[i] \in Nat /\ now[i] \in Nat
                        /\ Global(i) = epoch[i] + now[i] /\ Global(i)' = epoch'[i] + now'[i]
  <2>1. TypeOK'
    BY TypeStep
  <2>. QED
    <3>1. \A i \in Boards : epoch[i] \in Nat /\ now[i] \in Nat /\ settled[i] \in Nat
      BY DEF TypeOK
    <3>2. \A i \in Boards : epoch'[i] \in Nat /\ now'[i] \in Nat
      BY <2>1 DEF TypeOK
    <3>3. \A i \in Boards : Global(i)' >= Global(i)
      BY ClockStep
    <3>. QED
      BY <3>1, <3>2, <3>3 DEF SettledInv, Global
<1>2. turn \in Boards /\ settled \in [Boards -> Nat] /\ now \in [Boards -> Nat]
  BY DEF TypeOK
<1>3. CASE settled' = settled
  BY <1>1, <1>3 DEF SettledInv
<1>4. CASE BeginStep /\ settled' # settled
  <2>1. settled' = [settled EXCEPT ![turn] = Global(turn)]
    BY <1>4 DEF BeginStep, GiveUp
  <2>. QED
    BY <1>1, <1>2, <2>1 DEF SettledInv
<1>5. CASE settled' # settled /\ \E t \in Times : BothAsleep(t)
  <2>1. PICK t \in Times : BothAsleep(t)
    BY <1>5
  <2>2. /\ now' = [i \in Boards |-> IF Global(i) < t THEN t - epoch[i] ELSE now[i]]
        /\ settled' = [i \in Boards |-> IF Global(i) < t THEN t ELSE settled[i]]
        /\ epoch' = epoch
    BY <1>5, <2>1 DEF BothAsleep
  <2>3. t \in Nat
    BY PairAssumption DEF Times
  <2>. QED
    BY <1>1, <2>2, <2>3 DEF SettledInv
<1>6. ASSUME NEW t \in Int, Advance(turn, t), epoch' = epoch
      PROVE  SettledInv'
  <2>1. now' = [now EXCEPT ![turn] = Later(now[turn], t)]
    BY <1>6 DEF Advance
  <2>2. CASE t > now[turn]
    <3>1. settled' = [settled EXCEPT ![turn] = epoch[turn] + t]
      BY <1>6, <2>2 DEF Advance
    <3>. QED
      BY <1>1, <1>2, <1>6, <2>1, <2>2, <3>1 DEF SettledInv, Later
  <2>3. CASE ~ (t > now[turn])
    <3>1. settled' = settled
      BY <1>6, <2>3 DEF Advance
    <3>. QED
      BY <1>3, <3>1
  <2>. QED
    BY <2>2, <2>3
<1>7. CASE IdleToLimit
  <2>1. stepLimit \in Int /\ Advance(turn, stepLimit) /\ epoch' = epoch
    BY <1>7 DEF IdleToLimit, TypeOK, Null
  <2>. QED
    BY <1>6, <2>1
<1>8. CASE IdleToDeadline
  <2>1. NextAt(turn) \in Int /\ Advance(turn, NextAt(turn)) /\ epoch' = epoch
    BY <1>2, <1>8, Deadline DEF IdleToDeadline
  <2>. QED
    BY <1>6, <2>1
<1>9. CASE PowerOn \/ RunBoard \/ LimitReached \/ eth_send \/ eth_recv \/ safepoint_tick
           \/ SwitchOrBusy \/ Reboot \/ IdleForGood \/ Over \/ UNCHANGED vars
           \/ (\E i \in Boards : Press(i)) \/ \E at \in Times \cup {Null} : set_alarm_ns(at)
  <2>1. settled' = settled
    BY <1>9 DEF PowerOn, RunBoard, LimitReached, eth_send, eth_recv, safepoint_tick, SwitchOrBusy,
                Reboot, IdleForGood, Over, Press, set_alarm_ns, GiveUp, vars, boardVars
  <2>. QED
    BY <1>3, <2>1
<1>. QED
  BY <1>3, <1>4, <1>5, <1>7, <1>8, <1>9 DEF Next, GuestStep, IdleStep

(* Every step keeps what the pair knows of a board true to it.             *)
LEMMA OffStep == TypeOK /\ OffInv /\ [Next]_vars => OffInv'
<1> SUFFICES ASSUME TypeOK, OffInv, [Next]_vars PROVE OffInv'
  OBVIOUS
<1>1. /\ turn \in Boards /\ Other(turn) \in Boards /\ (turn = 0 \/ turn = 1)
      /\ 0 \in Boards /\ 1 \in Boards /\ Other(0) = 1 /\ Other(1) = 0
  BY DEF TypeOK, Other, Boards
<1>2. on \in [Boards -> BOOLEAN]
  BY DEF TypeOK
<1> DEFINE Fresh == /\ now[1] = 0 /\ seen[1] = IdleTo(epoch[1]) /\ settled[1] = epoch[1]
                    /\ queue[1] = <<>> /\ alarm[1] = Null /\ ~latched[1]
<1>3. ASSUME on' = on, on[1], pc' # "pick" => on[turn'], ended' # "no" => pc' = "over"
      PROVE  OffInv'
  BY <1>3 DEF OffInv
<1>4. CASE PowerOn
  <2>1. Behind = 1
    <3>1. Behind \in Boards /\ ~on[Behind]
      BY <1>4, BehindIs DEF PowerOn
    <3>. QED
      BY <1>1, <3>1 DEF OffInv, Boards
  <2>2. on'[0] /\ on'[1] /\ pc' = "pick" /\ ended' = ended /\ pc = "pick"
    BY <1>1, <1>2, <1>4, <2>1 DEF PowerOn, OffInv
  <2>. QED
    BY <2>2 DEF OffInv
<1>5. CASE RunBoard
  <2>1. on' = on /\ on[turn'] /\ pc' = "until" /\ ended' = ended /\ pc = "pick"
    BY <1>5 DEF RunBoard, boardVars
  <2>. QED
    BY <1>5, <2>1 DEF RunBoard, OffInv, boardVars
<1>6. CASE \E t \in Times : BothAsleep(t)
  <2>1. PICK t \in Times : BothAsleep(t)
    BY <1>6
  <2>2. on[1] /\ on' = on /\ turn' = turn /\ on[turn]
    BY <1>1, <2>1 DEF BothAsleep, Asleep
  <2>3. ended' # "no" => pc' = "over"
    BY <2>1 DEF BothAsleep, OffInv
  <2>. QED
    BY <1>3, <2>2, <2>3
<1>7. CASE \E i \in Boards : Press(i)
  <2>1. PICK i \in Boards : Press(i)
    BY <1>7
  <2>2. CASE i = 1
    <3>1. on[1] /\ on' = on /\ pc' = "pick" /\ pc = "pick" /\ ended' = ended
      BY <2>1, <2>2 DEF Press
    <3>. QED
      BY <3>1 DEF OffInv
  <2>3. CASE i # 1
    <3>1. latched'[1] = latched[1]
      BY <1>1, <2>1, <2>3 DEF Press, TypeOK
    <3>. QED
      BY <2>1, <3>1 DEF Press, OffInv
  <2>. QED
    BY <2>2, <2>3
<1>8. CASE eth_send
  <2>1. ~on[1] => queue' = queue /\ seen' = seen
    BY <1>1, <1>8 DEF eth_send, OffInv
  <2>. QED
    BY <1>8, <2>1 DEF eth_send, OffInv
<1>9. CASE Over \/ UNCHANGED vars
  BY <1>9 DEF Over, vars, boardVars, OffInv
<1>10. CASE LimitReached \/ BeginStep \/ safepoint_tick \/ eth_recv \/ SwitchOrBusy \/ Reboot
            \/ IdleStep \/ \E at \in Times \cup {Null} : set_alarm_ns(at)
  <2>1. pc \in {"until", "guest"}
    BY <1>10 DEF LimitReached, BeginStep, safepoint_tick, eth_recv, SwitchOrBusy, Reboot,
                 IdleStep, IdleToLimit, IdleToDeadline, IdleForGood, set_alarm_ns
  <2>2. on' = on /\ turn' = turn /\ on[turn] /\ ended = "no"
    <3>1. on' = on /\ turn' = turn
      BY <1>10 DEF LimitReached, BeginStep, safepoint_tick, eth_recv, SwitchOrBusy, Reboot,
                   IdleStep, IdleToLimit, IdleToDeadline, IdleForGood, set_alarm_ns, boardVars
    <3>. QED
      BY <2>1, <3>1 DEF OffInv
  <2>3. ended' # "no" => pc' = "over"
    BY <1>10, <2>2 DEF LimitReached, BeginStep, safepoint_tick, eth_recv, SwitchOrBusy, Reboot,
                 IdleStep, IdleToLimit, IdleToDeadline, IdleForGood, set_alarm_ns, GiveUp
  <2>4. CASE on[1]
    BY <1>3, <2>2, <2>3, <2>4
  <2>5. CASE ~on[1]
    <3>1. turn = 0
      BY <1>1, <2>2, <2>5
    <3>2. UNCHANGED <<now[1], epoch[1], alarm[1], queue[1], latched[1], settled[1]>>
      BY <1>1, <1>10, <3>1
         DEF LimitReached, BeginStep, safepoint_tick, eth_recv, SwitchOrBusy, Reboot, GiveUp,
             IdleStep, IdleToLimit, IdleToDeadline, IdleForGood, set_alarm_ns, Advance, TypeOK,
             boardVars
    <3>3. seen'[1] = seen[1]
      <4>1. seen' = seen \/ \E r : seen' = [seen EXCEPT ![turn] = r]
        BY <1>10
           DEF LimitReached, BeginStep, safepoint_tick, eth_recv, SwitchOrBusy, Reboot,
               IdleStep, IdleToLimit, IdleToDeadline, IdleForGood, set_alarm_ns, StillRunning,
               ReturnIdle
      <4>. QED
        BY <1>1, <3>1, <4>1 DEF TypeOK
    <3>. QED
      BY <2>2, <2>3, <2>5, <3>2, <3>3 DEF OffInv, IdleTo
  <2>. QED
    BY <2>4, <2>5
<1>. QED
  BY <1>4, <1>5, <1>6, <1>7, <1>8, <1>9, <1>10 DEF Next, GuestStep, IdleStep

-----------------------------------------------------------------------------
(* What a running board leaves alone.                                      *)

(* The steps of the board that runs, but for sending.                      *)
OwnStep == \/ LimitReached \/ BeginStep \/ safepoint_tick \/ eth_recv \/ SwitchOrBusy \/ Reboot
           \/ IdleStep \/ \E at \in Times \cup {Null} : set_alarm_ns(at)

(* They leave the other board as it is.                                    *)
LEMMA OwnSteps ==
  ASSUME TypeOK, OwnStep
  PROVE  LET o == Other(turn)
         IN  /\ pc \in {"until", "guest"}
             /\ turn' = turn /\ on' = on /\ presses' = presses
             /\ now'[o] = now[o] /\ epoch'[o] = epoch[o] /\ alarm'[o] = alarm[o]
             /\ queue'[o] = queue[o] /\ seen'[o] = seen[o] /\ latched'[o] = latched[o]
             /\ work'[o] = work[o] /\ settled'[o] = settled[o] /\ reboots'[o] = reboots[o]
<1> DEFINE o == Other(turn)
<1>1. turn \in Boards /\ o \in Boards /\ o # turn
  BY DEF TypeOK, Other, Boards
<1> HIDE DEF o
<1>2. /\ on' = on /\ turn' = turn /\ presses' = presses /\ pc \in {"until", "guest"}
  BY DEF OwnStep, LimitReached, BeginStep, safepoint_tick, eth_recv, SwitchOrBusy, Reboot,
         IdleStep, IdleToLimit, IdleToDeadline, IdleForGood, set_alarm_ns, boardVars
<1>3. seen' = seen \/ \E r : seen' = [seen EXCEPT ![turn] = r]
  BY DEF OwnStep, LimitReached, BeginStep, safepoint_tick, eth_recv, SwitchOrBusy, Reboot,
         IdleStep, IdleToLimit, IdleToDeadline, IdleForGood, set_alarm_ns, StillRunning,
         ReturnIdle
<1>4. seen'[o] = seen[o]
  BY <1>1, <1>3 DEF TypeOK
<1>5. /\ now'[o] = now[o] /\ epoch'[o] = epoch[o] /\ alarm'[o] = alarm[o]
      /\ queue'[o] = queue[o] /\ latched'[o] = latched[o] /\ settled'[o] = settled[o]
      /\ reboots'[o] = reboots[o]
  <2>1. now'[o] = now[o]
    <3>1. now' = now \/ \E x : now' = [now EXCEPT ![turn] = x]
      BY DEF OwnStep, LimitReached, BeginStep, safepoint_tick, eth_recv, SwitchOrBusy, Reboot,
           IdleStep, IdleToLimit, IdleToDeadline, IdleForGood, set_alarm_ns, GiveUp, Advance,
           boardVars
    <3>. QED
      BY <1>1, <3>1 DEF TypeOK
  <2>2. epoch'[o] = epoch[o]
    <3>1. epoch' = epoch \/ \E x : epoch' = [epoch EXCEPT ![turn] = x]
      BY DEF OwnStep, LimitReached, BeginStep, safepoint_tick, eth_recv, SwitchOrBusy, Reboot,
           IdleStep, IdleToLimit, IdleToDeadline, IdleForGood, set_alarm_ns, GiveUp, Advance,
           boardVars
    <3>. QED
      BY <1>1, <3>1 DEF TypeOK
  <2>3. alarm'[o] = alarm[o]
    <3>1. alarm' = alarm \/ \E x : alarm' = [alarm EXCEPT ![turn] = x]
      BY DEF OwnStep, LimitReached, BeginStep, safepoint_tick, eth_recv, SwitchOrBusy, Reboot,
           IdleStep, IdleToLimit, IdleToDeadline, IdleForGood, set_alarm_ns, GiveUp, Advance,
           boardVars
    <3>. QED
      BY <1>1, <3>1 DEF TypeOK
  <2>4. queue'[o] = queue[o]
    <3>1. queue' = queue \/ \E x : queue' = [queue EXCEPT ![turn] = x]
      BY DEF OwnStep, LimitReached, BeginStep, safepoint_tick, eth_recv, SwitchOrBusy, Reboot,
           IdleStep, IdleToLimit, IdleToDeadline, IdleForGood, set_alarm_ns, GiveUp, Advance,
           boardVars
    <3>. QED
      BY <1>1, <3>1 DEF TypeOK
  <2>5. latched'[o] = latched[o]
    <3>1. latched' = latched \/ \E x : latched' = [latched EXCEPT ![turn] = x]
      BY Zenon DEF OwnStep, LimitReached, BeginStep, safepoint_tick, eth_recv, SwitchOrBusy, Reboot,
           IdleStep, IdleToLimit, IdleToDeadline, IdleForGood, set_alarm_ns, GiveUp, Advance,
           boardVars
    <3>. QED
      BY <1>1, <3>1 DEF TypeOK
  <2>6. settled'[o] = settled[o]
    <3>1. settled' = settled \/ \E x : settled' = [settled EXCEPT ![turn] = x]
      BY DEF OwnStep, LimitReached, BeginStep, safepoint_tick, eth_recv, SwitchOrBusy, Reboot,
           IdleStep, IdleToLimit, IdleToDeadline, IdleForGood, set_alarm_ns, GiveUp, Advance,
           boardVars
    <3>. QED
      BY <1>1, <3>1 DEF TypeOK
  <2>7. reboots'[o] = reboots[o]
    <3>1. reboots' = reboots \/ \E x : reboots' = [reboots EXCEPT ![turn] = x]
      BY DEF OwnStep, LimitReached, BeginStep, safepoint_tick, eth_recv, SwitchOrBusy, Reboot,
           IdleStep, IdleToLimit, IdleToDeadline, IdleForGood, set_alarm_ns, GiveUp, Advance,
           boardVars
    <3>. QED
      BY <1>1, <3>1 DEF TypeOK
  <2>. QED
    BY <2>1, <2>2, <2>3, <2>4, <2>5, <2>6, <2>7
<1>6. work' = work \/ \E b : work' = [work EXCEPT ![turn] = b]
  BY Zenon DEF OwnStep, LimitReached, BeginStep, safepoint_tick, eth_recv, SwitchOrBusy, Reboot,
         IdleStep, IdleToLimit, IdleToDeadline, IdleForGood, set_alarm_ns, GiveUp, ReturnIdle,
         boardVars
<1>7. work'[o] = work[o]
  BY <1>1, <1>6 DEF TypeOK
<1>. QED
  BY <1>2, <1>4, <1>5, <1>7 DEF o

(* A frame that is sent changes the other board's queue, and what is noted *)
(* of it.                                                                  *)
LEMMA Sending ==
  ASSUME TypeOK, eth_send
  PROVE  LET o  == Other(turn)
             at == Global(turn) + Latency
         IN  /\ pc = "guest" /\ work[turn] /\ at \in Nat
             /\ UNCHANGED <<paced, on, epoch, now, alarm, latched, work, reboots, pc, turn,
                            presses, ended, settled>>
             /\ queue'[turn] = queue[turn] /\ seen'[turn] = seen[turn]
             /\ ~on[o] => UNCHANGED <<queue, seen, stepLimit>>
             /\ on[o] =>
                  /\ queue'[o] # <<>>
                  /\ \/ Head(queue'[o]) = at
                     \/ queue[o] # <<>> /\ Head(queue'[o]) = Head(queue[o])
                  /\ IF seen[o].idle /\ (seen[o].next = Null \/ at < seen[o].next)
                       THEN seen'[o].idle /\ seen'[o].next = at
                       ELSE seen'[o] = seen[o]
                  /\ stepLimit' \in Nat /\ stepLimit' + epoch[turn] <= at + Latency
                  /\ stepLimit # Null => stepLimit' <= stepLimit
<1> DEFINE o == Other(turn)
<1> DEFINE at == Global(turn) + Latency
<1>1. /\ turn \in Boards /\ o \in Boards /\ o # turn /\ Other(o) = turn
      /\ queue \in [Boards -> Seq(Nat)] /\ queue[o] \in Seq(Nat)
      /\ seen \in [Boards -> [idle : BOOLEAN, next : Nat \cup {Null}]]
      /\ seen[o] \in [idle : BOOLEAN, next : Nat \cup {Null}]
  BY DEF TypeOK, Other, Boards
<1>2. /\ epoch[turn] \in Nat /\ now[turn] \in Nat /\ Latency \in Nat
      /\ at = epoch[turn] + now[turn] + Latency /\ at \in Nat
  BY <1>1, PairAssumption DEF TypeOK, Global
<1>3. /\ pc = "guest" /\ work[turn]
      /\ UNCHANGED <<paced, on, epoch, now, alarm, latched, work, reboots, pc, turn,
                     presses, ended, settled>>
  BY DEF eth_send
<1>4. CASE ~on[o]
  <2>1. UNCHANGED <<queue, seen, stepLimit>>
    BY <1>4 DEF eth_send
  <2>. HIDE DEF at, o
  <2>2. queue'[turn] = queue[turn] /\ seen'[turn] = seen[turn]
    BY <2>1
  <2>. QED
    BY <1>2, <1>3, <1>4, <2>1, <2>2 DEF at, o
<1>5. CASE on[o]
  <2>1. queue' = [queue EXCEPT ![o] = pushEthernet(queue[o], at)] /\ arriving(o, at)
    BY <1>5 DEF eth_send
  <2>. HIDE DEF at, o
  <2> DEFINE r == pushEthernet(queue[o], at)
  <2>2. r # <<>> /\ (Head(r) = at \/ (queue[o] # <<>> /\ Head(r) = Head(queue[o])))
    BY <1>1, <1>2, Pushed
  <2>. HIDE DEF r
  <2>3. queue'[o] = r /\ queue'[turn] = queue[turn]
    BY <1>1, <2>1 DEF r
  <2>4. /\ IF seen[o].idle /\ (seen[o].next = Null \/ at < seen[o].next)
             THEN seen'[o].idle /\ seen'[o].next = at
             ELSE seen'[o] = seen[o]
        /\ seen'[turn] = seen[turn]
    BY <1>1, <2>1 DEF arriving
  <2>5. LET limit == at + Latency - epoch[turn]
        IN  stepLimit' = IF stepLimit = Null \/ limit < stepLimit THEN limit ELSE stepLimit
    BY <1>1, <2>1 DEF arriving
  <2>6. stepLimit = Null \/ stepLimit \in Nat
    BY DEF TypeOK
  <2>7. /\ stepLimit' \in Nat /\ stepLimit' + epoch[turn] <= at + Latency
        /\ stepLimit # Null => stepLimit' <= stepLimit
    BY <1>2, <2>5, <2>6
  <2>. QED
    BY <1>2, <1>3, <1>5, <2>2, <2>3, <2>4, <2>7 DEF at, o
<1>. QED
  BY <1>4, <1>5

-----------------------------------------------------------------------------
(* When both boards are asleep.                                            *)

(* A board that was seen idle without a deadline still has none.           *)
LEMMA LinkStep == TypeOK /\ OffInv /\ LinkInv /\ [Next]_vars => LinkInv'
<1> SUFFICES ASSUME TypeOK, OffInv, LinkInv, [Next]_vars PROVE LinkInv'
  OBVIOUS
<1>1. /\ turn \in Boards /\ Other(turn) \in Boards /\ Other(turn) # turn
      /\ \A i \in Boards : i = turn \/ i = Other(turn)
  BY DEF TypeOK, Other, Boards
<1>2. Running # IdleTo(Null) /\ \A t \in Nat : IdleTo(t) # IdleTo(Null)
  BY DEF Running, IdleTo, Null
<1>3. CASE PowerOn
  <2>1. Behind \in Boards /\ seen'[Behind] = Running
    BY <1>3, BehindIs DEF PowerOn, TypeOK
  <2>2. \A i \in Boards : i # Behind => seen'[i] = seen[i] /\ on'[i] = on[i]
    BY <1>3 DEF PowerOn, TypeOK
  <2>. QED
    BY <1>2, <1>3, <2>1, <2>2 DEF PowerOn, LinkInv, Away
<1>4. CASE RunBoard
  BY <1>4 DEF RunBoard, LinkInv, Away, boardVars
<1>5. CASE \E t \in Times : BothAsleep(t)
  BY <1>5 DEF BothAsleep, LinkInv, Away
<1>6. CASE \E i \in Boards : Press(i)
  BY <1>6 DEF Press, LinkInv, Away
<1>7. CASE Over \/ UNCHANGED vars
  BY <1>7 DEF Over, vars, boardVars, LinkInv, Away
<1>8. CASE eth_send
  <2>1. /\ pc = "guest" /\ turn' = turn /\ alarm' = alarm /\ on' = on /\ pc' = pc
    BY <1>8 DEF eth_send
  <2>2. on[Other(turn)] => seen'[Other(turn)] # IdleTo(Null)
    <3>1. ASSUME on[Other(turn)]
          PROVE  IF seen[Other(turn)].idle
                      /\ (seen[Other(turn)].next = Null \/ Global(turn) + Latency < seen[Other(turn)].next)
                   THEN seen'[Other(turn)].next = Global(turn) + Latency
                   ELSE seen'[Other(turn)] = seen[Other(turn)]
      BY <1>8, <3>1, Sending
    <3>2. Global(turn) + Latency \in Nat
      BY <1>8, Sending
    <3>3. IdleTo(Null).idle /\ IdleTo(Null).next = Null /\ ~ (Null \in Nat)
      BY DEF IdleTo, Null
    <3>. QED
      BY <3>1, <3>2, <3>3
  <2>. QED
    BY <1>1, <2>1, <2>2 DEF LinkInv, Away
<1>9. CASE OwnStep
  <2>1. /\ turn' = turn /\ on' = on /\ alarm'[Other(turn)] = alarm[Other(turn)]
        /\ queue'[Other(turn)] = queue[Other(turn)] /\ seen'[Other(turn)] = seen[Other(turn)]
        /\ pc # "over"
    BY <1>9, OwnSteps
  <2>2. CASE pc' # "pick"
    BY <1>1, <2>1, <2>2 DEF LinkInv, Away
  <2>3. CASE pc' = "pick"
    <3>1. CASE seen'[turn] = Running
      BY <1>1, <1>2, <2>1, <3>1 DEF LinkInv, Away
    <3>2. CASE seen'[turn] # Running
      <4>1. IdleToLimit \/ IdleForGood
        BY <1>1, <1>9, <2>3, <3>2 DEF OwnStep, LimitReached, BeginStep, safepoint_tick, eth_recv,
           SwitchOrBusy, Reboot, IdleStep, IdleToDeadline, set_alarm_ns, StillRunning, GiveUp,
           TypeOK
      <4>2. CASE IdleToLimit
        <5>1. NextAt(turn) + epoch[turn] \in Nat
          BY <1>1, <4>2, Deadline DEF IdleToLimit
        <5>2. seen'[turn] = IdleTo(NextAt(turn) + epoch[turn])
          BY <1>1, <4>2 DEF IdleToLimit, ReturnIdle, TypeOK
        <5>. QED
          BY <1>1, <1>2, <2>1, <5>1, <5>2 DEF LinkInv, Away
      <4>3. CASE IdleForGood
        <5>1. alarm'[turn] = Null /\ queue'[turn] = <<>>
          BY <4>3 DEF IdleForGood, HasDeadline
        <5>. QED
          BY <1>1, <2>1, <5>1 DEF LinkInv, Away
      <4>. QED
        BY <4>1, <4>2, <4>3
    <3>. QED
      BY <3>1, <3>2
  <2>. QED
    BY <2>2, <2>3
<1>. QED
  BY <1>3, <1>4, <1>5, <1>6, <1>7, <1>8, <1>9 DEF Next, GuestStep, OwnStep

(* When the run ends because both boards are asleep, no alarm is set and   *)
(* no frame is on the wire: a frame that is sent to an idle board has been *)
(* noted as something it wakes for.                                        *)
THEOREM AsleepIsQuiet == Spec => []EndsOnlyWhenQuiet
<1> DEFINE IInv == TypeOK /\ OffInv /\ LinkInv /\ EndsOnlyWhenQuiet
<1>1. Init => IInv
  <2> SUFFICES ASSUME Init PROVE OffInv /\ LinkInv /\ EndsOnlyWhenQuiet
    BY InitTypes
  <2>. QED
    BY DEF Init, OffInv, LinkInv, EndsOnlyWhenQuiet, Start, IdleTo, Away, Boards
<1>2. IInv /\ [Next]_vars => IInv'
  <2> SUFFICES ASSUME IInv, [Next]_vars PROVE EndsOnlyWhenQuiet'
    BY TypeStep, OffStep, LinkStep
  <2>1. CASE pc = "over"
    <3>1. UNCHANGED vars
      BY <2>1 DEF Next, Over, PowerOn, RunBoard, LimitReached, BeginStep, BothAsleep, Press,
                  GuestStep, IdleStep, safepoint_tick, eth_send, eth_recv, SwitchOrBusy, Reboot,
                  set_alarm_ns, IdleToLimit, IdleToDeadline, IdleForGood
    <3>. QED
      BY <3>1 DEF vars, boardVars, EndsOnlyWhenQuiet
  <2>2. CASE pc # "over"
    <3>1. ended = "no"
      BY <2>2 DEF OffInv
    <3>2. CASE \E t \in Times : BothAsleep(t)
      <4>1. \A i \in Boards : on[i] /\ seen[i].idle /\ seen[i].next = Null /\ pc = "pick"
        BY <3>2 DEF BothAsleep, Asleep, Boards
      <4>2. \A i \in Boards : seen[i] = IdleTo(Null)
        <5>1. \A i \in Boards : seen[i] \in [idle : BOOLEAN, next : Nat \cup {Null}]
          BY DEF TypeOK
        <5>. QED
          BY <4>1, <5>1 DEF IdleTo
      <4>3. \A i \in Boards : alarm[i] = Null /\ queue[i] = <<>>
        BY <4>1, <4>2 DEF LinkInv, Away
      <4>4. alarm' = alarm /\ queue' = queue
        BY <3>2 DEF BothAsleep
      <4>. QED
        BY <4>3, <4>4 DEF EndsOnlyWhenQuiet
    <3>3. CASE ~ \E t \in Times : BothAsleep(t)
      <4>1. ended' # "asleep"
        BY <3>1, <3>3 DEF Next, Over, PowerOn, RunBoard, LimitReached, BeginStep, Press,
           GuestStep, IdleStep, safepoint_tick, eth_send, eth_recv, SwitchOrBusy, Reboot,
           set_alarm_ns, IdleToLimit, IdleToDeadline, IdleForGood, GiveUp, vars
      <4>. QED
        BY <4>1 DEF EndsOnlyWhenQuiet
    <3>. QED
      BY <3>2, <3>3
  <2>. QED
    BY <2>1, <2>2
<1>. QED
  BY <1>1, <1>2, PTL DEF Spec

-----------------------------------------------------------------------------
(* Conservative synchronisation.                                           *)

(* A reboot or a touch is not undone.                                      *)
LEMMA StaysDisturbed == TypeOK /\ [Next]_vars /\ Undisturbed' => Undisturbed
<1> SUFFICES ASSUME TypeOK, [Next]_vars, Undisturbed' PROVE Undisturbed
  OBVIOUS
<1>1. presses' = presses \/ presses' = presses + 1
  BY DEF Next, GuestStep, IdleStep, Over, PowerOn, RunBoard, LimitReached, BeginStep, BothAsleep,
         Press, safepoint_tick, eth_send, eth_recv, SwitchOrBusy, Reboot, set_alarm_ns,
         IdleToLimit, IdleToDeadline, IdleForGood, vars, boardVars
<1>2. reboots' = reboots \/ reboots' = [reboots EXCEPT ![turn] = reboots[turn] + 1]
  BY DEF Next, GuestStep, IdleStep, Over, PowerOn, RunBoard, LimitReached, BeginStep, BothAsleep,
         Press, safepoint_tick, eth_send, eth_recv, SwitchOrBusy, Reboot, set_alarm_ns,
         IdleToLimit, IdleToDeadline, IdleForGood, vars, boardVars
<1>3. /\ presses \in Nat /\ turn \in Boards /\ reboots \in [Boards -> Nat]
      /\ \A i \in Boards : reboots[i] \in Nat
  BY DEF TypeOK
<1>4. presses = 0
  BY <1>1, <1>3 DEF Undisturbed
<1>5. \A i \in Boards : reboots[i] = 0
  BY <1>2, <1>3 DEF Undisturbed
<1>. QED
  BY <1>4, <1>5 DEF Undisturbed

(* What a board may send next only depends on that board.                  *)
LEMMA WithinKept ==
  ASSUME NEW i \in Boards, NEW s \in Int, NEW t \in Int, TypeOK, s <= t, Within(i, t),
         queue'[i] = queue[i], alarm'[i] = alarm[i], epoch'[i] = epoch[i],
         TimeOf(i)' = TimeOf(i), Ready(i)' <=> Ready(i)
  PROVE  Within(i, s)'
<1>1. NextAt(i)' = NextAt(i) /\ HasDeadline(i)' = HasDeadline(i)
  BY DeadlineKept
<1>2. /\ TimeOf(i) \in Nat /\ Latency \in Nat
  BY PairAssumption DEF TypeOK, TimeOf, Global
<1>3. HasDeadline(i) => NextAt(i) \in Int /\ NextAt(i) + epoch[i] \in Nat
  BY Deadline
<1>4. Ready(i)' => s <= TimeOf(i)' + Latency
  BY <1>2 DEF Within
<1>5. ~Ready(i)' /\ HasDeadline(i)' => s <= Later(TimeOf(i)', NextAt(i)' + epoch'[i]) + Latency
  BY <1>1, <1>2, <1>3 DEF Within, Later
<1>. QED
  BY <1>4, <1>5 DEF Within

(* Nothing a board does by itself makes what it sends next arrive earlier  *)
(* than it could have before.                                              *)
LEMMA OwnWithin ==
  ASSUME TypeOK, TypeOK', OwnStep, NEW i \in Boards, i = turn, on[i], pc' # "over",
         epoch' = epoch, pc = "guest" => ~latched[i],
         NEW s \in Nat, Within(i, s)
  PROVE  Within(i, s)'
<1> DEFINE T == Global(i)
<1> DEFINE N == NextAt(i) + epoch[i]
<1>1. /\ on' = on /\ TimeOf(i) = T /\ TimeOf(i)' = Global(i)' /\ Latency \in Nat
      /\ T \in Nat /\ Global(i)' \in Nat /\ T = epoch[i] + now[i]
      /\ Global(i)' = epoch[i] + now'[i] /\ epoch[i] \in Nat /\ now[i] \in Nat
      /\ now'[i] \in Nat
  <2>1. on' = on
    BY OwnSteps
  <2>2. now[i] \in Nat /\ now'[i] \in Nat /\ epoch[i] \in Nat
    BY DEF TypeOK
  <2>. QED
    BY <2>1, <2>2, PairAssumption DEF TimeOf, Global
<1>2. HasDeadline(i) => N \in Nat /\ NextAt(i) \in Int
  BY Deadline
<1>3. /\ Ready(i) => s <= T + Latency
      /\ ~Ready(i) /\ HasDeadline(i) => s <= Later(T, N) + Latency
  BY <1>1 DEF Within
<1>4. Global(i)' >= T
  <2>1. [Next]_vars
    BY DEF OwnStep, Next, GuestStep
  <2>. QED
    BY <2>1, ClockStep
<1> HIDE DEF T, N
<1>5. ASSUME s <= Global(i)' + Latency
      PROVE  Within(i, s)'
  <2>1. HasDeadline(i)' => NextAt(i)' + epoch'[i] \in Int
    BY <1>1, DeadlineLater
  <2>. QED
    BY <1>1, <1>5, <2>1 DEF Within, Later
<1>6. ASSUME Ready(i)
      PROVE  Within(i, s)'
  BY <1>1, <1>3, <1>4, <1>5, <1>6
<1>7. ASSUME ~Ready(i), queue'[i] = queue[i], alarm'[i] = alarm[i], ~Ready(i)'
      PROVE  Within(i, s)'
  <2>1. HasDeadline(i)' = HasDeadline(i) /\ NextAt(i)' + epoch'[i] = N
    BY <1>7, DeadlineKept DEF N
  <2>. QED
    BY <1>1, <1>2, <1>3, <1>4, <1>7, <2>1 DEF Within, Later
<1>8. CASE LimitReached \/ SwitchOrBusy
  <2>1. queue' = queue /\ alarm' = alarm /\ (Ready(i)' <=> Ready(i))
    BY <1>8 DEF LimitReached, SwitchOrBusy, boardVars, Ready
  <2>. QED
    BY <1>6, <1>7, <2>1
<1>9. CASE BeginStep /\ ~Ready(i)
  <2>1. queue' = queue /\ alarm' = alarm /\ now' = now
    BY <1>9 DEF BeginStep
  <2>2. CASE FrameRaised
    <3>1. queue[i] # <<>> /\ Head(queue[i]) <= T
      BY <2>2 DEF FrameRaised, T
    <3>2. NextAt(i) <= NextFrame(i) /\ NextFrame(i) = Head(queue[i]) - epoch[i] /\ Head(queue[i]) \in Nat
      BY <3>1, Deadline
    <3>3. HasDeadline(i) /\ N <= T
      BY <1>1, <1>2, <3>1, <3>2 DEF HasDeadline, N
    <3>4. s <= T + Latency
      BY <1>1, <1>2, <1>3, <1>9, <3>3 DEF Later
    <3>. QED
      BY <1>1, <1>4, <1>5, <3>4
  <2>3. CASE ~FrameRaised
    <3>1. ~work[i] /\ ~latched[i] /\ work \in [Boards -> BOOLEAN] /\ latched \in [Boards -> BOOLEAN]
      BY <1>9 DEF Ready, TypeOK
    <3>2. /\ work' = [work EXCEPT ![turn] = work[turn] \/ latched[turn] \/ FrameRaised]
          /\ latched' = [latched EXCEPT ![turn] = FALSE]
      BY <1>9 DEF BeginStep, GiveUp
    <3>3. ~work'[i] /\ ~latched'[i]
      BY <2>3, <3>1, <3>2, Zenon
    <3>. QED
      BY <1>7, <1>9, <2>1, <3>3 DEF Ready
  <2>. QED
    BY <2>2, <2>3
<1>10. CASE safepoint_tick /\ ~Ready(i)
  <2>1. queue' = queue /\ latched' = latched /\ now' = [now EXCEPT ![turn] = now[turn] + 1]
    BY <1>10 DEF safepoint_tick
  <2>2. Global(i)' = T + 1
    BY <1>1, <2>1 DEF TypeOK
  <2>3. CASE alarm[i] # Null /\ now[i] + 1 >= alarm[i]
    <3>1. NextAt(i) <= alarm[i] /\ HasDeadline(i) /\ alarm[i] \in Nat
      BY <2>3, Deadline DEF HasDeadline, TypeOK
    <3>2. N <= T + 1
      BY <1>1, <1>2, <2>3, <3>1 DEF N
    <3>. QED
      BY <1>1, <1>2, <1>3, <1>5, <1>10, <2>2, <3>1, <3>2 DEF Later
  <2>4. CASE ~ (alarm[i] # Null /\ now[i] + 1 >= alarm[i])
    <3>1. alarm' = alarm /\ work' = work
      BY <1>10, <2>4 DEF safepoint_tick, GiveUp
    <3>. QED
      BY <1>7, <1>10, <2>1, <3>1 DEF Ready
  <2>. QED
    BY <2>3, <2>4
<1>11. CASE eth_recv \/ \E at \in Times \cup {Null} : set_alarm_ns(at)
  BY <1>6, <1>11 DEF eth_recv, set_alarm_ns, Ready
<1>12. CASE Reboot
  BY <1>6, <1>12 DEF Reboot, Ready
<1>13. CASE IdleToLimit /\ ~Ready(i)
  <2>1. queue' = queue /\ alarm' = alarm /\ latched' = latched /\ ~latched[i] /\ ~work'[i]
    BY <1>13 DEF IdleToLimit, ReturnIdle, TypeOK
  <2>. QED
    BY <1>7, <1>13, <2>1 DEF Ready
<1>14. CASE IdleToDeadline /\ ~Ready(i)
  <2>1. HasDeadline(i) /\ now' = [now EXCEPT ![turn] = Later(now[turn], NextAt(turn))]
    BY <1>14 DEF IdleToDeadline, Advance
  <2>2. now'[i] = Later(now[i], NextAt(i))
    BY <2>1 DEF TypeOK
  <2>3. Global(i)' >= N
    BY <1>1, <1>2, <2>1, <2>2 DEF Later, N
  <2>. QED
    BY <1>1, <1>2, <1>3, <1>4, <1>5, <1>14, <2>1, <2>3 DEF Later
<1>15. CASE IdleForGood
  <2>1. ~HasDeadline(i) /\ queue' = queue /\ alarm' = alarm
    BY <1>15 DEF IdleForGood
  <2>2. ~work'[i] /\ ~latched'[i]
    BY <1>15 DEF IdleForGood, ReturnIdle, TypeOK
  <2>. QED
    BY <2>1, <2>2 DEF Within, HasDeadline, Ready
<1>. QED
  BY <1>6, <1>8, <1>9, <1>10, <1>11, <1>12, <1>13, <1>14, <1>15 DEF OwnStep, IdleStep

(* The board that runs lets no time pass idle beyond its limit, and begins *)
(* no step there.                                                          *)
LEMMA OwnSettled ==
  ASSUME TypeOK, OwnStep
  PROVE  \/ settled'[turn] = settled[turn]
         \/ stepLimit = Null
         \/ stepLimit \in Nat /\ settled'[turn] <= stepLimit + epoch[turn]
<1>1. /\ turn \in Boards /\ settled \in [Boards -> Nat] /\ epoch[turn] \in Nat
      /\ now[turn] \in Nat /\ Global(turn) = epoch[turn] + now[turn]
      /\ stepLimit = Null \/ stepLimit \in Nat
  BY DEF TypeOK, Global
<1>2. CASE BeginStep
  <2>1. settled' = settled \/ settled' = [settled EXCEPT ![turn] = Global(turn)]
    BY <1>2 DEF BeginStep, GiveUp
  <2>2. stepLimit = Null \/ now[turn] < stepLimit
    BY <1>1, <1>2 DEF BeginStep, Reached
  <2>. QED
    BY <1>1, <2>1, <2>2
<1>3. ASSUME NEW t \in Int, Advance(turn, t), stepLimit = Null \/ t <= stepLimit
      PROVE  \/ settled'[turn] = settled[turn]
             \/ stepLimit = Null
             \/ stepLimit \in Nat /\ settled'[turn] <= stepLimit + epoch[turn]
  <2>1. settled' = settled \/ settled' = [settled EXCEPT ![turn] = epoch[turn] + t]
    BY <1>3 DEF Advance
  <2>. QED
    BY <1>1, <1>3, <2>1
<1>4. CASE IdleToLimit
  <2>1. stepLimit \in Int /\ Advance(turn, stepLimit) /\ stepLimit <= stepLimit
    BY <1>1, <1>4 DEF IdleToLimit
  <2>. QED
    BY <1>3, <2>1
<1>5. CASE IdleToDeadline
  <2>1. NextAt(turn) \in Int /\ Advance(turn, NextAt(turn))
        /\ (stepLimit = Null \/ NextAt(turn) <= stepLimit)
    BY <1>1, <1>5, Deadline DEF IdleToDeadline
  <2>. QED
    BY <1>3, <2>1
<1>6. CASE ~BeginStep /\ ~IdleToLimit /\ ~IdleToDeadline
  <2>1. settled' = settled
    BY <1>6 DEF OwnStep, LimitReached, safepoint_tick, eth_recv, SwitchOrBusy, Reboot, IdleStep,
                IdleForGood, set_alarm_ns, GiveUp
  <2>. QED
    BY <2>1
<1>. QED
  BY <1>2, <1>4, <1>5, <1>6

(* A step of the board that runs.                                          *)
LEMMA OwnSync ==
  ASSUME TypeOK, TypeOK', OffInv, OwnStep, pc' # "over", Undisturbed, Undisturbed', SyncInv
  PROVE  SyncInv'
<1>1. PICK i \in Boards, o \in Boards :
        /\ i = turn /\ o = Other(i) /\ i = Other(o) /\ o # i
        /\ \A k \in Boards : k = i \/ k = o
  BY DEF TypeOK, Other, Boards
<1>2. /\ pc \in {"until", "guest"} /\ turn' = turn /\ on' = on
      /\ now'[o] = now[o] /\ epoch'[o] = epoch[o] /\ alarm'[o] = alarm[o]
      /\ queue'[o] = queue[o] /\ seen'[o] = seen[o] /\ latched'[o] = latched[o]
      /\ work'[o] = work[o] /\ settled'[o] = settled[o]
  BY <1>1, OwnSteps
<1>3. on[i]
  BY <1>1, <1>2 DEF OffInv
<1>4. (pc = "guest" => ~latched[turn]) /\ Told(i) /\ Told(o) /\ Bounded /\ Limited
  BY <1>1, <1>2 DEF SyncInv
<1>5. ~Reboot
  <2> SUFFICES ASSUME Reboot PROVE FALSE
    OBVIOUS
  <2>1. reboots' = [reboots EXCEPT ![turn] = reboots[turn] + 1]
    BY DEF Reboot
  <2>2. reboots'[turn] = reboots[turn] + 1 /\ reboots[turn] \in Nat /\ turn \in Boards
    BY <2>1 DEF TypeOK
  <2>. QED
    BY <2>2 DEF Undisturbed
<1>6. epoch' = epoch /\ (stepLimit' = stepLimit)
  BY <1>5 DEF OwnStep, LimitReached, BeginStep, safepoint_tick, eth_recv, SwitchOrBusy, IdleStep,
              IdleToLimit, IdleToDeadline, IdleForGood, set_alarm_ns, boardVars
<1>7. pc' = "guest" => ~latched'[turn']
  <2>1. CASE BeginStep
    BY <1>1, <1>2, <2>1 DEF BeginStep, GiveUp, TypeOK
  <2>2. CASE pc' = "guest" /\ ~BeginStep
    <3>1. latched' = latched /\ pc = "guest"
      BY <1>5, <2>2 DEF OwnStep, LimitReached, safepoint_tick, eth_recv, SwitchOrBusy, IdleStep,
           IdleToLimit, IdleToDeadline, IdleForGood, set_alarm_ns, StillRunning, ReturnIdle, boardVars
    <3>. QED
      BY <1>2, <1>4, <3>1
  <2>. QED
    BY <2>1, <2>2
<1>8. /\ NextAt(o)' = NextAt(o) /\ HasDeadline(o)' = HasDeadline(o)
      /\ TimeOf(o)' = TimeOf(o) /\ Ready(o)' = Ready(o)
  BY <1>2, DeadlineKept DEF TimeOf, Global, Ready
<1>9. Told(o)'
  BY <1>1, <1>2, <1>4, <1>8 DEF Told, Away
<1>10. Told(i)'
  <2>1. CASE pc' # "pick" \/ ~seen'[i].idle
    BY <1>1, <1>2, <2>1 DEF Told, Away
  <2>2. CASE pc' = "pick" /\ seen'[i].idle
    <3>1. seen'[i] # Running
      BY <2>2 DEF Running
    <3>2. IdleToLimit \/ IdleForGood
      BY <1>1, <1>5, <2>2, <3>1 DEF OwnStep, LimitReached, BeginStep, safepoint_tick, eth_recv,
         SwitchOrBusy, IdleStep, IdleToDeadline, set_alarm_ns, StillRunning, GiveUp, TypeOK
    <3>3. latched' = latched /\ ~latched[i] /\ ~work'[i] /\ queue' = queue /\ alarm' = alarm
      <4>1. latched' = latched /\ queue' = queue /\ alarm' = alarm /\ pc = "guest"
        BY <3>2 DEF IdleToLimit, IdleForGood
      <4>2. work' = [work EXCEPT ![turn] = FALSE]
        BY <3>2 DEF IdleToLimit, IdleForGood, ReturnIdle
      <4>. QED
        BY <1>1, <1>4, <4>1, <4>2 DEF TypeOK
    <3>4. NextAt(i)' = NextAt(i) /\ HasDeadline(i)' = HasDeadline(i)
      BY <1>6, <3>3, DeadlineKept
    <3>5. CASE IdleForGood
      BY <1>1, <3>3, <3>4, <3>5 DEF IdleForGood, Told, Ready
    <3>6. CASE IdleToLimit
      <4>1. NextAt(i) + epoch[i] \in Nat
        BY <1>1, <3>6, Deadline DEF IdleToLimit
      <4>2. seen'[i] = IdleTo(NextAt(i) + epoch[i])
        BY <1>1, <3>6 DEF IdleToLimit, ReturnIdle, TypeOK
      <4>3. seen'[i].next # Null /\ seen'[i].next <= NextAt(i)' + epoch'[i]
        BY <1>6, <3>4, <4>1, <4>2 DEF IdleTo, Null
      <4>. QED
        BY <3>3, <4>3 DEF Told, Ready
    <3>. QED
      BY <3>2, <3>5, <3>6
  <2>. QED
    BY <2>1, <2>2
<1>11. on[o] => Within(i, settled[o])'
  <2> SUFFICES ASSUME on[o] PROVE Within(i, settled[o])'
    OBVIOUS
  <2>1. PICK s \in Nat : s = settled[o]
    BY DEF TypeOK
  <2>2. Within(i, s)
    BY <1>1, <1>4, <2>1 DEF Bounded
  <2>3. Within(i, s)'
    BY <1>1, <1>3, <1>4, <1>6, <2>2, OwnWithin
  <2>4. s = settled'[o]
    BY <1>2, <2>1
  <2>. QED
    BY <2>3, <2>4 DEF Within
<1>12. ASSUME NEW s \in Int, NEW t \in Int, s <= t, Within(o, t) PROVE Within(o, s)'
  BY <1>2, <1>8, <1>12, WithinKept
<1>13. Within(o, settled[i])'
  <2>1. PICK s \in Nat, e \in Nat, s2 \in Nat : s = settled[i] /\ e = epoch[i] /\ s2 = settled'[i]
    BY DEF TypeOK
  <2>2. Within(o, s)
    BY <1>1, <1>3, <1>4, <2>1 DEF Bounded
  <2>3. Within(o, s2)'
    <3>1. CASE s2 = s
      BY <1>12, <2>2, <3>1
    <3>2. CASE stepLimit = Null
      <4>1. ~Ready(o) /\ ~HasDeadline(o)
        BY <1>1, <1>2, <1>4, <3>2 DEF Limited
      <4>. QED
        BY <1>8, <4>1 DEF Within
    <3>3. CASE stepLimit \in Nat /\ s2 <= stepLimit + e
      <4>1. PICK t \in Nat : t = stepLimit + e
        BY <2>1, <3>3
      <4>2. stepLimit # Null
        BY <3>3 DEF Null
      <4>3. Within(o, t)
        BY <1>1, <1>2, <1>4, <2>1, <4>1, <4>2 DEF Limited
      <4>. QED
        BY <1>12, <3>3, <4>1, <4>3
    <3>. QED
      BY <1>1, <2>1, <3>1, <3>2, <3>3, OwnSettled
  <2>. QED
    BY <2>1, <2>3 DEF Within
<1>14. Bounded'
  <2> SUFFICES ASSUME NEW k \in Boards, on'[Other(k)]
               PROVE  Within(k, settled[Other(k)])'
    BY DEF Bounded
  <2>1. CASE k = i
    BY <1>1, <1>2, <1>11, <2>1
  <2>2. CASE k = o
    BY <1>1, <1>13, <2>2
  <2>. QED
    BY <1>1, <2>1, <2>2
<1>15. Limited'
  <2> SUFFICES ASSUME pc' \in {"until", "guest"}
               PROVE  IF stepLimit = Null
                        THEN ~Ready(o)' /\ ~HasDeadline(o)'
                        ELSE Within(o, stepLimit + epoch[i])'
    BY <1>1, <1>2, <1>6 DEF Limited, Within
  <2>1. CASE stepLimit = Null
    BY <1>1, <1>2, <1>4, <1>8, <2>1 DEF Limited
  <2>2. CASE stepLimit # Null
    <3>1. PICK t \in Nat : t = stepLimit + epoch[i]
      <4>1. stepLimit \in Nat /\ epoch[i] \in Nat
        BY <2>2 DEF TypeOK
      <4>. QED
        BY <4>1
    <3>2. Within(o, t)
      BY <1>1, <1>2, <1>4, <2>2, <3>1 DEF Limited
    <3>3. Within(o, t)'
      BY <1>12, <3>2
    <3>. QED
      BY <1>6, <2>2, <3>1, <3>3 DEF Within
  <2>. QED
    BY <2>1, <2>2
<1>. QED
  BY <1>1, <1>7, <1>9, <1>10, <1>14, <1>15 DEF SyncInv

(* A frame is sent: the receiver has something to wake for, and the sender *)
(* may go no further than the answer's arrival.                            *)
LEMMA SendSync ==
  ASSUME TypeOK, TypeOK', OffInv, SettledInv, eth_send, Undisturbed, SyncInv
  PROVE  SyncInv'
<1>1. PICK i \in Boards, o \in Boards :
        /\ i = turn /\ o = Other(i) /\ i = Other(o) /\ o # i
        /\ \A k \in Boards : k = i \/ k = o
  BY DEF TypeOK, Other, Boards
<1>2. PICK at \in Nat : at = Global(i) + Latency
  BY <1>1, Sending
<1>3. /\ pc = "guest" /\ work[i]
      /\ UNCHANGED <<paced, on, epoch, now, alarm, latched, work, reboots, pc, turn,
                     presses, ended, settled>>
      /\ queue'[i] = queue[i]
  BY <1>1, Sending
<1>4. on[i]
  BY <1>1, <1>3 DEF OffInv
<1>5. ~latched[i] /\ Told(o) /\ Bounded /\ Limited
  BY <1>1, <1>3 DEF SyncInv
<1>6. /\ \A k \in Boards : Ready(k)' = Ready(k) /\ TimeOf(k)' = TimeOf(k)
      /\ NextAt(i)' = NextAt(i) /\ HasDeadline(i)' = HasDeadline(i)
  BY <1>3, DeadlineKept DEF Ready, TimeOf, Global
<1>7. PICK si \in Nat, so \in Nat, ei \in Nat, eo \in Nat, To \in Nat :
        /\ si = settled[i] /\ so = settled[o] /\ ei = epoch[i] /\ eo = epoch[o]
        /\ To = TimeOf(o)
  <2>1. \A k \in Boards : settled[k] \in Nat /\ epoch[k] \in Nat /\ now[k] \in Nat
    BY DEF TypeOK
  <2>2. TimeOf(o) \in Nat
    BY <2>1 DEF TimeOf, Global
  <2>. QED
    BY <2>1, <2>2
<1>8. Latency \in Nat /\ si <= at
  <2>1. Global(i) \in Nat /\ si <= Global(i)
    <3>1. epoch[i] \in Nat /\ now[i] \in Nat
      BY DEF TypeOK
    <3>. QED
      BY <1>7, <3>1 DEF SettledInv, Global
  <2>. QED
    BY <1>2, <2>1, PairAssumption
<1>9. Told(i)'
  BY <1>1, <1>3 DEF Told, Away
<1>10. on[o] => Within(i, settled[o])'
  <2>1. on[o] => Within(i, so)
    BY <1>1, <1>5, <1>7 DEF Bounded
  <2>2. on[o] => Within(i, so)'
    BY <1>3, <1>6, <2>1, WithinKept
  <2>. QED
    BY <1>3, <1>7, <2>2 DEF Within
<1>11. /\ Within(o, si)
       /\ stepLimit = Null => ~Ready(o) /\ ~HasDeadline(o)
       /\ stepLimit # Null => stepLimit \in Nat /\ Within(o, stepLimit + epoch[i])
  BY <1>1, <1>3, <1>4, <1>5, <1>7 DEF Bounded, Limited, TypeOK
<1>12. CASE ~on[o]
  <2>1. UNCHANGED <<queue, seen, stepLimit>>
    BY <1>1, <1>12, Sending
  <2>2. NextAt(o)' = NextAt(o) /\ HasDeadline(o)' = HasDeadline(o)
    BY <1>3, <2>1, DeadlineKept
  <2>3. Told(o)'
    BY <1>3, <1>12 DEF Told
  <2>4. Within(o, settled[i])' /\ (stepLimit # Null => Within(o, stepLimit + epoch[i])')
    BY <1>3, <1>6, <1>7, <1>11, <2>1, <2>2 DEF Within
  <2>5. Bounded'
    BY <1>1, <1>3, <1>10, <2>4 DEF Bounded
  <2>6. Limited'
    BY <1>1, <1>3, <1>6, <1>11, <2>1, <2>2, <2>4 DEF Limited, Within
  <2>. QED
    BY <1>1, <1>3, <1>5, <1>9, <2>3, <2>5, <2>6 DEF SyncInv
<1>13. CASE on[o]
  <2>1. /\ queue'[o] # <<>>
        /\ Head(queue'[o]) = at \/ (queue[o] # <<>> /\ Head(queue'[o]) = Head(queue[o]))
        /\ IF seen[o].idle /\ (seen[o].next = Null \/ at < seen[o].next)
             THEN seen'[o].idle /\ seen'[o].next = at
             ELSE seen'[o] = seen[o]
        /\ stepLimit' \in Nat /\ stepLimit' + epoch[i] <= at + Latency
        /\ stepLimit # Null => stepLimit' <= stepLimit
    BY <1>1, <1>2, <1>13, Sending
  <2>2. PICK n \in Int : n = NextAt(o)' + epoch'[o]
    <3>1. HasDeadline(o)' /\ epoch'[o] \in Nat
      BY <2>1, DeadlineLater DEF TypeOK
    <3>. QED
      BY <3>1, DeadlineLater
  <2>3. HasDeadline(o)' /\ (n = at \/ (HasDeadline(o) /\ NextAt(o) + epoch[o] <= n))
    <3>1. HasDeadline(o)'
      BY <2>1, DeadlineLater
    <3>2. \/ NextAt(o)' = Head(queue'[o]) - epoch'[o]
          \/ alarm'[o] # Null /\ NextAt(o)' = alarm'[o]
      BY <3>1, DeadlineLater
    <3>3. /\ alarm'[o] = alarm[o] /\ epoch'[o] = eo /\ epoch[o] = eo
          /\ alarm[o] = Null \/ alarm[o] \in Nat
      BY <1>3, <1>7 DEF TypeOK
    <3>4. CASE alarm'[o] # Null /\ NextAt(o)' = alarm'[o]
      <4>1. HasDeadline(o) /\ NextAt(o) <= alarm[o] /\ NextAt(o) \in Int
        BY <3>3, <3>4, Deadline DEF HasDeadline
      <4>. QED
        BY <2>2, <3>1, <3>3, <3>4, <4>1
    <3>5. CASE NextAt(o)' = Head(queue'[o]) - epoch'[o] /\ Head(queue'[o]) = at
      BY <2>2, <3>1, <3>3, <3>5
    <3>6. CASE /\ NextAt(o)' = Head(queue'[o]) - epoch'[o]
               /\ queue[o] # <<>> /\ Head(queue'[o]) = Head(queue[o])
      <4>1. /\ HasDeadline(o) /\ NextAt(o) <= NextFrame(o) /\ NextAt(o) \in Int
            /\ Head(queue[o]) \in Nat /\ NextFrame(o) = Head(queue[o]) - epoch[o]
        BY <3>6, Deadline DEF HasDeadline
      <4>. QED
        BY <2>2, <3>1, <3>3, <3>6, <4>1
    <3>. QED
      BY <2>1, <3>2, <3>4, <3>5, <3>6
  <2>4. HasDeadline(o) => NextAt(o) + epoch[o] \in Nat
    BY Deadline
  <2>5. ASSUME NEW s \in Nat, Within(o, s), s <= at + Latency
        PROVE  Within(o, s)'
    <3>1. Ready(o) => s <= To + Latency
      BY <1>7, <2>5 DEF Within
    <3>2. ~Ready(o) => s <= Later(To, n) + Latency
      <4>1. ~Ready(o) /\ HasDeadline(o) => s <= Later(To, NextAt(o) + epoch[o]) + Latency
        BY <1>7, <2>5 DEF Within
      <4>. QED
        BY <1>7, <1>8, <2>2, <2>3, <2>4, <2>5, <4>1 DEF Later
    <3>. QED
      BY <1>6, <1>7, <2>2, <3>1, <3>2 DEF Within
  <2>6. Told(o)'
    <3>1. seen'[o].idle => seen[o].idle
      BY <2>1
    <3>2. seen[o].idle => /\ ~Ready(o)
                          /\ HasDeadline(o) => seen[o].next # Null
                                               /\ seen[o].next <= NextAt(o) + epoch[o]
      BY <1>1, <1>5, <1>13 DEF Told, Away
    <3>3. seen[o].next = Null \/ seen[o].next \in Nat
      BY DEF TypeOK
    <3>4. seen[o].idle => seen'[o].next # Null /\ seen'[o].next <= n
      BY <2>1, <2>2, <2>3, <2>4, <3>2, <3>3 DEF Null
    <3>. QED
      BY <1>6, <2>2, <3>1, <3>2, <3>4 DEF Told
  <2>7. Within(o, settled[i])'
    <3>1. Within(o, si)'
      BY <1>8, <1>11, <2>5, <1>2
    <3>. QED
      BY <1>3, <1>7, <3>1 DEF Within
  <2>8. Within(o, stepLimit + epoch[i])'
    <3>1. PICK l \in Nat : l = stepLimit' + ei
      BY <1>7, <2>1
    <3>2. l <= at + Latency
      BY <1>7, <2>1, <3>1
    <3>3. Within(o, l)
      <4>1. CASE stepLimit = Null
        BY <1>11, <4>1 DEF Within
      <4>2. CASE stepLimit # Null
        <5>1. PICK m \in Nat : m = stepLimit + ei
          BY <1>7, <1>11, <4>2
        <5>2. Within(o, m) /\ l <= m
          BY <1>7, <1>11, <2>1, <3>1, <4>2, <5>1
        <5>3. Ready(o) => l <= To + Latency
          BY <1>7, <1>8, <5>2 DEF Within
        <5>4. ~Ready(o) /\ HasDeadline(o) => l <= Later(To, NextAt(o) + epoch[o]) + Latency
          BY <1>7, <1>8, <2>4, <5>2 DEF Within, Later
        <5>. QED
          BY <1>7, <5>3, <5>4 DEF Within
      <4>. QED
        BY <4>1, <4>2
    <3>4. Within(o, l)'
      BY <2>5, <3>2, <3>3
    <3>5. l = stepLimit' + epoch'[i]
      BY <1>3, <1>7, <3>1
    <3>. QED
      BY <3>4, <3>5 DEF Within
  <2>9. Bounded'
    <3> SUFFICES ASSUME NEW k \in Boards, on'[Other(k)]
                 PROVE  Within(k, settled[Other(k)])'
      BY DEF Bounded
    <3>1. CASE k = i
      BY <1>1, <1>3, <1>10, <3>1
    <3>2. CASE k = o
      BY <1>1, <2>7, <3>2
    <3>. QED
      BY <1>1, <3>1, <3>2
  <2>10. Limited'
    <3>1. stepLimit' # Null
      BY <2>1 DEF Null
    <3>. QED
      BY <1>1, <1>3, <2>8, <3>1 DEF Limited, Within
  <2>. QED
    BY <1>1, <1>3, <1>5, <1>9, <2>6, <2>9, <2>10 DEF SyncInv
<1>. QED
  BY <1>12, <1>13

(* What the pair does between two runs of a board, and nothing else, keeps *)
(* the boards' promises where it leaves the boards alone.                  *)
LEMMA SameBoards ==
  ASSUME UNCHANGED <<on, epoch, now, alarm, queue, latched, work, seen, settled>>
  PROVE  \A i \in Boards :
           /\ Ready(i)' = Ready(i) /\ TimeOf(i)' = TimeOf(i)
           /\ NextAt(i)' = NextAt(i) /\ HasDeadline(i)' = HasDeadline(i)
           /\ Bounded => Bounded'
<1>1. \A i \in Boards : /\ Ready(i)' = Ready(i) /\ TimeOf(i)' = TimeOf(i)
                        /\ NextAt(i)' = NextAt(i) /\ HasDeadline(i)' = HasDeadline(i)
  BY DEF Ready, TimeOf, Global, NextAt, NextFrame, HasDeadline
<1>. QED
  BY <1>1 DEF Bounded, Within

(* The second board is powered on: it is behind, or the first is asleep.   *)
LEMMA PowerOnSync ==
  ASSUME TypeOK, OffInv, PowerOn, Undisturbed, SyncInv
  PROVE  SyncInv'
<1>1. Behind = 1 /\ (~Asleep(0) => TimeOf(1) <= TimeOf(0)) /\ 0 \in Boards /\ 1 \in Boards
      /\ Other(0) = 1 /\ Other(1) = 0 /\ \A k \in Boards : k = 0 \/ k = 1
  <2>1. Behind \in Boards /\ ~on[Behind] /\ (~Asleep(Other(Behind)) => TimeOf(Behind) <= TimeOf(Other(Behind)))
    BY BehindIs DEF PowerOn
  <2>2. Behind = 1
    BY <2>1 DEF OffInv, Boards
  <2>. QED
    BY <2>1, <2>2 DEF Other, Boards
<1>2. /\ UNCHANGED <<epoch, now, alarm, queue, latched, work, pc, settled, turn>> /\ pc = "pick"
      /\ on'[0] /\ on'[1] /\ on[0] /\ ~on[1]
      /\ seen'[0] = seen[0] /\ ~seen'[1].idle
  BY <1>1 DEF PowerOn, OffInv, TypeOK, Running
<1>3. now[1] = 0 /\ settled[1] = epoch[1] /\ TimeOf(1) = epoch[1] /\ epoch[1] \in Nat
      /\ TimeOf(0) = Global(0)
  BY <1>1, <1>2 DEF OffInv, TimeOf, TypeOK
<1>4. \A k \in Boards : /\ Ready(k)' = Ready(k) /\ TimeOf(k)' = TimeOf(k)
                        /\ NextAt(k)' = NextAt(k) /\ HasDeadline(k)' = HasDeadline(k)
  <2>1. TimeOf(0)' = TimeOf(0)
    BY <1>2 DEF TimeOf, Global
  <2>2. TimeOf(1)' = TimeOf(1)
    BY <1>1, <1>2, <1>3 DEF TimeOf, Global
  <2>. QED
    BY <1>1, <1>2, <2>1, <2>2, DeadlineKept DEF Ready
<1>5. Told(0) /\ Told(1) /\ Bounded
  BY <1>1, <1>2 DEF SyncInv
<1>6. Told(0)' /\ Told(1)'
  BY <1>1, <1>2, <1>4, <1>5 DEF Told, Away
<1>7. Within(0, settled[1])
  <2>1. PICK t1 \in Nat, t0 \in Nat : t1 = settled[1] /\ t1 = TimeOf(1) /\ t0 = TimeOf(0)
    <3>1. TimeOf(0) \in Nat
      BY <1>1, <1>3 DEF TypeOK, Global
    <3>. QED
      BY <1>3, <3>1
  <2>2. CASE Asleep(0)
    <3>1. seen[0].idle /\ seen[0].next = Null
      BY <2>2 DEF Asleep
    <3>2. ~Ready(0) /\ ~HasDeadline(0)
      BY <1>2, <1>5, <3>1 DEF Told, Away
    <3>. QED
      BY <3>2 DEF Within
  <2>3. CASE ~Asleep(0)
    <3>1. t1 <= t0 /\ Latency \in Nat
      BY <1>1, <2>1, <2>3, PairAssumption
    <3>2. HasDeadline(0) => NextAt(0) + epoch[0] \in Nat
      BY <1>1, Deadline
    <3>. QED
      BY <2>1, <3>1, <3>2 DEF Within, Later
  <2>. QED
    BY <2>2, <2>3
<1>8. Within(1, settled[0])
  BY <1>1, <1>2, <1>5 DEF Bounded
<1>9. Bounded'
  <2>1. Within(0, settled[1])' /\ Within(1, settled[0])'
    BY <1>1, <1>2, <1>4, <1>7, <1>8 DEF Within
  <2>. QED
    BY <1>1, <2>1 DEF Bounded
<1>. QED
  BY <1>1, <1>2, <1>6, <1>9 DEF SyncInv, Limited

(* The limit a board is given is as far as the other can still reach it.   *)
LEMMA RunSync ==
  ASSUME TypeOK, OffInv, RunBoard, Undisturbed, SyncInv
  PROVE  SyncInv'
<1> DEFINE L == PacedLimit(Behind)
<1>1. PICK i \in Boards, o \in Boards :
        /\ i = Behind /\ o = Other(i) /\ o # i /\ \A k \in Boards : k = i \/ k = o
  <2>1. Behind \in Boards /\ Other(Behind) \in Boards /\ Other(Behind) # Behind
    BY BehindIs DEF RunBoard
  <2>. QED
    BY <2>1 DEF Other, Boards
<1>2. /\ turn' = i /\ pc = "pick" /\ pc' = "until" /\ on[i]
      /\ stepLimit' = IF L = Null THEN Null ELSE L - epoch[i]
      /\ UNCHANGED <<on, epoch, now, alarm, queue, latched, work, seen, settled>>
  BY <1>1 DEF RunBoard, boardVars
<1>3. Told(o) /\ Bounded
  BY <1>2 DEF SyncInv
<1>4. PICK e \in Nat, eo \in Nat, To \in Nat : e = epoch[i] /\ eo = epoch[o] /\ To = TimeOf(o)
  <2>1. \A k \in Boards : epoch[k] \in Nat /\ now[k] \in Nat
    BY DEF TypeOK
  <2>2. TimeOf(o) \in Nat
    BY <2>1 DEF TimeOf, Global
  <2>. QED
    BY <2>1, <2>2
<1>5. L = Null \/ (L \in Nat /\ L >= e)
  BY <1>1, <1>4, LimitIs DEF RunBoard
<1>6. seen[o].next = Null \/ seen[o].next \in Nat
  BY DEF TypeOK
<1>7. Latency \in Nat /\ PaceYield \in Nat /\ Null = -1
  BY PairAssumption DEF Null
<1>8. HasDeadline(o) => NextAt(o) + epoch[o] \in Nat
  BY Deadline
<1>9. ~on[o] => /\ ~HasDeadline(o) /\ seen[o].next = To /\ seen[o].idle
                /\ seen[o].next # Null
  <2> SUFFICES ASSUME ~on[o] PROVE /\ ~HasDeadline(o) /\ seen[o].next = To /\ seen[o].idle
                                   /\ seen[o].next # Null
    OBVIOUS
  <2>1. o = 1
    BY DEF OffInv, Boards
  <2>. QED
    BY <1>4, <1>7, <2>1 DEF OffInv, IdleTo, TimeOf, HasDeadline
<1>10. IF LimitFor(i) = Null
         THEN ~Ready(o) /\ ~HasDeadline(o)
         ELSE LimitFor(i) \in Nat /\ Within(o, LimitFor(i))
  <2>1. CASE Asleep(o)
    <3>1. LimitFor(i) = Null
      BY <1>1, <2>1 DEF LimitFor
    <3>. QED
      BY <1>2, <1>3, <2>1, <3>1 DEF Asleep, Told, Away
  <2>2. CASE ~Asleep(o) /\ ~seen[o].idle
    <3>1. LimitFor(i) = To + Latency
      BY <1>1, <1>4, <2>2 DEF LimitFor
    <3>2. LimitFor(i) # Null /\ LimitFor(i) \in Nat
      BY <1>4, <1>7, <3>1
    <3>. QED
      BY <1>4, <1>7, <1>8, <3>1, <3>2 DEF Within, Later
  <2>3. CASE ~Asleep(o) /\ seen[o].idle
    <3>1. seen[o].next # Null
      <4> SUFFICES ASSUME seen[o].next = Null PROVE FALSE
        OBVIOUS
      <4>1. on[o]
        BY <1>9
      <4>2. ~Ready(o)
        BY <1>2, <1>3, <2>3, <4>1 DEF Told, Away
      <4>. QED
        BY <2>3, <4>1, <4>2 DEF Asleep, Ready
    <3>2. LimitFor(i) = Later(To, seen[o].next) + Latency
      BY <1>1, <1>4, <2>3, <3>1 DEF LimitFor
    <3>3. LimitFor(i) # Null /\ LimitFor(i) \in Nat
      BY <1>4, <1>6, <1>7, <3>1, <3>2 DEF Later
    <3>4. Within(o, LimitFor(i))
      <4>1. CASE on[o]
        <5>1. /\ ~Ready(o)
              /\ HasDeadline(o) => seen[o].next <= NextAt(o) + epoch[o]
          BY <1>2, <1>3, <2>3, <4>1 DEF Told, Away
        <5>2. HasDeadline(o) => LimitFor(i) <= Later(To, NextAt(o) + epoch[o]) + Latency
          BY <1>4, <1>6, <1>7, <1>8, <3>1, <3>2, <5>1 DEF Later
        <5>. QED
          BY <1>4, <5>1, <5>2 DEF Within
      <4>2. CASE ~on[o]
        <5>1. LimitFor(i) <= To + Latency
          BY <1>4, <1>7, <1>9, <3>2, <4>2 DEF Later
        <5>. QED
          BY <1>4, <1>9, <4>2, <5>1 DEF Within
      <4>. QED
        BY <4>1, <4>2
    <3>. QED
      BY <3>3, <3>4
  <2>. QED
    BY <2>1, <2>2, <2>3
<1>11. IF L = Null
         THEN ~Ready(o) /\ ~HasDeadline(o)
         ELSE Within(o, L)
  <2>1. L = LimitFor(i) \/ (L # Null /\ (LimitFor(i) = Null \/ L < LimitFor(i)))
    <3>1. Global(i) \in Nat
      BY DEF TypeOK, Global
    <3>. QED
      BY <1>1, <1>7, <3>1 DEF PacedLimit
  <2>. HIDE DEF L
  <2>2. CASE L = LimitFor(i)
    BY <1>10, <2>2
  <2>3. CASE L # Null /\ LimitFor(i) = Null
    BY <1>10, <2>3 DEF Within
  <2>4. CASE L # Null /\ LimitFor(i) # Null /\ L < LimitFor(i)
    <3>1. PICK m \in Nat : m = LimitFor(i)
      BY <1>10, <2>4
    <3>2. Within(o, m) /\ L \in Nat /\ L < m
      BY <1>5, <1>10, <2>4, <3>1
    <3>3. Ready(o) => L <= To + Latency
      BY <1>4, <1>7, <3>2 DEF Within
    <3>4. ~Ready(o) /\ HasDeadline(o) => L <= Later(To, NextAt(o) + epoch[o]) + Latency
      BY <1>4, <1>7, <1>8, <3>2 DEF Within, Later
    <3>. QED
      BY <1>4, <2>4, <3>3, <3>4 DEF Within
  <2>. QED
    BY <2>1, <2>2, <2>3, <2>4
<1>12. \A k \in Boards : /\ Ready(k)' = Ready(k) /\ TimeOf(k)' = TimeOf(k)
                         /\ NextAt(k)' = NextAt(k) /\ HasDeadline(k)' = HasDeadline(k)
  BY <1>2, SameBoards
<1>13. Bounded'
  BY <1>1, <1>2, <1>3, SameBoards
<1>14. \A k \in Boards : Told(k)'
  <2> SUFFICES ASSUME NEW k \in Boards PROVE Told(k)'
    OBVIOUS
  <2>1. Told(k)
    BY <1>2 DEF SyncInv
  <2>. QED
    BY <1>2, <1>12, <2>1 DEF Told, Away
<1>15. Limited'
  <2>1. Other(turn)' = o
    BY <1>1, <1>2 DEF Other
  <2>2. CASE L = Null
    BY <1>2, <1>11, <1>12, <2>1, <2>2 DEF Limited
  <2>3. CASE L # Null
    <3>1. stepLimit' # Null /\ stepLimit' + epoch'[i] = L
      BY <1>2, <1>4, <1>5, <1>7, <2>3
    <3>2. Within(o, L)
      BY <1>11, <2>3
    <3>3. PICK l : l = L
      OBVIOUS
    <3>4. Within(o, l)'
      BY <1>2, <1>12, <3>2, <3>3 DEF Within
    <3>. QED
      BY <1>2, <2>1, <3>1, <3>3, <3>4 DEF Limited, Within
  <2>. QED
    BY <2>2, <2>3
<1>. QED
  BY <1>2, <1>13, <1>14, <1>15 DEF SyncInv

(* Time passes for two boards that have nothing to wake for.               *)
LEMMA AsleepSync ==
  ASSUME TypeOK, NEW t \in Times, BothAsleep(t), pc' # "over", Undisturbed, SyncInv
  PROVE  SyncInv'
<1>1. /\ UNCHANGED <<on, epoch, alarm, queue, latched, work, seen, turn>>
      /\ pc = "pick" /\ pc' = "pick"
      /\ \A i \in Boards : on[i] /\ seen[i].idle /\ seen[i].next = Null
  BY DEF BothAsleep, Asleep, Boards
<1>2. \A i \in Boards : Told(i)
  BY <1>1 DEF SyncInv
<1>3. \A i \in Boards : ~Ready(i) /\ ~HasDeadline(i)
  BY <1>1, <1>2 DEF Told, Away
<1>4. \A i \in Boards : ~Ready(i)' /\ ~HasDeadline(i)'
  BY <1>1, <1>3 DEF Ready, HasDeadline
<1>5. Bounded' /\ \A i \in Boards : Told(i)'
  BY <1>4 DEF Bounded, Within, Told
<1>. QED
  BY <1>1, <1>5 DEF SyncInv, Limited

(* Every step keeps what one board may count on of the other.              *)
LEMMA SyncStep ==
  TypeOK /\ TypeOK' /\ OffInv /\ SettledInv /\ SyncInv /\ [Next]_vars => SyncInv'
<1> SUFFICES ASSUME TypeOK, TypeOK', OffInv, SettledInv, SyncInv, [Next]_vars,
                    pc' # "over", Undisturbed'
             PROVE  SyncInv'
  BY DEF SyncInv
<1>1. Undisturbed
  BY StaysDisturbed
<1>2. CASE PowerOn
  BY <1>1, <1>2, PowerOnSync
<1>3. CASE RunBoard
  BY <1>1, <1>3, RunSync
<1>4. CASE \E t \in Times : BothAsleep(t)
  BY <1>1, <1>4, AsleepSync
<1>5. CASE \E i \in Boards : Press(i)
  <2>1. presses' = presses + 1
    BY <1>5 DEF Press
  <2>. QED
    BY <1>1, <2>1 DEF Undisturbed
<1>6. CASE OwnStep
  BY <1>1, <1>6, OwnSync
<1>7. CASE eth_send
  BY <1>1, <1>7, SendSync
<1>8. CASE Over \/ UNCHANGED vars
  <2>1. UNCHANGED vars
    BY <1>8 DEF Over
  <2>2. UNCHANGED <<on, epoch, now, alarm, queue, latched, work, seen, settled, pc, turn, stepLimit>>
    BY <2>1 DEF vars, boardVars
  <2>. QED
    BY <1>1, <2>2 DEF SyncInv, Told, Away, Bounded, Limited, Within, Ready, TimeOf, Global, NextAt,
                      NextFrame, HasDeadline, Other
<1>. QED
  BY <1>2, <1>3, <1>4, <1>5, <1>6, <1>7, <1>8 DEF Next, GuestStep, OwnStep

(* All that the next theorems rest on holds from the start and is kept.    *)
SyncIInv == TypeOK /\ OffInv /\ SettledInv /\ SyncInv

LEMMA SyncInvariant == Spec => []SyncIInv
<1>1. Init => SyncIInv
  <2> SUFFICES ASSUME Init PROVE SyncIInv
    OBVIOUS
  <2>1. TypeOK
    BY InitTypes
  <2>2. OffInv
    BY DEF Init, OffInv, Start, IdleTo, Boards
  <2>3. SettledInv
    BY PairAssumption DEF Init, SettledInv, Start, Global
  <2>4. \A i \in Boards : Told(i)
    BY DEF Init, Told, Running, Boards
  <2>5. Bounded
    <3> SUFFICES ASSUME NEW i \in Boards, on[Other(i)] PROVE Within(i, settled[Other(i)])
      BY DEF Bounded
    <3>1. i = 1 /\ Other(i) = 0
      <4>1. 0 \in Boards /\ 1 \in Boards /\ (i = 0 \/ i = 1) /\ Other(0) = 1 /\ Other(1) = 0
        BY DEF Other, Boards
      <4>2. on[1] = (1 = 0)
        BY <4>1 DEF Init
      <4>3. ~on[1]
        <5>1. on[1] => 1 = 0
          BY <4>1 DEF Init
        <5>. QED
          BY <5>1
      <4>. QED
        BY <4>1, <4>3
    <3>2. settled[0] = 0 /\ Ready(1) /\ TimeOf(1) = Delay
      <4>1. 0 \in Boards /\ 1 \in Boards
        BY DEF Boards
      <4>2. settled[0] = Start(0) /\ work[1] = TRUE /\ on[1] = (1 = 0) /\ epoch[1] = Start(1)
        BY <4>1 DEF Init
      <4>3. ~on[1]
        <5>1. on[1] => 1 = 0
          BY <4>1 DEF Init
        <5>. QED
          BY <5>1
      <4>. QED
        BY <4>2, <4>3 DEF Ready, TimeOf, Start
    <3>. QED
      BY <3>1, <3>2, PairAssumption DEF Within
  <2>. QED
    BY <2>1, <2>2, <2>3, <2>4, <2>5 DEF Init, SyncIInv, SyncInv, Limited
<1>2. SyncIInv /\ [Next]_vars => SyncIInv'
  BY TypeStep, OffStep, SettledStep, SyncStep DEF SyncIInv
<1>. QED
  BY <1>1, <1>2, PTL DEF Spec

(* A frame is sent in time, as long as nobody has touched a board.         *)
LEMMA SentInTime ==
  SyncIInv /\ Undisturbed /\ eth_send /\ on[Other(turn)]
    => Global(turn) + Latency >= settled[Other(turn)]
<1> SUFFICES ASSUME SyncIInv, Undisturbed, eth_send, on[Other(turn)]
             PROVE  Global(turn) + Latency >= settled[Other(turn)]
  OBVIOUS
<1>1. turn \in Boards /\ pc = "guest" /\ Ready(turn) /\ on[turn]
  BY DEF eth_send, Ready, SyncIInv, TypeOK, OffInv
<1>2. Within(turn, settled[Other(turn)])
  BY <1>1 DEF SyncIInv, SyncInv, Bounded
<1>3. settled[Other(turn)] <= Global(turn) + Latency
  BY <1>1, <1>2 DEF Within, TimeOf
<1>4. settled[Other(turn)] \in Nat /\ Global(turn) \in Nat /\ Latency \in Nat
  <2>1. Other(turn) \in Boards
    BY <1>1 DEF Other, Boards
  <2>. QED
    BY <1>1, <2>1, PairAssumption DEF SyncIInv, TypeOK, Global
<1>. QED
  BY <1>3, <1>4

(* Conservative synchronisation, whatever the guests do: until somebody    *)
(* touches a board or one reboots, no frame arrives before a time its      *)
(* receiver has let pass idle, nor before the start of its last step.      *)
THEOREM InTimeUntilDisturbed ==
  Spec => [][ Undisturbed /\ eth_send /\ on[Other(turn)]
                => Global(turn) + Latency >= settled[Other(turn)] ]_vars
  BY SyncInvariant, SentInTime, PTL

(* With no reboots allowed and nobody there to touch a board, it holds     *)
(* throughout a run.                                                       *)
THEOREM ArrivesInTime ==
  ASSUME MaxReboots = 0, MaxPresses = 0
  PROVE  Spec => NothingArrivesInThePast
<1> DEFINE Quiet == TypeOK /\ Undisturbed
<1>1. Init => Quiet
  BY InitTypes DEF Init, Undisturbed
<1>2. Quiet /\ [Next]_vars => Quiet'
  <2> SUFFICES ASSUME Quiet, [Next]_vars PROVE Undisturbed'
    BY TypeStep
  <2>1. ~ \E i \in Boards : Press(i)
    BY DEF Press, Undisturbed
  <2>2. presses' = presses
    BY <2>1 DEF Next, GuestStep, IdleStep, Over, PowerOn, RunBoard, LimitReached, BeginStep,
         BothAsleep, safepoint_tick, eth_send, eth_recv, SwitchOrBusy, Reboot, set_alarm_ns,
         IdleToLimit, IdleToDeadline, IdleForGood, vars, boardVars
  <2>3. reboots[turn] = MaxReboots
    BY DEF Undisturbed, TypeOK
  <2>4. reboots' = reboots
    BY <2>3 DEF Next, GuestStep, IdleStep, Over, PowerOn, RunBoard, LimitReached, BeginStep,
         BothAsleep, Press, safepoint_tick, eth_send, eth_recv, SwitchOrBusy, Reboot,
         set_alarm_ns, IdleToLimit, IdleToDeadline, IdleForGood, vars, boardVars
  <2>. QED
    BY <2>2, <2>4 DEF Undisturbed
<1>3. SyncIInv /\ Quiet => (eth_send /\ on[Other(turn)]
                              => Global(turn) + Latency >= settled[Other(turn)])
  BY SentInTime
<1>. QED
  BY <1>1, <1>2, <1>3, SyncInvariant, PTL DEF Spec, NothingArrivesInThePast

=============================================================================
