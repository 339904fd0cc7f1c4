--------------------------- MODULE HostUartProofs ---------------------------
(***************************************************************************)
(* Proof that HostUart keeps its types and delivers bytes in order, for    *)
(* any script, any number of keys and any number of reboots.               *)
(*                                                                         *)
(* The invariant says where each byte is: what is still queued follows     *)
(* what has been taken without a gap, the byte ahead is the one last       *)
(* taken, and what the application has comes before both.                  *)
(***************************************************************************)
EXTENDS HostUart, TLAPS

(* The queue holds the bytes typed and not taken, in order. *)
QueueFollows ==
  /\ Len(input) = typed - taken
  /\ \A i \in 1 .. Len(input) : input[i] = taken + i

(* The driver's byte is the last one it took, and the application has      *)
(* only older ones.                                                        *)
AheadIsLast ==
  /\ ahead # NoByte => ahead = taken
  /\ \A i \in 1 .. Len(got) : got[i] <= taken /\ (ahead # NoByte => got[i] < ahead)

(* The application has its bytes in order. *)
GotRises == \A i, j \in 1 .. Len(got) : i < j => got[i] < got[j]

(* What has been taken is with the application, ahead, or went with a      *)
(* driver that a reboot ended.                                             *)
HasAhead == IF ahead = NoByte THEN 0 ELSE 1
Accounted == taken - Len(got) - HasAhead \in 0 .. reboots

UInv == TypeOK /\ QueueFollows /\ AheadIsLast /\ GotRises /\ Accounted

-----------------------------------------------------------------------------
(* The steps of the driver and the host's queue. *)

(* The variables that the byte's whereabouts depend on. *)
places == <<input, typed, taken, ahead, got, reboots>>

(* What the invariant says of the queue's head and of what remains. *)
LEMMA HeadAndTail ==
  ASSUME UInv, input # <<>>
  PROVE  /\ Head(input) = taken + 1
         /\ Tail(input) \in Seq(Nat)
         /\ Len(Tail(input)) = typed - (taken + 1)
         /\ \A i \in 1 .. Len(Tail(input)) : Tail(input)[i] = taken + 1 + i
<1>1. /\ input \in Seq(Nat) /\ taken \in Nat /\ typed \in Nat
      /\ Len(input) = typed - taken
      /\ \A i \in 1 .. Len(input) : input[i] = taken + i
  BY DEF UInv, TypeOK, QueueFollows
<1>2. Len(input) > 0
  BY <1>1
<1>3. Head(input) = input[1]
  BY <1>1
<1>4. Tail(input) \in Seq(Nat) /\ Len(Tail(input)) = Len(input) - 1
  BY <1>1
<1>5. \A i \in 1 .. Len(Tail(input)) : Tail(input)[i] = input[i + 1]
  BY <1>1, <1>4
<1>. QED
  BY <1>1, <1>2, <1>3, <1>4, <1>5

(* A look ahead moves at most the queue's head into the driver. *)
LEMMA LookAhead ==
  ASSUME UInv, rx_waiting, UNCHANGED <<typed, got, reboots>>
  PROVE  /\ input' \in Seq(Nat) /\ taken' \in Nat /\ coming' \in BOOLEAN /\ ahead' \in Nat
         /\ QueueFollows' /\ AheadIsLast' /\ GotRises' /\ Accounted'
<1>1. CASE ahead # NoByte \/ ~UartReady
  <2>1. UNCHANGED <<input, taken, coming, ahead>>
    BY <1>1 DEF rx_waiting, uart_poll_in
  <2>. QED
    BY <2>1 DEF UInv, TypeOK, QueueFollows, AheadIsLast, GotRises, Accounted, HasAhead
<1>2. CASE ahead = NoByte /\ UartReady
  <2>1. /\ input' = Tail(input) /\ taken' = taken + 1 /\ coming' = TRUE
        /\ ahead' = Head(input) /\ input # <<>>
    BY <1>2 DEF rx_waiting, uart_poll_in, UartReady
  <2>2. /\ ahead' = taken' /\ input' \in Seq(Nat) /\ Len(input') = typed' - taken'
        /\ \A i \in 1 .. Len(input') : input'[i] = taken' + i
    BY <2>1, HeadAndTail
  <2>3. taken \in Nat /\ got \in Seq(Nat) /\ reboots \in Nat
    BY DEF UInv, TypeOK
  <2>4. \A i \in 1 .. Len(got) : got[i] <= taken /\ got[i] \in Nat
    BY <2>3 DEF UInv, AheadIsLast
  <2>5. AheadIsLast'
    BY <2>1, <2>2, <2>3, <2>4 DEF AheadIsLast
  <2>6. Accounted'
    BY <1>2, <2>1, <2>2, <2>3 DEF UInv, Accounted, HasAhead, NoByte
  <2>7. GotRises'
    BY DEF UInv, GotRises
  <2>. QED
    BY <2>1, <2>2, <2>3, <2>5, <2>6, <2>7 DEF QueueFollows
<1>. QED
  BY <1>1, <1>2

(* A byte that is read is younger than all that were read before. *)
LEMMA Taken ==
  ASSUME UInv, take_byte
  PROVE  /\ input' \in Seq(Nat) /\ taken' \in Nat /\ coming' \in BOOLEAN
         /\ ahead' \in Nat /\ got' \in Seq(Nat)
         /\ QueueFollows' /\ AheadIsLast' /\ GotRises' /\ Accounted'
<1>. DEFINE b == IF ahead # NoByte THEN ahead ELSE Head(input)
<1>1. /\ input \in Seq(Nat) /\ taken \in Nat /\ typed \in Nat /\ got \in Seq(Nat)
      /\ ahead \in Nat /\ reboots \in Nat /\ coming \in BOOLEAN
  BY DEF UInv, TypeOK
<1>2. /\ got' = Append(got, b) /\ ahead' = NoByte
      /\ typed' = typed /\ reboots' = reboots
  BY DEF take_byte
<1>3. /\ b = taken' /\ taken' \in Nat /\ coming' \in BOOLEAN /\ input' \in Seq(Nat)
      /\ taken' = (IF ahead = NoByte THEN taken + 1 ELSE taken)
      /\ Len(input') = typed' - taken'
      /\ \A i \in 1 .. Len(input') : input'[i] = taken' + i
  <2>1. CASE ahead # NoByte
    <3>1. UNCHANGED <<input, taken, coming>>
      BY <2>1 DEF take_byte
    <3>. QED
      BY <1>1, <1>2, <2>1, <3>1 DEF UInv, AheadIsLast, QueueFollows
  <2>2. CASE ahead = NoByte
    <3>1. /\ input' = Tail(input) /\ taken' = taken + 1 /\ coming' = TRUE /\ input # <<>>
      BY <2>2 DEF take_byte, Waiting, uart_poll_in, UartReady
    <3>. QED
      BY <1>1, <1>2, <2>2, <3>1, HeadAndTail
  <2>. QED
    BY <2>1, <2>2
<1>4. \A i \in 1 .. Len(got) : got[i] \in Nat /\ got[i] < b /\ got[i] <= taken'
  BY <1>1, <1>3 DEF UInv, AheadIsLast
<1>. HIDE DEF b
<1>5. /\ Len(got') = Len(got) + 1
      /\ \A i \in 1 .. Len(got) : got'[i] = got[i]
      /\ got'[Len(got) + 1] = b
      /\ got' \in Seq(Nat)
  BY <1>1, <1>2, <1>3
<1>6. GotRises'
  <2>. SUFFICES ASSUME NEW i \in 1 .. Len(got'), NEW j \in 1 .. Len(got'), i < j
                PROVE  got'[i] < got'[j]
    BY DEF GotRises
  <2>0. /\ Len(got) \in Nat /\ i \in Int /\ j \in Int
        /\ 1 <= i /\ 1 <= j /\ j <= Len(got) + 1
    BY <1>1, <1>5
  <2>1. i \in 1 .. Len(got)
    BY <2>0
  <2>2. CASE j = Len(got) + 1
    BY <1>4, <1>5, <2>1, <2>2
  <2>3. CASE j # Len(got) + 1
    <3>1. j \in 1 .. Len(got)
      BY <2>0, <2>3
    <3>. QED
      BY <1>5, <2>1, <3>1 DEF UInv, GotRises
  <2>. QED
    BY <2>2, <2>3
<1>7. AheadIsLast'
  <2>. SUFFICES ASSUME NEW i \in 1 .. Len(got')
                PROVE  got'[i] <= taken'
    BY <1>2 DEF AheadIsLast
  <2>0. Len(got) \in Nat /\ i \in Int /\ 1 <= i /\ i <= Len(got) + 1
    BY <1>1, <1>5
  <2>1. CASE i = Len(got) + 1
    BY <1>3, <1>5, <2>1
  <2>2. CASE i # Len(got) + 1
    <3>1. i \in 1 .. Len(got)
      BY <2>0, <2>2
    <3>. QED
      BY <1>4, <1>5, <3>1
  <2>. QED
    BY <2>1, <2>2
<1>8. Accounted'
  BY <1>1, <1>2, <1>3, <1>5 DEF UInv, Accounted, HasAhead
<1>. QED
  BY <1>1, <1>2, <1>3, <1>5, <1>6, <1>7, <1>8 DEF QueueFollows, NoByte

(* A reboot loses the byte ahead, and no other. *)
LEMMA RebootLosesOne ==
  ASSUME UInv, Reboot
  PROVE  QueueFollows' /\ AheadIsLast' /\ GotRises' /\ Accounted'
<1>1. taken \in Nat /\ got \in Seq(Nat) /\ ahead \in Nat /\ reboots \in Nat
  BY DEF UInv, TypeOK
<1>2. /\ UNCHANGED <<input, typed, taken, got>>
      /\ ahead' = NoByte /\ reboots' = reboots + 1
  BY DEF Reboot
<1>3. Accounted'
  BY <1>1, <1>2 DEF UInv, Accounted, HasAhead
<1>. QED
  BY <1>2, <1>3 DEF UInv, QueueFollows, AheadIsLast, GotRises

(* A line is only typed into an empty queue, and its bytes are the next. *)
LEMMA LineIsNext ==
  ASSUME UInv, typeNextLine
  PROVE  /\ input' \in Seq(Nat) /\ typed' \in Nat /\ typing' \in Seq(Nat \ {0})
         /\ QueueFollows' /\ AheadIsLast' /\ GotRises' /\ Accounted'
<1>1. /\ input = <<>> /\ typing # <<>> /\ typing' = Tail(typing)
      /\ input' = [i \in 1 .. Head(typing) |-> typed + i]
      /\ typed' = typed + Head(typing)
      /\ UNCHANGED <<taken, ahead, got, reboots>>
  BY DEF typeNextLine, CanType, lineVars, driverVars
<1>2. typed \in Nat /\ taken \in Nat /\ typing \in Seq(Nat \ {0})
  BY DEF UInv, TypeOK
<1>3. typed = taken
  BY <1>1, <1>2 DEF UInv, QueueFollows
<1>4. Head(typing) \in Nat /\ Tail(typing) \in Seq(Nat \ {0})
  BY <1>1, <1>2
<1>5. input' \in Seq(Nat) /\ Len(input') = Head(typing)
  <2>. DEFINE n == Head(typing)
  <2>1. n \in Nat /\ input' = [i \in 1 .. n |-> typed + i]
    BY <1>1, <1>4
  <2>. HIDE DEF n
  <2>2. input' \in [1 .. n -> Nat]
    BY <1>2, <2>1
  <2>3. input' \in Seq(Nat) /\ Len(input') = n
    BY <2>1, <2>2
  <2>. QED
    BY <2>3 DEF n
<1>6. \A i \in 1 .. Len(input') : input'[i] = taken' + i
  BY <1>1, <1>3, <1>5
<1>7. QueueFollows'
  BY <1>1, <1>2, <1>3, <1>4, <1>5, <1>6 DEF QueueFollows
<1>. QED
  BY <1>1, <1>2, <1>4, <1>5, <1>7 DEF UInv, AheadIsLast, GotRises, Accounted, HasAhead

(* A key goes to the end of the queue. *)
LEMMA KeyIsLast ==
  ASSUME UInv, KeyPressed
  PROVE  /\ input' \in Seq(Nat) /\ typed' \in Nat /\ keys' \in Nat
         /\ QueueFollows' /\ AheadIsLast' /\ GotRises' /\ Accounted'
<1>1. /\ input' = Append(input, typed + 1) /\ typed' = typed + 1 /\ keys' = keys + 1
      /\ UNCHANGED <<taken, ahead, got, reboots>>
  BY DEF KeyPressed, driverVars
<1>2. /\ input \in Seq(Nat) /\ typed \in Nat /\ taken \in Nat /\ keys \in Nat
      /\ Len(input) = typed - taken
      /\ \A i \in 1 .. Len(input) : input[i] = taken + i
  BY DEF UInv, TypeOK, QueueFollows
<1>3. /\ input' \in Seq(Nat) /\ Len(input') = Len(input) + 1
      /\ \A i \in 1 .. Len(input) : input'[i] = input[i]
      /\ input'[Len(input) + 1] = typed + 1
  BY <1>1, <1>2
<1>4. \A i \in 1 .. Len(input') : input'[i] = taken' + i
  <2>. SUFFICES ASSUME NEW i \in 1 .. Len(input')
                PROVE  input'[i] = taken' + i
    OBVIOUS
  <2>0. Len(input) \in Nat /\ i \in Int /\ 1 <= i /\ i <= Len(input) + 1
    BY <1>2, <1>3
  <2>1. CASE i = Len(input) + 1
    BY <1>1, <1>2, <1>3, <2>0, <2>1
  <2>2. CASE i # Len(input) + 1
    <3>1. i \in 1 .. Len(input)
      BY <2>0, <2>2
    <3>. QED
      BY <1>1, <1>2, <1>3, <3>1
  <2>. QED
    BY <2>1, <2>2
<1>5. QueueFollows'
  BY <1>1, <1>2, <1>3, <1>4 DEF QueueFollows
<1>. QED
  BY <1>1, <1>2, <1>3, <1>5 DEF UInv, AheadIsLast, GotRises, Accounted, HasAhead

(* A step that moves no byte. *)
LEMMA ByteStays ==
  ASSUME UInv, UNCHANGED places
  PROVE  QueueFollows' /\ AheadIsLast' /\ GotRises' /\ Accounted'
BY DEF UInv, places, QueueFollows, AheadIsLast, GotRises, Accounted, HasAhead

-----------------------------------------------------------------------------
(* The invariant. *)

(* Every step keeps the invariant: most move no byte, and the others are   *)
(* the lemmas above.                                                       *)
LEMMA StepKeepsInv == UInv /\ [Next]_vars => UInv'
<1>. SUFFICES ASSUME UInv, [Next]_vars
              PROVE  UInv'
  OBVIOUS
<1>. USE DEF typeVars, queueVars, lineVars, driverVars
<1>t. TypeOK
  BY DEF UInv
<1>p. ASSUME TypeOK', QueueFollows', AheadIsLast', GotRises', Accounted'
      PROVE  UInv'
  BY <1>p DEF UInv
<1>q. ASSUME TypeOK', UNCHANGED places
      PROVE  UInv'
  BY <1>p, <1>q, ByteStays
<1>1. CASE RunStep
  <2>1. TypeOK'
    BY <1>t, <1>1 DEF RunStep, TypeOK
  <2>2. UNCHANGED places
    BY <1>1 DEF RunStep, places
  <2>. QED
    BY <1>q, <2>1, <2>2
<1>2. CASE safepoint_tick
  <2>0. /\ coming' \in BOOLEAN
        /\ UNCHANGED <<typeVars, input, typed, keys, taken, raisedAt, lineVars,
                       driverVars, got, alarm, reboots, pc>>
    BY <1>2 DEF safepoint_tick
  <2>1. TypeOK'
    BY <1>t, <2>0 DEF TypeOK
  <2>2. UNCHANGED places
    BY <1>2 DEF safepoint_tick, places
  <2>. QED
    BY <1>q, <2>1, <2>2
<1>3. CASE uart_wasm_host_init
  <2>1. TypeOK'
    BY <1>t, <1>3 DEF uart_wasm_host_init, TypeOK
  <2>2. UNCHANGED places
    BY <1>3 DEF uart_wasm_host_init, places
  <2>. QED
    BY <1>q, <2>1, <2>2
<1>4. CASE irq_rx_disable
  <2>0. /\ rx' \in BOOLEAN
        /\ UNCHANGED <<typeVars, queueVars, lineVars, ahead, tx, callback, got, alarm,
                       reboots, pc>>
    BY <1>4 DEF irq_rx_disable
  <2>1. TypeOK'
    BY <1>t, <2>0 DEF TypeOK
  <2>2. UNCHANGED places
    BY <1>4 DEF irq_rx_disable, places
  <2>. QED
    BY <1>q, <2>1, <2>2
<1>5. CASE irq_tx_enable
  <2>1. TypeOK'
    BY <1>t, <1>5 DEF irq_tx_enable, TypeOK
  <2>2. UNCHANGED places
    BY <1>5 DEF irq_tx_enable, places
  <2>. QED
    BY <1>q, <2>1, <2>2
<1>6. CASE irq_tx_disable
  <2>0. /\ tx' \in BOOLEAN
        /\ UNCHANGED <<typeVars, queueVars, lineVars, ahead, rx, callback, got, alarm,
                       reboots, pc>>
    BY <1>6 DEF irq_tx_disable
  <2>1. TypeOK'
    BY <1>t, <2>0 DEF TypeOK
  <2>2. UNCHANGED places
    BY <1>6 DEF irq_tx_disable, places
  <2>. QED
    BY <1>q, <2>1, <2>2
<1>7. CASE irq_callback_set
  <2>1. TypeOK'
    BY <1>t, <1>7 DEF irq_callback_set, TypeOK
  <2>2. UNCHANGED places
    BY <1>7 DEF irq_callback_set, places
  <2>. QED
    BY <1>q, <2>1, <2>2
<1>8. CASE CallbackReturn
  <2>1. TypeOK'
    BY <1>t, <1>8 DEF CallbackReturn, TypeOK
  <2>2. UNCHANGED places
    BY <1>8 DEF CallbackReturn, places
  <2>. QED
    BY <1>q, <2>1, <2>2
<1>9. CASE notePrompt
  <2>1. TypeOK'
    BY <1>t, <1>9 DEF notePrompt, TypeOK
  <2>2. UNCHANGED places
    BY <1>9 DEF notePrompt, places
  <2>. QED
    BY <1>q, <2>1, <2>2
<1>10. CASE SetAlarm
  <2>1. TypeOK'
    BY <1>t, <1>10 DEF SetAlarm, TypeOK
  <2>2. UNCHANGED places
    BY <1>10 DEF SetAlarm, places
  <2>. QED
    BY <1>q, <2>1, <2>2
<1>11. CASE Switch
  <2>1. TypeOK'
    BY <1>t, <1>11 DEF Switch, TypeOK
  <2>2. UNCHANGED places
    BY <1>11 DEF Switch, places
  <2>. QED
    BY <1>q, <2>1, <2>2
<1>12. CASE IdleLatched
  <2>1. TypeOK'
    BY <1>t, <1>12 DEF IdleLatched, TypeOK
  <2>2. UNCHANGED places
    BY <1>12 DEF IdleLatched, places
  <2>. QED
    BY <1>q, <2>1, <2>2
<1>13. CASE IdleToByte
  <2>1. TypeOK'
    BY <1>t, <1>13 DEF IdleToByte, TypeOK
  <2>2. UNCHANGED places
    BY <1>13 DEF IdleToByte, places
  <2>. QED
    BY <1>q, <2>1, <2>2
<1>14. CASE IdleToOther
  <2>0. /\ alarm' \in BOOLEAN /\ held' \in BOOLEAN
        /\ coming' \in BOOLEAN /\ pc' = "between"
        /\ UNCHANGED <<interactive, typing, shellSeen, promptSince, input, typed, keys,
                       taken, raisedAt, lineVars, driverVars, got, reboots>>
    <3>1. alarm \in BOOLEAN /\ held \in BOOLEAN /\ coming \in BOOLEAN
      BY <1>t DEF TypeOK
    <3>2. coming' \in BOOLEAN
      BY <1>14, <3>1 DEF IdleToOther, ClockMoves
    <3>3. alarm' \in BOOLEAN /\ held' \in BOOLEAN
      BY <1>14, <3>1 DEF IdleToOther
    <3>. QED
      BY <1>14, <3>2, <3>3 DEF IdleToOther
  <2>1. TypeOK'
    BY <1>t, <2>0 DEF TypeOK
  <2>2. UNCHANGED places
    BY <1>14 DEF IdleToOther, places
  <2>. QED
    BY <1>q, <2>1, <2>2
<1>15. CASE IdleByWall
  <2>1. TypeOK'
    BY <1>t, <1>15 DEF IdleByWall, TypeOK, ClockMoves, Advances
  <2>2. UNCHANGED places
    BY <1>15 DEF IdleByWall, places
  <2>. QED
    BY <1>q, <2>1, <2>2
<1>16. CASE Finish
  <2>1. TypeOK'
    BY <1>t, <1>16 DEF Finish, TypeOK
  <2>2. UNCHANGED places
    BY <1>16 DEF Finish, places
  <2>. QED
    BY <1>q, <2>1, <2>2
<1>17. CASE Over
  <2>1. TypeOK'
    BY <1>t, <1>17 DEF Over, TypeOK, vars
  <2>2. UNCHANGED places
    BY <1>17 DEF Over, places, vars
  <2>. QED
    BY <1>q, <2>1, <2>2
<1>18. CASE irq_rx_enable
  <2>1. rx_waiting /\ UNCHANGED <<typed, got, reboots>>
    BY <1>18 DEF irq_rx_enable
  <2>2. TypeOK'
    BY <1>t, <1>18, <2>1, LookAhead DEF irq_rx_enable, TypeOK
  <2>. QED
    BY <1>p, <2>1, <2>2, LookAhead
<1>19. CASE irq_rx_ready
  <2>1. rx_waiting /\ UNCHANGED <<typed, got, reboots>>
    BY <1>19 DEF irq_rx_ready
  <2>2. TypeOK'
    BY <1>t, <1>19, <2>1, LookAhead DEF irq_rx_ready, TypeOK
  <2>. QED
    BY <1>p, <2>1, <2>2, LookAhead
<1>20. CASE uart_wasm_host_isr
  <2>1. UNCHANGED <<typed, got, reboots>>
    BY <1>20 DEF uart_wasm_host_isr
  <2>2. CASE rx_waiting
    <3>1. TypeOK'
      BY <1>t, <1>20, <2>1, <2>2, LookAhead DEF uart_wasm_host_isr, TypeOK
    <3>. QED
      BY <1>p, <2>1, <2>2, <3>1, LookAhead
  <2>3. CASE UNCHANGED <<input, taken, coming, ahead>>
    <3>1. TypeOK'
      BY <1>t, <1>20, <2>1, <2>3 DEF uart_wasm_host_isr, TypeOK
    <3>. QED
      BY <1>q, <2>1, <2>3, <3>1 DEF places
  <2>. QED
    BY <1>20, <2>2, <2>3 DEF uart_wasm_host_isr
<1>21. CASE IsrTail
  <2>1. UNCHANGED <<typed, got, reboots>>
    BY <1>21 DEF IsrTail
  <2>2. CASE rx_waiting
    <3>1. TypeOK'
      BY <1>t, <1>21, <2>1, <2>2, LookAhead DEF IsrTail, TypeOK
    <3>. QED
      BY <1>p, <2>1, <2>2, <3>1, LookAhead
  <2>3. CASE UNCHANGED <<input, taken, coming, ahead>>
    <3>1. TypeOK'
      BY <1>t, <1>21, <2>1, <2>3 DEF IsrTail, TypeOK
    <3>. QED
      BY <1>q, <2>1, <2>3, <3>1 DEF places
  <2>. QED
    BY <1>21, <2>2, <2>3 DEF IsrTail
<1>22. CASE take_byte
  <2>1. TypeOK'
    BY <1>t, <1>22, Taken DEF take_byte, TypeOK
  <2>. QED
    BY <1>p, <1>22, <2>1, Taken
<1>23. CASE Reboot
  <2>0. /\ reboots' = reboots + 1 /\ coming' \in BOOLEAN /\ alarm' \in BOOLEAN
        /\ pending' \in BOOLEAN /\ enabled' \in BOOLEAN /\ ahead' = NoByte
        /\ rx' \in BOOLEAN /\ tx' \in BOOLEAN /\ callback' \in BOOLEAN /\ pc' = "between"
        /\ UNCHANGED <<typeVars, input, typed, keys, taken, raisedAt, external, got>>
    BY <1>23 DEF Reboot
  <2>1. TypeOK'
    BY <1>t, <2>0 DEF TypeOK, NoByte
  <2>. QED
    BY <1>p, <1>23, <2>1, RebootLosesOne
<1>24. CASE typeNextLine
  <2>0. /\ promptSince' \in BOOLEAN /\ pc' = "between"
        /\ UNCHANGED <<interactive, held, shellSeen, keys, coming, taken, raisedAt,
                       lineVars, driverVars, got, alarm, reboots>>
    BY <1>24 DEF typeNextLine
  <2>1. TypeOK'
    BY <1>t, <1>24, <2>0, LineIsNext DEF TypeOK
  <2>. QED
    BY <1>p, <1>24, <2>1, LineIsNext
<1>25. CASE KeyPressed
  <2>1. TypeOK'
    BY <1>t, <1>25, KeyIsLast DEF KeyPressed, TypeOK
  <2>. QED
    BY <1>p, <1>25, <2>1, KeyIsLast
<1>26. CASE UNCHANGED vars
  <2>1. TypeOK'
    BY <1>t, <1>26 DEF vars, TypeOK
  <2>. QED
    BY <1>q, <1>26, <2>1 DEF vars, places
<1>. QED
  BY <1>1, <1>2, <1>3, <1>4, <1>5, <1>6, <1>7, <1>8, <1>9, <1>10, <1>11,
     <1>12, <1>13, <1>14, <1>15, <1>16, <1>17, <1>18, <1>19, <1>20, <1>21,
     <1>22, <1>23, <1>24, <1>25, <1>26
     DEF Next, DriverStep, IdleStep

(* It holds when the run starts. *)
LEMMA InitInv == Init => UInv
<1>. SUFFICES ASSUME Init
              PROVE  UInv
  OBVIOUS
<1>1. /\ typing \in Seq(Nat \ {0}) /\ input = <<>> /\ got = <<>>
      /\ typed = 0 /\ keys = 0 /\ taken = 0 /\ raisedAt = 0 /\ ahead = 0 /\ reboots = 0
      /\ pc = "between"
  BY UartAssumption DEF Init, NoByte
<1>2. /\ interactive \in BOOLEAN /\ held \in BOOLEAN
      /\ shellSeen \in BOOLEAN /\ promptSince \in BOOLEAN /\ coming \in BOOLEAN
      /\ external \in BOOLEAN /\ pending \in BOOLEAN /\ enabled \in BOOLEAN
      /\ rx \in BOOLEAN /\ tx \in BOOLEAN /\ callback \in BOOLEAN /\ alarm \in BOOLEAN
  BY UartAssumption, Zenon DEF Init
<1>3. input \in Seq(Nat) /\ got \in Seq(Nat) /\ Len(input) = 0 /\ Len(got) = 0
  BY <1>1
<1>4. TypeOK
  BY <1>1, <1>2, <1>3 DEF TypeOK
<1>5. QueueFollows /\ AheadIsLast
  BY <1>1, <1>3 DEF QueueFollows, AheadIsLast, NoByte
<1>6. GotRises
  BY <1>3 DEF GotRises
<1>7. Accounted
  <2>1. HasAhead = 0
    BY <1>1 DEF HasAhead, NoByte
  <2>2. taken = 0 /\ Len(got) = 0
    BY <1>1, <1>3
  <2>3. taken - Len(got) - HasAhead = 0
    BY <2>1, <2>2
  <2>. QED
    BY <1>1, <2>3 DEF Accounted
<1>. QED
  BY <1>4, <1>5, <1>6, <1>7 DEF UInv

(* The bytes are in their places in every run. *)
THEOREM PlacesInvariant == Spec => []UInv
BY InitInv, StepKeepsInv, PTL DEF Spec

(* The queue, the counters and the driver's data keep their types: what    *)
(* the driver hands on is a byte, never the host's "nothing waiting".      *)
THEOREM UartTypes == Spec => []TypeOK
<1>1. UInv => TypeOK
  BY DEF UInv
<1>. QED
  BY <1>1, PlacesInvariant, PTL

(* However poll_in, the FIFO, the ISR and rx_enable are interleaved with   *)
(* typing and reboots, the application gets each byte at most once, in     *)
(* the order typed, and each reboot loses at most the look-ahead byte.     *)
THEOREM BytesStayInOrder == Spec => []BytesInOrder
<1>1. UInv => BytesInOrder
  <2>. SUFFICES ASSUME UInv
                PROVE  BytesInOrder
    OBVIOUS
  <2>1. /\ input \in Seq(Nat) /\ got \in Seq(Nat) /\ typed \in Nat /\ taken \in Nat
        /\ reboots \in Nat
    BY DEF UInv, TypeOK
  <2>2. Lost = taken - Len(got) - HasAhead
    BY <2>1 DEF UInv, QueueFollows, Lost, HasAhead
  <2>. QED
    BY <2>2 DEF UInv, GotRises, Accounted, BytesInOrder
<1>. QED
  BY <1>1, PlacesInvariant, PTL

=============================================================================
