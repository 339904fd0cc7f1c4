--------------------------- MODULE HostLoopProofs ---------------------------
(***************************************************************************)
(* The safety properties of the board, for every set of threads, stacks    *)
(* and lines and every bound of HostLoop.                                  *)
(*                                                                         *)
(* One lemma per action shows that it keeps IInv; StepInv puts them        *)
(* together, Invariance lifts the result to Spec, and each property        *)
(* follows from IInv alone.                                                *)
(***************************************************************************)
EXTENDS HostLoopInv, TLAPS, WellFoundedInduction, SequenceTheorems

(* The board as boot() leaves it, about to enter z_wasm_boot(), satisfies  *)
(* the invariant.                                                          *)
LEMMA InitInv == Init => IInv
<1> SUFFICES ASSUME Init PROVE IInv
  OBVIOUS
<1> USE ThreadAssumption, BufAssumption, LineAssumption, HostAssumption
<1>1. NoChain \in Chain
  BY DEF NoChain, Chain, Threads, Fns, Points, Bit
<1>2. TypeOK
  BY <1>1 DEF Init, GuestInit, TypeOK, Threads, Bit, Context, BootContext, NoContext, AllBufs
<1>3. ended = "no" /\ live.who = None /\ request = "none"
  BY DEF Init, GuestInit, NoChain
<1>4. KernelInv
  BY <1>3 DEF Init, GuestInit, KernelInv, InUse, BufOf
<1>5. SuspendedInv /\ GuestInv /\ SwitchInv
  BY <1>3 DEF Init, GuestInit, SuspendedInv, GuestInv, SwitchInv
<1>6. BetweenInv
  BY <1>3 DEF Init, GuestInit, BetweenInv, BufOf, BootContext, NoChain, Running, Entry, MaskAt, LockMask, Serving, AllBufs, Threads
<1> QED
  BY <1>2, <1>3, <1>4, <1>5, <1>6 DEF IInv, BoardInv

(* __builtin_ctz() of the active word names an active line: a non-empty    *)
(* set of lines has a least member.                                        *)
LEMMA LowestIsMember ==
  ASSUME NEW S, S \subseteq Nat, S # {}
  PROVE  Lowest(S) \in S
<1> DEFINE R == OpToRel(<, Nat)
<1>1. IsWellFoundedOn(R, Nat)
  BY NatLessThanWellFounded
<1>2. PICK x \in S : \A y \in S : ~(<<y, x>> \in R)
  <2> HIDE DEF R
  <2> QED BY <1>1, WFMin
<1>3. \A y \in S : x <= y
  <2> TAKE y \in S
  <2>1. ~(<<y, x>> \in R)
    BY <1>2
  <2>2. ~(y < x)
    BY <2>1 DEF OpToRel
  <2> QED
    BY <2>2
<1> QED
  BY <1>3 DEF Lowest

(* What the board's order depends on. *)
boardVars == <<irq_masked, nested, current, ready, alive, threadVars,
               switch_block, saved, live, request, cur, contexts, ended>>

(* An action that touches none of these variables (injectIrq(), the        *)
(* driver's enable and disable calls) leaves the board in order.           *)
LEMMA BoardFrame ==
  ASSUME BoardInv, UNCHANGED boardVars
  PROVE  BoardInv'
BY DEF boardVars, threadVars, BoardInv, KernelInv, SuspendedInv, GuestInv, SwitchInv,
       BetweenInv, InUse, BufOf, Resumable, Running


(* What IInv says while the guest is executing: the chain on the stack is  *)
(* well formed and is the current thread's, under the context the host has *)
(* in hand, with its buffer empty.                                         *)
LEMMA GuestFacts ==
  ASSUME IInv, Guest
  PROVE  /\ TypeOK /\ BoardInv /\ ended = "no"
         /\ live \in Chain /\ GoodChain(live) /\ live.fn # "trap"
         /\ live.who = current
         /\ irq_masked = MaskAt(live)
         /\ nested = IF Serving(live) THEN 1 ELSE 0
BY DEF IInv, Guest, BoardInv, GuestInv, TypeOK

(* What a step inside one thread leaves alone. *)
stayVars == <<current, ready, alive, threadVars, switch_block, saved, hostVars>>

(* A step inside one thread, one that changes its own chain, the mask and  *)
(* the count but switches nowhere, keeps the invariant when the new chain  *)
(* is well formed and the mask and the count fit it.                       *)
LEMMA StayInv ==
  ASSUME IInv, Guest, UNCHANGED stayVars,
         live' \in Chain, live'.who = live.who, live'.fn # "trap", GoodChain(live'),
         irq_masked' = MaskAt(live'),
         nested' = IF Serving(live') THEN 1 ELSE 0,
         irq_pending' \subseteq Lines, irq_enabled' \subseteq Lines,
         timer_alarm' \in BOOLEAN, alarm' \in BOOLEAN,
         \/ request' = "none"
         \/ request' = "wait" /\ live'.pt \in {"wait", "isr_wait"}
         \/ request' \in {"trap", "halt", "reboot"} /\ live'.pt \notin {"swap", "wait", "isr_wait"}
  PROVE  IInv'
<1> USE DEF stayVars, hostVars, threadVars
<1>0. TypeOK /\ BoardInv /\ ended = "no" /\ live.who # None
  BY GuestFacts DEF Guest
<1>1. KernelInv' /\ SuspendedInv'
  BY <1>0 DEF BoardInv, KernelInv, SuspendedInv, InUse, BufOf, Resumable
<1>2. GuestInv'
  BY <1>0 DEF Guest, BoardInv, GuestInv, BufOf
<1>3. SwitchInv' /\ BetweenInv'
  BY <1>0 DEF SwitchInv, BetweenInv
<1>4. TypeOK'
  <2>1. irq_masked' \in Bit /\ nested' \in Nat
    BY DEF MaskAt, LockMask, Bit
  <2>2. request' \in {"none", "switch", "wait", "trap", "halt", "reboot"}
    OBVIOUS
  <2> QED
    BY <1>0, <2>1, <2>2 DEF TypeOK
<1> QED
  BY <1>0, <1>1, <1>2, <1>3, <1>4 DEF BoardInv, IInv

(* do_swap() going on after the rewind: the key it releases is the one the *)
(* thread's own locks call for.                                            *)
LEMMA SwapReturnInv == ASSUME IInv, SwapReturn, UNCHANGED hostVars PROVE IInv'
<1>1. Guest
  BY DEF SwapReturn
<1>2. live' \in Chain /\ live'.who = live.who /\ live'.fn = live.fn /\ live'.pt = "body"
      /\ live'.keys = live.keys /\ live'.key = 0
  BY <1>1, GuestFacts DEF SwapReturn, Chain, Points, Bit
<1>3. GoodChain(live') /\ irq_masked' = MaskAt(live') /\ ~Serving(live') /\ nested' = 0
  BY <1>1, <1>2, GuestFacts DEF SwapReturn, GoodChain, MaskAt, Serving, LockMask, Threads
<1> QED
  BY <1>1, <1>2, <1>3, GuestFacts, StayInv DEF SwapReturn, stayVars, timerVars, TypeOK, Guest

(* One turn of z_wasm_irq_dispatch(): the handler is entered masked and    *)
(* counted once, or the dispatcher goes back with the mask open.           *)
LEMMA DispatchInv == ASSUME IInv, z_wasm_irq_dispatch, UNCHANGED hostVars PROVE IInv'
<1>1. Guest
  BY DEF z_wasm_irq_dispatch
<1>2. CASE irq_masked = 0 /\ Active # {} /\ EnterIsr(Lowest(Active))
  <2>1. Lowest(Active) \in Active
    BY <1>1, <1>2, GuestFacts, LineAssumption, LowestIsMember DEF Active, TypeOK
  <2>2. live' \in Chain /\ live'.who = live.who /\ live'.fn = live.fn /\ live'.pt = "isr"
      /\ live'.keys = live.keys /\ live'.key = live.key
    BY <1>1, <1>2, <2>1, GuestFacts DEF EnterIsr, Chain, Points, Active, TypeOK
  <2>3. GoodChain(live') /\ irq_masked' = MaskAt(live') /\ Serving(live') /\ nested' = 1
    BY <1>1, <1>2, <2>2, GuestFacts DEF z_wasm_irq_dispatch, EnterIsr, GoodChain, MaskAt, Serving, LockMask, Threads
  <2> QED
    BY <1>1, <1>2, <2>2, <2>3, GuestFacts, StayInv DEF z_wasm_irq_dispatch, EnterIsr, stayVars, timerVars, TypeOK, Guest
<1>3. CASE live' = [live EXCEPT !.pt = "after"] /\ UNCHANGED irqVars
  <2>2. live' \in Chain /\ live'.who = live.who /\ live'.fn = live.fn /\ live'.pt = "after"
      /\ live'.keys = live.keys /\ live'.key = live.key
    BY <1>1, <1>3, GuestFacts DEF Chain, Points
  <2>3. GoodChain(live') /\ irq_masked' = MaskAt(live') /\ ~Serving(live') /\ nested' = 0
    BY <1>1, <1>3, <2>2, GuestFacts DEF z_wasm_irq_dispatch, GoodChain, MaskAt, Serving, LockMask, Threads, irqVars
  <2> QED
    BY <1>1, <1>3, <2>2, <2>3, GuestFacts, StayInv DEF z_wasm_irq_dispatch, irqVars, stayVars, timerVars, TypeOK, Guest
<1> QED
  BY <1>2, <1>3 DEF z_wasm_irq_dispatch

(* A handler's return to the dispatcher clears the mask it ran under and   *)
(* its count.                                                              *)
LEMMA IsrReturnInv == ASSUME IInv, IsrReturn, UNCHANGED hostVars PROVE IInv'
<1>1. Guest
  BY DEF IsrReturn
<1>2. live' \in Chain /\ live'.who = live.who /\ live'.fn = live.fn /\ live'.pt = "dispatch"
      /\ live'.keys = live.keys /\ live'.key = live.key
  BY <1>1, GuestFacts DEF IsrReturn, Chain, Points, Bit
<1>3. GoodChain(live') /\ irq_masked' = MaskAt(live') /\ ~Serving(live') /\ nested' = 0
  BY <1>1, <1>2, GuestFacts DEF IsrReturn, GoodChain, MaskAt, Serving, LockMask, Threads
<1> QED
  BY <1>1, <1>2, <1>3, GuestFacts, StayInv DEF IsrReturn, stayVars, timerVars, TypeOK, Guest

(* One more arch_irq_lock() keeps the keys in a thread's frames well       *)
(* formed: only the outermost found the mask open.                         *)
LEMMA LockKeysAppend ==
  ASSUME NEW keys \in Seq(Bit), LockKeys(keys),
         NEW k, k = IF keys = <<>> THEN 0 ELSE 1
  PROVE  /\ LockKeys(Append(keys, k)) /\ Append(keys, k) \in Seq(Bit)
         /\ Append(keys, k) # <<>>
<1>1. keys = <<>> <=> Len(keys) = 0
  OBVIOUS
<1>2. \A i \in 1..Len(Append(keys, k)) :
        Append(keys, k)[i] = IF i = 1 THEN 0 ELSE 1
  BY <1>1 DEF LockKeys
<1> QED
  BY <1>2 DEF LockKeys, Bit

(* A sequence of keys of length zero is empty.                             *)
LEMMA EmptyByLen ==
  ASSUME NEW S, NEW s \in Seq(S)
  PROVE  s = <<>> <=> Len(s) = 0
OBVIOUS

(* The matching arch_irq_unlock(): the keys that stay are well formed, and *)
(* the one that is taken says whether any stay.                            *)
LEMMA LockKeysFront ==
  ASSUME NEW keys \in Seq(Bit), LockKeys(keys), keys # <<>>,
         NEW front, front = SubSeq(keys, 1, Len(keys) - 1)
  PROVE  /\ front \in Seq(Bit) /\ LockKeys(front)
         /\ keys[Len(keys)] = IF front = <<>> THEN 0 ELSE 1
<1>1. PICK n \in Nat : Len(keys) = n + 1
  <2>1. Len(keys) \in Nat \ {0}
    OBVIOUS
  <2> QED
    BY <2>1
<1>2. front = SubSeq(keys, 1, n)
  BY <1>1
<1>3. /\ front \in Seq(Bit) /\ Len(front) = n
      /\ \A i \in 1..n : front[i] = keys[i]
  <2>1. SubSeq(keys, 1, n) \in Seq(Bit)
    BY <1>1
  <2>2. Len(SubSeq(keys, 1, n)) = n
    BY <1>1
  <2>3. \A i \in 1..n : SubSeq(keys, 1, n)[i] = keys[i]
    BY <1>1
  <2> QED
    BY <1>2, <2>1, <2>2, <2>3
<1>4. front = <<>> <=> n = 0
  BY <1>3, EmptyByLen
<1> QED
  BY <1>1, <1>3, <1>4 DEF LockKeys

(* arch_irq_lock() keeps the invariant: the thread's mask is set and its   *)
(* frames hold the key.                                                    *)
LEMMA LockInv == ASSUME IInv, arch_irq_lock, UNCHANGED hostVars PROVE IInv'
<1>1. Guest
  BY DEF arch_irq_lock, InThread
<1>2. irq_masked = IF live.keys = <<>> THEN 0 ELSE 1
  BY <1>1, GuestFacts, ThreadAssumption
     DEF arch_irq_lock, InThread, MaskAt, LockMask, Serving, Threads
<1>3. /\ live' \in Chain /\ live'.who = live.who /\ live'.fn = live.fn
      /\ live'.pt = live.pt /\ live'.key = live.key
      /\ live'.keys # <<>> /\ LockKeys(live'.keys)
  BY <1>1, <1>2, GuestFacts, LockKeysAppend DEF arch_irq_lock, Chain, GoodChain
<1>4. GoodChain(live') /\ irq_masked' = MaskAt(live') /\ ~Serving(live') /\ nested' = 0
  BY <1>1, <1>3, GuestFacts, ThreadAssumption
     DEF arch_irq_lock, InThread, GoodChain, MaskAt, Serving, LockMask, Threads
<1> QED
  BY <1>1, <1>3, <1>4, GuestFacts, StayInv
     DEF arch_irq_lock, stayVars, timerVars, TypeOK, Guest

(* arch_irq_unlock() of a nested lock leaves the mask set, of the          *)
(* outermost one opens it.                                                 *)
LEMMA UnlockInv == ASSUME IInv, arch_irq_unlock, UNCHANGED hostVars PROVE IInv'
<1>1. Guest
  BY DEF arch_irq_unlock, InThread
<1>2. /\ live' \in Chain /\ live'.who = live.who /\ live'.fn = live.fn
      /\ live'.pt = live.pt /\ live'.key = live.key
      /\ LockKeys(live'.keys)
      /\ irq_masked' = IF live'.keys = <<>> THEN 0 ELSE 1
  BY <1>1, GuestFacts, LockKeysFront DEF arch_irq_unlock, Chain, GoodChain
<1>3. GoodChain(live') /\ irq_masked' = MaskAt(live') /\ ~Serving(live') /\ nested' = 0
  BY <1>1, <1>2, GuestFacts, ThreadAssumption
     DEF arch_irq_unlock, InThread, GoodChain, MaskAt, Serving, LockMask, Threads
<1> QED
  BY <1>1, <1>2, <1>3, GuestFacts, StayInv
     DEF arch_irq_unlock, stayVars, timerVars, TypeOK, Guest

(* arch_cpu_atomic_idle() opens the mask for its wait, with the caller's   *)
(* key in its frame.                                                       *)
LEMMA AtomicIdleInv == ASSUME IInv, arch_cpu_atomic_idle, UNCHANGED hostVars PROVE IInv'
<1>1. Guest
  BY DEF arch_cpu_atomic_idle, InThread
<1> DEFINE front == SubSeq(live.keys, 1, Len(live.keys) - 1)
           last  == live.keys[Len(live.keys)]
           point == IF Active # {} THEN "dispatch" ELSE "wait"
<1>2. /\ front \in Seq(Bit) /\ LockKeys(front) /\ live \in Chain
      /\ last = IF front = <<>> THEN 0 ELSE 1
  BY <1>1, GuestFacts, LockKeysFront DEF arch_cpu_atomic_idle, Chain, GoodChain
<1>3. /\ live' = [live EXCEPT !.fn = "atomic_idle", !.pt = point, !.key = last, !.keys = front]
      /\ point \in {"dispatch", "wait"} /\ last \in Bit
  BY <1>1, <1>2 DEF arch_cpu_atomic_idle, Bit
<1>4. request' = IF point = "wait" THEN "wait" ELSE "none"
  BY <1>1 DEF arch_cpu_atomic_idle, Guest
<1> HIDE DEF front, last, point
<1>5. /\ live' \in Chain /\ live'.who = live.who /\ live'.fn = "atomic_idle"
      /\ live'.pt = point /\ live'.keys = front /\ live'.key = last
  BY <1>2, <1>3 DEF Chain, Fns, Points
<1>6. GoodChain(live') /\ irq_masked' = MaskAt(live') /\ ~Serving(live') /\ nested' = 0
  BY <1>1, <1>2, <1>3, <1>5, GuestFacts, ThreadAssumption
     DEF arch_cpu_atomic_idle, InThread, GoodChain, MaskAt, Serving, LockMask, Threads
<1>7. request' = "none" \/ (request' = "wait" /\ live'.pt = "wait")
  BY <1>4, <1>5
<1> QED
  BY <1>1, <1>5, <1>6, <1>7, GuestFacts, StayInv
     DEF arch_cpu_atomic_idle, stayVars, timerVars, TypeOK

(* arch_cpu_idle(), with its early return and its wait.                    *)
LEMMA IdleInv == ASSUME IInv, arch_cpu_idle, UNCHANGED hostVars PROVE IInv'
<1>1. Guest
  BY DEF arch_cpu_idle
<1>2. /\ live' \in Chain /\ live'.who = live.who /\ live'.keys = live.keys
      /\ \/ live'.fn = "idle_early" /\ live'.pt = "dispatch" /\ request' = "none"
         \/ live'.fn = "idle" /\ live'.pt = "wait" /\ request' = "wait"
  BY <1>1, GuestFacts DEF arch_cpu_idle, At, Chain, Fns, Points, Guest
<1>3. GoodChain(live') /\ irq_masked' = MaskAt(live') /\ ~Serving(live') /\ nested' = 0
  BY <1>1, <1>2, GuestFacts, ThreadAssumption
     DEF arch_cpu_idle, GoodChain, MaskAt, Serving, LockMask, Threads
<1> QED
  BY <1>1, <1>2, <1>3, GuestFacts, StayInv
     DEF arch_cpu_idle, stayVars, timerVars, TypeOK

(* arch_irq_offload() enters its routine masked and counted.               *)
LEMMA OffloadInv == ASSUME IInv, arch_irq_offload, UNCHANGED hostVars PROVE IInv'
<1>1. Guest
  BY DEF arch_irq_offload, InThread
<1>2. /\ live' \in Chain /\ live'.who = live.who /\ live'.keys = live.keys
      /\ live'.fn = "offload" /\ live'.pt = "body" /\ live'.key = irq_masked
  BY <1>1, GuestFacts DEF arch_irq_offload, At, Chain, Fns, Points, TypeOK
<1>3. GoodChain(live') /\ irq_masked' = MaskAt(live') /\ Serving(live') /\ nested' = 1
  BY <1>1, <1>2, GuestFacts, ThreadAssumption
     DEF arch_irq_offload, InThread, GoodChain, MaskAt, Serving, LockMask, Threads
<1> QED
  BY <1>1, <1>2, <1>3, GuestFacts, StayInv
     DEF arch_irq_offload, stayVars, timerVars, TypeOK, Guest

(* The offloaded routine's return puts the caller's mask back.             *)
LEMMA OffloadReturnInv == ASSUME IInv, OffloadReturn, UNCHANGED hostVars PROVE IInv'
<1>1. Guest
  BY DEF OffloadReturn
<1>2. /\ live' \in Chain /\ live'.who = live.who /\ live'.keys = live.keys
      /\ live'.fn = "offload" /\ live'.pt = "after" /\ live'.key = 0
  BY <1>1, GuestFacts DEF OffloadReturn, Chain, Points, Bit
<1>3. GoodChain(live') /\ irq_masked' = MaskAt(live') /\ ~Serving(live') /\ nested' = 0
  BY <1>1, <1>2, GuestFacts, ThreadAssumption
     DEF OffloadReturn, GoodChain, MaskAt, Serving, LockMask, Threads
<1> QED
  BY <1>1, <1>2, <1>3, GuestFacts, StayInv
     DEF OffloadReturn, stayVars, timerVars, TypeOK, Guest

(* The turns of a thread's arch_busy_wait() change neither its mask nor    *)
(* the count.                                                              *)
LEMMA BusyWaitInv ==
  ASSUME IInv, BusyWaitStart \/ BusyWaitTurn \/ BusyWaitEnd, UNCHANGED hostVars
  PROVE  IInv'
<1>1. Guest
  BY DEF BusyWaitStart, BusyWaitTurn, BusyWaitEnd, InThread
<1>2. /\ live' \in Chain /\ live'.who = live.who /\ live'.keys = live.keys
      /\ \/ live'.fn = "busy_wait" /\ live'.pt = "body" /\ request' = "none"
         \/ live'.fn = "busy_wait" /\ live'.pt = "wait" /\ request' = "wait"
         \/ live'.fn = "code" /\ live'.pt = "body" /\ request' = "none"
  BY <1>1, GuestFacts
     DEF BusyWaitStart, BusyWaitTurn, BusyWaitEnd, At, Chain, Fns, Points, Guest
<1>3. /\ live.who \in App /\ live.fn \in {"code", "busy_wait"} /\ live.pt = "body"
      /\ irq_masked' = irq_masked /\ nested' = nested
  BY <1>1, GuestFacts, ThreadAssumption
     DEF BusyWaitStart, BusyWaitTurn, BusyWaitEnd, InThread, irqVars, GoodChain, Threads
<1>4. GoodChain(live') /\ irq_masked' = MaskAt(live') /\ ~Serving(live') /\ nested' = 0
  BY <1>1, <1>2, <1>3, GuestFacts, ThreadAssumption
     DEF GoodChain, MaskAt, Serving, LockMask, Threads
<1> QED
  BY <1>1, <1>2, <1>4, GuestFacts, StayInv
     DEF BusyWaitStart, BusyWaitTurn, BusyWaitEnd, irqVars, stayVars, timerVars, TypeOK

(* arch_busy_wait() in a handler, an offloaded routine or the boot path    *)
(* waits masked.                                                           *)
LEMMA BusyWaitMaskedInv == ASSUME IInv, BusyWaitMasked, UNCHANGED hostVars PROVE IInv'
<1>1. Guest
  BY DEF BusyWaitMasked, InHandler, InBoot
<1>2. /\ live' \in Chain /\ live'.who = live.who /\ live'.keys = live.keys
      /\ live'.fn = live.fn /\ live'.key = live.key
      /\ live'.pt = IF live.pt = "isr" THEN "isr_wait" ELSE "wait"
  BY <1>1, GuestFacts DEF BusyWaitMasked, Chain, Points
<1>3. /\ GoodChain(live') /\ irq_masked' = MaskAt(live')
      /\ nested' = IF Serving(live') THEN 1 ELSE 0
  BY <1>1, <1>2, GuestFacts, ThreadAssumption
     DEF BusyWaitMasked, InHandler, InBoot, irqVars, GoodChain, MaskAt, Serving, LockMask, Threads
<1> QED
  BY <1>1, <1>2, <1>3, GuestFacts, StayInv
     DEF BusyWaitMasked, irqVars, stayVars, timerVars, TypeOK

(* wait_for_event() returning, in every function that waits.               *)
LEMMA WaitReturnInv == ASSUME IInv, WaitReturn, UNCHANGED hostVars PROVE IInv'
<1>1. Guest
  BY DEF WaitReturn
<1>2. /\ live' \in Chain /\ live'.who = live.who /\ live'.keys = live.keys
      /\ live'.fn = live.fn /\ live'.key = live.key
      /\ \/ live.pt = "isr_wait" /\ live'.pt = "isr"
         \/ /\ live.pt = "wait" /\ live'.pt = "dispatch"
            /\ live.fn \in {"idle", "atomic_idle", "busy_wait"}
            /\ live.fn = "busy_wait" => irq_masked = 0
         \/ /\ live.pt = "wait" /\ live'.pt = "after"
            /\ live.fn \in {"idle", "atomic_idle"}
         \/ /\ live.pt = "wait" /\ live'.pt = "body"
            /\ live.fn \notin {"idle", "atomic_idle"}
  BY <1>1, GuestFacts DEF WaitReturn, Chain, Points
<1>3. /\ GoodChain(live') /\ irq_masked' = MaskAt(live')
      /\ nested' = IF Serving(live') THEN 1 ELSE 0
  BY <1>1, <1>2, GuestFacts, ThreadAssumption
     DEF WaitReturn, irqVars, GoodChain, MaskAt, Serving, LockMask, Threads
<1> QED
  BY <1>1, <1>2, <1>3, GuestFacts, StayInv
     DEF WaitReturn, irqVars, stayVars, timerVars, TypeOK, Guest

(* z_wasm_safepoint() dispatches only unmasked, so never inside a handler  *)
(* or a critical section.                                                  *)
LEMMA SafepointInv ==
  ASSUME IInv, NEW due \in BOOLEAN, z_wasm_safepoint(due), UNCHANGED hostVars
  PROVE  IInv'
<1>1. Guest
  BY DEF z_wasm_safepoint, AtSafepoint, IdleLoop, WaitLoop, InCode, InThread, InBoot, InHandler
<1>2. /\ irq_pending' \subseteq Lines /\ alarm' \in BOOLEAN
  BY <1>1, GuestFacts, LineAssumption DEF z_wasm_safepoint, AtSafepoint, IdleLoop, WaitLoop, safepoint_tick, TypeOK
<1>3. /\ live' \in Chain /\ live'.who = live.who /\ live'.keys = live.keys
      /\ live'.key = live.key
      /\ \/ live' = live
         \/ live'.fn \in {"safepoint", "busy_wait"} /\ live'.pt = "dispatch" /\ irq_masked = 0
            /\ (live'.fn = "busy_wait" <=> live.fn = "busy_wait" /\ live.pt = "body")
         \/ /\ live'.fn = "enter" /\ live'.pt = "body"
            /\ live.who = Idle /\ live.fn = "code" /\ live.pt = "body"
  BY <1>1, GuestFacts DEF z_wasm_safepoint, AtSafepoint, IdleLoop, WaitLoop, At, Chain, Fns, Points
<1>4. \/ live.who \in App /\ live.fn = "code" /\ live.pt = "body"
      \/ live.who \in App /\ live.fn = "busy_wait" /\ live.pt = "body"
      \/ live.who = Idle /\ live.fn = "code" /\ live.pt = "body"
      \/ irq_masked = 1 /\ live.who # Idle
      \/ irq_masked = 1 /\ live.pt = "isr"
  BY <1>1, GuestFacts, ThreadAssumption
     DEF z_wasm_safepoint, AtSafepoint, IdleLoop, WaitLoop, InCode, InThread, InBoot, InHandler, GoodChain, MaskAt, Serving,
         LockMask, Threads
<1>5. /\ GoodChain(live') /\ irq_masked' = MaskAt(live')
      /\ nested' = IF Serving(live') THEN 1 ELSE 0
      /\ live'.fn # "trap"
  BY <1>1, <1>3, <1>4, GuestFacts, ThreadAssumption
     DEF z_wasm_safepoint, AtSafepoint, IdleLoop, WaitLoop, GoodChain, MaskAt, Serving, LockMask, Threads
<1> QED
  BY <1>1, <1>2, <1>3, <1>5, GuestFacts, StayInv
     DEF z_wasm_safepoint, AtSafepoint, IdleLoop, WaitLoop, stayVars, TypeOK, Guest

(* Steps that leave the chain, the mask and the kernel's threads alone:    *)
(* line enables, raises, and the timer's alarm.                            *)
LEMMA DriverInv ==
  ASSUME IInv, UNCHANGED hostVars,
         \/ \E l \in Lines : \/ z_wasm_irq_enable(l) \/ z_wasm_irq_disable(l)
                             \/ z_wasm_irq_raise(l)
         \/ \E on \in BOOLEAN : sys_clock_set_timeout(on)
         \/ \E how \in {"trap", "halt", "reboot"} : Leave(how)
  PROVE  IInv'
<1>1. InCode /\ Guest
  BY DEF z_wasm_irq_enable, z_wasm_irq_disable, z_wasm_irq_raise,
         sys_clock_set_timeout, Leave, InCode, InThread, InBoot, InHandler
<1>2. /\ UNCHANGED <<live, irq_masked, nested>> /\ UNCHANGED stayVars
      /\ irq_pending' \subseteq Lines /\ irq_enabled' \subseteq Lines
      /\ timer_alarm' \in BOOLEAN /\ alarm' \in BOOLEAN
      /\ request' = "none" \/ request' \in {"trap", "halt", "reboot"}
  BY <1>1, GuestFacts
     DEF z_wasm_irq_enable, z_wasm_irq_disable, z_wasm_irq_raise,
         sys_clock_set_timeout, Leave, irqVars, timerVars, stayVars, TypeOK, Guest
<1>3. live.pt \notin {"swap", "wait", "isr_wait"}
  BY <1>1 DEF InCode, InThread, InBoot, InHandler
<1> QED
  BY <1>1, <1>2, <1>3, GuestFacts, StayInv

(* A switch away from the current thread through z_wasm_switch().  c is    *)
(* the chain it leaves: the one it was executing or, after a trap, that of *)
(* z_wasm_trap().                                                          *)
LEMMA SwapInv ==
  ASSUME TypeOK, BoardInv, ended = "no",
         live.who = current, request # "switch",
         NEW c \in Chain, c.who = current, NEW key \in Bit,
         NEW to \in alive, to # current, Swap(c, key, to),
         ready' \subseteq alive' \cap App,
         alive' = alive \/ (alive' = alive \ {current} /\ current \in App),
         nested' = 0,
         UNCHANGED <<irq_pending, irq_enabled, asyncify_buf, saved, timerVars,
                     contexts, external, reboots, ended>>,
         cur' \in Context, cur'.buf = cur.buf, cur'.fresh = cur.fresh, traps' \in Nat,
         \/ /\ c.fn # "trap" /\ cur' = cur
            /\ GoodChain([c EXCEPT !.pt = "swap", !.key = key])
         \/ c.fn = "trap" /\ alive' = alive \ {current} /\ current # Dummy
  PROVE  IInv'
<1> USE DEF Swap, z_wasm_switch
<1>1. /\ current \in Threads \cup {Dummy} /\ to \in Threads /\ to # Dummy
      /\ alive \subseteq Threads /\ alive' \subseteq Threads /\ to \in alive'
      /\ live.who # None /\ Idle \in alive'
  BY ThreadAssumption DEF TypeOK, BoardInv, KernelInv, Threads
<1>2. /\ live' \in Chain /\ live'.who = current /\ live'.pt = "swap"
      /\ live'.fn = c.fn /\ request' = "switch" /\ current' = to
  BY DEF Chain, Points
<1>3. /\ fresh' \in [Threads \cup {Dummy} -> Bit]
      /\ irq_lock_key' \in [Threads \cup {Dummy} -> Bit]
      /\ fresh'[to] = 0 /\ irq_lock_key'[current] = 1
      /\ \A t \in Threads \ {to, current} :
           fresh'[t] = fresh[t] /\ irq_lock_key'[t] = irq_lock_key[t]
      /\ current # Dummy => fresh'[current] = fresh[current]
  BY <1>1, ThreadAssumption DEF TypeOK, Bit, Threads
<1>4. TypeOK'
  <2>1. irq_masked' \in Bit /\ nested' \in Nat
    BY <1>1 DEF TypeOK, Bit
  <2>2. switch_block' \in [from_buf : Bufs \cup {NoBuf}, to_buf : Bufs \cup {NoBuf},
                           to_fresh : Bit, to_arg : Threads \cup {Dummy}]
    BY <1>1 DEF TypeOK
  <2> QED
    BY <1>1, <1>2, <1>3, <2>1, <2>2 DEF TypeOK, timerVars
<1>5. KernelInv'
  BY <1>1, <1>2 DEF BoardInv, KernelInv, InUse, BufOf
<1>6. SuspendedInv'
  BY <1>1, <1>2, <1>3 DEF BoardInv, SuspendedInv, Resumable
<1>7. GuestInv'
  BY <1>1, <1>2 DEF BoardInv, GuestInv, BufOf
<1>8. SwitchInv'
  <2>1. \/ fresh[to] = 1 /\ irq_lock_key[to] = 0 /\ saved[asyncify_buf[to]] = NoChain
        \/ fresh[to] = 0 /\ irq_lock_key[to] = 1 /\ Resumable(to)
    BY DEF BoardInv, SuspendedInv
  <2>2. Resumable(to) => Resumable(current)'
    BY <1>2 DEF Resumable
  <2>3. current # Dummy => fresh[current] = 0
    BY <1>1 DEF BoardInv, GuestInv
  <2>4. /\ switch_block'.from_buf = asyncify_buf[current]
        /\ switch_block'.to_buf = asyncify_buf[to]
        /\ switch_block'.to_fresh = fresh[to]
        /\ switch_block'.to_arg = to
        /\ irq_masked' = irq_lock_key[to]
    OBVIOUS
  <2> HIDE DEF Swap, z_wasm_switch
  <2>5. /\ live'.who \in alive' => fresh'[live'.who] = 0 /\ irq_lock_key'[live'.who] = 1
        /\ fresh'[current'] = 0
    BY <1>1, <1>2, <1>3, <2>3, ThreadAssumption
  <2>6. \/ switch_block'.to_fresh = 1 /\ irq_masked' = 0 /\ saved'[asyncify_buf'[current']] = NoChain
        \/ switch_block'.to_fresh = 0 /\ irq_masked' = 1 /\ Resumable(current)'
    BY <1>2, <2>1, <2>2, <2>4
  <2> QED
    BY <1>1, <1>2, <2>4, <2>5, <2>6 DEF SwitchInv
<1>9. BetweenInv'
  BY <1>1, <1>2 DEF BetweenInv
<1> QED
  BY <1>1, <1>2, <1>4, <1>5, <1>6, <1>7, <1>8, <1>9, ThreadAssumption DEF IInv, BoardInv

(* Where the scheduler may send the CPU: to a thread that exists.          *)
LEMMA CandidatesAlive ==
  ASSUME TypeOK, BoardInv, current # Dummy, NEW S \in SUBSET ready,
         NEW to \in Candidates(S)
  PROVE  to \in alive
BY DEF BoardInv, KernelInv, Candidates

(* z_reschedule_unlocked(), whether it switches or lets its caller go on   *)
(* at chain c.                                                             *)
LEMMA RescheduleInv ==
  ASSUME IInv, Guest, live.who # Dummy, UNCHANGED hostVars,
         NEW c \in Chain, c.who = live.who, c.fn # "trap", GoodChain(c),
         irq_masked = MaskAt(c), nested = IF Serving(c) THEN 1 ELSE 0,
         irq_masked = 0 /\ nested = 0 => GoodChain([c EXCEPT !.pt = "swap", !.key = 0]),
         Reschedule(c),
         UNCHANGED <<irq_pending, irq_enabled, nested, ready, alive, asyncify_buf,
                     saved, timerVars>>
  PROVE  IInv'
<1>1. CASE /\ irq_masked = 0 /\ nested = 0
           /\ \E to \in Candidates(ready) \ {current} : Swap(c, 0, to)
  <2>1. PICK to \in Candidates(ready) \ {current} : Swap(c, 0, to)
    BY <1>1
  <2>2. TypeOK /\ BoardInv /\ ended = "no" /\ live.who = current /\ request # "switch"
    BY GuestFacts DEF Guest
  <2>3. to \in alive /\ to # current
    BY <2>1, <2>2, CandidatesAlive
  <2>4. ready' \subseteq alive' \cap App
    BY <2>2 DEF TypeOK, BoardInv, KernelInv
  <2>5. cur' \in Context /\ traps' \in Nat /\ cur' = cur
    BY <2>2 DEF TypeOK, hostVars
  <2> QED
    BY <1>1, <2>1, <2>2, <2>3, <2>4, <2>5, SwapInv DEF hostVars, Bit
<1>2. CASE /\ live' = c
           /\ UNCHANGED <<current, irq_masked, irq_lock_key, fresh, switch_block,
                          request>>
  BY <1>2, GuestFacts, StayInv DEF stayVars, threadVars, timerVars, TypeOK, Guest
<1> QED
  BY <1>1, <1>2 DEF Reschedule

(* k_yield() and the kernel calls that end in a reschedule.                *)
LEMMA YieldInv == ASSUME IInv, Yield, UNCHANGED hostVars PROVE IInv'
<1>1. Guest /\ live.who \in App /\ live.fn = "code" /\ live.pt = "body"
  BY DEF Yield, InThread
<1>2. irq_masked = 0 /\ nested = 0 => GoodChain([live EXCEPT !.pt = "swap", !.key = 0])
  <2> DEFINE s == [live EXCEPT !.pt = "swap", !.key = 0]
  <2>1. /\ s.who = live.who /\ s.fn = "code" /\ s.pt = "swap" /\ s.keys = live.keys
        /\ s.key = 0
    BY <1>1, GuestFacts DEF Chain
  <2> HIDE DEF s
  <2>2. irq_masked = 0 => GoodChain(s)
    BY <1>1, <2>1, GuestFacts, ThreadAssumption
       DEF GoodChain, MaskAt, Serving, LockMask, Threads
  <2> QED
    BY <2>2 DEF s
<1> QED
  BY <1>1, <1>2, GuestFacts, RescheduleInv, ThreadAssumption DEF Yield, Threads

(* What each caller of the dispatcher does once it is back: reschedule,    *)
(* return, or put its caller's mask back.                                  *)
LEMMA AfterDispatchInv == ASSUME IInv, AfterDispatch, UNCHANGED hostVars PROVE IInv'
<1>1. /\ Guest /\ live.pt = "after" /\ live \in Chain
      /\ live.fn \in {"safepoint", "offload", "busy_wait", "idle", "idle_early", "atomic_idle"}
  BY GuestFacts DEF AfterDispatch, Guest
<1>2. /\ irq_masked = 0 \/ live.fn = "offload"
      /\ live.fn # "atomic_idle" => irq_masked = LockMask(live)
      /\ nested = 0 /\ live.who \in Threads /\ live.who # Dummy
      /\ live.fn \in {"idle", "idle_early"} => live.who = Idle
      /\ live.fn \in {"offload", "busy_wait", "atomic_idle"} => live.who \in App
      /\ LockKeys(live.keys)
  BY <1>1, GuestFacts, ThreadAssumption DEF GoodChain, MaskAt, Serving, LockMask, Threads
<1>3. ASSUME NEW fn, \/ fn = "code"
                     \/ fn = "enter" /\ live.who = Idle
                     \/ fn = "busy_wait" /\ live.who \in App,
             live.fn # "atomic_idle", Reschedule(At(live, fn, "body"))
      PROVE  IInv'
  <2> DEFINE c == At(live, fn, "body")
             s == [c EXCEPT !.pt = "swap", !.key = 0]
  <2>1. /\ c \in Chain /\ c.who = live.who /\ c.fn = fn /\ c.pt = "body"
        /\ c.keys = live.keys
    BY <1>1, <1>3 DEF At, Chain, Fns, Points
  <2>2. /\ s.who = live.who /\ s.fn = fn /\ s.pt = "swap" /\ s.keys = live.keys
        /\ s.key = 0
    BY <1>1, <1>3 DEF At, Chain, Fns, Points
  <2> HIDE DEF c, s
  <2>3. /\ GoodChain(c) /\ irq_masked = MaskAt(c) /\ ~Serving(c) /\ c.fn # "trap"
        /\ irq_masked = 0 => GoodChain(s)
    BY <1>2, <1>3, <2>1, <2>2, ThreadAssumption
       DEF GoodChain, MaskAt, Serving, LockMask, Threads
  <2>4. /\ Reschedule(c)
        /\ irq_masked = 0 => GoodChain([c EXCEPT !.pt = "swap", !.key = 0])
    BY <1>3, <2>3 DEF c, s
  <2> QED
    BY <1>1, <1>2, <2>1, <2>3, <2>4, RescheduleInv DEF AfterDispatch
<1>4. CASE /\ live.fn = "idle_early" /\ live' = At(live, "code", "body")
           /\ UNCHANGED <<current, irq_masked, irq_lock_key, fresh, switch_block, request>>
  <2>1. /\ live' \in Chain /\ live'.who = live.who /\ live'.fn = "code"
        /\ live'.pt = "body" /\ live'.keys = live.keys
    BY <1>1, <1>4 DEF At, Chain, Fns, Points
  <2>2. GoodChain(live') /\ irq_masked' = MaskAt(live') /\ ~Serving(live') /\ nested' = 0
    BY <1>2, <1>4, <2>1, ThreadAssumption
       DEF AfterDispatch, GoodChain, MaskAt, Serving, LockMask, Threads
  <2> QED
    BY <1>1, <1>4, <2>1, <2>2, GuestFacts, StayInv
       DEF AfterDispatch, stayVars, threadVars, timerVars, TypeOK, Guest
<1>5. CASE /\ live.fn = "atomic_idle" /\ irq_masked' = live.key
           /\ live' = [At(live, "code", "body") EXCEPT !.key = 0]
           /\ UNCHANGED <<current, irq_lock_key, fresh, switch_block, request>>
  <2>1. /\ live' \in Chain /\ live'.who = live.who /\ live'.fn = "code"
        /\ live'.pt = "body" /\ live'.keys = live.keys
    BY <1>1, <1>5 DEF At, Chain, Fns, Points, Bit
  <2>2. live.key = LockMask(live)
    BY <1>1, <1>5, GuestFacts DEF GoodChain
  <2>3. GoodChain(live') /\ irq_masked' = MaskAt(live') /\ ~Serving(live') /\ nested' = 0
    BY <1>2, <1>5, <2>1, <2>2, ThreadAssumption
       DEF AfterDispatch, GoodChain, MaskAt, Serving, LockMask, Threads
  <2> QED
    BY <1>1, <1>5, <2>1, <2>3, GuestFacts, StayInv
       DEF AfterDispatch, stayVars, threadVars, timerVars, TypeOK, Guest
<1>6. CASE /\ live.fn \in {"safepoint", "offload"}
           /\ Reschedule(At(live, IF live.who = Idle THEN "enter" ELSE "code", "body"))
  BY <1>3, <1>6
<1>7. CASE live.fn = "busy_wait" /\ Reschedule(At(live, "busy_wait", "body"))
  BY <1>2, <1>3, <1>7
<1>8. CASE live.fn = "idle" /\ Reschedule(At(live, "code", "body"))
  BY <1>3, <1>8
<1> QED
  BY <1>4, <1>5, <1>6, <1>7, <1>8 DEF AfterDispatch

(* The chain a thread leaves behind when it gives up the CPU itself is     *)
(* well formed.                                                            *)
LEMMA SwappedChain ==
  ASSUME IInv, InThread \/ InBoot
  PROVE  /\ irq_masked \in Bit /\ nested = 0
         /\ GoodChain([live EXCEPT !.pt = "swap", !.key = irq_masked])
<1> DEFINE s == [live EXCEPT !.pt = "swap", !.key = irq_masked]
<1>1. Guest /\ live.fn = "code" /\ live.pt = "body" /\ live \in Chain
      /\ irq_masked \in Bit /\ nested = 0 /\ irq_masked = LockMask(live)
  BY GuestFacts, ThreadAssumption
     DEF InThread, InBoot, TypeOK, GoodChain, MaskAt, Serving, Threads
<1>2. /\ s.who = live.who /\ s.fn = "code" /\ s.pt = "swap" /\ s.keys = live.keys
      /\ s.key = irq_masked
  BY <1>1 DEF Chain
<1> HIDE DEF s
<1>3. GoodChain(s)
  BY <1>1, <1>2, GuestFacts, ThreadAssumption DEF GoodChain, LockMask, Threads
<1> QED
  BY <1>1, <1>3 DEF s

(* A thread that blocks, holding locks or not, or that aborts itself.      *)
LEMMA BlockInv == ASSUME IInv, Block \/ AbortSelf, UNCHANGED hostVars PROVE IInv'
<1>1. /\ InThread /\ Guest /\ live.who = current /\ current \in App /\ current # Dummy
      /\ TypeOK /\ BoardInv /\ ended = "no" /\ live \in Chain /\ live.fn # "trap"
  BY GuestFacts, ThreadAssumption DEF Block, AbortSelf, InThread, Threads
<1>2. PICK to \in Candidates(ready \ {current}) : Swap(live, irq_masked, to)
  BY DEF Block, AbortSelf
<1>3. to \in alive /\ to # current
  BY <1>1, <1>2, CandidatesAlive, ThreadAssumption DEF Candidates
<1>4. /\ ready' \subseteq alive' \cap App
      /\ alive' = alive \/ (alive' = alive \ {current} /\ current \in App)
  BY <1>1 DEF Block, AbortSelf, TypeOK, BoardInv, KernelInv
<1>5. nested' = 0 /\ UNCHANGED <<irq_pending, irq_enabled, asyncify_buf, saved, timerVars>>
  BY <1>1, SwappedChain DEF Block, AbortSelf
<1>6. cur' \in Context /\ traps' \in Nat /\ cur' = cur
      /\ UNCHANGED <<contexts, external, reboots, ended>>
  BY <1>1 DEF TypeOK, hostVars
<1> QED
  BY <1>1, <1>2, <1>3, <1>4, <1>5, <1>6, SwappedChain, SwapInv DEF Guest

(* The dummy thread's only switch, to main.                                *)
LEMMA SwitchToMainInv == ASSUME IInv, SwitchToMain, UNCHANGED hostVars PROVE IInv'
<1>1. /\ InBoot /\ Guest /\ live.who = current /\ current = Dummy
      /\ TypeOK /\ BoardInv /\ ended = "no" /\ live \in Chain /\ live.fn # "trap"
  BY GuestFacts DEF SwitchToMain, InBoot
<1>2. PICK main \in ready : Swap(live, irq_masked, main)
  BY DEF SwitchToMain
<1>3. main \in alive /\ main # current /\ ready' \subseteq alive' \cap App /\ alive' = alive
  BY <1>1, <1>2, ThreadAssumption DEF SwitchToMain, TypeOK, BoardInv, KernelInv, Threads
<1>4. nested' = 0 /\ UNCHANGED <<irq_pending, irq_enabled, asyncify_buf, saved, timerVars>>
  BY <1>1, SwappedChain DEF SwitchToMain
<1>5. cur' \in Context /\ traps' \in Nat /\ cur' = cur
      /\ UNCHANGED <<contexts, external, reboots, ended>>
  BY <1>1 DEF TypeOK, hostVars
<1> QED
  BY <1>1, <1>2, <1>3, <1>4, <1>5, SwappedChain, SwapInv DEF Guest

(* Wakes and aborts of threads that are not running, and an abort of the   *)
(* thread a handler interrupted.                                           *)
LEMMA SchedulerInv ==
  ASSUME IInv, UNCHANGED hostVars,
         AbortInterrupted \/ (\E t \in App : Wake(t) \/ Abort(t))
  PROVE  IInv'
<1> USE DEF AbortInterrupted, Wake, Abort
<1>1. Guest /\ live.who = current /\ current # Dummy /\ TypeOK /\ BoardInv /\ ended = "no"
  BY GuestFacts, ThreadAssumption DEF InThread, InHandler, GoodChain, Threads
<1>2. /\ UNCHANGED <<live, irqVars, current, threadVars, switch_block, saved, timerVars,
                     request, hostVars>>
      /\ alive' \subseteq alive /\ Idle \in alive' /\ ready' \subseteq alive' \cap App
  BY <1>1, ThreadAssumption DEF TypeOK, BoardInv, KernelInv, Threads
<1> HIDE DEF AbortInterrupted, Wake, Abort
<1> USE DEF irqVars, threadVars, timerVars, hostVars
<1>3. KernelInv' /\ SuspendedInv'
  BY <1>1, <1>2 DEF BoardInv, KernelInv, SuspendedInv, InUse, BufOf, Resumable
<1>4. GuestInv' /\ SwitchInv' /\ BetweenInv'
  BY <1>1, <1>2 DEF BoardInv, GuestInv, SwitchInv, BetweenInv, BufOf, Guest
<1>5. TypeOK'
  BY <1>1, <1>2 DEF TypeOK
<1> QED
  BY <1>1, <1>2, <1>3, <1>4, <1>5 DEF IInv, BoardInv

(* arch_new_thread(): an unused buffer, emptied, and a key that says       *)
(* unmasked.                                                               *)
LEMMA NewThreadInv ==
  ASSUME IInv, NEW t \in App, NEW b \in Bufs, arch_new_thread(t, b), UNCHANGED hostVars
  PROVE  IInv'
<1> USE DEF irqVars, timerVars, hostVars
<1>1. /\ Guest /\ live.who = current /\ current # Dummy /\ TypeOK /\ BoardInv /\ ended = "no"
      /\ live.who # None
  BY GuestFacts, ThreadAssumption DEF arch_new_thread, InThread, InHandler, GoodChain, Threads, Guest
<1>2. /\ t \in Threads \cup {Dummy} /\ t # current /\ t \notin alive
      /\ \A u \in alive \cup {current} : asyncify_buf[u] # b
      /\ alive' = alive \cup {t} /\ ready' = ready \cup {t}
      /\ UNCHANGED <<irqVars, current, switch_block, timerVars, live, request, hostVars>>
  BY DEF arch_new_thread, Threads
<1>3. /\ asyncify_buf' \in [Threads \cup {Dummy} -> Bufs \cup {NoBuf}]
      /\ fresh' \in [Threads \cup {Dummy} -> Bit]
      /\ irq_lock_key' \in [Threads \cup {Dummy} -> Bit]
      /\ asyncify_buf'[t] = b /\ fresh'[t] = 1 /\ irq_lock_key'[t] = 0
      /\ \A u \in (Threads \cup {Dummy}) \ {t} :
           /\ asyncify_buf'[u] = asyncify_buf[u] /\ fresh'[u] = fresh[u]
           /\ irq_lock_key'[u] = irq_lock_key[u]
  BY <1>1, <1>2 DEF arch_new_thread, TypeOK, Bit
<1>4. /\ saved' \in [AllBufs -> Chain] /\ saved'[b] = NoChain
      /\ \A d \in AllBufs \ {b} : saved'[d] = saved[d]
  <2>1. NoChain \in Chain
    BY DEF NoChain, Chain, Threads, Fns, Points, Bit
  <2>2. saved' = [d \in AllBufs |-> IF d \in {b} THEN NoChain ELSE saved[d]]
    BY DEF arch_new_thread, InitBufs
  <2> QED
    BY <1>1, <2>1, <2>2 DEF TypeOK, AllBufs
<1>5. /\ alive \subseteq Threads /\ current \in Threads
      /\ \A u \in alive \cup {current} : asyncify_buf[u] \in Bufs
      /\ \A u \in alive \cup {current} : saved'[asyncify_buf[u]] = saved[asyncify_buf[u]]
  <2>1. alive \subseteq Threads /\ current \in Threads /\ Dummy \notin alive \cup {current}
    BY <1>1, ThreadAssumption DEF TypeOK
  <2>2. \A u \in alive \cup {current} : asyncify_buf[u] \in Bufs
    BY <1>1, <2>1 DEF BoardInv, KernelInv, InUse
  <2> QED
    BY <1>2, <1>4, <2>1, <2>2 DEF AllBufs
<1>6. TypeOK'
  BY <1>1, <1>2, <1>3, <1>4 DEF TypeOK, Threads
<1>7. KernelInv'
  BY <1>1, <1>2, <1>3, <1>5, ThreadAssumption DEF BoardInv, KernelInv, InUse, BufOf, Threads
<1>8. SuspendedInv'
  <2> SUFFICES ASSUME NEW u \in alive' \ {current, live.who}
               PROVE  \/ fresh'[u] = 1 /\ irq_lock_key'[u] = 0 /\ saved'[asyncify_buf'[u]] = NoChain
                      \/ fresh'[u] = 0 /\ irq_lock_key'[u] = 1 /\ Resumable(u)'
    BY <1>2 DEF SuspendedInv
  <2>1. CASE u = t
    BY <1>3, <1>4, <2>1
  <2>2. CASE u # t
    BY <1>1, <1>2, <1>3, <1>5, <2>2 DEF BoardInv, SuspendedInv, Resumable
  <2> QED
    BY <2>1, <2>2
<1>9. GuestInv'
  BY <1>1, <1>2, <1>3, <1>5 DEF BoardInv, GuestInv, BufOf, Guest
<1>10. SwitchInv' /\ BetweenInv'
  BY <1>1, <1>2 DEF SwitchInv, BetweenInv, Guest
<1> QED
  BY <1>1, <1>2, <1>6, <1>7, <1>8, <1>9, <1>10 DEF IInv, BoardInv

(* z_cstart() making main and the idle thread on two different stacks.     *)
LEMMA CstartInv ==
  ASSUME IInv, NEW main \in App, NEW b \in Bufs, NEW ib \in Bufs,
         z_cstart(main, b, ib), UNCHANGED hostVars
  PROVE  IInv'
<1> USE DEF irqVars, timerVars, hostVars
<1>1. /\ Guest /\ live.who = current /\ current = Dummy /\ TypeOK /\ BoardInv /\ ended = "no"
      /\ live.who # None
  BY GuestFacts DEF z_cstart, InBoot, Guest
<1>2. /\ main \in Threads /\ Idle \in Threads /\ main # Idle /\ Dummy \notin Threads
      /\ b # ib /\ alive' = {main, Idle} /\ ready' = {main}
      /\ UNCHANGED <<irqVars, current, switch_block, timerVars, live, request, hostVars>>
  BY ThreadAssumption DEF z_cstart, Threads
<1>3. /\ asyncify_buf' \in [Threads \cup {Dummy} -> Bufs \cup {NoBuf}]
      /\ fresh' \in [Threads \cup {Dummy} -> Bit]
      /\ irq_lock_key' \in [Threads \cup {Dummy} -> Bit]
      /\ asyncify_buf'[main] = b /\ asyncify_buf'[Idle] = ib
      /\ asyncify_buf'[Dummy] = asyncify_buf[Dummy]
      /\ \A t \in {main, Idle} : fresh'[t] = 1 /\ irq_lock_key'[t] = 0
  BY <1>1, <1>2 DEF z_cstart, TypeOK, Bit
<1>4. /\ saved' \in [AllBufs -> Chain] /\ saved'[b] = NoChain /\ saved'[ib] = NoChain
      /\ saved'[Scratch] = saved[Scratch]
  <2>1. NoChain \in Chain
    BY DEF NoChain, Chain, Threads, Fns, Points, Bit
  <2>2. saved' = [d \in AllBufs |-> IF d \in {b, ib} THEN NoChain ELSE saved[d]]
    BY DEF z_cstart, InitBufs
  <2> QED
    BY <1>1, <2>1, <2>2, BufAssumption DEF TypeOK, AllBufs
<1>5. TypeOK'
  BY <1>1, <1>2, <1>3, <1>4 DEF TypeOK
<1>6. KernelInv'
  BY <1>1, <1>2, <1>3, BufAssumption DEF BoardInv, KernelInv, InUse, BufOf
<1>7. SuspendedInv'
  BY <1>2, <1>3, <1>4 DEF SuspendedInv
<1>8. GuestInv'
  BY <1>1, <1>2, <1>4 DEF BoardInv, GuestInv, BufOf, Guest
<1>9. SwitchInv' /\ BetweenInv'
  BY <1>1, <1>2 DEF SwitchInv, BetweenInv, Guest
<1> QED
  BY <1>1, <1>2, <1>5, <1>6, <1>7, <1>8, <1>9 DEF IInv, BoardInv

(* injectIrq() between two steps and input_poll() within one touch only    *)
(* the latched lines.                                                      *)
LEMMA InjectInv ==
  ASSUME IInv, NEW l \in Lines, InjectIrq(l) \/ input_poll(l)
  PROVE  IInv'
<1>1. /\ UNCHANGED boardVars /\ TypeOK /\ (ended = "no" => BoardInv)
      /\ UNCHANGED <<guestVars, cur, contexts, traps, reboots, ended>>
      /\ external' = external \cup {l}
  BY DEF IInv, InjectIrq, input_poll, boardVars, guestVars, irqVars
<1>2. ended = "no" => BoardInv'
  BY <1>1, BoardFrame
<1>3. TypeOK'
  BY <1>1 DEF TypeOK, guestVars, irqVars, threadVars, timerVars
<1> QED
  BY <1>1, <1>2, <1>3 DEF IInv, boardVars

(* What IInv says between two steps about the context the next one enters. *)
LEMMA BetweenFacts ==
  ASSUME IInv, Between
  PROVE  /\ TypeOK /\ BoardInv /\ ended = "no" /\ live.who = None
         /\ cur.buf = BufOf(current) /\ cur.buf \in AllBufs
         /\ irq_masked = MaskAt(Running) /\ nested = IF Serving(Running) THEN 1 ELSE 0
         /\ cur.arg = current
         /\ cur.entry = IF current = Dummy THEN "z_wasm_boot" ELSE "z_wasm_thread_entry"
         /\ current # Dummy => fresh[current] = 0
         /\ \/ cur.fresh = 1 /\ saved[cur.buf] = NoChain
            \/ /\ cur.fresh = 0 /\ cur.sp = "unwound" /\ GoodChain(saved[cur.buf])
               /\ saved[cur.buf].who = current
               /\ saved[cur.buf].pt \in {"swap", "wait", "isr_wait"}
BY DEF IInv, Between, BoardInv, BetweenInv, KernelInv, InUse, BufOf, AllBufs

(* z_wasm_thread_entry() and z_wasm_boot() begin with a well-formed chain  *)
(* that holds no lock.                                                     *)
LEMMA EntryGood ==
  ASSUME NEW t \in Threads \cup {Dummy}
  PROVE  /\ Entry(t) \in Chain /\ GoodChain(Entry(t)) /\ ~Serving(Entry(t))
         /\ Entry(t).who = t /\ Entry(t).fn = "code" /\ Entry(t).pt = "body"
BY ThreadAssumption DEF Entry, Chain, GoodChain, LockKeys, Serving, Fns, Points, Bit, Threads

(* runStep() entering a fresh context or rewinding one: what comes back    *)
(* onto the stack is the current thread's chain, and the buffer is empty   *)
(* again.                                                                  *)
LEMMA RunStepInv == ASSUME IInv, RunStep PROVE IInv'
<1> USE DEF threadVars, timerVars
<1>1. Between
  BY DEF RunStep
<1>2. /\ live' = Running /\ cur' = [cur EXCEPT !.fresh = 0]
      /\ saved' = [saved EXCEPT ![cur.buf] = NoChain]
  <2>1. CASE cur.fresh = 1
    BY <1>1, <2>1, BetweenFacts DEF RunStep, Running, TypeOK
  <2>2. CASE cur.fresh # 1
    BY <1>1, <2>2, BetweenFacts DEF RunStep, Running
  <2> QED
    BY <2>1, <2>2
<1>3. /\ Running \in Chain /\ GoodChain(Running) /\ Running.who = current
      /\ Running.fn # "trap" /\ current \in Threads \cup {Dummy} /\ current # None
  <2>1. current \in Threads \cup {Dummy} /\ current # None
    BY <1>1, BetweenFacts, ThreadAssumption DEF TypeOK
  <2>2. CASE cur.fresh = 1
    BY <1>1, <2>1, <2>2, BetweenFacts, EntryGood DEF Running
  <2>3. CASE cur.fresh # 1
    <3>1. Running = saved[cur.buf] /\ Running \in Chain
      BY <1>1, <2>3, BetweenFacts DEF Running, TypeOK
    <3>2. GoodChain(Running) /\ Running.who = current
      BY <1>1, <2>3, <3>1, BetweenFacts
    <3>3. Running.fn # "trap"
      BY <3>2 DEF GoodChain, Threads
    <3> QED
      BY <2>1, <3>1, <3>2, <3>3
  <2> QED
    BY <2>2, <2>3
<1>4. /\ cur' \in Context /\ cur'.fresh = 0 /\ cur'.buf = cur.buf /\ cur'.arg = cur.arg
      /\ cur'.entry = cur.entry
  BY <1>1, <1>2, BetweenFacts DEF TypeOK, Context, Bit
<1>5. /\ saved' \in [AllBufs -> Chain] /\ saved'[cur.buf] = NoChain
      /\ \A d \in AllBufs \ {cur.buf} : saved'[d] = saved[d]
  <2>1. NoChain \in Chain
    BY DEF NoChain, Chain, Threads, Fns, Points, Bit
  <2> QED
    BY <1>1, <1>2, <2>1, BetweenFacts DEF TypeOK
<1>6. /\ UNCHANGED <<irq_masked, irq_enabled, nested, current, ready, alive,
                     threadVars, switch_block, timerVars, request, contexts,
                     traps, reboots, ended>>
      /\ irq_pending' \subseteq Lines /\ external' \subseteq Lines
  BY <1>1, BetweenFacts DEF RunStep, TypeOK
<1>7. TypeOK'
  BY <1>1, <1>2, <1>3, <1>4, <1>5, <1>6, BetweenFacts DEF TypeOK
<1>8. KernelInv'
  BY <1>1, <1>2, <1>3, <1>6, BetweenFacts DEF BoardInv, KernelInv, InUse, BufOf
<1>9. SuspendedInv'
  <2> SUFFICES ASSUME NEW u \in alive \ {current}
               PROVE  \/ fresh[u] = 1 /\ irq_lock_key[u] = 0 /\ saved'[asyncify_buf[u]] = NoChain
                      \/ fresh[u] = 0 /\ irq_lock_key[u] = 1 /\ Resumable(u)'
    BY <1>2, <1>3, <1>6 DEF SuspendedInv
  <2>1. u # Dummy /\ u # None
    BY <1>1, BetweenFacts, ThreadAssumption DEF TypeOK
  <2>2. asyncify_buf[u] \in AllBufs \ {cur.buf}
    BY <1>1, <2>1, BetweenFacts DEF BoardInv, KernelInv, InUse, BufOf, AllBufs
  <2>3. saved'[asyncify_buf[u]] = saved[asyncify_buf[u]]
    BY <1>5, <2>2
  <2> QED
    BY <1>1, <1>6, <2>1, <2>3, BetweenFacts DEF BoardInv, SuspendedInv, Resumable
<1>10. GuestInv'
  BY <1>1, <1>2, <1>3, <1>4, <1>5, <1>6, BetweenFacts DEF GuestInv, BufOf, Between
<1>11. SwitchInv' /\ BetweenInv'
  BY <1>1, <1>2, <1>3, <1>6 DEF SwitchInv, BetweenInv, Between
<1> QED
  BY <1>1, <1>6, <1>7, <1>8, <1>9, <1>10, <1>11, BetweenFacts DEF IInv, BoardInv

(* The steps that end the run leave nothing to say but types.              *)
LEMMA EndInv ==
  ASSUME TypeOK, TypeOK', ended' \notin {"no", "unknown_context"},
         live' = NoChain, request' = "none"
  PROVE  IInv'
BY DEF IInv, NoChain

(* The empty chain has the type of a chain.                                *)
LEMMA NoChainType == NoChain \in Chain
BY DEF NoChain, Chain, Threads, Fns, Points, Bit

(* checkBuffer() failing, the fatal import and checkDeadline() end the run.*)
LEMMA StopInv == ASSUME IInv, BufferOverflow \/ Halt \/ checkDeadline PROVE IInv'
<1>1. TypeOK
  BY DEF IInv
<1>2. TypeOK'
  BY <1>1, NoChainType DEF BufferOverflow, Halt, checkDeadline, TypeOK, irqVars, threadVars, timerVars
<1> QED
  BY <1>1, <1>2, EndInv DEF BufferOverflow, Halt, checkDeadline

(* Nothing changes once the run is over, or in a stuttering step.          *)
LEMMA OverInv == ASSUME IInv, UNCHANGED vars PROVE IInv'
<1> USE DEF vars, guestVars, hostVars, irqVars, threadVars, timerVars
<1>1. ended = "no" => BoardInv'
  BY BoardFrame DEF IInv, boardVars
<1>2. TypeOK'
  BY DEF IInv, TypeOK
<1> QED
  BY <1>1, <1>2 DEF IInv

(* A warm reboot starts from a new instance of the image, or ends the run  *)
(* when there have been too many.                                          *)
LEMMA RebootInv == ASSUME IInv, Reboot PROVE IInv'
<1> USE DEF irqVars, threadVars, timerVars
<1>1. TypeOK /\ ended = "no"
  BY DEF IInv, Reboot
<1>2. CASE reboots < MaxReboots
  <2>1. GuestReset /\ cur' = BootContext /\ UNCHANGED <<external, traps, ended>>
        /\ contexts' = [b \in AllBufs |-> NoContext] /\ alarm' = FALSE /\ reboots' \in Nat
    BY <1>1, <1>2 DEF Reboot, TypeOK
  <2>2. TypeOK'
    BY <1>1, <2>1, NoChainType
       DEF GuestReset, TypeOK, Bit, Context, BootContext, NoContext, AllBufs
  <2>3. /\ live'.who = None /\ request' = "none" /\ alive' = {} /\ ready' = {}
        /\ current' = Dummy /\ asyncify_buf'[Dummy] = NoBuf /\ irq_masked' = 1 /\ nested' = 0
        /\ saved'[Scratch] = NoChain
    BY <2>1 DEF GuestReset, NoChain, AllBufs
  <2>4. cur' = [entry |-> "z_wasm_boot", arg |-> Dummy, buf |-> Scratch,
                sp |-> "created", fresh |-> 1]
    BY <2>1 DEF BootContext
  <2>5. KernelInv' /\ SuspendedInv' /\ GuestInv' /\ SwitchInv'
    BY <2>3 DEF KernelInv, SuspendedInv, GuestInv, SwitchInv, InUse, BufOf
  <2>6. BetweenInv'
    <3>1. Running' = Entry(Dummy)
      BY <2>3, <2>4 DEF Running
    <3>2. MaskAt(Entry(Dummy)) = 1 /\ ~Serving(Entry(Dummy))
      BY DEF MaskAt, Serving, LockMask, Entry
    <3> QED
      BY <2>3, <2>4, <3>1, <3>2 DEF BetweenInv, BufOf
  <2> QED
    BY <1>1, <2>1, <2>2, <2>3, <2>5, <2>6 DEF IInv, BoardInv
<1>3. CASE ~(reboots < MaxReboots)
  <2>1. TypeOK'
    BY <1>1, <1>3, NoChainType DEF Reboot, TypeOK
  <2> QED
    BY <1>1, <1>3, <2>1, EndInv DEF Reboot
<1> QED
  BY <1>2, <1>3

(* raiseTrap() and z_wasm_trap(): the trapped thread is aborted and        *)
(* switched away from with the count at zero, or the run ends.             *)
LEMMA RaiseTrapInv == ASSUME IInv, RaiseTrap PROVE IInv'
<1> USE DEF timerVars
<1>1. /\ TypeOK /\ BoardInv /\ ended = "no" /\ request = "trap" /\ live.who # None
      /\ live.who = current /\ cur.fresh = 0 /\ cur.buf = BufOf(current)
      /\ saved[cur.buf] = NoChain /\ cur \in Context
  BY DEF RaiseTrap, IInv, BoardInv, GuestInv, SwitchInv, TypeOK
<1>2. [saved EXCEPT ![cur.buf] = NoChain] = saved
  BY <1>1 DEF TypeOK
<1> DEFINE tc == [cur EXCEPT !.entry = "z_wasm_trap", !.arg = Dummy]
<1>3. tc \in Context /\ tc.buf = cur.buf /\ tc.fresh = cur.fresh /\ traps + 1 \in Nat
  <2>1. traps + 1 \in Nat
    BY <1>1 DEF TypeOK
  <2>2. tc \in Context /\ tc.buf = cur.buf /\ tc.fresh = cur.fresh
    BY <1>1 DEF Context
  <2> QED
    BY <2>1, <2>2
<1> HIDE DEF tc
<1>4. CASE /\ traps' = traps + 1 /\ saved' = [saved EXCEPT ![cur.buf] = NoChain]
           /\ cur' = tc
           /\ current \in App /\ z_wasm_trap /\ UNCHANGED ended
  <2> DEFINE c == [Entry(current) EXCEPT !.fn = "trap"]
  <2>1. current # Dummy /\ current \in Threads
    BY <1>4, ThreadAssumption DEF Threads
  <2>2. PICK to \in Candidates(ready \ {current}) : Swap(c, irq_masked, to)
    BY <1>1, <1>4 DEF z_wasm_trap
  <2>3. c \in Chain /\ c.who = current /\ c.fn = "trap"
    BY <2>1, EntryGood DEF Entry, Chain, Fns
  <2>4. to \in alive /\ to # current
    BY <1>1, <1>4, <2>1, <2>2, CandidatesAlive, ThreadAssumption DEF Candidates
  <2>5. cur' \in Context /\ cur'.buf = cur.buf /\ cur'.fresh = cur.fresh /\ traps' \in Nat
    BY <1>4, <1>3
  <2>6. /\ alive' = alive \ {current} /\ ready' \subseteq alive' \cap App /\ nested' = 0
        /\ irq_masked \in Bit
    BY <1>1, <1>4 DEF z_wasm_trap, TypeOK, BoardInv, KernelInv
  <2>7. UNCHANGED <<irq_pending, irq_enabled, asyncify_buf, saved, timerVars,
                    contexts, external, reboots, ended>>
    BY <1>2, <1>4 DEF RaiseTrap
  <2> HIDE DEF c
  <2> QED
    BY <1>1, <1>4, <2>1, <2>2, <2>3, <2>4, <2>5, <2>6, <2>7, SwapInv
<1>5. CASE ended' \in {"fatal", "trap"} /\ live' = NoChain /\ request' = "none"
  <2>1. cur' \in Context /\ traps' \in Nat /\ saved' = saved
    BY <1>1, <1>2, <1>5, <1>3 DEF RaiseTrap, TypeOK, tc
  <2>2. UNCHANGED <<irq_masked, nested, current, ready, alive, irq_lock_key, fresh,
                    switch_block>>
    BY <1>1, <1>5, ThreadAssumption DEF RaiseTrap, z_wasm_trap, Swap, z_wasm_switch
  <2>3. TypeOK'
    BY <1>1, <1>5, <2>1, <2>2, NoChainType DEF RaiseTrap, TypeOK
  <2> QED
    BY <1>1, <1>5, <2>3, EndInv
<1> QED
  BY <1>4, <1>5 DEF RaiseTrap, tc

(* suspend() unwinds the chain of live.who into its own buffer and keeps   *)
(* the context under it; every other buffer and context is as it was.      *)
LEMMA UnwindFacts ==
  ASSUME TypeOK, BoardInv, live.who # None, Unwind(cur.buf)
  PROVE  /\ cur.buf \in AllBufs /\ cur.buf = BufOf(live.who) /\ cur.fresh = 0
         /\ live' = NoChain /\ request' = "none"
         /\ saved' \in [AllBufs -> Chain] /\ saved'[cur.buf] = live
         /\ \A d \in AllBufs \ {cur.buf} : saved'[d] = saved[d]
         /\ contexts' \in [AllBufs -> Context]
         /\ contexts'[cur.buf] = [cur EXCEPT !.sp = "unwound"]
         /\ \A d \in AllBufs \ {cur.buf} : contexts'[d] = contexts[d]
         /\ [cur EXCEPT !.sp = "unwound"] \in Context
<1>1. cur.buf = BufOf(live.who) /\ cur.fresh = 0 /\ cur.buf \in AllBufs
  BY DEF BoardInv, GuestInv, KernelInv, BufOf, InUse, AllBufs
<1>2. /\ [cur EXCEPT !.buf = cur.buf, !.sp = "unwound"] = [cur EXCEPT !.sp = "unwound"]
      /\ [cur EXCEPT !.sp = "unwound"] \in Context
  BY DEF TypeOK, Context
<1>3. /\ saved' = [saved EXCEPT ![cur.buf] = live]
      /\ contexts' = [contexts EXCEPT ![cur.buf] = [cur EXCEPT !.sp = "unwound"]]
  BY <1>2 DEF Unwind
<1> QED
  BY <1>1, <1>2, <1>3 DEF Unwind, TypeOK

(* The idle half of step(): the thread that waits is the one the next step *)
(* rewinds.                                                                *)
LEMMA StepIdleInv == ASSUME IInv, StepIdle PROVE IInv'
<1> USE DEF threadVars
<1>1. /\ TypeOK /\ BoardInv /\ ended = "no" /\ live.who # None /\ request = "wait"
      /\ live.who = current /\ live.fn # "trap" /\ GoodChain(live)
      /\ irq_masked = MaskAt(live) /\ nested = IF Serving(live) THEN 1 ELSE 0
      /\ live.pt \in {"wait", "isr_wait"} /\ cur.arg = current
      /\ cur.entry = IF current = Dummy THEN "z_wasm_boot" ELSE "z_wasm_thread_entry"
      /\ current # Dummy => fresh[current] = 0
  BY DEF StepIdle, IInv, BoardInv, GuestInv, SwitchInv
<1>2. Unwind(cur.buf) /\ cur' = [cur EXCEPT !.sp = "unwound"]
  BY DEF StepIdle
<1>3. /\ irq_pending' \subseteq Lines /\ alarm' \in BOOLEAN /\ external' \subseteq Lines
      /\ ended' \in {"no", "finished"}
      /\ UNCHANGED <<irq_masked, irq_enabled, nested, current, ready, alive,
                     threadVars, switch_block, timer_alarm, traps, reboots>>
  BY <1>1, LineAssumption DEF StepIdle, TypeOK
<1>4. TypeOK'
  BY <1>1, <1>2, <1>3, UnwindFacts, NoChainType DEF TypeOK
<1>5. CASE ended' = "finished"
  BY <1>1, <1>2, <1>4, <1>5, UnwindFacts, EndInv
<1>6. CASE ended' = "no"
  <2>1. live'.who = None /\ request' = "none" /\ live' = NoChain
    BY <1>1, <1>2, UnwindFacts DEF NoChain
  <2>2. KernelInv'
    BY <1>1, <1>3, <2>1 DEF BoardInv, KernelInv, InUse, BufOf
  <2>3. SuspendedInv'
    <3> SUFFICES ASSUME NEW u \in alive \ {current}
                 PROVE  \/ fresh[u] = 1 /\ irq_lock_key[u] = 0 /\ saved'[asyncify_buf[u]] = NoChain
                        \/ fresh[u] = 0 /\ irq_lock_key[u] = 1 /\ Resumable(u)'
      BY <1>3, <2>1 DEF SuspendedInv
    <3>1. u # Dummy /\ u # None
      BY <1>1, ThreadAssumption DEF TypeOK
    <3>2. asyncify_buf[u] \in AllBufs \ {cur.buf}
      BY <1>1, <1>2, <3>1, UnwindFacts DEF BoardInv, KernelInv, InUse, BufOf, AllBufs
    <3>3. /\ saved'[asyncify_buf[u]] = saved[asyncify_buf[u]]
          /\ contexts'[asyncify_buf[u]] = contexts[asyncify_buf[u]]
      BY <1>1, <1>2, <3>2, UnwindFacts
    <3> QED
      BY <1>1, <1>3, <3>1, <3>3 DEF BoardInv, SuspendedInv, Resumable
  <2>4. GuestInv' /\ SwitchInv'
    BY <2>1 DEF GuestInv, SwitchInv
  <2>5. BetweenInv'
    <3>1. /\ cur'.fresh = 0 /\ cur'.sp = "unwound" /\ cur'.buf = cur.buf
          /\ cur'.arg = cur.arg /\ cur'.entry = cur.entry
      BY <1>1, <1>2, UnwindFacts DEF TypeOK, Context
    <3>2. saved'[cur'.buf] = live /\ cur'.buf = BufOf(current)'
      BY <1>1, <1>2, <1>3, <3>1, UnwindFacts DEF BufOf
    <3>3. Running' = live
      BY <2>1, <3>1, <3>2 DEF Running
    <3> QED
      BY <1>1, <1>3, <2>1, <3>1, <3>2, <3>3 DEF BetweenInv
  <2> QED
    BY <1>4, <1>6, <2>2, <2>3, <2>4, <2>5 DEF IInv, BoardInv
<1> QED
  BY <1>3, <1>5, <1>6

(* The switch half of step(): the outgoing thread becomes resumable, and   *)
(* the next context is the incoming thread's.                              *)
LEMMA StepSwitchInv == ASSUME IInv, StepSwitch PROVE IInv'
<1> USE DEF irqVars, threadVars, timerVars
<1>1. /\ TypeOK /\ BoardInv /\ ended = "no" /\ live.who # None /\ request = "switch"
      /\ live.pt = "swap" /\ live.who # current /\ current \in alive /\ nested = 0
      /\ live.who \in alive => /\ fresh[live.who] = 0 /\ irq_lock_key[live.who] = 1
                               /\ live.fn # "trap"
      /\ switch_block.from_buf = asyncify_buf[live.who]
      /\ switch_block.to_buf = asyncify_buf[current]
      /\ switch_block.to_arg = current /\ fresh[current] = 0
  BY DEF StepSwitch, IInv, BoardInv, GuestInv, SwitchInv
<1>2. /\ current \in Threads /\ current # Dummy /\ live.who \in Threads \cup {Dummy}
      /\ alive \subseteq Threads
  BY <1>1, ThreadAssumption DEF TypeOK, Chain
<1>3. /\ asyncify_buf[current] \in Bufs /\ asyncify_buf[current] # cur.buf
      /\ asyncify_buf[current] \in AllBufs
  BY <1>1, <1>2 DEF BoardInv, KernelInv, GuestInv, InUse, BufOf, AllBufs
<1>4. Unwind(cur.buf)
  BY <1>1, <1>2, BufAssumption
     DEF StepSwitch, BoardInv, KernelInv, GuestInv, InUse, BufOf, AllBufs
<1>5. /\ UNCHANGED <<irqVars, current, ready, alive, threadVars, switch_block,
                     timerVars, external, traps, reboots>>
      /\ live' = NoChain /\ live'.who = None /\ request' = "none"
  BY <1>1, <1>4, UnwindFacts DEF StepSwitch, NoChain
<1>6. /\ saved'[asyncify_buf[current]] = saved[asyncify_buf[current]]
      /\ contexts'[asyncify_buf[current]] = contexts[asyncify_buf[current]]
  BY <1>1, <1>3, <1>4, UnwindFacts
<1>7. /\ cur' \in Context /\ ended' = "no" /\ cur'.buf = asyncify_buf[current]
      /\ cur'.arg = current /\ cur'.entry = "z_wasm_thread_entry"
      /\ irq_masked = MaskAt(Running') /\ ~Serving(Running')
      /\ \/ cur'.fresh = 1 /\ saved'[asyncify_buf[current]] = NoChain
         \/ /\ cur'.fresh = 0 /\ cur'.sp = "unwound"
            /\ GoodChain(saved'[asyncify_buf[current]])
            /\ saved'[asyncify_buf[current]].who = current
            /\ saved'[asyncify_buf[current]].pt = "swap"
  <2>1. CASE switch_block.to_fresh = 1
    <3>1. cur' = [entry |-> "z_wasm_thread_entry", arg |-> current,
                  buf |-> asyncify_buf[current], sp |-> "created", fresh |-> 1]
          /\ ended' = "no"
      BY <1>1, <2>1 DEF StepSwitch
    <3>2. irq_masked = 0 /\ saved[asyncify_buf[current]] = NoChain
      BY <1>1, <2>1 DEF BoardInv, SwitchInv
    <3>3. Running' = Entry(current)
      BY <1>5, <3>1 DEF Running
    <3>4. MaskAt(Entry(current)) = 0 /\ ~Serving(Entry(current))
      BY <1>2 DEF MaskAt, Serving, LockMask, Entry
    <3>5. cur' \in Context
      BY <1>2, <1>3, <3>1 DEF Context, Bit
    <3> QED
      BY <1>6, <3>1, <3>2, <3>3, <3>4, <3>5
  <2>2. CASE switch_block.to_fresh # 1
    <3>1. irq_masked = 1 /\ Resumable(current)
      BY <1>1, <2>2 DEF BoardInv, SwitchInv
    <3>2. contexts'[asyncify_buf[current]] =
            [entry |-> "z_wasm_thread_entry", arg |-> current,
             buf |-> asyncify_buf[current], sp |-> "unwound", fresh |-> 0]
      BY <1>6, <3>1 DEF Resumable
    <3>3. cur' = contexts'[asyncify_buf[current]] /\ ended' = "no"
      BY <1>1, <2>2, <3>2 DEF StepSwitch, NoContext
    <3>4. /\ cur'.fresh = 0 /\ cur'.sp = "unwound" /\ cur'.buf = asyncify_buf[current]
          /\ cur'.arg = current /\ cur'.entry = "z_wasm_thread_entry"
      BY <3>2, <3>3
    <3>5. Running' = saved[asyncify_buf[current]]
      BY <1>5, <1>6, <3>4 DEF Running
    <3>6. /\ GoodChain(saved[asyncify_buf[current]])
          /\ saved[asyncify_buf[current]].who = current
          /\ saved[asyncify_buf[current]].pt = "swap"
      BY <3>1 DEF Resumable
    <3>7. MaskAt(saved[asyncify_buf[current]]) = 1 /\ ~Serving(saved[asyncify_buf[current]])
      BY <3>6 DEF MaskAt, Serving
    <3>8. cur' \in Context
      BY <1>2, <1>3, <3>2, <3>3 DEF Context, Bit
    <3> QED
      BY <1>6, <3>1, <3>3, <3>4, <3>5, <3>6, <3>7, <3>8
  <2> QED
    BY <2>1, <2>2
<1>8. TypeOK'
  BY <1>1, <1>4, <1>5, <1>7, UnwindFacts, NoChainType DEF TypeOK
<1>9. KernelInv'
  BY <1>1, <1>5 DEF BoardInv, KernelInv, InUse, BufOf
<1>10. SuspendedInv'
  <2> SUFFICES ASSUME NEW u \in alive \ {current}
               PROVE  \/ fresh[u] = 1 /\ irq_lock_key[u] = 0 /\ saved'[asyncify_buf[u]] = NoChain
                      \/ fresh[u] = 0 /\ irq_lock_key[u] = 1 /\ Resumable(u)'
    BY <1>5 DEF SuspendedInv
  <2>1. u # Dummy /\ u # None
    BY <1>2, ThreadAssumption
  <2>2. CASE u = live.who
    <3>1. asyncify_buf[u] = cur.buf
      BY <1>1, <1>4, <2>1, <2>2, UnwindFacts DEF BufOf
    <3>2. GoodChain(live) /\ cur.arg = u /\ cur.entry = "z_wasm_thread_entry"
          /\ cur.fresh = 0 /\ cur \in Context
      BY <1>1, <2>1, <2>2 DEF BoardInv, GuestInv, TypeOK
    <3>3. [cur EXCEPT !.sp = "unwound"] =
            [entry |-> "z_wasm_thread_entry", arg |-> u, buf |-> asyncify_buf[u],
             sp |-> "unwound", fresh |-> 0]
      BY <3>1, <3>2 DEF Context
    <3>4. saved'[asyncify_buf[u]] = live
          /\ contexts'[asyncify_buf[u]] = [cur EXCEPT !.sp = "unwound"]
      BY <1>1, <1>4, <3>1, UnwindFacts
    <3>5. Resumable(u)'
      BY <1>1, <1>5, <2>2, <3>2, <3>3, <3>4 DEF Resumable
    <3> QED
      BY <1>1, <2>2, <3>5
  <2>3. CASE u # live.who
    <3>1. asyncify_buf[u] \in AllBufs \ {cur.buf}
      BY <1>1, <1>4, <2>1, <2>3, UnwindFacts DEF BoardInv, KernelInv, InUse, BufOf, AllBufs
    <3>2. /\ saved'[asyncify_buf[u]] = saved[asyncify_buf[u]]
          /\ contexts'[asyncify_buf[u]] = contexts[asyncify_buf[u]]
      BY <1>1, <1>4, <3>1, UnwindFacts
    <3> QED
      BY <1>1, <1>5, <2>3, <3>2 DEF BoardInv, SuspendedInv, Resumable
  <2> QED
    BY <2>2, <2>3
<1>11. GuestInv' /\ SwitchInv'
  BY <1>5 DEF GuestInv, SwitchInv
<1>12. BetweenInv'
  BY <1>1, <1>2, <1>5, <1>7 DEF BetweenInv, BufOf
<1> QED
  BY <1>7, <1>8, <1>9, <1>10, <1>11, <1>12 DEF IInv, BoardInv

-----------------------------------------------------------------------------
(* The invariant is inductive: one case per disjunct of Next.              *)
LEMMA StepInv == ASSUME IInv, [Next]_vars PROVE IInv'
<1>1. CASE GuestNext /\ UNCHANGED hostVars
  BY <1>1, SwitchToMainInv, SwapReturnInv, DispatchInv, IsrReturnInv, AfterDispatchInv,
     IdleInv, AtomicIdleInv, WaitReturnInv, BusyWaitInv, BusyWaitMaskedInv, LockInv,
     UnlockInv, OffloadInv, OffloadReturnInv, BlockInv, YieldInv, SafepointInv,
     DriverInv, SchedulerInv, NewThreadInv, CstartInv
     DEF GuestNext
<1>2. CASE HostNext
  BY <1>2, RunStepInv, StepSwitchInv, StepIdleInv, StopInv, RaiseTrapInv, RebootInv
     DEF HostNext
<1>3. CASE \E l \in Lines \ {Timer} : InjectIrq(l) \/ input_poll(l)
  BY <1>3, InjectInv
<1>4. CASE checkDeadline
  BY <1>4, StopInv
<1>5. CASE Over \/ UNCHANGED vars
  BY <1>5, OverInv DEF Over
<1> QED
  BY <1>1, <1>2, <1>3, <1>4, <1>5 DEF Next

(* Every behaviour of the port keeps the board in order: the frames,       *)
(* contexts and masks of suspended threads are where step() and            *)
(* z_wasm_switch() will look for them.                                     *)
THEOREM Invariance == Spec => []IInv
<1>1. Init => IInv
  BY InitInv
<1>2. IInv /\ [Next]_vars => IInv'
  BY StepInv
<1> QED
  BY <1>1, <1>2, PTL DEF Spec

(* The guest's words, the host's bookkeeping and every call chain keep     *)
(* their types; in particular the interrupt mask stays a bit however locks *)
(* nest.                                                                   *)
THEOREM TypeCorrect == Spec => []TypeOK
<1>1. IInv => TypeOK
  BY DEF IInv
<1> QED
  BY <1>1, Invariance, PTL

(* For any set of lines and threads, no interrupt handler runs inside      *)
(* another: z_wasm_irq_dispatch() masks and counts each, and nothing a     *)
(* handler does (safepoints, busy-waits that suspend, traps) undoes        *)
(* either.                                                                 *)
THEOREM NoNesting == Spec => []HandlersDoNotNest
<1>1. IInv => HandlersDoNotNest
  <2> SUFFICES ASSUME IInv, ended = "no" PROVE HandlersDoNotNest
    BY DEF HandlersDoNotNest
  <2>1. CASE live.who # None /\ request # "switch"
    <3>1. Running = live
      BY <2>1 DEF Running
    <3> QED
      BY <2>1, <3>1 DEF IInv, BoardInv, GuestInv, HandlersDoNotNest, MaskAt
  <2>2. CASE live.who # None /\ request = "switch"
    <3>1. Running = live
      BY <2>2 DEF Running
    <3> QED
      BY <2>2, <3>1 DEF IInv, BoardInv, SwitchInv, HandlersDoNotNest, Serving
  <2>3. CASE live.who = None
    BY <2>3 DEF IInv, BoardInv, BetweenInv, HandlersDoNotNest, MaskAt
  <2> QED
    BY <2>1, <2>2, <2>3
<1> QED
  BY <1>1, Invariance, PTL

(* Thread code always runs with the mask its own arch_irq_lock() calls ask *)
(* for, whatever other threads did while z_wasm_switch() had it switched   *)
(* out.                                                                    *)
THEOREM MaskOwned == Spec => []MaskFollowsThread
<1>1. IInv => MaskFollowsThread
  <2> SUFFICES ASSUME IInv, Guest PROVE MaskFollowsThread
    BY DEF MaskFollowsThread, InThread
  <2> QED
    BY GuestFacts, ThreadAssumption
       DEF MaskFollowsThread, InThread, GoodChain, MaskAt, LockMask, Serving, Threads
<1> QED
  BY <1>1, Invariance, PTL

(* step() always rewinds the frames of the thread the kernel made current, *)
(* at the stack pointer they were unwound with, and never finds its        *)
(* context missing.                                                        *)
THEOREM OwnFrames == Spec => []ResumesOwnFrames
<1>1. IInv => ResumesOwnFrames
  <2> SUFFICES ASSUME IInv PROVE ResumesOwnFrames
    OBVIOUS
  <2>1. ended # "unknown_context"
    BY DEF IInv
  <2>2. ASSUME Between
        PROVE  /\ Running.who = current
               /\ cur.fresh = 0 =>
                    /\ cur.sp = "unwound"
                    /\ cur.entry = IF current = Dummy THEN "z_wasm_boot"
                                                      ELSE "z_wasm_thread_entry"
    <3>1. current \in Threads \cup {Dummy}
      BY <2>2, BetweenFacts DEF TypeOK
    <3> QED
      BY <2>2, <3>1, BetweenFacts, EntryGood DEF Running
  <2>3. ended = "no" /\ request \notin {"none", "switch"} => live.who = current
    BY DEF IInv, BoardInv, GuestInv, SwitchInv
  <2> QED
    BY <2>1, <2>2, <2>3 DEF ResumesOwnFrames
<1> QED
  BY <1>1, Invariance, PTL

(* suspend() always finds the Asyncify buffer it unwinds into empty, also  *)
(* when a stack object has been reused or its last owner was aborted or    *)
(* trapped.                                                                *)
THEOREM EmptyBuffer == Spec => []UnwindsIntoEmptyBuffer
<1>1. IInv => UnwindsIntoEmptyBuffer
  <2> SUFFICES ASSUME IInv, request \in {"switch", "wait"} PROVE UnwindsIntoEmptyBuffer
    BY DEF UnwindsIntoEmptyBuffer
  <2>1. /\ BoardInv /\ live.who # None /\ saved[cur.buf] = NoChain
        /\ cur.buf = BufOf(live.who)
    BY DEF IInv, BoardInv, GuestInv, SwitchInv
  <2>2. request = "switch" /\ switch_block.from_buf # NoBuf => switch_block.from_buf = cur.buf
    BY <2>1 DEF BoardInv, SwitchInv, KernelInv, BufOf
  <2> QED
    BY <2>1, <2>2 DEF UnwindsIntoEmptyBuffer
<1> QED
  BY <1>1, Invariance, PTL

=============================================================================
