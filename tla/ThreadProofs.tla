---------------------------- MODULE ThreadProofs ----------------------------
(***************************************************************************)
(* The board implements ThreadMachine: what Asyncify, the port's switch    *)
(* and the host's contexts do together is what a machine with threads      *)
(* does, for every set of threads, stacks and lines.                       *)
(*                                                                         *)
(* IInv says where the frames and the mask of each thread are kept.  Each  *)
(* lemma takes one way an action moves them and shows that every thread    *)
(* but the running one is left alone, started or ended.                    *)
(***************************************************************************)
EXTENDS HostLoopProofs

AllThreads == Threads \cup {Dummy}

(* A thread's chain and mask, wherever they are kept, do not change. *)
Same(t) == ThreadChain(t)' = ThreadChain(t) /\ ThreadMask(t)' = ThreadMask(t)

(* What Machine!Step asks of one thread that is not running. *)
Allowed(t) ==
  \/ Same(t)
  \/ ThreadChain(t) = NoChain /\ ThreadChain(t)' = Entry(t) /\ ThreadMask(t)' = 0
  \/ ThreadChain(t)' = NoChain

(* The refinement mapping, thread by thread: enough for a step of the      *)
(* machine.                                                                *)
LEMMA MachineStep ==
  ASSUME current' \in AllThreads,
         \A t \in AllThreads \ {current} : Allowed(t),
         \A t \in AllThreads \ {current} :
           t = current' => Same(t) /\ ThreadChain(t) # NoChain
  PROVE  Machine!Step
BY DEF Machine!Step, Machine!LeftAlone, Machine!Started, Machine!Ended, Allowed, Same, AllThreads

(* When every thread is left alone and the same one runs, the machine      *)
(* stutters.                                                               *)
LEMMA MachineStutter ==
  ASSUME current' = current, \A t \in AllThreads : Same(t)
  PROVE  UNCHANGED Machine!mvars
<1>1. [t \in AllThreads |-> ThreadChain(t)]' = [t \in AllThreads |-> ThreadChain(t)]
  BY DEF Same
<1>2. [t \in AllThreads |-> ThreadMask(t)]' = [t \in AllThreads |-> ThreadMask(t)]
  BY DEF Same
<1> QED
  BY <1>1, <1>2 DEF Machine!mvars, AllThreads

(* The dummy thread is entered by boot() and never by a switch that calls  *)
(* it fresh.                                                               *)
DummyInv == IInv /\ fresh[Dummy] = 0

(* boot() enters the dummy thread, with its entry frames; no other exists. *)
LEMMA InitMachine == Init => Machine!MInit
<1> SUFFICES ASSUME Init PROVE Machine!MInit
  OBVIOUS
<1>1. \A t \in AllThreads : ThreadChain(t) = IF t = Dummy THEN Entry(t) ELSE NoChain
  BY ThreadAssumption
     DEF Init, GuestInit, ThreadChain, NotEntered, NoChain, Threads, BootContext, AllThreads
<1>2. ThreadMask(Dummy) = 1
  BY DEF Init, GuestInit, ThreadMask
<1> QED
  BY <1>1, <1>2 DEF Machine!MInit, Init, GuestInit, AllThreads

(* The same after a warm reboot: the machine is reset. *)
LEMMA RebootMachine ==
  ASSUME GuestReset, cur' = BootContext
  PROVE  Machine!Reset
<1>1. \A t \in AllThreads : ThreadChain(t)' = IF t = Dummy THEN Entry(t) ELSE NoChain
  BY ThreadAssumption
     DEF GuestReset, ThreadChain, NotEntered, NoChain, Threads, BootContext, AllThreads
<1>2. ThreadMask(Dummy)' = 1
  BY DEF GuestReset, ThreadMask
<1> QED
  BY <1>1, <1>2 DEF Machine!Reset, GuestReset, AllThreads

-----------------------------------------------------------------------------
(* The dummy thread's word is written by z_wasm_switch(), which clears it, *)
(* and by z_cstart() and arch_new_thread(), which write other threads'.    *)
LEMMA DummyStep ==
  ASSUME DummyInv, [Next]_vars
  PROVE  fresh'[Dummy] = 0
<1> USE ThreadAssumption DEF Threads
<1>1. TypeOK /\ IInv
  BY DEF DummyInv, IInv
<1>2. \A c, key, to : Swap(c, key, to) => fresh'[Dummy] = 0
  BY <1>1 DEF Swap, z_wasm_switch, DummyInv, TypeOK
<1>3. fresh' = fresh => fresh'[Dummy] = 0
  BY DEF DummyInv
<1>4. CASE GuestNext /\ UNCHANGED hostVars
  <2> USE <1>2, <1>3 DEF threadVars
  <2>1. ASSUME SwitchToMain \/ SwapReturn \/ z_wasm_irq_dispatch \/ IsrReturn
        PROVE  fresh'[Dummy] = 0
    BY <2>1 DEF SwitchToMain, SwapReturn, z_wasm_irq_dispatch, IsrReturn
  <2>2. ASSUME NEW c, Reschedule(c) PROVE fresh'[Dummy] = 0
    BY <2>2 DEF Reschedule
  <2>3. ASSUME AfterDispatch \/ Yield PROVE fresh'[Dummy] = 0
    BY <2>2, <2>3 DEF AfterDispatch, Yield
  <2>4. ASSUME \/ arch_cpu_idle \/ arch_cpu_atomic_idle \/ WaitReturn
               \/ BusyWaitStart \/ BusyWaitTurn \/ BusyWaitEnd \/ BusyWaitMasked
               \/ arch_irq_lock \/ arch_irq_unlock \/ arch_irq_offload \/ OffloadReturn
        PROVE  fresh'[Dummy] = 0
    BY <2>4 DEF arch_cpu_idle, arch_cpu_atomic_idle, WaitReturn, BusyWaitStart, BusyWaitTurn,
                BusyWaitEnd, BusyWaitMasked, arch_irq_lock, arch_irq_unlock,
                arch_irq_offload, OffloadReturn
  <2>5. ASSUME Block \/ AbortSelf \/ AbortInterrupted PROVE fresh'[Dummy] = 0
    BY <2>5 DEF Block, AbortSelf, AbortInterrupted
  <2>6. ASSUME NEW x, \/ z_wasm_safepoint(x) \/ sys_clock_set_timeout(x) \/ Leave(x)
                      \/ Wake(x) \/ Abort(x)
                      \/ z_wasm_irq_enable(x) \/ z_wasm_irq_disable(x) \/ z_wasm_irq_raise(x)
        PROVE  fresh'[Dummy] = 0
    BY <2>6 DEF z_wasm_safepoint, sys_clock_set_timeout, Leave, Wake, Abort,
                z_wasm_irq_enable, z_wasm_irq_disable, z_wasm_irq_raise
  <2>7. ASSUME NEW t \in App, NEW b, NEW ib, arch_new_thread(t, b) \/ z_cstart(t, b, ib)
        PROVE  fresh'[Dummy] = 0
    BY <1>1, <2>7 DEF arch_new_thread, z_cstart, DummyInv, TypeOK
  <2> QED
    BY <1>4, <2>1, <2>3, <2>4, <2>5, <2>6, <2>7 DEF GuestNext
<1>5. CASE HostNext
  <2>1. ASSUME RunStep \/ StepSwitch \/ StepIdle \/ BufferOverflow \/ Halt
        PROVE  fresh'[Dummy] = 0
    BY <1>3, <2>1 DEF RunStep, StepSwitch, StepIdle, BufferOverflow, Halt, threadVars
  <2>2. CASE RaiseTrap
    BY <1>2, <1>3, <2>2 DEF RaiseTrap, z_wasm_trap
  <2>3. CASE Reboot
    BY <1>3, <2>3 DEF Reboot, GuestReset, threadVars
  <2> QED
    BY <1>5, <2>1, <2>2, <2>3 DEF HostNext
<1>6. CASE checkDeadline \/ Over \/ UNCHANGED vars
  BY <1>3, <1>6 DEF checkDeadline, Over, vars, guestVars, threadVars
<1>7. ASSUME NEW l \in Lines, InjectIrq(l) \/ input_poll(l) PROVE fresh'[Dummy] = 0
  BY <1>3, <1>7 DEF InjectIrq, input_poll, guestVars, threadVars
<1> QED
  BY <1>4, <1>5, <1>6, <1>7 DEF Next
-----------------------------------------------------------------------------
(* A step inside one thread (its calls, its locks, the dispatcher and the  *)
(* handlers that run on its stack) reaches no other thread.                *)
LEMMA StayMachine ==
  ASSUME Guest, UNCHANGED stayVars, live'.who = live.who, live.who = current,
         request' # "switch", current \in AllThreads
  PROVE  Machine!Step
<1>1. \A t \in AllThreads \ {current} : Same(t)
  BY DEF Guest, stayVars, hostVars, threadVars, Same, ThreadChain, ThreadMask, NotEntered
<1> QED
  BY <1>1, MachineStep DEF stayVars, Allowed

(* Steps that leave every chain and every key where it is, and at most     *)
(* take threads from the kernel's set of living ones: those end.           *)
LEMMA EndMachine ==
  ASSUME UNCHANGED <<current, threadVars, switch_block, saved, live, request, cur>>,
         alive' \subseteq alive, current \in AllThreads
  PROVE  Machine!Step
<1>1. \A t \in AllThreads \ {current} : Allowed(t)
  BY DEF threadVars, Allowed, Same, ThreadChain, ThreadMask, NotEntered
<1> QED
  BY <1>1, MachineStep

(* arch_new_thread() and z_cstart(): threads that did not exist start at   *)
(* their entry with interrupts open, on stacks that nobody else is using.  *)
LEMMA CreateMachine ==
  ASSUME IInv, Guest, NEW N, NEW B,
         N \cap (alive \cup {current}) = {}, N \subseteq Threads,
         \A u \in (alive \cup {current}) \ {Dummy} : asyncify_buf[u] \notin B,
         Scratch \notin B,
         UNCHANGED <<current, switch_block, live, request, cur>>,
         alive' = alive \cup N,
         \A t \in AllThreads \ N : /\ asyncify_buf'[t] = asyncify_buf[t]
                                   /\ fresh'[t] = fresh[t]
                                   /\ irq_lock_key'[t] = irq_lock_key[t],
         \A t \in N : fresh'[t] = 1 /\ irq_lock_key'[t] = 0,
         \A b \in AllBufs \ B : saved'[b] = saved[b]
  PROVE  Machine!Step
<1>1. TypeOK /\ BoardInv /\ live.who = current /\ current \in AllThreads
  BY GuestFacts DEF TypeOK, AllThreads
<1>2. ASSUME NEW t \in N PROVE Allowed(t)
  BY <1>1, <1>2 DEF Guest, Allowed, ThreadChain, ThreadMask, NotEntered
<1>3. ASSUME NEW t \in AllThreads \ {current}, t \notin N PROVE Same(t)
  <2>1. CASE t \notin alive
    BY <1>3, <2>1 DEF Same, ThreadChain, ThreadMask
  <2>2. CASE t \in alive
    <3>1. t # Dummy /\ asyncify_buf[t] \in AllBufs \ B
      BY <1>1, <2>2, ThreadAssumption DEF TypeOK, BoardInv, KernelInv, InUse, AllBufs
    <3> QED
      BY <1>1, <1>3, <2>2, <3>1 DEF Same, ThreadChain, ThreadMask, NotEntered
  <2> QED
    BY <2>1, <2>2
<1> QED
  BY <1>1, <1>2, <1>3, MachineStep DEF Allowed

(* What IInv says of a thread that waits for the CPU: its chain is at its  *)
(* entry or in its own buffer, and it is a chain of that thread.           *)
LEMMA WaitingThread ==
  ASSUME IInv, ended = "no", NEW t \in alive, t # current, t # live.who
  PROVE  /\ t \in Threads /\ t # Dummy /\ asyncify_buf[t] \in Bufs
         /\ \A u \in InUse : u # t => BufOf(u) # asyncify_buf[t]
         /\ fresh[t] = 1 \/ (fresh[t] = 0 /\ saved[asyncify_buf[t]].who = t)
         /\ ThreadMask(t) = irq_lock_key[t]
         /\ request = "switch" => switch_block.to_arg # t
         /\ live.who = None => cur.arg # t
         /\ ThreadChain(t) = IF fresh[t] = 1 THEN Entry(t) ELSE saved[asyncify_buf[t]]
         /\ ThreadChain(t) # NoChain
<1>1. TypeOK /\ BoardInv
  BY DEF IInv
<1>2. t \in Threads /\ t # Dummy /\ t # None
  BY <1>1, ThreadAssumption DEF TypeOK
<1>3. /\ asyncify_buf[t] \in Bufs
      /\ \A u \in InUse : u # t => BufOf(u) # asyncify_buf[t]
  BY <1>1, <1>2 DEF BoardInv, KernelInv, InUse, BufOf
<1>4. fresh[t] = 1 \/ (fresh[t] = 0 /\ saved[asyncify_buf[t]].who = t)
  BY <1>1 DEF BoardInv, SuspendedInv, Resumable
<1>5. /\ request = "switch" => switch_block.to_arg # t
      /\ live.who = None => cur.arg # t
  BY <1>1 DEF BoardInv, SwitchInv, BetweenInv
<1>6. ThreadChain(t) = IF fresh[t] = 1 THEN Entry(t) ELSE saved[asyncify_buf[t]]
  BY <1>2, <1>5 DEF ThreadChain, NotEntered
<1>7. ThreadChain(t) # NoChain
  <2>1. ThreadChain(t).who = t
    BY <1>4, <1>6 DEF Entry
  <2> QED
    BY <1>2, <2>1 DEF NoChain
<1> QED
  BY <1>2, <1>3, <1>4, <1>5, <1>6, <1>7 DEF ThreadMask

(* do_swap() and z_wasm_switch(): the thread that gets the CPU has the     *)
(* chain and the mask it was waiting with, and the other threads keep      *)
(* theirs; only the buffer of the thread that gives it up may be written.  *)
LEMMA SwapMachine ==
  ASSUME IInv, ended = "no", live.who = current, request # "switch",
         NEW c, NEW key, NEW to, Swap(c, key, to), c \in Chain, c.who = current,
         to \in alive', to # current,
         alive' \subseteq alive, alive \ {current} \subseteq alive',
         asyncify_buf' = asyncify_buf,
         \A b \in AllBufs \ {BufOf(current)} : saved'[b] = saved[b]
  PROVE  Machine!Step
<1>1. TypeOK /\ current \in AllThreads
  BY DEF IInv, TypeOK, AllThreads
<1>2. /\ current' = to /\ to \in AllThreads /\ live'.who = current /\ request' = "switch"
      /\ irq_masked' = irq_lock_key[to]
      /\ switch_block'.to_arg = to /\ switch_block'.to_fresh = fresh[to]
      /\ fresh'[to] = 0
      /\ \A t \in AllThreads \ {to} : fresh'[t] = fresh[t]
      /\ \A t \in AllThreads \ {current} : irq_lock_key'[t] = irq_lock_key[t]
  BY <1>1 DEF Swap, z_wasm_switch, Chain, TypeOK, AllThreads
<1>3. ASSUME NEW t \in AllThreads, t # current, t \in alive PROVE Same(t)
  <2>1. t \in alive'
    BY <1>3
  <2>2. /\ asyncify_buf[t] \in AllBufs \ {BufOf(current)}
        /\ t # Dummy
        /\ ThreadMask(t) = irq_lock_key[t]
        /\ ThreadChain(t) = IF fresh[t] = 1 THEN Entry(t) ELSE saved[asyncify_buf[t]]
    BY <1>3, WaitingThread DEF InUse, AllBufs
  <2>3. ThreadMask(t)' = irq_lock_key[t]
    BY <1>2, <1>3, <2>1 DEF ThreadMask
  <2>4. ThreadChain(t)' = IF NotEntered(t)' THEN Entry(t) ELSE saved[asyncify_buf[t]]
    BY <1>2, <1>3, <2>1, <2>2 DEF ThreadChain
  <2>5. NotEntered(t)' <=> fresh[t] = 1
    BY <1>1, <1>2, <1>3, ThreadAssumption DEF NotEntered, TypeOK, AllThreads
  <2> QED
    BY <2>2, <2>3, <2>4, <2>5 DEF Same
<1>4. ASSUME NEW t \in AllThreads, t # current, t \notin alive PROVE Same(t)
  BY <1>2, <1>4 DEF Same, ThreadChain, ThreadMask
<1>5. ThreadChain(to) # NoChain
  BY WaitingThread
<1> QED
  BY <1>1, <1>2, <1>3, <1>4, <1>5, MachineStep DEF Allowed
-----------------------------------------------------------------------------
(* Suspension.  The chain moves between the engine's stack and a buffer,   *)
(* and the thread does not notice.                                         *)

(* runStep(): the context in hand is the current thread's, fresh or with   *)
(* the frames in its own buffer.                                           *)
LEMMA RunStepSame ==
  ASSUME DummyInv, RunStep
  PROVE  UNCHANGED Machine!mvars
<1>1. Between /\ TypeOK /\ IInv
  BY DEF RunStep, DummyInv, IInv
<1>2. /\ cur.buf = BufOf(current) /\ cur.arg = current /\ fresh[current] = 0
      /\ live.who = None /\ ended = "no" /\ request = "none" /\ BoardInv
      /\ current \in AllThreads /\ current # None
  BY <1>1, BetweenFacts, ThreadAssumption DEF DummyInv, Between, TypeOK, AllThreads
<1>3. live' = Running /\ live'.who = current
  <2>1. CASE cur.fresh = 1
    BY <1>1, <1>2, <2>1 DEF RunStep, Running, Entry
  <2>2. CASE cur.fresh # 1
    BY <1>1, <1>2, <2>2, BetweenFacts DEF RunStep, Running
  <2> QED
    BY <2>1, <2>2
<1>4. \A b \in AllBufs \ {cur.buf} : saved'[b] = saved[b]
  BY <1>1 DEF RunStep, TypeOK
<1>5. /\ current' = current /\ alive' = alive /\ asyncify_buf' = asyncify_buf
      /\ fresh' = fresh /\ irq_lock_key' = irq_lock_key /\ irq_masked' = irq_masked
      /\ request' = "none"
  BY <1>2 DEF RunStep, threadVars
<1>6. Same(current)
  <2>1. ThreadChain(current)' = live'
    BY <1>3, <1>5 DEF ThreadChain
  <2>2. ThreadChain(current) = Running
    BY <1>2 DEF ThreadChain, NotEntered, Running, BufOf
  <2> QED
    BY <1>3, <1>5, <2>1, <2>2 DEF Same, ThreadMask
<1>7. ASSUME NEW t \in AllThreads, t # current, t \in alive PROVE Same(t)
  <2>1. /\ asyncify_buf[t] \in AllBufs \ {cur.buf} /\ t # Dummy /\ t # None
        /\ ThreadChain(t) = IF fresh[t] = 1 THEN Entry(t) ELSE saved[asyncify_buf[t]]
    BY <1>1, <1>2, <1>7, WaitingThread, ThreadAssumption DEF InUse, AllBufs, AllThreads
  <2>2. ThreadChain(t)' = IF fresh[t] = 1 THEN Entry(t) ELSE saved[asyncify_buf[t]]
    BY <1>2, <1>3, <1>4, <1>5, <1>7, <2>1 DEF ThreadChain, NotEntered
  <2> QED
    BY <1>5, <2>1, <2>2 DEF Same, ThreadMask
<1>8. ASSUME NEW t \in AllThreads, t # current, t \notin alive PROVE Same(t)
  BY <1>5, <1>8 DEF Same, ThreadChain, ThreadMask
<1> QED
  BY <1>5, <1>6, <1>7, <1>8, MachineStutter

(* step() with the guest waiting: the frames go to the current thread's    *)
(* own buffer, and the context in hand stays.                              *)
LEMMA StepIdleSame ==
  ASSUME DummyInv, StepIdle
  PROVE  UNCHANGED Machine!mvars
<1>1. TypeOK /\ IInv /\ request = "wait"
  BY DEF StepIdle, DummyInv, IInv
<1>2. /\ cur.buf = BufOf(current) /\ cur.fresh = 0 /\ fresh[current] = 0
      /\ ended = "no" /\ BoardInv /\ live.who = current
      /\ current \in AllThreads /\ current # None /\ cur.buf \in AllBufs
  BY <1>1, ThreadAssumption
     DEF DummyInv, IInv, BoardInv, SwitchInv, GuestInv, TypeOK, AllThreads, Context, BufOf,
         KernelInv, InUse, AllBufs
<1>3. /\ saved'[cur.buf] = live /\ live' = NoChain /\ request' = "none"
      /\ \A b \in AllBufs \ {cur.buf} : saved'[b] = saved[b]
      /\ cur'.fresh = 0
  BY <1>1, <1>2 DEF StepIdle, Unwind, TypeOK, Context
<1>4. /\ current' = current /\ alive' = alive /\ asyncify_buf' = asyncify_buf
      /\ fresh' = fresh /\ irq_lock_key' = irq_lock_key /\ irq_masked' = irq_masked
  BY DEF StepIdle, threadVars
<1>5. live'.who = None
  BY <1>3 DEF NoChain
<1>6. Same(current)
  BY <1>2, <1>3, <1>4, <1>5 DEF Same, ThreadChain, ThreadMask, NotEntered, BufOf
<1>7. ASSUME NEW t \in AllThreads, t # current, t \in alive PROVE Same(t)
  <2>1. /\ asyncify_buf[t] \in AllBufs \ {cur.buf} /\ t # Dummy /\ t # None
        /\ ThreadChain(t) = IF fresh[t] = 1 THEN Entry(t) ELSE saved[asyncify_buf[t]]
    BY <1>1, <1>2, <1>7, WaitingThread, ThreadAssumption DEF InUse, AllBufs, AllThreads
  <2>2. ThreadChain(t)' = IF fresh[t] = 1 THEN Entry(t) ELSE saved[asyncify_buf[t]]
    BY <1>3, <1>4, <1>5, <1>7, <2>1 DEF ThreadChain, NotEntered
  <2> QED
    BY <1>4, <1>7, <2>1, <2>2 DEF Same, ThreadMask
<1>8. ASSUME NEW t \in AllThreads, t # current, t \notin alive PROVE Same(t)
  BY <1>4, <1>8 DEF Same, ThreadChain, ThreadMask
<1> QED
  BY <1>4, <1>6, <1>7, <1>8, MachineStutter

(* step() with a switch on its way: the outgoing thread's frames go to its *)
(* own buffer, and the context in hand becomes the incoming thread's.      *)
LEMMA StepSwitchSame ==
  ASSUME DummyInv, StepSwitch
  PROVE  UNCHANGED Machine!mvars
<1>1. TypeOK /\ IInv /\ request = "switch"
  BY DEF StepSwitch, DummyInv, IInv
<1>2. /\ ended = "no" /\ BoardInv /\ live.who # None /\ live.who # current
      /\ current \in alive /\ current \in Threads /\ current # Dummy /\ current # None
      /\ live.who \in AllThreads
  BY <1>1, ThreadAssumption DEF IInv, BoardInv, SwitchInv, TypeOK, Chain, AllThreads
<1> DEFINE from == BufOf(live.who)
<1>3. /\ from \in AllBufs
      /\ from = IF switch_block.from_buf = NoBuf THEN Scratch ELSE switch_block.from_buf
      /\ asyncify_buf[current] \in AllBufs \ {from}
  BY <1>1, <1>2, BufAssumption
     DEF BoardInv, SwitchInv, KernelInv, InUse, BufOf, AllBufs, AllThreads
<1>4. /\ saved'[from] = live /\ live' = NoChain /\ request' = "none"
      /\ \A b \in AllBufs \ {from} : saved'[b] = saved[b] /\ contexts'[b] = contexts[b]
  BY <1>1, <1>3 DEF StepSwitch, Unwind, TypeOK
<1>5. /\ current' = current /\ alive' = alive /\ asyncify_buf' = asyncify_buf
      /\ fresh' = fresh /\ irq_lock_key' = irq_lock_key /\ irq_masked' = irq_masked
  BY DEF StepSwitch, threadVars, irqVars
<1>6. /\ switch_block.to_arg = current /\ switch_block.to_buf = asyncify_buf[current]
      /\ fresh[current] = 0
      /\ \/ switch_block.to_fresh = 1
         \/ switch_block.to_fresh = 0 /\ Resumable(current)
  BY <1>1, <1>2 DEF BoardInv, SwitchInv
<1>7. cur'.arg = current /\ cur'.fresh = switch_block.to_fresh
  <2>1. CASE switch_block.to_fresh = 1
    BY <1>6, <2>1 DEF StepSwitch
  <2>2. CASE switch_block.to_fresh = 0 /\ Resumable(current)
    <3>1. cur' = contexts[asyncify_buf[current]]
      BY <1>3, <1>4, <1>6, <2>2 DEF StepSwitch
    <3> QED
      BY <2>2, <3>1 DEF Resumable
  <2> QED
    BY <1>6, <2>1, <2>2
<1>8. live'.who = None
  BY <1>4 DEF NoChain
<1>9. Same(current)
  <2>1. ThreadChain(current) = IF switch_block.to_fresh = 1 THEN Entry(current)
                               ELSE saved[asyncify_buf[current]]
    BY <1>1, <1>2, <1>6 DEF ThreadChain, NotEntered
  <2>2. ThreadChain(current)' = IF switch_block.to_fresh = 1 THEN Entry(current)
                                ELSE saved[asyncify_buf[current]]
    BY <1>2, <1>3, <1>4, <1>5, <1>6, <1>7, <1>8 DEF ThreadChain, NotEntered
  <2> QED
    BY <1>5, <2>1, <2>2 DEF Same, ThreadMask
<1>10. ASSUME NEW t \in alive, t = live.who PROVE Same(t)
  <2>1. fresh[t] = 0 /\ t # Dummy
    BY <1>1, <1>2, <1>10, ThreadAssumption DEF BoardInv, SwitchInv, TypeOK
  <2>2. ThreadChain(t) = live
    BY <1>10 DEF ThreadChain
  <2>3. ThreadChain(t)' = live
    BY <1>2, <1>4, <1>5, <1>7, <1>8, <1>10, <2>1 DEF ThreadChain, NotEntered, BufOf
  <2> QED
    BY <1>2, <1>5, <1>10, <2>2, <2>3 DEF Same, ThreadMask
<1>11. ASSUME NEW t \in AllThreads, t # current, t \in alive, t # live.who PROVE Same(t)
  <2>1. /\ asyncify_buf[t] \in AllBufs \ {from} /\ t # Dummy /\ t # None
        /\ ThreadChain(t) = IF fresh[t] = 1 THEN Entry(t) ELSE saved[asyncify_buf[t]]
    BY <1>1, <1>2, <1>11, WaitingThread, ThreadAssumption DEF InUse, AllBufs, AllThreads
  <2>2. ThreadChain(t)' = IF fresh[t] = 1 THEN Entry(t) ELSE saved[asyncify_buf[t]]
    BY <1>4, <1>5, <1>7, <1>8, <1>11, <2>1 DEF ThreadChain, NotEntered
  <2> QED
    BY <1>5, <1>11, <2>1, <2>2 DEF Same, ThreadMask
<1>12. ASSUME NEW t \in AllThreads, t # current, t \notin alive PROVE Same(t)
  BY <1>5, <1>12 DEF Same, ThreadChain, ThreadMask
<1> QED
  BY <1>5, <1>9, <1>10, <1>11, <1>12, MachineStutter
-----------------------------------------------------------------------------
(* The steps that end the run drop the frames on the engine's stack: those *)
(* of the running thread, or of one that was being switched out.           *)
LEMMA DropMachine ==
  ASSUME IInv, ended = "no", live' = NoChain, request' = "none",
         live.who = None => request = "none",
         UNCHANGED <<current, alive, threadVars, irq_masked, switch_block>>,
         cur'.arg = cur.arg \/ cur'.fresh = 0, cur'.fresh = cur.fresh,
         \A b \in AllBufs : saved'[b] = saved[b] \/ (saved'[b] = NoChain /\ b = cur.buf)
  PROVE  Machine!Step
<1>1. TypeOK /\ BoardInv /\ current \in AllThreads /\ live'.who = None
  BY DEF IInv, TypeOK, AllThreads, NoChain
<1>2. ASSUME NEW t \in AllThreads, t # current, t \notin alive PROVE Allowed(t)
  BY <1>2 DEF Allowed, Same, ThreadChain, ThreadMask
<1>3. ASSUME NEW t \in alive, t # current, t = live.who PROVE Allowed(t)
  <2>1. fresh[t] = 0 /\ cur.fresh = 0 /\ t # Dummy /\ t # None
    BY <1>1, <1>3, ThreadAssumption DEF BoardInv, SwitchInv, GuestInv, TypeOK
  <2>2. cur.buf = asyncify_buf[t] /\ saved[cur.buf] = NoChain /\ cur.buf \in AllBufs
    BY <1>1, <1>3, <2>1 DEF BoardInv, GuestInv, BufOf, KernelInv, InUse, AllBufs
  <2>3. ThreadChain(t)' = NoChain
    BY <1>1, <1>3, <2>1, <2>2 DEF ThreadChain, NotEntered, threadVars
  <2> QED
    BY <2>3 DEF Allowed
<1>4. ASSUME NEW t \in alive, t # current, t # live.who PROVE Allowed(t)
  <2>1. /\ asyncify_buf[t] \in AllBufs \ {cur.buf} /\ t # Dummy /\ t # None
        /\ ThreadChain(t) = IF fresh[t] = 1 THEN Entry(t) ELSE saved[asyncify_buf[t]]
        /\ live.who = None => cur.arg # t
    BY <1>1, <1>4, WaitingThread, ThreadAssumption
       DEF InUse, AllBufs, TypeOK, BoardInv, GuestInv, BetweenInv
  <2>2. cur'.fresh = 1 => cur'.arg # t
    BY <1>1, <2>1 DEF BoardInv, GuestInv
  <2>3. ThreadChain(t)' = IF fresh[t] = 1 THEN Entry(t) ELSE saved[asyncify_buf[t]]
    BY <1>1, <1>4, <2>1, <2>2 DEF ThreadChain, NotEntered, threadVars
  <2> QED
    BY <1>4, <2>1, <2>3 DEF Allowed, Same, ThreadMask, threadVars
<1> QED
  BY <1>1, <1>2, <1>3, <1>4, MachineStep

(* checkBuffer() failing, the fatal import and checkDeadline().            *)
LEMMA StopMachine ==
  ASSUME IInv, BufferOverflow \/ Halt \/ checkDeadline
  PROVE  Machine!Step
<1>1. ended = "no"
  BY DEF IInv, BufferOverflow, Halt, checkDeadline, Between, AtSafepoint, InCode, InThread,
         InBoot, InHandler, Guest
<1>2. live.who = None => request = "none"
  BY <1>1 DEF IInv, BoardInv, SwitchInv
<1> QED
  BY <1>1, <1>2, DropMachine DEF BufferOverflow, Halt, checkDeadline, irqVars

(* raiseTrap(): the trapped thread's frames are gone and the kernel aborts *)
(* it, switching to another; or the run is over.                           *)
LEMMA TrapMachine ==
  ASSUME IInv, RaiseTrap
  PROVE  Machine!Step
<1>1. /\ TypeOK /\ BoardInv /\ ended = "no" /\ request = "trap" /\ live.who = current
      /\ live.who # None /\ cur.buf = BufOf(current) /\ current \in AllThreads
      /\ cur.fresh = 0
  BY DEF RaiseTrap, IInv, BoardInv, SwitchInv, GuestInv, TypeOK, AllThreads
<1>2. UNCHANGED asyncify_buf
  BY DEF RaiseTrap
<1>3. \A b \in AllBufs : saved'[b] = saved[b] \/ (saved'[b] = NoChain /\ b = cur.buf)
  BY <1>1 DEF RaiseTrap, TypeOK
<1>4. CASE current \in App /\ z_wasm_trap
  <2>1. /\ Idle \in alive /\ ready \subseteq alive /\ alive' = alive \ {current}
        /\ ready' = ready \ {current} /\ current # Idle
    BY <1>1, <1>4, ThreadAssumption DEF BoardInv, KernelInv, z_wasm_trap, Threads
  <2>2. PICK to \in Candidates(ready') :
          Swap([Entry(current) EXCEPT !.fn = "trap"], irq_masked, to)
    BY <1>1, <1>4 DEF z_wasm_trap
  <2>3. to \in alive' /\ to # current
    BY <2>1 DEF Candidates
  <2>4. [Entry(current) EXCEPT !.fn = "trap"] \in Chain
        /\ [Entry(current) EXCEPT !.fn = "trap"].who = current
    <3>1. Entry(current) \in Chain /\ Entry(current).who = current
      BY <1>1, EntryGood DEF AllThreads
    <3> QED
      BY <3>1 DEF Chain, Fns
  <2> QED
    BY <1>1, <1>2, <1>3, <2>1, <2>2, <2>3, <2>4, SwapMachine
<1>5. CASE ~(current \in App /\ z_wasm_trap)
  <2>1. /\ live' = NoChain /\ request' = "none"
        /\ UNCHANGED <<current, alive, threadVars, irq_masked, switch_block>>
        /\ cur'.fresh = cur.fresh
    BY <1>1, <1>5 DEF RaiseTrap, threadVars, TypeOK, Context
  <2> QED
    BY <1>1, <1>3, <2>1, DropMachine
<1> QED
  BY <1>4, <1>5

-----------------------------------------------------------------------------
(* z_reschedule_unlocked(): either nothing but the caller's own chain      *)
(* changes, or it switches.                                                *)
LEMMA RescheduleMachine ==
  ASSUME IInv, Guest, current # Dummy, NEW c, Reschedule(c), c \in Chain, c.who = current,
         UNCHANGED <<ready, alive, asyncify_buf, saved, cur>>
  PROVE  Machine!Step
<1>1. /\ TypeOK /\ BoardInv /\ ended = "no" /\ live.who = current /\ request = "none"
      /\ current \in AllThreads
  BY GuestFacts DEF TypeOK, AllThreads, Guest
<1>2. CASE \E to \in Candidates(ready) \ {current} : Swap(c, 0, to)
  <2>1. PICK to \in Candidates(ready) \ {current} : Swap(c, 0, to)
    BY <1>2
  <2>2. to \in alive
    BY <1>1, <2>1, CandidatesAlive
  <2>3. request # "switch" /\ to # current
    BY <1>1, <2>1
  <2> QED
    BY <1>1, <2>1, <2>2, <2>3, SwapMachine
<1>3. CASE /\ live' = c
           /\ UNCHANGED <<current, irq_masked, irq_lock_key, fresh, switch_block, request>>
  <2>1. \A t \in AllThreads \ {current} : Same(t)
    BY <1>1, <1>3 DEF Guest, Same, ThreadChain, ThreadMask, NotEntered
  <2> QED
    BY <1>1, <1>3, <2>1, MachineStep DEF Allowed
<1> QED
  BY <1>2, <1>3 DEF Reschedule

(* What a thread that gives the CPU up of its own accord hands it to.      *)
LEMMA BlockMachine ==
  ASSUME IInv, SwitchToMain \/ Block \/ AbortSelf, UNCHANGED hostVars
  PROVE  Machine!Step
<1>1. /\ Guest /\ TypeOK /\ BoardInv /\ ended = "no" /\ live.who = current /\ live \in Chain
      /\ request # "switch"
  BY GuestFacts DEF SwitchToMain, Block, AbortSelf, InBoot, InThread, Guest
<1>2. CASE SwitchToMain
  <2>1. PICK main \in ready : Swap(live, irq_masked, main)
    BY <1>2 DEF SwitchToMain
  <2>2. main \in alive' /\ main # current /\ UNCHANGED <<alive, asyncify_buf, saved>>
    BY <1>1, <1>2, <2>1, ThreadAssumption
       DEF SwitchToMain, InBoot, BoardInv, KernelInv, TypeOK, Threads
  <2> QED
    BY <1>1, <2>1, <2>2, SwapMachine
<1>3. CASE Block \/ AbortSelf
  <2>1. /\ ready' = ready \ {current} /\ UNCHANGED <<asyncify_buf, saved>>
        /\ alive' = alive \/ alive' = alive \ {current}
    BY <1>3 DEF Block, AbortSelf
  <2>2. PICK to \in Candidates(ready') : Swap(live, irq_masked, to)
    BY <1>3 DEF Block, AbortSelf
  <2>3. current \in App /\ Idle \in alive /\ current # Idle
    BY <1>1, <1>3, ThreadAssumption
       DEF Block, AbortSelf, InThread, BoardInv, KernelInv, Threads
  <2>4. to \in alive' /\ to # current
    BY <1>1, <2>1, <2>2, <2>3 DEF Candidates, BoardInv, KernelInv
  <2> QED
    BY <1>1, <2>1, <2>2, <2>4, SwapMachine
<1> QED
  BY <1>2, <1>3

(* Every step of the guest is a step of the machine. *)
LEMMA GuestMachine ==
  ASSUME IInv, GuestNext, UNCHANGED hostVars
  PROVE  Machine!Step
<1> USE DEF hostVars
<1>1. ASSUME Guest
      PROVE  /\ TypeOK /\ BoardInv /\ live.who = current /\ live \in Chain /\ ended = "no"
             /\ current \in AllThreads /\ request = "none" /\ live.who # None
  BY <1>1, GuestFacts DEF TypeOK, AllThreads, Guest
<1>2. ASSUME \/ SwapReturn \/ z_wasm_irq_dispatch \/ IsrReturn \/ arch_cpu_idle
             \/ arch_cpu_atomic_idle \/ WaitReturn
      PROVE  Machine!Step
  <2>1. Guest
    BY <1>2 DEF SwapReturn, z_wasm_irq_dispatch, IsrReturn, arch_cpu_idle,
                arch_cpu_atomic_idle, WaitReturn, InThread
  <2>2. live'.who = live.who
    BY <1>1, <1>2, <2>1 DEF SwapReturn, z_wasm_irq_dispatch, EnterIsr, IsrReturn, arch_cpu_idle,
                arch_cpu_atomic_idle, WaitReturn, At, Chain
  <2>3. UNCHANGED stayVars /\ request' # "switch"
    BY <1>1, <1>2, <2>1 DEF SwapReturn, z_wasm_irq_dispatch, IsrReturn, arch_cpu_idle,
                arch_cpu_atomic_idle, WaitReturn, stayVars
  <2> QED
    BY <1>1, <2>1, <2>2, <2>3, StayMachine
<1>3. ASSUME \/ BusyWaitStart \/ BusyWaitTurn \/ BusyWaitEnd \/ BusyWaitMasked
             \/ arch_irq_lock \/ arch_irq_unlock \/ arch_irq_offload \/ OffloadReturn
             \/ \E due \in BOOLEAN : z_wasm_safepoint(due)
      PROVE  Machine!Step
  <2>1. Guest
    BY <1>3 DEF BusyWaitStart, BusyWaitTurn, BusyWaitEnd, BusyWaitMasked, arch_irq_lock,
                arch_irq_unlock, arch_irq_offload, OffloadReturn, z_wasm_safepoint, AtSafepoint,
                InCode, InThread, InBoot, InHandler
  <2>2. live'.who = live.who
    BY <1>1, <1>3, <2>1 DEF BusyWaitStart, BusyWaitTurn, BusyWaitEnd, BusyWaitMasked,
                arch_irq_lock, arch_irq_unlock, arch_irq_offload, OffloadReturn,
                z_wasm_safepoint, At, Chain
  <2>3. UNCHANGED stayVars /\ request' # "switch"
    BY <1>1, <1>3, <2>1 DEF BusyWaitStart, BusyWaitTurn, BusyWaitEnd, BusyWaitMasked,
                arch_irq_lock, arch_irq_unlock, arch_irq_offload, OffloadReturn,
                z_wasm_safepoint, stayVars
  <2> QED
    BY <1>1, <2>1, <2>2, <2>3, StayMachine
<1>4. ASSUME NEW x, Leave(x) PROVE Machine!Step
  BY <1>1, <1>4, StayMachine
     DEF Leave, InCode, InThread, InBoot, InHandler, Guest, stayVars
<1>5. ASSUME NEW x, \/ AbortInterrupted \/ sys_clock_set_timeout(x) \/ Wake(x) \/ Abort(x)
                    \/ z_wasm_irq_enable(x) \/ z_wasm_irq_disable(x) \/ z_wasm_irq_raise(x)
      PROVE  Machine!Step
  <2>1. current \in AllThreads
    BY DEF IInv, TypeOK, AllThreads
  <2>2. UNCHANGED <<current, threadVars, switch_block, saved, live, request, cur>>
        /\ alive' \subseteq alive
    BY <1>5 DEF AbortInterrupted, sys_clock_set_timeout, Wake, Abort, z_wasm_irq_enable,
                z_wasm_irq_disable, z_wasm_irq_raise
  <2> QED
    BY <2>1, <2>2, EndMachine
<1>6. ASSUME NEW t \in App, NEW b \in Bufs, arch_new_thread(t, b) PROVE Machine!Step
  <2> DEFINE N == {t}
  <2> DEFINE B == {b}
  <2>1. Guest
    BY <1>6 DEF arch_new_thread, InThread, InHandler
  <2>2. /\ N \cap (alive \cup {current}) = {} /\ N \subseteq Threads
        /\ Scratch \notin B /\ alive' = alive \cup N
        /\ \A u \in (alive \cup {current}) \ {Dummy} : asyncify_buf[u] \notin B
        /\ \A u \in AllThreads \ N : /\ asyncify_buf'[u] = asyncify_buf[u]
                                     /\ fresh'[u] = fresh[u]
                                     /\ irq_lock_key'[u] = irq_lock_key[u]
        /\ \A u \in N : fresh'[u] = 1 /\ irq_lock_key'[u] = 0
        /\ \A d \in AllBufs \ B : saved'[d] = saved[d]
    BY <1>1, <1>6, <2>1, BufAssumption
       DEF arch_new_thread, TypeOK, AllThreads, Threads, InitBufs
  <2>3. UNCHANGED <<current, switch_block, live, request, cur>>
    BY <1>6 DEF arch_new_thread
  <2> HIDE DEF N, B
  <2> QED
    BY <2>1, <2>2, <2>3, CreateMachine
<1>7. ASSUME NEW t \in App, NEW b \in Bufs, NEW ib \in Bufs, z_cstart(t, b, ib)
      PROVE  Machine!Step
  <2> DEFINE N == {t, Idle}
  <2> DEFINE B == {b, ib}
  <2>1. Guest /\ current = Dummy /\ alive = {}
    BY <1>1, <1>7 DEF z_cstart, InBoot
  <2>2. /\ N \cap (alive \cup {current}) = {} /\ N \subseteq Threads
        /\ Scratch \notin B /\ alive' = alive \cup N
        /\ \A u \in (alive \cup {current}) \ {Dummy} : asyncify_buf[u] \notin B
    BY <1>7, <2>1, BufAssumption, ThreadAssumption DEF z_cstart, Threads
  <2>3. /\ \A u \in AllThreads \ N : /\ asyncify_buf'[u] = asyncify_buf[u]
                                     /\ fresh'[u] = fresh[u]
                                     /\ irq_lock_key'[u] = irq_lock_key[u]
        /\ \A u \in N : fresh'[u] = 1 /\ irq_lock_key'[u] = 0
        /\ \A d \in AllBufs \ B : saved'[d] = saved[d]
    BY <1>1, <1>7, <2>1, ThreadAssumption DEF z_cstart, TypeOK, AllThreads, Threads, InitBufs
  <2>4. UNCHANGED <<current, switch_block, live, request, cur>>
    BY <1>7 DEF z_cstart
  <2> HIDE DEF N, B
  <2> QED
    BY <2>1, <2>2, <2>3, <2>4, CreateMachine
<1>8. CASE SwitchToMain \/ Block \/ AbortSelf
  BY <1>8, BlockMachine
<1>9. CASE Yield
  <2>1. Guest /\ current # Dummy
    BY <1>1, <1>9, ThreadAssumption DEF Yield, InThread, Threads
  <2> QED
    BY <1>1, <1>9, <2>1, RescheduleMachine DEF Yield
<1>10. CASE AfterDispatch
  <2>1. Guest /\ live.pt = "after"
    BY <1>10 DEF AfterDispatch
  <2>2. current # Dummy
    BY <1>1, <2>1, GuestFacts DEF GoodChain
  <2>3. UNCHANGED <<ready, alive, asyncify_buf, saved, cur>>
    BY <1>10 DEF AfterDispatch
  <2>4. ASSUME NEW fn \in Fns
        PROVE  At(live, fn, "body") \in Chain /\ At(live, fn, "body").who = current
    BY <1>1, <2>1 DEF At, Chain, Points
  <2>5. CASE \E c \in Chain : c.who = current /\ Reschedule(c)
    BY <2>1, <2>2, <2>3, <2>5, RescheduleMachine
  <2>6. CASE /\ live'.who = live.who
             /\ UNCHANGED <<current, irq_lock_key, fresh, switch_block, request>>
    <3>1. UNCHANGED stayVars /\ request' # "switch"
      BY <1>1, <2>1, <2>3, <2>6 DEF stayVars, threadVars
    <3> QED
      BY <1>1, <2>1, <2>6, <3>1, StayMachine
  <2>7. live.fn \in {"safepoint", "offload", "busy_wait", "idle"}
          => \E c \in Chain : c.who = current /\ Reschedule(c)
    BY <1>10, <2>4 DEF AfterDispatch, Fns
  <2>8. live.fn \in {"idle_early", "atomic_idle"}
          => /\ live'.who = live.who
             /\ UNCHANGED <<current, irq_lock_key, fresh, switch_block, request>>
    BY <1>1, <1>10, <2>1 DEF AfterDispatch, At, Chain
  <2> QED
    BY <1>10, <2>5, <2>6, <2>7, <2>8 DEF AfterDispatch
<1> QED
  BY <1>2, <1>3, <1>4, <1>5, <1>6, <1>7, <1>8, <1>9, <1>10 DEF GuestNext

-----------------------------------------------------------------------------
(* Every step of the board is a step of the machine, a reset, or nothing.  *)
LEMMA NextMachine ==
  ASSUME DummyInv, [Next]_vars
  PROVE  [Machine!Step \/ Machine!Reset]_(Machine!mvars)
<1>1. IInv /\ current \in AllThreads
  BY DEF DummyInv, IInv, TypeOK, AllThreads
<1>2. CASE GuestNext /\ UNCHANGED hostVars
  BY <1>1, <1>2, GuestMachine
<1>3. CASE RunStep \/ StepSwitch \/ StepIdle
  BY <1>3, RunStepSame, StepSwitchSame, StepIdleSame
<1>4. CASE BufferOverflow \/ Halt \/ checkDeadline
  BY <1>1, <1>4, StopMachine
<1>5. CASE RaiseTrap
  BY <1>1, <1>5, TrapMachine
<1>6. CASE Reboot
  <2>1. ended = "no"
    BY <1>1, <1>6 DEF Reboot, IInv
  <2>2. CASE reboots < MaxReboots
    BY <1>6, <2>2, RebootMachine DEF Reboot
  <2>3. CASE ~(reboots < MaxReboots)
    BY <1>1, <1>6, <2>1, <2>3, DropMachine DEF Reboot, irqVars, IInv, BoardInv, SwitchInv
  <2> QED
    BY <2>2, <2>3
<1>7. ASSUME NEW l, InjectIrq(l) \/ input_poll(l) PROVE Machine!Step
  BY <1>1, <1>7, EndMachine DEF InjectIrq, input_poll, guestVars
<1>8. CASE Over \/ UNCHANGED vars
  BY <1>1, <1>8, EndMachine DEF Over, vars, guestVars, hostVars
<1> QED
  BY <1>2, <1>3, <1>4, <1>5, <1>6, <1>7, <1>8 DEF Next, HostNext

(* The invariant of the board, with the dummy thread's word. *)
LEMMA DummyInvariance == Spec => []DummyInv
<1>1. Init => DummyInv
  BY InitInv DEF Init, GuestInit, DummyInv
<1>2. DummyInv /\ [Next]_vars => DummyInv'
  BY StepInv, DummyStep DEF DummyInv
<1> QED
  BY <1>1, <1>2, PTL DEF Spec

(* Asyncify, the port's switch and the host's contexts implement threads:  *)
(* arch_switch() and arch_irq_lock() do for the kernel what ThreadMachine  *)
(* says, whatever suspends, traps, aborts and reboots in between.          *)
THEOREM BoardImplementsThreads == Spec => ImplementsThreads
<1>1. DummyInv /\ [Next]_vars => [Machine!Step \/ Machine!Reset]_(Machine!mvars)
  BY NextMachine
<1> QED
  BY <1>1, InitMachine, DummyInvariance, PTL DEF Spec, ImplementsThreads, Machine!MSpec

(* runStep() and step() are invisible to every thread: unwinding, picking  *)
(* the next context, waiting and rewinding change no thread's chain, no    *)
(* thread's mask and not which thread is current.                          *)
THEOREM SuspensionTransparent == Spec => SuspensionIsTransparent
<1>1. DummyInv /\ [Next]_vars
        => [(RunStep \/ StepSwitch \/ StepIdle) /\ ended' = "no"
              => UNCHANGED Machine!mvars]_vars
  BY RunStepSame, StepSwitchSame, StepIdleSame
<1> QED
  BY <1>1, DummyInvariance, PTL DEF Spec, SuspensionIsTransparent

-----------------------------------------------------------------------------
(* A thread that a handler has aborted. *)

(* Chains that use no service: those of a thread at its entry, of one that *)
(* traps, and the empty one.                                               *)
LEMMA FreshUses ==
  /\ UsesOnly(NoChain)
  /\ \A t : UsesOnly(Entry(t)) /\ UsesOnly([Entry(t) EXCEPT !.fn = "trap"])
BY DEF UsesOnly, NoChain, Entry

(* A switch makes a living thread current.                                 *)
LEMMA SwapDead ==
  ASSUME TypeOK, AbortedInv, NEW c, NEW key, NEW to, Swap(c, key, to), c \in Chain, UsesOnly(c),
         \A b \in AllBufs : saved'[b] = saved[b] \/ saved'[b] = NoChain
  PROVE  AbortedInv'
<1>1. live'.fn = c.fn /\ live'.keys = c.keys /\ request' = "switch"
  BY DEF Swap, z_wasm_switch, Chain
<1>2. UsesOnly(live')
  BY <1>1 DEF UsesOnly
<1>3. \A b \in AllBufs : UsesOnly(saved'[b])
  BY FreshUses DEF AbortedInv
<1> QED
  BY <1>1, <1>2, <1>3 DEF AbortedInv, UsesOnly

(* A step inside one thread: an aborted one stays where its handler is.    *)
LEMMA StayDead ==
  ASSUME AbortedInv, Guest, ended = "no", UNCHANGED <<current, alive, saved, ended>>,
         live'.who = live.who,
         UsesOnly(live'),
         current \in App \ alive /\ Interrupted(live) => Interrupted(live')
  PROVE  AbortedInv'
<1>1. Running = live /\ Running' = live' /\ request = "none"
  BY DEF Guest, Running
<1> QED
  BY <1>1 DEF AbortedInv, UsesOnly

(* A step that keeps every chain and starts threads or ends others than    *)
(* the current one.                                                        *)
LEMMA OthersDead ==
  ASSUME AbortedInv, UNCHANGED <<current, live, ended, cur>>,
         request' = request \/ (live.who # None /\ request = "none" /\ request' # "switch"),
         live.who = None => saved' = saved,
         \A b \in AllBufs : saved'[b] = saved[b] \/ saved'[b] = NoChain,
         current \in alive => current \in alive'
  PROVE  AbortedInv'
<1>1. Running' = Running
  BY DEF Running
<1>2. \A b \in AllBufs : UsesOnly(saved'[b])
  BY FreshUses DEF AbortedInv
<1> QED
  BY <1>1, <1>2 DEF AbortedInv, UsesOnly

(* The caller of a dispatch does not go on as an aborted thread.           *)
LEMMA AfterDead ==
  ASSUME IInv, AbortedInv, HandlersReschedule, AfterDispatch, UNCHANGED hostVars
  PROVE  AbortedInv'
<1>1. Guest /\ live.pt = "after"
  BY DEF AfterDispatch
<1>2. /\ TypeOK /\ BoardInv /\ ended = "no" /\ live \in Chain /\ GoodChain(live)
      /\ live.who = current /\ irq_masked = MaskAt(live) /\ nested = 0
      /\ UsesOnly(live) /\ request = "none"
  BY <1>1, GuestFacts DEF Serving, AbortedInv, Guest, GoodChain
<1>3. UNCHANGED <<alive, saved, ended>>
  BY DEF AfterDispatch, hostVars
<1>4. ASSUME NEW fn \in {"enter", "code", "busy_wait"}
      PROVE  /\ At(live, fn, "body") \in Chain /\ UsesOnly(At(live, fn, "body"))
             /\ At(live, fn, "body").who = current
  BY <1>2 DEF At, UsesOnly, Chain, Fns, Points
<1>5. ASSUME current \in App \ alive
      PROVE  /\ irq_masked = 0 /\ current \notin Candidates(ready)
             /\ live.fn \in {"safepoint", "busy_wait", "offload"}
  <2>1. "isr_abort" \in Calls /\ Interrupted(live)
    BY <1>1, <1>2, <1>5 DEF AbortedInv, Running, Guest
  <2>2. live.keys = <<>>
    BY <1>1, <1>2, <2>1 DEF Interrupted, GoodChain, UsesOnly, HandlersReschedule
  <2>3. irq_masked = 0
    BY <1>1, <1>2, <1>5, <2>1, <2>2, ThreadAssumption
       DEF MaskAt, LockMask, Serving, Interrupted, Threads
  <2>4. current \notin Candidates(ready)
    BY <1>2, <1>5, ThreadAssumption DEF Candidates, BoardInv, KernelInv
  <2> QED
    BY <2>1, <2>3, <2>4 DEF Interrupted
<1>6. ASSUME NEW c \in Chain, Reschedule(c), UsesOnly(c), c.who = current
      PROVE  AbortedInv'
  <2>1. CASE \E to \in Candidates(ready) \ {current} : Swap(c, 0, to)
    BY <1>2, <1>3, <1>6, <2>1, SwapDead
  <2>2. CASE /\ irq_masked = 0 /\ nested = 0 => current \in Candidates(ready)
             /\ live' = c /\ current' = current
    <3>1. current \notin App \ alive
      BY <1>2, <1>5, <2>2
    <3> QED
      BY <1>1, <1>2, <1>3, <1>6, <2>2, <3>1, StayDead
  <2> QED
    BY <1>6, <2>1, <2>2 DEF Reschedule
<1>7. CASE live.fn \in {"safepoint", "offload", "busy_wait", "idle"}
  <2>1. PICK fn \in {"enter", "code", "busy_wait"} : Reschedule(At(live, fn, "body"))
    BY <1>7 DEF AfterDispatch
  <2> QED
    BY <1>4, <1>6, <2>1
<1>8. CASE live.fn \in {"idle_early", "atomic_idle"}
  <2>1. current \notin App \ alive
    BY <1>5, <1>8
  <2>2. live'.who = live.who /\ live'.fn = "code" /\ live'.keys = live.keys
        /\ current' = current
    BY <1>2, <1>8 DEF AfterDispatch, At, Chain
  <2>3. UsesOnly(live')
    BY <1>2, <2>2 DEF UsesOnly
  <2> QED
    BY <1>1, <1>2, <1>3, <2>1, <2>2, <2>3, StayDead
<1> QED
  BY <1>7, <1>8 DEF AfterDispatch
(* The guest's steps that switch nowhere and end no running thread.        *)
LEMMA InsideDead ==
  ASSUME IInv, AbortedInv, UNCHANGED hostVars,
         \/ SwapReturn \/ z_wasm_irq_dispatch \/ IsrReturn \/ arch_cpu_idle
         \/ arch_cpu_atomic_idle \/ WaitReturn
         \/ BusyWaitStart \/ BusyWaitTurn \/ BusyWaitEnd \/ BusyWaitMasked
         \/ arch_irq_lock \/ arch_irq_unlock \/ arch_irq_offload \/ OffloadReturn
         \/ \E due \in BOOLEAN : z_wasm_safepoint(due)
  PROVE  AbortedInv'
<1> USE DEF hostVars
<1>1. Guest
  BY DEF SwapReturn, z_wasm_irq_dispatch, IsrReturn, arch_cpu_idle, arch_cpu_atomic_idle,
         WaitReturn, BusyWaitStart, BusyWaitTurn, BusyWaitEnd, BusyWaitMasked, arch_irq_lock,
         arch_irq_unlock, arch_irq_offload, OffloadReturn, z_wasm_safepoint, AtSafepoint,
         InCode, InThread, InBoot, InHandler
<1>2. /\ TypeOK /\ BoardInv /\ ended = "no" /\ live \in Chain /\ GoodChain(live)
      /\ live.who = current /\ UsesOnly(live)
  BY <1>1, GuestFacts DEF AbortedInv
<1>3. CASE SwapReturn \/ z_wasm_irq_dispatch \/ IsrReturn
  <2>1. /\ live'.who = live.who /\ live'.fn = live.fn /\ live'.keys = live.keys
        /\ UNCHANGED <<current, alive, saved, ended>>
        /\ \/ live.pt = "swap"
           \/ live.pt \in {"dispatch", "isr"} /\ live'.pt \in {"dispatch", "isr", "after"}
    BY <1>2, <1>3 DEF SwapReturn, z_wasm_irq_dispatch, EnterIsr, IsrReturn, Chain
  <2>2. Interrupted(live) => Interrupted(live')
    BY <1>2, <2>1 DEF Interrupted, GoodChain
  <2> QED
    BY <1>1, <1>2, <2>1, <2>2, StayDead DEF UsesOnly
<1>4. CASE arch_cpu_idle \/ arch_cpu_atomic_idle \/ BusyWaitStart \/ arch_irq_lock
           \/ arch_irq_unlock \/ arch_irq_offload \/ BusyWaitTurn \/ BusyWaitEnd
  <2>1. ~Interrupted(live)
    BY <1>2, <1>4, ThreadAssumption
       DEF arch_cpu_idle, arch_cpu_atomic_idle, BusyWaitStart, arch_irq_lock, arch_irq_unlock,
           arch_irq_offload, BusyWaitTurn, BusyWaitEnd, InThread, Interrupted, GoodChain, Threads
  <2>2. live'.who = live.who /\ UNCHANGED <<current, alive, saved, ended>>
    BY <1>2, <1>4
       DEF arch_cpu_idle, arch_cpu_atomic_idle, BusyWaitStart, arch_irq_lock, arch_irq_unlock,
           arch_irq_offload, BusyWaitTurn, BusyWaitEnd, Chain, At
  <2>3. CASE arch_cpu_idle \/ BusyWaitStart \/ BusyWaitTurn \/ BusyWaitEnd
    <3>1. live'.keys = live.keys /\ live'.fn \in {"idle", "idle_early", "busy_wait", "code"}
      BY <1>2, <2>3 DEF arch_cpu_idle, BusyWaitStart, BusyWaitTurn, BusyWaitEnd, Chain, At
    <3> QED
      BY <1>1, <1>2, <2>1, <2>2, <3>1, StayDead DEF UsesOnly
  <2>4. CASE arch_cpu_atomic_idle \/ arch_irq_lock \/ arch_irq_unlock \/ arch_irq_offload
    <3>1. /\ live'.fn = "atomic_idle" => "atomic_idle" \in Calls
          /\ live'.fn = "offload" => "offload" \in Calls
          /\ live.keys # <<>> \/ "lock" \in Calls \/ live'.keys = live.keys
      BY <1>2, <2>4 DEF arch_cpu_atomic_idle, arch_irq_lock, arch_irq_unlock, arch_irq_offload,
                        InThread, Chain, At
    <3> QED
      BY <1>1, <1>2, <2>1, <2>2, <3>1, StayDead DEF UsesOnly
  <2> QED
    BY <1>4, <2>3, <2>4
<1>5. CASE BusyWaitMasked \/ WaitReturn \/ OffloadReturn
           \/ \E due \in BOOLEAN : z_wasm_safepoint(due)
  <2>1. /\ live'.who = live.who /\ live'.keys = live.keys
        /\ UNCHANGED <<current, alive, saved, ended>>
        /\ live'.fn = live.fn \/ live'.fn \in {"safepoint", "enter", "busy_wait"}
    BY <1>2, <1>5 DEF BusyWaitMasked, WaitReturn, OffloadReturn, z_wasm_safepoint, At, Chain
  <2>2. CASE BusyWaitMasked \/ WaitReturn \/ OffloadReturn
    <3>1. live'.fn = live.fn
      BY <1>2, <2>2 DEF BusyWaitMasked, WaitReturn, OffloadReturn, Chain
    <3>2. Interrupted(live) => Interrupted(live')
      BY <1>2, <2>2, <3>1, ThreadAssumption
         DEF BusyWaitMasked, WaitReturn, OffloadReturn, Interrupted, GoodChain, InHandler,
             InBoot, Chain, Threads
    <3> QED
      BY <1>1, <1>2, <2>1, <3>1, <3>2, StayDead DEF UsesOnly
  <2>3. CASE \E due \in BOOLEAN : z_wasm_safepoint(due)
    <3>1. \/ live' = live
          \/ ~Interrupted(live)
          \/ live'.fn = "safepoint" /\ live'.pt = "dispatch"
      BY <1>2, <2>3, ThreadAssumption
         DEF z_wasm_safepoint, AtSafepoint, InCode, InThread, InBoot, InHandler, IdleLoop,
             WaitLoop, Interrupted, GoodChain, At, Chain, Threads
    <3>2. Interrupted(live) => Interrupted(live')
      BY <3>1 DEF Interrupted
    <3> QED
      BY <1>1, <1>2, <2>1, <3>2, StayDead DEF UsesOnly
  <2> QED
    BY <1>5, <2>2, <2>3
<1> QED
  BY <1>3, <1>4, <1>5

(* The guest's other steps: switches, the kernel's calls about threads,    *)
(* and the drivers'.                                                       *)
LEMMA GuestDead ==
  ASSUME IInv, AbortedInv, HandlersReschedule, GuestNext, UNCHANGED hostVars
  PROVE  AbortedInv'
<1> USE DEF hostVars
<1>1. CASE SwitchToMain \/ Block \/ AbortSelf
  <2>1. PICK to : Swap(live, irq_masked, to)
    BY <1>1 DEF SwitchToMain, Block, AbortSelf
  <2>2. TypeOK /\ live \in Chain /\ UsesOnly(live)
    BY DEF IInv, TypeOK, AbortedInv
  <2>3. saved' = saved
    BY <1>1 DEF SwitchToMain, Block, AbortSelf
  <2> QED
    BY <2>1, <2>2, <2>3, SwapDead
<1>2. CASE Yield
  <2>1. Guest /\ live.fn = "code"
    BY <1>2 DEF Yield, InThread
  <2>2. TypeOK /\ live \in Chain /\ UsesOnly(live) /\ ended = "no"
    BY <2>1, GuestFacts DEF AbortedInv
  <2>3. UNCHANGED <<alive, saved>>
    BY <1>2 DEF Yield
  <2>4. CASE \E to \in Candidates(ready) \ {current} : Swap(live, 0, to)
    BY <2>2, <2>3, <2>4, SwapDead
  <2>5. CASE live' = live /\ current' = current
    BY <2>1, <2>2, <2>3, <2>5, StayDead
  <2> QED
    BY <1>2, <2>4, <2>5 DEF Yield, Reschedule
<1>3. CASE AbortInterrupted
  <2>1. /\ Guest /\ "isr_abort" \in Calls /\ current \in App
        /\ UNCHANGED <<current, live, saved, request>>
    BY <1>3 DEF AbortInterrupted, InHandler
  <2>2. GoodChain(live) /\ UsesOnly(live) /\ live.who = current
    BY <2>1, GuestFacts DEF AbortedInv
  <2>3. Interrupted(live)
    BY <1>3, <2>1, <2>2, ThreadAssumption
       DEF AbortInterrupted, InHandler, GoodChain, UsesOnly, HandlersReschedule, Interrupted, Threads
  <2> QED
    BY <2>1, <2>3 DEF AbortedInv, Running, Guest, UsesOnly, Interrupted
<1>4. ASSUME NEW x, \/ Leave(x) \/ sys_clock_set_timeout(x) \/ Wake(x) \/ Abort(x)
                    \/ z_wasm_irq_enable(x) \/ z_wasm_irq_disable(x) \/ z_wasm_irq_raise(x)
      PROVE  AbortedInv'
  <2>1. /\ UNCHANGED <<current, live, ended, cur, saved>>
        /\ current \in alive => current \in alive'
        /\ request' = request \/ (live.who # None /\ request = "none" /\ request' # "switch")
    BY <1>4 DEF Leave, sys_clock_set_timeout, Wake, Abort, z_wasm_irq_enable, z_wasm_irq_disable,
                z_wasm_irq_raise, InCode, InThread, InBoot, InHandler, Guest
  <2> QED
    BY <2>1, OthersDead
<1>5. ASSUME NEW t \in App, NEW b, NEW ib, arch_new_thread(t, b) \/ z_cstart(t, b, ib)
      PROVE  AbortedInv'
  <2>1. /\ UNCHANGED <<current, live, ended, cur, request>> /\ live.who # None
        /\ current \in alive => current \in alive'
        /\ \A d \in AllBufs : saved'[d] = saved[d] \/ saved'[d] = NoChain
    BY <1>5 DEF arch_new_thread, z_cstart, InitBufs, InBoot, InThread, InHandler, Guest
  <2> QED
    BY <2>1, OthersDead
<1>6. CASE AfterDispatch
  BY <1>6, AfterDead
<1> QED
  BY <1>1, <1>2, <1>3, <1>4, <1>5, <1>6, InsideDead DEF GuestNext

(* The host's steps move chains and end runs; a switch it completes is to  *)
(* a living thread.                                                        *)
LEMMA HostDead ==
  ASSUME DummyInv, AbortedInv, [Next]_vars, ~(GuestNext /\ UNCHANGED hostVars)
  PROVE  AbortedInv'
<1>1. TypeOK /\ IInv /\ (ended = "no" => BoardInv)
  BY DEF DummyInv, IInv
<1>2. CASE RunStep
  <2>1. Between /\ UNCHANGED <<current, alive, ended, request>>
    BY <1>2 DEF RunStep
  <2>2. /\ live' = Running /\ UsesOnly(Running)
        /\ saved' = saved \/ saved' = [saved EXCEPT ![cur.buf] = NoChain]
    <3>1. CASE cur.fresh = 1
      BY <1>2, <2>1, <3>1, FreshUses DEF RunStep, Running, Between
    <3>2. CASE cur.fresh # 1
      BY <1>1, <1>2, <2>1, <3>2, BetweenFacts DEF RunStep, Running, AbortedInv
    <3> QED
      BY <3>1, <3>2
  <2>3. Running' = Running
    <3>1. live'.who = current /\ current # None
      BY <1>1, <2>1, <2>2, BetweenFacts, ThreadAssumption DEF TypeOK, Running, Entry
    <3> QED
      BY <2>2, <3>1 DEF Running
  <2>4. \A b \in AllBufs : UsesOnly(saved'[b])
    BY <1>1, <2>2, FreshUses DEF AbortedInv, TypeOK
  <2> QED
    BY <2>1, <2>2, <2>3, <2>4 DEF AbortedInv, UsesOnly
<1>3. ASSUME NEW b, Unwind(b) PROVE UsesOnly(live') /\ \A d \in AllBufs : UsesOnly(saved'[d])
  BY <1>1, <1>3, FreshUses DEF Unwind, TypeOK, AbortedInv
<1>4. CASE StepSwitch
  <2>1. current \in alive
    BY <1>1, <1>4 DEF StepSwitch, IInv, BoardInv, SwitchInv
  <2> QED
    BY <1>3, <1>4, <2>1 DEF StepSwitch, AbortedInv, UsesOnly
<1>5. CASE StepIdle
  <2>1. /\ live.who # None /\ cur.fresh = 0 /\ cur.buf \in AllBufs /\ request = "wait"
        /\ ended = "no"
    BY <1>1, <1>5 DEF StepIdle, IInv, BoardInv, SwitchInv, GuestInv, KernelInv, InUse, BufOf, AllBufs
  <2>2. Running = live /\ Running' = live
    BY <1>1, <1>5, <2>1 DEF StepIdle, Unwind, Running, NoChain, TypeOK, Context
  <2>3. UNCHANGED <<current, alive>>
    BY <1>5 DEF StepIdle
  <2> QED
    BY <1>3, <1>5, <2>1, <2>2, <2>3 DEF StepIdle, AbortedInv, UsesOnly
<1>6. ASSUME ended' # "no", live' = NoChain,
             \A b \in AllBufs : saved'[b] = saved[b] \/ saved'[b] = NoChain
      PROVE  AbortedInv'
  BY <1>6, FreshUses DEF AbortedInv, UsesOnly
<1>7. CASE BufferOverflow \/ Halt \/ checkDeadline
  BY <1>6, <1>7 DEF BufferOverflow, Halt, checkDeadline
<1>8. CASE RaiseTrap
  <2>1. \A b \in AllBufs : saved'[b] = saved[b] \/ saved'[b] = NoChain
    BY <1>1, <1>8 DEF RaiseTrap, TypeOK
  <2>2. CASE z_wasm_trap
    <3>1. PICK to : Swap([Entry(live.who) EXCEPT !.fn = "trap"], irq_masked, to)
      BY <2>2 DEF z_wasm_trap
    <3>2. UsesOnly([Entry(live.who) EXCEPT !.fn = "trap"])
      BY FreshUses
    <3>3. live'.fn = "trap" /\ live'.keys = <<>> /\ request' = "switch"
      BY <3>1 DEF Swap, z_wasm_switch, Entry
    <3>4. UsesOnly(live') /\ \A b \in AllBufs : UsesOnly(saved'[b])
      BY <2>1, <3>3, FreshUses DEF UsesOnly, AbortedInv
    <3> QED
      BY <3>3, <3>4 DEF AbortedInv, UsesOnly
  <2>3. CASE ~z_wasm_trap
    BY <1>6, <1>8, <2>1, <2>3 DEF RaiseTrap
  <2> QED
    BY <2>2, <2>3
<1>9. CASE Reboot
  <2>1. CASE GuestReset
    <3>1. live' = NoChain /\ current' = Dummy /\ \A b \in AllBufs : saved'[b] = NoChain
      BY <2>1 DEF GuestReset
    <3> QED
      BY <3>1, FreshUses, ThreadAssumption DEF AbortedInv, UsesOnly, Threads
  <2>2. CASE ~GuestReset
    BY <1>6, <1>9, <2>2 DEF Reboot
  <2> QED
    BY <2>1, <2>2
<1>10. ASSUME NEW l, InjectIrq(l) \/ input_poll(l) PROVE AbortedInv'
  BY <1>10, OthersDead DEF InjectIrq, input_poll, guestVars
<1>11. CASE Over \/ UNCHANGED vars
  BY <1>11, OthersDead DEF Over, vars, guestVars, hostVars
<1> QED
  BY <1>2, <1>4, <1>5, <1>7, <1>8, <1>9, <1>10, <1>11 DEF Next, HostNext

(* k_thread_abort(): a thread that has been aborted runs no more of its    *)
(* own code, however it was aborted, as long as whatever ran the handler   *)
(* that did it reschedules afterwards.                                     *)
THEOREM DeadStaysDead ==
  ASSUME HandlersReschedule
  PROVE  Spec => []DeadThreadStaysDead
<1>1. Init => AbortedInv
  BY FreshUses, ThreadAssumption DEF Init, GuestInit, AbortedInv, UsesOnly, Threads
<1>2. DummyInv /\ AbortedInv /\ [Next]_vars => AbortedInv'
  BY GuestDead, HostDead DEF DummyInv
<1>3. DummyInv /\ AbortedInv => DeadThreadStaysDead
  <2> SUFFICES ASSUME DummyInv, AbortedInv, InThread PROVE current \in alive
    BY DEF DeadThreadStaysDead
  <2>1. Guest /\ live.who = current /\ ended = "no" /\ request = "none" /\ Running = live
    BY GuestFacts DEF DummyInv, InThread, Guest, Running
  <2> QED
    BY <2>1 DEF InThread, AbortedInv, Interrupted
<1> QED
  BY <1>1, <1>2, <1>3, DummyInvariance, PTL DEF Spec

=============================================================================
