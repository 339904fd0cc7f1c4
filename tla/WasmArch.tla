------------------------------ MODULE WasmArch ------------------------------
(***************************************************************************)
(* The guest half of the port: arch/wasm/core and the inline functions of  *)
(* include/zephyr/arch/wasm/arch.h, running under the Zephyr kernel.       *)
(*                                                                         *)
(* A wasm function cannot be preempted and cannot leave its own stack.  So *)
(* interrupts are bits of a word (irq_pending) that the guest looks at in  *)
(* a safepoint, in the idle loop and in a busy-wait, and a thread switch   *)
(* or a wait is a REQUEST to the host, which unwinds the wasm frames into  *)
(* the thread's Asyncify buffer and later rewinds the same or another      *)
(* thread's.                                                               *)
(*                                                                         *)
(* `live' is the call chain the engine is executing, `saved' the chains    *)
(* that the Asyncify buffers hold.  The chain of a thread is kept to what  *)
(* the properties tell apart: which function of the port it is in, at      *)
(* which point of it, and the interrupt keys its C frames hold.            *)
(*                                                                         *)
(* The kernel (scheduler, thread objects, the idle thread's loop) is not   *)
(* part of this repository.  It appears as the sets `ready' and `alive',   *)
(* the variable `current' and a scheduler that may pick any ready thread,  *)
(* and the idle thread only when there is none.                            *)
(***************************************************************************)
EXTENDS Integers, Sequences

CONSTANTS
  App,          \* threads an application may create
  Idle,         \* the idle thread
  Dummy,        \* the thread object the kernel boots on
  None,         \* "no thread": nothing is on the engine's stack
  Bufs,         \* Asyncify buffers, one per thread stack object
  Scratch,      \* boot_scratch
  NoBuf,        \* the zero asyncify_buf of the dummy thread
  Lines,        \* interrupt lines in use, numbered as in irq_lines.mjs
  Timer,        \* WASM_IRQ_TIMER
  Safepoints,   \* CONFIG_WASM_SAFEPOINTS
  Calls,        \* the services the application's code makes use of
  MaxLocks      \* bound: how deep a thread nests arch_irq_lock()

Threads == App \cup {Idle}
AllBufs == Bufs \cup {Scratch}

(* Every service an application can use; a run restricts them with Calls. *)
AllCalls == {"lock", "busy_wait", "atomic_idle", "offload", "create", "abort",
             "isr_abort", "disable", "raise", "timeout", "trap", "halt",
             "reboot"}

ASSUME ThreadAssumption ==
  /\ Idle \notin App
  /\ Dummy \notin Threads
  /\ None \notin Threads \cup {Dummy}

ASSUME BufAssumption ==
  /\ Scratch \notin Bufs
  /\ NoBuf \notin AllBufs

ASSUME LineAssumption == Lines \subseteq Nat /\ Timer \in Lines

ASSUME ConfigAssumption ==
  /\ Safepoints \in BOOLEAN
  /\ Calls \subseteq AllCalls
  /\ MaxLocks \in Nat

VARIABLES
  irq_pending,  \* z_wasm_irq_pending, as a set of lines
  irq_masked,   \* z_wasm_irq_masked
  irq_enabled,  \* irq_enabled_mask
  nested,       \* _kernel.cpus[0].nested
  current,      \* the kernel's _current
  ready,        \* application threads the scheduler may pick
  alive,        \* threads created and not yet dead
  asyncify_buf, \* callee_saved.asyncify_buf of every thread
  fresh,        \* callee_saved.fresh of every thread
  irq_lock_key, \* arch.irq_lock_key of every thread
  switch_block, \* z_wasm_switch_block
  saved,        \* what each Asyncify buffer holds
  timer_alarm,  \* z_wasm_timer_alarm_ns names a deadline
  alarm,        \* the host's alarm is armed: what set_alarm_ns() did last
  live,         \* the call chain on the engine's stack
  request       \* the import that is suspending the guest, if one is

irqVars    == <<irq_pending, irq_masked, irq_enabled, nested>>
threadVars == <<asyncify_buf, fresh, irq_lock_key>>
timerVars  == <<timer_alarm, alarm>>
guestVars  == <<irqVars, current, ready, alive, threadVars, switch_block,
                saved, timerVars, live, request>>

-----------------------------------------------------------------------------
(* Call chains.  fn is the function of the port the thread is in, pt the   *)
(* point of it: "body" before or after a call it makes, "dispatch" in      *)
(* z_wasm_irq_dispatch's loop, "isr" in a handler, "after" back from the   *)
(* dispatcher, "wait" and "isr_wait" in wait_for_event, "swap" in switch_to.*)

Fns == {"none", "code", "enter", "safepoint", "idle", "idle_early",
        "atomic_idle", "busy_wait", "offload", "trap"}
Points == {"body", "dispatch", "isr", "after", "wait", "isr_wait", "swap"}
Bit == {0, 1}
NoLine == -1

Chain == [who : Threads \cup {Dummy, None}, fn : Fns, pt : Points,
          keys : Seq(Bit), key : Bit, irq : Lines \cup {NoLine}]

(* z_wasm_thread_entry(t), or z_wasm_boot() for the dummy thread. *)
Entry(t) == [who |-> t, fn |-> "code", pt |-> "body", keys |-> <<>>,
             key |-> 0, irq |-> NoLine]

NoChain == [who |-> None, fn |-> "none", pt |-> "body", keys |-> <<>>,
            key |-> 0, irq |-> NoLine]

At(c, fn, pt) == [c EXCEPT !.fn = fn, !.pt = pt]

(* z_wasm_irq_active() *)
Active == irq_pending \cap irq_enabled

(* __builtin_ctz(): the lowest line of a non-empty set. *)
Lowest(S) == CHOOSE l \in S : \A k \in S : l <= k

Guest == request = "none" /\ live.who # None

InThread  == Guest /\ live.who \in App /\ live.fn = "code" /\ live.pt = "body"
InBoot    == Guest /\ live.who = Dummy /\ live.pt = "body"
InHandler == /\ Guest
             /\ \/ live.pt = "isr"
                \/ live.fn = "offload" /\ live.pt = "body"
InCode    == InThread \/ InBoot \/ InHandler

(* Where the instrumentation pass puts a safepoint: at the top of every    *)
(* loop body, those of the idle loop and of arch_busy_wait() included.     *)
IdleLoop    == live.who = Idle /\ live.fn = "code" /\ live.pt = "body"
WaitLoop    == live.fn = "busy_wait" /\ live.pt = "body"
AtSafepoint == Safepoints /\ (InCode \/ (Guest /\ (IdleLoop \/ WaitLoop)))

-----------------------------------------------------------------------------
(* Switching. *)

(* A faulty variant: the incoming thread runs with the mask of do_swap().  *)
z_wasm_switch_LosesMask(c, key, masked, to) ==
  /\ irq_lock_key' = [irq_lock_key EXCEPT ![current] = masked]
  /\ irq_masked' = masked
  /\ switch_block' = [from_buf |-> asyncify_buf[current],
                      to_buf   |-> asyncify_buf[to],
                      to_fresh |-> fresh[to],
                      to_arg   |-> to]
  /\ fresh' = [fresh EXCEPT ![to] = 0]
  /\ live' = [c EXCEPT !.pt = "swap", !.key = key]
  /\ request' = "switch"

(* z_wasm_switch(): the outgoing thread keeps the mask it was switched out *)
(* with, the incoming one gets its own back, and the block tells the host  *)
(* which buffers to use.  c is the caller's chain, which switch_to leaves  *)
(* suspended at "swap".                                                    *)
z_wasm_switch(c, key, masked, to) ==
  /\ irq_lock_key' = [irq_lock_key EXCEPT ![current] = masked]
  /\ irq_masked' = irq_lock_key[to]
  /\ switch_block' = [from_buf |-> asyncify_buf[current],
                      to_buf   |-> asyncify_buf[to],
                      to_fresh |-> fresh[to],
                      to_arg   |-> to]
  /\ fresh' = [fresh EXCEPT ![to] = 0]
  /\ live' = [c EXCEPT !.pt = "swap", !.key = key]
  /\ request' = "switch"

(* The kernel's do_swap(): it runs with interrupts locked, makes the next  *)
(* thread current and calls arch_switch().  key is the lock its caller     *)
(* took, released when the thread runs again.                              *)
Swap(c, key, to) ==
  /\ current' = to
  /\ z_wasm_switch(c, key, 1, to)

Candidates(S) == IF S = {} THEN {Idle} ELSE S

(* A faulty variant: the caller goes on whatever the handlers did. *)
Reschedule_Skipped(c) ==
  /\ live' = c
  /\ UNCHANGED <<current, irq_masked, irq_lock_key, fresh, switch_block, request>>

(* z_reschedule_unlocked(), the caller going on at chain c. *)
Reschedule(c) ==
  \/ /\ irq_masked = 0 /\ nested = 0
     /\ \E to \in Candidates(ready) \ {current} : Swap(c, 0, to)
  \/ /\ irq_masked = 0 /\ nested = 0 => current \in Candidates(ready)
     /\ live' = c
     /\ UNCHANGED <<current, irq_masked, irq_lock_key, fresh, switch_block,
                    request>>

(* Back in do_swap() once the host has rewound the thread. *)
SwapReturn ==
  /\ Guest /\ live.pt = "swap"
  /\ irq_masked' = live.key
  /\ live' = [live EXCEPT !.pt = "body", !.key = 0]
  /\ UNCHANGED <<irq_pending, irq_enabled, nested, current, ready, alive,
                 threadVars, switch_block, saved, timerVars, request>>

(* The headers arch_new_thread() writes: the cursor back at the start. *)
InitBufs(bs) == [b \in AllBufs |-> IF b \in bs THEN NoChain ELSE saved[b]]

(* arch_new_thread(), for a thread object and a stack object that nothing  *)
(* is using.                                                               *)
arch_new_thread(t, b) ==
  /\ "create" \in Calls
  /\ InThread \/ InHandler
  /\ t \in App \ alive
  /\ t # current
  /\ \A u \in alive \cup {current} : asyncify_buf[u] # b
  /\ asyncify_buf' = [asyncify_buf EXCEPT ![t] = b]
  /\ fresh' = [fresh EXCEPT ![t] = 1]
  /\ irq_lock_key' = [irq_lock_key EXCEPT ![t] = 0]
  /\ saved' = InitBufs({b})
  /\ alive' = alive \cup {t}
  /\ ready' = ready \cup {t}
  /\ UNCHANGED <<irqVars, current, switch_block, timerVars, live, request>>

(* z_cstart(): the boot path makes the idle thread and main, and at its    *)
(* end switches to main from the dummy thread, which is never run again.   *)
z_cstart(main, b, ib) ==
  /\ InBoot /\ alive = {}
  /\ b # ib
  /\ asyncify_buf' = [asyncify_buf EXCEPT ![main] = b, ![Idle] = ib]
  /\ fresh' = [fresh EXCEPT ![main] = 1, ![Idle] = 1]
  /\ irq_lock_key' = [irq_lock_key EXCEPT ![main] = 0, ![Idle] = 0]
  /\ saved' = InitBufs({b, ib})
  /\ alive' = {main, Idle}
  /\ ready' = {main}
  /\ UNCHANGED <<irqVars, current, switch_block, timerVars, live, request>>

SwitchToMain ==
  /\ InBoot
  /\ \E main \in ready : Swap(live, irq_masked, main)
  /\ UNCHANGED <<irq_pending, irq_enabled, nested, ready, alive, asyncify_buf,
                 saved, timerVars>>

-----------------------------------------------------------------------------
(* The dispatcher. *)

(* The handler of a line is entered masked and counted, its bit cleared    *)
(* first so that a line raised again meanwhile is not lost.                *)
EnterIsr(l) ==
  /\ irq_pending' = irq_pending \ {l}
  /\ nested' = nested + 1
  /\ irq_masked' = 1
  /\ live' = [live EXCEPT !.pt = "isr", !.irq = l]
  /\ UNCHANGED irq_enabled

(* z_wasm_irq_dispatch(), one turn of its loop: take the lowest active     *)
(* line, or go back.                                                       *)
z_wasm_irq_dispatch ==
  /\ Guest /\ live.pt = "dispatch"
  /\ \/ /\ irq_masked = 0 /\ Active # {}
        /\ EnterIsr(Lowest(Active))
     \/ /\ irq_masked # 0 \/ Active = {}
        /\ live' = [live EXCEPT !.pt = "after"]
        /\ UNCHANGED irqVars
  /\ UNCHANGED <<current, ready, alive, threadVars, switch_block, saved,
                 timerVars, request>>

(* A faulty variant: the mask stays set after the handler. *)
IsrReturn_StaysMasked ==
  /\ Guest /\ live.pt = "isr"
  /\ nested' = nested - 1
  /\ live' = [live EXCEPT !.pt = "dispatch", !.irq = NoLine]
  /\ UNCHANGED <<irq_pending, irq_masked, irq_enabled, current, ready, alive,
                 threadVars, switch_block, saved, timerVars, request>>

(* The handler returns to the dispatcher's loop. *)
IsrReturn ==
  /\ Guest /\ live.pt = "isr"
  /\ irq_masked' = 0
  /\ nested' = nested - 1
  /\ live' = [live EXCEPT !.pt = "dispatch", !.irq = NoLine]
  /\ UNCHANGED <<irq_pending, irq_enabled, current, ready, alive, threadVars,
                 switch_block, saved, timerVars, request>>

(* safepoint_tick(): the host moves the clock along, and raises the timer  *)
(* if its alarm has fallen due.                                            *)
safepoint_tick(due) ==
  IF due /\ alarm
    THEN irq_pending' = irq_pending \cup {Timer} /\ alarm' = FALSE
    ELSE UNCHANGED <<irq_pending, alarm>>

(* z_wasm_safepoint(): with nothing pending, or masked, it goes straight   *)
(* on; otherwise it dispatches.  The idle loop goes on to arch_cpu_idle()  *)
(* (fn "enter").                                                           *)
z_wasm_safepoint(due) ==
  /\ AtSafepoint
  /\ safepoint_tick(due)
  /\ live' = IF irq_pending' # {} /\ irq_masked = 0
               THEN At(live, IF WaitLoop THEN "busy_wait" ELSE "safepoint",
                       "dispatch")
               ELSE IF IdleLoop THEN At(live, "enter", "body") ELSE live
  /\ UNCHANGED <<irq_masked, irq_enabled, nested, current, ready, alive,
                 threadVars, switch_block, saved, timer_alarm, request>>

(* What a caller does after its dispatch.  A safepoint, an offload and a   *)
(* busy-wait reschedule; arch_cpu_idle() reschedules after a wait, but not *)
(* on its early return; arch_cpu_atomic_idle() puts its caller's mask back.*)
AfterDispatch ==
  /\ Guest /\ live.pt = "after"
  /\ \/ /\ live.fn \in {"safepoint", "offload"}
        /\ Reschedule(At(live, IF live.who = Idle THEN "enter" ELSE "code", "body"))
     \/ /\ live.fn = "busy_wait"
        /\ Reschedule(At(live, "busy_wait", "body"))
     \/ /\ live.fn = "idle"
        /\ Reschedule(At(live, "code", "body"))
     \/ /\ live.fn = "idle_early"
        /\ live' = At(live, "code", "body")
        /\ UNCHANGED <<current, irq_masked, irq_lock_key, fresh, switch_block,
                       request>>
     \/ /\ live.fn = "atomic_idle"
        /\ irq_masked' = live.key
        /\ live' = [At(live, "code", "body") EXCEPT !.key = 0]
        /\ UNCHANGED <<current, irq_lock_key, fresh, switch_block, request>>
  /\ UNCHANGED <<irq_pending, irq_enabled, nested, ready, alive, asyncify_buf,
                 saved, timerVars>>

-----------------------------------------------------------------------------
(* Waiting.  wait_for_event() is the other import that suspends. *)

(* arch_cpu_idle(), called by the idle loop with interrupts locked: an     *)
(* interrupt that is already there is dispatched on the spot.              *)
arch_cpu_idle ==
  /\ Guest /\ live.who = Idle /\ live.pt = "body"
  /\ live.fn = IF Safepoints THEN "enter" ELSE "code"
  /\ irq_masked' = 0
  /\ live' = IF Active # {} THEN At(live, "idle_early", "dispatch")
                            ELSE At(live, "idle", "wait")
  /\ request' = IF Active # {} THEN request ELSE "wait"
  /\ UNCHANGED <<irq_pending, irq_enabled, nested, current, ready, alive,
                 threadVars, switch_block, saved, timerVars>>

(* arch_cpu_atomic_idle(key), called by a thread that has locked           *)
(* interrupts: the mask is open for the wait and key is put back after.    *)
arch_cpu_atomic_idle ==
  /\ "atomic_idle" \in Calls
  /\ InThread /\ live.keys # <<>>
  /\ irq_masked' = 0
  /\ live' = [live EXCEPT !.fn = "atomic_idle",
                          !.pt = IF Active # {} THEN "dispatch" ELSE "wait",
                          !.key = live.keys[Len(live.keys)],
                          !.keys = SubSeq(@, 1, Len(@) - 1)]
  /\ request' = IF Active # {} THEN request ELSE "wait"
  /\ UNCHANGED <<irq_pending, irq_enabled, nested, current, ready, alive,
                 threadVars, switch_block, saved, timerVars>>

(* arch_busy_wait() of a thread, one turn of its loop: it borrows the      *)
(* host's alarm to wait, and gives the kernel's back when it is done.      *)
BusyWaitStart ==
  /\ "busy_wait" \in Calls
  /\ InThread
  /\ live' = At(live, "busy_wait", "body")
  /\ UNCHANGED <<irqVars, current, ready, alive, threadVars, switch_block,
                 saved, timerVars, request>>

BusyWaitTurn ==
  /\ Guest /\ live.fn = "busy_wait" /\ live.pt = "body"
  /\ live' = At(live, "busy_wait", "wait")
  /\ alarm' = TRUE
  /\ request' = "wait"
  /\ UNCHANGED <<irqVars, current, ready, alive, threadVars, switch_block,
                 saved, timer_alarm>>

BusyWaitEnd ==
  /\ Guest /\ live.fn = "busy_wait" /\ live.pt = "body"
  /\ live' = At(live, "code", "body")
  /\ alarm' = timer_alarm
  /\ UNCHANGED <<irqVars, current, ready, alive, threadVars, switch_block,
                 saved, timer_alarm, request>>

(* arch_busy_wait() in a handler or in the boot path, where interrupts are *)
(* masked throughout: it only waits.                                       *)
BusyWaitMasked ==
  /\ "busy_wait" \in Calls
  /\ InHandler \/ InBoot
  /\ live' = [live EXCEPT !.pt = IF live.pt = "isr" THEN "isr_wait" ELSE "wait"]
  /\ alarm' = TRUE
  /\ request' = "wait"
  /\ UNCHANGED <<irqVars, current, ready, alive, threadVars, switch_block,
                 saved, timer_alarm>>

(* wait_for_event() returns: idle dispatches what is active, a busy-wait   *)
(* does so unless it is masked.                                            *)
WaitReturn ==
  /\ Guest /\ live.pt \in {"wait", "isr_wait"}
  /\ LET takes == /\ live.fn \in {"idle", "atomic_idle", "busy_wait"}
                  /\ live.fn = "busy_wait" => irq_masked = 0
                  /\ Active # {}
     IN  live' = [live EXCEPT !.pt =
                    CASE live.pt = "isr_wait" -> "isr"
                      [] live.pt = "wait" /\ takes -> "dispatch"
                      [] live.pt = "wait" /\ ~takes /\ live.fn \in {"idle", "atomic_idle"} -> "after"
                      [] OTHER -> "body"]
  /\ alarm' = IF live.pt = "isr_wait" \/ live.fn \in {"code", "offload"}
                THEN timer_alarm ELSE alarm
  /\ UNCHANGED <<irqVars, current, ready, alive, threadVars, switch_block,
                 saved, timer_alarm, request>>

-----------------------------------------------------------------------------
(* What application and driver code does. *)

(* arch_irq_lock(), the key kept in the caller's frame. *)
arch_irq_lock ==
  /\ "lock" \in Calls
  /\ InThread /\ Len(live.keys) < MaxLocks
  /\ live' = [live EXCEPT !.keys = Append(@, irq_masked)]
  /\ irq_masked' = 1
  /\ UNCHANGED <<irq_pending, irq_enabled, nested, current, ready, alive,
                 threadVars, switch_block, saved, timerVars, request>>

(* arch_irq_unlock(key) *)
arch_irq_unlock ==
  /\ InThread /\ live.keys # <<>>
  /\ irq_masked' = live.keys[Len(live.keys)]
  /\ live' = [live EXCEPT !.keys = SubSeq(@, 1, Len(@) - 1)]
  /\ UNCHANGED <<irq_pending, irq_enabled, nested, current, ready, alive,
                 threadVars, switch_block, saved, timerVars, request>>

(* arch_irq_offload(): the routine runs as a handler would. *)
arch_irq_offload ==
  /\ "offload" \in Calls
  /\ InThread
  /\ live' = [At(live, "offload", "body") EXCEPT !.key = irq_masked]
  /\ irq_masked' = 1
  /\ nested' = nested + 1
  /\ UNCHANGED <<irq_pending, irq_enabled, current, ready, alive, threadVars,
                 switch_block, saved, timerVars, request>>

OffloadReturn ==
  /\ Guest /\ live.fn = "offload" /\ live.pt = "body"
  /\ nested' = nested - 1
  /\ irq_masked' = live.key
  /\ live' = [live EXCEPT !.pt = "after", !.key = 0]
  /\ UNCHANGED <<irq_pending, irq_enabled, current, ready, alive, threadVars,
                 switch_block, saved, timerVars, request>>

(* A thread blocks (k_sem_take, k_sleep): it leaves the ready set and      *)
(* swaps, whatever locks it holds.                                         *)
Block ==
  /\ InThread
  /\ ready' = ready \ {current}
  /\ \E to \in Candidates(ready') : Swap(live, irq_masked, to)
  /\ UNCHANGED <<irq_pending, irq_enabled, nested, alive, asyncify_buf, saved,
                 timerVars>>

(* A kernel call that reschedules (k_yield, or the end of k_sem_give). *)
Yield ==
  /\ InThread
  /\ Reschedule(live)
  /\ UNCHANGED <<irq_pending, irq_enabled, nested, ready, alive, asyncify_buf,
                 saved, timerVars>>

(* A thread that was blocked is made ready. *)
Wake(t) ==
  /\ InThread \/ InHandler
  /\ t \in (alive \cap App) \ ready
  /\ ready' = ready \cup {t}
  /\ UNCHANGED <<irqVars, current, alive, threadVars, switch_block, saved,
                 timerVars, live, request>>

(* k_thread_abort(), z_fatal_error() included: of another thread, of the   *)
(* caller, which switches away for good, or from a handler of the thread   *)
(* it interrupted, which is left to whatever reschedules next.             *)
Abort(t) ==
  /\ "abort" \in Calls
  /\ InThread \/ InHandler
  /\ t \in (alive \cap App) \ {current}
  /\ alive' = alive \ {t}
  /\ ready' = ready \ {t}
  /\ UNCHANGED <<irqVars, current, threadVars, switch_block, saved, timerVars,
                 live, request>>

AbortSelf ==
  /\ "abort" \in Calls
  /\ InThread
  /\ alive' = alive \ {current}
  /\ ready' = ready \ {current}
  /\ \E to \in Candidates(ready') : Swap(live, irq_masked, to)
  /\ UNCHANGED <<irq_pending, irq_enabled, nested, asyncify_buf, saved,
                 timerVars>>

AbortInterrupted ==
  /\ "isr_abort" \in Calls
  /\ InHandler /\ current \in alive \cap App
  /\ alive' = alive \ {current}
  /\ ready' = ready \ {current}
  /\ UNCHANGED <<irqVars, current, threadVars, switch_block, saved, timerVars,
                 live, request>>

(* z_wasm_irq_enable() and z_wasm_irq_disable() *)
z_wasm_irq_enable(l) ==
  /\ InCode /\ l \notin irq_enabled
  /\ irq_enabled' = irq_enabled \cup {l}
  /\ UNCHANGED <<irq_pending, irq_masked, nested, current, ready, alive,
                 threadVars, switch_block, saved, timerVars, live, request>>

z_wasm_irq_disable(l) ==
  /\ "disable" \in Calls
  /\ InCode /\ l \in irq_enabled
  /\ irq_enabled' = irq_enabled \ {l}
  /\ UNCHANGED <<irq_pending, irq_masked, nested, current, ready, alive,
                 threadVars, switch_block, saved, timerVars, live, request>>

(* z_wasm_irq_raise(): a driver raises its own line (the UART's            *)
(* transmitter).                                                           *)
z_wasm_irq_raise(l) ==
  /\ "raise" \in Calls
  /\ InCode /\ l \in irq_enabled \ irq_pending
  /\ irq_pending' = irq_pending \cup {l}
  /\ UNCHANGED <<irq_masked, irq_enabled, nested, current, ready, alive,
                 threadVars, switch_block, saved, timerVars, live, request>>

(* sys_clock_set_timeout(): the system timer arms the host's alarm, or     *)
(* tells it there is no deadline.                                          *)
sys_clock_set_timeout(on) ==
  /\ "timeout" \in Calls
  /\ InCode /\ timerVars # <<on, on>>
  /\ timer_alarm' = on
  /\ alarm' = on
  /\ UNCHANGED <<irqVars, current, ready, alive, threadVars, switch_block,
                 saved, live, request>>

(* Code that traps, halts the system (arch_system_halt) or asks for a warm *)
(* reboot leaves the guest by other ways than a suspension.                *)
Leave(how) ==
  /\ how \in Calls \cap {"trap", "halt", "reboot"}
  /\ InCode
  /\ request' = how
  /\ UNCHANGED <<irqVars, current, ready, alive, threadVars, switch_block,
                 saved, timerVars, live>>

-----------------------------------------------------------------------------
(* Faulty variants: the count of the handler that trapped is left as it    *)
(* was; the thread is not aborted.                                         *)
z_wasm_trap_StillNested ==
  /\ alive' = alive \ {current}
  /\ ready' = ready \ {current}
  /\ \E to \in Candidates(ready') :
       Swap([Entry(live.who) EXCEPT !.fn = "trap"], irq_masked, to)
  /\ UNCHANGED nested

z_wasm_trap_NotAborted ==
  /\ nested' = 0
  /\ ready' = ready \ {current}
  /\ \E to \in Candidates(ready') :
       Swap([Entry(live.who) EXCEPT !.fn = "trap"], irq_masked, to)
  /\ UNCHANGED alive

(* z_wasm_trap(), entered by the host on the trapped thread's stack: the   *)
(* frames, a handler's included, are gone, so the count goes back to       *)
(* thread level, and the current thread is aborted and switched away from. *)
z_wasm_trap ==
  /\ nested' = 0
  /\ alive' = alive \ {current}
  /\ ready' = ready \ {current}
  /\ \E to \in Candidates(ready') :
       Swap([Entry(live.who) EXCEPT !.fn = "trap"], irq_masked, to)

(* The image as the engine instantiates it, about to run z_wasm_boot(). *)
GuestInit ==
  /\ irq_pending = {}
  /\ irq_masked = 1
  /\ irq_enabled = {}
  /\ nested = 0
  /\ current = Dummy
  /\ ready = {}
  /\ alive = {}
  /\ asyncify_buf = [t \in Threads \cup {Dummy} |-> NoBuf]
  /\ fresh = [t \in Threads \cup {Dummy} |-> 0]
  /\ irq_lock_key = [t \in Threads \cup {Dummy} |-> 0]
  /\ switch_block = [from_buf |-> NoBuf, to_buf |-> NoBuf, to_fresh |-> 0,
                     to_arg |-> Dummy]
  /\ saved = [b \in AllBufs |-> NoChain]
  /\ timer_alarm = FALSE
  /\ live = NoChain
  /\ request = "none"

(* The same after a warm reboot: a new instance, nothing of the old one. *)
GuestReset ==
  /\ irq_pending' = {}
  /\ irq_masked' = 1
  /\ irq_enabled' = {}
  /\ nested' = 0
  /\ current' = Dummy
  /\ ready' = {}
  /\ alive' = {}
  /\ asyncify_buf' = [t \in Threads \cup {Dummy} |-> NoBuf]
  /\ fresh' = [t \in Threads \cup {Dummy} |-> 0]
  /\ irq_lock_key' = [t \in Threads \cup {Dummy} |-> 0]
  /\ switch_block' = [from_buf |-> NoBuf, to_buf |-> NoBuf, to_fresh |-> 0,
                     to_arg |-> Dummy]
  /\ saved' = [b \in AllBufs |-> NoChain]
  /\ timer_alarm' = FALSE
  /\ live' = NoChain
  /\ request' = "none"

GuestNext ==
  \/ SwitchToMain \/ SwapReturn \/ z_wasm_irq_dispatch \/ IsrReturn \/ AfterDispatch
  \/ arch_cpu_idle \/ arch_cpu_atomic_idle \/ WaitReturn
  \/ BusyWaitStart \/ BusyWaitTurn \/ BusyWaitEnd \/ BusyWaitMasked
  \/ arch_irq_lock \/ arch_irq_unlock \/ arch_irq_offload \/ OffloadReturn
  \/ Block \/ Yield \/ AbortSelf \/ AbortInterrupted
  \/ \E due \in BOOLEAN : z_wasm_safepoint(due)
  \/ \E on \in BOOLEAN : sys_clock_set_timeout(on)
  \/ \E how \in {"trap", "halt", "reboot"} : Leave(how)
  \/ \E t \in App : Wake(t) \/ Abort(t)
  \/ \E t \in App, b \in Bufs : arch_new_thread(t, b)
  \/ \E t \in App, b, ib \in Bufs : z_cstart(t, b, ib)
  \/ \E l \in Lines : \/ z_wasm_irq_enable(l) \/ z_wasm_irq_disable(l)
                      \/ z_wasm_irq_raise(l)

=============================================================================
