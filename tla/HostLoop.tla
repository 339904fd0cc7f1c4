------------------------------ MODULE HostLoop ------------------------------
(***************************************************************************)
(* The host's driver loop (runStep() and step() of host/core.mjs) around   *)
(* the guest of module WasmArch.                                           *)
(*                                                                         *)
(* Host and guest share one thread of execution.  The guest runs until an  *)
(* import suspends it, it traps, or it asks to be rebooted; everything the *)
(* outside world does (InjectIrq) happens between two steps, when nothing  *)
(* is on the engine's stack.                                               *)
(*                                                                         *)
(* Time is abstracted to whether an alarm is armed: which of several       *)
(* deadlines comes first is a choice here.                                 *)
(***************************************************************************)
EXTENDS WasmArch

CONSTANTS
  Interactive,  \* input may come from outside: idle never ends the run
  MaxTraps,     \* MAX_TRAPS
  MaxReboots    \* maxReboots

ASSUME HostAssumption ==
  /\ Interactive \in BOOLEAN
  /\ MaxTraps \in Nat
  /\ MaxReboots \in Nat

VARIABLES
  cur,          \* this.current, the context the next step enters
  contexts,     \* this.contexts, by buffer
  external,     \* this.externalIrqs
  traps,        \* this.traps
  reboots,      \* this.reboots
  ended         \* why the run is over, "no" while it is not

hostVars == <<cur, contexts, external, traps, reboots, ended>>
vars     == <<guestVars, hostVars>>

(* sp is the stack pointer a context is entered with: where its stack was  *)
(* created, or where it was when its frames were unwound.                  *)
Context == [entry : {"z_wasm_boot", "z_wasm_thread_entry", "z_wasm_trap", "none"},
            arg   : Threads \cup {Dummy}, buf : AllBufs \cup {NoBuf},
            sp    : {"created", "unwound"}, fresh : Bit]

NoContext == [entry |-> "none", arg |-> Dummy, buf |-> NoBuf,
              sp |-> "created", fresh |-> 0]

BootContext == [entry |-> "z_wasm_boot", arg |-> Dummy, buf |-> Scratch,
                sp |-> "created", fresh |-> 1]

(* deliverableIrqs() *)
Deliverable == IF irq_masked # 0 THEN {} ELSE Active

(* Nothing is on the engine's stack, and the run goes on. *)
Between == live.who = None /\ request = "none" /\ ended = "no"

-----------------------------------------------------------------------------
(* injectIrq(): the outside world raises a line between two steps. *)
InjectIrq(l) ==
  /\ Between
  /\ external' = external \cup {l}
  /\ UNCHANGED <<guestVars, cur, contexts, traps, reboots, ended>>

(* input_poll(): a handler that read one of several queued events has its  *)
(* line injected again while it runs.                                      *)
input_poll(l) ==
  /\ "raise" \in Calls
  /\ InHandler /\ l \in irq_enabled
  /\ external' = external \cup {l}
  /\ UNCHANGED <<guestVars, cur, contexts, traps, reboots, ended>>

(* runStep() up to the guest's entry: lines that have been enabled are     *)
(* moved to the pending word, the others stay latched; then the context is *)
(* entered at its function, rewinding its frames unless it is fresh.       *)
RunStep ==
  /\ Between
  /\ irq_pending' = irq_pending \cup (external \cap irq_enabled)
  /\ external' = external \ irq_enabled
  /\ IF cur.fresh = 1
       THEN live' = Entry(cur.arg) /\ UNCHANGED saved
       ELSE /\ live' = saved[cur.buf]
            /\ saved' = [saved EXCEPT ![cur.buf] = NoChain]
  /\ cur' = [cur EXCEPT !.fresh = 0]
  /\ UNCHANGED <<irq_masked, irq_enabled, nested, current, ready, alive,
                 threadVars, switch_block, timerVars, request, contexts,
                 traps, reboots, ended>>

(* Faulty variants: the context keeps the stack pointer it was created     *)
(* with; the frames go to the buffer the last switch named.                *)
Unwind_CreatedSp(b) ==
  /\ saved' = [saved EXCEPT ![b] = live]
  /\ contexts' = [contexts EXCEPT ![b] = [cur EXCEPT !.buf = b]]
  /\ live' = NoChain
  /\ request' = "none"

Unwind_StaleBlock(b) ==
  /\ saved' = [saved EXCEPT ![IF switch_block.from_buf = NoBuf THEN Scratch
                              ELSE switch_block.from_buf] = live]
  /\ contexts' = [contexts EXCEPT ![b] = [cur EXCEPT !.buf = b, !.sp = "unwound"]]
  /\ live' = NoChain
  /\ request' = "none"

(* suspend() and the part of step() that follows the unwind: the frames go *)
(* to buffer b, and the context is kept under it.                          *)
Unwind(b) ==
  /\ saved' = [saved EXCEPT ![b] = live]
  /\ contexts' = [contexts EXCEPT ![b] = [cur EXCEPT !.buf = b, !.sp = "unwound"]]
  /\ live' = NoChain
  /\ request' = "none"

(* The switch half of step(): the next context is a new one for a fresh    *)
(* thread, or the one kept under the buffer the guest names.               *)
StepSwitch ==
  /\ request = "switch"
  /\ Unwind(IF switch_block.from_buf = NoBuf THEN Scratch
                                             ELSE switch_block.from_buf)
  /\ LET blk == switch_block
     IN  IF blk.to_fresh = 1
           THEN /\ cur' = [entry |-> "z_wasm_thread_entry", arg |-> blk.to_arg,
                           buf |-> blk.to_buf, sp |-> "created", fresh |-> 1]
                /\ UNCHANGED ended
           ELSE /\ cur' = contexts'[blk.to_buf]
                /\ ended' = IF contexts'[blk.to_buf] = NoContext
                              THEN "unknown_context" ELSE ended
  /\ UNCHANGED <<irqVars, current, ready, alive, threadVars, switch_block,
                 timerVars, external, traps, reboots>>

(* The idle half of step(): the same context goes on, once there is        *)
(* something for it to take.  With nothing it could take, time moves to    *)
(* the next deadline: the alarm, or something from outside.  (A board that *)
(* takes input from outside does not look at the latched lines first.)     *)
(* With no deadline, or none but the kernel's clamp, an unattended run is  *)
(* over; a board that takes input goes round again, as it does when it is  *)
(* paced and its alarm is still ahead of the wall clock.                   *)
StepIdle ==
  /\ request = "wait"
  /\ Unwind(cur.buf)
  /\ cur' = [cur EXCEPT !.sp = "unwound"]
  /\ \/ /\ Deliverable # {} \/ (~Interactive /\ external \cap irq_enabled # {})
        /\ UNCHANGED <<irq_pending, alarm, external, ended>>
     \/ /\ Deliverable = {} /\ (Interactive \/ external \cap irq_enabled = {})
        /\ \/ /\ alarm
              /\ alarm' = FALSE
              /\ irq_pending' = irq_pending \cup {Timer}
              /\ UNCHANGED <<external, ended>>
           \/ /\ \E l \in Lines \ {Timer} : external' = external \cup {l}
              /\ UNCHANGED <<irq_pending, alarm, ended>>
           \/ /\ ended' = IF Interactive THEN ended ELSE "finished"
              /\ UNCHANGED <<irq_pending, alarm, external>>
  /\ UNCHANGED <<irq_masked, irq_enabled, nested, current, ready, alive,
                 threadVars, switch_block, timer_alarm, traps, reboots>>

(* checkBuffer(): the frames did not fit, and the run stops. *)
BufferOverflow ==
  /\ request \in {"switch", "wait"}
  /\ ended' = "overflow"
  /\ request' = "none" /\ live' = NoChain
  /\ UNCHANGED <<irqVars, current, ready, alive, threadVars, switch_block,
                 saved, timerVars, cur, contexts, external, traps, reboots>>

-----------------------------------------------------------------------------
(* raiseTrap(): the guest is entered again at z_wasm_trap() on the same    *)
(* stack, its buffer emptied.  The kernel's fatal error handler lets the   *)
(* thread be aborted, halts the system (the idle thread is essential), or  *)
(* traps itself, and so does a trap that cannot be raised.                 *)
RaiseTrap ==
  /\ request = "trap"
  /\ IF cur.buf # Scratch /\ cur.entry # "z_wasm_trap" /\ traps < MaxTraps
       THEN /\ traps' = traps + 1
            /\ saved' = [saved EXCEPT ![cur.buf] = NoChain]
            /\ cur' = [cur EXCEPT !.entry = "z_wasm_trap", !.arg = Dummy]
            /\ \/ /\ current \in App
                  /\ z_wasm_trap
                  /\ UNCHANGED ended
               \/ /\ ended' \in {"fatal", "trap"}
                  /\ live' = NoChain /\ request' = "none"
                  /\ UNCHANGED <<irq_masked, nested, current, ready, alive,
                                 irq_lock_key, fresh, switch_block>>
       ELSE /\ ended' = "trap"
            /\ live' = NoChain /\ request' = "none"
            /\ UNCHANGED <<irq_masked, nested, current, ready, alive, saved,
                           irq_lock_key, fresh, switch_block, cur, traps>>
  /\ UNCHANGED <<irq_pending, irq_enabled, asyncify_buf, timerVars, contexts,
                 external, reboots>>

(* The fatal import, from arch_system_halt(). *)
Halt ==
  /\ request = "halt"
  /\ ended' = "fatal"
  /\ live' = NoChain /\ request' = "none"
  /\ UNCHANGED <<irqVars, current, ready, alive, threadVars, switch_block,
                 saved, timerVars, cur, contexts, external, traps, reboots>>

(* A warm reboot: resetForReboot() and boot(), a new instance of the image *)
(* with the host's latched interrupts kept, until there have been too many.*)
Reboot ==
  /\ request = "reboot"
  /\ reboots' = reboots + 1
  /\ IF reboots < MaxReboots
       THEN /\ GuestReset
            /\ alarm' = FALSE
            /\ cur' = BootContext
            /\ contexts' = [b \in AllBufs |-> NoContext]
            /\ UNCHANGED <<external, traps, ended>>
       ELSE /\ ended' = "reboots"
            /\ live' = NoChain /\ request' = "none"
            /\ UNCHANGED <<irqVars, current, ready, alive, threadVars,
                           switch_block, saved, timerVars, cur, contexts,
                           external, traps>>

(* checkDeadline(), at the start of a step and from a safepoint: the run   *)
(* has used up its time.                                                   *)
checkDeadline ==
  /\ Between \/ AtSafepoint
  /\ ended' = "gave_up"
  /\ request' = "none" /\ live' = NoChain
  /\ UNCHANGED <<irqVars, current, ready, alive, threadVars, switch_block,
                 saved, timerVars, cur, contexts, external, traps, reboots>>

(* The run is over; nothing happens any more. *)
Over == ended # "no" /\ UNCHANGED vars

-----------------------------------------------------------------------------
Init ==
  /\ GuestInit
  /\ alarm = FALSE
  /\ cur = BootContext
  /\ contexts = [b \in AllBufs |-> NoContext]
  /\ external = {}
  /\ traps = 0
  /\ reboots = 0
  /\ ended = "no"

HostNext == \/ RunStep \/ StepSwitch \/ StepIdle \/ BufferOverflow
            \/ RaiseTrap \/ Halt \/ Reboot

Next == \/ GuestNext /\ UNCHANGED hostVars
        \/ HostNext
        \/ \E l \in Lines \ {Timer} : InjectIrq(l) \/ input_poll(l)
        \/ checkDeadline
        \/ Over

Spec == Init /\ [][Next]_vars

-----------------------------------------------------------------------------
(* Properties. *)

(* Types of the guest's words, of the host's bookkeeping and of every call *)
(* chain the engine or an Asyncify buffer can hold.                        *)
TypeOK ==
  /\ irq_pending \subseteq Lines
  /\ irq_masked \in Bit
  /\ irq_enabled \subseteq Lines
  /\ nested \in Nat
  /\ current \in Threads \cup {Dummy}
  /\ ready \subseteq App
  /\ alive \subseteq Threads
  /\ asyncify_buf \in [Threads \cup {Dummy} -> Bufs \cup {NoBuf}]
  /\ fresh \in [Threads \cup {Dummy} -> Bit]
  /\ irq_lock_key \in [Threads \cup {Dummy} -> Bit]
  /\ switch_block \in [from_buf : Bufs \cup {NoBuf}, to_buf : Bufs \cup {NoBuf},
                       to_fresh : Bit, to_arg : Threads \cup {Dummy}]
  /\ saved \in [AllBufs -> Chain]
  /\ timer_alarm \in BOOLEAN
  /\ alarm \in BOOLEAN
  /\ live \in Chain
  /\ request \in {"none", "switch", "wait", "trap", "halt", "reboot"}
  /\ cur \in Context
  /\ contexts \in [AllBufs -> Context]
  /\ external \subseteq Lines
  /\ traps \in Nat
  /\ reboots \in Nat
  /\ ended \in {"no", "finished", "fatal", "trap", "overflow", "reboots",
                "gave_up", "unknown_context"}

(* The chain that has the CPU: on the engine's stack, or the one the next  *)
(* step enters.                                                            *)
Running == IF live.who # None THEN live
           ELSE IF cur.fresh = 1 THEN Entry(cur.arg) ELSE saved[cur.buf]

(* A chain inside an interrupt handler or an offloaded routine. *)
Serving(c) == \/ c.pt \in {"isr", "isr_wait"}
              \/ c.fn = "offload" /\ c.pt \in {"body", "wait"}

(* No handler interrupts another or itself, whatever safepoints, waits and *)
(* suspensions happen inside it: the dispatcher runs each one masked, and  *)
(* _kernel.cpus[0].nested counts exactly the handler that is running.      *)
HandlersDoNotNest ==
  ended = "no" =>
    /\ nested = IF Serving(Running) THEN 1 ELSE 0
    /\ Serving(Running) => irq_masked = 1

(* The interrupt lock belongs to the thread: code of a thread runs masked  *)
(* exactly when that thread holds a lock, however often it was switched    *)
(* out, whatever the threads in between did with the mask, and after a     *)
(* handler that trapped with the mask set.                                 *)
MaskFollowsThread ==
  /\ InThread => irq_masked = IF live.keys = <<>> THEN 0 ELSE 1
  /\ Guest /\ live.who = Idle /\ live.pt = "body" => irq_masked = 0

(* The frames the host runs are those of the thread the kernel has made    *)
(* current: a context that is resumed finds in its buffer the frames of    *)
(* that thread, entered at the same function and with the stack pointer    *)
(* they were unwound with; and the host is never asked for a context it    *)
(* does not know.                                                          *)
ResumesOwnFrames ==
  /\ ended # "unknown_context"
  /\ Between =>
       /\ Running.who = current
       /\ cur.fresh = 0 =>
            /\ cur.sp = "unwound"
            /\ cur.entry = IF current = Dummy THEN "z_wasm_boot"
                                              ELSE "z_wasm_thread_entry"
  /\ ended = "no" /\ request \notin {"none", "switch"} => live.who = current

(* Frames are only ever unwound into an empty buffer: Asyncify appends at  *)
(* the cursor, so anything left in it would be rewound with them.          *)
UnwindsIntoEmptyBuffer ==
  /\ request = "switch" /\ switch_block.from_buf # NoBuf =>
       saved[switch_block.from_buf] = NoChain
  /\ request = "wait" => saved[cur.buf] = NoChain

(* A thread that has been aborted runs no more of its own code. *)
DeadThreadStaysDead == InThread => current \in alive

(* The idle thread waits for the host only when no thread is ready to run. *)
IdleWaitsOnlyWhenNothingReady ==
  request = "wait" /\ live.who = Idle /\ live.fn = "idle" => ready = {}

-----------------------------------------------------------------------------
(* The threads as the kernel sees them: every thread's own chain and mask, *)
(* wherever the frames and the mask happen to be kept.                     *)

NotEntered(t) == \/ fresh[t] = 1
                 \/ request = "switch" /\ switch_block.to_arg = t /\ switch_block.to_fresh = 1
                 \/ live.who = None /\ cur.fresh = 1 /\ cur.arg = t

ThreadChain(t) ==
  IF t \notin alive \cup {current} THEN NoChain
  ELSE IF live.who = t THEN live
  ELSE IF NotEntered(t) THEN Entry(t)
  ELSE saved[IF t = Dummy THEN Scratch ELSE asyncify_buf[t]]

ThreadMask(t) == IF t = current THEN irq_masked
                 ELSE IF t \in alive THEN irq_lock_key[t] ELSE 0

Machine == INSTANCE ThreadMachine WITH
  Thr     <- Threads \cup {Dummy},
  Boot    <- Dummy,
  Dead    <- NoChain,
  Start   <- Entry,
  running <- current,
  chain   <- [t \in Threads \cup {Dummy} |-> ThreadChain(t)],
  mask    <- [t \in Threads \cup {Dummy} |-> ThreadMask(t)]

(* Asyncify and the host's contexts implement threads: no step reaches the *)
(* call chain or the interrupt mask of a thread that is not running, and   *)
(* the CPU only goes to a thread that exists.                              *)
ImplementsThreads == Machine!MSpec

(* Suspending and resuming is invisible: unwinding a thread, picking the   *)
(* next context, waiting and rewinding change no thread's chain or mask,   *)
(* nor which thread is current.                                            *)
SuspensionIsTransparent ==
  [][ (RunStep \/ StepSwitch \/ StepIdle) /\ ended' = "no"
        => UNCHANGED Machine!mvars ]_vars

-----------------------------------------------------------------------------
(* Fairness.  The host's loop and the port's own functions go on when they *)
(* can.  Boot, handlers, critical sections and busy-waits end, however     *)
(* often they wait or suspend on the way; and a thread that runs on        *)
(* unmasked comes past a safepoint, which is what the instrumentation pass *)
(* puts into every loop.                                                   *)

OfGuest(A) == A /\ UNCHANGED hostVars

Continue == \/ SwapReturn \/ z_wasm_irq_dispatch \/ AfterDispatch
            \/ arch_cpu_idle \/ WaitReturn
            \/ live.who = Idle /\ (\E due \in BOOLEAN : z_wasm_safepoint(due))

BootEnds == SwitchToMain \/ \E t \in App, b, ib \in Bufs : z_cstart(t, b, ib)

TakesInterrupt == \E due \in BOOLEAN : z_wasm_safepoint(due) /\ live'.pt = "dispatch"

FairSpec ==
  /\ Spec
  /\ WF_vars(HostNext)
  /\ WF_vars(OfGuest(Continue))
  /\ SF_vars(OfGuest(BootEnds))
  /\ SF_vars(OfGuest(IsrReturn \/ OffloadReturn))
  /\ SF_vars(OfGuest(BusyWaitEnd))
  /\ SF_vars(OfGuest(arch_irq_unlock))
  /\ SF_vars(OfGuest(TakesInterrupt))

(* A raised line is served: once its bit is in the pending word and its    *)
(* driver has it enabled, its handler runs, unless the dispatcher is busy  *)
(* with a lower line, which goes first, or the board stops.                *)
RaisedLineIsServed ==
  \A l \in Lines :
    l \in irq_pending \cap irq_enabled ~>
      \/ l \notin irq_pending \cap irq_enabled
      \/ \E k \in Lines : k < l /\ live.pt = "isr" /\ live.irq = k
      \/ ended # "no"

=============================================================================
