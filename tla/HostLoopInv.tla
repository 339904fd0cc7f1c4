----------------------------- MODULE HostLoopInv -----------------------------
(***************************************************************************)
(* The inductive invariant behind the safety properties of HostLoop.       *)
(*                                                                         *)
(* The properties speak of the moment a thread runs; for them to hold      *)
(* after every step, everything a suspended thread will need has to be in  *)
(* order while it waits: its frames in its own buffer, its context under   *)
(* that buffer, its mask in its own key.                                   *)
(***************************************************************************)
EXTENDS HostLoop

BufOf(t) == IF t = Dummy THEN Scratch ELSE asyncify_buf[t]

(* The mask a thread's own locks call for. *)
LockMask(c) == IF c.who = Dummy \/ c.keys # <<>> THEN 1 ELSE 0

(* The keys in a thread's frames: the outermost lock found the mask open,  *)
(* the ones inside it found it set.                                        *)
LockKeys(keys) == \A i \in 1..Len(keys) : keys[i] = IF i = 1 THEN 0 ELSE 1

(* The shapes a call chain can have. *)
GoodChain(c) ==
  /\ LockKeys(c.keys)
  /\ c.who \in Threads \cup {Dummy}
  /\ c.who = Dummy => /\ c.fn = "code" /\ c.keys = <<>>
                      /\ c.pt \in {"body", "wait", "swap"}
  /\ c.who = Idle  => /\ c.fn \in {"code", "enter", "safepoint", "idle", "idle_early"}
                      /\ c.keys = <<>>
  /\ c.who \in App => c.fn \in {"code", "safepoint", "atomic_idle", "busy_wait", "offload"}
  /\ c.fn \in {"code", "enter"} => c.pt \in {"body", "swap"} \/ c.who = Dummy
  /\ c.fn = "safepoint" => /\ c.pt \in {"dispatch", "isr", "isr_wait", "after"}
                           /\ c.keys = <<>>
  /\ c.fn = "idle" => c.pt \in {"wait", "dispatch", "isr", "isr_wait", "after"}
  /\ c.fn = "idle_early" => c.pt \in {"dispatch", "isr", "isr_wait", "after"}
  /\ c.fn = "atomic_idle" => /\ c.pt \in {"wait", "dispatch", "isr", "isr_wait", "after"}
                             /\ c.key = LockMask(c)
  /\ c.fn = "busy_wait" /\ c.pt \notin {"body", "wait", "swap"} => c.keys = <<>>
  /\ c.fn = "offload" => c.pt \in {"body", "wait", "after"}
  /\ c.fn = "offload" /\ c.pt # "after" => c.key = LockMask(c)
  /\ c.pt = "swap" => c.key = LockMask(c)

(* The mask a chain must find when it goes on. *)
MaskAt(c) ==
  IF c.pt = "swap" \/ Serving(c) THEN 1
  ELSE IF \/ c.pt = "dispatch"
          \/ c.fn \in {"safepoint", "idle", "idle_early", "atomic_idle", "enter"}
  THEN 0
  ELSE LockMask(c)

(* A thread that is switched out and not yet fresh-started can be resumed. *)
Resumable(t) ==
  LET b == asyncify_buf[t]
  IN  /\ GoodChain(saved[b]) /\ saved[b].who = t /\ saved[b].pt = "swap"
      /\ contexts[b] = [entry |-> "z_wasm_thread_entry", arg |-> t, buf |-> b,
                        sp |-> "unwound", fresh |-> 0]

(* The kernel's sets and the buffers of the threads that are in use. *)
InUse == alive \cup {current} \cup IF live.who = None THEN {} ELSE {live.who}

KernelInv ==
  /\ ready \subseteq alive
  /\ current = Dummy => alive = {} \/ \E m \in App : alive = {m, Idle} /\ ready = {m}
  /\ current # Dummy => Idle \in alive
  /\ \A t \in InUse \ {Dummy} : asyncify_buf[t] \in Bufs
  /\ asyncify_buf[Dummy] = NoBuf
  /\ \A t, u \in InUse : t # u => BufOf(t) # BufOf(u)

(* Threads that are neither running nor being switched to or from. *)
SuspendedInv ==
  \A t \in alive \ {current, live.who} :
    \/ fresh[t] = 1 /\ irq_lock_key[t] = 0 /\ saved[asyncify_buf[t]] = NoChain
    \/ fresh[t] = 0 /\ irq_lock_key[t] = 1 /\ Resumable(t)

(* The context the host has in hand while the guest is on the stack. *)
GuestInv ==
  live.who # None =>
    /\ cur.fresh = 0 /\ cur.buf = BufOf(live.who) /\ saved[cur.buf] = NoChain
    /\ live.fn # "trap" =>
         /\ GoodChain(live)
         /\ cur.arg = live.who
         /\ cur.entry = IF live.who = Dummy THEN "z_wasm_boot" ELSE "z_wasm_thread_entry"
    /\ live.fn = "trap" => request = "switch" /\ live.who \notin alive \cup {Dummy}
    /\ request # "switch" => /\ live.who = current
                             /\ live.who # Dummy => fresh[live.who] = 0
                             /\ irq_masked = MaskAt(live)
                             /\ nested = IF Serving(live) THEN 1 ELSE 0
    /\ request = "wait" => live.pt \in {"wait", "isr_wait"}
    /\ request \in {"trap", "halt", "reboot"} => live.pt \notin {"swap", "wait", "isr_wait"}

(* A switch on its way to the host. *)
SwitchInv ==
  /\ request # "none" => live.who # None
  /\ request = "switch" =>
       /\ live.pt = "swap" /\ live.who # current /\ current \in alive /\ nested = 0
       /\ live.who \in alive => fresh[live.who] = 0 /\ irq_lock_key[live.who] = 1
       /\ switch_block.from_buf = asyncify_buf[live.who]
       /\ switch_block.to_buf = asyncify_buf[current]
       /\ switch_block.to_arg = current
       /\ fresh[current] = 0
       /\ \/ switch_block.to_fresh = 1 /\ irq_masked = 0 /\ saved[asyncify_buf[current]] = NoChain
          \/ switch_block.to_fresh = 0 /\ irq_masked = 1 /\ Resumable(current)

(* The context the next step enters. *)
BetweenInv ==
  live.who = None =>
    /\ cur.buf = BufOf(current) /\ cur.arg = current
    /\ current # Dummy => fresh[current] = 0
    /\ cur.entry = IF current = Dummy THEN "z_wasm_boot" ELSE "z_wasm_thread_entry"
    /\ irq_masked = MaskAt(Running)
    /\ nested = IF Serving(Running) THEN 1 ELSE 0
    /\ \/ cur.fresh = 1 /\ saved[cur.buf] = NoChain
       \/ /\ cur.fresh = 0 /\ cur.sp = "unwound" /\ GoodChain(saved[cur.buf])
          /\ saved[cur.buf].who = current
          /\ saved[cur.buf].pt \in {"swap", "wait", "isr_wait"}

BoardInv == KernelInv /\ SuspendedInv /\ GuestInv /\ SwitchInv /\ BetweenInv

(* The inductive invariant: while the run goes on, the board is in order,  *)
(* and it never ends for want of a context.                                *)
IInv ==
  /\ TypeOK
  /\ ended # "unknown_context"
  /\ ended = "no" => BoardInv
  /\ ended # "no" => live.who = None /\ request = "none"

-----------------------------------------------------------------------------
(* What keeps a thread that a handler aborted from going on: until the     *)
(* handler is done and its caller reschedules, it is still current, and    *)
(* its frames are inside a dispatch or an offloaded routine.  That is not  *)
(* so where the caller does not reschedule (arch_cpu_atomic_idle()) or     *)
(* cannot (an offload that is made with interrupts locked).                *)
UsesOnly(c) == /\ c.fn = "atomic_idle" => "atomic_idle" \in Calls
               /\ c.fn = "offload" => "offload" \in Calls
               /\ c.keys # <<>> => "lock" \in Calls

Interrupted(c) ==
  \/ c.fn \in {"safepoint", "busy_wait"} /\ c.pt \in {"dispatch", "isr", "isr_wait", "after"}
  \/ c.fn = "offload" /\ c.pt \in {"body", "wait", "after"}

HandlersReschedule ==
  "isr_abort" \in Calls => /\ "atomic_idle" \notin Calls
                           /\ "offload" \notin Calls \/ "lock" \notin Calls

AbortedInv ==
  /\ UsesOnly(live) /\ \A b \in AllBufs : UsesOnly(saved[b])
  /\ ended = "no" /\ request # "switch" /\ current \in App \ alive
       => "isr_abort" \in Calls /\ Interrupted(Running)

=============================================================================
