---------------------------- MODULE ThreadMachine ----------------------------
(***************************************************************************)
(* What the port promises the Zephyr kernel (arch_switch() and             *)
(* arch_irq_lock()): a machine with threads.  Each thread has a call chain *)
(* and an interrupt mask of its own.  The running thread may do what it    *)
(* likes to its own, start a thread, end one, and give the CPU to a thread *)
(* that exists; nothing it does reaches the chain or the mask of a thread  *)
(* that is not running.                                                    *)
(***************************************************************************)
CONSTANTS
  Thr,        \* thread objects
  Boot,       \* the one a reset starts on
  Dead,       \* the chain of a thread that does not exist
  Start(_)    \* the chain of a thread that has not run yet

VARIABLES running, chain, mask

mvars == <<running, chain, mask>>

(* A thread other than the running one is left alone, started or ended. *)
LeftAlone(t) == chain'[t] = chain[t] /\ mask'[t] = mask[t]
Started(t)   == chain[t] = Dead /\ chain'[t] = Start(t) /\ mask'[t] = 0
Ended(t)     == chain'[t] = Dead

(* A reset: everything is gone but the boot thread, which starts masked. *)
Reset ==
  /\ running' = Boot
  /\ chain' = [t \in Thr |-> IF t = Boot THEN Start(t) ELSE Dead]
  /\ mask'[Boot] = 1

Step ==
  /\ \A t \in Thr \ {running} : LeftAlone(t) \/ Started(t) \/ Ended(t)
  /\ running' # running => chain[running'] # Dead /\ LeftAlone(running')

MInit ==
  /\ running = Boot
  /\ chain = [t \in Thr |-> IF t = Boot THEN Start(t) ELSE Dead]
  /\ mask[Boot] = 1

MSpec == MInit /\ [][Step \/ Reset]_mvars

=============================================================================
