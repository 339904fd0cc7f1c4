----------------------------- MODULE MCHostLoop -----------------------------
(* Instances of HostLoop for TLC. *)
EXTENDS HostLoopInv, TLC

(* The application's threads and the stack objects are interchangeable. *)
Symmetry == Permutations(App) \cup Permutations(Bufs)

=============================================================================
