------------------------------- MODULE MCPair -------------------------------
(* Instances of Pair for TLC. *)
EXTENDS Pair

=============================================================================
