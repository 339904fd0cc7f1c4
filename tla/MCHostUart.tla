----------------------------- MODULE MCHostUart -----------------------------
(* Instances of HostUart for TLC. *)
EXTENDS HostUart

TwoLines == <<1, 2>>
OneLine  == <<2>>

=============================================================================
