------------------------------ MODULE MCPairAir -----------------------------
(* What goes on between the two boards of a pair: their clocks and the      *)
(* ethernet wire (Pair), and their Bluetooth controllers and the air        *)
(* (BtLink). A behaviour is about one of them and the other stands still.   *)
(* The air may become quiet for good; the pair's loop has to end.           *)
EXTENDS Pair, BtLink

VARIABLE about

PairAirInit ==
  /\ about \in {"clocks", "air"}
  /\ Init /\ (about = "air" => ~paced)
  /\ BtInit

PairAirNext ==
  /\ about' = about
  /\ \/ about = "clocks" /\ Next /\ UNCHANGED btVars
     \/ about = "air" /\ (BtNext \/ UNCHANGED btVars) /\ UNCHANGED vars

PairAirSpec == PairAirInit /\ [][PairAirNext]_<<about, vars, btVars>>
=============================================================================
