-------------------------------- MODULE MCNet -------------------------------
(* The links a board has to other machines: the TCP connections, the timers *)
(* and the file transfers of the simulated LAN, and the uplink to a real    *)
(* network. The models share no state, so a behaviour is about one of them, *)
(* and the others stand where nothing is left that fairness asks for.       *)
EXTENDS LanTcp, LanTimers, Tftp, Uplink

VARIABLE about

Pinged == <<2, 1>>

TimersOver ==
  /\ lanClock = MaxTime /\ timers = <<>> /\ pinging = {} /\ dials = <<>>
  /\ asked = Len(PingTimes) /\ looping = FALSE
  /\ pings = [n \in Pings |-> [sent |-> 1, log |-> <<"reply">>]]

TftpOver ==
  /\ reading = TRUE /\ net = {} /\ block = Blocks + 1 /\ sockOpen = FALSE
  /\ stored = [i \in 1..Blocks |-> i] /\ client = [n |-> Blocks, done |-> TRUE]

NetInit ==
  /\ about \in {"tcp", "timers", "tftp", "uplink"}
  /\ TcpInit
  /\ IF about = "timers" THEN TimersInit ELSE TimersOver
  /\ IF about = "tftp" THEN TftpInit ELSE TftpOver
  /\ UplinkInit /\ (about # "uplink" => link.kind = "relaynet")

NetNext ==
  /\ about' = about
  /\ \/ about = "tcp" /\ TcpNext /\ UNCHANGED <<timerVars, tftpVars, upVars>>
     \/ about = "timers" /\ TimersNext /\ UNCHANGED <<tcpVars, tftpVars, upVars>>
     \/ about = "tftp" /\ TftpNext /\ UNCHANGED <<tcpVars, timerVars, upVars>>
     \/ about = "uplink" /\ UplinkNext /\ UNCHANGED <<tcpVars, timerVars, tftpVars>>

NetSpec ==
  /\ NetInit /\ [][NetNext]_<<about, tcpVars, timerVars, tftpVars, upVars>>
  /\ TcpFair /\ TimersFair /\ TftpFair /\ UplinkFair
=============================================================================
