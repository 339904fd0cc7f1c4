------------------------------- MODULE MCBoard ------------------------------
(* What the host keeps beside one board and checks without fairness: its    *)
(* clock (HostRun) and how a paced loop keeps that to the wall clock        *)
(* (HostPace), and the services of its simulated LAN that keep state of     *)
(* their own: the MQTT broker, the FTP server and the streams that carry    *)
(* their messages. The models share no state, so a behaviour is about one   *)
(* of them and the others stand still.                                      *)
EXTENDS HostRun, HostPace, Broker, Ftp, LanStream

VARIABLE about

ClockScript == <<[at |-> 1, line |-> "GPIO"], [at |-> 2, line |-> "INPUT"],
                 [at |-> 2, line |-> "SENSOR"]>>

Levels == {<<"a">>, <<"a", "b">>}
Wildcards == {<<"+">>, <<"#">>}

(* A directory of files, by their parents. *)
FtpUnder == [p \in Paths |-> IF p = "d/f" THEN "d" ELSE Root]
FtpFiles == [p \in Paths |-> IF p = "d" THEN Dir ELSE IF p = "f" THEN File(<<>>) ELSE Absent]

(* Either side of every change in how a length is written. *)
EdgeSizes == [http |-> {}, ws |-> {0, 125, 126, 65535, 65536},
              coap |-> {12, 13, 268, 269, 65804, 65805},
              mqtt |-> {0, 127, 128, 16383, 16384}]

BoardInit ==
  /\ about \in {"run", "pace", "broker", "ftp", "stream"}
  /\ RunInit /\ (about # "run" => interactive /\ page)
  /\ PaceInit /\ (about # "pace" => live)
  /\ BrokerInit /\ FtpInit
  /\ StreamInit /\ (about # "stream" => proto = "http")

BoardNext ==
  /\ about' = about
  /\ \/ about = "run" /\ RunNext
        /\ UNCHANGED <<paceVars, brokerVars, ftpVars, streamVars>>
     \/ about = "pace" /\ PaceNext
        /\ UNCHANGED <<runVars, brokerVars, ftpVars, streamVars>>
     \/ about = "broker" /\ BrokerNext
        /\ UNCHANGED <<runVars, paceVars, ftpVars, streamVars>>
     \/ about = "ftp" /\ FtpNext
        /\ UNCHANGED <<runVars, paceVars, brokerVars, streamVars>>
     \/ about = "stream" /\ StreamNext
        /\ UNCHANGED <<runVars, paceVars, brokerVars, ftpVars>>

BoardSpec ==
  BoardInit /\ [][BoardNext]_<<about, runVars, paceVars, brokerVars, ftpVars, streamVars>>
=============================================================================
