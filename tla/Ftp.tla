-------------------------------- MODULE Ftp ---------------------------------
(***************************************************************************)
(* The FTP server of the simulated LAN (ftp() of                           *)
(* src/host/lan_services.mjs): one tree for all sessions, and transfers    *)
(* paired with data connections by two queues, since either may come       *)
(* first.  Paths are as resolve() leaves them; the commands that only      *)
(* answer, or move the session's own directory, are left out.  A client    *)
(* sends its data once its transfer was accepted, and may give up a data   *)
(* connection that no transfer has taken.                                  *)
(***************************************************************************)
EXTENDS Naturals, Sequences, SequencesExt

CONSTANTS Sessions, Paths,
          Under,      \* the directory a path is in, Root for the top
          Root,
          Tree0,      \* FTP_FILES
          MaxJobs,    \* bound: transfers
          MaxData,    \* bound: data connections
          MaxRenames  \* bound: commands that change names

ASSUME FtpConstants == /\ Under \in [Paths -> Paths \cup {Root}] /\ Root \notin Paths
                       /\ MaxJobs \in Nat /\ MaxData \in Nat /\ MaxRenames \in Nat
                       /\ Tree0 \in [Paths -> [is : {"absent", "dir", "file"}, body : Seq(1..MaxData)]]

VARIABLES tree,      \* tree: what a path is, and the chunks of a file
          renaming,  \* each session's renaming, Root for null
          jobs,      \* every transfer that was accepted: [s, kind, path, done]
          data,      \* every data connection: [job, parts, open]
          waiting,   \* waiting: transfers without a data connection
          early,     \* early: data connections without a transfer
          changes    \* how many commands have changed names

ftpVars == <<tree, renaming, jobs, data, waiting, early, changes>>

Absent == [is |-> "absent", body |-> <<>>]
Dir    == [is |-> "dir", body |-> <<>>]
File(b) == [is |-> "file", body |-> b]

FtpInit ==
  /\ tree = Tree0
  /\ renaming = [s \in Sessions |-> Root]
  /\ jobs = <<>> /\ data = <<>> /\ waiting = <<>> /\ early = <<>>
  /\ changes = 0

isDir(p) == IF p = Root THEN TRUE ELSE tree[p].is = "dir"
has(p)   == p # Root /\ tree[p].is # "absent"
children(p) == {q \in Paths : Under[q] = p /\ has(q)}

-----------------------------------------------------------------------------
(* A transfer on its data connection: what is sent is written, ended and    *)
(* answered at once, what is stored when the connection ends.               *)
Serve(j, d, js, ds) ==
  IF js[j].kind = "send"
  THEN /\ jobs' = [js EXCEPT ![j].done = @ + 1]
       /\ data' = [ds EXCEPT ![d].job = j, ![d].open = FALSE]
  ELSE /\ jobs' = js
       /\ data' = [ds EXCEPT ![d].job = j]

(* As NextEarly, but the connection is left where it is.                    *)
NextEarly_Kept == early

NextEarly == Tail(early)

(* withData(), for a transfer that was accepted (send() and receive()).     *)
withData(job) ==
  /\ Len(jobs) < MaxJobs
  /\ LET j == Len(jobs) + 1
         js == Append(jobs, job)
     IN IF early # <<>>
        THEN Serve(j, early[1], js, data) /\ early' = NextEarly /\ UNCHANGED waiting
        ELSE /\ waiting' = Append(waiting, j) /\ jobs' = js
             /\ UNCHANGED <<data, early>>
  /\ UNCHANGED <<tree, renaming, changes>>

(* RETR, and LIST and NLST, which read the tree in the same way.  Reading   *)
(* an entry that is undefined throws before anything has changed.           *)
RETR(s, p) ==
  /\ tree[p].is = "file"
  /\ withData([s |-> s, kind |-> "send", path |-> p, done |-> 0])

(* STOR and APPE.                                                           *)
STOR(s, p, kind) ==
  /\ ~isDir(p) /\ isDir(Under[p])
  /\ withData([s |-> s, kind |-> kind, path |-> p, done |-> 0])

(* A connection to the data port: for the transfer that has waited longest. *)
acceptData ==
  /\ Len(data) < MaxData
  /\ LET d == Len(data) + 1
         ds == Append(data, [job |-> 0, parts |-> <<>>, open |-> TRUE])
     IN IF waiting # <<>>
        THEN Serve(waiting[1], d, jobs, ds) /\ waiting' = Tail(waiting) /\ UNCHANGED early
        ELSE early' = Append(early, d) /\ data' = ds /\ UNCHANGED <<jobs, waiting>>
  /\ UNCHANGED <<tree, renaming, changes>>

(* A chunk of a file that is being stored (data.onData).                    *)
dataChunk(d) ==
  /\ data[d].open /\ data[d].job # 0 /\ data[d].parts = <<>>
  /\ data' = [data EXCEPT ![d].parts = Append(@, d)]
  /\ UNCHANGED <<tree, renaming, jobs, waiting, early, changes>>

(* As Before, but an upload always starts the file anew.                    *)
Before_None(j) == <<>>

(* What an upload goes behind, as it is when the upload ends.               *)
Before(j) == IF jobs[j].kind = "append" THEN tree[jobs[j].path].body ELSE <<>>

Ended(d) == [data EXCEPT ![d].open = FALSE]

(* The data connection ends: an upload is stored and answered (data.onEnd). *)
dataEnd(d) ==
  /\ data[d].open
  /\ data' = Ended(d)
  /\ IF data[d].job = 0 THEN UNCHANGED <<tree, jobs>>
     ELSE LET j == data[d].job IN
          /\ tree' = [tree EXCEPT ![jobs[j].path] = File(Before(j) \o data[d].parts)]
          /\ jobs' = [jobs EXCEPT ![j].done = @ + 1]
  /\ UNCHANGED <<renaming, waiting, early, changes>>

Changing == changes < MaxRenames /\ changes' = changes + 1
            /\ UNCHANGED <<jobs, data, waiting, early>>

DELE(s, p) ==
  /\ has(p) /\ ~isDir(p)
  /\ tree' = [tree EXCEPT ![p] = Absent]
  /\ Changing /\ UNCHANGED renaming

(* MKD, which does not ask for the directory it is in.                      *)
MKD(s, p) ==
  /\ ~has(p)
  /\ tree' = [tree EXCEPT ![p] = Dir]
  /\ Changing /\ UNCHANGED renaming

RMD(s, p) ==
  /\ isDir(p) /\ children(p) = {}
  /\ tree' = [tree EXCEPT ![p] = Absent]
  /\ Changing /\ UNCHANGED renaming

RNFR(s, p) ==
  /\ has(p)
  /\ renaming' = [renaming EXCEPT ![s] = p]
  /\ Changing /\ UNCHANGED tree

(* RNTO: what is there now under the old name goes to the new one; if it    *)
(* has gone since, the new name holds undefined, which is neither a file    *)
(* nor a directory.                                                         *)
RNTO(s, p) ==
  /\ renaming[s] # Root /\ ~has(p)
  /\ LET old == tree[renaming[s]]
     IN tree' = [tree EXCEPT ![p] = IF old = Absent THEN [is |-> "undefined", body |-> <<>>] ELSE old,
                             ![renaming[s]] = Absent]
  /\ renaming' = [renaming EXCEPT ![s] = Root]
  /\ Changing

FtpNext ==
  \/ \E s \in Sessions, p \in Paths :
       \/ RETR(s, p) \/ STOR(s, p, "store") \/ STOR(s, p, "append")
       \/ DELE(s, p) \/ MKD(s, p) \/ RMD(s, p) \/ RNFR(s, p) \/ RNTO(s, p)
  \/ acceptData
  \/ \E d \in DOMAIN data : dataChunk(d) \/ dataEnd(d)

FtpSpec == FtpInit /\ [][FtpNext]_ftpVars

-----------------------------------------------------------------------------
(* The type of the state: a data connection is closed once it has ended.    *)
FtpTypeOK ==
  /\ tree \in [Paths -> [is : {"absent", "dir", "file", "undefined"}, body : Seq(1..MaxData)]]
  /\ renaming \in [Sessions -> Paths \cup {Root}]
  /\ jobs \in Seq([s : Sessions, kind : {"send", "store", "append"}, path : Paths, done : 0..1])
  /\ data \in Seq([job : 0..MaxJobs, parts : Seq(1..MaxData), open : BOOLEAN])
  /\ waiting \in Seq(1..MaxJobs) /\ early \in Seq(1..MaxData)

(* No transfer waits while a data connection does, so that neither side     *)
(* can wait for the other for ever (withData() and the data port).          *)
NeitherWaitsForOther == waiting = <<>> \/ early = <<>>

(* Transfers are given the data connections in the order of both queues,    *)
(* whichever came first, one each: no transfer runs twice or on two, and    *)
(* every one that was accepted is waiting, running or answered, once.       *)
OneEach ==
  /\ \A d, e \in DOMAIN data : (d < e /\ data[d].job # 0 /\ data[e].job # 0)
                                 => data[d].job < data[e].job
  /\ \A j \in DOMAIN jobs :
       LET on == {d \in DOMAIN data : data[d].job = j}
       IN IF j \in ToSet(waiting) THEN on = {} /\ jobs[j].done = 0
          ELSE \E d \in DOMAIN data : on = {d} /\ (jobs[j].done = 0 => jobs[j].kind # "send")

(* A file that is there before and after a step has lost none of its        *)
(* chunks, unless a STOR to it has just ended: two uploads that append to   *)
(* it at once both stay in it (receive()).                                  *)
AppendsKeep ==
  [][\A p \in Paths :
       (tree[p].is = "file" /\ tree'[p].is = "file" /\ ~IsPrefix(tree[p].body, tree'[p].body))
         => \E j \in DOMAIN jobs : /\ jobs[j].kind = "store" /\ jobs[j].path = p
                                   /\ jobs'[j].done > jobs[j].done]_ftpVars

(* Every transfer gets one data connection, in turn, and neither of the two *)
(* is left waiting for the other (withData() and the data port).            *)
TransfersPaired == FtpTypeOK /\ NeitherWaitsForOther /\ OneEach
=============================================================================
