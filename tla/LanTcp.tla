------------------------------- MODULE LanTcp -------------------------------
(***************************************************************************)
(* TCP connections of the simulated LAN (src/host/lan.mjs): TcpConn over   *)
(* the lwIP module.  A segment from the board enters lwIP, which calls     *)
(* back into the host any number of times before it returns; the services  *)
(* write and end connections from those callbacks, and pump() then calls   *)
(* lwIP again, underneath.  `depth` counts these calls as the code does    *)
(* (call()); `entry` and `sending` say which of them lwIP is really in.    *)
(* What would pull a connection from under lwIP, its close, goes by depth: *)
(* it waits in `later` until the outermost call has returned.  lwIP itself *)
(* is external: it hands out and takes back connection blocks, has room    *)
(* for so many unacknowledged chunks, and reports accepts, data,           *)
(* acknowledgements and the end of a connection.                           *)
(***************************************************************************)
EXTENDS Naturals, Sequences

CONSTANTS Pcbs,      \* lwIP's connection blocks, which it uses again
          Room,      \* chunks lwIP takes before one is acknowledged
          MaxConns,  \* bound: connections in a run
          MaxWrites  \* bound: chunks written on one connection

Out == "out"

ASSUME TcpConstants == Out \notin Pcbs /\ Room \in Nat \ {0} /\ MaxConns \in Nat /\ MaxWrites \in Nat

VARIABLES entry,   \* the block whose segment lwIP is working on, or Out
          depth,   \* lan.depth: the calls into lwIP that have not returned
          pumping, \* the connection whose pump() runs in a callback, or 0
          sending, \* whether that pump() has called lwIP
          pcbs,    \* lwIP's blocks: state, whose it is, room taken
          tcp,     \* lan.tcp: the connection of each pcb, 0 for none
          conn,    \* every TcpConn made so far
          later    \* lan.later: connections whose close waits for lwIP to return

stackVars == <<entry, depth, pumping, sending>>
tcpVars   == <<stackVars, pcbs, tcp, conn, later>>

FreeBlock == [state |-> "free", owner |-> 0, unacked |-> 0]

TcpInit ==
  /\ entry = Out /\ depth = 0 /\ pumping = 0 /\ sending = FALSE
  /\ pcbs = [p \in Pcbs |-> FreeBlock]
  /\ tcp = [p \in Pcbs |-> 0]
  /\ conn = <<>>
  /\ later = <<>>

-----------------------------------------------------------------------------
(* TcpConn.  `written` and `handed` count the chunks of write() and those  *)
(* lwIP took; `stray` is set when lwIP took one on another's block.        *)
TcpConn(p) == [pcb |-> p, queue |-> 0, ending |-> FALSE, closed |-> FALSE,
               lost |-> FALSE, stray |-> FALSE, written |-> 0, handed |-> 0]

write(c) == IF c.closed \/ c.ending THEN c
            ELSE [c EXCEPT !.queue = @ + 1, !.written = @ + 1]
end(c)   == [c EXCEPT !.ending = TRUE]

(* As OffStack, but a call that a callback made is taken for the outermost. *)
OffStack_Nested(d) == d <= 1

(* Whether the calls into lwIP have returned, as defer() and call() tell.   *)
OffStack(d) == d = 0

(* The job that waits: the connection leaves the map and its block is       *)
(* closed.                                                                  *)
Close(k) ==
  /\ tcp'  = [tcp EXCEPT ![conn[k].pcb] = 0]
  /\ pcbs' = [pcbs EXCEPT ![conn[k].pcb].state = "closing"]

(* defer(): at once, or behind what waits already.                          *)
defer(k) == IF OffStack(depth)
            THEN Close(k) /\ UNCHANGED later
            ELSE later' = Append(later, k) /\ UNCHANGED <<tcp, pcbs>>

-----------------------------------------------------------------------------
(* A segment for pcb p goes into lwIP (input()), when the last call() has   *)
(* run all that waited for it.                                              *)
Enter(p) ==
  /\ entry = Out /\ later = <<>>
  /\ entry' = p /\ depth' = depth + 1
  /\ UNCHANGED <<pumping, sending, pcbs, tcp, conn, later>>

(* lwIP calls back while it works on a segment, once the callback before    *)
(* has returned.                                                            *)
InCallback == entry \in Pcbs /\ pumping = 0

(* pump() calls lwIP with the first chunk in the queue ...                  *)
callSend ==
  /\ pumping # 0 /\ ~sending
  /\ ~conn[pumping].closed /\ conn[pumping].queue > 0
  /\ sending' = TRUE /\ depth' = depth + 1
  /\ UNCHANGED <<entry, pumping, pcbs, tcp, conn, later>>

(* ... which takes it and is called again for the next, or has no room: the *)
(* rest waits for sent_tcp_chunk, and pump() returns.                       *)
sendReturns ==
  LET p == conn[pumping].pcb
      room == pcbs[p].unacked < Room
  IN /\ sending
     /\ sending' = FALSE /\ depth' = depth - 1
     /\ pumping' = IF room THEN pumping ELSE 0
     /\ IF room
        THEN /\ pcbs' = [pcbs EXCEPT ![p].unacked = @ + 1]
             /\ conn' = [conn EXCEPT ![pumping].queue = @ - 1, ![pumping].handed = @ + 1,
                                     ![pumping].stray = @ \/ pcbs[p].owner # pumping]
        ELSE UNCHANGED <<pcbs, conn>>
     /\ UNCHANGED <<entry, tcp, later>>

(* With nothing left to send, pump() closes a connection that is to end.    *)
pumpEnds ==
  /\ pumping # 0 /\ ~sending
  /\ conn[pumping].closed \/ conn[pumping].queue = 0
  /\ IF conn[pumping].ending /\ ~conn[pumping].closed
     THEN conn' = [conn EXCEPT ![pumping].closed = TRUE] /\ defer(pumping)
     ELSE UNCHANGED <<conn, tcp, pcbs, later>>
  /\ pumping' = 0
  /\ UNCHANGED <<entry, depth, sending>>

pump == callSend \/ sendReturns \/ pumpEnds

(* As Opened, but the block's earlier connection stays in the map.         *)
Opened_Kept(p) == [tcp EXCEPT ![p] = IF @ = 0 THEN Len(conn) + 1 ELSE @]

(* lan.tcp.set(pcb, conn), for a connection just made.                     *)
Opened(p) == [tcp EXCEPT ![p] = Len(conn) + 1]

(* accept_tcp_connection: a TcpConn for the block, whose service may write  *)
(* at once (an FTP greeting, a data transfer that was waiting for it).  A   *)
(* connection the LAN makes (tcpConnect()) comes to the same when it is     *)
(* made: connected_tcp_connection.                                          *)
accept_tcp_connection(greets) ==
  LET k == Len(conn) + 1 IN
  /\ InCallback
  /\ pcbs[entry].state = "free" /\ Len(conn) < MaxConns
  /\ pcbs' = [pcbs EXCEPT ![entry] = [state |-> "open", owner |-> k, unacked |-> 0]]
  /\ conn' = Append(conn, IF greets THEN write(TcpConn(entry)) ELSE TcpConn(entry))
  /\ pumping' = IF greets THEN k ELSE 0
  /\ tcp' = Opened(entry)
  /\ UNCHANGED <<entry, depth, sending, later>>

(* receive_tcp_chunk: the service of the connection answers, on it or, as a *)
(* broker does, on another in the map; it may end the one it answered on.   *)
(* On one that is closed or ending write() returns at once, without pump(). *)
(* The pump() of write() and that of end() come to what one does.           *)
receive_tcp_chunk(k, ends) ==
  /\ InCallback
  /\ pcbs[entry].state = "open" /\ tcp[entry] # 0
  /\ \E p \in Pcbs : tcp[p] = k
  /\ ~conn[k].closed /\ ~conn[k].ending
  /\ conn[k].written < MaxWrites
  /\ conn' = [conn EXCEPT ![k] = IF ends THEN end(write(@)) ELSE write(@)]
  /\ pumping' = k
  /\ UNCHANGED <<entry, depth, sending, pcbs, tcp, later>>

(* As sent_tcp_chunk, but the queue waits for the next write().             *)
sent_tcp_chunk_Unheard ==
  /\ InCallback
  /\ pcbs[entry].unacked > 0 /\ pcbs[entry].state # "gone"
  /\ pcbs' = [pcbs EXCEPT ![entry].unacked = @ - 1]
  /\ UNCHANGED <<stackVars, tcp, conn, later>>

(* sent_tcp_chunk: the board has acknowledged a chunk.                      *)
sent_tcp_chunk ==
  /\ InCallback
  /\ pcbs[entry].unacked > 0 /\ pcbs[entry].state # "gone"
  /\ pcbs' = [pcbs EXCEPT ![entry].unacked = @ - 1]
  /\ pumping' = tcp[entry]
  /\ UNCHANGED <<entry, depth, sending, tcp, conn, later>>

(* closed_tcp_connection: the board closed its side, and still takes what   *)
(* is queued, or the connection is lost, half-closed or not, and its block  *)
(* takes nothing more.                                                      *)
closed_tcp_connection(lost) ==
  /\ InCallback
  /\ pcbs[entry].state \in (IF lost THEN {"open", "half"} ELSE {"open"}) /\ tcp[entry] # 0
  /\ pcbs' = [pcbs EXCEPT ![entry] = IF lost THEN [@ EXCEPT !.state = "gone", !.unacked = Room]
                                     ELSE [@ EXCEPT !.state = "half"]]
  /\ conn' = [conn EXCEPT ![tcp[entry]] = [end(@) EXCEPT !.lost = lost]]
  /\ pumping' = tcp[entry]
  /\ UNCHANGED <<entry, depth, sending, tcp, later>>

(* lwIP returns to call() ...                                               *)
Return ==
  /\ InCallback
  /\ entry' = Out /\ depth' = depth - 1
  /\ UNCHANGED <<pumping, sending, pcbs, tcp, conn, later>>

(* ... which runs the closes that waited, one by one, each a call of its    *)
(* own that has returned when the next is looked for.                       *)
runLater ==
  /\ OffStack(depth) /\ later # <<>>
  /\ later' = Tail(later)
  /\ Close(Head(later))
  /\ UNCHANGED <<stackVars, conn>>

(* lwIP has finished with a block that was closed or lost: it is used again. *)
Freed(p) ==
  /\ entry = Out /\ later = <<>> /\ pcbs[p].state \in {"closing", "gone"}
  /\ pcbs' = [pcbs EXCEPT ![p] = FreeBlock]
  /\ UNCHANGED <<stackVars, tcp, conn, later>>

TcpNext ==
  \/ \E p \in Pcbs : Enter(p) \/ Freed(p)
  \/ \E b \in BOOLEAN : accept_tcp_connection(b) \/ closed_tcp_connection(b)
  \/ \E k \in 1..Len(conn), ends \in BOOLEAN : receive_tcp_chunk(k, ends)
  \/ sent_tcp_chunk \/ pump \/ Return \/ runLater

(* A board that is alive acknowledges what it is sent: the segment comes,   *)
(* and lwIP hears of it; and every call returns.                            *)
AckComes(p) == pcbs[p].unacked > 0 /\ Enter(p)
AckFor(p) == entry = p /\ sent_tcp_chunk

TcpFair ==
  /\ WF_tcpVars(pump) /\ WF_tcpVars(Return) /\ WF_tcpVars(runLater)
  /\ \A p \in Pcbs : SF_tcpVars(AckComes(p)) /\ SF_tcpVars(AckFor(p))

-----------------------------------------------------------------------------
(* The type of the state: a block's room is never overdrawn, and lwIP is    *)
(* entered at most twice, for a segment and from a callback (input(),       *)
(* pump()).                                                                 *)
TcpTypeOK ==
  /\ entry \in Pcbs \cup {Out} /\ depth \in 0..2
  /\ pumping \in 0..MaxConns /\ sending \in BOOLEAN
  /\ pcbs \in [Pcbs -> [state : {"free", "open", "half", "gone", "closing"},
                        owner : 0..MaxConns, unacked : 0..Room]]
  /\ tcp \in [Pcbs -> 0..MaxConns]
  /\ conn \in Seq([pcb : Pcbs, queue : Nat, ending : BOOLEAN, closed : BOOLEAN,
                   lost : BOOLEAN, stray : BOOLEAN, written : Nat, handed : Nat])
  /\ later \in Seq(1..MaxConns)

(* lwIP uses its blocks again, and the map of connections is keyed by them: *)
(* whoever holds a live block is the one the map names, so that data, acks  *)
(* and the end of the stream reach it, no byte is handed to lwIP on a block *)
(* of another, no connection is closed twice, and a block is closed for the *)
(* connection that holds it (the callbacks, tcpConnect and pump(), lan.mjs). *)
MapOwnsBlock ==
  /\ \A p \in Pcbs : pcbs[p].state \in {"open", "half"} => tcp[p] = pcbs[p].owner
  /\ \A p \in Pcbs : pcbs[p].state = "closing" => conn[pcbs[p].owner].closed
  /\ \A k \in DOMAIN conn : ~conn[k].stray
  /\ \A i, j \in DOMAIN later : later[i] = later[j] => i = j

(* end() closes once everything written has gone: nothing written before it *)
(* is lost unless the connection itself is, however little room lwIP had.   *)
ClosedAfterAll ==
  \A k \in DOMAIN conn :
    /\ conn[k].handed + conn[k].queue = conn[k].written
    /\ conn[k].closed => conn[k].queue = 0

(* No block is closed while lwIP is on the stack, for a segment or for a    *)
(* chunk that a callback sent: it would go on to use what it had just given *)
(* back.  The code never looks at the stack: it goes by lan.depth, which    *)
(* nested calls raise and lower (call() and defer() of lan.mjs).            *)
ClosedOffStack ==
  [][\A p \in Pcbs : (pcbs[p].state # "closing" /\ pcbs'[p].state = "closing")
                       => entry = Out /\ ~sending]_tcpVars

(* A connection that is to end is closed, once the acknowledgements for     *)
(* what it still had queued have come, unless it is lost.                   *)
EndingCloses ==
  \A k \in 1..MaxConns :
    (k \in DOMAIN conn /\ conn[k].ending)
      ~> (k \in DOMAIN conn /\ (conn[k].closed \/ conn[k].lost))

(* What is written reaches its own connection, whole: each holder of a      *)
(* block is the map's, and none closes with chunks queued (write(), end(),  *)
(* pump() and the callbacks of lan.mjs).                                    *)
TcpSafety == TcpTypeOK /\ MapOwnsBlock /\ ClosedAfterAll
=============================================================================
