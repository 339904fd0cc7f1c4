------------------------------ MODULE LanProofs -----------------------------
(***************************************************************************)
(* Proofs about three parts of the simulated LAN, for any sizes of them:   *)
(* its file transfers, its TCP connections, and its clock with the events  *)
(* that wait for it.  The parts share no state.                            *)
(***************************************************************************)
EXTENDS LanTcp, Tftp, LanTimers, SequenceTheorems, WellFoundedInduction, TLAPS

-----------------------------------------------------------------------------
(***************************************************************************)
(* A TFTP transfer delivers a file whole, for a file of any size and       *)
(* whatever the network loses, repeats or reorders.                        *)
(*                                                                         *)
(* FileWhole alone is not inductive: the receiver takes the block that     *)
(* comes next, so the datagrams still under way must be about blocks the   *)
(* two ends have got to.  A transfer that reads keeps the server at most   *)
(* one block ahead of the client; one that writes keeps the client at most *)
(* at the block the server expects.                                        *)
(***************************************************************************)

(* The blocks taken are the first ones of the file, in order.               *)
InOrder == \A i \in 1..Len(stored) : stored[i] = i

(* The client reads: it has all blocks before the one it waits for, the     *)
(* server is at one of them or at that one, and an acknowledgement under    *)
(* way is of a block the client has.                                        *)
ReadInv ==
  /\ client.n >= 1
  /\ Len(stored) = IF client.done THEN Blocks ELSE client.n - 1
  /\ client.done => client.n = Blocks
  /\ block <= Blocks /\ block <= Len(stored) + 1
  /\ \A m \in net : m.op = "data" => m.n <= block
  /\ \A m \in net : m.op = "ack" => m.n <= Len(stored)
  /\ ~sockOpen => Len(stored) = Blocks

(* The client writes: the server has all blocks before the one it expects,  *)
(* the client is at that one or at one before it, and an acknowledgement    *)
(* under way is of a block the server has.                                  *)
WriteInv ==
  /\ Len(stored) = block - 1
  /\ ~sockOpen => block = Blocks + 1
  /\ \A m \in net : m.op = "data" => m.n <= block
  /\ \A m \in net : m.op = "ack" => m.n <= block - 1
  /\ client.n <= block
  /\ client.done => block = Blocks + 1

TransferInv ==
  /\ TftpTypeOK /\ InOrder
  /\ reading => ReadInv
  /\ ~reading => WriteInv

-----------------------------------------------------------------------------
(* A block appended to the blocks there are, when it is the next one.       *)
LEMMA AppendNext ==
  ASSUME TftpTypeOK, InOrder, NEW n \in 1..Blocks, n = Len(stored) + 1
  PROVE  /\ Append(stored, n) \in Seq(1..Blocks)
         /\ Len(Append(stored, n)) = Len(stored) + 1
         /\ \A i \in 1..Len(Append(stored, n)) : Append(stored, n)[i] = i
  BY DEF TftpTypeOK, InOrder

(* The first answer of the server starts the transfer.                      *)
LEMMA InitTransfer == TftpInit => TransferInv
  BY TftpConstants
  DEF TftpInit, TransferInv, TftpTypeOK, InOrder, ReadInv, WriteInv, DATA, ACK

(* The server of a file that is read: it moves on only past a block the     *)
(* client has.                                                              *)
LEMMA ReadStep ==
  ASSUME TransferInv, NEW n \in 0..Blocks, tftpRead(n)
  PROVE  TransferInv'
<1>1. /\ reading /\ reading' = reading /\ client' = client /\ stored' = stored
      /\ ReadInv /\ TftpTypeOK /\ InOrder /\ ACK(n) \in net
  BY DEF TransferInv, tftpRead
<1>2. n <= Len(stored) /\ block <= Blocks /\ block \in 1..Blocks
  BY <1>1, TftpConstants DEF ReadInv, TftpTypeOK, ACK
<1>3. InOrder'
  BY <1>1 DEF InOrder
<1>4. /\ block' \in 1..Blocks /\ block' >= block /\ block' <= Len(stored) + 1
      /\ net' \subseteq net \cup {DATA(block')}
      /\ sockOpen' \in BOOLEAN /\ (~sockOpen' => Len(stored) = Blocks)
  <2>1. CASE n # block
    <3>1. /\ block' = block /\ sockOpen' = sockOpen
          /\ net' = net \cup {DATA(block)}
      BY <2>1 DEF tftpRead
    <3>. QED
      BY <1>1, <1>2, <3>1 DEF ReadInv, TftpTypeOK
  <2>2. CASE n = block /\ block = Blocks
    <3>1. /\ block' = block /\ sockOpen' = FALSE /\ net' = net
      BY <2>2 DEF tftpRead, lastBlock
    <3>2. Len(stored) = Blocks
      BY <1>1, <1>2, <2>2, TftpConstants DEF ReadInv, TftpTypeOK
    <3>3. block' \in 1..Blocks /\ block' >= block /\ block' <= Len(stored) + 1
      BY <1>2, <3>1, <3>2, TftpConstants
    <3>. QED
      BY <3>1, <3>2, <3>3, Zenon
  <2>3. CASE n = block /\ block # Blocks
    <3>1. /\ block' = block + 1 /\ sockOpen' = sockOpen
          /\ net' = net \cup {DATA(block + 1)}
      BY <2>3 DEF tftpRead, lastBlock
    <3>. QED
      BY <1>1, <1>2, <2>3, <3>1, TftpConstants DEF ReadInv, TftpTypeOK
  <2>. QED
    BY <2>1, <2>2, <2>3
<1>5. TftpTypeOK'
  BY <1>1, <1>4, TftpConstants DEF TftpTypeOK, DATA
<1>6. ReadInv'
  BY <1>1, <1>2, <1>4, TftpConstants DEF ReadInv, TftpTypeOK, DATA
<1>. QED
  BY <1>1, <1>3, <1>5, <1>6 DEF TransferInv

(* The server of a file that is written: it keeps the block it expects and  *)
(* closes its socket only after the last.                                   *)
LEMMA WriteStep ==
  ASSUME TransferInv, NEW n \in 0..Blocks, tftpWrite(n)
  PROVE  TransferInv'
<1>1. /\ ~reading /\ reading' = reading /\ client' = client
      /\ WriteInv /\ TftpTypeOK /\ InOrder /\ DATA(n) \in net
      /\ net' = net \cup {ACK(n)} /\ sockOpen' \in BOOLEAN
      /\ ~sockOpen' => n = block' - 1 /\ n = Blocks
      /\ block' = IF n = block THEN block + 1 ELSE block
      /\ stored' = IF n = block THEN Append(stored, n) ELSE stored
  BY DEF TransferInv, tftpWrite, Expected
<1>2. n <= block /\ block \in 1..(Blocks + 1)
  BY <1>1 DEF WriteInv, TftpTypeOK, DATA
<1>3. CASE n = block
  <2>1. n \in 1..Blocks /\ n = Len(stored) + 1
    BY <1>1, <1>2, <1>3, TftpConstants DEF WriteInv, TftpTypeOK
  <2>2. /\ stored' \in Seq(1..Blocks) /\ Len(stored') = Len(stored) + 1 /\ InOrder'
    BY <1>1, <1>3, <2>1, AppendNext DEF InOrder
  <2>3. TftpTypeOK'
    BY <1>1, <1>2, <1>3, <2>1, <2>2, TftpConstants DEF TftpTypeOK, ACK
  <2>4. WriteInv'
    BY <1>1, <1>2, <1>3, <2>1, <2>2, TftpConstants DEF WriteInv, TftpTypeOK, ACK
  <2>. QED
    BY <1>1, <2>2, <2>3, <2>4 DEF TransferInv
<1>4. CASE n # block
  <2>1. stored' = stored /\ block' = block
    BY <1>1, <1>4
  <2>2. InOrder'
    BY <1>1, <2>1 DEF InOrder
  <2>3. TftpTypeOK'
    BY <1>1, <2>1, TftpConstants DEF TftpTypeOK, ACK
  <2>4. WriteInv'
    BY <1>1, <1>2, <1>4, <2>1, TftpConstants DEF WriteInv, TftpTypeOK, ACK
  <2>. QED
    BY <1>1, <2>2, <2>3, <2>4 DEF TransferInv
<1>. QED
  BY <1>3, <1>4

(* The client past block n waits for the next one, or is done.              *)
LEMMA PastBlock ==
  ASSUME NEW n \in 1..Blocks
  PROVE  /\ Past(n) \in [n : 0..Blocks, done : BOOLEAN]
         /\ Past(n).done => n = Blocks /\ Past(n).n = Blocks
         /\ ~Past(n).done => n < Blocks /\ Past(n).n = n + 1
  BY TftpConstants DEF Past

(* The client that reads takes the block it waits for, once.                *)
LEMMA ClientDataStep ==
  ASSUME TransferInv, NEW n \in 0..Blocks, clientData(n)
  PROVE  TransferInv'
<1>1. /\ reading /\ reading' = reading /\ block' = block /\ sockOpen' = sockOpen
      /\ ReadInv /\ TftpTypeOK /\ InOrder /\ DATA(n) \in net /\ n <= client.n
      /\ net' = net \cup {ACK(n)}
      /\ stored' = IF n = client.n /\ ~client.done THEN Append(stored, n) ELSE stored
      /\ client' = IF n < client.n THEN client ELSE Past(n)
  BY DEF TransferInv, clientData
<1>2. /\ n <= block /\ client.n \in 1..Blocks /\ client.done \in BOOLEAN
      /\ client = [n |-> client.n, done |-> client.done]
  BY <1>1 DEF ReadInv, TftpTypeOK, DATA
<1>3. CASE n = client.n /\ ~client.done
  <2>1. /\ n \in 1..Blocks /\ n = Len(stored) + 1
        /\ stored' = Append(stored, n) /\ client' = Past(n)
    BY <1>1, <1>2, <1>3 DEF ReadInv
  <2>2. /\ stored' \in Seq(1..Blocks) /\ Len(stored') = Len(stored) + 1 /\ InOrder'
    <3>1. TftpTypeOK /\ InOrder
      BY <1>1
    <3>. QED
      BY <3>1, <2>1, AppendNext DEF InOrder
  <2>3. TftpTypeOK'
    BY <1>1, <2>1, <2>2, PastBlock DEF TftpTypeOK, ACK
  <2>4. ReadInv'
    BY <1>1, <1>2, <2>1, <2>2, PastBlock, TftpConstants DEF ReadInv, TftpTypeOK, ACK
  <2>. QED
    BY <1>1, <2>2, <2>3, <2>4 DEF TransferInv
<1>4. CASE ~(n = client.n /\ ~client.done)
  <2>1. stored' = stored /\ client' = client /\ n <= Len(stored)
    <3>1. CASE n < client.n
      BY <1>1, <1>2, <3>1, TftpConstants DEF ReadInv
    <3>2. CASE n = client.n /\ client.done
      <4>1. n = Blocks /\ client = [n |-> n, done |-> TRUE]
        BY <1>1, <1>2, <3>2 DEF ReadInv
      <4>. QED
        BY <1>1, <1>2, <3>2, <4>1, TftpConstants DEF ReadInv, Past
    <3>. QED
      BY <1>1, <1>2, <1>4, <3>1, <3>2
  <2>2. InOrder'
    BY <1>1, <2>1 DEF InOrder
  <2>3. TftpTypeOK'
    BY <1>1, <2>1 DEF TftpTypeOK, ACK
  <2>4. ReadInv'
    BY <1>1, <2>1 DEF ReadInv, ACK
  <2>. QED
    BY <1>1, <2>2, <2>3, <2>4 DEF TransferInv
<1>. QED
  BY <1>3, <1>4

(* The client that writes moves on when its block is acknowledged.          *)
LEMMA ClientAckStep ==
  ASSUME TransferInv, NEW n \in 0..Blocks, clientAck(n)
  PROVE  TransferInv'
<1>1. /\ ~reading /\ reading' = reading /\ block' = block /\ sockOpen' = sockOpen
      /\ stored' = stored /\ WriteInv /\ TftpTypeOK /\ InOrder /\ ACK(n) \in net
      /\ client' = Past(n)
      /\ net' = IF n = Blocks THEN net ELSE net \cup {DATA(n + 1)}
  BY DEF TransferInv, clientAck
<1>2. n <= block - 1 /\ block \in 1..(Blocks + 1)
  BY <1>1 DEF WriteInv, TftpTypeOK, ACK
<1>3. InOrder'
  BY <1>1 DEF InOrder
<1>4. /\ client' \in [n : 0..Blocks, done : BOOLEAN] /\ client'.n <= block
      /\ client'.done => block = Blocks + 1
  BY <1>1, <1>2, TftpConstants DEF Past
<1>5. TftpTypeOK'
  BY <1>1, <1>4, TftpConstants DEF TftpTypeOK, DATA
<1>6. WriteInv'
  BY <1>1, <1>2, <1>4, TftpConstants DEF WriteInv, DATA
<1>. QED
  BY <1>1, <1>3, <1>5, <1>6 DEF TransferInv

(* What is repeated is about a block that both ends have got to, and what   *)
(* is lost changes nothing that either end has.                             *)
LEMMA NetworkStep ==
  ASSUME TransferInv, clientTimeout \/ \E m \in net : Lose(m)
  PROVE  TransferInv'
<1>1. /\ reading' = reading /\ block' = block /\ sockOpen' = sockOpen
      /\ stored' = stored /\ client' = client /\ TftpTypeOK /\ InOrder
  BY DEF TransferInv, clientTimeout, Lose
<1>2. InOrder'
  BY <1>1 DEF InOrder
<1>3. CASE clientTimeout /\ reading
  <2>1. net' = net \cup {ACK(client.n - 1)} /\ ~client.done /\ ReadInv
    BY <1>3 DEF clientTimeout, TransferInv
  <2>2. client.n \in 1..Blocks
    BY <1>1, <2>1 DEF TftpTypeOK, ReadInv
  <2>3. TftpTypeOK'
    BY <1>1, <2>1, <2>2, TftpConstants DEF TftpTypeOK, ACK
  <2>4. ReadInv'
    BY <1>1, <2>1, <2>2 DEF ReadInv, ACK
  <2>. QED
    BY <1>1, <1>2, <1>3, <2>3, <2>4 DEF TransferInv
<1>4. CASE clientTimeout /\ ~reading
  <2>1. net' = net \cup {DATA(client.n)} /\ WriteInv
    BY <1>4 DEF clientTimeout, TransferInv
  <2>2. TftpTypeOK'
    BY <1>1, <2>1 DEF TftpTypeOK, DATA
  <2>3. WriteInv'
    BY <1>1, <2>1 DEF WriteInv, DATA
  <2>. QED
    BY <1>1, <1>2, <1>4, <2>2, <2>3 DEF TransferInv
<1>5. CASE \E m \in net : Lose(m)
  <2>1. net' \subseteq net
    BY <1>5 DEF Lose
  <2>2. TftpTypeOK'
    BY <1>1, <2>1 DEF TftpTypeOK
  <2>3. reading => ReadInv'
    BY <1>1, <2>1 DEF ReadInv, TransferInv
  <2>4. ~reading => WriteInv'
    BY <1>1, <2>1 DEF WriteInv, TransferInv
  <2>. QED
    BY <1>1, <1>2, <2>2, <2>3, <2>4 DEF TransferInv
<1>. QED
  BY <1>3, <1>4, <1>5

(* Every step of either end and of the network keeps the invariant.         *)
LEMMA TransferStep == TransferInv /\ [TftpNext]_tftpVars => TransferInv'
<1>. SUFFICES ASSUME TransferInv, [TftpNext]_tftpVars
              PROVE  TransferInv'
  OBVIOUS
<1>1. CASE UNCHANGED tftpVars
  BY <1>1 DEF tftpVars, TransferInv, TftpTypeOK, InOrder, ReadInv, WriteInv
<1>2. CASE TftpNext
  BY <1>2, ReadStep, WriteStep, ClientDataStep, ClientAckStep, NetworkStep DEF TftpNext
<1>. QED
  BY <1>1, <1>2

(* The invariant says that the file is whole.                               *)
LEMMA TransferWhole == TransferInv => TftpTypeOK /\ FileWhole
<1>. SUFFICES ASSUME TransferInv PROVE TftpTypeOK /\ FileWhole
  OBVIOUS
<1>1. TftpTypeOK /\ InOrder
  BY DEF TransferInv
<1>2. stored = [i \in 1..Len(stored) |-> i]
  BY <1>1 DEF TftpTypeOK, InOrder
<1>3. reading => FileWhole
  BY <1>2 DEF TransferInv, ReadInv, FileWhole
<1>4. ~reading => FileWhole
  <2>1. SUFFICES ASSUME ~reading
                 PROVE  /\ ~sockOpen => Len(stored) = Blocks
                        /\ client.done => Len(stored) = Blocks
    BY <1>2 DEF FileWhole
  <2>2. WriteInv /\ block \in 1..(Blocks + 1)
    BY <1>1, <2>1 DEF TransferInv, TftpTypeOK
  <2>. QED
    BY <2>2, TftpConstants DEF WriteInv
<1>. QED
  BY <1>1, <1>3, <1>4

-----------------------------------------------------------------------------
(* tftpRead() and tftpWrite() deliver a file of any number of blocks whole: *)
(* no loss, repetition or reordering makes the receiver skip a block or     *)
(* take one twice, or makes the server close its socket, and log the        *)
(* transfer, before the other end has every block.                          *)
THEOREM FileArrivesWhole == TftpSpec => []FileWhole
<1>1. TftpInit => TransferInv
  BY InitTransfer
<1>2. TransferInv /\ [TftpNext]_tftpVars => TransferInv'
  BY TransferStep
<1>3. TransferInv => FileWhole
  BY TransferWhole
<1>. QED
  BY <1>1, <1>2, <1>3, PTL DEF TftpSpec

(* The server of a transfer stays within the blocks of the file, so that    *)
(* its block number fits the 16 bits it has on the wire.                    *)
THEOREM TftpTypes == TftpSpec => []TftpTypeOK
<1>1. TftpInit => TransferInv
  BY InitTransfer
<1>2. TransferInv /\ [TftpNext]_tftpVars => TransferInv'
  BY TransferStep
<1>3. TransferInv => TftpTypeOK
  BY TransferWhole
<1>. QED
  BY <1>1, <1>2, <1>3, PTL DEF TftpSpec

-----------------------------------------------------------------------------
(***************************************************************************)
(* What is written on a connection of the LAN reaches that connection,     *)
(* whole, and no block is closed under lwIP, for any number of lwIP        *)
(* blocks, connections and chunks and any room.                            *)
(*                                                                         *)
(* lwIP uses its blocks again while a connection that was lost is still in *)
(* the map under its old block.  That is harmless because such a           *)
(* connection is ending: write() returns before it reaches pump().  And    *)
(* defer() goes by `depth` alone: that a callback never finds it at zero   *)
(* is because it counts the calls lwIP is in, one within the other.        *)
(***************************************************************************)

(* A connection that holds its block.                                      *)
Holds(k) == /\ pcbs[conn[k].pcb].owner = k
            /\ pcbs[conn[k].pcb].state \in {"open", "half", "gone"}

(* A connection the map names was made for that block; as long as it takes *)
(* writes the block is open, and a block that is in use is its own.        *)
MapInv ==
  \A p \in Pcbs :
    /\ pcbs[p].state \in {"open", "half", "gone"} => tcp[p] = pcbs[p].owner /\ tcp[p] # 0
    /\ pcbs[p].state = "closing" => /\ tcp[p] = 0
                                    /\ pcbs[p].owner \in DOMAIN conn /\ conn[pcbs[p].owner].closed
    /\ pcbs[p].state = "free" => pcbs[p].unacked = 0
    /\ tcp[p] # 0 => /\ tcp[p] \in DOMAIN conn /\ conn[tcp[p]].pcb = p
                     /\ pcbs[p].state # "open" => conn[tcp[p]].ending

(* A close that waits for lwIP to return is that of a connection that has  *)
(* been marked closed and still holds its block, and waits once.           *)
LaterInv ==
  /\ \A i \in DOMAIN later : /\ later[i] \in DOMAIN conn /\ conn[later[i]].closed
                             /\ Holds(later[i])
  /\ \A i, j \in DOMAIN later : later[i] = later[j] => i = j

(* The calls lwIP is in: for a segment, and for a chunk of a pump() that   *)
(* runs in a callback of that segment.                                     *)
StackInv ==
  /\ depth = (IF entry = Out THEN 0 ELSE 1) + (IF sending THEN 1 ELSE 0)
  /\ pumping # 0 => entry # Out /\ pumping \in DOMAIN conn /\ Holds(pumping)
  /\ sending => pumping # 0 /\ ~conn[pumping].closed /\ conn[pumping].queue > 0

NoStrays == \A k \in DOMAIN conn : ~conn[k].stray

TcpInv == /\ TcpTypeOK /\ Len(conn) <= MaxConns
          /\ MapInv /\ LaterInv /\ StackInv /\ NoStrays /\ ClosedAfterAll

(* What ClosedOffStack says of a step.                                     *)
ClosesOffStack ==
  \A p \in Pcbs : (pcbs[p].state # "closing" /\ pcbs'[p].state = "closing")
                    => entry = Out /\ ~sending

Conn == [pcb : Pcbs, queue : Nat, ending : BOOLEAN, closed : BOOLEAN,
         lost : BOOLEAN, stray : BOOLEAN, written : Nat, handed : Nat]
Block == [state : {"free", "open", "half", "gone", "closing"},
          owner : 0..MaxConns, unacked : 0..Room]

(* What is counted of a connection adds up, and a closed one has nothing   *)
(* queued.                                                                 *)
Counted(c) == c.handed + c.queue = c.written /\ (c.closed => c.queue = 0)

-----------------------------------------------------------------------------
(* write() on a connection that takes it, and end().                       *)
LEMMA WriteFacts ==
  ASSUME NEW c \in Conn, Counted(c), ~c.stray, ~c.closed
  PROVE  /\ write(c) \in Conn /\ Counted(write(c)) /\ ~write(c).stray
         /\ write(c).pcb = c.pcb /\ write(c).closed = c.closed /\ write(c).ending = c.ending
<1>1. c.queue + 1 \in Nat /\ c.written + 1 \in Nat /\ c.handed \in Nat
  BY DEF Conn
<1>2. CASE c.ending
  BY <1>2 DEF write
<1>3. CASE ~c.ending
  <2>1. write(c) = [c EXCEPT !.queue = c.queue + 1, !.written = c.written + 1]
    BY <1>3 DEF write
  <2>2. write(c) \in Conn
    BY <1>1, <2>1 DEF Conn
  <2>3. /\ write(c).queue = c.queue + 1 /\ write(c).written = c.written + 1
        /\ write(c).handed = c.handed /\ write(c).stray = c.stray /\ write(c).closed = c.closed
        /\ write(c).pcb = c.pcb /\ write(c).ending = c.ending
    BY <2>1 DEF Conn
  <2>4. Counted(write(c))
    BY <1>1, <2>3 DEF Counted, Conn
  <2> QED
    BY <2>2, <2>3, <2>4
<1> QED
  BY <1>2, <1>3

(* end() marks the connection and leaves the rest alone.                   *)
LEMMA EndFacts ==
  ASSUME NEW c \in Conn, Counted(c), ~c.stray
  PROVE  /\ end(c) \in Conn /\ Counted(end(c)) /\ ~end(c).stray
         /\ end(c).pcb = c.pcb /\ end(c).closed = c.closed /\ end(c).ending
BY DEF end, Conn, Counted

(* A block after a chunk, after an acknowledgement, and after the end of   *)
(* its connection.                                                         *)
LEMMA BlockFacts ==
  ASSUME NEW x \in Block
  PROVE  /\ x.unacked < Room => [x EXCEPT !.unacked = @ + 1] \in Block
         /\ [x EXCEPT !.unacked = @ + 1].state = x.state
         /\ [x EXCEPT !.unacked = @ + 1].owner = x.owner
         /\ x.unacked > 0 => [x EXCEPT !.unacked = @ - 1] \in Block
         /\ [x EXCEPT !.unacked = @ - 1].state = x.state
         /\ [x EXCEPT !.unacked = @ - 1].owner = x.owner
         /\ [x EXCEPT !.state = "half"] \in Block
         /\ [x EXCEPT !.state = "half"].owner = x.owner
         /\ [x EXCEPT !.state = "half"].state = "half"
         /\ [x EXCEPT !.state = "closing"] \in Block
         /\ [x EXCEPT !.state = "closing"].owner = x.owner
         /\ [x EXCEPT !.state = "closing"].state = "closing"
         /\ [x EXCEPT !.state = "gone", !.unacked = Room] \in Block
         /\ [x EXCEPT !.state = "gone", !.unacked = Room].owner = x.owner
         /\ [x EXCEPT !.state = "gone", !.unacked = Room].state = "gone"
<1>1. /\ x.unacked > 0 => x.unacked - 1 \in 0..Room
      /\ x.unacked < Room => x.unacked + 1 \in 0..Room
      /\ Room \in 0..Room
  BY TcpConstants DEF Block
<1>2. DOMAIN x = {"state", "owner", "unacked"}
  BY DEF Block
<1>3. /\ x.unacked < Room => [x EXCEPT !.unacked = @ + 1] \in Block
      /\ [x EXCEPT !.unacked = @ + 1].state = x.state
      /\ [x EXCEPT !.unacked = @ + 1].owner = x.owner
  BY <1>1 DEF Block
<1>4. /\ x.unacked > 0 => [x EXCEPT !.unacked = @ - 1] \in Block
      /\ [x EXCEPT !.unacked = @ - 1].state = x.state
      /\ [x EXCEPT !.unacked = @ - 1].owner = x.owner
  BY <1>1 DEF Block
<1>5. /\ [x EXCEPT !.state = "half"] \in Block
      /\ [x EXCEPT !.state = "half"].owner = x.owner
      /\ [x EXCEPT !.state = "half"].state = "half"
  BY DEF Block
<1>6. /\ [x EXCEPT !.state = "closing"] \in Block
      /\ [x EXCEPT !.state = "closing"].owner = x.owner
      /\ [x EXCEPT !.state = "closing"].state = "closing"
  BY DEF Block
<1>7. /\ [x EXCEPT !.state = "gone", !.unacked = Room] \in Block
      /\ [x EXCEPT !.state = "gone", !.unacked = Room].owner = x.owner
      /\ [x EXCEPT !.state = "gone", !.unacked = Room].state = "gone"
  BY <1>1, <1>2 DEF Block
<1> QED
  BY <1>3, <1>4, <1>5, <1>6, <1>7

-----------------------------------------------------------------------------
(* What the invariant says of a connection and of a block.                 *)
LEMMA ConnFacts ==
  ASSUME TcpInv
  PROVE  /\ \A k \in DOMAIN conn : /\ conn[k] \in Conn /\ Counted(conn[k]) /\ ~conn[k].stray
                                   /\ k \in 1..MaxConns
         /\ DOMAIN conn = 1..Len(conn) /\ Len(conn) \in 0..MaxConns
         /\ \A p \in Pcbs : pcbs[p] \in Block
         /\ conn \in Seq(Conn) /\ pcbs \in [Pcbs -> Block]
<1>1. conn \in Seq(Conn) /\ pcbs \in [Pcbs -> Block] /\ Len(conn) <= MaxConns
  BY DEF TcpInv, TcpTypeOK, Conn, Block
<1>2. DOMAIN conn = 1..Len(conn) /\ Len(conn) \in 0..MaxConns
  BY <1>1, TcpConstants
<1>3. \A k \in DOMAIN conn : conn[k] \in Conn /\ k \in 1..MaxConns
  BY <1>1, <1>2, TcpConstants
<1> QED
  BY <1>1, <1>2, <1>3 DEF TcpInv, NoStrays, ClosedAfterAll, Counted

(* Most steps change connections and blocks in these two ways only.        *)
ConnKept ==
  /\ conn' \in Seq(Conn) /\ Len(conn') = Len(conn) /\ DOMAIN conn' = DOMAIN conn
  /\ \A j \in DOMAIN conn :
       /\ conn'[j] \in Conn /\ Counted(conn'[j]) /\ ~conn'[j].stray /\ conn'[j].pcb = conn[j].pcb
       /\ conn[j].ending => conn'[j].ending
       /\ conn[j].closed => conn'[j].closed
BlocksKept ==
  /\ pcbs' \in [Pcbs -> Block] /\ tcp' = tcp
  /\ \A p \in Pcbs :
       /\ pcbs'[p].owner = pcbs[p].owner
       /\ \/ pcbs'[p].state = pcbs[p].state
          \/ /\ pcbs[p].state \in {"open", "half"} /\ pcbs'[p].state \in {"half", "gone"}
             /\ conn'[tcp[p]].ending
       /\ pcbs[p].state = "free" => pcbs'[p].unacked = pcbs[p].unacked

(* One connection is replaced by another state of it.                      *)
LEMMA OneConn ==
  ASSUME TcpInv, NEW k \in DOMAIN conn, NEW c \in Conn, Counted(c), ~c.stray,
         c.pcb = conn[k].pcb, conn[k].ending => c.ending, conn[k].closed => c.closed,
         conn' = [conn EXCEPT ![k] = c]
  PROVE  ConnKept /\ conn'[k] = c
<1> USE ConnFacts
<1>1. /\ conn' \in Seq(Conn) /\ Len(conn') = Len(conn) /\ DOMAIN conn' = DOMAIN conn
      /\ conn'[k] = c /\ \A j \in DOMAIN conn \ {k} : conn'[j] = conn[j]
  OBVIOUS
<1> QED
  BY <1>1 DEF ConnKept

(* One block is replaced by another state of it.                           *)
LEMMA OneBlock ==
  ASSUME TcpInv, NEW p \in Pcbs, NEW b \in Block, pcbs' = [pcbs EXCEPT ![p] = b], tcp' = tcp,
         b.owner = pcbs[p].owner,
         \/ b.state = pcbs[p].state
         \/ /\ pcbs[p].state \in {"open", "half"} /\ b.state \in {"half", "gone"}
            /\ conn'[tcp[p]].ending,
         pcbs[p].state = "free" => b.unacked = pcbs[p].unacked
  PROVE  BlocksKept
<1>1. /\ pcbs' \in [Pcbs -> Block] /\ pcbs'[p] = b
      /\ \A q \in Pcbs \ {p} : pcbs'[q] = pcbs[q]
  BY ConnFacts
<1> QED
  BY <1>1 DEF BlocksKept

(* Connections and blocks that are kept keep what the invariant says of    *)
(* them, who holds a block goes on to, and none is closed.                 *)
LEMMA KeptInv ==
  ASSUME TcpInv, ConnKept, BlocksKept
  PROVE  /\ MapInv' /\ NoStrays' /\ ClosedAfterAll' /\ Len(conn') <= MaxConns
         /\ \A j \in DOMAIN conn : Holds(j) => Holds(j)'
         /\ later' = later => LaterInv'
         /\ ClosesOffStack
<1> USE ConnFacts
<1>1. MapInv'
  <2> SUFFICES ASSUME NEW p \in Pcbs
               PROVE  /\ pcbs'[p].state \in {"open", "half", "gone"} => tcp[p] = pcbs'[p].owner /\ tcp[p] # 0
                      /\ pcbs'[p].state = "closing" =>
                           /\ tcp[p] = 0
                           /\ pcbs'[p].owner \in DOMAIN conn' /\ conn'[pcbs'[p].owner].closed
                      /\ pcbs'[p].state = "free" => pcbs'[p].unacked = 0
                      /\ tcp[p] # 0 => /\ tcp[p] \in DOMAIN conn' /\ conn'[tcp[p]].pcb = p
                                       /\ pcbs'[p].state # "open" => conn'[tcp[p]].ending
    BY DEF MapInv, BlocksKept
  <2>1. /\ pcbs'[p].owner = pcbs[p].owner
        /\ \/ pcbs'[p].state = pcbs[p].state
           \/ /\ pcbs[p].state \in {"open", "half"} /\ pcbs'[p].state \in {"half", "gone"}
              /\ conn'[tcp[p]].ending
        /\ pcbs[p].state = "free" => pcbs'[p].unacked = pcbs[p].unacked
    BY DEF BlocksKept
  <2>2. /\ pcbs[p].state \in {"open", "half", "gone"} => tcp[p] = pcbs[p].owner /\ tcp[p] # 0
        /\ pcbs[p].state = "closing" => /\ tcp[p] = 0
                                        /\ pcbs[p].owner \in DOMAIN conn /\ conn[pcbs[p].owner].closed
        /\ pcbs[p].state = "free" => pcbs[p].unacked = 0
        /\ tcp[p] # 0 => /\ tcp[p] \in DOMAIN conn /\ conn[tcp[p]].pcb = p
                         /\ pcbs[p].state # "open" => conn[tcp[p]].ending
    BY DEF TcpInv, MapInv
  <2> QED
    BY <2>1, <2>2 DEF ConnKept
<1>2. NoStrays' /\ ClosedAfterAll' /\ Len(conn') <= MaxConns
  BY DEF ConnKept, NoStrays, ClosedAfterAll, Counted
<1>3. \A j \in DOMAIN conn : Holds(j) => Holds(j)'
  <2> SUFFICES ASSUME NEW j \in DOMAIN conn, Holds(j) PROVE Holds(j)'
    OBVIOUS
  <2>1. conn'[j].pcb = conn[j].pcb /\ conn[j].pcb \in Pcbs
    BY DEF ConnKept, Conn
  <2> QED
    BY <2>1 DEF Holds, BlocksKept
<1>4. later' = later => LaterInv'
  BY <1>3 DEF ConnKept, TcpInv, LaterInv
<1>5. ClosesOffStack
  BY DEF BlocksKept, ClosesOffStack
<1> QED
  BY <1>1, <1>2, <1>3, <1>4, <1>5

-----------------------------------------------------------------------------
(* A segment goes into lwIP, lwIP returns, and pump() calls lwIP: what     *)
(* only the stack sees.                                                    *)
LEMMA StackStep ==
  ASSUME TcpInv, (\E p \in Pcbs : Enter(p)) \/ Return \/ callSend
  PROVE  TcpInv' /\ ClosesOffStack
<1>1. pcbs' = pcbs /\ tcp' = tcp /\ conn' = conn /\ later' = later
  BY DEF Enter, Return, callSend
<1>2. MapInv' /\ LaterInv' /\ NoStrays' /\ ClosedAfterAll' /\ Len(conn') <= MaxConns
  BY <1>1 DEF TcpInv, MapInv, LaterInv, NoStrays, ClosedAfterAll, Holds
<1>3. TcpTypeOK /\ StackInv
  BY DEF TcpInv
<1>4. StackInv' /\ entry' \in Pcbs \cup {Out} /\ depth' \in 0..2 /\ pumping' \in 0..MaxConns
      /\ sending' \in BOOLEAN
  <2>1. CASE \E p \in Pcbs : Enter(p)
    <3>1. PICK p \in Pcbs : Enter(p)
      BY <2>1
    <3>2. /\ entry = Out /\ entry' = p /\ p # Out /\ depth' = depth + 1
          /\ pumping' = pumping /\ sending' = sending
      BY <3>1, TcpConstants DEF Enter
    <3>3. pumping = 0 /\ ~sending /\ depth = 0
      BY <1>3, <3>2 DEF StackInv
    <3> QED
      BY <1>3, <3>2, <3>3 DEF StackInv, TcpTypeOK
  <2>2. CASE Return
    <3>1. /\ entry # Out /\ pumping = 0 /\ entry' = Out /\ depth' = depth - 1
          /\ pumping' = pumping /\ sending' = sending
      BY <2>2, TcpConstants DEF Return, InCallback
    <3>2. ~sending /\ depth = 1
      BY <1>3, <3>1 DEF StackInv
    <3> QED
      BY <1>3, <3>1, <3>2 DEF StackInv, TcpTypeOK
  <2>3. CASE callSend
    <3>1. /\ pumping # 0 /\ ~sending /\ ~conn[pumping].closed /\ conn[pumping].queue > 0
          /\ sending' = TRUE /\ depth' = depth + 1 /\ entry' = entry /\ pumping' = pumping
      BY <2>3 DEF callSend
    <3>2. entry # Out /\ depth = 1
      BY <1>3, <3>1 DEF StackInv
    <3> QED
      BY <1>1, <1>3, <3>1, <3>2 DEF StackInv, TcpTypeOK, Holds
  <2> QED
    BY <2>1, <2>2, <2>3
<1>5. TcpTypeOK'
  BY <1>1, <1>3, <1>4 DEF TcpTypeOK
<1>6. ClosesOffStack
  BY <1>1 DEF ClosesOffStack
<1> QED
  BY <1>2, <1>4, <1>5, <1>6 DEF TcpInv

(* A block that was closed or lost is used again, when nothing waits.      *)
LEMMA FreedInv ==
  ASSUME TcpInv, NEW p \in Pcbs, Freed(p)
  PROVE  TcpInv' /\ ClosesOffStack
<1>1. /\ entry = Out /\ later = <<>> /\ pcbs[p].state \in {"closing", "gone"}
      /\ pcbs' = [pcbs EXCEPT ![p] = FreeBlock] /\ stackVars' = stackVars
      /\ tcp' = tcp /\ conn' = conn /\ later' = later
  BY DEF Freed
<1>2. entry' = entry /\ depth' = depth /\ pumping' = pumping /\ sending' = sending
  BY <1>1 DEF stackVars
<1>3. pcbs \in [Pcbs -> Block] /\ FreeBlock \in Block
  BY ConnFacts, TcpConstants DEF Block, FreeBlock
<1>4. /\ pcbs' \in [Pcbs -> Block] /\ pcbs'[p] = FreeBlock
      /\ \A q \in Pcbs \ {p} : pcbs'[q] = pcbs[q]
  BY <1>1, <1>3
<1>5. TcpTypeOK'
  BY <1>1, <1>2, <1>4 DEF TcpInv, TcpTypeOK, Block
<1>6. MapInv'
  <2>1. FreeBlock.state = "free" /\ FreeBlock.unacked = 0
    BY DEF FreeBlock
  <2>2. MapInv /\ (tcp[p] # 0 => conn[tcp[p]].ending)
    BY <1>1 DEF TcpInv, MapInv
  <2> QED
    BY <1>1, <1>4, <2>1, <2>2 DEF MapInv
<1>7. StackInv'
  <2>1. pumping = 0 /\ ~sending
    BY <1>1 DEF TcpInv, StackInv
  <2> QED
    BY <1>2, <2>1 DEF TcpInv, StackInv
<1>8. LaterInv'
  BY <1>1 DEF LaterInv
<1>9. ClosesOffStack
  BY <1>4 DEF ClosesOffStack, FreeBlock
<1> QED
  BY <1>1, <1>5, <1>6, <1>7, <1>8, <1>9 DEF TcpInv, NoStrays, ClosedAfterAll

(* A callback that leaves its connection to pump(): nothing but the        *)
(* connection and its block has changed, and it holds that block.          *)
LEMMA CallbackInv ==
  ASSUME TcpInv, ConnKept, BlocksKept, InCallback,
         NEW k, pumping' = k, k = 0 \/ (k \in DOMAIN conn /\ Holds(k)),
         entry' = entry, depth' = depth, sending' = sending, later' = later
  PROVE  TcpInv' /\ ClosesOffStack
<1>1. /\ MapInv' /\ NoStrays' /\ ClosedAfterAll' /\ Len(conn') <= MaxConns
      /\ LaterInv' /\ ClosesOffStack
      /\ k = 0 \/ Holds(k)'
  BY KeptInv
<1>2. TcpTypeOK /\ StackInv /\ entry # Out /\ pumping = 0
  BY TcpConstants DEF TcpInv, InCallback
<1>3. StackInv'
  <2>1. DOMAIN conn' = DOMAIN conn
    BY DEF ConnKept
  <2>2. depth = 1 /\ ~sending
    BY <1>2 DEF StackInv
  <2>3. pumping' # 0 => pumping' \in DOMAIN conn' /\ Holds(pumping)'
    BY <1>1, <2>1 DEF Holds
  <2> QED
    BY <1>2, <2>2, <2>3 DEF StackInv
<1>4. TcpTypeOK'
  <2>1. pumping' \in 0..MaxConns
    BY ConnFacts, TcpConstants
  <2> QED
    BY <1>2, <2>1 DEF TcpTypeOK, ConnKept, BlocksKept, Conn, Block
<1> QED
  BY <1>1, <1>3, <1>4 DEF TcpInv

(* receive_tcp_chunk(): write() goes on only on a connection that is not   *)
(* ending, and the block of such a connection is open and its own.         *)
LEMMA ReceiveInv ==
  ASSUME TcpInv, NEW k \in 1..Len(conn), NEW ends \in BOOLEAN, receive_tcp_chunk(k, ends)
  PROVE  TcpInv' /\ ClosesOffStack
<1> DEFINE c == IF ends THEN end(write(conn[k])) ELSE write(conn[k])
<1>1. /\ ~conn[k].closed /\ ~conn[k].ending /\ InCallback
      /\ conn' = [conn EXCEPT ![k] = c] /\ pumping' = k /\ pcbs' = pcbs /\ tcp' = tcp
      /\ entry' = entry /\ depth' = depth /\ sending' = sending /\ later' = later
  BY DEF receive_tcp_chunk
<1>2. PICK p \in Pcbs : tcp[p] = k
  BY DEF receive_tcp_chunk
<1> USE ConnFacts
<1>3. k \in DOMAIN conn /\ k # 0
  OBVIOUS
<1>4. Holds(k)
  BY <1>1, <1>2, <1>3 DEF TcpInv, MapInv, Holds
<1>5. /\ c \in Conn /\ Counted(c) /\ ~c.stray /\ c.pcb = conn[k].pcb /\ c.closed = conn[k].closed
  <2>1. conn[k] \in Conn /\ Counted(conn[k]) /\ ~conn[k].stray
    BY <1>3
  <2>2. /\ write(conn[k]) \in Conn /\ Counted(write(conn[k])) /\ ~write(conn[k]).stray
        /\ write(conn[k]).pcb = conn[k].pcb /\ write(conn[k]).closed = conn[k].closed
    BY <1>1, <2>1, WriteFacts
  <2> QED
    BY <1>1, <2>2, EndFacts
<1> HIDE DEF c
<1>6. ConnKept
  BY <1>1, <1>3, <1>5, OneConn
<1>7. BlocksKept
  BY <1>1 DEF BlocksKept
<1> QED
  BY <1>1, <1>3, <1>4, <1>6, <1>7, CallbackInv

(* sent_tcp_chunk(): a block with something unacknowledged is not free, so *)
(* the connection the map names, if any, is its own.                       *)
LEMMA SentInv ==
  ASSUME TcpInv, sent_tcp_chunk
  PROVE  TcpInv' /\ ClosesOffStack
<1> DEFINE b == [pcbs[entry] EXCEPT !.unacked = @ - 1]
<1> USE ConnFacts
<1>1. /\ entry \in Pcbs /\ pcbs[entry].unacked > 0 /\ InCallback
      /\ pcbs' = [pcbs EXCEPT ![entry] = b] /\ pumping' = tcp[entry] /\ tcp' = tcp /\ conn' = conn
      /\ entry' = entry /\ depth' = depth /\ sending' = sending /\ later' = later
  BY DEF sent_tcp_chunk, InCallback
<1>2. PICK k : k = tcp[entry]
  OBVIOUS
<1>3. /\ b \in Block /\ b.state = pcbs[entry].state /\ b.owner = pcbs[entry].owner
  <2>1. pcbs[entry] \in Block /\ pcbs[entry].unacked > 0
    BY <1>1
  <2> QED
    BY <2>1, BlockFacts
<1>4. pcbs[entry].state # "free"
  BY <1>1 DEF TcpInv, MapInv
<1> HIDE DEF b
<1>5. ConnKept
  BY <1>1 DEF ConnKept
<1>6. BlocksKept
  BY <1>1, <1>3, <1>4, OneBlock
<1>7. k = 0 \/ (k \in DOMAIN conn /\ Holds(k))
  BY <1>1, <1>2, <1>4 DEF TcpInv, MapInv, Holds, Block
<1> QED
  BY <1>1, <1>2, <1>5, <1>6, <1>7, CallbackInv

(* closed_tcp_connection(): the connection is ending from now on, so that  *)
(* nothing is written on its block once lwIP uses it again.                *)
LEMMA ClosedInv ==
  ASSUME TcpInv, NEW lost \in BOOLEAN, closed_tcp_connection(lost)
  PROVE  TcpInv' /\ ClosesOffStack
<1> DEFINE b == IF lost THEN [pcbs[entry] EXCEPT !.state = "gone", !.unacked = Room]
                ELSE [pcbs[entry] EXCEPT !.state = "half"]
<1> USE ConnFacts
<1>1. PICK k : k = tcp[entry]
  OBVIOUS
<1> DEFINE c == [end(conn[k]) EXCEPT !.lost = lost]
<1>2. /\ entry \in Pcbs /\ pcbs[entry].state \in {"open", "half"} /\ k # 0 /\ InCallback
      /\ pcbs' = [pcbs EXCEPT ![entry] = b] /\ conn' = [conn EXCEPT ![k] = c]
      /\ pumping' = k /\ tcp' = tcp
      /\ entry' = entry /\ depth' = depth /\ sending' = sending /\ later' = later
  BY <1>1 DEF closed_tcp_connection, InCallback
<1>3. k \in DOMAIN conn /\ conn[k].pcb = entry /\ pcbs[entry].owner = k
  BY <1>1, <1>2 DEF TcpInv, MapInv
<1>4. /\ c \in Conn /\ Counted(c) /\ ~c.stray /\ c.pcb = conn[k].pcb
      /\ c.closed = conn[k].closed /\ c.ending
  <2>1. conn[k] \in Conn /\ Counted(conn[k]) /\ ~conn[k].stray
    BY <1>3
  <2> QED
    BY <2>1 DEF end, Conn, Counted
<1>5. b \in Block /\ b.owner = pcbs[entry].owner /\ b.state \in {"half", "gone"}
  <2>1. pcbs[entry] \in Block
    BY <1>2
  <2> QED
    BY <2>1, BlockFacts
<1>6. Holds(k)
  BY <1>2, <1>3 DEF Holds
<1> HIDE DEF c, b
<1>7. ConnKept /\ conn'[k] = c
  BY <1>2, <1>3, <1>4, OneConn
<1>8. BlocksKept
  BY <1>1, <1>2, <1>4, <1>5, <1>7, OneBlock
<1> QED
  BY <1>2, <1>3, <1>6, <1>7, <1>8, CallbackInv

(* accept_tcp_connection(): the new connection has the block to itself;    *)
(* the map forgets the one that was lost with it.                          *)
LEMMA AcceptInv ==
  ASSUME TcpInv, NEW greets \in BOOLEAN, accept_tcp_connection(greets)
  PROVE  TcpInv' /\ ClosesOffStack
<1> DEFINE c == IF greets THEN write(TcpConn(entry)) ELSE TcpConn(entry)
<1>1. PICK k : k = Len(conn) + 1
  OBVIOUS
<1> DEFINE b == [state |-> "open", owner |-> k, unacked |-> 0]
<1>2. /\ entry \in Pcbs /\ pcbs[entry].state = "free" /\ Len(conn) < MaxConns
      /\ conn' = Append(conn, c) /\ pcbs' = [pcbs EXCEPT ![entry] = b]
      /\ tcp' = [tcp EXCEPT ![entry] = k] /\ pumping' = (IF greets THEN k ELSE 0)
      /\ entry' = entry /\ depth' = depth /\ sending' = sending /\ later' = later
      /\ pumping = 0
  BY <1>1 DEF accept_tcp_connection, Opened, InCallback
<1> USE ConnFacts
<1>3. k \in 1..MaxConns /\ b \in Block /\ b.state = "open" /\ b.owner = k
  BY <1>1, <1>2, TcpConstants DEF Block
<1>4. c \in Conn /\ Counted(c) /\ ~c.stray /\ c.pcb = entry
  <2>1. /\ TcpConn(entry) \in Conn /\ Counted(TcpConn(entry)) /\ ~TcpConn(entry).stray
        /\ TcpConn(entry).pcb = entry /\ ~TcpConn(entry).closed
    BY <1>2 DEF TcpConn, Conn, Counted
  <2> QED
    BY <2>1, WriteFacts
<1> HIDE DEF c, b
<1>5. /\ conn' \in Seq(Conn) /\ Len(conn') = k /\ DOMAIN conn' = DOMAIN conn \cup {k}
      /\ conn'[k] = c /\ \A j \in DOMAIN conn : conn'[j] = conn[j]
  BY <1>1, <1>2, <1>4
<1>6. /\ pcbs' \in [Pcbs -> Block] /\ pcbs'[entry] = b
      /\ \A p \in Pcbs \ {entry} : pcbs'[p] = pcbs[p]
  BY <1>2, <1>3
<1>7. /\ tcp' \in [Pcbs -> 0..MaxConns] /\ tcp'[entry] = k
      /\ \A p \in Pcbs \ {entry} : tcp'[p] = tcp[p]
  <2>1. tcp \in [Pcbs -> 0..MaxConns]
    BY DEF TcpInv, TcpTypeOK
  <2> QED
    BY <1>2, <1>3, <2>1
<1>8. TcpTypeOK'
  <2>1. TcpTypeOK
    BY DEF TcpInv
  <2>2. pumping' \in 0..MaxConns
    BY <1>2, <1>3, TcpConstants
  <2> QED
    BY <1>2, <1>5, <1>6, <1>7, <2>1, <2>2 DEF TcpTypeOK, Conn, Block
<1>9. MapInv'
  <2> SUFFICES ASSUME NEW p \in Pcbs
               PROVE  /\ pcbs'[p].state \in {"open", "half", "gone"} => tcp'[p] = pcbs'[p].owner /\ tcp'[p] # 0
                      /\ pcbs'[p].state = "closing" =>
                           /\ tcp'[p] = 0
                           /\ pcbs'[p].owner \in DOMAIN conn' /\ conn'[pcbs'[p].owner].closed
                      /\ pcbs'[p].state = "free" => pcbs'[p].unacked = 0
                      /\ tcp'[p] # 0 => /\ tcp'[p] \in DOMAIN conn' /\ conn'[tcp'[p]].pcb = p
                                        /\ pcbs'[p].state # "open" => conn'[tcp'[p]].ending
    BY DEF MapInv
  <2>1. CASE p = entry
    BY <1>3, <1>4, <1>5, <1>6, <1>7, <2>1
  <2>2. CASE p # entry
    BY <1>5, <1>6, <1>7, <2>2 DEF TcpInv, MapInv
  <2> QED
    BY <2>1, <2>2
<1>10. LaterInv'
  <2>1. \A j \in DOMAIN conn : Holds(j) => conn[j].pcb \in Pcbs \ {entry}
    BY <1>2 DEF Holds, Conn
  <2>2. \A j \in DOMAIN conn : Holds(j) => Holds(j)'
    BY <1>5, <1>6, <2>1 DEF Holds
  <2> QED
    BY <1>2, <1>5, <2>2 DEF TcpInv, LaterInv
<1>11. StackInv'
  <2>1. Holds(k)'
    BY <1>3, <1>4, <1>5, <1>6 DEF Holds
  <2>2. entry # Out /\ ~sending /\ depth = 1
    BY <1>2, TcpConstants DEF TcpInv, StackInv
  <2>3. pumping' # 0 => pumping' \in DOMAIN conn' /\ Holds(pumping)'
    BY <1>2, <1>5, <2>1 DEF Holds
  <2> QED
    BY <1>2, <2>2, <2>3 DEF StackInv
<1>12. ClosesOffStack
  BY <1>3, <1>6 DEF ClosesOffStack
<1>13. NoStrays' /\ ClosedAfterAll'
  BY <1>4, <1>5 DEF NoStrays, ClosedAfterAll, Counted
<1> QED
  BY <1>3, <1>5, <1>8, <1>9, <1>10, <1>11, <1>12, <1>13 DEF TcpInv

(* pump(), with what lwIP answered: it takes a chunk on the connection's   *)
(* own block, or pump() returns.                                           *)
LEMMA SendInv ==
  ASSUME TcpInv, sendReturns
  PROVE  TcpInv' /\ ClosesOffStack
<1>1. PICK k : k = pumping
  OBVIOUS
<1>2. PICK p : p = conn[k].pcb
  OBVIOUS
<1> DEFINE room == pcbs[p].unacked < Room
           c == [conn[k] EXCEPT !.queue = @ - 1, !.handed = @ + 1,
                                !.stray = @ \/ pcbs[p].owner # k]
           b == [pcbs[p] EXCEPT !.unacked = @ + 1]
<1> USE ConnFacts
<1>3. /\ sending /\ sending' = FALSE /\ depth' = depth - 1
      /\ pumping' = (IF room THEN k ELSE 0)
      /\ entry' = entry /\ tcp' = tcp /\ later' = later
      /\ IF room THEN pcbs' = [pcbs EXCEPT ![p] = b] /\ conn' = [conn EXCEPT ![k] = c]
         ELSE pcbs' = pcbs /\ conn' = conn
  BY <1>1, <1>2 DEF sendReturns
<1>4. /\ k \in DOMAIN conn /\ Holds(k) /\ ~conn[k].closed /\ conn[k].queue > 0
      /\ entry # Out /\ depth = 2 /\ TcpTypeOK
  BY <1>1, <1>3 DEF TcpInv, StackInv
<1>5. conn[k] \in Conn /\ Counted(conn[k]) /\ ~conn[k].stray /\ p \in Pcbs /\ pcbs[p] \in Block
  BY <1>2, <1>4 DEF Conn
<1>6. ConnKept /\ BlocksKept
  <2>1. CASE room
    <3>1. c \in Conn /\ Counted(c) /\ ~c.stray /\ c.pcb = conn[k].pcb
          /\ c.ending = conn[k].ending /\ c.closed = conn[k].closed
      <4>1. (conn[k].stray \/ pcbs[p].owner # k) = FALSE
        BY <1>2, <1>4, <1>5 DEF Holds
      <4>2. c = [conn[k] EXCEPT !.queue = conn[k].queue - 1, !.handed = conn[k].handed + 1,
                                !.stray = FALSE]
        BY <4>1
      <4>3. conn[k].queue - 1 \in Nat /\ conn[k].handed + 1 \in Nat
        BY <1>4, <1>5 DEF Conn
      <4> HIDE DEF c
      <4>4. /\ c \in Conn /\ ~c.stray /\ c.pcb = conn[k].pcb /\ c.ending = conn[k].ending
            /\ c.closed = conn[k].closed /\ c.queue = conn[k].queue - 1
            /\ c.handed = conn[k].handed + 1 /\ c.written = conn[k].written
        BY <1>5, <4>2, <4>3 DEF Conn
      <4> QED
        BY <1>4, <1>5, <4>4 DEF Counted, Conn
    <3>2. b \in Block /\ b.state = pcbs[p].state /\ b.owner = pcbs[p].owner
      BY <1>5, <2>1, BlockFacts
    <3>3. pcbs' = [pcbs EXCEPT ![p] = b] /\ conn' = [conn EXCEPT ![k] = c]
      BY <1>3, <2>1
    <3>4. pcbs[p].state # "free"
      BY <1>2, <1>4 DEF Holds
    <3> HIDE DEF b, c
    <3>5. ConnKept
      BY <1>4, <3>1, <3>3, OneConn
    <3>6. BlocksKept
      BY <1>3, <1>5, <3>2, <3>3, <3>4, OneBlock
    <3> QED
      BY <3>5, <3>6
  <2>2. CASE ~room
    BY <1>3, <2>2 DEF ConnKept, BlocksKept
  <2> QED
    BY <2>1, <2>2
<1> HIDE DEF room, c, b
<1>7. /\ MapInv' /\ NoStrays' /\ ClosedAfterAll' /\ Len(conn') <= MaxConns
      /\ Holds(k)' /\ LaterInv' /\ ClosesOffStack
  BY <1>3, <1>4, <1>6, KeptInv
<1>8. StackInv'
  <2>1. DOMAIN conn' = DOMAIN conn
    BY <1>6 DEF ConnKept
  <2>2. pumping' # 0 => pumping' \in DOMAIN conn' /\ Holds(pumping)'
    BY <1>3, <1>4, <1>7, <2>1 DEF Holds
  <2> QED
    BY <1>3, <1>4, <2>2 DEF StackInv
<1>9. TcpTypeOK'
  <2>1. pumping' \in 0..MaxConns /\ depth' \in 0..2
    BY <1>3, <1>4, TcpConstants
  <2>2. conn' \in Seq(Conn) /\ pcbs' \in [Pcbs -> Block] /\ tcp' = tcp
    BY <1>6 DEF ConnKept, BlocksKept
  <2>3. entry' = entry /\ later' = later /\ sending' \in BOOLEAN
    BY <1>3
  <2> QED
    BY <1>4, <2>1, <2>2, <2>3 DEF TcpTypeOK, Conn, Block
<1> QED
  BY <1>7, <1>8, <1>9 DEF TcpInv

(* pump() ends: it runs in a callback, so that `depth` is not at zero, and *)
(* a close waits.                                                          *)
LEMMA PumpEndInv ==
  ASSUME TcpInv, pumpEnds
  PROVE  TcpInv' /\ ClosesOffStack
<1>1. PICK k : k = pumping
  OBVIOUS
<1> DEFINE closes == conn[k].ending /\ ~conn[k].closed
           c == [conn[k] EXCEPT !.closed = TRUE]
<1> USE ConnFacts
<1>2. /\ k # 0 /\ ~sending /\ (conn[k].closed \/ conn[k].queue = 0) /\ pumping' = 0
      /\ entry' = entry /\ depth' = depth /\ sending' = sending
  BY <1>1 DEF pumpEnds
<1>3. k \in DOMAIN conn /\ Holds(k) /\ entry # Out /\ depth = 1 /\ TcpTypeOK
  BY <1>1, <1>2 DEF TcpInv, StackInv
<1>4. /\ tcp' = tcp /\ pcbs' = pcbs
      /\ IF closes THEN conn' = [conn EXCEPT ![k] = c] /\ later' = Append(later, k)
         ELSE conn' = conn /\ later' = later
  BY <1>1, <1>3 DEF pumpEnds, defer, OffStack
<1>5. BlocksKept
  BY <1>4 DEF BlocksKept
<1>6. ConnKept /\ (closes => conn'[k].closed)
  <2>1. CASE closes
    <3>1. c \in Conn /\ Counted(c) /\ ~c.stray /\ c.pcb = conn[k].pcb
          /\ c.ending = conn[k].ending /\ c.closed
      BY <1>2, <1>3, <2>1 DEF Conn, Counted
    <3>2. conn' = [conn EXCEPT ![k] = c]
      BY <1>4, <2>1
    <3> HIDE DEF c
    <3> QED
      BY <1>3, <3>1, <3>2, OneConn
  <2>2. CASE ~closes
    BY <1>4, <2>2 DEF ConnKept
  <2> QED
    BY <2>1, <2>2
<1>7. /\ MapInv' /\ NoStrays' /\ ClosedAfterAll' /\ Len(conn') <= MaxConns
      /\ \A j \in DOMAIN conn : Holds(j) => Holds(j)'
      /\ later' = later => LaterInv'
      /\ ClosesOffStack
  BY <1>5, <1>6, KeptInv
<1>8. LaterInv' /\ later' \in Seq(1..MaxConns)
  <2>1. later \in Seq(1..MaxConns) /\ LaterInv
    BY DEF TcpInv, TcpTypeOK
  <2>2. CASE ~closes
    BY <1>4, <1>7, <2>1, <2>2
  <2>3. CASE closes
    <3>1. later' = Append(later, k) /\ conn'[k].closed /\ ~conn[k].closed
      BY <1>4, <1>6, <2>3
    <3>2. /\ later' \in Seq(1..MaxConns)
          /\ DOMAIN later' = 1..Len(later) + 1 /\ later'[Len(later) + 1] = k
          /\ \A i \in DOMAIN later : later'[i] = later[i]
          /\ DOMAIN later = 1..Len(later)
      BY <1>3, <2>1, <3>1
    <3>3. \A i \in DOMAIN later : later[i] # k
      BY <2>1, <3>1 DEF LaterInv
    <3>4. \A j \in DOMAIN conn : /\ j \in DOMAIN conn' /\ (conn[j].closed => conn'[j].closed)
                                 /\ (Holds(j) => Holds(j)')
      BY <1>6, <1>7 DEF ConnKept
    <3>5. \A i \in DOMAIN later' : \/ i \in DOMAIN later /\ later'[i] = later[i]
                                   \/ i = Len(later) + 1 /\ later'[i] = k
      BY <3>2
    <3>6. \A i \in DOMAIN later' : /\ later'[i] \in DOMAIN conn' /\ conn'[later'[i]].closed
                                   /\ Holds(later[i])'
      <4> SUFFICES ASSUME NEW i \in DOMAIN later'
                   PROVE  /\ later'[i] \in DOMAIN conn' /\ conn'[later'[i]].closed
                          /\ Holds(later[i])'
        OBVIOUS
      <4>1. PICK j : j = later'[i]
        OBVIOUS
      <4>2. j \in DOMAIN conn /\ Holds(j) /\ conn'[j].closed
        BY <1>3, <2>1, <3>1, <3>4, <3>5, <4>1 DEF LaterInv
      <4>3. Holds(j)'
        BY <3>4, <4>2
      <4> QED
        BY <3>4, <4>1, <4>2, <4>3 DEF Holds
    <3>7. \A i, j \in DOMAIN later' : later'[i] = later'[j] => i = j
      BY <2>1, <3>3, <3>5 DEF LaterInv
    <3> QED
      BY <3>2, <3>6, <3>7 DEF LaterInv
  <2> QED
    BY <2>2, <2>3
<1>9. StackInv'
  BY <1>2, <1>3 DEF StackInv
<1>10. TcpTypeOK'
  <2>1. conn' \in Seq(Conn) /\ pcbs' \in [Pcbs -> Block] /\ tcp' = tcp
    BY <1>5, <1>6 DEF ConnKept, BlocksKept
  <2>2. pumping' \in 0..MaxConns
    BY <1>2, TcpConstants
  <2> QED
    BY <1>2, <1>3, <1>8, <2>1, <2>2 DEF TcpTypeOK, Conn, Block
<1> QED
  BY <1>7, <1>8, <1>9, <1>10 DEF TcpInv

(* A close that waited: the connection leaves the map as its own block is  *)
(* closed, and `depth` says that lwIP is off the stack.                    *)
LEMMA LaterStep ==
  ASSUME TcpInv, runLater
  PROVE  TcpInv' /\ ClosesOffStack
<1>1. PICK k : k = Head(later)
  OBVIOUS
<1>2. PICK p : p = conn[k].pcb
  OBVIOUS
<1> USE ConnFacts
<1> DEFINE b == [pcbs[p] EXCEPT !.state = "closing"]
<1>3. /\ depth = 0 /\ later # <<>> /\ later' = Tail(later) /\ conn' = conn
      /\ tcp' = [tcp EXCEPT ![p] = 0] /\ pcbs' = [pcbs EXCEPT ![p] = b]
      /\ entry' = entry /\ depth' = depth /\ pumping' = pumping /\ sending' = sending
  BY <1>1, <1>2 DEF runLater, OffStack, Close, stackVars
<1>4. /\ entry = Out /\ ~sending /\ pumping = 0 /\ TcpTypeOK /\ StackInv /\ LaterInv /\ MapInv
  BY <1>3 DEF TcpInv, StackInv
<1>5. /\ later \in Seq(1..MaxConns) /\ DOMAIN later = 1..Len(later) /\ Len(later) \in Nat \ {0}
      /\ k = later[1] /\ 1 \in DOMAIN later
  BY <1>1, <1>3, <1>4 DEF TcpTypeOK
<1>6. /\ later' \in Seq(1..MaxConns) /\ Len(later') = Len(later) - 1
      /\ DOMAIN later' = 1..(Len(later) - 1)
      /\ \A i \in DOMAIN later' : later'[i] = later[i + 1] /\ i + 1 \in DOMAIN later
  BY <1>3, <1>5
<1>7. k \in DOMAIN conn /\ conn[k].closed /\ Holds(k) /\ p \in Pcbs
  BY <1>2, <1>4, <1>5 DEF LaterInv, Conn
<1>8. b \in Block /\ b.state = "closing" /\ b.owner = k
  <2>1. pcbs[p] \in Block /\ pcbs[p].owner = k
    BY <1>2, <1>7 DEF Holds
  <2> QED
    BY <2>1, BlockFacts
<1> HIDE DEF b
<1>9. /\ pcbs' \in [Pcbs -> Block] /\ pcbs'[p] = b
      /\ \A q \in Pcbs \ {p} : pcbs'[q] = pcbs[q]
  BY <1>3, <1>7, <1>8
<1>10. /\ tcp' \in [Pcbs -> 0..MaxConns] /\ tcp'[p] = 0
       /\ \A q \in Pcbs \ {p} : tcp'[q] = tcp[q]
  BY <1>3, <1>4, <1>7, TcpConstants DEF TcpTypeOK
<1>11. MapInv'
  <2> SUFFICES ASSUME NEW q \in Pcbs
               PROVE  /\ pcbs'[q].state \in {"open", "half", "gone"} => tcp'[q] = pcbs'[q].owner /\ tcp'[q] # 0
                      /\ pcbs'[q].state = "closing" =>
                           /\ tcp'[q] = 0
                           /\ pcbs'[q].owner \in DOMAIN conn' /\ conn'[pcbs'[q].owner].closed
                      /\ pcbs'[q].state = "free" => pcbs'[q].unacked = 0
                      /\ tcp'[q] # 0 => /\ tcp'[q] \in DOMAIN conn' /\ conn'[tcp'[q]].pcb = q
                                        /\ pcbs'[q].state # "open" => conn'[tcp'[q]].ending
    BY DEF MapInv
  <2>1. CASE q = p
    BY <1>3, <1>7, <1>8, <1>9, <1>10, <2>1
  <2>2. CASE q # p
    BY <1>3, <1>4, <1>9, <1>10, <2>2 DEF MapInv
  <2> QED
    BY <2>1, <2>2
<1>12. LaterInv'
  <2>1. \A j \in DOMAIN conn : Holds(j) /\ j # k => Holds(j)'
    <3> SUFFICES ASSUME NEW j \in DOMAIN conn, Holds(j), j # k PROVE Holds(j)'
      OBVIOUS
    <3>1. conn[j].pcb \in Pcbs
      BY DEF Conn
    <3>2. conn[j].pcb # p
      BY <1>2, <1>7 DEF Holds
    <3> QED
      BY <1>3, <1>9, <3>1, <3>2 DEF Holds
  <2>2. \A i \in DOMAIN later' : /\ later'[i] \in DOMAIN conn' /\ conn'[later'[i]].closed
                                 /\ Holds(later[i])'
    <3> SUFFICES ASSUME NEW i \in DOMAIN later'
                 PROVE  /\ later'[i] \in DOMAIN conn' /\ conn'[later'[i]].closed
                        /\ Holds(later[i])'
      OBVIOUS
    <3>1. PICK j : j = later'[i]
      OBVIOUS
    <3>2. j = later[i + 1] /\ i + 1 \in DOMAIN later /\ i + 1 # 1
      BY <1>6, <3>1
    <3>3. j \in DOMAIN conn /\ conn[j].closed /\ Holds(j) /\ j # k
      BY <1>4, <1>5, <3>2 DEF LaterInv
    <3>4. Holds(j)'
      BY <2>1, <3>3
    <3> QED
      BY <1>3, <3>1, <3>3, <3>4 DEF Holds
  <2>3. \A i, j \in DOMAIN later' : later'[i] = later'[j] => i = j
    <3> SUFFICES ASSUME NEW i \in DOMAIN later', NEW j \in DOMAIN later', later'[i] = later'[j]
                 PROVE  i = j
      OBVIOUS
    <3>1. i + 1 = j + 1
      BY <1>4, <1>6 DEF LaterInv
    <3> QED
      BY <1>5, <1>6, <3>1
  <2> QED
    BY <2>2, <2>3 DEF LaterInv
<1>13. StackInv' /\ TcpTypeOK'
  <2>1. StackInv'
    BY <1>3, <1>4 DEF StackInv
  <2> QED
    BY <1>3, <1>4, <1>6, <1>9, <1>10, <2>1 DEF TcpTypeOK, Block
<1>14. ClosesOffStack
  BY <1>4 DEF ClosesOffStack
<1> QED
  BY <1>3, <1>11, <1>12, <1>13, <1>14 DEF TcpInv, NoStrays, ClosedAfterAll

-----------------------------------------------------------------------------
(* The invariant holds at first and is kept by every step.                 *)
LEMMA TcpInvInit == TcpInit => TcpInv
<1> SUFFICES ASSUME TcpInit PROVE TcpInv
  OBVIOUS
<1>1. /\ entry = Out /\ depth = 0 /\ pumping = 0 /\ ~sending /\ sending \in BOOLEAN
      /\ conn = <<>> /\ later = <<>>
  BY DEF TcpInit
<1>2. /\ tcp \in [Pcbs -> 0..MaxConns] /\ \A p \in Pcbs : tcp[p] = 0
      /\ pcbs \in [Pcbs -> Block]
      /\ \A p \in Pcbs : pcbs[p].state = "free" /\ pcbs[p].unacked = 0
  BY TcpConstants DEF TcpInit, FreeBlock, Block
<1>3. TcpTypeOK
  <2>1. depth \in 0..2 /\ pumping \in 0..MaxConns
    BY <1>1, TcpConstants
  <2>2. conn \in Seq(Conn) /\ later \in Seq(1..MaxConns)
    BY <1>1
  <2> QED
    BY <1>1, <1>2, <2>1, <2>2 DEF TcpTypeOK, Conn, Block
<1>4. MapInv
  BY <1>2, Zenon DEF MapInv
<1>5. LaterInv /\ StackInv /\ NoStrays /\ ClosedAfterAll
  BY <1>1 DEF LaterInv, StackInv, NoStrays, ClosedAfterAll
<1> QED
  BY <1>1, <1>3, <1>4, <1>5, TcpConstants DEF TcpInv

(* Every step of the LAN's TCP keeps the invariant.                        *)
LEMMA TcpInvStep == TcpInv /\ [TcpNext]_tcpVars => TcpInv' /\ ClosesOffStack
<1> SUFFICES ASSUME TcpInv, [TcpNext]_tcpVars PROVE TcpInv' /\ ClosesOffStack
  OBVIOUS
<1>1. ASSUME NEW p \in Pcbs, Enter(p) PROVE TcpInv' /\ ClosesOffStack
  BY <1>1, StackStep
<1>2. ASSUME NEW p \in Pcbs, Freed(p) PROVE TcpInv' /\ ClosesOffStack
  BY <1>2, FreedInv
<1>3. ASSUME NEW b \in BOOLEAN, accept_tcp_connection(b) PROVE TcpInv' /\ ClosesOffStack
  BY <1>3, AcceptInv
<1>4. ASSUME NEW b \in BOOLEAN, closed_tcp_connection(b) PROVE TcpInv' /\ ClosesOffStack
  BY <1>4, ClosedInv
<1>5. ASSUME NEW k \in 1..Len(conn), NEW ends \in BOOLEAN, receive_tcp_chunk(k, ends)
      PROVE  TcpInv' /\ ClosesOffStack
  BY <1>5, ReceiveInv
<1>6. ASSUME sent_tcp_chunk PROVE TcpInv' /\ ClosesOffStack
  BY <1>6, SentInv
<1>7. ASSUME pump PROVE TcpInv' /\ ClosesOffStack
  BY <1>7, StackStep, SendInv, PumpEndInv DEF pump
<1>8. ASSUME Return PROVE TcpInv' /\ ClosesOffStack
  BY <1>8, StackStep
<1>9. ASSUME runLater PROVE TcpInv' /\ ClosesOffStack
  BY <1>9, LaterStep
<1>10. CASE UNCHANGED tcpVars
  <2>1. TcpInv'
    BY <1>10 DEF tcpVars, stackVars, TcpInv, TcpTypeOK, MapInv, LaterInv, StackInv, Holds,
      NoStrays, ClosedAfterAll
  <2> QED
    BY <1>10, <2>1 DEF tcpVars, ClosesOffStack
<1> QED
  BY <1>1, <1>2, <1>3, <1>4, <1>5, <1>6, <1>7, <1>8, <1>9, <1>10 DEF TcpNext

(* However lwIP reuses its blocks and whatever a callback writes, ends or  *)
(* loses, each chunk goes to lwIP on the block of its own connection, each *)
(* block in use is held by the connection the map names, and a connection  *)
(* closes once, with nothing queued, and its own block with it (TcpConn    *)
(* and the callbacks, lan.mjs).                                            *)
THEOREM WrittenReachesItsOwn == TcpInit /\ [][TcpNext]_tcpVars => []TcpSafety
<1>1. TcpInv => TcpSafety
  BY DEF TcpInv, TcpSafety, MapOwnsBlock, MapInv, LaterInv, NoStrays
<1> QED
  BY <1>1, TcpInvInit, TcpInvStep, PTL

(* No block is closed while lwIP is working on a segment or taking a       *)
(* chunk, though defer() and call() go by lan.depth alone: it counts the   *)
(* calls that lwIP is in, nested ones too, and a pump() is never without   *)
(* one around it (call(), defer() and pump() of lan.mjs).                  *)
THEOREM NeverClosedUnderLwip == TcpInit /\ [][TcpNext]_tcpVars => ClosedOffStack
<1>1. TcpInv /\ [TcpNext]_tcpVars =>
        [\A p \in Pcbs : (pcbs[p].state # "closing" /\ pcbs'[p].state = "closing")
                              => entry = Out /\ ~sending]_tcpVars
  BY TcpInvStep DEF ClosesOffStack
<1> QED
  BY <1>1, TcpInvInit, TcpInvStep, PTL DEF ClosedOffStack

-----------------------------------------------------------------------------
(***************************************************************************)
(* The events that wait on the LAN's list run in order and in time, and a  *)
(* ping is logged once, for any pings, any dial and any host, however late *)
(* it calls.                                                               *)
(*                                                                         *)
(* What makes LoggedOnce inductive is what is still on the list: a ping's  *)
(* event is there once until it goes out, an answer's lies a whole second  *)
(* behind it, and at most one event, of the attempts that are left, dials. *)
(* at() puts an event behind its equals, so that no event is ever lost or  *)
(* doubled by its place.                                                   *)
(***************************************************************************)

(* The list of events.                                                      *)
JobNames == {"ping", "answer", "dial", "redial"}
Events == [at : Nat, job : JobNames, n : Nat]

Event(ns, job, n) == [at |-> ns, job |-> job, n |-> n]

Sorted(q)   == \A i, k \in DOMAIN q : i < k => q[i].at <= q[k].at
Distinct(q) == \A i, k \in DOMAIN q : q[i] = q[k] => i = k
Listing(q)  == q \in Seq(Events) /\ Sorted(q) /\ Distinct(q)

(* The highest of some numbers up to n.                                     *)
LEMMA HighestOf ==
  ASSUME NEW n \in Nat, NEW S \in SUBSET (0..n), S # {}
  PROVE  Max(S) \in S /\ \A y \in S : y <= Max(S)
<1>. DEFINE Gaps == {i \in 0..n : n - i \in S}
            Less == OpToRel(<, Nat)
<1>1. Gaps \subseteq Nat /\ Gaps # {}
  <2>1. PICK y \in S : TRUE
    OBVIOUS
  <2>2. n - y \in 0..n /\ n - (n - y) = y
    OBVIOUS
  <2>. HIDE DEF Less
  <2>3. n - y \in Gaps
    BY <2>2
  <2>4. Gaps \subseteq Nat
    OBVIOUS
  <2>. HIDE DEF Gaps
  <2>. QED  BY <2>3, <2>4
<1>2. \A x, y \in Nat : y < x => <<y, x>> \in Less
  BY DEF OpToRel
<1>3. IsWellFoundedOn(Less, Nat)
  BY NatLessThanWellFounded
<1>4. PICK x \in Gaps : \A y \in Gaps : ~ (<<y, x>> \in Less)
  <2>. HIDE DEF Gaps, Less
  <2>. QED  BY <1>1, <1>3, WFMin
<1>5. \A y \in Gaps : ~ (y < x)
  BY <1>1, <1>2, <1>4
<1>6. n - x \in S
  OBVIOUS
<1>7. \A y \in S : n - x >= y
  <2>. TAKE y \in S
  <2>1. n - y \in 0..n /\ n - (n - y) = y
    OBVIOUS
  <2>2. n - y \in Gaps
    BY <2>1
  <2>3. ~ (n - y < x) /\ x \in Nat
    BY <2>2, <1>5, <1>1
  <2>. QED  BY <2>1, <2>3
<1>8. Max(S) \in S /\ \A y \in S : Max(S) >= y
  BY <1>6, <1>7, Zenon DEF Max
<1>. QED  BY <1>8

(* s is q with e, an event for ns, put in behind the first i.               *)
PutIn(s, q, i, e, ns) ==
  /\ \A k \in 1..i : s[k] = q[k] /\ q[k].at <= ns
  /\ s[i + 1] = e
  /\ \A k \in (i + 1)..Len(q) : s[k + 1] = q[k] /\ q[k].at > ns

(* Where an event goes, and what is around it.                              *)
LEMMA PutAt ==
  ASSUME NEW q \in Seq(Events), NEW ns \in Nat, NEW job \in JobNames, NEW n \in Nat, Sorted(q),
         NEW s, s = At(q, ns, job, n)
  PROVE  /\ s \in Seq(Events) /\ Len(s) = Len(q) + 1
         /\ \E i \in 0..Len(q) : PutIn(s, q, i, Event(ns, job, n), ns)
<1>. DEFINE e == Event(ns, job, n)
            early == {0} \cup {j \in DOMAIN q : q[j].at <= ns}
            i == Max(early)
            a == SubSeq(q, 1, i)
            c == SubSeq(q, i + 1, Len(q))
<1>1. Len(q) \in Nat /\ DOMAIN q = 1..Len(q) /\ (\A k \in 1..Len(q) : q[k] \in Events)
  BY LenProperties, ElementOfSeq
<1>2. i \in early /\ \A y \in early : y <= i
  <2>1. early \in SUBSET (0..Len(q)) /\ early # {}
    BY <1>1
  <2>. HIDE DEF early
  <2>. QED  BY <2>1, <1>1, HighestOf
<1>3. i \in 0..Len(q)
  BY <1>1, <1>2
<1>4. \A k \in 1..i : q[k].at <= ns
  <2>. TAKE k \in 1..i
  <2>1. i \in DOMAIN q /\ q[i].at <= ns
    BY <1>2, <1>3
  <2>2. k \in DOMAIN q /\ (k < i \/ k = i)
    BY <1>1, <1>3
  <2>3. q[k].at <= q[i].at
    BY <2>1, <2>2, <1>1 DEF Sorted, Events
  <2>. QED  BY <2>1, <2>2, <2>3, <1>1 DEF Events
<1>5. \A k \in (i + 1)..Len(q) : q[k].at > ns
  <2>. TAKE k \in (i + 1)..Len(q)
  <2>1. k \in 1..Len(q) /\ ~(k <= i)
    BY <1>1, <1>3
  <2>2. k \notin early
    BY <2>1, <1>2
  <2>3. ~(q[k].at <= ns)
    BY <2>1, <2>2, <1>1
  <2>. QED  BY <2>1, <2>3, <1>1 DEF Events
<1>6. e \in Events
  BY DEF Event, Events
<1>7. At(q, ns, job, n) = a \o <<e>> \o c
  BY DEF At, Event
<1>. HIDE DEF e, i, early
<1>8. a \in Seq(Events) /\ Len(a) = i /\ \A k \in 1..i : a[k] = q[k]
  <2>1. \A k \in 1..i : q[k] \in Events
    BY <1>1, <1>3
  <2>2. /\ SubSeq(q, 1, i) \in Seq(Events) /\ Len(SubSeq(q, 1, i)) = (IF 1 <= i THEN i - 1 + 1 ELSE 0)
        /\ \A k \in 1..(i - 1 + 1) : SubSeq(q, 1, i)[k] = q[1 + k - 1]
    BY <2>1, <1>3, SubSeqProperties
  <2>. QED  BY <2>2, <1>3
<1>9. c \in Seq(Events) /\ Len(c) = Len(q) - i /\ \A k \in 1..(Len(q) - i) : c[k] = q[i + k]
  <2>1. \A k \in (i + 1)..Len(q) : q[k] \in Events
    BY <1>1, <1>3
  <2>. DEFINE m == i + 1
              l == Len(q)
  <2>2. m \in Int /\ l \in Int
    BY <1>1, <1>3
  <2>. HIDE DEF m, l
  <2>3. /\ SubSeq(q, m, l) \in Seq(Events) /\ Len(SubSeq(q, m, l)) = (IF m <= l THEN l - m + 1 ELSE 0)
        /\ \A k \in 1..(l - m + 1) : SubSeq(q, m, l)[k] = q[m + k - 1]
    BY <2>1, <2>2, SubSeqProperties DEF m, l
  <2>6. c = SubSeq(q, m, l)
    BY DEF m, l
  <2>7. m = i + 1 /\ l = Len(q)
    BY DEF m, l
  <2>. HIDE DEF c
  <2>4. Len(c) = Len(q) - i /\ c \in Seq(Events)
    BY <2>3, <2>6, <2>7, <1>1, <1>3
  <2>5. \A k \in 1..(Len(q) - i) : c[k] = q[i + k]
    <3>. TAKE k \in 1..(Len(q) - i)
    <3>1. k \in 1..(l - m + 1) /\ m + k - 1 = i + k
      BY <1>1, <1>3 DEF m, l
    <3>2. SubSeq(q, m, l)[k] = q[m + k - 1]
      BY <2>3, <3>1
    <3>. QED  BY <3>1, <3>2, <2>6
  <2>. QED  BY <2>4, <2>5
<1>. HIDE DEF a, c
<1>10. <<e>> \in Seq(Events) /\ Len(<<e>>) = 1 /\ <<e>>[1] = e
  BY <1>6
<1>11. /\ a \o <<e>> \in Seq(Events) /\ Len(a \o <<e>>) = i + 1
       /\ (\A k \in 1..i : (a \o <<e>>)[k] = q[k]) /\ (a \o <<e>>)[i + 1] = e
  <2>1. /\ a \o <<e>> \in Seq(Events) /\ Len(a \o <<e>>) = Len(a) + Len(<<e>>)
        /\ \A k \in 1..Len(a) + Len(<<e>>) :
             (a \o <<e>>)[k] = IF k <= Len(a) THEN a[k] ELSE <<e>>[k - Len(a)]
    BY <1>8, <1>10, ConcatProperties
  <2>. QED  BY <2>1, <1>3, <1>8, <1>10
<1>. DEFINE d == a \o <<e>>
<1>20. d \in Seq(Events)
  BY <1>11
<1>21. Len(d) = i + 1 /\ (\A k \in 1..i : d[k] = q[k]) /\ d[i + 1] = e
  BY <1>11
<1>. HIDE DEF d
<1>12. /\ d \o c \in Seq(Events) /\ Len(d \o c) = Len(d) + Len(c)
       /\ \A k \in 1..Len(d) + Len(c) : (d \o c)[k] = IF k <= Len(d) THEN d[k] ELSE c[k - Len(d)]
  BY <1>9, <1>20, ConcatProperties
<1>. DEFINE r == d \o c
<1>14. r \in Seq(Events) /\ Len(r) = Len(q) + 1
       /\ \A k \in 1..(Len(q) + 1) : r[k] = IF k <= i + 1 THEN d[k] ELSE c[k - (i + 1)]
  BY <1>12, <1>21, <1>9, <1>1, <1>3
<1>18. s = r
  BY <1>7 DEF d
<1>. HIDE DEF r
<1>15. \A k \in 1..i : r[k] = q[k]
  BY <1>21, <1>14, <1>1, <1>3
<1>16. r[i + 1] = e
  BY <1>21, <1>14, <1>1, <1>3
<1>17. \A k \in (i + 1)..Len(q) : r[k + 1] = q[k]
  <2>. TAKE k \in (i + 1)..Len(q)
  <2>1. k + 1 \in 1..(Len(q) + 1) /\ ~(k + 1 <= i + 1) /\ k - i \in 1..(Len(q) - i) /\ (k + 1) - (i + 1) = k - i
        /\ i + (k - i) = k
    BY <1>1, <1>3
  <2>2. r[k + 1] = c[k - i]
    BY <2>1, <1>14
  <2>. QED  BY <2>1, <2>2, <1>9
<1>. QED
  BY <1>3, <1>4, <1>5, <1>14, <1>15, <1>16, <1>17, <1>18 DEF e, PutIn

(* An event that is not there yet: the list stays in order, and without two *)
(* of the same.                                                             *)
LEMMA PutAtKeeps ==
  ASSUME NEW q, Listing(q), NEW ns \in Nat, NEW job \in JobNames, NEW n \in Nat,
         Event(ns, job, n) \notin ToSet(q)
  PROVE  LET r == At(q, ns, job, n) IN
         Listing(r) /\ ToSet(r) = ToSet(q) \cup {Event(ns, job, n)}
<1>. DEFINE r == At(q, ns, job, n)
            e == Event(ns, job, n)
<1>1. q \in Seq(Events) /\ Sorted(q) /\ Distinct(q)
  BY DEF Listing
<1>0. Len(q) \in Nat /\ DOMAIN q = 1..Len(q) /\ (\A k \in 1..Len(q) : q[k] \in Events)
  BY <1>1, LenProperties, ElementOfSeq
<1>2. Len(q) \in Nat /\ DOMAIN q = 1..Len(q) /\ (\A k \in 1..Len(q) : q[k] \in Events /\ q[k].at \in Nat)
  BY <1>0 DEF Events
<1>3. /\ r \in Seq(Events) /\ Len(r) = Len(q) + 1
      /\ \E i \in 0..Len(q) : PutIn(r, q, i, e, ns)
  <2>1. r = At(q, ns, job, n)
    OBVIOUS
  <2>. HIDE DEF r
  <2>. QED  BY <1>1, <2>1, PutAt
<1>4. PICK i \in 0..Len(q) :
         /\ \A k \in 1..i : r[k] = q[k] /\ q[k].at <= ns
         /\ r[i + 1] = e
         /\ \A k \in (i + 1)..Len(q) : r[k + 1] = q[k] /\ q[k].at > ns
  BY <1>3, Zenon DEF PutIn
<1>5. e.at = ns /\ e \notin ToSet(q)
  BY DEF Event
<1>. HIDE DEF r, e
<1>6. DOMAIN r = 1..(Len(q) + 1)
  BY <1>2, <1>3, LenProperties
(* Where each place of the new list comes from in the old one.              *)
<1>. DEFINE from(k) == IF k <= i THEN k ELSE k - 1
<1>7. \A k \in 1..(Len(q) + 1) : k # i + 1 =>
        /\ from(k) \in 1..Len(q) /\ r[k] = q[from(k)]
        /\ (k <= i => q[from(k)].at <= ns) /\ (k > i => q[from(k)].at > ns)
  <2>. TAKE k \in 1..(Len(q) + 1)
  <2>. HAVE k # i + 1
  <2>1. CASE k <= i
    BY <2>1, <1>2, <1>4
  <2>2. CASE ~(k <= i)
    <3>1. k - 1 \in (i + 1)..Len(q) /\ (k - 1) + 1 = k /\ k - 1 \in 1..Len(q) /\ k > i
      BY <2>2, <1>2
    <3>2. r[k] = q[k - 1] /\ q[k - 1].at > ns
      BY <3>1, <1>4
    <3>. QED  BY <2>2, <3>1, <3>2
  <2>. QED  BY <2>1, <2>2
<1>8. \A k \in 1..Len(q) : \E j \in 1..(Len(q) + 1) : r[j] = q[k]
  <2>. TAKE k \in 1..Len(q)
  <2>1. CASE k <= i
    BY <2>1, <1>2, <1>4
  <2>2. CASE ~(k <= i)
    BY <2>2, <1>2, <1>4
  <2>. QED  BY <2>1, <2>2
<1>9. i + 1 \in 1..(Len(q) + 1)
  BY <1>2
<1>10. ToSet(r) \subseteq ToSet(q) \cup {e}
  <2>. SUFFICES ASSUME NEW k \in 1..(Len(q) + 1) PROVE r[k] \in ToSet(q) \cup {e}
    BY <1>6 DEF ToSet
  <2>1. CASE k = i + 1
    BY <2>1, <1>4
  <2>2. CASE k # i + 1
    <3>1. from(k) \in DOMAIN q /\ r[k] = q[from(k)]
      BY <2>2, <1>2, <1>7
    <3>. HIDE DEF from
    <3>. QED  BY <3>1 DEF ToSet
  <2>. QED  BY <2>1, <2>2
<1>11. ToSet(q) \cup {e} \subseteq ToSet(r)
  <2>1. e \in ToSet(r)
    BY <1>4, <1>6, <1>9 DEF ToSet
  <2>2. ToSet(q) \subseteq ToSet(r)
    BY <1>2, <1>6, <1>8 DEF ToSet
  <2>. QED  BY <2>1, <2>2
<1>12. \A k \in 1..(Len(q) + 1) : k # i + 1 => r[k] # e /\ r[k].at \in Nat
  <2>. TAKE k \in 1..(Len(q) + 1)
  <2>. HAVE k # i + 1
  <2>1. from(k) \in DOMAIN q /\ r[k] = q[from(k)]
    BY <1>2, <1>7
  <2>. HIDE DEF from
  <2>. QED  BY <2>1, <1>2, <1>5 DEF ToSet
<1>13. Sorted(r)
  <2>. SUFFICES ASSUME NEW k \in 1..(Len(q) + 1), NEW j \in 1..(Len(q) + 1), k < j
                PROVE  r[k].at <= r[j].at
    BY <1>6 DEF Sorted
  <2>1. CASE k = i + 1
    <3>1. j # i + 1 /\ j > i
      BY <2>1
    <3>2. r[j].at > ns /\ r[j].at \in Nat
      BY <3>1, <1>7, <1>12
    <3>3. r[k].at = ns
      BY <2>1, <1>4, <1>5
    <3>. QED  BY <3>2, <3>3
  <2>2. CASE j = i + 1
    <3>1. k # i + 1 /\ k <= i
      BY <2>2
    <3>2. r[k].at <= ns /\ r[k].at \in Nat
      BY <3>1, <1>7, <1>12
    <3>3. r[j].at = ns
      BY <2>2, <1>4, <1>5
    <3>. QED  BY <3>2, <3>3
  <2>3. CASE k # i + 1 /\ j # i + 1
    <3>1. from(k) < from(j) /\ from(k) \in DOMAIN q /\ from(j) \in DOMAIN q
      BY <2>3, <1>2, <1>7
    <3>2. q[from(k)].at <= q[from(j)].at
      BY <3>1, <1>1 DEF Sorted
    <3>. QED  BY <2>3, <3>2, <1>7
  <2>. QED  BY <2>1, <2>2, <2>3
<1>14. Distinct(r)
  <2>. SUFFICES ASSUME NEW k \in 1..(Len(q) + 1), NEW j \in 1..(Len(q) + 1), r[k] = r[j], k # j
                PROVE  FALSE
    BY <1>6 DEF Distinct
  <2>1. k # i + 1 /\ j # i + 1
    BY <1>4, <1>12
  <2>2. from(k) # from(j) /\ from(k) \in DOMAIN q /\ from(j) \in DOMAIN q
    BY <2>1, <1>2, <1>7
  <2>3. q[from(k)] = q[from(j)]
    BY <2>1, <1>7
  <2>. QED  BY <2>2, <2>3, <1>1 DEF Distinct
<1>. QED
  BY <1>3, <1>10, <1>11, <1>13, <1>14 DEF Listing, r, e

(* The first event is taken off.                                            *)
LEMMA FirstTaken ==
  ASSUME NEW q, Listing(q), q # <<>>
  PROVE  /\ Listing(Tail(q)) /\ ToSet(Tail(q)) = ToSet(q) \ {q[1]}
         /\ q[1] \in ToSet(q) /\ q[1] \in Events
<1>1. q \in Seq(Events) /\ Sorted(q) /\ Distinct(q)
  BY DEF Listing
<1>2. Len(q) \in Nat \ {0} /\ DOMAIN q = 1..Len(q) /\ (\A k \in 1..Len(q) : q[k] \in Events)
  BY <1>1, LenProperties, ElementOfSeq, EmptySeq
<1>3. Tail(q) \in Seq(Events) /\ Len(Tail(q)) = Len(q) - 1 /\ \A k \in 1..(Len(q) - 1) : Tail(q)[k] = q[k + 1]
  BY <1>1, <1>2, HeadTailProperties
<1>4. DOMAIN Tail(q) = 1..(Len(q) - 1)
  BY <1>3
<1>5. Sorted(Tail(q))
  BY <1>1, <1>2, <1>3, <1>4 DEF Sorted
<1>6. Distinct(Tail(q))
  BY <1>1, <1>2, <1>3, <1>4 DEF Distinct
<1>7. 1 \in DOMAIN q
  BY <1>2
<1>8. \A x \in ToSet(Tail(q)) : x \in ToSet(q) /\ x # q[1]
  BY <1>1, <1>2, <1>3, <1>4, <1>7 DEF ToSet, Distinct
<1>9. \A x \in ToSet(q) : x = q[1] \/ x \in ToSet(Tail(q))
  <2>. SUFFICES ASSUME NEW k \in 1..Len(q), k # 1 PROVE q[k] \in ToSet(Tail(q))
    BY <1>2 DEF ToSet
  <2>1. k - 1 \in DOMAIN Tail(q) /\ Tail(q)[k - 1] = q[k]
    BY <1>2, <1>3, <1>4
  <2>. QED  BY <2>1 DEF ToSet
<1>. QED
  BY <1>2, <1>3, <1>5, <1>6, <1>7, <1>8, <1>9 DEF Listing, ToSet

-----------------------------------------------------------------------------
Logs0 == [sent : Nat \cup {NotYet}, log : Seq({"reply", "none"})]
Attempts == [at : Nat, conn : {"trying", "connected", "refused"}]

Dialling == {"dial", "redial"}

(* What waits on the list is still to be done, and nothing waits twice.     *)
EventsAgree ==
  /\ \A e \in ToSet(timers) :
       /\ e.job = "ping" => e.n \in 1..asked /\ pings[e.n].sent = NotYet
       /\ e.job = "answer" => /\ e.n \in Pings /\ pings[e.n].sent # NotYet
                              /\ pings[e.n].sent + Second <= e.at
       /\ e.job \in Dialling => e.n > 0 /\ e.n + Len(dials) <= Tries
       /\ e.job = "dial" => dials = <<>>
       /\ e.job = "redial" => dials # <<>> /\ dials[Len(dials)].at + Second <= e.at
  /\ \A e, f \in ToSet(timers) : e.job = "ping" /\ f.job = "ping" /\ e.n = f.n => e = f
  /\ \A e, f \in ToSet(timers) : e.job \in Dialling /\ f.job \in Dialling => e = f

(* The log of a ping: empty until it went out and while it is pinging.      *)
LogsAgree ==
  \A n \in Pings :
    /\ (pings[n].sent = NotYet \/ n \in pinging) => pings[n].log = <<>>
    /\ (pings[n].sent = NotYet) => n \notin pinging
    /\ (pings[n].sent # NotYet /\ n \notin pinging) => Len(pings[n].log) = 1
    /\ pings[n].log = <<"none">> => lanClock >= pings[n].sent + Second
    /\ n > asked => pings[n].sent = NotYet

DialsAgree ==
  /\ Len(dials) <= Tries
  /\ \A k \in DOMAIN dials : dials[k].at <= dials[Len(dials)].at

TimersTypes ==
  /\ lanClock \in 0..MaxTime /\ asked \in 0..Len(PingTimes)
  /\ looping \in BOOLEAN
  /\ pinging \subseteq Pings
  /\ pings \in [Pings -> Logs0]
  /\ dials \in Seq(Attempts)

TimersInv == TimersTypes /\ Listing(timers) /\ EventsAgree /\ LogsAgree /\ DialsAgree

(* What the constants are.                                                  *)
LEMMA TimersBounds ==
  /\ Len(PingTimes) \in Nat /\ \A i \in Pings : PingTimes[i] \in Nat
  /\ DialAt \in Nat /\ Tries \in Nat /\ Tries > 0 /\ Second \in Nat /\ Second > 0 /\ MaxTime \in Nat
  BY TimersConstants, LenProperties, ElementOfSeq DEF Pings

(* At first there is the dial's event.                                      *)
LEMMA TimersInitially == TimersInit => TimersInv
<1>. SUFFICES ASSUME TimersInit PROVE TimersInv
  OBVIOUS
<1>. DEFINE e == Event(DialAt, "dial", Tries)
<1>1. timers = <<e>> /\ e \in Events /\ e.job = "dial" /\ e.n = Tries
  BY TimersBounds DEF TimersInit, Event, Events, JobNames
<1>. HIDE DEF e
<1>2. timers \in Seq(Events) /\ Len(timers) = 1 /\ DOMAIN timers = {1} /\ timers[1] = e
  BY <1>1
<1>3. Listing(timers) /\ ToSet(timers) = {e}
  BY <1>1, <1>2 DEF Listing, Sorted, Distinct, ToSet, Events
<1>4. <<>> \in Seq({"reply", "none"}) /\ <<>> \in Seq(Attempts) /\ Len(<<>>) = 0
  BY EmptySeq
<1>5. dials = <<>> /\ pinging = {} /\ asked = 0 /\ lanClock = 0 /\ looping = FALSE
  BY DEF TimersInit
<1>6. pings = [i \in Pings |-> [sent |-> NotYet, log |-> <<>>]]
  BY DEF TimersInit
<1>7. EventsAgree
  BY <1>1, <1>3, <1>4, <1>5, TimersBounds DEF EventsAgree, Dialling
<1>8. LogsAgree
  BY <1>5, <1>6 DEF LogsAgree, NotYet
<1>9. DialsAgree
  BY <1>4, <1>5, TimersBounds DEF DialsAgree
<1>10. pings \in [Pings -> Logs0]
  BY <1>4, <1>6 DEF Logs0
<1>11. TimersTypes
  <2>1. lanClock \in 0..MaxTime /\ asked \in 0..Len(PingTimes)
    BY <1>5, TimersBounds
  <2>. QED  BY <2>1, <1>4, <1>5, <1>10, Zenon DEF TimersTypes
<1>. QED
  BY <1>3, <1>7, <1>8, <1>9, <1>11 DEF TimersInv

(* A ping's event is put on the list.                                       *)
LEMMA AskStep == ASSUME TimersInv, askPing PROVE TimersInv'
<1>. PICK m : m = asked + 1
  OBVIOUS
<1>1. /\ m \in Pings /\ m \in Nat /\ m = asked + 1 /\ asked' = m /\ asked \in Nat
      /\ timers' = At(timers, PingTimes[m], "ping", m) /\ PingTimes[m] \in Nat
      /\ UNCHANGED <<lanClock, looping, pinging, pings, dials>>
  BY TimersBounds DEF askPing, TimersInv, TimersTypes, Pings
<1>2. \A x \in ToSet(timers) : x.job = "ping" => x.n # m
  BY <1>1 DEF TimersInv, EventsAgree
<1>. DEFINE e == Event(PingTimes[m], "ping", m)
<1>3. e.job = "ping" /\ e.n = m /\ e \notin ToSet(timers)
  BY <1>2 DEF Event
<1>4. Listing(timers') /\ ToSet(timers') = ToSet(timers) \cup {e}
  <2>1. "ping" \in JobNames /\ Listing(timers)
    BY DEF JobNames, TimersInv
  <2>. QED  BY <1>1, <1>3, <2>1, PutAtKeeps
<1>. HIDE DEF e
<1>5. pings[m].sent = NotYet
  BY <1>1 DEF TimersInv, LogsAgree
<1>6. EventsAgree'
  BY <1>1, <1>2, <1>3, <1>4, <1>5 DEF TimersInv, EventsAgree, Dialling
<1>7. LogsAgree'
  BY <1>1 DEF TimersInv, LogsAgree, Pings
<1>8. DialsAgree'
  BY <1>1 DEF TimersInv, DialsAgree
<1>9. TimersTypes'
  BY <1>1, TimersBounds DEF TimersInv, TimersTypes, Pings
<1>. QED
  BY <1>4, <1>6, <1>7, <1>8, <1>9 DEF TimersInv

(* The pings and dials a step leaves alone, while the clock goes on.        *)
LEMMA ClockGoesOn ==
  ASSUME TimersInv, lanClock' \in lanClock..MaxTime, looping' \in BOOLEAN,
         UNCHANGED <<timers, asked, pinging, pings, dials>>
  PROVE  TimersInv'
<1>0. lanClock \in 0..MaxTime
  BY DEF TimersInv, TimersTypes
<1>1. lanClock' \in 0..MaxTime /\ lanClock' >= lanClock
  BY <1>0, TimersBounds
<1>2. TimersTypes'
  BY <1>1 DEF TimersInv, TimersTypes
<1>3. EventsAgree' /\ Listing(timers)' /\ DialsAgree'
  BY DEF TimersInv, EventsAgree, DialsAgree
<1>4. LogsAgree'
  <2>1. \A n \in Pings : pings[n].sent \in Nat \cup {NotYet}
    BY DEF TimersInv, TimersTypes, Logs0
  <2>. QED  BY <1>0, <1>1, <2>1, TimersBounds DEF TimersInv, LogsAgree, NotYet
<1>. QED  BY <1>2, <1>3, <1>4 DEF TimersInv

(* The host calls advance(), and its loop ends.                             *)
LEMMA CallStep ==
  ASSUME TimersInv, advanced \/ \E ns \in Calls : advance(ns)
  PROVE  TimersInv'
<1>1. lanClock \in 0..MaxTime
  BY DEF TimersInv, TimersTypes
<1>2. UNCHANGED <<timers, asked, pinging, pings, dials>> /\ looping' \in BOOLEAN
  BY DEF advanced, advance
<1>3. lanClock' \in lanClock..MaxTime
  <2>1. CASE advanced
    BY <2>1, <1>1 DEF advanced
  <2>2. CASE \E ns \in Calls : advance(ns)
    <3>. PICK ns \in Calls : advance(ns)
      BY <2>2
    <3>1. lanClock' = (IF ns > lanClock THEN ns ELSE lanClock) /\ ns <= MaxTime
      BY DEF advance, setClock, Calls
    <3>2. nextNs \in Int
      <4>1. TICK \in Nat \ {0} /\ lanClock \in Nat
        BY <1>1, TimersConstants
      <4>2. lanClock \div TICK \in Int
        BY <4>1
      <4>3. ((lanClock \div TICK) + 1) * TICK \in Int
        BY <4>1, <4>2
      <4>4. timers # <<>> => timers[1].at \in Nat
        BY FirstTaken DEF TimersInv, Events
      <4>. QED  BY <4>3, <4>4 DEF nextNs
    <3>3. ns \in Int
      BY <3>2, TimersConstants DEF Calls
    <3>. QED  BY <3>1, <3>3, <1>1, TimersBounds
  <2>. QED  BY <2>1, <2>2
<1>. QED  BY <1>2, <1>3, ClockGoesOn

(* A frame sets the clock no further than MaxTime, and never back.          *)
LEMMA StampsAre == ASSUME TimersInv, NEW ns \in Stamps PROVE setClock(ns) \in lanClock..MaxTime
<1>1. lanClock \in 0..MaxTime
  BY DEF TimersInv, TimersTypes
<1>. QED  BY <1>1, TimersBounds DEF Stamps, setClock

(* A ping has its line in the log.                                          *)
LEMMA Logged ==
  ASSUME TimersInv, NEW n \in pinging, NEW line \in {"reply", "none"}, Logs(n, line),
         pinging' = pinging \ {n},
         lanClock' \in lanClock..MaxTime, line = "none" => lanClock' >= pings[n].sent + Second,
         UNCHANGED asked
  PROVE  /\ pings' \in [Pings -> Logs0] /\ LogsAgree'
         /\ \A m \in Pings : pings'[m].sent = pings[m].sent
<1>1. /\ n \in Pings /\ pings[n].log = <<>> /\ pings[n].sent # NotYet /\ pings[n] \in Logs0
      /\ pings \in [Pings -> Logs0] /\ lanClock \in 0..MaxTime
  BY DEF TimersInv, TimersTypes, LogsAgree
<1>. DEFINE new == [pings[n] EXCEPT !.log = Append(<<>>, line)]
<1>2. /\ Append(<<>>, line) \in Seq({"reply", "none"}) /\ Len(Append(<<>>, line)) = 1
      /\ (Append(<<>>, line) = <<"none">> => line = "none")
  <2>1. <<>> \in Seq({"reply", "none"}) /\ Len(<<>>) = 0
    BY EmptySeq
  <2>2. Append(<<>>, line)[1] = line
    BY <2>1, AppendProperties
  <2>. QED  BY <2>1, <2>2, AppendProperties
<1>3. new \in Logs0 /\ new.sent = pings[n].sent /\ new.log = Append(<<>>, line)
  BY <1>1, <1>2 DEF Logs0
<1>4. pings' = [pings EXCEPT ![n] = new]
  BY <1>1 DEF Logs
<1>. HIDE DEF new
<1>5. pings' \in [Pings -> Logs0] /\ \A m \in Pings : pings'[m] = IF m = n THEN new ELSE pings[m]
  BY <1>1, <1>3, <1>4
<1>6. LogsAgree'
  <2>. SUFFICES ASSUME NEW m \in Pings
                PROVE  /\ (pings'[m].sent = NotYet \/ m \in pinging') => pings'[m].log = <<>>
                       /\ (pings'[m].sent = NotYet) => m \notin pinging'
                       /\ (pings'[m].sent # NotYet /\ m \notin pinging') => Len(pings'[m].log) = 1
                       /\ pings'[m].log = <<"none">> => lanClock' >= pings'[m].sent + Second
                       /\ m > asked' => pings'[m].sent = NotYet
    BY DEF LogsAgree
  <2>1. CASE m = n
    BY <2>1, <1>1, <1>2, <1>3, <1>5 DEF TimersInv, LogsAgree
  <2>2. CASE m # n
    <3>1. pings'[m] = pings[m] /\ (m \in pinging' <=> m \in pinging) /\ pings[m].sent \in Nat \cup {NotYet}
      BY <2>2, <1>1, <1>5 DEF Logs0
    <3>. QED  BY <3>1, <1>1, TimersBounds DEF TimersInv, LogsAgree, NotYet
  <2>. QED  BY <2>1, <2>2
<1>. QED  BY <1>3, <1>5, <1>6

(* A reply logs a ping that waits for one.                                  *)
LEMMA ReplyStep ==
  ASSUME TimersInv, NEW ns \in Stamps, NEW n \in Pings, pingReply(n, ns) PROVE TimersInv'
<1>1. lanClock' \in lanClock..MaxTime /\ UNCHANGED <<timers, asked, looping, dials>> /\ pinging' = pinging \ {n}
  BY StampsAre DEF pingReply
<1>2. CASE n \in pinging
  <2>1. Logs(n, "reply")
    BY <1>2 DEF pingReply
  <2>2. /\ pings' \in [Pings -> Logs0] /\ LogsAgree'
        /\ \A m \in Pings : pings'[m].sent = pings[m].sent
    BY <1>1, <1>2, <2>1, Logged
  <2>3. \A m \in 1..asked : m \in Pings
    BY TimersBounds DEF TimersInv, TimersTypes, Pings
  <2>4. EventsAgree'
    BY <1>1, <2>2, <2>3 DEF TimersInv, EventsAgree
  <2>5. TimersTypes'
    <3>1. lanClock' \in 0..MaxTime /\ pinging' \subseteq Pings
      BY <1>1 DEF TimersInv, TimersTypes
    <3>. QED  BY <3>1, <1>1, <2>2 DEF TimersInv, TimersTypes
  <2>. QED  BY <1>1, <2>2, <2>4, <2>5 DEF TimersInv, DialsAgree
<1>3. CASE n \notin pinging
  <2>1. UNCHANGED <<pings, pinging>>
    BY <1>1, <1>3 DEF pingReply
  <2>2. looping' \in BOOLEAN
    BY <1>1 DEF TimersInv, TimersTypes
  <2>. QED  BY <1>1, <2>1, <2>2, ClockGoesOn
<1>. QED  BY <1>2, <1>3

(* An attempt is answered, which changes nothing of when it was made.       *)
LEMMA AnswerStep ==
  ASSUME TimersInv, NEW ns \in Stamps, NEW k \in DOMAIN dials, NEW how \in {"connected", "refused"},
         dialAnswer(k, how, ns)
  PROVE  TimersInv'
<1>1. lanClock' \in lanClock..MaxTime /\ UNCHANGED <<timers, asked, looping, pinging, pings>>
  BY StampsAre DEF dialAnswer
<1>2. /\ dials \in Seq(Attempts) /\ Len(dials) \in Nat /\ DOMAIN dials = 1..Len(dials) /\ dials[k] \in Attempts
  BY LenProperties, ElementOfSeq DEF TimersInv, TimersTypes
<1>. DEFINE new == [dials[k] EXCEPT !.conn = how]
<1>3. new \in Attempts /\ new.at = dials[k].at
  BY <1>2 DEF Attempts
<1>4. dials' = [dials EXCEPT ![k] = new]
  BY <1>2 DEF dialAnswer
<1>. HIDE DEF new
<1>5. /\ dials' \in Seq(Attempts) /\ Len(dials') = Len(dials) /\ DOMAIN dials' = DOMAIN dials
  BY <1>2, <1>3, <1>4, ExceptSeq
<1>6. \A i \in DOMAIN dials : dials'[i].at = dials[i].at
  BY <1>2, <1>3, <1>4
<1>7. Len(dials) \in DOMAIN dials /\ dials # <<>> /\ dials' # <<>>
  BY <1>2, <1>5, EmptySeq
<1>. DEFINE D == dials'
<1>8. EventsAgree'
  BY <1>1, <1>5, <1>6, <1>7 DEF TimersInv, EventsAgree
<1>9. DialsAgree'
  BY <1>5, <1>6, <1>7 DEF TimersInv, DialsAgree
<1>10. LogsAgree'
  <2>1. \A n \in Pings : pings[n].sent \in Nat \cup {NotYet}
    BY DEF TimersInv, TimersTypes, Logs0
  <2>2. lanClock \in 0..MaxTime
    BY DEF TimersInv, TimersTypes
  <2>. QED  BY <1>1, <2>1, <2>2, TimersBounds DEF TimersInv, LogsAgree, NotYet
<1>11. TimersTypes'
  <2>1. lanClock' \in 0..MaxTime
    BY <1>1 DEF TimersInv, TimersTypes
  <2>. QED  BY <2>1, <1>1, <1>5 DEF TimersInv, TimersTypes
<1>. QED  BY <1>1, <1>8, <1>9, <1>10, <1>11 DEF TimersInv

-----------------------------------------------------------------------------
(* The first event of the list, and what is left without it.                *)
LEMMA OffTheList ==
  ASSUME TimersInv, Due
  PROVE  /\ Listing(Tail(timers)) /\ ToSet(Tail(timers)) = ToSet(timers) \ {timers[1]}
         /\ timers[1] \in ToSet(timers) /\ timers[1] \in Events /\ timers[1].at <= lanClock
  BY FirstTaken DEF TimersInv, Due

(* A ping goes out, and its answer's event a second behind it.              *)
LEMMA PingOut ==
  ASSUME TimersInv, Due, timers[1].job = "ping", sendPing(timers[1].n), UNCHANGED <<lanClock, asked, looping>>
  PROVE  TimersInv'
<1>. PICK e, T, n : e = timers[1] /\ T = ToSet(Tail(timers)) /\ n = e.n
  OBVIOUS
<1>1. /\ T = ToSet(timers) \ {e} /\ e \in ToSet(timers) /\ e \in Events /\ e.at <= lanClock /\ e.job = "ping"
      /\ Listing(Tail(timers))
  BY OffTheList
<1>2. n \in 1..asked /\ n \in Pings /\ n \in Nat /\ pings[n].sent = NotYet /\ lanClock \in Nat /\ lanClock \in 0..MaxTime
      /\ pings \in [Pings -> Logs0] /\ asked \in Nat
  BY <1>1, TimersBounds DEF TimersInv, TimersTypes, EventsAgree, Pings
<1>. DEFINE a == Event(lanClock + Second, "answer", n)
<1>3. a.job = "answer" /\ a.n = n /\ a.at = lanClock + Second
  BY DEF Event
<1>4. a \notin T
  BY <1>1, <1>2, <1>3 DEF TimersInv, EventsAgree
<1>5. Listing(timers') /\ ToSet(timers') = T \cup {a}
  <2>1. timers' = At(Tail(timers), lanClock + Second, "answer", n)
    BY DEF sendPing
  <2>2. "answer" \in JobNames /\ lanClock + Second \in Nat
    BY <1>2, TimersBounds DEF JobNames
  <2>. QED  BY <1>1, <1>2, <1>4, <2>1, <2>2, PutAtKeeps
<1>. HIDE DEF a
<1>6. /\ pings' = [pings EXCEPT ![n].sent = lanClock] /\ pinging' = pinging \cup {n}
      /\ dials' = dials /\ lanClock' = lanClock /\ asked' = asked /\ looping' = looping
  BY DEF sendPing
<1>7. /\ pings' \in [Pings -> Logs0] /\ pings'[n].sent = lanClock /\ pings'[n].log = pings[n].log
      /\ \A m \in Pings : m # n => pings'[m] = pings[m]
  <2>1. [pings[n] EXCEPT !.sent = lanClock] \in Logs0
    BY <1>2 DEF Logs0
  <2>2. pings' = [pings EXCEPT ![n] = [pings[n] EXCEPT !.sent = lanClock]]
    BY <1>2, <1>6
  <2>. QED  BY <1>2, <2>1, <2>2 DEF Logs0
<1>8. lanClock # NotYet
  BY <1>2 DEF NotYet
<1>9. \A x \in T : /\ x.job = "ping" => x.n # n /\ x.n \in Pings
                   /\ x.job = "answer" => x.n # n
  <2>1. \A x \in 1..asked : x \in Pings
    BY TimersBounds DEF TimersInv, TimersTypes, Pings
  <2>. QED  BY <1>1, <1>2, <2>1 DEF TimersInv, EventsAgree
<1>10. EventsAgree'
  <2>1. \A x \in T : /\ x.job = "ping" => x.n \in 1..asked /\ pings'[x.n].sent = NotYet
                     /\ x.job = "answer" => /\ x.n \in Pings /\ pings'[x.n].sent # NotYet
                                            /\ pings'[x.n].sent + Second <= x.at
    BY <1>1, <1>7, <1>9 DEF TimersInv, EventsAgree
  <2>2. a.n \in Pings /\ pings'[a.n].sent # NotYet /\ pings'[a.n].sent + Second <= a.at
    BY <1>2, <1>3, <1>7, <1>8, TimersBounds
  <2>. QED  BY <1>1, <1>3, <1>5, <1>6, <2>1, <2>2 DEF TimersInv, EventsAgree, Dialling
<1>11. LogsAgree'
  <2>. SUFFICES ASSUME NEW m \in Pings
                PROVE  /\ (pings'[m].sent = NotYet \/ m \in pinging') => pings'[m].log = <<>>
                       /\ (pings'[m].sent = NotYet) => m \notin pinging'
                       /\ (pings'[m].sent # NotYet /\ m \notin pinging') => Len(pings'[m].log) = 1
                       /\ pings'[m].log = <<"none">> => lanClock' >= pings'[m].sent + Second
                       /\ m > asked' => pings'[m].sent = NotYet
    BY DEF LogsAgree
  <2>1. CASE m = n
    <3>1. pings'[m].log = <<>> /\ <<>> # <<"none">>
      BY <2>1, <1>2, <1>7 DEF TimersInv, LogsAgree
    <3>. QED  BY <2>1, <3>1, <1>2, <1>6, <1>7, <1>8
  <2>2. CASE m # n
    BY <2>2, <1>6, <1>7 DEF TimersInv, LogsAgree
  <2>. QED  BY <2>1, <2>2
<1>12. TimersTypes'
  BY <1>2, <1>6, <1>7 DEF TimersInv, TimersTypes
<1>13. DialsAgree'
  BY <1>6 DEF TimersInv, DialsAgree
<1>. QED  BY <1>5, <1>10, <1>11, <1>12, <1>13 DEF TimersInv

(* A ping's second is over.                                                 *)
LEMMA SecondOver ==
  ASSUME TimersInv, Due, timers[1].job = "answer", noAnswer(timers[1].n), UNCHANGED <<lanClock, asked, looping>>
  PROVE  TimersInv'
<1>. PICK e, T, n : e = timers[1] /\ T = ToSet(Tail(timers)) /\ n = e.n
  OBVIOUS
<1>1. /\ T = ToSet(timers) \ {e} /\ e \in ToSet(timers) /\ e \in Events /\ e.at <= lanClock /\ e.job = "answer"
      /\ Listing(Tail(timers))
  BY OffTheList
<1>2. /\ n \in Pings /\ pings[n].sent \in Nat /\ lanClock \in 0..MaxTime /\ e.at \in Nat
      /\ pings[n].sent + Second <= lanClock
  <2>1. n \in Pings /\ pings[n].sent # NotYet /\ pings[n].sent + Second <= e.at /\ lanClock \in 0..MaxTime
        /\ pings \in [Pings -> Logs0]
    BY <1>1 DEF TimersInv, TimersTypes, EventsAgree
  <2>2. pings[n].sent \in Nat /\ e.at \in Nat
    BY <2>1, <1>1 DEF Logs0, Events
  <2>. QED  BY <1>1, <2>1, <2>2, TimersBounds
<1>3. /\ pinging' = pinging \ {n} /\ timers' = Tail(timers) /\ dials' = dials
      /\ lanClock' = lanClock /\ asked' = asked /\ looping' = looping
  BY DEF noAnswer
<1>4. /\ pings' \in [Pings -> Logs0] /\ LogsAgree'
      /\ \A m \in Pings : pings'[m].sent = pings[m].sent
  <2>1. CASE n \in pinging
    <3>1. Logs(n, "none")
      BY <2>1 DEF noAnswer
    <3>2. lanClock' \in lanClock..MaxTime /\ lanClock' >= pings[n].sent + Second
      BY <1>2, <1>3, TimersBounds
    <3>. QED  BY <2>1, <3>1, <3>2, <1>3, Logged
  <2>2. CASE n \notin pinging
    <3>1. pings' = pings /\ pinging' = pinging
      BY <2>2, <1>3 DEF noAnswer
    <3>. QED  BY <3>1, <1>3 DEF TimersInv, TimersTypes, LogsAgree
  <2>. QED  BY <2>1, <2>2
<1>5. \A m \in 1..asked : m \in Pings
  BY TimersBounds DEF TimersInv, TimersTypes, Pings
<1>6. EventsAgree'
  BY <1>1, <1>3, <1>4, <1>5 DEF TimersInv, EventsAgree
<1>7. TimersTypes'
  BY <1>3, <1>4 DEF TimersInv, TimersTypes
<1>8. DialsAgree'
  BY <1>3 DEF TimersInv, DialsAgree
<1>. QED  BY <1>1, <1>3, <1>4, <1>6, <1>7, <1>8 DEF TimersInv

(* An attempt is made by the only event that dials, a second after the one  *)
(* before it.                                                               *)
LEMMA Attempted ==
  ASSUME TimersInv, Due, timers[1].job \in Dialling, NEW pcb \in BOOLEAN,
         attempt(timers[1].n, pcb), UNCHANGED <<lanClock, asked, looping>>
  PROVE  /\ TimersInv'
         /\ \A k \in DOMAIN dials : dials[k].at + Second <= lanClock
         /\ Len(dials') > Len(dials) =>
               dials' = Append(dials, [at |-> lanClock, conn |-> "trying"])
<1>. PICK e, T, n : e = timers[1] /\ T = ToSet(Tail(timers)) /\ n = e.n
  OBVIOUS
<1>1. /\ T = ToSet(timers) \ {e} /\ e \in ToSet(timers) /\ e \in Events /\ e.at <= lanClock /\ e.job \in Dialling
      /\ Listing(Tail(timers))
  BY OffTheList
<1>2. /\ n \in Nat /\ n > 0 /\ n + Len(dials) <= Tries /\ lanClock \in 0..MaxTime /\ e.at \in Nat
      /\ dials \in Seq(Attempts) /\ Len(dials) \in Nat /\ DOMAIN dials = 1..Len(dials)
      /\ \A k \in DOMAIN dials : dials[k] \in Attempts /\ dials[k].at \in Nat
  <2>1. dials \in Seq(Attempts) /\ lanClock \in 0..MaxTime /\ n > 0 /\ n + Len(dials) <= Tries
    BY <1>1 DEF TimersInv, TimersTypes, EventsAgree
  <2>2. n \in Nat /\ e.at \in Nat
    BY <1>1 DEF Events
  <2>3. Len(dials) \in Nat /\ DOMAIN dials = 1..Len(dials) /\ \A k \in DOMAIN dials : dials[k] \in Attempts
    BY <2>1, LenProperties, ElementOfSeq
  <2>4. \A k \in DOMAIN dials : dials[k].at \in Nat
    BY <2>3 DEF Attempts
  <2>. QED  BY <2>1, <2>2, <2>3, <2>4
<1>3. \A x \in T : x.job \notin Dialling
  BY <1>1 DEF TimersInv, EventsAgree
<1>4. \A k \in DOMAIN dials : dials[k].at + Second <= lanClock
  <2>1. CASE e.job = "dial"
    <3>1. dials = <<>> /\ Len(dials) = 0
      BY <1>1, <2>1, EmptySeq DEF TimersInv, EventsAgree
    <3>. QED  BY <3>1, <1>2
  <2>2. CASE e.job = "redial"
    <3>1. dials # <<>> /\ dials[Len(dials)].at + Second <= e.at
      BY <1>1, <2>2 DEF TimersInv, EventsAgree
    <3>2. Len(dials) \in DOMAIN dials
      BY <3>1, <1>2, EmptySeq
    <3>3. \A k \in DOMAIN dials : dials[k].at <= dials[Len(dials)].at
      BY DEF TimersInv, DialsAgree
    <3>. QED  BY <3>1, <3>2, <3>3, <1>1, <1>2, TimersBounds
  <2>. QED  BY <1>1, <2>1, <2>2 DEF Dialling
<1>5. UNCHANGED <<lanClock, asked, looping, pinging, pings>>
  BY DEF attempt
<1>6. LogsAgree'
  BY <1>5 DEF TimersInv, LogsAgree
<1>7. ASSUME NEW x \in T
      PROVE  /\ x.job = "ping" => x.n \in 1..asked /\ pings[x.n].sent = NotYet
             /\ x.job = "answer" => /\ x.n \in Pings /\ pings[x.n].sent # NotYet
                                    /\ pings[x.n].sent + Second <= x.at
             /\ x.job \notin Dialling /\ x.job # "dial" /\ x.job # "redial"
  BY <1>1, <1>3, <1>7 DEF TimersInv, EventsAgree, Dialling
<1>8. \A x, y \in T : x.job = "ping" /\ y.job = "ping" /\ x.n = y.n => x = y
  BY <1>1 DEF TimersInv, EventsAgree
<1>9. CASE ~pcb
  <2>1. dials' = dials /\ timers' = Tail(timers)
    BY <1>9 DEF attempt
  <2>2. EventsAgree'
    BY <1>5, <1>7, <1>8, <2>1 DEF EventsAgree
  <2>3. TimersTypes' /\ DialsAgree'
    BY <1>5, <2>1 DEF TimersInv, TimersTypes, DialsAgree
  <2>4. Listing(timers')
    BY <1>1, <2>1
  <2>5. TimersInv'
    BY <1>6, <2>2, <2>3, <2>4 DEF TimersInv
  <2>6. ~(Len(dials') > Len(dials))
    BY <1>2, <2>1
  <2>. QED  BY <1>4, <2>5, <2>6
<1>10. CASE pcb
  <2>. DEFINE new == [at |-> lanClock, conn |-> "trying"]
  <2>1. new \in Attempts /\ new.at = lanClock
    BY <1>2, TimersBounds DEF Attempts
  <2>2. dials' = Append(dials, new)
    BY <1>10 DEF attempt
  <2>. HIDE DEF new
  <2>3. /\ dials' \in Seq(Attempts) /\ Len(dials') = Len(dials) + 1 /\ dials' # <<>>
        /\ dials'[Len(dials) + 1] = new /\ \A k \in 1..Len(dials) : dials'[k] = dials[k]
    BY <1>2, <2>1, <2>2, AppendProperties
  <2>4. DOMAIN dials' = 1..(Len(dials) + 1)
    BY <2>3, <1>2
  <2>5. DialsAgree'
    <3>1. dials'[Len(dials')].at = lanClock
      BY <2>1, <2>3
    <3>2. ASSUME NEW k \in 1..Len(dials) PROVE dials'[k].at <= lanClock
      <4>1. dials'[k] = dials[k]
        BY <2>3
      <4>2. dials[k].at \in Nat /\ dials[k].at + Second <= lanClock /\ lanClock \in Nat
        BY <1>2, <1>4
      <4>3. dials[k].at <= lanClock
        BY <4>2, TimersBounds
      <4>. QED  BY <4>1, <4>3
    <3>3. \A k \in DOMAIN dials' : dials'[k].at <= lanClock
      <4>. TAKE k \in DOMAIN dials'
      <4>1. k \in 1..Len(dials) \/ k = Len(dials) + 1
        BY <2>4, <1>2
      <4>. QED  BY <4>1, <3>2, <2>1, <2>3, <1>2
    <3>4. Len(dials') <= Tries
      BY <2>3, <1>2, TimersBounds
    <3>. QED  BY <3>1, <3>3, <3>4 DEF DialsAgree
  <2>6. TimersTypes'
    BY <1>5, <2>3 DEF TimersInv, TimersTypes
  <2>7. CASE n > 1
    <3>. DEFINE r == Event(lanClock + Second, "redial", n - 1)
    <3>1. r.job = "redial" /\ r.n = n - 1 /\ r.at = lanClock + Second
      BY DEF Event
    <3>2. r \notin T
      BY <1>3, <3>1 DEF Dialling
    <3>3. Listing(timers') /\ ToSet(timers') = T \cup {r}
      <4>1. timers' = At(Tail(timers), lanClock + Second, "redial", n - 1)
        BY <1>10, <2>7 DEF attempt
      <4>2. "redial" \in JobNames /\ lanClock + Second \in Nat /\ n - 1 \in Nat
        BY <1>2, <2>7, TimersBounds DEF JobNames
      <4>. QED  BY <1>1, <3>2, <4>1, <4>2, PutAtKeeps
    <3>. HIDE DEF r
    <3>4. r.n > 0 /\ r.n + Len(dials') <= Tries /\ dials'[Len(dials')].at + Second <= r.at
      <4>1. dials'[Len(dials')].at = lanClock
        BY <1>2, <2>1, <2>3
      <4>2. lanClock \in Nat
        BY <1>2, TimersBounds
      <4>. QED  BY <3>1, <4>1, <4>2, <1>2, <2>3, <2>7, TimersBounds
    <3>5. EventsAgree'
      BY <1>5, <1>7, <1>8, <2>3, <3>1, <3>3, <3>4 DEF EventsAgree, Dialling
    <3>. QED  BY <1>4, <1>6, <2>2, <2>5, <2>6, <3>3, <3>5 DEF TimersInv, new
  <2>8. CASE ~(n > 1)
    <3>1. timers' = Tail(timers)
      BY <1>10, <2>8 DEF attempt
    <3>2. EventsAgree'
      BY <1>5, <1>7, <1>8, <3>1 DEF EventsAgree
    <3>. QED  BY <1>1, <1>4, <1>6, <2>2, <2>5, <2>6, <3>1, <3>2 DEF TimersInv, new
  <2>. QED  BY <2>7, <2>8
<1>. QED  BY <1>9, <1>10

(* redial: the connection was made, or the board is tried again.            *)
LEMMA Redialled ==
  ASSUME TimersInv, Due, timers[1].job = "redial", NEW pcb \in BOOLEAN,
         redial(timers[1].n, pcb), UNCHANGED <<lanClock, asked, looping>>
  PROVE  /\ TimersInv'
         /\ UNCHANGED dials \/ (attempt(timers[1].n, pcb) /\ dials[Len(dials)].conn # "connected")
<1>1. CASE dials[Len(dials)].conn = "connected"
  <2>1. timers' = Tail(timers) /\ UNCHANGED <<lanClock, asked, looping, pinging, pings, dials>>
    BY <1>1 DEF redial
  <2>2. Listing(Tail(timers)) /\ ToSet(Tail(timers)) \subseteq ToSet(timers)
    BY OffTheList
  <2>3. EventsAgree'
    BY <2>1, <2>2 DEF TimersInv, EventsAgree
  <2>4. TimersTypes' /\ DialsAgree' /\ LogsAgree'
    BY <2>1 DEF TimersInv, TimersTypes, DialsAgree, LogsAgree
  <2>5. Listing(timers')
    BY <2>1, <2>2
  <2>6. TimersInv'
    BY <2>3, <2>4, <2>5 DEF TimersInv
  <2>. QED  BY <2>1, <2>6
<1>2. CASE dials[Len(dials)].conn # "connected"
  <2>1. attempt(timers[1].n, pcb)
    BY <1>2 DEF redial
  <2>2. timers[1].job \in Dialling
    BY DEF Dialling
  <2>. QED  BY <1>2, <2>1, <2>2, Attempted
<1>. QED  BY <1>1, <1>2

(* What DialsApart says of one step.                                        *)
Apart ==
  Len(dials') > Len(dials) =>
    \A k \in DOMAIN dials : /\ dials'[Len(dials')].at >= dials[k].at + Second
                            /\ k = Len(dials) => dials[k].conn # "connected"

(* An attempt that is made is the last, at the LAN's clock.                 *)
LEMMA AttemptApart ==
  ASSUME TimersInv, Due, timers[1].job \in Dialling, NEW pcb \in BOOLEAN,
         attempt(timers[1].n, pcb), UNCHANGED <<lanClock, asked, looping>>,
         timers[1].job = "dial" \/ dials[Len(dials)].conn # "connected"
  PROVE  Apart
<1>1. /\ \A k \in DOMAIN dials : dials[k].at + Second <= lanClock
      /\ Len(dials') > Len(dials) => dials' = Append(dials, [at |-> lanClock, conn |-> "trying"])
  BY Attempted
<1>2. dials \in Seq(Attempts) /\ Len(dials) \in Nat /\ lanClock \in Nat
  BY LenProperties DEF TimersInv, TimersTypes
<1>3. \A k \in DOMAIN dials : dials[k].at \in Nat
  <2>1. \A k \in DOMAIN dials : dials[k] \in Attempts
    BY <1>2, ElementOfSeq, LenProperties
  <2>. QED  BY <2>1 DEF Attempts
<1>4. timers[1].job = "dial" => DOMAIN dials = {}
  <2>1. timers[1].job = "dial" => dials = <<>>
    BY OffTheList DEF TimersInv, EventsAgree
  <2>. QED  BY <2>1
<1>. DEFINE new == [at |-> lanClock, conn |-> "trying"]
<1>5. new \in Attempts /\ new.at = lanClock
  BY <1>2 DEF Attempts
<1>. HIDE DEF new
<1>6. ASSUME dials' = Append(dials, new) PROVE dials'[Len(dials')].at = lanClock
  BY <1>2, <1>5, <1>6, AppendProperties
<1>7. ASSUME Len(dials') > Len(dials), NEW k \in DOMAIN dials
      PROVE  /\ dials'[Len(dials')].at >= dials[k].at + Second
             /\ k = Len(dials) => dials[k].conn # "connected"
  <2>1. dials'[Len(dials')].at = lanClock
    BY <1>1, <1>6, <1>7 DEF new
  <2>2. dials[k].at + Second <= lanClock
    BY <1>1
  <2>3. dials[Len(dials)].conn # "connected"
    BY <1>4, <1>7
  <2>. QED  BY <1>2, <1>3, <2>1, <2>2, <2>3, TimersBounds
<1>. QED  BY <1>7 DEF Apart

(* A step that makes no attempt.                                            *)
LEMMA NotMade == ASSUME TimersInv, UNCHANGED dials PROVE Apart
<1>1. Len(dials) \in Nat
  BY LenProperties DEF TimersInv, TimersTypes
<1>. QED  BY <1>1 DEF Apart

(* The first event of the list runs.                                        *)
LEMMA RunStep ==
  ASSUME TimersInv, NEW pcb \in BOOLEAN, runEvent(pcb)
  PROVE  TimersInv' /\ Apart
<1>1. Due /\ UNCHANGED <<lanClock, asked, looping>> /\ Fire(timers[1], pcb)
  BY DEF runEvent
<1>2. CASE timers[1].job = "ping" /\ sendPing(timers[1].n)
  BY <1>1, <1>2, PingOut, NotMade DEF sendPing
<1>3. CASE timers[1].job = "answer" /\ noAnswer(timers[1].n)
  BY <1>1, <1>3, SecondOver, NotMade DEF noAnswer
<1>4. CASE timers[1].job = "dial" /\ attempt(timers[1].n, pcb)
  <2>1. timers[1].job \in Dialling
    BY <1>4 DEF Dialling
  <2>. QED  BY <1>1, <1>4, <2>1, Attempted, AttemptApart
<1>5. CASE timers[1].job = "redial" /\ redial(timers[1].n, pcb)
  <2>1. timers[1].job \in Dialling
    BY <1>5 DEF Dialling
  <2>. QED  BY <1>1, <1>5, <2>1, Redialled, AttemptApart, NotMade
<1>. QED  BY <1>1, <1>2, <1>3, <1>4, <1>5 DEF Fire

(* Each step keeps the invariant, and an attempt that it makes apart.       *)
LEMMA TimersStep ==
  ASSUME TimersInv, [TimersNext]_timerVars
  PROVE  TimersInv' /\ Apart
<1>1. CASE askPing
  BY <1>1, AskStep, NotMade DEF askPing
<1>2. CASE advanced \/ \E ns \in Calls : advance(ns)
  <2>1. UNCHANGED dials
    BY <1>2 DEF advanced, advance
  <2>. QED  BY <1>2, <2>1, CallStep, NotMade
<1>3. CASE \E pcb \in BOOLEAN : runEvent(pcb)
  BY <1>3, RunStep
<1>4. CASE \E ns \in Stamps, n \in Pings : pingReply(n, ns)
  <2>1. UNCHANGED dials
    BY <1>4 DEF pingReply
  <2>. QED  BY <1>4, <2>1, ReplyStep, NotMade
<1>5. CASE \E ns \in Stamps, k \in DOMAIN dials, how \in {"connected", "refused"} : dialAnswer(k, how, ns)
  <2>. PICK ns \in Stamps, k \in DOMAIN dials, how \in {"connected", "refused"} : dialAnswer(k, how, ns)
    BY <1>5
  <2>1. TimersInv'
    BY AnswerStep
  <2>2. dials' = [dials EXCEPT ![k].conn = how] /\ dials \in Seq(Attempts)
    BY DEF dialAnswer, TimersInv, TimersTypes
  <2>3. Len(dials') = Len(dials) /\ Len(dials) \in Nat
    BY <2>2
  <2>. QED  BY <2>1, <2>3 DEF Apart
<1>6. CASE UNCHANGED timerVars
  <2>1. UNCHANGED dials
    BY <1>6 DEF timerVars
  <2>2. TimersInv'
    <3>1. UNCHANGED <<lanClock, timers, asked, looping, pinging, pings, dials>>
      BY <1>6 DEF timerVars
    <3>2. TimersTypes' /\ Listing(timers)' /\ EventsAgree' /\ LogsAgree' /\ DialsAgree'
      BY <3>1 DEF TimersInv, TimersTypes, EventsAgree, LogsAgree, DialsAgree
    <3>. QED  BY <3>2 DEF TimersInv
  <2>. QED  BY <2>1, <2>2, NotMade
<1>. QED  BY <1>1, <1>2, <1>3, <1>4, <1>5, <1>6 DEF TimersNext

(* The invariant holds throughout.                                          *)
LEMMA TimersAlways == TimersSpec => []TimersInv
<1>1. TimersInv /\ [TimersNext]_timerVars => TimersInv'
  BY TimersStep
<1>. QED  BY <1>1, TimersInitially, PTL DEF TimersSpec

(* However late the host calls, in whatever order the events were asked for *)
(* and whenever the board replies, the list stays soonest first and each    *)
(* ping has its one line in the log, the right one (at(), pings()).         *)
THEOREM TimersAlwaysSafe == TimersSpec => []TimersSafety
<1>1. TimersInv => TimersSafety
  <2>. SUFFICES ASSUME TimersInv PROVE TimersSafety
    OBVIOUS
  <2>1. TimersTypeOK
    BY DEF TimersTypeOK, TimersInv, TimersTypes, DialsAgree, Listing, Events, JobNames, Logs0, Attempts
  <2>2. SoonestFirst
    BY DEF SoonestFirst, TimersInv, Listing, Sorted
  <2>3. LoggedOnce
    <3>. SUFFICES ASSUME NEW n \in Pings
                  PROVE  /\ Len(pings[n].log) <= 1
                         /\ pings[n].log = <<"none">> => lanClock >= pings[n].sent + Second
                         /\ (pings[n].sent # NotYet /\ n \notin pinging) => pings[n].log # <<>>
      BY DEF LoggedOnce
    <3>1. CASE pings[n].log = <<>>
      <4>1. Len(<<>>) = 0 /\ <<>> # <<"none">>
        BY EmptySeq
      <4>2. ~(pings[n].sent # NotYet /\ n \notin pinging)
        BY <3>1, <4>1 DEF TimersInv, LogsAgree
      <4>. QED  BY <3>1, <4>1, <4>2
    <3>2. CASE pings[n].log # <<>>
      <4>1. Len(pings[n].log) = 1
        BY <3>2 DEF TimersInv, LogsAgree
      <4>. QED  BY <3>2, <4>1 DEF TimersInv, LogsAgree
    <3>. QED  BY <3>1, <3>2
  <2>. QED  BY <2>1, <2>2, <2>3 DEF TimersSafety
<1>. QED  BY <1>1, TimersAlways, PTL

(* When a call of advance() returns nothing on the list is due, and two     *)
(* attempts to dial are a second apart, the later one made only while the   *)
(* earlier is not connected (advance(), dial()).                            *)
THEOREM TimersNeverLate == TimersSpec => NothingOverdue /\ DialsApart
<1>1. TimersInv /\ [TimersNext]_timerVars =>
        (looping /\ ~looping' => \A i \in DOMAIN timers' : timers'[i].at > lanClock')
  <2>. SUFFICES ASSUME TimersInv, [TimersNext]_timerVars, looping, ~looping', NEW i \in DOMAIN timers'
                PROVE  timers'[i].at > lanClock'
    OBVIOUS
  <2>1. advanced
    BY DEF TimersNext, askPing, advance, runEvent, pingReply, dialAnswer, timerVars
  <2>2. UNCHANGED <<timers, lanClock>> /\ ~Due
    BY <2>1 DEF advanced
  <2>3. timers \in Seq(Events) /\ Sorted(timers) /\ lanClock \in Nat
    BY DEF TimersInv, Listing, TimersTypes
  <2>4. DOMAIN timers = 1..Len(timers) /\ Len(timers) \in Nat /\ i \in DOMAIN timers
    BY <2>2, <2>3, LenProperties
  <2>5. timers # <<>> /\ 1 \in DOMAIN timers
    BY <2>4, EmptySeq
  <2>6. timers[1].at \in Nat /\ timers[i].at \in Nat
    <3>1. timers[1] \in Events /\ timers[i] \in Events
      BY <2>3, <2>4, <2>5, ElementOfSeq
    <3>. QED  BY <3>1 DEF Events
  <2>7. timers[1].at <= timers[i].at
    <3>1. i = 1 \/ 1 < i
      BY <2>4
    <3>. QED  BY <2>3, <2>4, <2>5, <2>6, <3>1 DEF Sorted
  <2>. QED  BY <2>2, <2>3, <2>5, <2>6, <2>7 DEF Due
<1>2. TimersInv /\ [TimersNext]_timerVars => Apart
  BY TimersStep
<1>3. TimersSpec => NothingOverdue
  BY <1>1, TimersAlways, PTL DEF TimersSpec, NothingOverdue
<1>4. TimersSpec => DialsApart
  BY <1>2, TimersAlways, PTL DEF TimersSpec, DialsApart, Apart
<1>. QED  BY <1>3, <1>4
=============================================================================
