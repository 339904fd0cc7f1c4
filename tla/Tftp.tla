-------------------------------- MODULE Tftp --------------------------------
(***************************************************************************)
(* One TFTP transfer of the simulated LAN (tftpRead() and tftpWrite() of   *)
(* src/host/lan_services.mjs) over UDP that loses, repeats and reorders.   *)
(* The server keeps no timer: it answers what comes.  The client is the    *)
(* board's (external): it takes blocks in order, answers repeated ones and *)
(* repeats its own last datagram when nothing comes.  A request that is    *)
(* repeated starts over, which is to ask for the first block again.        *)
(***************************************************************************)
EXTENDS Naturals, Sequences

CONSTANT Blocks  \* blocks of the file: the last is the one that is not full

(* Block numbers are 16 bits on the wire and plain numbers in the server.   *)
ASSUME TftpConstants == Blocks \in Nat /\ Blocks > 0 /\ Blocks < 65536

VARIABLES reading,  \* whether the client reads the file or writes it
          net,      \* the datagrams under way: [op, n]
          block,    \* the server: the block it is at (`block`, `expected`)
          sockOpen, \* the server's socket for the transfer
          stored,   \* the blocks the receiving end has taken, in order
          client    \* the client: the block it waits for, or sends, and whether it is done

tftpVars == <<reading, net, block, sockOpen, stored, client>>

DATA(n) == [op |-> "data", n |-> n]
ACK(n)  == [op |-> "ack", n |-> n]

(* The request has been answered: with the first block, or ack(0).          *)
TftpInit ==
  /\ reading \in BOOLEAN
  /\ net = IF reading THEN {DATA(1)} ELSE {ACK(0)}
  /\ block = 1 /\ sockOpen = TRUE /\ stored = <<>>
  /\ client = [n |-> IF reading THEN 1 ELSE 0, done |-> FALSE]

-----------------------------------------------------------------------------
(* Whether block n is not full, the last one.                               *)
lastBlock(n) == n = Blocks

(* As tftpRead, but an acknowledgement it does not expect is left alone.    *)
tftpRead_Deaf(n) ==
  /\ reading /\ sockOpen /\ ACK(n) \in net /\ n = block
  /\ IF lastBlock(block)
     THEN sockOpen' = FALSE /\ UNCHANGED <<net, block>>
     ELSE block' = block + 1 /\ net' = net \cup {DATA(block + 1)} /\ UNCHANGED sockOpen
  /\ UNCHANGED <<reading, stored, client>>

(* tftpRead(): an acknowledgement of the block it is at brings the next, or *)
(* ends the transfer; any other brings the block again.                     *)
tftpRead(n) ==
  /\ reading /\ sockOpen /\ ACK(n) \in net
  /\ IF n # block THEN net' = net \cup {DATA(block)} /\ UNCHANGED <<block, sockOpen>>
     ELSE IF lastBlock(block)
     THEN sockOpen' = FALSE /\ UNCHANGED <<net, block>>
     ELSE block' = block + 1 /\ net' = net \cup {DATA(block + 1)} /\ UNCHANGED sockOpen
  /\ UNCHANGED <<reading, stored, client>>

(* As Expected, but a block that was taken before is taken again.           *)
Expected_OrOld(n) == n <= block

Expected(n) == n = block

(* tftpWrite(): the block it expects is kept, every block is acknowledged,  *)
(* and the one that is not full ends the transfer.                          *)
tftpWrite(n) ==
  /\ ~reading /\ sockOpen /\ DATA(n) \in net
  /\ block' = IF Expected(n) THEN block + 1 ELSE block
  /\ stored' = IF Expected(n) THEN Append(stored, n) ELSE stored
  /\ net' = net \cup {ACK(n)}
  /\ sockOpen' = ~(n = block' - 1 /\ n = Blocks)
  /\ UNCHANGED <<reading, client>>

(* The client has block n behind it.                                        *)
Past(n) == IF n = Blocks THEN [n |-> n, done |-> TRUE] ELSE [n |-> n + 1, done |-> FALSE]

(* The client that reads.                                                   *)
clientData(n) ==
  /\ reading /\ DATA(n) \in net /\ n <= client.n
  /\ stored' = IF n = client.n /\ ~client.done THEN Append(stored, n) ELSE stored
  /\ client' = IF n < client.n THEN client ELSE Past(n)
  /\ net' = net \cup {ACK(n)}
  /\ UNCHANGED <<reading, block, sockOpen>>

(* The client that writes.                                                  *)
clientAck(n) ==
  /\ ~reading /\ ACK(n) \in net /\ n = client.n /\ ~client.done
  /\ client' = Past(n)
  /\ net' = IF n = Blocks THEN net ELSE net \cup {DATA(n + 1)}
  /\ UNCHANGED <<reading, block, sockOpen, stored>>

clientTimeout ==
  /\ ~client.done
  /\ net' = net \cup {IF reading THEN ACK(client.n - 1) ELSE DATA(client.n)}
  /\ UNCHANGED <<reading, block, sockOpen, stored, client>>

Lose(m) ==
  /\ net' = net \ {m}
  /\ UNCHANGED <<reading, block, sockOpen, stored, client>>

TftpNext ==
  \/ \E n \in 0..Blocks : tftpRead(n) \/ tftpWrite(n) \/ clientData(n) \/ clientAck(n)
  \/ clientTimeout \/ \E m \in net : Lose(m)

TftpSpec == TftpInit /\ [][TftpNext]_tftpVars

(* What the client repeats arrives in the end, and so do the answers.       *)
serverHears == IF reading THEN client.n > 0 /\ tftpRead(client.n - 1) ELSE tftpWrite(client.n)
clientHears == IF reading THEN clientData(client.n) ELSE clientAck(client.n)

TftpFair ==
  /\ WF_tftpVars(clientTimeout)
  /\ SF_tftpVars(serverHears) /\ SF_tftpVars(clientHears)

-----------------------------------------------------------------------------
(* The type of the state: the server stays within the file's blocks.        *)
TftpTypeOK ==
  /\ reading \in BOOLEAN /\ sockOpen \in BOOLEAN
  /\ net \subseteq [op : {"data", "ack"}, n : 0..Blocks]
  /\ block \in 1..(Blocks + 1) /\ stored \in Seq(1..Blocks)
  /\ client \in [n : 0..Blocks, done : BOOLEAN]

(* The file arrives as it was sent: the receiving end has a prefix of it,   *)
(* each block once, and the server says that a transfer is over ("TFTP      *)
(* sent", "TFTP received") only when the other end has it all.              *)
FileWhole ==
  /\ stored = [i \in 1..Len(stored) |-> i]
  /\ ~sockOpen => Len(stored) = Blocks
  /\ client.done => Len(stored) = Blocks

(* Whatever is lost, repeated or late, the file gets across.                *)
GetsAcross == <>(Len(stored) = Blocks)
=============================================================================
