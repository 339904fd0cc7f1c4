------------------------------- MODULE BtLink -------------------------------
(***************************************************************************)
(* The two Bluetooth controllers of a pair of boards and the air between   *)
(* them (src/host/bt.mjs), each driven over its HCI UART by the guest's    *)
(* Bluetooth host.  Time is left out: the air keeps the order of what one  *)
(* controller sends, and an advertising or a connection event comes at any *)
(* moment, which includes every order that intervals and latency allow.    *)
(*                                                                         *)
(* The Bluetooth host is external.  It reads what the controller sends in  *)
(* order and may lag behind by everything that is still in rx, spends one  *)
(* of its ACL_NUM credits per packet, and takes a link's credits back when *)
(* it reads that the link is gone.  It has one command outstanding at a    *)
(* time: the answer comes after what was in rx then, so `wait` counts the  *)
(* events it reads before it knows the answer and may send another.        *)
(***************************************************************************)
EXTENDS Naturals, Sequences, FiniteSets, SequencesExt

CONSTANTS Controllers, \* the two boards
          Initiators,  \* boards whose host creates connections
          Advertisers, \* boards whose host advertises
          Scanners,    \* boards whose host scans
          LinkOps,     \* what hosts ask of a link: disconnect, update, start_enc, query
          Addrs,       \* the random addresses a board may use
          ACL_NUM,     \* packets the controller buffers for its host
          MAX_LINKS,   \* links the controller keeps at once
          HostLinks,   \* links a host asks for at once
          MaxCreates,  \* bound: connections asked for in a run
          MaxAdv,      \* bound: advertising events in a run
          MaxResets,   \* bound: resets in a run
          MaxOps,      \* bound: packets and commands in a run, besides the above
          MaxSetup     \* bound: of these, commands that set up or inform

ASSUME BtConstants ==
  /\ Cardinality(Controllers) = 2
  /\ Initiators \subseteq Controllers /\ Advertisers \subseteq Controllers
  /\ Scanners \subseteq Controllers
  /\ ACL_NUM \in Nat \ {0} /\ MAX_LINKS \in Nat \ {0} /\ HostLinks \in 1..MAX_LINKS

VARIABLES node,    \* each controller: advertising, scanning, initiating, its links
          rx,      \* what each controller has sent its host, not read yet
          air,     \* PDUs on their way to each board
          host,    \* what each board's Bluetooth host knows
          got,     \* what each host read of its links' traffic, in order
          used,    \* links and connections asked for so far, and the other bounded counts
          severed, \* links that lost one end: connect refused, or a reset
          reused   \* links that had a handle or a key at once with another

btVars == <<node, rx, air, host, got, used, severed, reused>>

Peer(b) == CHOOSE p \in Controllers : p # b
Handles == 0..(MAX_LINKS - 1)
NoAddr  == "none"
NoLink  == [id |-> 0]
(* What a scanner is told of the two kinds of directed advertising, and what *)
(* an initiator does with them, is the same: "direct" is both.              *)
AdvTypes == {"ind", "direct", "scan", "nonconn"}
Connectable(t) == t \in {"ind", "direct"}
Scannable(t)   == t \in {"ind", "scan"}

(* initialState(): what RESET puts back, but for what the UART still holds. *)
InitialState ==
  [ addr  |-> CHOOSE a \in Addrs : TRUE,
    adv   |-> [on |-> FALSE, type |-> "ind"],
    scan  |-> [on |-> FALSE, active |-> FALSE, dup |-> FALSE, seen |-> {}],
    init  |-> NoAddr,
    conns |-> <<>> ]

HostUp == [ up |-> TRUE, wait |-> 0, credits |-> ACL_NUM, adv |-> FALSE, init |-> FALSE,
            links |-> [h \in Handles |-> NoLink] ]

BtInit ==
  /\ node = [b \in Controllers |-> InitialState]
  /\ rx   = [b \in Controllers |-> <<>>]
  /\ air  = [b \in Controllers |-> <<>>]
  /\ host = [b \in Controllers |-> HostUp]
  /\ got  = [b \in Controllers |-> <<>>]
  /\ used = [ids |-> 0, creates |-> 0, adv |-> 0, setup |-> 0, resets |-> 0, ops |-> 0]
  /\ severed = {} /\ reused = {}

-----------------------------------------------------------------------------
(* Events to the host, and the step a handler ends with.                   *)

OnLink(k, c)     == [k |-> k, h |-> c.handle, id |-> c.id]
(* As Completed, but one packet whatever was sent.                          *)
Completed_One(c, n) == [k |-> "done", h |-> c.handle, id |-> c.id, n |-> 1]
Completed(c, n)  == [k |-> "done", h |-> c.handle, id |-> c.id, n |-> n]
AclEvent(c, pkt) == [k |-> "acl", h |-> c.handle, id |-> c.id, pkt |-> pkt]
Pdu(c, k)        == [k |-> k, key |-> c.key, id |-> c.id]

Emit(b, s, events, pdus) ==
  /\ node' = [node EXCEPT ![b] = s]
  /\ rx'   = [rx EXCEPT ![b] = @ \o events]
  /\ air'  = [air EXCEPT ![Peer(b)] = @ \o pdus]

(* Where a link is among conns: the first there is, or 0.                   *)
FirstOf(at)    == IF at = {} THEN 0 ELSE Min(at)
byHandle(s, h) == FirstOf({i \in DOMAIN s.conns : s.conns[i].handle = h})

(* As byKey, but the first link is taken, as when there is never another.   *)
byKey_First(s, key) == IF s.conns = <<>> THEN 0 ELSE 1
byKey(s, key)       == FirstOf({i \in DOMAIN s.conns : s.conns[i].key = key})

drop(s, i) == [s EXCEPT !.conns = RemoveAt(@, i)]
(* A link, on the lowest free handle; the central's handle is its key.      *)
(* Neither the host nor the other board is asked whether it is done with    *)
(* them: `reused` keeps the links that anyone still knew by that handle or  *)
(* that key, and the new one, for the properties.                           *)
LowestFree(s) == Min(Handles \ {c.handle : c \in ToSet(s.conns)})
NewLink(s, id, role, key) ==
  [ handle |-> LowestFree(s), key |-> key,
    id |-> id, role |-> role, tx |-> <<>>, pending |-> <<>>, interval |-> 1,
    encrypted |-> FALSE, encPending |-> <<>> ]

Of(key)     == {c.id : c \in {d \in UNION {ToSet(node[b].conns) : b \in Controllers} : d.key = key}}
               \cup {p.id : p \in {q \in UNION {ToSet(air[b]) : b \in Controllers} :
                                    q.k # "adv" /\ q.key = key}}
Known(b, h) == ({host[b].links[h].id} \ {0})
               \cup {e.id : e \in {x \in ToSet(rx[b]) : "h" \in DOMAIN x /\ x.h = h}}
Takes(b, c) == LET old == (Of(c.key) \cup Known(b, c.handle)) \ {c.id}
               IN reused' = IF old = {} THEN reused ELSE reused \cup old \cup {c.id}

(* encrypted(): a change the first time, a key refresh after that.          *)
Encrypted(c) == [c EXCEPT !.encrypted = TRUE]
EncryptedEvent(c, ok) ==
  OnLink(IF ~ok THEN "enc_failed" ELSE IF c.encrypted THEN "key_refresh" ELSE "enc_change", c)

-----------------------------------------------------------------------------
(* Commands.  Each is answered at once; what a refused one changes is       *)
(* nothing.                                                                *)

Ready(b)        == host[b].up /\ host[b].wait = 0
Issue(b, known) == host' = [host EXCEPT ![b] = [known EXCEPT !.wait = Len(rx[b])]]
Counted(n, max) == used[n] < max /\ used' = [used EXCEPT ![n] = @ + 1]
Op              == Counted("ops", MaxOps - used.setup)
SetupOp         == used.ops + used.setup < MaxOps /\ Counted("setup", MaxSetup)
Setup(b)        == SetupOp /\ Issue(b, host[b])
Becomes(b, s)   == node' = [node EXCEPT ![b] = s] /\ UNCHANGED <<rx, air>>
Links(b) == {h \in Handles : host[b].links[h] # NoLink}

(* RESET, which a host sends when the board boots: the controller forgets   *)
(* everything but the bytes it already sent up the UART, and tells no one.  *)
Reset(b) ==
  /\ Counted("resets", MaxResets)
  /\ host' = [host EXCEPT ![b] = [HostUp EXCEPT !.up = (rx[b] = <<>>), !.wait = Len(rx[b])]]
  /\ node' = [node EXCEPT ![b] = InitialState]
  /\ air'  = [air EXCEPT ![b] = <<>>]
  /\ severed' = severed \cup {c.id : c \in ToSet(node[b].conns)}
                        \cup {p.id : p \in {q \in ToSet(air[b]) : q.k = "connect"}}
  /\ UNCHANGED <<rx, got, reused>>

(* The commands that only report something.                                 *)
Inform(b) ==
  /\ Setup(b)
  /\ UNCHANGED <<node, rx, air, got, severed, reused>>

SetRandomAddress(b, a) ==
  /\ b \in Advertisers /\ ~host[b].adv /\ a # node[b].addr
  /\ Setup(b)
  /\ Becomes(b, [node[b] EXCEPT !.addr = a])
  /\ UNCHANGED <<got, severed, reused>>

(* Parameters are refused while the thing they set up is going on.          *)
SetAdvParams(b, t) ==
  /\ b \in Advertisers /\ t # node[b].adv.type
  /\ Setup(b)
  /\ Becomes(b, [node[b] EXCEPT !.adv.type = IF node[b].adv.on THEN @ ELSE t])
  /\ UNCHANGED <<got, severed, reused>>

SetAdvEnable(b, on) ==
  /\ b \in Advertisers /\ host[b].adv # on
  /\ on => Cardinality(Links(b)) < HostLinks
  /\ IF on THEN UNCHANGED used ELSE SetupOp
  /\ Issue(b, [host[b] EXCEPT !.adv = on])
  /\ Becomes(b, [node[b] EXCEPT !.adv.on = on])
  /\ UNCHANGED <<got, severed, reused>>

SetScanParams(b, active) ==
  /\ b \in Scanners /\ active # node[b].scan.active
  /\ Setup(b)
  /\ Becomes(b, [node[b] EXCEPT !.scan.active = IF node[b].scan.on THEN @ ELSE active])
  /\ UNCHANGED <<got, severed, reused>>

SetScanEnable(b, on, dup) ==
  /\ b \in Scanners /\ on # node[b].scan.on
  /\ Setup(b)
  /\ Becomes(b, [node[b] EXCEPT !.scan = [@ EXCEPT !.on = on, !.dup = dup, !.seen = {}]])
  /\ UNCHANGED <<got, severed, reused>>

(* Disallowed while initiating, and refused when all links are taken.  The  *)
(* host asks for the address it has heard the other board advertise.        *)
CreateConn(b) ==
  LET s  == node[b]
      ok == s.init = NoAddr /\ Len(s.conns) < MAX_LINKS
  IN /\ b \in Initiators /\ ~host[b].init
     /\ Cardinality(Links(b)) < HostLinks
     /\ Counted("creates", MaxCreates)
     /\ Issue(b, [host[b] EXCEPT !.init = ok])
     /\ Becomes(b, [s EXCEPT !.init = IF ok THEN node[Peer(b)].addr ELSE @])
     /\ UNCHANGED <<got, severed, reused>>

(* Cancelling when the connection has just been made is disallowed; the     *)
(* host then finds the Connection Complete already on its way.              *)
CreateConnCancel(b) ==
  /\ host[b].init
  /\ Op /\ Issue(b, host[b])
  /\ IF node[b].init = NoAddr
     THEN Becomes(b, node[b])
     ELSE Emit(b, [node[b] EXCEPT !.init = NoAddr], <<[k |-> "conn_failed"]>>, <<>>)
  /\ UNCHANGED <<got, severed, reused>>

(* Disconnect, connection update, start encryption, remote features and     *)
(* version wait for the link's next connection event.  `after` counts the   *)
(* packets the host had sent when it asked.  Only a central updates the     *)
(* connection or starts encryption.                                         *)
LinkCommand(b, h, op) ==
  LET s == node[b]
      l == host[b].links[h]
      i == byHandle(s, h)
  IN /\ op \in {"update", "start_enc"} => l.central
     /\ Op /\ Issue(b, host[b])
     /\ Becomes(b, IF i # 0
                    THEN [s EXCEPT !.conns[i].pending = Append(@, [op |-> op, after |-> l.sent])]
                    ELSE s)
     /\ UNCHANGED <<got, severed, reused>>

(* The peripheral's host answers a long-term-key request: it has no key, or *)
(* one that matches the central's, or one that does not.                    *)
LtkReply(b, h, answer) ==
  LET s == node[b]
      i == byHandle(s, h)
      c == s.conns[i]
      t == [s EXCEPT !.conns[i].encPending = <<>>]
  IN /\ host[b].links[h].asked
     /\ Issue(b, [host[b] EXCEPT !.links[h].asked = FALSE])
     /\ IF i = 0 \/ c.encPending = <<>>
        THEN Becomes(b, s)
        ELSE CASE answer = "none"  -> Emit(b, t, <<>>, <<Pdu(c, "enc_rej")>>)
               [] answer = "same"  -> Emit(b, [t EXCEPT !.conns[i] = Encrypted(@)],
                                           <<EncryptedEvent(c, TRUE)>>, <<Pdu(c, "enc_rsp")>>)
               [] answer = "other" -> Emit(b, drop(s, i),
                                           <<OnLink("disc", c)>>, <<Pdu(c, "mismatch")>>)
     /\ UNCHANGED <<got, used, severed, reused>>

(* A packet from the host: queued for the link its handle names, if any.    *)
aclFromHost(b, h) ==
  LET s == node[b]
      l == host[b].links[h]
      i == byHandle(s, h)
      pkt == [id |-> l.id, n |-> l.sent + 1]
  IN /\ host[b].up /\ host[b].credits > 0 /\ Op
     /\ host' = [host EXCEPT ![b].credits = @ - 1, ![b].links[h].out = @ + 1,
                             ![b].links[h].sent = @ + 1]
     /\ node' = IF i # 0 THEN [node EXCEPT ![b].conns[i].tx = Append(@, pkt)] ELSE node
     /\ UNCHANGED <<rx, air, got, severed, reused>>

-----------------------------------------------------------------------------
(* The radio.                                                              *)

(* fromAir() sorts by time.  What the controller does by itself is stamped  *)
(* with the time it was due, and may go ahead of what a command of the      *)
(* guest, in the middle of a step, stamped with the present.  A connection  *)
(* event is due at the first point of the link's grid since the last one:   *)
(* on a link that was quiet that is long past, so it may also go ahead of   *)
(* an advertisement and of the PDUs of other links.                         *)
OfThePresent(q)   == {p \in ToSet(q) : p.k \in {"enc_rsp", "enc_rej", "mismatch"}}
OnLinksGrid(c, q) == OfThePresent(q) \cup {p \in ToSet(q) : p.k = "adv" \/ p.key # c.key}
fromAir(q, pdus, passed) ==
  {SubSeq(q, 1, n) \o pdus \o SubSeq(q, n + 1, Len(q)) :
     n \in {m \in 0..Len(q) : \A j \in (m + 1)..Len(q) : q[j] \in passed}}

(* Advertising events are at least 20 ms apart, and a PDU and the answer to *)
(* it take 0.2 ms: the last one is over when the next comes.                *)
advEvent(b) ==
  /\ node[b].adv.on
  /\ ~\E p \in ToSet(air[Peer(b)]) : p.k = "adv"
  /\ ~\E p \in ToSet(air[b]) : p.k = "connect"
  /\ Counted("adv", MaxAdv)
  /\ \E q \in fromAir(air[Peer(b)], <<[k |-> "adv", type |-> node[b].adv.type,
                                        addr |-> node[b].addr]>>,
                        OfThePresent(air[Peer(b)])) :
       air' = [air EXCEPT ![Peer(b)] = q]
  /\ UNCHANGED <<node, rx, host, got, severed, reused>>

(* As Terminate and Updating, but the other side is not told.               *)
Terminate_Unsaid(c) == <<>>
Updating_Unsaid(c, interval) == <<>>

Terminate(c) == <<Pdu(c, "terminate")>>
Updating(c, interval) == <<[k |-> "update", key |-> c.key, id |-> c.id, interval |-> interval]>>

(* What one queued operation does to the link, its host and the air; none   *)
(* is done once the link is gone.                                           *)
DoPending(r, p) ==
  LET c == r.c
      Then(link, gone, events, pdus) == [c |-> link, gone |-> gone, events |-> r.events \o events,
                                         pdus |-> r.pdus \o pdus]
  IN IF r.gone THEN r ELSE
     CASE p.op = "disconnect" -> Then(c, TRUE, <<OnLink("disc", c)>>, Terminate(c))
       [] p.op = "update"     -> Then([c EXCEPT !.interval = @ + 1], FALSE,
                                      <<OnLink("updated", c)>>, Updating(c, c.interval + 1))
       [] p.op = "start_enc"  -> Then(c, FALSE, <<>>,
                                      <<[k |-> "enc_req", key |-> c.key, id |-> c.id, after |-> p.after]>>)
       [] p.op = "query"      -> Then(c, FALSE, <<OnLink("remote", c)>>, <<>>)

(* As OnAir, but what the host asked for goes ahead of its packets.         *)
OnAir_OpsFirst(packets, ops) == ops \o packets

Sent(c) == [c EXCEPT !.tx = <<>>, !.pending = <<>>]
OnAir(packets, ops) == packets \o ops

(* Everything queued goes over the air and its sender is told, then what    *)
(* the host asked of the link is done.                                      *)
connEvent(b, i) ==
  LET s == node[b]
      c == s.conns[i]
      packets == [j \in DOMAIN c.tx |-> [k |-> "acl", key |-> c.key, id |-> c.id, pkt |-> c.tx[j]]]
      done == IF c.tx = <<>> THEN <<>> ELSE <<Completed(c, Len(c.tx))>>
      r == FoldLeft(DoPending, [c |-> Sent(c), gone |-> FALSE, events |-> done, pdus |-> <<>>],
                    c.pending)
  IN /\ c.tx # <<>> \/ c.pending # <<>>
     /\ node' = [node EXCEPT ![b] = IF r.gone THEN drop(s, i) ELSE [s EXCEPT !.conns[i] = r.c]]
     /\ rx' = [rx EXCEPT ![b] = @ \o r.events]
     /\ \E q \in fromAir(air[Peer(b)], OnAir(packets, r.pdus),
                        OnLinksGrid(c, air[Peer(b)])) :
          air' = [air EXCEPT ![Peer(b)] = q]
     /\ UNCHANGED <<host, got, used, severed, reused>>
ConnEvent(b) == \E i \in DOMAIN node[b].conns : connEvent(b, i)

(* report(): what a scanner tells its host of one advertising PDU, once per *)
(* kind and address when it filters duplicates.                             *)
Reports(s, pdu) ==
  LET heard == {[k |-> "report", type |-> pdu.type, addr |-> pdu.addr]}
               \cup (IF s.scan.active /\ Scannable(pdu.type)
                     THEN {[k |-> "report", type |-> "scan_rsp", addr |-> pdu.addr]} ELSE {})
  IN IF ~s.scan.on THEN {} ELSE IF s.scan.dup THEN heard \ s.scan.seen ELSE heard

(* An initiator that hears the address it wants connects at once; anyone    *)
(* else who is scanning reports what it heard.                              *)
HearAdv(b, s, pdu, rest) ==
  IF s.init = pdu.addr /\ Connectable(pdu.type)
  THEN LET c == NewLink(s, used.ids + 1, "central", LowestFree(s)) IN
       /\ used' = [used EXCEPT !.ids = @ + 1]
       /\ node' = [node EXCEPT ![b] = [s EXCEPT !.init = NoAddr, !.conns = Append(@, c)]]
       /\ rx' = [rx EXCEPT ![b] = Append(@, [k |-> "conn", h |-> c.handle, id |-> c.id,
                                             central |-> TRUE])]
       /\ \E q \in fromAir(air[Peer(b)], <<[k |-> "connect", key |-> c.key, id |-> c.id,
                                             target |-> pdu.addr]>>,
                            OfThePresent(air[Peer(b)])) :
            air' = [air EXCEPT ![b] = rest, ![Peer(b)] = q]
       /\ Takes(b, c)
       /\ UNCHANGED severed
  ELSE LET new == Reports(s, pdu) IN
       /\ node' = [node EXCEPT ![b].scan.seen = IF s.scan.dup THEN @ \cup new ELSE @]
       /\ rx' = [rx EXCEPT ![b] = @ \o SetToSeq(new)]
       /\ air' = [air EXCEPT ![b] = rest]
       /\ UNCHANGED <<used, severed, reused>>

(* An advertiser that is still connectable, at the address the initiator    *)
(* heard, takes the connection and stops advertising; any other is silent.  *)
HearConnect(b, s, pdu, rest) ==
  LET taken == /\ s.adv.on /\ Len(s.conns) < MAX_LINKS
               /\ Connectable(s.adv.type) /\ pdu.target = s.addr
      c == NewLink(s, pdu.id, "peripheral", pdu.key)
  IN /\ air' = [air EXCEPT ![b] = rest]
     /\ UNCHANGED used
     /\ IF taken
        THEN /\ node' = [node EXCEPT ![b] = [s EXCEPT !.adv.on = FALSE, !.conns = Append(@, c)]]
             /\ rx' = [rx EXCEPT ![b] = Append(@, [k |-> "conn", h |-> c.handle, id |-> c.id,
                                                   central |-> FALSE])]
             /\ Takes(b, c)
             /\ UNCHANGED severed
        ELSE /\ severed' = severed \cup {pdu.id}
             /\ UNCHANGED <<node, rx, reused>>

(* Everything else is about a link, which the key names; for no link it is  *)
(* nothing.                                                                 *)
HearOnLink(b, s, pdu, rest) ==
  LET i == byKey(s, pdu.key)
      c == s.conns[i]
      To(t, event) == /\ node' = [node EXCEPT ![b] = t]
                      /\ rx' = [rx EXCEPT ![b] = Append(@, event)]
  IN /\ air' = [air EXCEPT ![b] = rest]
     /\ UNCHANGED <<used, severed, reused>>
     /\ IF i = 0 THEN UNCHANGED <<node, rx>>
        ELSE CASE pdu.k = "acl"       -> To(s, AclEvent(c, pdu.pkt))
               [] pdu.k = "update"    -> To([s EXCEPT !.conns[i].interval = pdu.interval],
                                            OnLink("updated", c))
               [] pdu.k = "enc_req"   -> To([s EXCEPT !.conns[i].encPending = <<"ltk">>],
                                            [k |-> "ltk_request", h |-> c.handle, id |-> c.id,
                                             after |-> pdu.after])
               [] pdu.k = "enc_rsp"   -> To([s EXCEPT !.conns[i] = Encrypted(@)],
                                            EncryptedEvent(c, TRUE))
               [] pdu.k = "enc_rej"   -> To(s, EncryptedEvent(c, FALSE))
               [] pdu.k \in {"terminate", "mismatch"} -> To(drop(s, i), OnLink("disc", c))

receive(b) ==
  /\ air[b] # <<>>
  /\ LET pdu == Head(air[b]) IN
     CASE pdu.k = "adv"     -> HearAdv(b, node[b], pdu, Tail(air[b]))
       [] pdu.k = "connect" -> HearConnect(b, node[b], pdu, Tail(air[b]))
       [] OTHER             -> HearOnLink(b, node[b], pdu, Tail(air[b]))
  /\ UNCHANGED <<host, got>>

-----------------------------------------------------------------------------
(* The Bluetooth host reads the next event.  What it reads of a link goes   *)
(* to `got` with the link the host takes it to be about.  A central reads   *)
(* Connection Complete after its connect has arrived: the event takes the   *)
(* UART 210 us (22 bytes, HCI_BYTE_NS apart), and a pair lets a board run   *)
(* at most 200 us past what it sent (twice LINK_LATENCY_NS).                *)

Learn(v, e) ==
  CASE e.k = "conn" -> [v EXCEPT !.init = IF e.central THEN FALSE ELSE @,
                                 !.adv = IF e.central THEN @ ELSE FALSE,
                                 !.links[e.h] = [id |-> e.id, central |-> e.central, out |-> 0,
                                                 sent |-> 0, asked |-> FALSE]]
    [] e.k = "conn_failed" -> [v EXCEPT !.init = FALSE]
    [] e.k = "disc" -> [v EXCEPT !.credits = @ + v.links[e.h].out, !.links[e.h] = NoLink]
    [] e.k = "done" -> [v EXCEPT !.credits = @ + e.n, !.links[e.h].out = @ - e.n]
    [] e.k = "ltk_request" -> [v EXCEPT !.links[e.h].asked = TRUE]
    [] OTHER -> v

hostRead(b) ==
  LET e == Head(rx[b])
      l == host[b].links[e.h]
      log == CASE e.k = "acl" -> <<[k |-> "acl", on |-> l.id, pkt |-> e.pkt]>>
               [] e.k = "ltk_request" -> <<[k |-> "ltk", on |-> l.id, after |-> e.after]>>
               [] OTHER -> <<>>
  IN /\ rx[b] # <<>>
     /\ e.k = "conn" => ~\E p \in ToSet(air[Peer(b)]) : p.k = "connect" /\ p.id = e.id
     /\ rx' = [rx EXCEPT ![b] = Tail(@)]
     /\ LET v == IF host[b].up THEN Learn(host[b], e) ELSE host[b] IN
        host' = [host EXCEPT ![b] = [v EXCEPT !.wait = IF @ = 0 THEN 0 ELSE @ - 1,
                                              !.up = @ \/ v.wait = 1]]
     /\ got' = [got EXCEPT ![b] = IF host[b].up THEN @ \o log ELSE @]
     /\ UNCHANGED <<node, air, used, severed, reused>>

Command(b) ==
  \/ Reset(b)
  \/ Ready(b) /\
     \/ Inform(b) \/ CreateConn(b) \/ CreateConnCancel(b)
     \/ \E a \in Addrs : SetRandomAddress(b, a)
     \/ \E t \in AdvTypes : SetAdvParams(b, t)
     \/ \E on \in BOOLEAN : SetAdvEnable(b, on) \/ SetScanParams(b, on)
                             \/ \E dup \in BOOLEAN : SetScanEnable(b, on, dup)
     \/ \E h \in Links(b) : \/ \E op \in LinkOps : LinkCommand(b, h, op)
                            \/ \E answer \in {"none", "same", "other"} : LtkReply(b, h, answer)

BtNext == \E b \in Controllers :
          \/ Command(b) \/ advEvent(b) \/ ConnEvent(b) \/ receive(b) \/ hostRead(b)
          \/ \E h \in Links(b) : aclFromHost(b, h)

(* The run loop advances the controllers and the guest's driver drains the   *)
(* UART, whatever else happens.                                             *)
Fairness == \A b \in Controllers :
              /\ WF_btVars(receive(b)) /\ WF_btVars(hostRead(b))
              /\ \A i \in 1..MAX_LINKS : WF_btVars(i \in DOMAIN node[b].conns /\ connEvent(b, i))

BtSpec == BtInit /\ [][BtNext]_btVars /\ Fairness

-----------------------------------------------------------------------------
(* Properties.                                                             *)

Link(b, id) == {c \in ToSet(node[b].conns) : c.id = id}
(* How many packets the host had read of a link up to the i-th entry.       *)
PacketsRead(b, id, i) == Cardinality({j \in 1..i : got[b][j].k = "acl" /\ got[b][j].on = id})

(* The state the controller keeps is within its limits: at most MAX_LINKS   *)
(* links, on handles of their own, and, as long as no handle was reused     *)
(* under its host, no more credits than buffers.                            *)
BtTypeOK ==
  /\ \A b \in Controllers :
       /\ node[b].addr \in Addrs /\ node[b].init \in Addrs \cup {NoAddr}
       /\ node[b].adv \in [on : BOOLEAN, type : AdvTypes]
       /\ \A c \in ToSet(node[b].conns) : c.handle \in Handles /\ c.key \in Handles
       /\ \A i, j \in DOMAIN node[b].conns :
            node[b].conns[i].handle = node[b].conns[j].handle => i = j
       /\ reused = {} => host[b].credits \in 0..ACL_NUM
  /\ severed \cup reused \subseteq 1..used.ids

(* A link whose handle and key no one took, while anyone knew it by them,   *)
(* carries every packet that was sent on it once and in order, and none of  *)
(* another link, however many links there are beside it and whatever was on *)
(* its handle and key before (byHandle(), byKey(), connEvent(), receive()). *)
OnceInOrder ==
  \A b \in Controllers : \A i \in DOMAIN got[b] :
    LET g == got[b][i] IN
    g.k = "acl" /\ ~({g.on, g.pkt.id} \subseteq reused \cup {0}) =>
      g.on = g.pkt.id /\ g.pkt.n = PacketsRead(b, g.on, i)

(* A peripheral's host is asked for its key only after it has read every    *)
(* packet the central's host sent before it started encryption.             *)
KeyAskedAfterData ==
  \A b \in Controllers : \A i \in DOMAIN got[b] :
    LET g == got[b][i] IN
    g.k = "ltk" /\ g.on \notin reused => PacketsRead(b, g.on, i) >= g.after

(* A host's credits are exact.  What it has out on a link is what the       *)
(* controller still holds for it and what the completions on their way will *)
(* give back; a link the controller has dropped gives back the rest by its  *)
(* Disconnection Complete alone (drop()).                                   *)
CompletionsOf(b, id) == FoldLeft(LAMBDA n, e : n + e.n, 0,
                          SelectSeq(rx[b], LAMBDA e : e.k = "done" /\ e.id = id))
CreditsExact ==
  BtTypeOK /\ \A b \in Controllers : host[b].up => \A h \in Links(b) :
    LET l == host[b].links[h] IN
    l.id \notin reused =>
      IF Link(b, l.id) = {}
      THEN \E e \in ToSet(rx[b]) : e.k = "disc" /\ e.h = h /\ e.id = l.id
      ELSE \A c \in Link(b, l.id) : l.out = Len(c.tx) + CompletionsOf(b, l.id)

(* With nothing on the air, the controllers agree on their links, on which  *)
(* of them are encrypted and on their intervals, but for a link whose       *)
(* connect was refused, that one side lost in a reset, or whose key another *)
(* link had as well.                                                        *)
LinksAgree ==
  (\A b \in Controllers : air[b] = <<>>) =>
    \A b \in Controllers : \A c \in ToSet(node[b].conns) :
      \/ c.id \in severed \cup reused
      \/ \E d \in Link(Peer(b), c.id) : d.encrypted = c.encrypted /\ d.interval = c.interval

(* A link that a host asked to disconnect ends on both sides, also when the *)
(* other side disconnects, updates or encrypts it at the same time.         *)
Leaving(id) == \E b \in Controllers : \E c \in Link(b, id) :
                 \E p \in ToSet(c.pending) : p.op = "disconnect"
DisconnectEnds ==
  \A id \in 1..MaxCreates :
    Leaving(id) ~> (id \in severed \cup reused \/ \A b \in Controllers : Link(b, id) = {})

(* A link that goes takes its queued data with it, and no packet of it is   *)
(* sent, completed or delivered on another (drop(), aclFromHost()).         *)
GoesWithItsLink ==
  \A b \in Controllers : \A c \in ToSet(node[b].conns) : \A i \in DOMAIN c.tx : c.tx[i].id = c.id

(* The key on a PDU names the link it is about: the controller that takes   *)
(* it finds that link, or none (byKey(), receive()).                        *)
KeyNamesTheLink ==
  \A b \in Controllers : air[b] # <<>> =>
    LET pdu == Head(air[b]) IN
    pdu.k \in {"adv", "connect"} \/ byKey(node[b], pdu.key) = 0
      \/ node[b].conns[byKey(node[b], pdu.key)].id = pdu.id
=============================================================================
