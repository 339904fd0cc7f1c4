----------------------------- MODULE LanStream ------------------------------
(***************************************************************************)
(* The services of the simulated LAN that read messages out of a TCP       *)
(* stream (src/host/lan_services.mjs): http(), websocket(), coapTcp() and  *)
(* mqtt().  Each gathers what arrives and takes whole messages off the     *)
(* front, however the stream was cut.  Lengths are coded by size: a        *)
(* message is the bytes of its length and a count of those around them.    *)
(***************************************************************************)
EXTENDS Naturals, Sequences

Protos == {"http", "ws", "coap", "mqtt"}

CONSTANTS Sizes,         \* for each service, lengths of what a message carries
          HeadLen,       \* the length of an HTTP request, blank line included
          Near,          \* bound: how far a cut is from where the body of a message
                         \* starts, or from its end, at most
          MaxMsgs        \* bound: messages in a stream

(* What MQTT can code in four bytes, and half of what the others can.       *)
LongestOf(p) == IF p = "mqtt" THEN 268435455 ELSE 2147483647

ASSUME StreamConstants ==
  /\ Sizes \in [Protos -> SUBSET Nat] /\ HeadLen \in Nat \ {0} /\ MaxMsgs \in Nat /\ Near \in Nat
  /\ \A p \in Protos : \A n \in Sizes[p] : n <= LongestOf(p)

VARIABLES proto,    \* the service the connection is to
          dialog,   \* the messages the client has begun: [kind, n, at, before], where in
                    \* the stream each starts, and what the client was owed before it
          sent,     \* how much of the stream the client has sent
          arrived,  \* how much of it has come
          reading,  \* the loop that takes messages off buf is going on
          taken,    \* how much of the stream was taken off buf
          nextMsg,  \* the message that starts there
          gathered, \* websocket: the parts of a message so far
          ending,   \* conn.ending
          out       \* what was written back: [kind, n]

streamVars == <<proto, dialog, sent, arrived, reading, taken, nextMsg, gathered, ending, out>>

-----------------------------------------------------------------------------
(* The lengths, as frame(), coapTcpEncode() and mqttPacket() write them.    *)
Byte(n, unit) == (n \div unit) % 256

wsLen(n) ==
  IF n < 126 THEN <<n>> ELSE IF n < 65536 THEN <<126, Byte(n, 256), Byte(n, 1)>>
  ELSE <<127, 0, 0, 0, 0, Byte(n, 16777216), Byte(n, 65536), Byte(n, 256), Byte(n, 1)>>

coapLen(n) ==
  IF n < 13 THEN <<n>> ELSE IF n < 269 THEN <<13, n - 13>>
  ELSE IF n < 65805 THEN <<14, Byte(n - 269, 256), Byte(n - 269, 1)>>
  ELSE LET m == n - 65805 IN <<15, Byte(m, 16777216), Byte(m, 65536), Byte(m, 256), Byte(m, 1)>>

Digit(n, unit) == ((n \div unit) % 128) + (IF n >= unit * 128 THEN 128 ELSE 0)

mqttLen(n) ==
  IF n < 128 THEN <<Digit(n, 1)>> ELSE IF n < 16384 THEN <<Digit(n, 1), Digit(n, 128)>>
  ELSE IF n < 2097152 THEN <<Digit(n, 1), Digit(n, 128), Digit(n, 16384)>>
  ELSE <<Digit(n, 1), Digit(n, 128), Digit(n, 16384), Digit(n, 2097152)>>

LengthOf(p, n) ==
  CASE p = "ws" -> wsLen(n) [] p = "coap" -> coapLen(n) [] p = "mqtt" -> mqttLen(n)

(* A message's header starts with its length, in the rest of the first byte *)
(* or behind it.  Around it are a client's mask, a CoAP code and a token of *)
(* one byte, or the type alone.                                             *)
Header(p, n) ==
  LET l == LengthOf(p, n)
  IN CASE p = "ws"   -> [i \in 1..(Len(l) + 1) |-> IF i = 1 THEN 0 ELSE IF i = 2 THEN l[1] + 128 ELSE l[i - 1]]
       [] p = "coap" -> [i \in 1..Len(l) |-> IF i = 1 THEN l[1] * 16 + 1 ELSE l[i]]
       [] p = "mqtt" -> [i \in 1..(Len(l) + 1) |-> IF i = 1 THEN 0 ELSE l[i - 1]]

Around(p)  == CASE p = "ws" -> 5 [] p = "coap" -> 2 [] p = "mqtt" -> 1
Body(p, n) == Len(LengthOf(p, n)) + Around(p)
Size(p, n) == Body(p, n) + n

-----------------------------------------------------------------------------
(* The size of a message, 0 for null while it has not come whole.           *)
Whole(size, have) == IF have < size THEN 0 ELSE size

(* The first message of `have` bytes, from its header h: what websocket()   *)
(* reads, coapTcpDecode() and mqttDecode().                                 *)
wsDecode(h, have) ==
  LET code == h[2] % 128
      back == IF code = 126 THEN 4 ELSE IF code = 127 THEN 10 ELSE 2
      n    == IF code = 126 THEN h[3] * 256 + h[4]
              ELSE IF code = 127 THEN h[7] * 16777216 + h[8] * 65536 + h[9] * 256 + h[10] ELSE code
  IN IF have < 2 \/ have < back THEN 0 ELSE Whole(back + 4 + n, have)

(* As coapBase, but two bytes of length count from where one byte does.     *)
coapBase_13(code) == IF code < 13 THEN code ELSE 13

coapBase(code) == CASE code = 13 -> 13 [] code = 14 -> 269 [] code = 15 -> 65805 [] OTHER -> code

coapDecode(h, have) ==
  LET code  == h[1] \div 16
      extra == CASE code = 13 -> 1 [] code = 14 -> 2 [] code = 15 -> 4 [] OTHER -> 0
      n     == CASE code = 13 -> h[2] [] code = 14 -> h[2] * 256 + h[3]
                 [] code = 15 -> h[2] * 16777216 + h[3] * 65536 + h[4] * 256 + h[5] [] OTHER -> 0
  IN IF have < 1 \/ have < 1 + extra THEN 0
     ELSE Whole(1 + extra + 1 + (h[1] % 16) + n + coapBase(code), have)

mqttDecode(h, have) ==
  LET last == CHOOSE i \in 2..5 : h[i] < 128 /\ \A j \in 2..(i - 1) : h[j] >= 128
      n    == (h[2] % 128) + (IF last > 2 THEN (h[3] % 128) * 128 ELSE 0)
              + (IF last > 3 THEN (h[4] % 128) * 16384 ELSE 0)
              + (IF last > 4 THEN (h[5] % 128) * 2097152 ELSE 0)
  IN IF have < last THEN 0 ELSE Whole(last + n, have)

decode(p, h, have) ==
  CASE p = "ws" -> wsDecode(h, have) [] p = "coap" -> coapDecode(h, have)
    [] p = "mqtt" -> mqttDecode(h, have)

-----------------------------------------------------------------------------
(* The client.  A websocket's text may go in parts, and the client is owed  *)
(* an answer to the whole of it; each service has messages it answers at    *)
(* once, and one that ends the connection.                                  *)
Kinds == {"part", "whole", "ping", "bye"}
Line(kind, n) == [kind |-> kind, n |-> n]

Greeting == CASE proto = "http" -> <<Line("page", 0)>> [] proto = "ws" -> <<Line("101", 0)>>
              [] OTHER -> <<>>
Owed0 == [answers |-> Greeting, text |-> 0, over |-> FALSE]
Owed(m) ==
  LET w == m.before
      answer == CASE m.kind = "whole" -> <<Line("whole", w.text + m.n)>>
                  [] m.kind = "ping" -> <<Line("pong", IF proto = "ws" THEN m.n ELSE 0)>>
                  [] m.kind = "bye" /\ proto = "ws" -> <<Line("bye", 0)>>
                  [] OTHER -> <<>>
  IN [ answers |-> IF w.over THEN w.answers ELSE w.answers \o answer,
       text    |-> CASE m.kind = "part" -> w.text + m.n [] m.kind = "whole" -> 0 [] OTHER -> w.text,
       over    |-> w.over \/ m.kind = "bye" ]

Request == IF proto \in {"http", "ws"} THEN HeadLen ELSE 0
End(m)  == m.at + Size(proto, m.n)
Begun   == IF dialog = <<>> THEN Request ELSE End(dialog[Len(dialog)])

StreamInit ==
  /\ proto \in Protos
  /\ dialog = <<>> /\ sent = 0 /\ arrived = 0
  /\ reading = FALSE /\ taken = 0 /\ nextMsg = 0 /\ gathered = 0
  /\ ending = FALSE /\ out = <<>>

(* A client waits for the answer to its request before its first message.   *)
begins(kind, n) ==
  /\ ~reading /\ sent = Begun /\ Len(dialog) < MaxMsgs
  /\ proto # "http" /\ (kind = "part" => proto = "ws") /\ (Request > 0 => nextMsg > 0)
  /\ dialog' = Append(dialog, [kind |-> kind, n |-> n, at |-> sent,
                               before |-> IF dialog = <<>> THEN Owed0 ELSE Owed(dialog[Len(dialog)])])
  /\ UNCHANGED <<proto, sent, arrived, reading, taken, nextMsg, gathered, ending, out>>

sends(upto) ==
  /\ ~reading /\ upto \in (sent + 1)..Begun
  /\ sent' = upto
  /\ UNCHANGED <<proto, dialog, arrived, reading, taken, nextMsg, gathered, ending, out>>

(* The stream is cut in a header, or near the start of a body or its end.   *)
CutsNow == IF dialog = <<>> THEN 1..Request
           ELSE LET m == dialog[Len(dialog)]
                IN (m.at..(m.at + Body(proto, m.n) + Near)) \cup ((End(m) - Near)..End(m))

-----------------------------------------------------------------------------
(* conn.write(): nothing once the connection is ending.                     *)
Answer(kind, n) == IF ending THEN out ELSE Append(out, Line(kind, n))

(* The request, once it has come whole: http() answers it and ends,         *)
(* websocket() switches over.                                               *)
upgrade ==
  /\ out' = CASE proto = "http" -> Answer("page", 0) [] proto = "ws" -> Answer("101", 0) [] OTHER -> out
  /\ ending' = (ending \/ proto = "http")
  /\ nextMsg' = IF proto = "http" THEN 0 ELSE 1
  /\ taken' = IF proto = "ws" THEN HeadLen ELSE taken

(* conn.onData: what was sent since the last call comes in one piece.       *)
onData ==
  /\ ~reading /\ sent > arrived
  /\ arrived' = sent
  /\ IF nextMsg = 0 /\ sent >= Request THEN upgrade ELSE UNCHANGED <<out, ending, nextMsg, taken>>
  /\ reading' = (nextMsg' > 0)
  /\ UNCHANGED <<proto, dialog, sent, gathered>>

(* The first message of buf, 0 while it is not there.                       *)
Got == IF nextMsg <= Len(dialog) THEN decode(proto, Header(proto, dialog[nextMsg].n), arrived - taken) ELSE 0

(* One message: onFrame(), and the bodies of the loops of coapTcp() and     *)
(* mqtt().  A whole message is echoed, or answered, at once; RELEASE, ABORT *)
(* and DISCONNECT end the connection, a close frame with an answer.         *)
handle(m) ==
  /\ gathered' = CASE m.kind = "part" -> gathered + m.n [] m.kind = "whole" -> 0 [] OTHER -> gathered
  /\ ending' = (ending \/ m.kind = "bye")
  /\ out' = CASE m.kind = "whole" -> Answer("whole", gathered + m.n)
              [] m.kind = "ping" -> Answer("pong", IF proto = "ws" THEN m.n ELSE 0)
              [] m.kind = "bye" /\ proto = "ws" -> Answer("bye", 0)
              [] OTHER -> out

(* The loop takes a message off buf; one that ends the connection is the    *)
(* last, but for a close frame.                                             *)
takes ==
  /\ reading /\ Got # 0
  /\ taken' = taken + Got /\ nextMsg' = nextMsg + 1
  /\ handle(dialog[nextMsg])
  /\ reading' = (dialog[nextMsg].kind # "bye" \/ proto = "ws")
  /\ UNCHANGED <<proto, dialog, sent, arrived>>

waits ==
  /\ reading /\ Got = 0
  /\ reading' = FALSE
  /\ UNCHANGED <<proto, dialog, sent, arrived, taken, nextMsg, gathered, ending, out>>

StreamNext ==
  \/ \E kind \in Kinds, n \in Sizes[proto] : begins(kind, n)
  \/ \E upto \in CutsNow : sends(upto)
  \/ onData \/ takes \/ waits

StreamSpec == StreamInit /\ [][StreamNext]_streamVars

-----------------------------------------------------------------------------
(* The type of the state: what is taken has come and ends with a message.   *)
StreamTypeOK ==
  /\ proto \in Protos /\ ending \in BOOLEAN /\ reading \in BOOLEAN
  /\ sent \in Nat /\ arrived \in 0..sent /\ taken \in 0..arrived /\ nextMsg \in 0..(Len(dialog) + 1)
  /\ gathered \in Nat
  /\ out \in Seq([kind : {"101", "page", "whole", "pong", "bye"}, n : Nat])

(* The answers that are due when the first k messages have come whole: in   *)
(* order, one each, a websocket's parts as one message, none after the end. *)
AnswersDue(k) == IF k = 0 THEN Greeting ELSE Owed(dialog[k]).answers

(* What is written back depends on what has arrived and not on how it was   *)
(* cut: between two calls, exactly the answers to the messages that have    *)
(* come whole, however their lengths are coded ("each message comes back    *)
(* whole, as one text message, however many frames it came in", the header  *)
(* of websocket()).                                                         *)
AnswersTheStream ==
  /\ StreamTypeOK
  /\ ~reading =>
       IF arrived < Request \/ arrived = 0 THEN out = <<>>
       ELSE \A k \in 0..Len(dialog) :
              (k > 0 => End(dialog[k]) <= arrived) /\ (k < Len(dialog) => arrived < End(dialog[k + 1]))
                => out = AnswersDue(k)
=============================================================================
