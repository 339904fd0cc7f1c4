------------------------------- MODULE Uplink -------------------------------
(***************************************************************************)
(* A board's link to a real network: connectUplink() and connectRelayV1()  *)
(* of src/host/uplink.mjs, over a plain WebSocket ("wsproxy") or over the  *)
(* reconnecting session of RelayConnection (src/host/relaynet.mjs).  The   *)
(* helper calls the link's handlers in the middle of its own, and they     *)
(* call back into it; timers, the answer of a token check and the socket's *)
(* events come in any order.  The network may die without a word.          *)
(***************************************************************************)
EXTENDS Naturals, Sequences, SequencesExt

CONSTANTS PENDING_MAX,
          MaxFrames,   \* bound: frames the board sends
          MaxChecks,   \* bound: token checks under way
          MaxFailures, \* bound: failed attempts that are told apart
          MaxDeaths    \* bound: sessions whose network dies silently

ASSUME UplinkConstants == /\ PENDING_MAX \in Nat /\ MaxFrames \in Nat
                          /\ MaxChecks \in Nat /\ MaxFailures \in Nat \ {0} /\ MaxDeaths \in Nat

VARIABLES relay,   \* the RelayConnection
          link,    \* what connectUplink() keeps, and the platform's ethSend
          path,    \* the network behind the open socket: "good" or "dead"
          frames   \* frames the board has sent, and those that went out

upVars == <<relay, link, path, frames>>

RelayInit0 == [state |-> "idle", ws |-> "none", retry |-> FALSE, checks |-> 0,
               failures |-> 0, sessions |-> 0, beat |-> FALSE, probe |-> FALSE,
               live |-> 0, suspended |-> FALSE]
LinkInit0(k) == [kind |-> k, ethSend |-> "before", open |-> FALSE, pending |-> <<>>,
                 promise |-> "none", ended |-> FALSE, threw |-> FALSE]

UplinkInit ==
  /\ relay = RelayInit0
  /\ link \in {LinkInit0(k) : k \in {"wsproxy", "relaynet"}}
  /\ path = "good"
  /\ frames = [n |-> 0, early |-> 0, out |-> <<>>, deaths |-> 0]

-----------------------------------------------------------------------------
(* RelayConnection, as functions of w = [r, l], the helper and the link.    *)

stopHeartbeat(r) == [r EXCEPT !.beat = FALSE, !.probe = FALSE]

(* As detach, but the socket is only forgotten, not closed.                 *)
detach_Open(r) == [r EXCEPT !.ws = "none"]

(* detach(), with the close() that goes with it when the socket is up.      *)
detach(r) == [r EXCEPT !.ws = "none", !.live = IF r.ws = "none" THEN @ ELSE @ - 1]

(* close(): the session ends, and so do its timers.                         *)
closeRelay(r) == [detach(stopHeartbeat(r)) EXCEPT !.retry = FALSE, !.state = "closed"]

connect(r) ==
  IF r.state \in {"closed", "connecting", "open"} THEN [r EXCEPT !.retry = FALSE]
  ELSE [r EXCEPT !.retry = FALSE, !.state = "connecting", !.ws = "opening",
                 !.live = @ + 1, !.suspended = FALSE]

settle(l, how) == [l EXCEPT !.promise = IF @ = "pending" THEN how ELSE @]

(* As restore, but the link goes on sending where it did.                   *)
restore_Kept(l) == l

restore(l) == [l EXCEPT !.ethSend = "before", !.ended = TRUE]

(* The link's onClose: before the first session it gives up.                *)
onClose(w, final) ==
  IF ~w.l.open THEN [r |-> closeRelay(w.r), l |-> settle(restore(w.l), "rejected")]
  ELSE IF final THEN [w EXCEPT !.l = restore(w.l)] ELSE w

(* retryIn(): the handler may have closed the connection, and the timer is  *)
(* set all the same.                                                        *)
retryIn(w) ==
  IF w.r.state = "closed" THEN w
  ELSE LET v == onClose([w EXCEPT !.r.state = "waiting"], FALSE)
       IN [v EXCEPT !.r.retry = TRUE]

finish(w) == onClose([w EXCEPT !.r = closeRelay(w.r)], TRUE)

Failed(r) == [r EXCEPT !.failures = IF @ < MaxFailures THEN @ + 1 ELSE @]

(* closed(), for a socket that never opened: the first time in a row the    *)
(* token is checked before it is decided what to do.                        *)
refusedUpgrade(w) ==
  IF w.r.failures = 0
  THEN [w EXCEPT !.r = [Failed(w.r) EXCEPT !.state = "waiting", !.checks = @ + 1]]
  ELSE retryIn([w EXCEPT !.r = Failed(w.r)])

(* closed(), for a session: `stable` if it was up long enough.              *)
sessionClosed(w, verdict, stable) ==
  LET r == IF stable THEN [w.r EXCEPT !.failures = 0] ELSE w.r
  IN CASE verdict = "final"   -> finish([w EXCEPT !.r = r])
       [] verdict = "restart" -> retryIn([w EXCEPT !.r = [r EXCEPT !.failures = 0]])
       [] verdict = "retry"   -> retryIn([w EXCEPT !.r = Failed(r)])

(* probe(): only one at a time.                                             *)
probe(r) == IF r.ws = "open" THEN [r EXCEPT !.probe = TRUE] ELSE r

-----------------------------------------------------------------------------
W == [r |-> relay, l |-> link]
Become(w) == relay' = w.r /\ link' = w.l
Quiet == UNCHANGED <<path, frames>>

(* connectUplink(): the platform's frames go to the link, and a socket is   *)
(* opened.                                                                  *)
connectUplink ==
  /\ link.promise = "none"
  /\ link' = [link EXCEPT !.promise = "pending", !.ethSend = "link"]
  /\ relay' = IF link.kind = "relaynet" THEN connect(relay) ELSE [relay EXCEPT !.ws = "opening", !.live = 1]
  /\ Quiet

(* The constructor throws (a token that is no subprotocol, say): finish()   *)
(* closes the connection and calls onClose, which has no relay to close yet *)
(* and throws too, before it puts anything back.                            *)
connectThrows ==
  /\ link.promise = "none" /\ link.kind = "relaynet"
  /\ relay' = closeRelay(relay)
  /\ link' = [link EXCEPT !.promise = "rejected", !.ethSend = "link", !.threw = TRUE]
  /\ Quiet

(* What waited for the link, in order (onOpen of both).                     *)
Flushed == [frames EXCEPT !.out = @ \o link.pending]
LinkOpened(l) == [settle(l, "resolved") EXCEPT !.open = TRUE, !.pending = <<>>]

(* ws.onopen of a session: the first one opens the link.                    *)
relayOpen ==
  /\ link.kind = "relaynet" /\ relay.ws = "opening"
  /\ relay' = [relay EXCEPT !.ws = "open", !.state = "open", !.sessions = IF @ < 2 THEN @ + 1 ELSE @,
                            !.beat = TRUE, !.probe = FALSE]
  /\ IF relay.sessions = 0 THEN link' = LinkOpened(link) /\ frames' = Flushed
     ELSE UNCHANGED <<link, frames>>
  /\ path' = "good"

(* The relay speaks something else: the session is given up for good.       *)
relayMisfit ==
  /\ link.kind = "relaynet" /\ relay.ws = "opening"
  /\ Become(finish([W EXCEPT !.r = detach(relay)]))
  /\ Quiet

(* ws.onclose of a socket that did not open, and of one that did.           *)
relayRefused ==
  /\ link.kind = "relaynet" /\ relay.ws = "opening" /\ relay.checks < MaxChecks
  /\ Become(refusedUpgrade([W EXCEPT !.r = stopHeartbeat(detach(relay))]))
  /\ Quiet

relayClosed(verdict, stable) ==
  /\ link.kind = "relaynet" /\ relay.ws = "open"
  /\ Become(sessionClosed([W EXCEPT !.r = stopHeartbeat(detach(relay))], verdict, stable))
  /\ Quiet

(* As tokenAnswer, but only a refusal is acted on.                          *)
tokenAnswer_Refused(refused) ==
  /\ relay.checks > 0
  /\ LET w == [W EXCEPT !.r.checks = @ - 1] IN
     Become(IF relay.state # "waiting" \/ ~refused THEN w ELSE finish(w))
  /\ Quiet

(* tokenRefused() has answered: only a connection that waits cares.         *)
tokenAnswer(refused) ==
  /\ relay.checks > 0
  /\ LET w == [W EXCEPT !.r.checks = @ - 1] IN
     Become(IF relay.state # "waiting" THEN w ELSE IF refused THEN finish(w) ELSE retryIn(w))
  /\ Quiet

(* The retry timer.                                                         *)
retryFires ==
  /\ relay.retry
  /\ relay' = connect(relay)
  /\ UNCHANGED link /\ Quiet

(* The heartbeat's tick, when nothing has come for a while or it is late.   *)
heartbeat ==
  /\ relay.beat
  /\ relay' = probe(relay)
  /\ UNCHANGED link /\ Quiet

(* Something is received: it answers the probe.                             *)
relayReceive ==
  /\ relay.ws = "open" /\ path = "good"
  /\ relay' = [relay EXCEPT !.probe = FALSE]
  /\ UNCHANGED link /\ Quiet

Expires(w) == sessionClosed([w EXCEPT !.r = stopHeartbeat(detach(w.r))], "retry", FALSE)

(* probeExpired(): nothing has answered.  A timer that is far too late only *)
(* probes again.                                                            *)
probeExpired(late) ==
  /\ relay.probe /\ relay.ws = "open"
  /\ Become(IF late THEN [W EXCEPT !.r = probe(relay)] ELSE Expires(W))
  /\ Quiet

(* wake(): an event after which the network may be back; suspend(): the     *)
(* page is put away.                                                        *)
wake ==
  /\ link.kind = "relaynet" /\ relay.state \in {"open", "waiting"}
  /\ relay' = IF relay.state = "open" THEN probe(relay) ELSE connect(relay)
  /\ UNCHANGED link /\ Quiet

suspend ==
  /\ link.kind = "relaynet" /\ relay.state \notin {"closed", "idle"}
  /\ relay' = [detach(stopHeartbeat(relay)) EXCEPT !.retry = FALSE, !.state = "waiting",
                                                   !.suspended = TRUE]
  /\ UNCHANGED link /\ Quiet

(* The plain WebSocket: it opens, fails before it did, or is closed by the  *)
(* relay, after which nothing is put back.                                  *)
proxyOpen ==
  /\ link.kind = "wsproxy" /\ relay.ws = "opening"
  /\ relay' = [relay EXCEPT !.ws = "open"]
  /\ link' = LinkOpened(link) /\ frames' = Flushed
  /\ UNCHANGED path

proxyFailed ==
  /\ link.kind = "wsproxy" /\ relay.ws = "opening"
  /\ relay' = detach(relay)
  /\ link' = settle(restore(link), "rejected")
  /\ Quiet

proxyClosed ==
  /\ link.kind = "wsproxy" /\ relay.ws = "open"
  /\ relay' = detach(relay)
  /\ link' = [link EXCEPT !.open = FALSE]
  /\ Quiet

(* The link's close(), which whoever waited for the link was given.         *)
closeLink ==
  /\ link.promise = "resolved" /\ ~link.ended
  /\ link' = restore(link)
  /\ relay' = IF link.kind = "relaynet" THEN closeRelay(relay) ELSE detach(relay)
  /\ Quiet

(* The board sends a frame: platform.ethSend, while it is the link's.       *)
ethSend ==
  /\ link.ethSend = "link" /\ frames.n < MaxFrames
  /\ LET f == frames.n + 1 IN
     IF link.open
     THEN /\ frames' = [frames EXCEPT !.n = f, !.out = IF relay.ws = "open" THEN Append(@, f) ELSE @]
          /\ UNCHANGED link
     ELSE /\ frames' = [frames EXCEPT !.n = f, !.early = IF link.promise = "pending" THEN f ELSE @]
          /\ link' = IF Len(link.pending) < PENDING_MAX
                     THEN [link EXCEPT !.pending = Append(@, f)] ELSE link
  /\ UNCHANGED <<relay, path>>

(* The network behind an open socket dies, and nobody is told.              *)
pathDies ==
  /\ relay.ws = "open" /\ path = "good" /\ frames.deaths < MaxDeaths
  /\ path' = "dead"
  /\ frames' = [frames EXCEPT !.deaths = @ + 1]
  /\ UNCHANGED <<relay, link>>

UplinkNext ==
  \/ connectUplink \/ connectThrows \/ relayOpen \/ relayMisfit \/ relayRefused
  \/ \E v \in {"final", "restart", "retry"}, stable \in BOOLEAN : relayClosed(v, stable)
  \/ \E b \in BOOLEAN : tokenAnswer(b) \/ probeExpired(b)
  \/ retryFires \/ heartbeat \/ relayReceive \/ wake \/ suspend
  \/ proxyOpen \/ proxyFailed \/ proxyClosed
  \/ closeLink \/ ethSend \/ pathDies

(* Timers fire, a check is answered, and a timer is not late for ever.      *)
UplinkFair ==
  /\ WF_upVars(retryFires) /\ WF_upVars(heartbeat)
  /\ SF_upVars(probeExpired(FALSE))
  /\ WF_upVars(\E b \in BOOLEAN : tokenAnswer(b))

-----------------------------------------------------------------------------
(* The type of the state: the connection holds at most one live socket.     *)
UplinkTypeOK ==
  /\ relay \in [state : {"idle", "connecting", "open", "waiting", "closed"},
                ws : {"none", "opening", "open"}, retry : BOOLEAN, checks : 0..MaxChecks,
                failures : 0..MaxFailures, sessions : 0..2, beat : BOOLEAN,
                probe : BOOLEAN, live : 0..1, suspended : BOOLEAN]
  /\ link \in [kind : {"wsproxy", "relaynet"}, ethSend : {"before", "link"}, open : BOOLEAN,
               pending : Seq(1..MaxFrames), promise : {"none", "pending", "resolved", "rejected"},
               ended : BOOLEAN, threw : BOOLEAN]
  /\ path \in {"good", "dead"}

(* However retries, wakes, suspends and late events interleave, there is    *)
(* one socket at most, the one the connection holds, and it holds one just  *)
(* when it says so: a second session would be a second board with the same  *)
(* address (connect(), detach() and the early returns around them).         *)
OneSocket ==
  /\ relay.live = IF relay.ws = "none" THEN 0 ELSE 1
  /\ link.kind = "relaynet" =>
       /\ relay.ws = "open" <=> relay.state = "open"
       /\ relay.ws = "opening" <=> relay.state = "connecting"

(* A connection that waits has something to wait for: a timer, the answer   *)
(* of a check, or the page to come back.  It is never left waiting with     *)
(* nothing that could wake it.                                              *)
WaitsForSomething ==
  relay.state = "waiting" => relay.retry \/ relay.checks > 0 \/ relay.suspended

(* Closed is for good, though a timer may be set as it closes and a check   *)
(* still be under way: "Ends the session and stops reconnecting", close().  *)
ClosedStays == [][relay.state = "closed" => relay'.state = "closed" /\ relay'.live = 0]_upVars

(* The platform outlives the link: when the link has failed to open, was    *)
(* closed, or has ended for good, frames go where they went before ("what   *)
(* was there before goes back when the link closes", connectUplink()).  A   *)
(* plain relay that closes the link itself is left out, and so is a         *)
(* WebSocket constructor that throws: nothing goes back then.               *)
PutBack ==
  (link.promise = "rejected" \/ relay.state = "closed") /\ ~link.threw
    => link.ethSend = "before"

(* Frames go out in the order the board sent them, each once, with the ones *)
(* that waited for the link first, and of those none is lost while there is *)
(* room for it.                                                             *)
FramesInOrder ==
  /\ \A i, j \in DOMAIN frames.out : i < j => frames.out[i] < frames.out[j]
  /\ LET n == Min({frames.early, PENDING_MAX})
     IN link.promise = "resolved" => Len(frames.out) >= n /\ \A i \in 1..n : frames.out[i] = i

(* A session whose network died is noticed: it does not stay open for ever  *)
(* ("a heartbeat that notices a dead socket", the header of relaynet.mjs).  *)
DeadIsNoticed ==
  (link.kind = "relaynet" /\ relay.ws = "open" /\ path = "dead")
    ~> (relay.ws # "open" \/ path = "good")

(* A dropped session is tried again, unless it was closed or put away.      *)
TriesAgain ==
  (relay.state = "waiting") ~> (relay.state \in {"connecting", "open", "closed"} \/ relay.suspended)

(* The session at any moment: one socket, and something to wait for when    *)
(* there is none (RelayConnection of relaynet.mjs).                         *)
SessionSafety == UplinkTypeOK /\ OneSocket /\ WaitsForSomething

(* Frames go where they belong: over the link in order while it is up, and  *)
(* where they went before it once it is over (connectUplink()).             *)
FramesSafety == PutBack /\ FramesInOrder

(* A session that is dropped, or whose network died, is tried again until   *)
(* it is closed, and never after that (retryIn(), probe() and close()).     *)
TriedUntilClosed == ClosedStays /\ DeadIsNoticed /\ TriesAgain
=============================================================================
