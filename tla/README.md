# A TLA+ model of zephyr-wasm-soc

The repository runs the Zephyr kernel as a WebAssembly module.  A guest image
(the `wasm` architecture port, its drivers and the unmodified kernel) is driven
by a host written in JavaScript (`host/core.mjs`), in Node or in a page.  Wasm
cannot leave its own call stack, so a thread switch is a request to the host,
which unwinds the guest's frames with Asyncify and rewinds another thread's;
and wasm cannot be interrupted, so an interrupt is a bit that the guest looks
at in safepoints.  Time is virtual: it moves when the guest idles or reports
progress.

This directory models that machinery, the Bluetooth controllers and the network
that the host simulates around it, checks them with TLC on small instances and
proves the central invariants with TLAPS for every instance.

## 1. Inventory

| component | state | operations | hard behaviour | what makes it correct |
|---|---|---|---|---|
| guest architecture layer (`arch/wasm/core`, `arch.h`) | pending word, mask, enabled lines, nesting count; per thread: Asyncify buffer, `fresh`, lock key; the switch block | `z_wasm_switch`, `arch_new_thread`, `z_wasm_irq_dispatch`, `z_wasm_safepoint`, `arch_cpu_idle`, `arch_cpu_atomic_idle`, `arch_busy_wait`, `arch_irq_lock/unlock/offload`, `z_wasm_trap`, halt, reboot | handlers contain safepoints and waits; threads block with the lock held; traps discard frames; stacks are reused | handlers do not nest; the mask belongs to the thread; a thread resumes its own frames; a raised line is served |
| host driver loop (`core.mjs`: `runStep`, `step`, `suspend`, `raiseTrap`, `resetForReboot`) | current context, contexts by buffer, latched lines, counts of traps and reboots | one step, suspension, trap, halt, reboot, giving up | the switch block is stale at a wait; a reboot replaces the guest under the host's state | contexts and frames stay together; suspension is invisible to the threads |
| virtual clock, deadlines and pacing (`core.mjs`: `set_alarm_ns`, `advanceToNextDeadline`, `run`) | clock, alarm, clamp flag, quiescent rounds, script, anchor of the two clocks | arm, advance, charge a spinning guest, wait for the wall clock | ties, clamps, many sources of deadlines, deciding that nothing will happen, a guest that falls behind | the host's alarm is the kernel's; a run ends only when nothing can happen; no burst after a pause |
| snapshots and step-back (`core.mjs`, `web/worker.js`) | a history of memory images and of the host's fields | pause, resume, step, step back | state outside the image; a reboot under the history | the board goes on as it did |
| system timer (`wasm_host_timer.c`) | ticks announced, the alarm it wants | set timeout, announce, elapsed | 32-bit ticks, borrowed alarm in `arch_busy_wait` | no tick lost or announced twice |
| pair of boards (`pair.mjs`) | epochs, what each board was last seen doing, limits, frames on the wire | run the board behind, power on, send, sleep together | two clocks, a limit that is stale once a frame is sent or the board reboots | conservative synchronisation; the pair ends, and only when quiet |
| UART driver and wire (`uart_wasm_host.c`, `core.mjs`) | look-ahead byte, enables, bytes typed, when the next is down the wire, bytes raised for | poll, interrupt API, ISR, typing by prompt | an interrupt once per byte, and a level the guest may not see | every byte is delivered once and in order |
| Bluetooth controller (`bt.mjs`) | advertising, scanning, connections, packets in flight, events to the host stack | HCI commands, air PDUs, connection events | two controllers on two clocks, supervision, encryption | both ends agree on the link; packets are acknowledged once |
| ethernet, GPIO, input, sensor drivers | queues between host and guest, the pin levels | push, poll, raise | a queue at its limit; a reboot or a step back with entries queued | what waits is announced; nothing read twice |
| simulated LAN (`lan.mjs`) | lwIP's blocks, the map of connections, deferred closes, timers | enter lwIP, its callbacks, `at`, `advance` | callbacks that end what called them; blocks used again; late calls | bytes go to their own connection; nothing due is slept over |
| the LAN's services (`lan_services.mjs`) | TFTP transfers, the FTP tree and its queues, the broker's subscriptions and topic ids, streams half read | datagrams, connections, chunks | loss and repetition; either of two connections first; streams cut anywhere | files whole; transfers paired; publishes to who asked |
| uplink and relay (`uplink.mjs`, `relaynet.mjs`) | the connection's state, socket, timers, frames that wait | connect, retry, probe, wake, suspend, close | late events of old sockets, checks still under way | one socket; closed is closed; what was there is put back |
| thread inspection, command line, page and worker, wasmtime host, HCI serial, build-time tools, display/entropy/console/flash drivers | none of their own, or files | copying, option parsing, drawing | - | - |

How they interact: the host calls the guest's exports; the guest calls imports,
of which `switch_to` and `wait_for_event` suspend it.  Host and guest share one
thread of execution.  They share words of linear memory (the pending word, the
mask, the enabled lines, the switch block), which the host writes only while
the guest is unwound or inside an import.  Everything from outside (keys,
buttons, frames, readings) is latched by `injectIrq` and reaches the guest at
the start of a step.  Two boards of a pair run in the same loop and meet only
through time-stamped frames.

`PROJECT.json` lists every component, the hazards at their lines, and which
properties go after them.

## 2. Plan

Done, in this order:

1. **The board**: `WasmArch` (guest), `HostLoop` (host around it),
   `ThreadMachine` (what they implement together), `HostLoopInv`,
   `HostLoopProofs`, `ThreadProofs` (that they implement it).
2. **The pair**: `Pair`, with the part of the loop that two boards share, and
   `PairProofs`.
3. **The UART**: `HostUart`, `HostUartProofs`.
4. **The clock**: `HostRun` (alarms, script, device queues, quiescence, reboots,
   snapshots), `HostPace` (pacing to the wall clock), and `HostRunProofs` about
   both.
5. **Bluetooth**: `BtLink`.
6. **The network**: `LanTcp`, `LanTimers` and `Tftp` with `LanProofs`,
   `Broker`, `Ftp` and `LanStream` with `ServicesProofs`, `Uplink` with
   `UplinkProofs`.

Left:

* the alarm that `arch_busy_wait()` borrows, with its value: `WasmArch` and
  `HostRun` composed, and the timer driver's 32-bit ticks;
* the controllers' clocks under `BtLink`, so that a reboot's effect on them and
  supervision timeouts are seen;
* proofs: `OnceInOrder`, `KeyAskedAfterData`, `CreditsExact` and `LinksAgree` of
  `BtLink`, from an invariant that says of each link what is queued, on the air,
  unread and acknowledged; its sums would have to become functions of the link
  first.

## 3. The modules

### WasmArch: the guest

The variables are the port's words and structures (comments in the module name
them) and two things wasm hides: `live`, the call chain on the engine's stack,
and `saved`, the chains the Asyncify buffers hold.  A chain is a thread, the
function of the port it is in (`fn`), the point of it (`pt`), the keys its
frames keep from `arch_irq_lock()` (`keys`), the key of the call in progress
(`key`) and the line being served (`irq`).

An action is what the guest does between two points at which it can be
suspended or interrupted.  `z_wasm_irq_dispatch` is one turn of the
dispatcher's loop; `EnterIsr` and `IsrReturn` are its two halves around a
handler; `AfterDispatch` is what each caller does next, which differs: a
safepoint, an offload and a busy-wait reschedule, `arch_cpu_idle()` does so
after a wait and not on its early return, `arch_cpu_atomic_idle()` never does.
A switch or a wait sets `request`, which stands for the import that is
unwinding the guest.

External: the Zephyr kernel.  `ready`, `alive` and `current` are its view of
the threads; the scheduler may pick any ready thread, and the idle thread only
when there is none.  That covers every priority and time slice.  Only the idle
thread calls `arch_cpu_idle()`, as in the kernel.  A lock taken and released
inside a handler changes nothing there (the mask is set throughout), so it is
not an action.

### HostLoop: the host

`cur` and `contexts` are `this.current` and `this.contexts`; a context's `sp`
is kept as the one it was created with or the one it was unwound with.
`RunStep` is `runStep()` up to the entry of the guest; `StepSwitch` and
`StepIdle` the rest of `step()` after the unwind, `Unwind` being `suspend()`
and the bookkeeping they share; `BufferOverflow`, `RaiseTrap`, `Halt`,
`Reboot` and `checkDeadline` are the ways out.  `InjectIrq` is the outside
world, between two steps.

Time is abstracted to whether an alarm is armed.  Which deadline comes first is
a choice, and so is whether an idle board's run is over (in the code, no
deadline or too many clamps in a row): every order of events that some set of
deadlines could produce is covered, and some that none could.

### ThreadMachine: the abstract specification

A machine with threads: each has its chain and its mask; a step may change the
running thread's own, start or end others, and give the CPU to one that exists,
and leaves every other thread alone.  `HostLoop` implements it
(`ImplementsThreads`) under the mapping `ThreadChain`, `ThreadMask`: wherever a
thread's frames are at the moment (on the engine's stack, in its buffer, or not
yet entered) and wherever its mask is (the mask word, or its own key).

### Pair: two boards on one timeline

`Pair.run()`'s loop is `PowerOn`, `RunBoard` and `BothAsleep`; `LimitReached`
and `BeginStep` are one turn of `runUntil()`; the guest may then spin, program
its alarm, send, read, reboot or suspend, and the idle half of `step()` is
`IdleToLimit`, `IdleToDeadline` and `IdleForGood`.  `seen`, `stepLimit`,
`epoch`, `now`, `alarm` and `queue` are the fields of the same names.  A frame
is its arrival time.  `settled` is a history variable: how far a board had come
when it last began a step or let time pass idle.

Abstractions: the guest works from power-on or an interrupt until it idles, and
an idle thread woken for nothing idles again (a thread in
`k_cpu_atomic_idle()`, which would go on instead, is outside this model).  The
kernel's clamp counts as no alarm.  Typing, scripts, the LAN and the Bluetooth
air are left out; a button stands for everything that comes from outside.
Paced, the wall clock may take two sleeping boards anywhere forward.

### HostUart: from the keyboard to the application

A byte is its place in what was typed, so that `got`, what the application has
read, shows order, loss and repetition.  `typeNextLine` and `KeyPressed` put
bytes into `input`; `RunStep` raises the line as `runStep()` does; the other
actions are the functions of the driver, `uart_wasm_host_isr` cut in three
because its callback is application code.  `rx_waiting` and `uart_poll_in` are
the operators of the same names, used in the actions that call them.  Time is
reduced to `coming`: whether the next byte is still on the wire.

Abstractions: the rest of the guest is `SetAlarm` and `Switch`, which may
happen whenever guest code runs; `alarm` is any deadline that is not the
wire's, and a clamped alarm that has become quiescence is none; a board of a
pair and one on an uplink idle differently and are not in this module.
`uart_irq_rx_ready()` is asked only in a callback, as Zephyr's API demands:
asked elsewhere it can take a byte ahead that no interrupt announces.

### HostRun: the clock of one board

`host` and `mem` are the two halves of a snapshot: the host's fields (`now`,
`alarm`, `clamp`, `quiet`, `latched`, `pin`) and what the guest's memory holds
of the clock and the devices (enabled and pending lines, the alarm it believes
armed, the timeouts it still has).  The queues, the script and the page's own
variables are outside it, as in `snapshot()`.  `runStep` begins a step;
`set_alarm_ns`, `safepoint_tick` and the four handlers (`TimerIsr`, `InputIsr`
with `input_poll`, `SensorIsr`, `GpioIsr`) are what a guest does in it;
`switch_to` and `wait_for_event` end it, the latter being
`advanceToNextDeadline()` with its cases `ScriptedEvent`, `AlarmComes`,
`NothingLeft` and `StandsStill`.  `pushInput`, `pushSensor`, `setGpioInput`, `pause`,
`resume`, `stepOnce` and `stepBack` are the worker's messages, between two steps.
`untold` is a history variable: the lines whose announcement a reboot or a step
back took.  `lag` and `work` bound what the kernel does: it has so many timeouts
to program, and between them idles on the clamp at most `QUIESCENT_ROUNDS`
times.

### HostPace: the guest's clock and the wall's

`run()`'s loop: `Held` while paused, a step (`Works`, `Jumps`, `Idles`,
`Reboots`), `Pacing` after it, and `GoesOn`.  `pace` is the anchor, the moment
at which the two clocks were lined up; `lastNow`, `idleWait`, `steps` and `past`
(one snapshot, kept as its time) are the loop's.  A step takes any time of
either clock up to a bound.  `rewound` marks the one case in which the code
keeps an anchor from a time that was undone.  The speed is 1: a change of speed
lines the clocks up anew, as letting go of a pause does.

### BtLink: two Bluetooth controllers and the air

`node` is each controller, `rx` what it has sent its host, `air` the PDUs on
their way; `host` and `got` belong to the Bluetooth host, which is external.  An
action of `Command` is one HCI command with everything it makes the controller
send; `advEvent` and `connEvent` are an advertising and a connection event;
`receive` is one PDU taken off the air, and `hostRead` one event read.

A link has an identity of its own (`id`) that the code does not have and no guard
looks at.  Links, packets, PDUs and events carry it, so that what is taken for
another link's because it has the same handle or key can be told.  `connect()`
gives out the lowest free handle, and with it the key, without asking whether the
host has read the end of the link that had it before, or whether the other board
has heard of it: `Takes` puts both links into the history `reused` whenever one of
them has not.  `bt_handles` shows what happens to such links.  The
properties of the other runs are about all others: several links side by side, a
handle and key used again after everyone knew, commands of both hosts that cross.
`severed` has the links that lost one end alone, by a refused connect or a reset.

Time is left out, but not its effect on order.  `fromAir()` sorts by time stamps,
and a connection event is stamped with the first point of its link's grid since
the last one, which on a quiet link is long past.  So `fromAir` puts what a
connection event sends behind what the same link sent by itself and anywhere among
advertisements and other links' PDUs (`OnLinksGrid`), and what a command sent in
the middle of a step behind events that were due before (`OfThePresent`).  It
allows a few orders too many, as an advertisement that goes ahead of a reply sent
before it was enabled; no run that expects a violation has such a reply.

### LanTcp, LanTimers: the simulated LAN

`LanTcp` has lwIP's blocks (`pcbs`), the map `tcp` keyed by them, each `TcpConn`
ever made and the list `later`.  A segment goes into lwIP by `Enter`; the
callbacks happen in between, and each may `write()` and `end()` a connection and
so start its `pump()`, which calls lwIP again for every chunk (`callSend`,
`sendReturns`) and ends in a close or not (`pumpEnds`); `Return` is lwIP giving
control back to `call()`, and `runLater` one turn of `call()`'s loop.  `depth` is
`lan.depth`, which `call()` raises and lowers and by which alone `defer()` and
`call()` decide (`OffStack`).  Where lwIP really is, the call stack knows and the
code does not: `entry` and `sending` are that stack, and no close looks at them.
A callback's `write()` and `end()` on one connection have one `pump()` in the
model: the second finds what the first left.  `Freed` is lwIP taking a block back.

`LanTimers` is `at()`, `advance()` and the two services that live by them: `sendPing`, `noAnswer`, `attempt` and `redial` are their callbacks.
`advance` is the clock moving, `runEvent` one turn of its loop and `advanced` its
end (`looping` in between): events are taken out one by one as the code does,
including those the events themselves add.  `askPing` is one turn of the loop in
which `startServices()` asks for its pings, before the board runs (`Ready`).

### Tftp, Broker, Ftp, LanStream: the services

`Tftp` is one transfer; the network is a set of datagrams which are never taken
out by being read, so that each may be repeated and overtaken, and `Lose`.  The
client is external and the usual one of RFC 1350.  `Broker` has `subs`, `ids`
and the sessions; a subscription has a number of its own (`k`), so that one asked
for twice counts twice, as in the code's array, and the order of the array,
which nothing depends on, is left out.  `want` is the subscriptions each client
has asked for in its session, which the code does not keep and
`DeliveredAsAsked` compares with.  `Ftp` has the tree and the two
queues `waiting` and `early`; `Serve` is `withData()`'s pairing.  `LanStream`
keeps of a message the bytes of its length and a count of those around and
behind them: `wsLen`, `coapLen` and `mqttLen` write the lengths, the three
decoders read them, `takes` is one turn of the loop over what has come and
`waits` its end.  The client begins a message (`begins`) when it has sent the one
before, and sends it in pieces (`sends`); `onData` gets all that was sent since
the last call.  `Owed` is the reference: what a client is owed after each
message, by the kinds and lengths alone.

### Uplink: a link to a real network

`relay` is a `RelayConnection`, `link` what `connectUplink()` keeps and where
the platform's `ethSend` goes.  The helper calls the link's handlers in the
middle of its own, and these call back: the operators on `w = [r, l]`
(`connect`, `detach`, `finish`, `retryIn`, `refusedUpgrade`, `sessionClosed`)
are the functions, composed as the code composes them.  Events of the socket,
timers, the answer of a token check, wake, suspend and close are actions and
come in any order.  `pathDies` is a network that stops without a word.
The socket's constructor throws for an address or a token it cannot parse, which
never change (`relaynet.mjs:67-68`), so at the first attempt or never
(`connectThrows`).

### MC modules

`MCHostLoop`, `MCPair`, `MCHostUart` and `MCBtLink` give values to constants.
`MCBoard`, `MCPairAir` and `MCNet` put models that share no state beside each
other: `about` says which of them a behaviour is about, and the others stand
still.  Their runs have the states of each model, one set after the other.

## 4. What the runs check

| run | instance | shows |
|---|---|---|
| `board_threads` | 2 threads, 3 stacks, 2 lines; locks, creation, aborts (from a handler too), a trap | `IInv`, `DeadThreadStaysDead`, `ImplementsThreads`, `SuspensionIsTransparent` |
| `board_waits` | 1 thread, 2 lines; nested locks, busy-wait, atomic idle, offload, enabling and disabling, self-raised lines, traps, halts, overflow, a reboot | `HandlersDoNotNest`, `MaskFollowsThread`, `ResumesOwnFrames`, `ImplementsThreads` |
| `board_served` | 1 thread, 2 lines, interactive, fair | `RaisedLineIsServed` |
| `board_host` | clock: three scripted events, a page that pushes and steps, a reboot, or pacing with pauses, steps back and reboots; broker: an MQTT and an MQTT-SN client, 2 filters, 2 topics; FTP: a directory and 2 files, 2 transfers, 2 data connections; streams of 2 messages at every edge of the length codes, cut anywhere in a header or next to the start or the end of a body | `QueuedIsAnnounced`, `AlarmIsTheKernels`, `EndsWithNothingToDo`; `KeepsPace`; `DeliveredAsAsked`, `IdsLast`; `TransfersPaired`, `AppendsKeep`; `AnswersTheStream` |
| `uart_input` | lines of 1 and 2 bytes, a key, a reboot; interactive or not; fair | `BytesInOrder`, `InputIsRead` |
| `uart_strand` | a line of 2 bytes, a key, a reboot | violation: `EndsWithInputRead` |
| `pair_air` | the pair: latency 2, delay 1, 2 frames queued, 3 units of time, unpaced and paced; Bluetooth: a central and a peripheral with up to 2 links at once, 2 connections, 2 credits, 3 packets or disconnections | `NothingArrivesInThePast`, `EndsOnlyWhenQuiet`; `OnceInOrder`, `CreditsExact` |
| `pair_ends` | fair, unpaced, a reboot of each board, a press | `TypeOK`, `TimeNeverGoesBack`, `RunEnds` |
| `pair_reboot` | a reboot | violation: `NothingArrivesInThePast` |
| `bt_ends` | up to 2 links at once, every command: 2 addresses, 4 kinds of advertising, a scanner, updates, queries; 2 packets or commands and a reset; fair | `LinksAgree`, `KeyAskedAfterData`, `DisconnectEnds` |
| `bt_handles` | Bluetooth as in `pair_air` | violation: `GoesWithItsLink` |
| `net` | TCP: 2 blocks, room for 1 chunk, 2 connections of 2 chunks; timers: 2 pings, 3 dials, late calls; TFTP: 3 blocks; uplink: 2 failures, 1 silent death, 3 frames with room for 2; fair | `TcpSafety`, `ClosedOffStack`, `EndingCloses`; `TimersSafety`, `TimersKeepTime`; `FileWhole`, `GetsAcross`; `SessionSafety`, `FramesSafety`, `TriedUntilClosed` |

Some of these are conjunctions of parts that are defined and explained one by
one beside them: `KeepsPace` (`NeverAheadOfTheWall`, `NoBurst`), `TcpSafety`
(`TcpTypeOK`, `MapOwnsBlock`, `ClosedAfterAll`), `TimersSafety` (`TimersTypeOK`,
`SoonestFirst`, `LoggedOnce`), `TimersKeepTime` (`NothingOverdue`, `DialsApart`,
`EveryPingLogged`), `SessionSafety` (`UplinkTypeOK`, `OneSocket`,
`WaitsForSomething`), `FramesSafety` (`PutBack`, `FramesInOrder`),
`TriedUntilClosed` (`ClosedStays`, `DeadIsNoticed`, `TriesAgain`),
`TransfersPaired` (`FtpTypeOK`, `NeitherWaitsForOther`, `OneEach`), and `IInv`,
from which the proofs have the types, `MaskFollowsThread`, `ResumesOwnFrames`,
`HandlersDoNotNest` and `UnwindsIntoEmptyBuffer`.  `CreditsExact`, `IdsLast` and
`AnswersTheStream` include the types of their modules.  The types of `HostRun`,
`HostUart` and `Tftp`, `GuestWithinAllowance` and `HistoryIsOfThisBoot` are left to
the proofs.

**Bounds of the board.**  Two application threads and the idle thread are enough
for one to be running, one switched out and one being started; three stacks let
an aborted thread's stack be given to another while both live threads keep
theirs.  Two lines give the dispatcher an order and let one be raised during the
other's handler.  Two nested locks tell the outermost key from the others.  One
trap and one reboot reach the states after them; a second adds only the limits,
which are reached too.  In the pair, a latency of 2 leaves room for a board to
be strictly inside its window, and the time limit is past a round trip; the
queue's limit is reached.  A line of two bytes puts one on the wire while the
driver holds another, and the second line needs a prompt; a key can join a
line that is being read.  The proofs remove the bounds of the board, of the
pair, of the UART, of the clock and of the network.

**Bounds of the clock.**  Two scripted events of one time are a tie between two
lines; an alarm can be set before, at and after each of them.  `CLAMP` and
`QUIESCENT_ROUNDS` are at the smallest values that tell a round too many from
one too few.  One step of history makes its limit matter, and two steps of the
page fill it; one push can come before, between and after them.  In `HostPace`
a step takes up to 2 units of either clock, while a guest may be 2 behind and
ahead by 4, so that each limit is met, overrun and made up for.

**Bounds of the radio and the network.**  Two links at once make a
handle and a key tell one from the other (a link taken for the first of two breaks
`OnceInOrder` and `LinksAgree`), and let the second have the handle and key of the
first, before or after everyone knows that it is gone: before, the links are in
`reused`.  The code keeps 64 links; a third one would meet the same two questions,
which handle is free and which link a handle or key names, and no new one.  Two
credits let a packet be acknowledged while another is out.  In `bt_ends` one
packet can be ahead of the request for encryption, in the same connection event
or in an earlier one.
Two blocks and two connections let a block be used again while the close of its
former connection waits; room for one chunk makes every second write wait for
an acknowledgement, with the `end()` behind it.  The pings are asked for in the wrong order, a second
(3 units) is not a whole number of ticks (2), and calls come up to one unit late.
Three blocks of a file have a first, a middle and a last; two failed attempts
tell the first delay from a later one.  Two clients, of which each may end and
begin a session anew, share the broker's table; two topics, one of them a
prefix of the other, tell a filter's levels apart.  Two transfers and two data
connections can be queued in either order and can append to one file.

**Fairness** (`board_served`).  The host's loop and the port's own functions go
on whenever they can: they are straight-line code.  Boot, handlers, critical
sections and busy-waits end, however often they are suspended on the way: this
is a requirement on drivers and applications, without which no interrupt system
serves anything.  A thread that runs on unmasked comes past a safepoint:
`instrument_safepoints.py` puts one into every loop.  Nothing is assumed of the
scheduler, of the outside world or of applications otherwise.

**Fairness** (`pair_ends`).  The pair's loop goes on; a guest's step ends; a
guest cannot for ever neither idle nor be charged for spinning; and a guest
with a driver reads a frame it is interrupted for again and again (the
driver's work item drains the queue).

**Fairness** (`uart_input`).  The loop and the ISR go on; a step ends; an
interrupt that stays pending is taken; time passes, by the safepoints of a busy
guest or the deadlines of an idle one; and a callback that is called again and
again with a byte to read reads it.  The property is about applications that
listen from some time on (`Listening`), so nothing is assumed about when they
enable what.

**Fairness** (`bt_ends`).  The loop advances the controllers, so a PDU is
received and a link's connection event comes; the guest's driver drains the
UART.  No host is assumed ever to send a command.

**Fairness** (`net`).  lwIP returns, and a board that is alive goes on
acknowledging what it is sent (`TcpFair`).  The board's clock goes on and the
host calls the LAN when it is due (`TimersFair`).  A TFTP client goes on
repeating, and of what is repeated for ever something arrives (`TftpFair`).
Timers of the page fire, a token check is answered, and the probe's timer is
not late for ever (`UplinkFair`); nothing is assumed of the relay.

## 5. Findings

Three of the repository's own statements do not hold, each with a run:

* `pair_reboot`: `resetForReboot()` leaves `stepLimitNs` on the old clock, so a
  board that reboots can pass the limit the pair gave it by as much as it had
  already run.
* `uart_strand`: a byte that comes down the wire in the middle of a step is
  raised for only at the start of another; if the board idles first, its time
  is past and is no deadline.  With no alarm set the run ends with it unread,
  and with one the byte waits for the alarm.
* `bt_handles`: a central with a second connection asked for, whose first link
  ends, gives the next link the same handle before its host has read
  Disconnection Complete.  The host's next packet for the old link is then the new
  link's (`byHandle()`), is sent on it and is completed there, though
  `bt.mjs:342-344` says that what a link still had to send goes with it and is not
  completed.

Other behaviours that a reader of the properties should know, found the same way
by changing a configuration as noted:

* `arch_cpu_idle()`'s early return dispatches without a reschedule: a thread
  that became ready there waits for the next interrupt (`board_threads.cfg` with
  the invariant `IdleWaitsOnlyWhenNothingReady`).
* A thread aborted by a handler while it is in `arch_cpu_atomic_idle()` goes on
  running (`board_threads.cfg` with `"atomic_idle"` among `Calls`:
  `DeadThreadStaysDead`).
* A sleeping board's clock stands still and sets no limit for the other; touched
  from outside it wakes in the other's past (`pair_air.cfg` with a press, paced:
  `NothingArrivesInThePast`).
* The handle of a new link is also its key on the air, which the peripheral's PDUs
  about an older link may still carry.  What the peripheral sends about that link
  before it hears of its end, such as a packet or a terminate of its own, then
  reaches the central after it made the new link and is taken for the new one's,
  though `bt.mjs:186-189` has the key to tell links apart (`bt_handles.cfg` with
  the invariant `KeyNamesTheLink`).  It takes an advertisement sent within the
  tenth of a millisecond that PDUs need to cross, or in the same step.
* A frame that is due and never read keeps the board's clock standing still, and
  the other board's with it (`pair_ends.cfg` with `Readers = {0}`: `RunEnds`).

And these are in the models as the code has them, with a property that leaves
the case out or none that speaks of it; the notes of the hazards in
`PROJECT.json` have most of them at their lines:

* a reboot, or a step back, can take the interrupt that announced an input
  event or a reading, which then waits for the next (`untold`);
* a step back while more steps are asked for keeps the old anchor of the pacing
  (`rewound`);
* a packet sent over an encrypted link can overtake the reply that says the link
  is encrypted (`OfThePresent`);
* the last acknowledgement of an upload, once lost, is not sent again;
* a data connection whose transfer was refused stays in `early` for the next
  transfer; RNTO of a file deleted since RNFR stores an undefined entry;
* a second MQTT-SN CONNECT leaves the old session's subscriptions behind;
* a token check answered after `suspend()` sets a retry timer;
* a plain relay that closes the link itself puts nothing back.

## 6. What is proved

`HostLoopProofs` proves, for any sets of threads, stacks and lines, any depth
of locks, with or without safepoints, any set of services used, and any limits
on traps and reboots:

* `Invariance`: `Spec => []IInv`;
* from it `TypeCorrect` (`TypeOK`), `NoNesting` (`HandlersDoNotNest`),
  `MaskOwned` (`MaskFollowsThread`), `OwnFrames` (`ResumesOwnFrames`) and
  `EmptyBuffer` (`UnwindsIntoEmptyBuffer`).

The assumptions are those of the modules: the idle thread, the dummy thread,
the scratch buffer and the "none" values are distinct from the others
(`ThreadAssumption`, `BufAssumption`), lines are numbers and the timer is one
of them (`LineAssumption`), and the types of the parameters
(`ConfigAssumption`, `HostAssumption`).

**The argument.**  None of the properties is inductive: each speaks of the
moment at which a thread runs, and would follow for the next moment only if
whatever that thread needs was kept right while it was suspended.  `IInv` says
what that is.  `KernelInv`: threads in use have buffers of their own.
`SuspendedInv`: a thread that is neither running nor being switched to is
either fresh, with an empty buffer and an open key, or `Resumable`, with its
own well-formed frames at "swap" in its own buffer, a context of its own under
that buffer, and its key set (it was switched out inside `do_swap()`).
`GuestInv`, `SwitchInv` and `BetweenInv` say the same for the thread that has
the CPU, in the three places where a step can find it: on the engine's stack,
in a switch on its way to the host, or in the context the next step enters.
`GoodChain` lists the shapes of call chains, and `MaskAt` the mask each of them
must find: with them the mask at every point is a function of the chain, which
is what makes `MaskFollowsThread` and `HandlersDoNotNest` follow.  There is one
lemma per action; Asyncify's part (`Unwind`, `RunStep`) moves a chain between
`live` and `saved` without touching what the other conjuncts say.

`ThreadProofs` proves, from the same assumptions and for the same range of
instances, what the runs check of the board beside `IInv`:

* `BoardImplementsThreads`: `Spec => ImplementsThreads`, the refinement of
  `ThreadMachine`;
* `SuspensionTransparent`: `Spec => SuspensionIsTransparent`;
* `DeadStaysDead`: `HandlersReschedule` implies
  `Spec => []DeadThreadStaysDead`.

The mapping goes thread by thread.  For each action the proof says where the
frames and the mask of every thread are before and after it: `SuspendedInv`
gives this for the threads that the step does not touch (in a buffer of their
own, with their own key), so that `Same` holds of them, and `GuestInv`,
`SwitchInv` or `BetweenInv` for the one it does.  The dummy thread, which
`boot()` enters without a switch, needs that its `fresh` word stays clear
(`DummyInv`).  `DeadStaysDead` is not true of every image, and its hypothesis
says of which: when handlers abort threads, `arch_cpu_atomic_idle()` is not
used, since it dispatches without a reschedule (see the findings), and neither
are offloads made with interrupts locked, after which the switch away from the
dead thread has to wait.  Under it `AbortedInv` holds: a dead thread that is
still current is inside a dispatch whose caller is about to reschedule.

`PairProofs` proves, for any latency, delay of the second board, queue limit and
time limit, paced or not, from `PairAssumption`: `PairTypes` (`TypeOK`), `TimelineOnlyGrows`
(`TimeNeverGoesBack`) and `AsleepIsQuiet` (`EndsOnlyWhenQuiet`), with any
number of reboots and presses; and that synchronisation is conservative,
`InTimeUntilDisturbed`: as long as no board has rebooted and nobody has touched
one, no frame arrives in what its receiver has lived through.  `ArrivesInTime`
states it as the property the run checks (`NothingArrivesInThePast`), for a
pair in which neither can happen.  The case left out is real: a reboot breaks
the property (`pair_reboot`), and so does a press on a sleeping board (below).
`AsleepIsQuiet` rests on `LinkInv`: a board that the pair last saw idle with no
deadline has none now, because a send notes what it makes the receiver wait
for.  `ArrivesInTime` rests on `SyncInv`, whose parts say what the code's
comment about the limit leaves open.  `Within(i, t)` is that what board i sends
next arrives at t at the earliest: it sends at its own time if it has
something to do, and otherwise no sooner than it wakes.  `Bounded` is that no
board has let time pass beyond that, `Limited` that the one that runs may not
either, for the limit it was given, and `Told` that what the pair remembers of
the other (`seen`) is no later than what the other would do, although it was
noted before the last frames were sent.

`HostUartProofs` proves, for any script, any number of keys and any number of
reboots, `PlacesInvariant` (`Spec => []UInv`), and from it `UartTypes`
(`TypeOK`) and `BytesStayInOrder` (`BytesInOrder`), from the types of the
parameters (`UartAssumption`).  `BytesInOrder` alone says nothing about what
comes next; `UInv` adds that the queue continues what has been taken without a
gap (`QueueFollows`), that the look-ahead byte is the last one taken and newer
than all the application has (`AheadIsLast`), and that the bytes taken are
accounted for (`Accounted`).  Five kinds of step move a byte and have a lemma
each; the rest leave `places` unchanged.

`HostRunProofs` proves, for any script, modes and delays, any clamp, number of
quiescent rounds and length of history, and any number of pushes, steps, steps
back and reboots, from `HostRunAssumption`: `RunTypesAlways` (`RunTypeOK`),
`AlarmAlwaysTheKernels` (`AlarmIsTheKernels`), `HistoryAlwaysOfThisBoot`
(`HistoryIsOfThisBoot`), `QueuedAlwaysAnnounced` (`QueuedIsAnnounced`),
`GuestAlwaysWithinAllowance` (`GuestWithinAllowance`) and, for scripts with no
event past the first clamp, `EndsAfterAll` (`EndsWithNothingToDo`).  A step back makes an old
state the present one, so what is to hold now must have held of every snapshot:
`Image(h, m)` says it of the host and the memory of one moment, and `ClockInv`
has it of the present and, by `HistoryInv`, of each entry of the history.
`AlarmAgrees` is stronger than the property: the host's alarm is the kernel's or
has already come, and `WorkOwed` ties the kernel's alarm to what it still has to
do, so that a reboot's fresh memory fits too.  `QueueInv`, that the input queue
ends with the end of a sample, is what makes a poll that stops at a sample's end
leave either nothing or something it raises the line for.  `EndsAfterAll` adds
`CountInv`, again of the present and of every snapshot: the host has counted no
more quiescent rounds than the kernel has had (`Counted`), one less while the
kernel has yet to hear of the last.  Its hypothesis is needed: clamps that
follow each other end a run even if an event of the script is further away than
all of them, and the event is not played.  `CLAMP_NS` is 100 s of guest time
(`core.mjs:57`), and a run of the command line is 10 s unless it is told
otherwise (`run.mjs:24`), so an event that far away is one that was asked for.

The same module proves `PaceAlwaysKept` (`PaceSpec => KeepsPace`) for any limits
of `HostPace`, steps of any length up to a bound, and any number of pauses,
steps, steps back and reboots (`HostPaceAssumption`).  `PaceInv` adds where in
the loop the lead of the guest is how large: between steps it is not positive,
since `Pacing` has just slept it out (`SleptOut`), and no further behind than what
is let go of and slept while idle (`LeadBounded`), except after a step back that
keeps the old anchor, and on the boot path.

`LanProofs` has three parts.  For a TFTP transfer of any number of blocks that
16 bits can count (`TftpConstants`), `FileArrivesWhole` (`FileWhole`) and
`TftpTypes` (`TftpTypeOK`).  `TransferInv` relates the two ends and every
datagram under way: a block under way is no newer than the server's, an
acknowledgement under way is of a block that has been stored, and the file is
what the receiving end has counted (`ReadInv`, `WriteInv`).  Loss is then
harmless because it only takes from the set, and repetition because nothing in
it is ahead of either end.

For TCP, with any number of blocks, connections and chunks and any room in
lwIP's buffers, `WrittenReachesItsOwn` (`TcpSafety`) and `NeverClosedUnderLwip`
(`ClosedOffStack`), from `TcpConstants` and `TcpInit /\ [][TcpNext]_tcpVars`.  The
block of a connection that lwIP has lost is free, or another's, while the map
still names the connection; `MapInv` says that such a connection is marked as
ending, and it is this mark, at which `write()` returns before it reaches
`pump()`, that keeps its bytes from the block.  `LaterInv` says of the closes that
wait that each is of a connection marked closed that still holds its block
(`Holds`), and waits once.  `NeverClosedUnderLwip` rests on `StackInv`: `depth` is
the number of calls lwIP is in, for a segment and for a chunk, and a `pump()` runs
only in a callback, so that `defer()` never finds a depth of zero there and
`call()` finds it only when lwIP has returned.

For the LAN's clock, with any pings, dial, delays and lateness of the host's
calls, `TimersAlwaysSafe` (`TimersSafety`) and `TimersNeverLate` (`NothingOverdue`
and `DialsApart`, the two safety parts of `TimersKeepTime`).  An event put on the
list goes behind those of its time and before later ones (`Listing`).
`EventsAgree` says what an event on the list is still for: a ping that has not
gone out, the answer of one that has, a dial of which no other event is on the
list.  `LogsAgree` then has it that a ping's log is empty until it is no longer
waited for and has one line after that, whichever of the reply and the time-out
comes first; and `DialsAgree` that attempts are in the order of time.

`ServicesProofs` has three parts too.  For any clients, filters, topics and
sessions, `AlwaysDeliveredAsAsked` (`DeliveredAsAsked`) and `IdsAlwaysLast`
(`IdsLast`).  What `topicMatches()` decides level by level is shown to be what
MQTT says a filter covers (`Covers`) for filters of any length; the rest is
`BrokerInv`, which says that the subscriptions of a client's subscriber function
of now are those it asked for in its session, and that those which a second
CONNECT leaves behind belong to a function no session delivers to.

For any sessions, files, transfers and data connections,
`TransfersAlwaysPaired` (`TransfersPaired`) and `AppendsAlwaysKeep`
(`AppendsKeep`).  `Agree` says of the two queues that every transfer is waiting
or has a connection, that transfers and connections are paired in the order of
both, and that what waits is newer than what is paired; `PairedUp` and the lemmas
after it keep it through a pairing, an early connection and a refused transfer.

For streams, `StreamAlwaysAnswered` (`AnswersTheStream`): for messages of every
length that MQTT can code, and of any below 2^31 for WebSocket and CoAP, any
number of them, and cuts anywhere.  `FramesRead`, `CoapRead` and `MqttRead` are
the lemmas that matter: what a decoder makes of a written header, at any time,
is null while less than the whole message is there and its size from then on.
With them `StreamInv` has a connection stand where the next message starts
(`EndOf`), with what is owed for the messages before it (`Owes`), and `ScriptOK`
has it that after the end of the connection nothing more is owed, which the
loops need because CoAP and MQTT leave theirs with bytes still unread.

`UplinkProofs` proves, for any number of failures, frames and deaths of the
path and any room for frames that wait, from
`UplinkInit /\ [][UplinkNext]_upVars`: `OneSessionAtMost` (`SessionSafety`),
`FramesGoWhereTheyBelong` (`FramesSafety`) and `ClosedForGood` (`ClosedStays`, a
part of `TriedUntilClosed`).  The code's functions call each other through
handlers; each of them is a lemma about what it makes of a pair `[r, l]` of a
connection and a link, and `Over` is what every way a session can end has in
common.  `SessionInv` says which timers and answers can be under way in each
state, and `FramesInv` where the first frames are until the link is there.

**Only model-checked.**  Of safety, `BtLink`: what it counts (packets under way on
a link, credits owed) are sums over the sequences `air`, `rx` and `got` selected
by link and key, and what such a fold comes to as the sequences grow needs
induction over data, for which the library's theorems cannot be used with the
provers at hand.  Liveness cannot be proved with this prover:
`RaisedLineIsServed`, `RunEnds`, `InputIsRead`, `DisconnectEnds`, `EndingCloses`,
`EveryPingLogged`, `GetsAcross`, `DeadIsNoticed` and `TriesAgain`.

## 7. Not modelled

* **HCI over a serial port** (`hci_serial.mjs`) frames bytes of a physical
  controller; **thread inspection** only reads; the **command line**, the page's
  own code and the **wasmtime host** are I/O around the same loop; the
  **display, entropy, console and flash drivers** copy bytes and keep no state;
  the **build-time tools** work on files (what the safepoint pass does to the
  code is `AtSafepoint`); **`builtins.c`** and semihosting's frequencies are
  arithmetic.  The scripts under `scripts/check_*` are tests.
* Of the **board**: the stack depth and the size of the Asyncify buffers are a
  choice (`BufferOverflow` may happen at any suspension).  Reporting,
  semihosting's files and the flash image are left out of the driver loop, and
  `realtime` and changes of speed out of the pacing.
* Of the **timer driver**: its ticks, which are the kernel's arithmetic; the
  value of the alarm that a busy-wait borrows.
* Of the **pair**: the Bluetooth air, which `BtLink` has without times; typing;
  the wall clock beyond that it may take an idle pair anywhere forward.
* Of the **ethernet driver**: the network stack's buffers, and the thread its
  work item runs on; the queue, its limit and the reads are in `Pair`.
* Of the **LAN**: DHCP, DNS and SNTP answer each datagram by itself; lwIP's own
  timers and retransmission are external; FTP commands that only answer or move
  the session's directory.
* Of the **uplink**: the lengths of delays and what the socket buffers.
