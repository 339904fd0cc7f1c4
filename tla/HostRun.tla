------------------------------ MODULE HostRun -------------------------------
(***************************************************************************)
(* The virtual clock of one board and what moves it, in host/core.mjs: the *)
(* kernel's alarm, the scripted events, the input and sensor readings that *)
(* the page queues, the end of a run that has nothing left to wait for, a  *)
(* reboot, and the page's pause, step and step back.                       *)
(*                                                                         *)
(* `host' and `mem' are what a snapshot copies: the host's own fields and  *)
(* the guest's memory.  The queues and the script are not in it.  Threads  *)
(* (HostLoop), the console's wire (HostUart), frames and the pair (Pair)   *)
(* have modules of their own; here the guest is what it asks of the clock. *)
(***************************************************************************)
EXTENDS Integers, Sequences

CONSTANTS
  Script,            \* opts.gpio and opts.inputScript, merged: [at, line]
  Modes,             \* the values opts.interactive may have
  Delays,            \* how far ahead the kernel may set an alarm
  CLAMP,             \* CLAMP_NS
  QUIESCENT_ROUNDS,
  historyMax,
  MaxTime,           \* opts.maxTimeMs
  MaxWork,           \* real deadlines the guest has each boot
  MaxPushes,         \* bound: what the page sends
  MaxSteps,          \* bound: steps the page asks for
  maxReboots

Devices == {"INPUT", "SENSOR", "GPIO"}   \* the lines raised from outside

ASSUME HostRunAssumption ==
  /\ Script \in Seq([at : Nat, line : Devices])
  /\ Modes \subseteq BOOLEAN
  /\ Delays \subseteq Nat \ {0}
  /\ {CLAMP, QUIESCENT_ROUNDS, historyMax} \subseteq Nat \ {0}
  /\ {MaxTime, MaxWork, MaxPushes, MaxSteps, maxReboots} \subseteq Nat

None == -1                               \* null, for an alarm

VARIABLES
  interactive,  \* opts.interactive
  page,         \* the run is the page's, which has no script
  host,         \* the host's fields that a snapshot copies
  mem,          \* the guest's memory
  queue,        \* this.inputQueue, each event as its sync flag
  sensors,      \* this.sensorQueue has a reading
  script,       \* what is left of Script
  epoch,        \* this.epochNs
  paused, stepsLeft, history,
  reboots,      \* this.reboots
  pushes,       \* counts MaxPushes
  asked,        \* counts MaxSteps
  untold,       \* lines whose announcement a reboot or a step back took away
  pc            \* "between" two steps, in the "guest", or "over"

pageVars == <<paused, stepsLeft, asked, pushes>>
queueVars == <<queue, sensors, script, untold>>
runVars == <<interactive, page, host, mem, queueVars, epoch, history, reboots,
             pageVars, pc>>

(* The deadline of the run, on this boot's clock. *)
deadlineNs == MaxTime - epoch

Larger(a, b) == IF a > b THEN a ELSE b

-----------------------------------------------------------------------------
(* A new instance: no line but the timer's enabled, nothing armed. `armed' *)
(* and `far' are the kernel's own view of its alarm, `work' the timeouts   *)
(* it has yet to program, `lag' how often in a row it has been woken by a  *)
(* clamped alarm only.                                                     *)
boot ==
  [enabled |-> {"TIMER"}, pend |-> {}, armed |-> None, far |-> FALSE,
   work |-> MaxWork, lag |-> 0]

RunInit ==
  /\ interactive \in Modes /\ page \in BOOLEAN
  /\ host = [now |-> 0, alarm |-> None, clamp |-> FALSE, quiet |-> 0,
             latched |-> {}, pin |-> FALSE]
  /\ mem = boot
  /\ queue = <<>> /\ sensors = FALSE /\ script = (IF page THEN <<>> ELSE Script) /\ untold = {}
  /\ epoch = 0 /\ reboots = 0 /\ history = <<>>
  /\ paused = FALSE /\ stepsLeft = 0 /\ asked = 0 /\ pushes = 0
  /\ pc = "between"

-----------------------------------------------------------------------------
(* What the page, or the script, sends.                                    *)

(* A drag: coordinates and the event that ends the sample, and another. *)
Touch == <<FALSE, TRUE, TRUE>>

pushInput(h) ==
  /\ queue' = queue \o Touch
  /\ sensors' = sensors
  /\ host' = [h EXCEPT !.latched = @ \cup {"INPUT"}]

(* A reading replaces the one still waiting for its channel. *)
pushSensor(h) ==
  /\ sensors' = TRUE
  /\ queue' = queue
  /\ host' = [h EXCEPT !.latched = @ \cup {"SENSOR"}]

(* The pin moves; a call that leaves the level as it was does nothing. *)
setGpioInput(h) ==
  /\ host' = [h EXCEPT !.latched = @ \cup {"GPIO"}, !.pin = ~@]
  /\ UNCHANGED <<queue, sensors>>

Arrives(line, h) ==
  /\ CASE line = "INPUT" -> pushInput(h)
       [] line = "SENSOR" -> pushSensor(h)
       [] line = "GPIO" -> setGpioInput(h)
  /\ untold' = untold \ {line}

(* A message of the page is handled while the loop is yielded. *)
Push(line) ==
  /\ page /\ pc = "between" /\ pushes < MaxPushes
  /\ pushes' = pushes + 1
  /\ Arrives(line, host)
  /\ UNCHANGED <<interactive, page, mem, script, epoch, history, reboots, paused,
                 stepsLeft, asked, pc>>

pause ==
  /\ page /\ pc = "between" /\ ~paused
  /\ paused' = TRUE
  /\ UNCHANGED <<interactive, page, host, mem, queueVars, epoch, history, reboots,
                 stepsLeft, asked, pushes, pc>>

resume ==
  /\ paused /\ pc = "between"
  /\ paused' = FALSE
  /\ UNCHANGED <<interactive, page, host, mem, queueVars, epoch, history, reboots,
                 stepsLeft, asked, pushes, pc>>

stepOnce ==
  /\ page /\ pc = "between" /\ asked < MaxSteps
  /\ asked' = asked + 1
  /\ stepsLeft' = stepsLeft + 1
  /\ paused' = TRUE
  /\ UNCHANGED <<interactive, page, host, mem, queueVars, epoch, history, reboots,
                 pushes, pc>>

-----------------------------------------------------------------------------
(* Stepping back.                                                          *)

snapshot == [host |-> host, mem |-> mem, boot |-> reboots]

restore_NoAlarm(snap) ==
  /\ host' = [snap.host EXCEPT !.alarm = host.alarm]
  /\ mem' = snap.mem

restore(snap) ==
  /\ host' = snap.host
  /\ mem' = snap.mem

(* The lines whose queue holds something. *)
Waiting == (IF queue # <<>> THEN {"INPUT"} ELSE {})
           \cup (IF sensors THEN {"SENSOR"} ELSE {})

(* The lines the guest will be interrupted for. *)
Told(h, m) == h.latched \cup m.pend

stepBack ==
  /\ page /\ pc = "between" /\ history # <<>>
  /\ restore(history[Len(history)])
  /\ history' = SubSeq(history, 1, Len(history) - 1)
  /\ paused' = TRUE
  /\ untold' = Waiting \ Told(host', mem')
  /\ UNCHANGED <<interactive, page, queue, sensors, script, epoch, reboots,
                 stepsLeft, asked, pushes, pc>>

(* history.push(), with the oldest dropped past the limit. *)
Remember(h) ==
  LET all == Append(h, snapshot)
  IN  IF Len(all) > historyMax THEN Tail(all) ELSE all

-----------------------------------------------------------------------------
(* A step: what was raised from outside, on the lines the guest has        *)
(* enabled, and then the guest until it suspends.                          *)

Raised ==
  [host |-> [host EXCEPT !.latched = @ \ mem.enabled],
   mem |-> [mem EXCEPT !.pend = @ \cup (host.latched \cap mem.enabled)]]

runStep ==
  /\ pc = "between"
  /\ ~ (paused /\ stepsLeft = 0)
  /\ IF stepsLeft > 0
       THEN stepsLeft' = stepsLeft - 1 /\ history' = Remember(history)
       ELSE UNCHANGED <<stepsLeft, history>>
  /\ IF host.now > deadlineNs
       THEN pc' = "over" /\ UNCHANGED <<host, mem>>
       ELSE pc' = "guest" /\ host' = Raised.host /\ mem' = Raised.mem
  /\ UNCHANGED <<interactive, page, queueVars, epoch, reboots, paused, asked, pushes>>

(* What every operation of the guest in the middle of a step leaves alone. *)
InGuest ==
  /\ pc = "guest"
  /\ UNCHANGED <<interactive, page, script, epoch, history, reboots, pageVars>>

(* The drivers come up, one after another in the boot path. *)
irq_enable ==
  /\ InGuest /\ pc' = pc
  /\ ~ (Devices \subseteq mem.enabled)
  /\ mem' = [mem EXCEPT !.enabled = @ \cup Devices]
  /\ UNCHANGED <<host, queue, sensors, untold>>

(* The kernel programs its next timeout, or the clamp while it has none in *)
(* hand; it does so before it has been woken by the clamp more than        *)
(* QUIESCENT_ROUNDS times in a row.                                        *)
set_alarm_ns(d) ==
  [host EXCEPT !.alarm = host.now + d, !.clamp = d >= CLAMP]

(* One more round on the clamp, if that is what came and was not seen yet. *)
Lagging ==
  IF "TIMER" \in mem.pend /\ mem.far /\ mem.lag < QUIESCENT_ROUNDS
  THEN mem.lag + 1 ELSE mem.lag

SetAlarm(d) ==
  /\ InGuest /\ pc' = pc
  /\ mem.armed = None \/ mem.far
  /\ IF d >= CLAMP THEN mem.work = 0 \/ Lagging < QUIESCENT_ROUNDS
                   ELSE mem.work > 0
  /\ host' = set_alarm_ns(d)
  /\ mem' = [mem EXCEPT !.armed = host.now + d, !.far = d >= CLAMP, !.lag = Lagging]
  /\ UNCHANGED <<queue, sensors, untold>>

(* A spinning thread: time is charged, and its alarm may come. *)
safepoint_tick ==
  LET t == host.now + 1
      fires == t <= deadlineNs /\ host.alarm # None /\ t >= host.alarm
  IN  /\ InGuest
      /\ host' = IF fires THEN [host EXCEPT !.now = t, !.alarm = None, !.quiet = 0]
                          ELSE [host EXCEPT !.now = t]
      /\ mem' = IF fires THEN [mem EXCEPT !.pend = @ \cup {"TIMER"}] ELSE mem
      /\ pc' = IF t > deadlineNs THEN "over" ELSE pc
      /\ UNCHANGED <<queue, sensors, untold>>

-----------------------------------------------------------------------------
(* The guest's handlers.                                                   *)

Takes(line) == InGuest /\ pc' = pc /\ line \in mem.pend \cap mem.enabled

(* The kernel hears of its timeout, and has one less to come; an alarm it  *)
(* has set since is not due yet.                                           *)
TimerIsr ==
  /\ Takes("TIMER")
  /\ mem' = IF mem.armed \in 0..host.now
              THEN [mem EXCEPT !.pend = @ \ {"TIMER"}, !.armed = None,
                               !.work = IF mem.far THEN @ ELSE @ - 1,
                               !.lag = IF mem.far THEN Lagging ELSE 0]
              ELSE [mem EXCEPT !.pend = @ \ {"TIMER"}]
  /\ UNCHANGED <<host, queue, sensors, untold>>

(* wasm_input_isr(): up to the end of one sample. *)
EndOfSample == CHOOSE i \in DOMAIN queue : queue[i] /\ \A j \in 1..(i - 1) : ~queue[j]

(* The line is raised again when the sample's last event leaves others. *)
input_poll_Once == host.latched

input_poll ==
  IF EndOfSample < Len(queue) THEN host.latched \cup {"INPUT"} ELSE host.latched

InputIsr ==
  /\ Takes("INPUT")
  /\ mem' = [mem EXCEPT !.pend = @ \ {"INPUT"}]
  /\ IF queue = <<>>
       THEN UNCHANGED <<host, queue>>
       ELSE /\ host' = [host EXCEPT !.latched = input_poll]
            /\ queue' = SubSeq(queue, EndOfSample + 1, Len(queue))
  /\ untold' = IF queue' = <<>> THEN untold \ {"INPUT"} ELSE untold
  /\ UNCHANGED sensors

(* sensor_bridge_isr(): everything that waits. *)
SensorIsr ==
  /\ Takes("SENSOR")
  /\ mem' = [mem EXCEPT !.pend = @ \ {"SENSOR"}]
  /\ sensors' = FALSE
  /\ untold' = untold \ {"SENSOR"}
  /\ UNCHANGED <<host, queue>>

GpioIsr ==
  /\ Takes("GPIO")
  /\ mem' = [mem EXCEPT !.pend = @ \ {"GPIO"}]
  /\ UNCHANGED <<host, queue, sensors, untold>>

-----------------------------------------------------------------------------
(* The guest suspends.                                                     *)

Suspends == pc = "guest" /\ UNCHANGED <<interactive, page, epoch, history, reboots, pageVars>>

(* A switch: the next step resumes the other thread. *)
switch_to ==
  /\ Suspends /\ pc' = "between"
  /\ UNCHANGED <<host, mem, queueVars>>

ScriptedNext == script # <<>> /\ (host.alarm = None \/ script[1].at <= host.alarm)

(* advanceToNextDeadline(): the next scripted event, ... *)
ScriptedEvent ==
  /\ ScriptedNext
  /\ script' = Tail(script)
  /\ Arrives(script[1].line,
             [host EXCEPT !.now = Larger(script[1].at, host.now), !.quiet = 0])
  /\ mem' = mem

(* ... or the kernel's alarm, unless it has been the clamp too often. *)
Rounds == IF host.clamp THEN host.quiet + 1 ELSE 0

TooQuiet_Early == Rounds >= QUIESCENT_ROUNDS

TooQuiet == Rounds > QUIESCENT_ROUNDS

NothingLeft == ~ScriptedNext /\ (host.alarm = None \/ TooQuiet)

AlarmComes ==
  /\ ~ScriptedNext /\ ~NothingLeft
  /\ host' = [host EXCEPT !.quiet = Rounds, !.now = Larger(host.alarm, host.now),
                          !.alarm = None]
  /\ mem' = [mem EXCEPT !.pend = @ \cup {"TIMER"}]
  /\ UNCHANGED <<queue, sensors, script, untold>>

(* The count goes up before it is compared; past the limit it only grows. *)
StandsStill ==
  /\ NothingLeft
  /\ host' = IF host.alarm # None
               THEN [host EXCEPT !.quiet = QUIESCENT_ROUNDS + 1] ELSE host
  /\ UNCHANGED <<mem, queueVars>>

deliverableIrqs == mem.pend \cap mem.enabled

(* Idle, with something to take after all, or raised from outside. An      *)
(* interactive board does not ask for the second: it moves the clock on.   *)
Wakes == IF interactive THEN deliverableIrqs # {}
         ELSE (mem.pend \cup host.latched) \cap mem.enabled # {}

(* A kernel that has something to program does not idle without an alarm. *)
wait_for_event ==
  /\ Suspends
  /\ mem.armed # None \/ mem.work = 0
  /\ \/ Wakes /\ pc' = "between" /\ UNCHANGED <<host, mem, queueVars>>
     \/ ~Wakes /\ (ScriptedEvent \/ AlarmComes) /\ pc' = "between"
     \/ /\ ~Wakes /\ StandsStill
        /\ pc' = IF interactive THEN "between" ELSE "over"

(* sys_reboot(): a new instance, on a clock that starts again. *)
resetForReboot == <<>>

reboot ==
  /\ pc = "guest"
  /\ reboots' = reboots + 1
  /\ IF reboots' > maxReboots
       THEN pc' = "over" /\ UNCHANGED <<host, mem, history, epoch, untold>>
       ELSE /\ pc' = "between"
            /\ epoch' = epoch + host.now
            /\ host' = [host EXCEPT !.now = 0, !.alarm = None, !.clamp = FALSE, !.quiet = 0]
            /\ mem' = boot
            /\ history' = resetForReboot
            /\ untold' = Waiting \ Told(host', mem')
  /\ UNCHANGED <<interactive, page, queue, sensors, script, pageVars>>

RunNext ==
  \/ \E line \in Devices : Push(line)
  \/ pause \/ resume \/ stepOnce \/ stepBack
  \/ runStep \/ safepoint_tick \/ irq_enable \/ switch_to \/ wait_for_event \/ reboot
  \/ \E d \in Delays : SetAlarm(d)
  \/ TimerIsr \/ InputIsr \/ SensorIsr \/ GpioIsr

RunSpec == RunInit /\ [][RunNext]_runVars

-----------------------------------------------------------------------------
(* Properties.                                                             *)

(* The type of the state; the page's steps are remembered up to            *)
(* historyMax (the push and the shift in run()), each a copy of memory.    *)
RunTypeOK ==
  /\ host.now \in Nat /\ host.alarm \in Nat \cup {None}
  /\ host.quiet \in 0..(QUIESCENT_ROUNDS + 1)
  /\ host.latched \subseteq Devices
  /\ mem.pend \subseteq Devices \cup {"TIMER"}
  /\ mem.work \in 0..MaxWork /\ mem.lag \in 0..QUIESCENT_ROUNDS
  /\ Len(history) <= historyMax
  /\ pc \in {"between", "guest", "over"}

(* What waits in inputQueue or sensorQueue is announced: its line is       *)
(* latched or pending until the driver takes it, through the one sample    *)
(* per interrupt of the input driver, lines its driver has not enabled     *)
(* yet, and any push of the page in between. The exception is what a       *)
(* reboot or a step back took the announcement from, until the next push.  *)
QueuedIsAnnounced == Waiting \ untold \subseteq Told(host, mem)

(* The host holds the alarm the kernel believes it has set, or the kernel  *)
(* is about to hear of it: no jump of the clock, no step back and no       *)
(* reboot leaves the kernel waiting for an alarm that will never come, or  *)
(* gets one from a time that was undone.                                   *)
AlarmIsTheKernels ==
  mem.armed # None => host.alarm = mem.armed \/ "TIMER" \in mem.pend

(* A run that ends by itself has played its script and left no timeout of  *)
(* the kernel unprogrammed, as long as the kernel idles on the clamp at    *)
(* most QUIESCENT_ROUNDS times before it programs the next: the count of   *)
(* quiescent rounds never runs ahead of what the kernel really did,        *)
(* whatever was stepped back over or rebooted in between. It is about      *)
(* scripts with no event past the first clamp: clamps in a row end a run   *)
(* before an event that is further away than all of them.                  *)
EndsWithNothingToDo ==
  pc = "over" /\ host.now <= deadlineNs /\ reboots <= maxReboots
    => script = <<>> /\ mem.work = 0

(* The guest never runs past the run's allowance of guest time, counted    *)
(* over all its boots: a sample that reboots for ever still ends.          *)
GuestWithinAllowance == pc = "guest" => epoch + host.now <= MaxTime

(* Every step that can be undone is of this boot: restore() would write    *)
(* the memory of one instance into another, and its contexts and clock     *)
(* with it.                                                                *)
HistoryIsOfThisBoot ==
  pc # "over" => \A i \in DOMAIN history : history[i].boot = reboots

=============================================================================
