--------------------------- MODULE HostRunProofs ---------------------------
(***************************************************************************)
(* Proof that the virtual clock of a board and what it announces stay in   *)
(* step with the guest's memory, for any script, any allowance and any     *)
(* number of pushes, steps, steps back and reboots.                        *)
(*                                                                         *)
(* A step back makes an old state of the host and of memory the present    *)
(* one, so what the proof says of the present it says of every snapshot.   *)
(* The last part is about the loop that keeps a board to the wall clock.   *)
(***************************************************************************)
EXTENDS HostRun, HostPace, WellFoundedInduction, SequenceTheorems, TLAPS

Lines == Devices \cup {"TIMER"}

Hosts == [now : Nat, alarm : Nat \cup {None}, clamp : BOOLEAN,
          quiet : 0..(QUIESCENT_ROUNDS + 1), latched : SUBSET Devices, pin : BOOLEAN]

Mems == [enabled : SUBSET Lines, pend : SUBSET Lines, armed : Nat \cup {None},
         far : BOOLEAN, work : 0..MaxWork, lag : 0..QUIESCENT_ROUNDS]

Snapshots == [host : Hosts, mem : Mems, boot : Nat]

(* The host's alarm is the kernel's, or has come and is pending.            *)
AlarmAgrees(h, m) ==
  m.armed # None => h.alarm = m.armed \/ ("TIMER" \in m.pend /\ m.armed <= h.now)

(* What the kernel has programmed and not heard of is counted as work.      *)
WorkOwed(m) == m.armed # None /\ ~m.far => m.work > 0

(* What is true of the host and the memory of one moment.                   *)
Image(h, m) == h \in Hosts /\ m \in Mems /\ AlarmAgrees(h, m) /\ WorkOwed(m)

HistoryInv ==
  /\ history \in Seq(Snapshots) /\ Len(history) <= historyMax
  /\ \A i \in 1..Len(history) : Image(history[i].host, history[i].mem)
  /\ pc # "over" => \A i \in 1..Len(history) : history[i].boot = reboots

(* The queue ends with the end of a sample.                                 *)
QueueInv == /\ queue \in Seq(BOOLEAN)
            /\ queue # <<>> => queue[Len(queue)] = TRUE

ClockInv ==
  /\ Image(host, mem) /\ HistoryInv /\ QueueInv
  /\ script \in Seq([at : Nat, line : Devices])
  /\ epoch \in Nat /\ reboots \in Nat
  /\ pc \in {"between", "guest", "over"}
  /\ GuestWithinAllowance
  /\ QueuedIsAnnounced

-----------------------------------------------------------------------------
(* The first event of a queue that ends a sample.                           *)
LEMMA SampleEnds ==
  ASSUME QueueInv, queue # <<>>
  PROVE  EndOfSample \in 1..Len(queue)
<1> DEFINE Ends == {i \in 1..Len(queue) : queue[i] = TRUE}
<1> DEFINE Less == OpToRel(<, Nat)
<1>1. Len(queue) \in Ends /\ Ends \subseteq Nat
  BY DEF QueueInv
<1>2. \A x, y \in Nat : y < x => <<y, x>> \in Less
  BY DEF OpToRel
<1>3. IsWellFoundedOn(Less, Nat)
  BY NatLessThanWellFounded
<1>4. PICK x \in Ends : \A y \in Ends : ~ (<<y, x>> \in Less)
  <2>. HIDE DEF Ends, Less
  <2>. QED
    BY <1>1, <1>3, WFMin
<1>5. \A y \in Ends : ~ (y < x)
  BY <1>1, <1>2, <1>4
<1>6. queue[x] /\ \A j \in 1..(x - 1) : ~queue[j]
  BY <1>1, <1>5 DEF QueueInv
<1>7. DOMAIN queue = 1..Len(queue)
  BY DEF QueueInv
<1>8. x \in DOMAIN queue
  BY <1>7
<1>9. EndOfSample \in DOMAIN queue
  BY <1>6, <1>8, Zenon DEF EndOfSample
<1>. QED
  BY <1>7, <1>9

-----------------------------------------------------------------------------
(* What the steps leave alone.                                              *)

(* The history stays true of this boot when neither changes.                *)
LEMMA HistoryKept ==
  ASSUME HistoryInv, pc # "over", history' = history, reboots' = reboots
  PROVE  HistoryInv'
  BY DEF HistoryInv, Image, AlarmAgrees, WorkOwed

(* What waits stays announced when the queues stay and only the lines of    *)
(* the timer and the pin are taken from.                                    *)
LEMMA AnnouncedKept ==
  ASSUME QueuedIsAnnounced, UNCHANGED <<queue, sensors, untold>>,
         Told(host, mem) \subseteq Told(host', mem') \cup {"TIMER", "GPIO"}
  PROVE  QueuedIsAnnounced'
<1>1. Waiting' = Waiting /\ Waiting \cap {"TIMER", "GPIO"} = {}
  BY DEF Waiting
<1>. QED
  BY <1>1 DEF QueuedIsAnnounced

(* A step in the guest that the queues and the clock have no part in.       *)
LEMMA GuestStep ==
  ASSUME ClockInv, InGuest, UNCHANGED <<host, queue, sensors, untold>>, pc' = pc,
         Image(host', mem'),
         mem.pend \subseteq mem'.pend \cup {"TIMER", "GPIO"}
  PROVE  ClockInv'
<1>1. pc = "guest" /\ script' = script /\ epoch' = epoch /\ history' = history
      /\ reboots' = reboots
  BY DEF InGuest
<1>2. HistoryInv'
  BY <1>1, HistoryKept DEF ClockInv
<1>3. QueueInv' /\ Image(host, mem)'
  BY DEF ClockInv, QueueInv, Image
<1>4. QueuedIsAnnounced'
  BY AnnouncedKept DEF ClockInv, Told
<1>5. GuestWithinAllowance'
  BY <1>1 DEF ClockInv, GuestWithinAllowance
<1>. QED
  BY <1>1, <1>2, <1>3, <1>4, <1>5 DEF ClockInv

-----------------------------------------------------------------------------
(* A board that has just been built.                                        *)

(* A new instance has nothing armed.                                        *)
LEMMA BootImage ==
  ASSUME NEW h \in Hosts
  PROVE  Image(h, boot)
<1>1. boot \in Mems /\ boot.armed = None
  BY HostRunAssumption DEF boot, Mems, Lines, None
<1>. QED
  BY <1>1 DEF Image, AlarmAgrees, WorkOwed

LEMMA InitClock == RunInit => ClockInv
<1>. SUFFICES ASSUME RunInit PROVE ClockInv
  OBVIOUS
<1>1. host \in Hosts
  BY HostRunAssumption DEF RunInit, Hosts
<1>2. Image(host, mem)
  BY <1>1, BootImage DEF RunInit
<1>3. HistoryInv
  BY HostRunAssumption DEF RunInit, HistoryInv
<1>4. QueueInv /\ epoch \in Nat /\ reboots \in Nat /\ pc = "between"
  BY DEF RunInit, QueueInv
<1>5. script \in Seq([at : Nat, line : Devices])
  BY HostRunAssumption DEF RunInit
<1>6. Waiting = {}
  BY DEF RunInit, Waiting
<1>. QED
  BY <1>2, <1>3, <1>4, <1>5, <1>6 DEF ClockInv, GuestWithinAllowance, QueuedIsAnnounced

-----------------------------------------------------------------------------
(* What arrives from the page or from the script.                           *)

(* A sample added to a queue ends it.                                       *)
LEMMA TouchEnds ==
  ASSUME QueueInv, queue' = queue \o Touch
  PROVE  QueueInv'
<1>1. Touch \in Seq(BOOLEAN) /\ Len(Touch) = 3 /\ Touch[3] = TRUE
  BY DEF Touch
<1>2. queue \in Seq(BOOLEAN)
  BY DEF QueueInv
<1>3. /\ queue' \in Seq(BOOLEAN) /\ Len(queue') = Len(queue) + Len(Touch)
      /\ \A i \in 1..(Len(queue) + Len(Touch)) :
           queue'[i] = IF i <= Len(queue) THEN queue[i] ELSE Touch[i - Len(queue)]
  <2>1. /\ queue \o Touch \in Seq(BOOLEAN) /\ Len(queue \o Touch) = Len(queue) + Len(Touch)
        /\ \A i \in 1..(Len(queue) + Len(Touch)) :
             (queue \o Touch)[i] = IF i <= Len(queue) THEN queue[i] ELSE Touch[i - Len(queue)]
    <3>1. Touch \in Seq(BOOLEAN)
      BY <1>1
    <3>. QED
      BY <1>2, <3>1, ConcatProperties, Zenon
  <2>2. queue' = queue \o Touch
    OBVIOUS
  <2>. QED
    BY <2>1, <2>2, Zenon
<1>4. queue'[Len(queue) + 3] = Touch[3]
  BY <1>1, <1>2, <1>3
<1>. QED
  BY <1>1, <1>2, <1>3, <1>4 DEF QueueInv

(* What arrives is announced, and takes no announcement away.               *)
LEMMA Arrival ==
  ASSUME NEW line \in Devices, NEW h \in Hosts, h.latched = host.latched,
         Arrives(line, h), mem' = mem,
         QueueInv, QueuedIsAnnounced, mem \in Mems
  PROVE  /\ host' \in Hosts /\ host'.alarm = h.alarm /\ host'.now = h.now
         /\ QueueInv' /\ QueuedIsAnnounced'
<1>1. /\ host' \in Hosts /\ host'.alarm = h.alarm /\ host'.now = h.now
      /\ host'.latched = h.latched \cup {line}
  <2>1. CASE line = "INPUT"
    BY <2>1 DEF Arrives, pushInput, Hosts, Devices
  <2>2. CASE line = "SENSOR"
    BY <2>2 DEF Arrives, pushSensor, Hosts, Devices
  <2>3. CASE line = "GPIO"
    BY <2>3 DEF Arrives, setGpioInput, Hosts, Devices
  <2>. QED
    BY <2>1, <2>2, <2>3 DEF Devices
<1>2. QueueInv' /\ Waiting' \subseteq Waiting \cup {line}
  <2>1. CASE line = "INPUT"
    <3>1. queue' = queue \o Touch /\ sensors' = sensors
      BY <2>1 DEF Arrives, pushInput
    <3>. QED
      BY <2>1, <3>1, TouchEnds DEF Waiting
  <2>2. CASE line = "SENSOR"
    BY <2>2 DEF Arrives, pushSensor, Waiting, QueueInv
  <2>3. CASE line = "GPIO"
    BY <2>3 DEF Arrives, setGpioInput, Waiting, QueueInv
  <2>. QED
    BY <2>1, <2>2, <2>3 DEF Devices
<1>3. untold' = untold \ {line}
  BY DEF Arrives
<1>4. Told(host', mem') = Told(host, mem) \cup {line}
  BY <1>1 DEF Told
<1>5. QueuedIsAnnounced'
  BY <1>2, <1>3, <1>4 DEF QueuedIsAnnounced
<1>. QED
  BY <1>1, <1>2, <1>5

LEMMA PushStep ==
  ASSUME ClockInv, NEW line \in Devices, Push(line)
  PROVE  ClockInv'
<1>1. /\ pc = "between" /\ pc' = pc /\ mem' = mem /\ script' = script
      /\ epoch' = epoch /\ history' = history /\ reboots' = reboots /\ Arrives(line, host)
  BY DEF Push
<1>2. host \in Hosts /\ mem \in Mems /\ QueueInv /\ QueuedIsAnnounced
  BY DEF ClockInv, Image
<1>3. /\ host' \in Hosts /\ host'.alarm = host.alarm /\ host'.now = host.now
      /\ QueueInv' /\ QueuedIsAnnounced'
  BY <1>1, <1>2, Arrival
<1>4. Image(host, mem)'
  BY <1>1, <1>3 DEF ClockInv, Image, AlarmAgrees, WorkOwed
<1>5. HistoryInv'
  BY <1>1, HistoryKept DEF ClockInv
<1>. QED
  BY <1>1, <1>3, <1>4, <1>5 DEF ClockInv, GuestWithinAllowance

(* A page that pauses, goes on or asks for a step changes nothing else.     *)
LEMMA PausesStep ==
  ASSUME ClockInv, pause \/ resume \/ stepOnce
  PROVE  ClockInv'
<1>1. /\ pc = "between" /\ pc' = pc /\ mem' = mem /\ host' = host /\ script' = script
      /\ epoch' = epoch /\ history' = history /\ reboots' = reboots
      /\ queue' = queue /\ sensors' = sensors /\ untold' = untold
  BY DEF pause, resume, stepOnce, queueVars
<1>2. HistoryInv'
  BY <1>1, HistoryKept DEF ClockInv
<1>3. QueuedIsAnnounced'
  BY <1>1, AnnouncedKept DEF ClockInv, Told
<1>4. Image(host, mem)'
  BY <1>1 DEF ClockInv
<1>. QED
  BY <1>1, <1>2, <1>3, <1>4 DEF ClockInv, GuestWithinAllowance, QueueInv

(* Stepping back: a snapshot was true of its moment, and what it does not   *)
(* announce is untold.                                                      *)
LEMMA StepBackStep ==
  ASSUME ClockInv, stepBack
  PROVE  ClockInv'
<1> DEFINE last == history[Len(history)]
<1>1. /\ pc = "between" /\ pc' = pc /\ script' = script /\ epoch' = epoch
      /\ reboots' = reboots /\ queue' = queue /\ sensors' = sensors
      /\ history # <<>> /\ host' = last.host /\ mem' = last.mem
      /\ history' = SubSeq(history, 1, Len(history) - 1)
      /\ untold' = Waiting \ Told(host', mem')
  BY DEF stepBack, restore
<1>2. HistoryInv
  BY DEF ClockInv
<1>3. Len(history) \in 1..Len(history)
  BY <1>1, <1>2 DEF HistoryInv
<1>4. Image(host, mem)'
  BY <1>1, <1>2, <1>3 DEF HistoryInv, Image
<1>5. /\ history' \in Seq(Snapshots) /\ Len(history') = Len(history) - 1
      /\ \A i \in 1..Len(history') : history'[i] = history[i] /\ i \in 1..Len(history)
  <2> DEFINE n == Len(history) - 1
  <2>1. n \in Nat /\ n < Len(history) /\ \A i \in 1..n : history[i] \in Snapshots
    BY <1>2, <1>3 DEF HistoryInv
  <2>2. /\ SubSeq(history, 1, n) \in Seq(Snapshots)
        /\ Len(SubSeq(history, 1, n)) = IF 1 <= n THEN n - 1 + 1 ELSE 0
        /\ \A i \in 1..(n - 1 + 1) : SubSeq(history, 1, n)[i] = history[1 + i - 1]
    BY <2>1, SubSeqProperties
  <2>3. history' = SubSeq(history, 1, n)
    BY <1>1
  <2> HIDE DEF n
  <2>4. Len(history') = n /\ \A i \in 1..n : history'[i] = history[i]
    BY <2>1, <2>2, <2>3
  <2>. QED
    BY <1>2, <2>1, <2>2, <2>3, <2>4 DEF HistoryInv, n
<1>6. HistoryInv'
  <2>1. Len(history') <= historyMax
    BY <1>2, <1>3, <1>5, HostRunAssumption DEF HistoryInv
  <2>2. \A i \in 1..Len(history') : Image(history'[i].host, history'[i].mem)
    BY <1>2, <1>5 DEF HistoryInv
  <2>3. \A i \in 1..Len(history') : history'[i].boot = reboots'
    BY <1>1, <1>2, <1>5 DEF HistoryInv
  <2>. QED
    BY <1>5, <2>1, <2>2, <2>3 DEF HistoryInv, Image, AlarmAgrees, WorkOwed
<1>7. QueuedIsAnnounced'
  BY <1>1 DEF QueuedIsAnnounced, Waiting
<1>. QED
  BY <1>1, <1>4, <1>6, <1>7 DEF ClockInv, GuestWithinAllowance, QueueInv

-----------------------------------------------------------------------------
(* A step of the loop, and what the guest does in it.                       *)

(* A snapshot of the present keeps the history true and within its limit.   *)
LEMMA Remembered ==
  ASSUME ClockInv, pc = "between"
  PROVE  /\ Remember(history) \in Seq(Snapshots) /\ Len(Remember(history)) <= historyMax
         /\ \A i \in 1..Len(Remember(history)) :
              /\ Image(Remember(history)[i].host, Remember(history)[i].mem)
              /\ Remember(history)[i].boot = reboots
<1> DEFINE all == Append(history, snapshot)
<1>1. HistoryInv /\ Image(host, mem) /\ reboots \in Nat
  BY DEF ClockInv
<1>2. /\ snapshot \in Snapshots /\ snapshot.host = host /\ snapshot.mem = mem
      /\ snapshot.boot = reboots
  BY <1>1 DEF snapshot, Snapshots, Image
<1>3. history \in Seq(Snapshots)
  BY <1>1 DEF HistoryInv
<1>4. /\ all \in Seq(Snapshots) /\ all # <<>> /\ Len(all) = Len(history) + 1
      /\ \A i \in 1..Len(history) : all[i] = history[i]
      /\ all[Len(history) + 1] = snapshot
  BY <1>2, <1>3, AppendProperties
<1> HIDE DEF all
<1>5. \A i \in 1..Len(all) : Image(all[i].host, all[i].mem) /\ all[i].boot = reboots
  <2>. SUFFICES ASSUME NEW i \in 1..Len(all)
                PROVE  Image(all[i].host, all[i].mem) /\ all[i].boot = reboots
    OBVIOUS
  <2>1. CASE i \in 1..Len(history)
    BY <1>1, <1>4, <2>1 DEF HistoryInv
  <2>2. CASE i = Len(history) + 1
    BY <1>1, <1>2, <1>4, <2>2
  <2>. QED
    BY <1>3, <1>4, <2>1, <2>2
<1>6. /\ Tail(all) \in Seq(Snapshots) /\ Len(Tail(all)) = Len(all) - 1
      /\ \A i \in 1..Len(Tail(all)) : Tail(all)[i] = all[i + 1]
  BY <1>4, HeadTailProperties, Zenon
<1>7. Remember(history) = IF Len(all) > historyMax THEN Tail(all) ELSE all
  BY DEF Remember, all
<1>8. Len(all) <= historyMax + 1 /\ historyMax \in Nat /\ Len(all) \in Nat
  BY <1>1, <1>3, <1>4, HostRunAssumption DEF HistoryInv
<1>9. CASE Len(all) > historyMax
  <2>1. \A i \in 1..Len(Tail(all)) : i + 1 \in 1..Len(all)
    BY <1>6, <1>8
  <2>2. Len(Tail(all)) <= historyMax /\ Remember(history) = Tail(all)
    BY <1>6, <1>7, <1>8, <1>9
  <2>. QED
    BY <1>5, <1>6, <2>1, <2>2, Zenon
<1>10. CASE ~ (Len(all) > historyMax)
  <2>1. Len(all) <= historyMax /\ Remember(history) = all
    BY <1>7, <1>8, <1>10
  <2>. QED
    BY <1>4, <1>5, <2>1, Zenon
<1>. QED
  BY <1>9, <1>10

(* A line raised goes from the host to the guest, or stays where it is.     *)
LEMMA RaisedImage ==
  ASSUME Image(host, mem)
  PROVE  /\ Image(Raised.host, Raised.mem)
         /\ Told(Raised.host, Raised.mem) = Told(host, mem)
<1>1. host \in Hosts /\ mem \in Mems
  BY DEF Image
<1>2. /\ Raised.host \in Hosts /\ Raised.mem \in Mems
      /\ Raised.host.now = host.now /\ Raised.host.alarm = host.alarm
      /\ Raised.host.latched = host.latched \ mem.enabled
      /\ Raised.mem.pend = mem.pend \cup (host.latched \cap mem.enabled)
      /\ Raised.mem.armed = mem.armed /\ Raised.mem.far = mem.far
      /\ Raised.mem.work = mem.work
  BY <1>1 DEF Raised, Hosts, Mems, Lines
<1>. QED
  BY <1>2 DEF Image, AlarmAgrees, WorkOwed, Told

LEMMA RunStepStep ==
  ASSUME ClockInv, runStep
  PROVE  ClockInv'
<1>1. /\ pc = "between" /\ script' = script /\ epoch' = epoch /\ reboots' = reboots
      /\ queue' = queue /\ sensors' = sensors /\ untold' = untold
      /\ history' = Remember(history) \/ history' = history
  BY DEF runStep, queueVars
<1>2. HistoryInv'
  <2>1. CASE history' = history
    BY <1>1, <2>1, HistoryKept DEF ClockInv
  <2>2. CASE history' = Remember(history)
    BY <1>1, <2>2, Remembered DEF HistoryInv, Image, AlarmAgrees, WorkOwed
  <2>. QED
    BY <1>1, <2>1, <2>2
<1>3. Image(host, mem) /\ host.now \in Nat /\ epoch \in Nat
  BY DEF ClockInv, Image, Hosts
<1>4. CASE host.now > deadlineNs
  <2>1. pc' = "over" /\ host' = host /\ mem' = mem
    BY <1>4 DEF runStep
  <2>2. QueuedIsAnnounced'
    BY <1>1, <2>1, AnnouncedKept DEF ClockInv, Told
  <2>. QED
    BY <1>1, <1>2, <1>3, <2>1, <2>2 DEF ClockInv, GuestWithinAllowance, QueueInv
<1>5. CASE ~ (host.now > deadlineNs)
  <2>1. pc' = "guest" /\ host' = Raised.host /\ mem' = Raised.mem
    BY <1>5 DEF runStep
  <2>2. Image(host, mem)' /\ Told(host', mem') = Told(host, mem)
    BY <1>3, <2>1, RaisedImage
  <2>3. host'.now = host.now
    BY <1>3, <2>1 DEF Raised, Image, Hosts
  <2>4. epoch + host.now <= MaxTime
    BY <1>3, <1>5, HostRunAssumption DEF deadlineNs
  <2>5. QueuedIsAnnounced'
    BY <1>1, <2>2, AnnouncedKept DEF ClockInv
  <2>. QED
    BY <1>1, <1>2, <2>1, <2>2, <2>3, <2>4, <2>5 DEF ClockInv, GuestWithinAllowance, QueueInv
<1>. QED
  BY <1>4, <1>5

(* The round that is counted stays within its limit.                        *)
LEMMA LagInRange ==
  ASSUME mem \in Mems
  PROVE  Lagging \in 0..QUIESCENT_ROUNDS
  BY HostRunAssumption DEF Lagging, Mems

LEMMA EnableStep ==
  ASSUME ClockInv, irq_enable
  PROVE  ClockInv'
<1>1. InGuest /\ UNCHANGED <<host, queue, sensors, untold>> /\ pc' = pc
  BY DEF irq_enable
<1>2. Image(host, mem) /\ mem \in Mems
  BY DEF ClockInv, Image
<1>3. /\ mem' \in Mems /\ mem'.pend = mem.pend /\ mem'.armed = mem.armed
      /\ mem'.far = mem.far /\ mem'.work = mem.work
  BY <1>2 DEF irq_enable, Mems, Lines
<1>4. Image(host', mem')
  BY <1>1, <1>2, <1>3 DEF Image, AlarmAgrees, WorkOwed
<1>. QED
  BY <1>1, <1>3, <1>4, GuestStep

LEMMA SetAlarmStep ==
  ASSUME ClockInv, NEW d \in Delays, SetAlarm(d)
  PROVE  ClockInv'
<1>1. /\ pc = "guest" /\ pc' = pc /\ script' = script /\ epoch' = epoch
      /\ history' = history /\ reboots' = reboots
      /\ queue' = queue /\ sensors' = sensors /\ untold' = untold
      /\ d < CLAMP \/ d >= CLAMP
  BY HostRunAssumption DEF SetAlarm, InGuest
<1>2. host \in Hosts /\ mem \in Mems /\ d \in Nat /\ Image(host, mem)
  BY HostRunAssumption DEF ClockInv, Image
<1>3. /\ host' \in Hosts /\ host'.alarm = host.now + d /\ host'.now = host.now
      /\ host'.latched = host.latched
  <2>1. host' = [host EXCEPT !.alarm = host.now + d, !.clamp = d >= CLAMP]
    BY DEF SetAlarm, set_alarm_ns
  <2>2. host.now + d \in Nat /\ (d >= CLAMP) \in BOOLEAN
    BY <1>2 DEF Hosts
  <2>. QED
    BY <1>2, <2>1, <2>2 DEF Hosts
<1>4. /\ mem' \in Mems /\ mem'.pend = mem.pend /\ mem'.armed = host.now + d
      /\ mem'.far = (d >= CLAMP) /\ mem'.work = mem.work
  <2>1. mem' = [mem EXCEPT !.armed = host.now + d, !.far = d >= CLAMP, !.lag = Lagging]
    BY DEF SetAlarm
  <2>2. host.now + d \in Nat /\ (d >= CLAMP) \in BOOLEAN
    BY <1>2 DEF Hosts
  <2>. QED
    BY <1>2, <2>1, <2>2, LagInRange DEF Mems
<1>5. ~ (d >= CLAMP) => mem.work > 0
  BY DEF SetAlarm
<1>6. Image(host, mem)'
  BY <1>3, <1>4, <1>5 DEF Image, AlarmAgrees, WorkOwed
<1>7. HistoryInv'
  BY <1>1, HistoryKept DEF ClockInv
<1>8. QueuedIsAnnounced'
  BY <1>1, <1>3, <1>4, AnnouncedKept DEF ClockInv, Told
<1>. QED
  BY <1>1, <1>3, <1>6, <1>7, <1>8 DEF ClockInv, GuestWithinAllowance, QueueInv

LEMMA TickStep ==
  ASSUME ClockInv, safepoint_tick
  PROVE  ClockInv'
<1> DEFINE t == host.now + 1
<1>1. /\ pc = "guest" /\ script' = script /\ epoch' = epoch
      /\ history' = history /\ reboots' = reboots
      /\ queue' = queue /\ sensors' = sensors /\ untold' = untold
      /\ pc' = IF t > deadlineNs THEN "over" ELSE pc
  BY DEF safepoint_tick, InGuest
<1>2. host \in Hosts /\ mem \in Mems /\ t \in Nat /\ epoch \in Nat
  BY DEF ClockInv, Image, Hosts
<1>3. Image(host, mem)' /\ Told(host, mem) \subseteq Told(host', mem') /\ host'.now = t
  <2>1. CASE t <= deadlineNs /\ host.alarm # None /\ t >= host.alarm
    <3>1. /\ host' = [host EXCEPT !.now = t, !.alarm = None, !.quiet = 0]
          /\ mem' = [mem EXCEPT !.pend = @ \cup {"TIMER"}]
      BY <2>1 DEF safepoint_tick
    <3>2. /\ host' \in Hosts /\ host'.now = t /\ host'.latched = host.latched
      <4>1. 0 \in 0..(QUIESCENT_ROUNDS + 1)
        BY HostRunAssumption
      <4>. QED
        BY <1>2, <3>1, <4>1 DEF Hosts
    <3>3. /\ mem' \in Mems /\ mem'.pend = mem.pend \cup {"TIMER"} /\ mem'.armed = mem.armed
          /\ mem'.far = mem.far /\ mem'.work = mem.work
      BY <1>2, <3>1 DEF Mems, Lines
    <3>4. mem.armed # None => mem.armed <= t
      BY <1>2, <2>1 DEF ClockInv, Image, AlarmAgrees, Hosts, Mems
    <3>5. Image(host', mem')
      BY <3>2, <3>3, <3>4 DEF ClockInv, Image, AlarmAgrees, WorkOwed
    <3>. QED
      BY <3>2, <3>3, <3>5 DEF Told
  <2>2. CASE ~ (t <= deadlineNs /\ host.alarm # None /\ t >= host.alarm)
    <3>1. host' = [host EXCEPT !.now = t] /\ mem' = mem
      BY <2>2 DEF safepoint_tick
    <3>2. /\ host' \in Hosts /\ host'.now = t /\ host'.alarm = host.alarm
          /\ host'.latched = host.latched
      BY <1>2, <3>1 DEF Hosts
    <3>3. host.now <= t /\ host.now \in Nat /\ mem.armed \in Int
      BY <1>2, HostRunAssumption DEF Hosts, Mems, None
    <3>4. AlarmAgrees(host', mem')
      BY <1>2, <3>1, <3>2, <3>3 DEF ClockInv, Image, AlarmAgrees
    <3>5. Image(host', mem')
      BY <1>2, <3>1, <3>2, <3>4 DEF ClockInv, Image, WorkOwed
    <3>. QED
      BY <3>1, <3>2, <3>5 DEF Told
  <2>. QED
    BY <2>1, <2>2
<1>4. HistoryInv'
  BY <1>1, HistoryKept DEF ClockInv
<1>5. QueuedIsAnnounced'
  BY <1>1, <1>3, AnnouncedKept DEF ClockInv
<1>6. GuestWithinAllowance'
  BY <1>1, <1>2, <1>3, HostRunAssumption DEF GuestWithinAllowance, deadlineNs
<1>. QED
  BY <1>1, <1>3, <1>4, <1>5, <1>6 DEF ClockInv, QueueInv

-----------------------------------------------------------------------------
(* The guest's handlers.                                                    *)

(* The kernel hears of its timeout.                                         *)
LEMMA TimerIsrStep ==
  ASSUME ClockInv, TimerIsr
  PROVE  ClockInv'
<1>1. InGuest /\ UNCHANGED <<host, queue, sensors, untold>> /\ pc' = pc
  BY DEF TimerIsr, Takes
<1>2. Image(host, mem) /\ host \in Hosts /\ mem \in Mems
  BY DEF ClockInv, Image
<1>3. host.now \in Nat /\ mem.armed \in Nat \cup {None} /\ mem.work \in 0..MaxWork
  BY <1>2 DEF Hosts, Mems
<1>4. Image(host', mem') /\ mem.pend \subseteq mem'.pend \cup {"TIMER", "GPIO"}
  <2>1. CASE mem.armed \in 0..host.now
    <3>1. mem' = [mem EXCEPT !.pend = @ \ {"TIMER"}, !.armed = None,
                             !.work = IF mem.far THEN @ ELSE @ - 1,
                             !.lag = IF mem.far THEN Lagging ELSE 0]
      BY <2>1 DEF TimerIsr
    <3>2. (IF mem.far THEN mem.work ELSE mem.work - 1) \in 0..MaxWork
      <4>1. mem.armed # None
        BY <1>3, <2>1 DEF None
      <4>. QED
        BY <1>2, <1>3, <4>1, HostRunAssumption DEF Image, WorkOwed
    <3>3. (IF mem.far THEN Lagging ELSE 0) \in 0..QUIESCENT_ROUNDS
      BY <1>2, LagInRange, HostRunAssumption
    <3>4. mem' \in Mems /\ mem'.armed = None /\ mem'.pend = mem.pend \ {"TIMER"}
      BY <1>2, <3>1, <3>2, <3>3 DEF Mems
    <3>. QED
      BY <1>1, <1>2, <3>4 DEF Image, AlarmAgrees, WorkOwed
  <2>2. CASE ~ (mem.armed \in 0..host.now)
    <3>1. mem' = [mem EXCEPT !.pend = @ \ {"TIMER"}]
      BY <2>2 DEF TimerIsr
    <3>2. /\ mem' \in Mems /\ mem'.pend = mem.pend \ {"TIMER"} /\ mem'.armed = mem.armed
          /\ mem'.far = mem.far /\ mem'.work = mem.work
      BY <1>2, <3>1 DEF Mems
    <3>3. mem.armed # None => host.alarm = mem.armed
      BY <1>2, <1>3, <2>2 DEF Image, AlarmAgrees
    <3>. QED
      BY <1>1, <1>2, <3>2, <3>3 DEF Image, AlarmAgrees, WorkOwed
  <2>. QED
    BY <2>1, <2>2
<1>. QED
  BY <1>1, <1>4, GuestStep

LEMMA GpioIsrStep ==
  ASSUME ClockInv, GpioIsr
  PROVE  ClockInv'
<1>1. InGuest /\ UNCHANGED <<host, queue, sensors, untold>> /\ pc' = pc
      /\ mem' = [mem EXCEPT !.pend = @ \ {"GPIO"}]
  BY DEF GpioIsr, Takes
<1>2. Image(host, mem) /\ mem \in Mems
  BY DEF ClockInv, Image
<1>3. /\ mem' \in Mems /\ mem'.pend = mem.pend \ {"GPIO"} /\ mem'.armed = mem.armed
      /\ mem'.far = mem.far /\ mem'.work = mem.work
  BY <1>1, <1>2 DEF Mems
<1>4. Image(host', mem')
  BY <1>1, <1>2, <1>3 DEF Image, AlarmAgrees, WorkOwed
<1>. QED
  BY <1>1, <1>3, <1>4, GuestStep

(* The input driver takes one sample; with another behind it, its line is   *)
(* raised again.                                                            *)
LEMMA InputIsrStep ==
  ASSUME ClockInv, InputIsr
  PROVE  ClockInv'
<1>1. /\ pc = "guest" /\ pc' = pc /\ script' = script /\ epoch' = epoch
      /\ history' = history /\ reboots' = reboots /\ sensors' = sensors
      /\ mem' = [mem EXCEPT !.pend = @ \ {"INPUT"}]
      /\ untold' = IF queue' = <<>> THEN untold \ {"INPUT"} ELSE untold
  BY DEF InputIsr, Takes, InGuest
<1>2. Image(host, mem) /\ host \in Hosts /\ mem \in Mems /\ QueueInv /\ QueuedIsAnnounced
  BY DEF ClockInv, Image
<1>3. /\ mem' \in Mems /\ mem'.pend = mem.pend \ {"INPUT"} /\ mem'.armed = mem.armed
      /\ mem'.far = mem.far /\ mem'.work = mem.work
  BY <1>1, <1>2 DEF Mems
<1>4. HistoryInv'
  BY <1>1, HistoryKept DEF ClockInv
<1>5. /\ host' \in Hosts /\ host'.alarm = host.alarm /\ host'.now = host.now
      /\ host.latched \subseteq host'.latched
      /\ QueueInv' /\ (queue' # <<>> => "INPUT" \in host'.latched)
  <2>1. CASE queue = <<>>
    BY <1>2, <2>1 DEF InputIsr, QueueInv
  <2>2. CASE queue # <<>>
    <3>1. /\ host' = [host EXCEPT !.latched = input_poll]
          /\ queue' = SubSeq(queue, EndOfSample + 1, Len(queue))
      BY <2>2 DEF InputIsr
    <3>2. EndOfSample \in 1..Len(queue) /\ queue \in Seq(BOOLEAN) /\ Len(queue) \in Nat
      <4>1. QueueInv
        BY <1>2
      <4>2. EndOfSample \in 1..Len(queue)
        BY <2>2, <4>1, SampleEnds
      <4>. QED
        BY <4>1, <4>2 DEF QueueInv
    <3>3. input_poll = IF EndOfSample < Len(queue)
                       THEN host.latched \cup {"INPUT"} ELSE host.latched
      BY DEF input_poll
    <3>4. /\ host' \in Hosts /\ host'.alarm = host.alarm /\ host'.now = host.now
          /\ host'.latched = input_poll /\ host.latched \subseteq host'.latched
      BY <1>2, <3>1, <3>3 DEF Hosts, Devices
    <3>5. CASE EndOfSample = Len(queue)
      <4>1. queue' = <<>>
        BY <3>1, <3>2, <3>5, SubSeqEmpty
      <4>. QED
        BY <3>4, <4>1 DEF QueueInv
    <3>6. CASE EndOfSample < Len(queue)
      <4> DEFINE m == EndOfSample + 1
      <4> DEFINE n == Len(queue)
      <4>1. /\ m \in Int /\ n \in Int /\ m <= n /\ m >= 1
            /\ \A i \in m..n : queue[i] \in BOOLEAN
        BY <3>2, <3>6
      <4>2. queue' = SubSeq(queue, m, n)
        BY <3>1
      <4>3. queue[n] = TRUE
        BY <1>2, <2>2 DEF QueueInv
      <4> HIDE DEF m, n
      <4>4. /\ SubSeq(queue, m, n) \in Seq(BOOLEAN)
            /\ Len(SubSeq(queue, m, n)) = IF m <= n THEN n - m + 1 ELSE 0
            /\ \A i \in 1..(n - m + 1) : SubSeq(queue, m, n)[i] = queue[m + i - 1]
        BY <4>1, SubSeqProperties
      <4>5. Len(queue') = n - m + 1 /\ n - m + 1 \in 1..(n - m + 1)
        BY <4>1, <4>2, <4>4
      <4>6. queue'[Len(queue')] = queue[m + (n - m + 1) - 1] /\ m + (n - m + 1) - 1 = n
        BY <4>1, <4>2, <4>4, <4>5
      <4>7. QueueInv'
        BY <4>2, <4>3, <4>4, <4>6 DEF QueueInv
      <4>8. "INPUT" \in host'.latched
        BY <3>3, <3>4, <3>6
      <4>. QED
        BY <3>4, <4>7, <4>8
    <3>. QED
      BY <3>2, <3>5, <3>6
  <2>. QED
    BY <2>1, <2>2
<1>6. Image(host', mem')
  BY <1>2, <1>3, <1>5 DEF Image, AlarmAgrees, WorkOwed
<1>7. QueuedIsAnnounced'
  <2>1. /\ \A x \in Waiting' \ untold' : x # "INPUT" => x \in Waiting \ untold
        /\ "INPUT" \in Waiting' => queue' # <<>>
    <3>1. (IF sensors' THEN {"SENSOR"} ELSE {}) = (IF sensors THEN {"SENSOR"} ELSE {})
      BY <1>1
    <3> DEFINE S == IF sensors THEN {"SENSOR"} ELSE {}
    <3>2. Waiting = (IF queue # <<>> THEN {"INPUT"} ELSE {}) \cup S
      BY DEF Waiting
    <3>3. Waiting' = (IF queue' # <<>> THEN {"INPUT"} ELSE {}) \cup S
      BY <3>1 DEF Waiting
    <3>4. untold \ {"INPUT"} \subseteq untold'
      BY <1>1
    <3>5. S \subseteq {"SENSOR"}
      OBVIOUS
    <3> HIDE DEF S
    <3>6. ASSUME NEW x \in Waiting', x \notin untold', x # "INPUT"
          PROVE  x \in Waiting \ untold
      <4>1. x \in S
        BY <3>3, <3>6
      <4>. QED
        BY <3>2, <3>4, <3>6, <4>1
    <3>7. "INPUT" \in Waiting' => queue' # <<>>
      BY <3>3, <3>5
    <3>. QED
      BY <3>6, <3>7
  <2>2. Told(host, mem) \ {"INPUT"} \subseteq Told(host', mem')
    BY <1>3, <1>5 DEF Told
  <2>3. queue' # <<>> => "INPUT" \in Told(host', mem')
    BY <1>5 DEF Told
  <2>. QED
    BY <1>2, <2>1, <2>2, <2>3 DEF QueuedIsAnnounced
<1>. QED
  BY <1>1, <1>4, <1>5, <1>6, <1>7 DEF ClockInv, GuestWithinAllowance

LEMMA SensorIsrStep ==
  ASSUME ClockInv, SensorIsr
  PROVE  ClockInv'
<1>1. /\ pc = "guest" /\ pc' = pc /\ script' = script /\ epoch' = epoch
      /\ history' = history /\ reboots' = reboots /\ sensors' = FALSE
      /\ host' = host /\ queue' = queue /\ untold' = untold \ {"SENSOR"}
      /\ mem' = [mem EXCEPT !.pend = @ \ {"SENSOR"}]
  BY DEF SensorIsr, Takes, InGuest
<1>2. Image(host, mem) /\ host \in Hosts /\ mem \in Mems /\ QueueInv /\ QueuedIsAnnounced
  BY DEF ClockInv, Image
<1>3. /\ mem' \in Mems /\ mem'.pend = mem.pend \ {"SENSOR"} /\ mem'.armed = mem.armed
      /\ mem'.far = mem.far /\ mem'.work = mem.work
  BY <1>1, <1>2 DEF Mems
<1>4. HistoryInv'
  BY <1>1, HistoryKept DEF ClockInv
<1>5. Image(host', mem')
  BY <1>1, <1>2, <1>3 DEF Image, AlarmAgrees, WorkOwed
<1>6. Waiting' \subseteq Waiting \ {"SENSOR"}
  BY <1>1 DEF Waiting
<1>7. QueuedIsAnnounced'
  BY <1>1, <1>2, <1>3, <1>6 DEF QueuedIsAnnounced, Told
<1>. QED
  BY <1>1, <1>2, <1>4, <1>5, <1>7 DEF ClockInv, GuestWithinAllowance, QueueInv

-----------------------------------------------------------------------------
(* The guest suspends.                                                      *)

(* What a suspension leaves alone.                                          *)
LEMMA SuspendKeeps ==
  ASSUME ClockInv, Suspends, pc' \in {"between", "over"},
         Image(host, mem)', QueueInv', QueuedIsAnnounced',
         script' \in Seq([at : Nat, line : Devices])
  PROVE  ClockInv'
<1>1. pc = "guest" /\ epoch' = epoch /\ history' = history /\ reboots' = reboots
  BY DEF Suspends
<1>2. HistoryInv'
  BY <1>1, HistoryKept DEF ClockInv
<1>3. GuestWithinAllowance'
  BY DEF GuestWithinAllowance
<1>. QED
  BY <1>1, <1>2, <1>3 DEF ClockInv

LEMMA SwitchStep ==
  ASSUME ClockInv, switch_to
  PROVE  ClockInv'
<1>1. Suspends /\ pc' = "between" /\ UNCHANGED <<host, mem, queue, sensors, script, untold>>
  BY DEF switch_to, queueVars
<1>2. Image(host, mem)' /\ QueueInv' /\ script' \in Seq([at : Nat, line : Devices])
  BY <1>1 DEF ClockInv, QueueInv
<1>3. QueuedIsAnnounced'
  BY <1>1, AnnouncedKept DEF ClockInv, Told
<1>. QED
  BY <1>1, <1>2, <1>3, SuspendKeeps

(* The next scripted event.                                                 *)
LEMMA ScriptedStep ==
  ASSUME ClockInv, ScriptedEvent
  PROVE  /\ Image(host, mem)' /\ QueueInv' /\ QueuedIsAnnounced'
         /\ script' \in Seq([at : Nat, line : Devices])
<1> DEFINE t == script[1].at
<1> DEFINE h == [host EXCEPT !.now = Larger(t, host.now), !.quiet = 0]
<1>1. /\ script # <<>> /\ script' = Tail(script) /\ mem' = mem
      /\ Arrives(script[1].line, h)
  BY DEF ScriptedEvent, ScriptedNext
<1>2. /\ host \in Hosts /\ mem \in Mems /\ Image(host, mem)
      /\ QueueInv /\ QueuedIsAnnounced
      /\ script \in Seq([at : Nat, line : Devices])
  BY DEF ClockInv, Image
<1>3. script[1] \in [at : Nat, line : Devices]
  <2> DEFINE E == [at : Nat, line : Devices]
  <2>1. script \in Seq(E) /\ script # <<>>
    BY <1>1, <1>2
  <2> HIDE DEF E
  <2>2. script[1] \in E
    BY <2>1
  <2>. QED
    BY <2>2 DEF E
<1>4. /\ host.now \in Nat /\ Larger(t, host.now) \in Nat
      /\ host.now <= Larger(t, host.now) /\ 0 \in 0..(QUIESCENT_ROUNDS + 1)
  BY <1>2, <1>3, HostRunAssumption DEF Larger, Hosts
<1>5. /\ h \in Hosts /\ h.latched = host.latched /\ h.alarm = host.alarm
      /\ h.now = Larger(t, host.now)
  BY <1>2, <1>4 DEF Hosts
<1>6. script[1].line \in Devices
  BY <1>3
<1> HIDE DEF h
<1>7. /\ host' \in Hosts /\ host'.alarm = h.alarm /\ host'.now = h.now
      /\ QueueInv' /\ QueuedIsAnnounced'
  BY <1>1, <1>2, <1>5, <1>6, Arrival
<1>8. mem.armed \in Int
  BY <1>2 DEF Mems, None
<1>9. AlarmAgrees(host', mem')
  BY <1>1, <1>2, <1>4, <1>5, <1>7, <1>8 DEF Image, AlarmAgrees
<1>10. Image(host', mem')
  BY <1>1, <1>2, <1>7, <1>9 DEF Image, WorkOwed
<1>11. script' \in Seq([at : Nat, line : Devices])
  BY <1>1, <1>2
<1>. QED
  BY <1>7, <1>10, <1>11

(* The kernel's alarm comes.                                                *)
LEMMA AlarmStep ==
  ASSUME ClockInv, AlarmComes
  PROVE  /\ Image(host, mem)' /\ QueueInv' /\ QueuedIsAnnounced'
         /\ script' \in Seq([at : Nat, line : Devices])
<1>1. /\ host' = [host EXCEPT !.quiet = Rounds, !.now = Larger(host.alarm, host.now),
                              !.alarm = None]
      /\ mem' = [mem EXCEPT !.pend = @ \cup {"TIMER"}]
      /\ UNCHANGED <<queue, sensors, script, untold>>
      /\ host.alarm # None /\ ~TooQuiet
  BY DEF AlarmComes, NothingLeft
<1>2. /\ host \in Hosts /\ mem \in Mems /\ Image(host, mem)
      /\ QueueInv /\ QueuedIsAnnounced
      /\ script \in Seq([at : Nat, line : Devices])
  BY DEF ClockInv, Image
<1>3. /\ host.now \in Nat /\ host.alarm \in Nat /\ mem.armed \in Int
      /\ host.quiet \in Nat
  BY <1>1, <1>2, HostRunAssumption DEF Hosts, Mems, None
<1>4. /\ Rounds \in 0..(QUIESCENT_ROUNDS + 1)
      /\ Larger(host.alarm, host.now) \in Nat
      /\ host.alarm <= Larger(host.alarm, host.now)
      /\ host.now <= Larger(host.alarm, host.now)
  <2>1. Rounds \in Nat /\ Rounds <= QUIESCENT_ROUNDS
    <3>1. Rounds \in Nat
      BY <1>3 DEF Rounds
    <3>. QED
      BY <1>1, <3>1, HostRunAssumption DEF TooQuiet
  <2>2. /\ Larger(host.alarm, host.now) \in Nat
        /\ host.alarm <= Larger(host.alarm, host.now)
        /\ host.now <= Larger(host.alarm, host.now)
    BY <1>3 DEF Larger
  <2>. QED
    BY <2>1, <2>2, HostRunAssumption
<1>5. /\ host' \in Hosts /\ host'.now = Larger(host.alarm, host.now)
      /\ host'.latched = host.latched
  BY <1>1, <1>2, <1>4 DEF Hosts
<1>6. /\ mem' \in Mems /\ mem'.pend = mem.pend \cup {"TIMER"} /\ mem'.armed = mem.armed
      /\ mem'.far = mem.far /\ mem'.work = mem.work
  BY <1>1, <1>2 DEF Mems, Lines
<1>7. AlarmAgrees(host', mem')
  BY <1>2, <1>3, <1>4, <1>5, <1>6 DEF Image, AlarmAgrees
<1>8. Image(host', mem')
  BY <1>2, <1>5, <1>6, <1>7 DEF Image, WorkOwed
<1>9. QueuedIsAnnounced'
  BY <1>1, <1>2, <1>5, <1>6, AnnouncedKept DEF Told
<1>. QED
  BY <1>1, <1>2, <1>8, <1>9 DEF QueueInv

(* A clock that has nothing to move on to.                                  *)
LEMMA StillStep ==
  ASSUME ClockInv, StandsStill
  PROVE  /\ Image(host, mem)' /\ QueueInv' /\ QueuedIsAnnounced'
         /\ script' \in Seq([at : Nat, line : Devices])
<1>1. /\ host' = IF host.alarm # None
                   THEN [host EXCEPT !.quiet = QUIESCENT_ROUNDS + 1] ELSE host
      /\ mem' = mem /\ UNCHANGED <<queue, sensors, script, untold>>
  BY DEF StandsStill, queueVars
<1>2. /\ host \in Hosts /\ mem \in Mems /\ Image(host, mem)
      /\ QueueInv /\ QueuedIsAnnounced
      /\ script \in Seq([at : Nat, line : Devices])
  BY DEF ClockInv, Image
<1>3. QUIESCENT_ROUNDS + 1 \in 0..(QUIESCENT_ROUNDS + 1)
  BY HostRunAssumption
<1>4. /\ host' \in Hosts /\ host'.now = host.now /\ host'.latched = host.latched
      /\ host'.alarm = host.alarm
  BY <1>1, <1>2, <1>3 DEF Hosts
<1>5. Image(host', mem')
  BY <1>1, <1>2, <1>4 DEF Image, AlarmAgrees, WorkOwed
<1>6. QueuedIsAnnounced'
  BY <1>1, <1>2, <1>4, AnnouncedKept DEF Told
<1>. QED
  BY <1>1, <1>2, <1>5, <1>6 DEF QueueInv

LEMMA IdleStep ==
  ASSUME ClockInv, wait_for_event
  PROVE  ClockInv'
<1>1. Suspends /\ pc' \in {"between", "over"}
  BY DEF wait_for_event
<1>2. CASE Wakes /\ pc' = "between" /\ UNCHANGED <<host, mem, queueVars>>
  <2>1. switch_to
    BY <1>1, <1>2 DEF switch_to
  <2>. QED
    BY <2>1, SwitchStep
<1>3. CASE ScriptedEvent
  BY <1>1, <1>3, ScriptedStep, SuspendKeeps
<1>4. CASE AlarmComes
  BY <1>1, <1>4, AlarmStep, SuspendKeeps
<1>5. CASE StandsStill
  BY <1>1, <1>5, StillStep, SuspendKeeps
<1>. QED
  BY <1>2, <1>3, <1>4, <1>5 DEF wait_for_event

(* A reboot drops every step that could be undone, and starts a clock.      *)
LEMMA RebootStep ==
  ASSUME ClockInv, reboot
  PROVE  ClockInv'
<1>1. /\ pc = "guest" /\ reboots' = reboots + 1 /\ script' = script
      /\ queue' = queue /\ sensors' = sensors
  BY DEF reboot
<1>2. /\ host \in Hosts /\ mem \in Mems /\ Image(host, mem) /\ HistoryInv /\ QueueInv
      /\ QueuedIsAnnounced /\ epoch \in Nat /\ reboots \in Nat /\ host.now \in Nat
      /\ script \in Seq([at : Nat, line : Devices])
  BY DEF ClockInv, Image, Hosts
<1>3. CASE reboots' > maxReboots
  <2>1. pc' = "over" /\ UNCHANGED <<host, mem, history, epoch, untold>>
    BY <1>3 DEF reboot
  <2>2. HistoryInv'
    BY <1>1, <1>2, <2>1 DEF HistoryInv, Image, AlarmAgrees, WorkOwed
  <2>3. QueuedIsAnnounced'
    BY <1>1, <1>2, <2>1, AnnouncedKept DEF Told
  <2>4. Image(host', mem')
    BY <1>2, <2>1
  <2>. QED
    BY <1>1, <1>2, <2>1, <2>2, <2>3, <2>4 DEF ClockInv, GuestWithinAllowance, QueueInv
<1>4. CASE ~ (reboots' > maxReboots)
  <2>1. /\ pc' = "between" /\ epoch' = epoch + host.now /\ mem' = boot /\ history' = <<>>
        /\ host' = [host EXCEPT !.now = 0, !.alarm = None, !.clamp = FALSE, !.quiet = 0]
        /\ untold' = Waiting \ Told(host', mem')
    BY <1>4 DEF reboot, resetForReboot
  <2>2. host' \in Hosts
    <3>1. 0 \in 0..(QUIESCENT_ROUNDS + 1)
      BY HostRunAssumption
    <3>. QED
      BY <1>2, <2>1, <3>1 DEF Hosts
  <2>3. Image(host', mem')
    BY <2>1, <2>2, BootImage
  <2>4. HistoryInv'
    BY <2>1, HostRunAssumption DEF HistoryInv
  <2>5. Waiting' = Waiting
    BY <1>1 DEF Waiting
  <2>6. QueuedIsAnnounced'
    BY <2>1, <2>5 DEF QueuedIsAnnounced
  <2>. QED
    BY <1>1, <1>2, <2>1, <2>3, <2>4, <2>6 DEF ClockInv, GuestWithinAllowance, QueueInv
<1>. QED
  BY <1>3, <1>4

-----------------------------------------------------------------------------
(* Every step keeps the invariant.                                          *)

LEMMA ClockStep == ClockInv /\ [RunNext]_runVars => ClockInv'
<1>. SUFFICES ASSUME ClockInv, [RunNext]_runVars PROVE ClockInv'
  OBVIOUS
<1>1. CASE UNCHANGED runVars
  <2>1. UNCHANGED <<host, mem, queue, sensors, script, untold, epoch, history, reboots, pc>>
    BY <1>1 DEF runVars, queueVars
  <2>2. HistoryInv'
    BY <2>1 DEF ClockInv, HistoryInv, Image, AlarmAgrees, WorkOwed
  <2>3. QueuedIsAnnounced'
    BY <2>1, AnnouncedKept DEF ClockInv, Told
  <2>. QED
    BY <2>1, <2>2, <2>3 DEF ClockInv, GuestWithinAllowance, QueueInv
<1>2. CASE RunNext
  BY <1>2, PushStep, PausesStep, StepBackStep, RunStepStep, TickStep, EnableStep, SwitchStep,
     IdleStep, RebootStep, SetAlarmStep, TimerIsrStep, InputIsrStep, SensorIsrStep, GpioIsrStep
     DEF RunNext
<1>. QED
  BY <1>1, <1>2

(* A run that is reached keeps the invariant.                               *)
LEMMA ClockAlways == RunSpec => []ClockInv
  BY InitClock, ClockStep, PTL DEF RunSpec

(* What the invariant says of the alarm, the history and the types.         *)
LEMMA ClockProperties ==
  ClockInv => /\ AlarmIsTheKernels /\ HistoryIsOfThisBoot /\ RunTypeOK
              /\ QueuedIsAnnounced /\ GuestWithinAllowance
<1>. SUFFICES ASSUME ClockInv
              PROVE  AlarmIsTheKernels /\ HistoryIsOfThisBoot /\ RunTypeOK
  BY DEF ClockInv
<1>1. AlarmIsTheKernels
  BY DEF ClockInv, Image, AlarmAgrees, AlarmIsTheKernels
<1>2. HistoryIsOfThisBoot
  BY DEF ClockInv, HistoryInv, HistoryIsOfThisBoot
<1>3. RunTypeOK
  BY DEF ClockInv, HistoryInv, Image, Hosts, Mems, Lines, RunTypeOK
<1>. QED
  BY <1>1, <1>2, <1>3

-----------------------------------------------------------------------------
(* The end of a run that has nothing left to do.                           *)

(* One more clamp the kernel has been woken by and will have noticed.       *)
Noticed(m) == IF m.lag < QUIESCENT_ROUNDS THEN m.lag + 1 ELSE m.lag

(* The host counts no more quiescent rounds than the kernel has had, and    *)
(* the alarm in hand is what both take it to be: the clamp, or a deadline.  *)
Counted(h, m) ==
  /\ "TIMER" \in m.enabled
  /\ h.alarm # None =>
       /\ m.armed = h.alarm /\ (h.clamp <=> m.far)
       /\ "TIMER" \in m.pend => h.alarm > h.now
       /\ h.quiet <= m.lag
       /\ m.far => (m.work = 0 \/ m.lag < QUIESCENT_ROUNDS) /\ h.alarm >= CLAMP
  /\ h.alarm = None =>
       h.quiet <= IF m.armed = None THEN m.lag ELSE IF m.far THEN Noticed(m) ELSE 0

(* So it is of a run that ends by itself, now and in every snapshot.        *)
CountInv ==
  ~interactive /\ pc # "over" =>
    /\ Counted(host, mem)
    /\ \A i \in 1..Len(history) : Counted(history[i].host, history[i].mem)

(* No event of the script is further away than the first clamp.             *)
ScriptInv == script \in Seq([at : 0..CLAMP, line : Devices])

(* What the parts of an image are.                                          *)
LEMMA ImageParts ==
  ASSUME NEW h, NEW m, Image(h, m)
  PROVE  /\ h \in Hosts /\ m \in Mems
         /\ h.now \in Nat /\ (h.alarm = None \/ h.alarm \in Nat) /\ h.quiet \in Nat
         /\ h.clamp \in BOOLEAN /\ m.far \in BOOLEAN
         /\ m.armed = None \/ m.armed \in Nat
         /\ m.lag \in Nat /\ m.lag <= QUIESCENT_ROUNDS /\ m.work \in Nat
         /\ QUIESCENT_ROUNDS \in Nat \ {0} /\ CLAMP \in Nat \ {0} /\ None = -1
<1>1. h \in Hosts /\ m \in Mems
  BY DEF Image
<1>2. QUIESCENT_ROUNDS \in Nat \ {0} /\ CLAMP \in Nat \ {0} /\ MaxWork \in Nat
  BY HostRunAssumption
<1>. QED
  BY <1>1, <1>2 DEF Hosts, Mems, None

(* What is not about the alarm or the count of rounds is neither here nor   *)
(* there, as long as time does not pass an alarm.                           *)
LEMMA CountedKept ==
  ASSUME NEW h, NEW m, NEW g, NEW n, Counted(h, m),
         "TIMER" \in n.enabled,
         g.alarm = h.alarm, g.clamp = h.clamp, g.quiet = h.quiet, g.now = h.now,
         n.armed = m.armed, n.far = m.far, n.lag = m.lag, n.work = m.work,
         "TIMER" \in n.pend => "TIMER" \in m.pend
  PROVE  Counted(g, n)
  BY DEF Counted, Noticed

(* A new instance, on a host that starts to count again.                    *)
LEMMA BootCounted ==
  ASSUME NEW h, h.alarm = None, h.quiet = 0
  PROVE  Counted(h, boot)
<1>1. boot.enabled = {"TIMER"} /\ boot.armed = None /\ boot.lag = 0
  BY DEF boot
<1>. QED
  BY <1>1 DEF Counted

(* The alarm the kernel sets is the one it believes in, and a clamp while   *)
(* it has work is set in good time.                                         *)
LEMMA SetAlarmCounted ==
  ASSUME ClockInv, Counted(host, mem), NEW d \in Delays, SetAlarm(d)
  PROVE  Counted(host', mem')
<1>1. Image(host, mem) /\ d \in Nat \ {0}
  BY HostRunAssumption DEF ClockInv
<1>2. /\ host' = [host EXCEPT !.alarm = host.now + d, !.clamp = d >= CLAMP]
      /\ mem' = [mem EXCEPT !.armed = host.now + d, !.far = d >= CLAMP, !.lag = Lagging]
      /\ mem.armed = None \/ mem.far
      /\ d >= CLAMP => mem.work = 0 \/ Lagging < QUIESCENT_ROUNDS
  BY DEF SetAlarm, set_alarm_ns
<1>3. host.now \in Nat /\ CLAMP \in Nat /\ host \in Hosts /\ mem \in Mems
  BY <1>1, ImageParts
<1>4. /\ host'.alarm = host.now + d /\ host'.clamp = (d >= CLAMP) /\ host'.now = host.now
      /\ host'.quiet = host.quiet
      /\ mem'.armed = host.now + d /\ mem'.far = (d >= CLAMP) /\ mem'.lag = Lagging
      /\ mem'.work = mem.work /\ mem'.pend = mem.pend /\ mem'.enabled = mem.enabled
  BY <1>2, <1>3 DEF Hosts, Mems
<1>5. host.quiet <= Lagging
  <2>1. /\ host.quiet \in Nat /\ mem.lag \in Nat /\ mem.lag <= QUIESCENT_ROUNDS
        /\ QUIESCENT_ROUNDS \in Nat /\ (host.alarm = None \/ host.alarm \in Nat)
    BY <1>1, ImageParts
  <2>2. CASE host.alarm # None \/ mem.armed = None
    BY <2>1, <2>2 DEF Counted, Lagging
  <2>3. CASE host.alarm = None /\ mem.armed # None
    <3>1. mem.far /\ "TIMER" \in mem.pend
      BY <1>1, <1>2, <2>3 DEF Image, AlarmAgrees
    <3>. QED
      BY <2>1, <2>3, <3>1 DEF Counted, Lagging, Noticed
  <2>. QED
    BY <2>2, <2>3
<1>6. host.now + d > host.now /\ (d >= CLAMP => host.now + d >= CLAMP) /\ host.now + d # None
  BY <1>1, <1>3 DEF None
<1>7. "TIMER" \in mem.enabled
  BY DEF Counted
<1>. QED
  BY <1>2, <1>4, <1>5, <1>6, <1>7 DEF Counted

(* A spinning thread does not pass its alarm.                               *)
LEMMA TickCounted ==
  ASSUME ClockInv, Counted(host, mem), safepoint_tick, pc' # "over"
  PROVE  Counted(host', mem')
<1> DEFINE t == host.now + 1
<1>1. Image(host, mem)
  BY DEF ClockInv
<1>2. /\ host.now \in Nat /\ host \in Hosts /\ mem \in Mems
      /\ (host.alarm = None \/ host.alarm \in Nat) /\ None = -1
      /\ mem.lag \in Nat /\ (mem.armed = None \/ mem.armed \in Nat)
      /\ QUIESCENT_ROUNDS \in Nat
  BY <1>1, ImageParts
<1>3. t <= deadlineNs
  <2>1. deadlineNs \in Int
    BY HostRunAssumption DEF deadlineNs, ClockInv
  <2>. QED
    BY <1>2, <2>1 DEF safepoint_tick
<1>4. CASE host.alarm # None /\ t >= host.alarm
  <2>1. /\ host' = [host EXCEPT !.now = t, !.alarm = None, !.quiet = 0]
        /\ mem' = [mem EXCEPT !.pend = @ \cup {"TIMER"}]
    BY <1>3, <1>4 DEF safepoint_tick
  <2>2. /\ host'.alarm = None /\ host'.quiet = 0 /\ mem'.enabled = mem.enabled
        /\ mem'.armed = mem.armed /\ mem'.far = mem.far /\ mem'.lag = mem.lag
    BY <1>2, <2>1 DEF Hosts, Mems
  <2>. QED
    BY <1>2, <2>2 DEF Counted, Noticed
<1>5. CASE ~ (host.alarm # None /\ t >= host.alarm)
  <2>1. host' = [host EXCEPT !.now = t] /\ mem' = mem
    BY <1>5 DEF safepoint_tick
  <2>2. /\ host'.alarm = host.alarm /\ host'.quiet = host.quiet /\ host'.clamp = host.clamp
        /\ host'.now = t
    BY <1>2, <2>1 DEF Hosts
  <2>3. host.alarm # None => host.alarm > t
    BY <1>2, <1>5
  <2>. QED
    BY <2>1, <2>2, <2>3 DEF Counted, Noticed
<1>. QED
  BY <1>4, <1>5

(* The kernel notices the clamp it was woken by.                            *)
LEMMA TimerIsrCounted ==
  ASSUME ClockInv, Counted(host, mem), TimerIsr
  PROVE  Counted(host', mem')
<1>1. Image(host, mem) /\ host' = host /\ "TIMER" \in mem.pend
  BY DEF ClockInv, TimerIsr, Takes
<1>2. /\ host.now \in Nat /\ mem \in Mems /\ None = -1 /\ host.quiet \in Nat
      /\ (host.alarm = None \/ host.alarm \in Nat)
      /\ mem.lag \in Nat /\ (mem.armed = None \/ mem.armed \in Nat)
      /\ QUIESCENT_ROUNDS \in Nat
  BY <1>1, ImageParts
<1>3. CASE mem.armed \in 0..host.now
  <2>1. mem' = [mem EXCEPT !.pend = @ \ {"TIMER"}, !.armed = None,
                           !.work = IF mem.far THEN @ ELSE @ - 1,
                           !.lag = IF mem.far THEN Lagging ELSE 0]
    BY <1>3 DEF TimerIsr
  <2>2. /\ mem'.armed = None /\ mem'.lag = (IF mem.far THEN Lagging ELSE 0)
        /\ mem'.enabled = mem.enabled
    BY <1>2, <2>1 DEF Mems
  <2>3. host.alarm = None
    BY <1>1, <1>2, <1>3 DEF Counted
  <2>4. host.quiet <= IF mem.far THEN Noticed(mem) ELSE 0
    BY <1>2, <1>3, <2>3 DEF Counted
  <2>5. mem.far => Lagging = Noticed(mem)
    BY <1>1 DEF Lagging, Noticed
  <2>. QED
    BY <1>1, <2>2, <2>3, <2>4, <2>5 DEF Counted
<1>4. CASE ~ (mem.armed \in 0..host.now)
  <2>1. mem' = [mem EXCEPT !.pend = @ \ {"TIMER"}]
    BY <1>4 DEF TimerIsr
  <2>2. /\ mem'.armed = mem.armed /\ mem'.lag = mem.lag /\ mem'.far = mem.far
        /\ mem'.enabled = mem.enabled /\ mem'.work = mem.work /\ "TIMER" \notin mem'.pend
    BY <1>2, <2>1 DEF Mems
  <2>. QED
    BY <1>1, <2>2, CountedKept DEF Counted
<1>. QED
  BY <1>3, <1>4

(* The alarm comes to a kernel that has heard of the last one.              *)
LEMMA AlarmCounted ==
  ASSUME ClockInv, Counted(host, mem), AlarmComes
  PROVE  Counted(host', mem')
<1>1. /\ host' = [host EXCEPT !.quiet = Rounds, !.now = Larger(host.alarm, host.now),
                              !.alarm = None]
      /\ mem' = [mem EXCEPT !.pend = @ \cup {"TIMER"}]
      /\ host.alarm # None /\ ~TooQuiet /\ Image(host, mem)
  BY DEF AlarmComes, NothingLeft, ClockInv
<1>2. /\ host \in Hosts /\ mem \in Mems /\ None = -1 /\ host.quiet \in Nat
      /\ mem.lag \in Nat /\ mem.lag <= QUIESCENT_ROUNDS /\ QUIESCENT_ROUNDS \in Nat
      /\ host.clamp \in BOOLEAN /\ mem.far \in BOOLEAN
  BY <1>1, ImageParts
<1>3. /\ host'.alarm = None /\ host'.quiet = Rounds
      /\ mem'.armed = mem.armed /\ mem'.lag = mem.lag /\ mem'.far = mem.far
      /\ mem'.enabled = mem.enabled
  BY <1>1, <1>2 DEF Hosts, Mems
<1>4. mem.armed = host.alarm /\ (host.clamp <=> mem.far) /\ host.quiet <= mem.lag
      /\ "TIMER" \in mem.enabled
  BY <1>1 DEF Counted
<1>5. Rounds <= IF mem.far THEN Noticed(mem) ELSE 0
  <2>1. Rounds <= QUIESCENT_ROUNDS
    BY <1>1, <1>2 DEF TooQuiet, Rounds
  <2>. QED
    BY <1>2, <1>4, <2>1 DEF Rounds, Noticed
<1>. QED
  BY <1>1, <1>3, <1>4, <1>5 DEF Counted, Noticed

(* What arrives leaves the alarm and the count alone.                       *)
LEMMA ArrivesCounted ==
  ASSUME NEW line \in Devices, NEW h \in Hosts, Arrives(line, h)
  PROVE  host'.alarm = h.alarm /\ host'.clamp = h.clamp /\ host'.quiet = h.quiet
         /\ host'.now = h.now
<1>1. CASE line = "INPUT"
  BY <1>1 DEF Arrives, pushInput, Hosts
<1>2. CASE line = "SENSOR"
  BY <1>2 DEF Arrives, pushSensor, Hosts
<1>3. CASE line = "GPIO"
  BY <1>3 DEF Arrives, setGpioInput, Hosts
<1>. QED
  BY <1>1, <1>2, <1>3 DEF Devices

(* The script's next event comes before the alarm.                          *)
LEMMA ScriptedCounted ==
  ASSUME ClockInv, ScriptInv, Counted(host, mem), ScriptedEvent, ~Wakes, ~interactive
  PROVE  Counted(host', mem') /\ ScriptInv'
<1> DEFINE E == [at : 0..CLAMP, line : Devices]
<1> DEFINE h == [host EXCEPT !.now = Larger(script[1].at, host.now), !.quiet = 0]
<1>1. /\ script # <<>> /\ script' = Tail(script) /\ mem' = mem /\ Arrives(script[1].line, h)
      /\ Image(host, mem)
  BY DEF ScriptedEvent, ScriptedNext, ClockInv
<1>2. script[1] \in E /\ script' \in Seq(E)
  <2>1. script \in Seq(E)
    BY DEF ScriptInv
  <2> HIDE DEF E
  <2>. QED
    BY <1>1, <2>1
<1>3. /\ host \in Hosts /\ host.now \in Nat /\ CLAMP \in Nat
      /\ QUIESCENT_ROUNDS \in Nat /\ mem.lag \in Nat
  BY <1>1, ImageParts
<1>4. script[1].line \in Devices /\ script[1].at \in Nat
  BY <1>2, <1>3
<1>5. Larger(script[1].at, host.now) \in Nat /\ 0 \in 0..(QUIESCENT_ROUNDS + 1)
  BY <1>3, <1>4 DEF Larger
<1>6. h \in Hosts /\ h.alarm = host.alarm /\ h.clamp = host.clamp /\ h.quiet = 0
  BY <1>3, <1>5 DEF Hosts
<1> HIDE DEF h
<1>7. host'.alarm = host.alarm /\ host'.clamp = host.clamp /\ host'.quiet = 0
  BY <1>1, <1>4, <1>6, ArrivesCounted
<1>8. "TIMER" \notin mem.pend
  BY DEF Wakes, Counted
<1>9. Counted(host', mem')
  BY <1>1, <1>3, <1>7, <1>8 DEF Counted, Noticed
<1>. QED
  BY <1>2, <1>9 DEF ScriptInv

(* Every operation of the guest keeps the count.                            *)
LEMMA GuestCounted ==
  ASSUME ClockInv, Counted(host, mem), pc' # "over",
         \/ irq_enable \/ InputIsr \/ SensorIsr \/ GpioIsr \/ TimerIsr
         \/ safepoint_tick \/ \E d \in Delays : SetAlarm(d)
  PROVE  Counted(host', mem') /\ history' = history
<1>1. host \in Hosts /\ mem \in Mems
  BY DEF ClockInv, Image
<1>2. CASE irq_enable
  <2>1. host' = host /\ mem' = [mem EXCEPT !.enabled = @ \cup Devices] /\ history' = history
    BY <1>2 DEF irq_enable, InGuest
  <2>2. /\ mem'.enabled = mem.enabled \cup Devices /\ mem'.armed = mem.armed
        /\ mem'.far = mem.far /\ mem'.lag = mem.lag /\ mem'.work = mem.work
        /\ mem'.pend = mem.pend
    BY <1>1, <2>1 DEF Mems
  <2>3. "TIMER" \in mem'.enabled
    BY <2>2 DEF Counted
  <2>. QED
    BY <2>1, <2>2, <2>3, CountedKept
<1>3. CASE InputIsr
  <2>1. /\ mem' = [mem EXCEPT !.pend = @ \ {"INPUT"}] /\ history' = history
        /\ host' = host \/ host' = [host EXCEPT !.latched = input_poll]
    BY <1>3 DEF InputIsr, Takes, InGuest
  <2>2. /\ mem'.enabled = mem.enabled /\ mem'.armed = mem.armed /\ mem'.far = mem.far
        /\ mem'.lag = mem.lag /\ mem'.work = mem.work /\ mem'.pend \subseteq mem.pend
    BY <1>1, <2>1 DEF Mems
  <2>3. /\ host'.alarm = host.alarm /\ host'.clamp = host.clamp /\ host'.quiet = host.quiet
        /\ host'.now = host.now
    BY <1>1, <2>1 DEF Hosts
  <2>4. "TIMER" \in mem'.enabled
    BY <2>2 DEF Counted
  <2>. QED
    BY <2>1, <2>2, <2>3, <2>4, CountedKept
<1>4. CASE SensorIsr \/ GpioIsr
  <2>1. /\ host' = host /\ history' = history
        /\ \E x \in Devices : mem' = [mem EXCEPT !.pend = @ \ {x}]
    BY <1>4 DEF SensorIsr, GpioIsr, Takes, InGuest, Devices
  <2>2. /\ mem'.enabled = mem.enabled /\ mem'.armed = mem.armed /\ mem'.far = mem.far
        /\ mem'.lag = mem.lag /\ mem'.work = mem.work /\ mem'.pend \subseteq mem.pend
    BY <1>1, <2>1 DEF Mems
  <2>. QED
    BY <2>1, <2>2, CountedKept DEF Counted
<1>5. CASE TimerIsr
  BY <1>5, TimerIsrCounted DEF TimerIsr, Takes, InGuest
<1>6. CASE safepoint_tick
  BY <1>6, TickCounted DEF safepoint_tick, InGuest
<1>7. CASE \E d \in Delays : SetAlarm(d)
  BY <1>7, SetAlarmCounted DEF SetAlarm, InGuest
<1>. QED
  BY <1>2, <1>3, <1>4, <1>5, <1>6, <1>7

(* What is raised from outside is not the timer.                            *)
LEMMA RaisedCounted ==
  ASSUME Image(host, mem), Counted(host, mem)
  PROVE  Counted(Raised.host, Raised.mem)
<1>1. host \in Hosts /\ mem \in Mems
  BY DEF Image
<1>2. /\ Raised.host.now = host.now /\ Raised.host.alarm = host.alarm
      /\ Raised.host.clamp = host.clamp /\ Raised.host.quiet = host.quiet
      /\ Raised.mem.pend = mem.pend \cup (host.latched \cap mem.enabled)
      /\ Raised.mem.armed = mem.armed /\ Raised.mem.far = mem.far
      /\ Raised.mem.work = mem.work /\ Raised.mem.lag = mem.lag
      /\ Raised.mem.enabled = mem.enabled
  BY <1>1 DEF Raised, Hosts, Mems
<1>3. "TIMER" \notin host.latched
  BY <1>1 DEF Hosts, Devices
<1>4. "TIMER" \in Raised.mem.enabled /\ ("TIMER" \in Raised.mem.pend => "TIMER" \in mem.pend)
  BY <1>2, <1>3 DEF Counted
<1>. QED
  BY <1>2, <1>4, CountedKept

(* A snapshot remembers the present, and drops at most the oldest.          *)
LEMMA RememberedCounted ==
  ASSUME ClockInv, Counted(host, mem),
         \A i \in 1..Len(history) : Counted(history[i].host, history[i].mem)
  PROVE  \A i \in 1..Len(Remember(history)) :
           Counted(Remember(history)[i].host, Remember(history)[i].mem)
<1> DEFINE all == Append(history, snapshot)
<1>1. HistoryInv /\ Image(host, mem) /\ reboots \in Nat
  BY DEF ClockInv
<1>2. snapshot \in Snapshots /\ snapshot.host = host /\ snapshot.mem = mem
  BY <1>1 DEF snapshot, Snapshots, Image
<1>3. history \in Seq(Snapshots)
  BY <1>1 DEF HistoryInv
<1>4. /\ all \in Seq(Snapshots) /\ all # <<>> /\ Len(all) = Len(history) + 1
      /\ \A i \in 1..Len(history) : all[i] = history[i]
      /\ all[Len(history) + 1] = snapshot
  BY <1>2, <1>3, AppendProperties
<1>5. Remember(history) = IF Len(all) > historyMax THEN Tail(all) ELSE all
  BY DEF Remember
<1> HIDE DEF all
<1>6. \A i \in 1..Len(all) : Counted(all[i].host, all[i].mem)
  <2>. SUFFICES ASSUME NEW i \in 1..Len(all) PROVE Counted(all[i].host, all[i].mem)
    OBVIOUS
  <2>1. CASE i \in 1..Len(history)
    BY <1>4, <2>1, Zenon
  <2>2. CASE i = Len(history) + 1
    BY <1>2, <1>4, <2>2
  <2>. QED
    BY <1>3, <1>4, <2>1, <2>2
<1>7. /\ Tail(all) \in Seq(Snapshots) /\ Len(Tail(all)) = Len(all) - 1
      /\ \A i \in 1..Len(Tail(all)) : Tail(all)[i] = all[i + 1]
  BY <1>4, HeadTailProperties, Zenon
<1>8. \A i \in 1..Len(Tail(all)) : i + 1 \in 1..Len(all)
  BY <1>4, <1>7
<1>9. \A i \in 1..Len(Tail(all)) : Counted(Tail(all)[i].host, Tail(all)[i].mem)
  BY <1>6, <1>7, <1>8, Zenon
<1>. QED
  BY <1>5, <1>6, <1>9, Zenon

(* A script that is played loses its first event only.                      *)
LEMMA ScriptStep ==
  ASSUME ClockInv, ScriptInv, [RunNext]_runVars
  PROVE  ScriptInv' /\ interactive' = interactive
<1> DEFINE E == [at : 0..CLAMP, line : Devices]
<1>1. script \in Seq(E)
  BY DEF ScriptInv
<1>2. script' = script \/ (script # <<>> /\ script' = Tail(script))
  BY DEF RunNext, runVars, queueVars, Push, pause, resume, stepOnce, stepBack, runStep,
         safepoint_tick, irq_enable, switch_to, wait_for_event, reboot, SetAlarm, TimerIsr,
         InputIsr, SensorIsr, GpioIsr, Takes, InGuest, Suspends, ScriptedEvent, ScriptedNext,
         AlarmComes, StandsStill
<1>3. interactive' = interactive
  BY DEF RunNext, runVars, Push, pause, resume, stepOnce, stepBack, runStep,
         safepoint_tick, irq_enable, switch_to, wait_for_event, reboot, SetAlarm, TimerIsr,
         InputIsr, SensorIsr, GpioIsr, Takes, InGuest, Suspends
<1> HIDE DEF E
<1>4. script' \in Seq(E)
  BY <1>1, <1>2
<1>. QED
  BY <1>3, <1>4 DEF ScriptInv, E

(* The count is kept by every step that does not end the run.               *)
LEMMA CountStep ==
  ASSUME ClockInv, ScriptInv, CountInv, RunNext
  PROVE  CountInv'
<1>. SUFFICES ASSUME ~interactive, pc' # "over"
              PROVE  /\ Counted(host', mem')
                     /\ \A i \in 1..Len(history') : Counted(history'[i].host, history'[i].mem)
  BY ScriptStep DEF CountInv
<1>1. pc # "over"
  BY DEF RunNext, Push, pause, resume, stepOnce, stepBack, runStep,
         safepoint_tick, irq_enable, switch_to, wait_for_event, reboot, SetAlarm, TimerIsr,
         InputIsr, SensorIsr, GpioIsr, Takes, InGuest, Suspends
<1>2. /\ Counted(host, mem) /\ Image(host, mem)
      /\ \A i \in 1..Len(history) : Counted(history[i].host, history[i].mem)
  BY <1>1 DEF CountInv, ClockInv
<1>3. CASE history' = history /\ Counted(host', mem')
  BY <1>2, <1>3
<1>4. CASE UNCHANGED <<host, mem, history>>
  BY <1>2, <1>4
<1>5. ASSUME NEW line \in Devices, Push(line)
      PROVE  history' = history /\ Counted(host', mem')
  <2>1. Arrives(line, host) /\ mem' = mem /\ history' = history /\ host \in Hosts
    BY <1>2, <1>5 DEF Push, Image
  <2>2. host'.alarm = host.alarm /\ host'.clamp = host.clamp /\ host'.quiet = host.quiet
        /\ host'.now = host.now
    BY <2>1, ArrivesCounted
  <2>. QED
    BY <1>2, <2>1, <2>2, CountedKept DEF Counted
<1>6. CASE pause \/ resume \/ stepOnce \/ switch_to
  BY <1>4, <1>6 DEF pause, resume, stepOnce, switch_to, Suspends
<1>7. CASE stepBack
  <2>1. /\ host' = history[Len(history)].host /\ mem' = history[Len(history)].mem
        /\ history # <<>> /\ history' = SubSeq(history, 1, Len(history) - 1)
    BY <1>7 DEF stepBack, restore
  <2>2. history \in Seq(Snapshots)
    BY DEF ClockInv, HistoryInv
  <2>3. Len(history) \in 1..Len(history)
    BY <2>1, <2>2
  <2>4. \A i \in 1..Len(history') : history'[i] = history[i] /\ i \in 1..Len(history)
    <3> DEFINE n == Len(history) - 1
    <3>1. n \in Nat /\ n < Len(history) /\ \A i \in 1..n : history[i] \in Snapshots
      BY <2>2, <2>3
    <3>2. /\ Len(SubSeq(history, 1, n)) = IF 1 <= n THEN n - 1 + 1 ELSE 0
          /\ \A i \in 1..(n - 1 + 1) : SubSeq(history, 1, n)[i] = history[1 + i - 1]
      BY <3>1, SubSeqProperties
    <3>3. history' = SubSeq(history, 1, n)
      BY <2>1
    <3> HIDE DEF n
    <3>. QED
      BY <3>1, <3>2, <3>3
  <2>. QED
    BY <1>2, <2>1, <2>3, <2>4
<1>8. CASE runStep
  <2>1. host' = Raised.host /\ mem' = Raised.mem
        /\ (history' = history \/ history' = Remember(history))
    BY <1>8 DEF runStep
  <2>. QED
    BY <1>2, <2>1, RaisedCounted, RememberedCounted
<1>9. CASE \/ irq_enable \/ InputIsr \/ SensorIsr \/ GpioIsr \/ TimerIsr
           \/ safepoint_tick \/ \E d \in Delays : SetAlarm(d)
  BY <1>2, <1>3, <1>9, GuestCounted
<1>10. CASE wait_for_event
  <2>1. history' = history
    BY <1>10 DEF wait_for_event, Suspends
  <2>2. CASE UNCHANGED <<host, mem, queueVars>>
    BY <1>4, <2>1, <2>2
  <2>3. CASE ~Wakes /\ ScriptedEvent
    BY <1>2, <1>3, <2>1, <2>3, ScriptedCounted
  <2>4. CASE AlarmComes
    BY <1>2, <1>3, <2>1, <2>4, AlarmCounted
  <2>. QED
    BY <1>10, <2>2, <2>3, <2>4 DEF wait_for_event
<1>11. CASE reboot
  <2>1. /\ history' = <<>> /\ mem' = boot
        /\ host' = [host EXCEPT !.now = 0, !.alarm = None, !.clamp = FALSE, !.quiet = 0]
    BY <1>11 DEF reboot, resetForReboot
  <2>2. host'.alarm = None /\ host'.quiet = 0
    BY <1>2, <2>1 DEF Image, Hosts
  <2>3. Counted(host', boot)
    BY <2>2, BootCounted
  <2>. QED
    BY <2>1, <2>3
<1>. QED
  BY <1>3, <1>5, <1>6, <1>7, <1>8, <1>9, <1>10, <1>11 DEF RunNext

(* A run that stands still has played its script, and the kernel has        *)
(* programmed all it had to.                                                *)
LEMMA NothingIsLeft ==
  ASSUME ClockInv, ScriptInv, Counted(host, mem), ~interactive, ~Wakes, NothingLeft,
         mem.armed # None \/ mem.work = 0
  PROVE  script = <<>> /\ mem.work = 0
<1>1. /\ host.now \in Nat /\ (host.alarm = None \/ host.alarm \in Nat) /\ host.quiet \in Nat
      /\ mem.lag \in Nat /\ mem.lag <= QUIESCENT_ROUNDS /\ mem.work \in Nat
      /\ QUIESCENT_ROUNDS \in Nat \ {0} /\ CLAMP \in Nat \ {0} /\ None = -1
  BY ImageParts DEF ClockInv
<1>2. "TIMER" \notin mem.pend
  BY DEF Wakes, Counted
<1>3. CASE host.alarm = None
  <2>1. script = <<>>
    BY <1>3 DEF NothingLeft, ScriptedNext
  <2>2. mem.armed = None
    BY <1>2, <1>3 DEF ClockInv, Image, AlarmAgrees
  <2>. QED
    BY <2>1, <2>2
<1>4. CASE host.alarm # None
  <2>1. Rounds > QUIESCENT_ROUNDS
    BY <1>4 DEF NothingLeft, TooQuiet
  <2>2. host.clamp /\ host.quiet + 1 > QUIESCENT_ROUNDS
    BY <1>1, <2>1 DEF Rounds
  <2>3. mem.far /\ host.quiet <= mem.lag /\ host.alarm >= CLAMP
        /\ (mem.work = 0 \/ mem.lag < QUIESCENT_ROUNDS)
    BY <1>4, <2>2 DEF Counted
  <2>4. mem.work = 0
    BY <1>1, <2>2, <2>3
  <2>5. script = <<>>
    <3>. SUFFICES ASSUME script # <<>> PROVE FALSE
      OBVIOUS
    <3> DEFINE E == [at : 0..CLAMP, line : Devices]
    <3>1. script \in Seq(E)
      BY DEF ScriptInv
    <3>2. script[1] \in E
      <4> HIDE DEF E
      <4>. QED
        BY <3>1
    <3>3. script[1].at <= host.alarm
      BY <1>1, <1>4, <2>3, <3>2
    <3>. QED
      BY <3>3 DEF NothingLeft, ScriptedNext
  <2>. QED
    BY <2>4, <2>5
<1>. QED
  BY <1>3, <1>4

(* A run ends on its allowance, on a reboot too many, or with nothing left. *)
LEMMA EndStep ==
  ASSUME ClockInv, ScriptInv, CountInv, RunNext
  PROVE  EndsWithNothingToDo'
<1>. SUFFICES ASSUME pc' = "over", host'.now <= deadlineNs', reboots' <= maxReboots
              PROVE  script' = <<>> /\ mem'.work = 0
  BY DEF EndsWithNothingToDo
<1>1. host \in Hosts /\ mem \in Mems /\ pc \in {"between", "guest", "over"}
      /\ deadlineNs \in Int /\ host.now \in Nat /\ reboots \in Nat /\ maxReboots \in Nat
  BY HostRunAssumption DEF ClockInv, Image, deadlineNs, Hosts
<1>2. runStep \/ safepoint_tick \/ wait_for_event \/ reboot
  BY DEF RunNext, Push, pause, resume, stepOnce, stepBack, irq_enable, switch_to, SetAlarm,
         TimerIsr, InputIsr, SensorIsr, GpioIsr, Takes, InGuest, Suspends
<1>3. ~runStep
  <2>. SUFFICES ASSUME runStep PROVE FALSE
    OBVIOUS
  <2>1. host.now > deadlineNs /\ host' = host /\ epoch' = epoch
    BY DEF runStep
  <2>. QED
    BY <1>1, <2>1 DEF deadlineNs
<1>4. ~safepoint_tick
  <2>. SUFFICES ASSUME safepoint_tick PROVE FALSE
    OBVIOUS
  <2>1. host.now + 1 > deadlineNs /\ epoch' = epoch
    BY DEF safepoint_tick, InGuest
  <2>2. host'.now = host.now + 1
    BY <1>1 DEF safepoint_tick, Hosts
  <2>. QED
    BY <1>1, <2>1, <2>2 DEF deadlineNs
<1>5. ~reboot
  BY <1>1 DEF reboot
<1>6. wait_for_event
  BY <1>2, <1>3, <1>4, <1>5
<1>7. /\ ~interactive /\ ~Wakes /\ StandsStill /\ pc = "guest"
      /\ mem.armed # None \/ mem.work = 0
  BY <1>6 DEF wait_for_event, Suspends
<1>8. NothingLeft /\ mem' = mem /\ script' = script
  BY <1>7 DEF StandsStill, queueVars
<1>9. Counted(host, mem)
  BY <1>7 DEF CountInv
<1>. QED
  BY <1>7, <1>8, <1>9, NothingIsLeft

(* A script within the first clamp, and a run that has not counted yet.     *)
LEMMA CountAlways ==
  ASSUME \A i \in DOMAIN Script : Script[i].at <= CLAMP
  PROVE  RunSpec => [](ClockInv /\ ScriptInv /\ CountInv /\ EndsWithNothingToDo)
<1>1. RunInit => ClockInv /\ ScriptInv /\ CountInv /\ EndsWithNothingToDo
  <2>. SUFFICES ASSUME RunInit PROVE ScriptInv /\ CountInv /\ EndsWithNothingToDo
    BY InitClock
  <2> DEFINE E == [at : 0..CLAMP, line : Devices]
  <2>1. Script \in Seq(E)
    <3>1. Script \in Seq([at : Nat, line : Devices]) /\ CLAMP \in Nat
      BY HostRunAssumption
    <3>2. \A i \in 1..Len(Script) : Script[i] \in [at : Nat, line : Devices]
      <4> DEFINE F == [at : Nat, line : Devices]
      <4>1. Script \in Seq(F)
        BY <3>1
      <4> HIDE DEF F
      <4>2. \A i \in 1..Len(Script) : Script[i] \in F
        BY <4>1, ElementOfSeq
      <4>. QED
        BY <4>2 DEF F
    <3>3. DOMAIN Script = 1..Len(Script) /\ Len(Script) \in Nat
      BY <3>1
    <3>4. \A i \in 1..Len(Script) : Script[i] \in E
      BY <3>1, <3>2, <3>3
    <3>5. Script = [i \in 1..Len(Script) |-> Script[i]]
      BY <3>1
    <3> HIDE DEF E
    <3>. QED
      BY <3>3, <3>4, <3>5, SeqDef
  <2>2. script = <<>> \/ script = Script
    BY DEF RunInit
  <2>3. ScriptInv
    <3>1. <<>> \in Seq(E)
      OBVIOUS
    <3>. QED
      BY <2>1, <2>2, <3>1, Zenon DEF ScriptInv
  <2>4. host.alarm = None /\ host.quiet = 0 /\ mem = boot /\ history = <<>> /\ pc = "between"
    BY DEF RunInit
  <2>5. Counted(host, boot)
    BY <2>4, BootCounted
  <2>. QED
    BY <2>3, <2>4, <2>5 DEF CountInv, EndsWithNothingToDo
<1>2. ClockInv /\ ScriptInv /\ CountInv /\ EndsWithNothingToDo /\ [RunNext]_runVars
        => (ClockInv /\ ScriptInv /\ CountInv /\ EndsWithNothingToDo)'
  <2>. SUFFICES ASSUME ClockInv, ScriptInv, CountInv, EndsWithNothingToDo, [RunNext]_runVars
                PROVE  ScriptInv' /\ CountInv' /\ EndsWithNothingToDo'
    BY ClockStep
  <2>1. ScriptInv'
    BY ScriptStep
  <2>2. CASE UNCHANGED runVars
    <3>1. UNCHANGED <<interactive, host, mem, script, epoch, history, reboots, pc>>
      BY <2>2 DEF runVars, queueVars
    <3>. QED
      BY <2>1, <3>1 DEF CountInv, EndsWithNothingToDo, deadlineNs
  <2>3. CASE RunNext
    BY <2>1, <2>3, CountStep, EndStep
  <2>. QED
    BY <2>2, <2>3
<1>. QED
  BY <1>1, <1>2, PTL DEF RunSpec

-----------------------------------------------------------------------------
(* set_alarm_ns(), advanceToNextDeadline(), restore() and resetForReboot(): *)
(* whatever the page steps back over, the host holds the alarm the kernel   *)
(* believes in, or has raised its line.                                     *)
THEOREM AlarmAlwaysTheKernels == RunSpec => []AlarmIsTheKernels
  BY ClockAlways, ClockProperties, PTL

(* resetForReboot() and stepBack(): memory of one instance is never written *)
(* into another.                                                            *)
THEOREM HistoryAlwaysOfThisBoot == RunSpec => []HistoryIsOfThisBoot
  BY ClockAlways, ClockProperties, PTL

(* pushInput(), pushSensor(), input_poll() and runStep(): what is queued    *)
(* for a driver is announced to it, however samples and pushes interleave.  *)
THEOREM QueuedAlwaysAnnounced == RunSpec => []QueuedIsAnnounced
  BY ClockAlways, ClockProperties, PTL

(* runStep() and safepoint_tick(): all boots of a run together stay within  *)
(* maxTimeMs.                                                               *)
THEOREM GuestAlwaysWithinAllowance == RunSpec => []GuestWithinAllowance
  BY ClockAlways, ClockProperties, PTL

(* The host's fields keep their ranges, and the history its limit.          *)
THEOREM RunTypesAlways == RunSpec => []RunTypeOK
  BY ClockAlways, ClockProperties, PTL

(* advanceToNextDeadline(): a run that ends by itself has played its script *)
(* and let the kernel program every timeout, when no event of the script is *)
(* later than the first clamp.  Clamps that follow each other without the   *)
(* kernel having anything else end the run, events after them unplayed; the *)
(* command line's script and runs stay far below CLAMP_NS.                  *)
THEOREM EndsAfterAll ==
  ASSUME \A i \in DOMAIN Script : Script[i].at <= CLAMP
  PROVE  RunSpec => []EndsWithNothingToDo
  BY CountAlways, PTL

-----------------------------------------------------------------------------
(* The pacing of a board: how far its clock has gone beyond the wall's      *)
(* since the anchor.                                                        *)
Lead == nowNs - pace.guest - (wall - pace.wall)

PaceTypes ==
  /\ nowNs \in Nat /\ wall \in Nat /\ lastNow \in Nat
  /\ pace \in [guest : Nat, wall : Nat]
  /\ idleWait \in 0..PACE_IDLE
  /\ at \in {"top", "pacing", "waits"}

(* A step back goes back.                                                   *)
PastIsEarlier == past = <<>> \/ (past[1] \in Nat /\ past[1] <= nowNs)

(* Only an idle step asks for a sleep, and only once.                       *)
SleptOut == at # "pacing" => idleWait = 0

(* Between steps the guest is not ahead; nor is it far behind, but after a  *)
(* step back or on the boot path, where nothing follows the wall's clock.   *)
LeadBounded ==
  at # "pacing" =>
    /\ Lead <= 0
    /\ ~rewound /\ ~fresh => -(PACE_BEHIND + PACE_IDLE) <= Lead

PaceInv == PaceTypes /\ PastIsEarlier /\ SleptOut /\ LeadBounded

(* The named assumption, as arithmetic.                                     *)
LEMMA PaceBounds ==
  PACE_MAX \in Nat /\ PACE_BEHIND \in Nat /\ PACE_IDLE \in Nat /\ MaxStep \in Nat /\ MaxAhead \in Nat
  BY HostPaceAssumption

(* At the start the two clocks are lined up.                                *)
LEMMA PaceInitially == PaceInit => PaceInv
<1>. SUFFICES ASSUME PaceInit PROVE PaceInv
  OBVIOUS
<1>1. pace = [guest |-> 0, wall |-> 0] /\ Lead = 0
  BY DEF PaceInit, reanchor, Lead
<1>2. PaceTypes
  BY <1>1, PaceBounds DEF PaceInit, PaceTypes
<1>. QED
  BY <1>1, <1>2, PaceBounds DEF PaceInit, PaceInv, PastIsEarlier, SleptOut, LeadBounded

(* Pacing brings the lead back below zero and lets go of a guest that is    *)
(* far behind; everything else keeps the lead or starts a step.             *)
LEMMA PaceKept == PaceInv /\ [PaceNext]_paceVars => PaceInv'
<1>. SUFFICES ASSUME PaceInv, [PaceNext]_paceVars PROVE PaceInv'
  OBVIOUS
<1>. USE PaceBounds
<1>. USE DEF PaceInv, PaceTypes, PastIsEarlier, SleptOut, LeadBounded, Lead, Times
<1>1. CASE PagePause
  BY <1>1 DEF PagePause
<1>2. CASE PageStep
  BY <1>2 DEF PageStep
<1>3. CASE PageBack
  BY <1>3 DEF PageBack
<1>4. CASE Pacing
  <2>1. Anchor \in [guest : Nat, wall : Nat]
    BY DEF Anchor, reanchor
  <2>2. Ahead \in Int /\ Ahead = (Anchor.wall + (nowNs - Anchor.guest)) - wall
    BY <2>1 DEF Ahead
  <2>3. Waits \in Nat /\ (Ahead < 1 => Waits \in 0..PACE_IDLE) /\ (Ahead >= 1 => Waits = Ahead)
    BY <2>2 DEF Waits
  <2>4. pace' \in [guest : Nat, wall : Nat]
    BY <1>4, <2>1 DEF Pacing, NewAnchor, reanchor
  <2>5. pace' = NewAnchor /\ wall' = wall + Waits /\ nowNs' = nowNs /\ at # "waits" /\ at' = "waits"
        /\ idleWait' = 0
        /\ UNCHANGED <<live, past, fresh>> /\ lastNow' = nowNs
    BY <1>4 DEF Pacing
  <2>9. Lead' = nowNs - NewAnchor.guest - (wall + Waits - NewAnchor.wall)
    BY <2>3, <2>4, <2>5
  <2>6. CASE Ahead < -PACE_BEHIND
    <3>1. NewAnchor.guest = nowNs /\ NewAnchor.wall = wall
      BY <2>6 DEF NewAnchor, reanchor
    <3>. QED  BY <1>4, <2>2, <2>3, <2>4, <2>5, <2>9, <2>6, <3>1
  <2>7. CASE ~(Ahead < -PACE_BEHIND)
    <3>1. NewAnchor = Anchor
      BY <2>7 DEF NewAnchor
    <3>. QED  <4>1. Lead' = Ahead - Waits
        BY <2>1, <2>2, <2>3, <2>9, <3>1
      <4>2. Lead' <= 0 /\ -(PACE_BEHIND + PACE_IDLE) <= Lead'
        BY <4>1, <2>2, <2>3, <2>7
      <4>3. PaceTypes' /\ SleptOut' /\ PastIsEarlier'
        BY <2>3, <2>4, <2>5
      <4>. QED  BY <4>2, <4>3
  <2>. QED  BY <2>6, <2>7
<1>5. CASE GoesOn
  BY <1>5 DEF GoesOn
<1>6. CASE \E w \in Times : Held(w)
  <2>. PICK w \in Times : Held(w)
    BY <1>6
  <2>1. wall' = wall + w /\ pace' = [guest |-> nowNs, wall |-> wall'] /\ rewound' = FALSE
        /\ UNCHANGED <<live, nowNs, lastNow, past, idleWait, fresh, at>>
    BY DEF Held, LetGo, reanchor
  <2>2. PaceTypes'
    BY <2>1
  <2>3. Lead' = 0
    BY <2>1, <2>2
  <2>. QED  BY <2>1, <2>2, <2>3
<1>7. CASE \E w \in Times : Reboots(w)
  BY <1>7 DEF Reboots, Begins
<1>8. CASE \E w, t \in Times : Works(w, t)
  <2>. PICK w \in Times, t \in Times : Works(w, t)
    BY <1>8
  <2>1. wall' = wall + w /\ nowNs' = nowNs + t /\ at = "top" /\ at' = "pacing" /\ fresh' = FALSE
        /\ UNCHANGED <<live, pace, rewound, lastNow, idleWait>>
    BY DEF Works, Begins
  <2>2. past' = <<nowNs>> \/ past' = past
    BY DEF Works, Remembers
  <2>3. PaceTypes' /\ SleptOut' /\ LeadBounded'
    BY <2>1
  <2>4. PastIsEarlier'
    BY <2>1, <2>2
  <2>. QED  BY <2>3, <2>4
<1>9. CASE \E w \in Times, d \in 0..MaxAhead : Idles(w, d)
  <2>. PICK w \in Times, d \in 0..MaxAhead : Idles(w, d)
    BY <1>9
  <2>1. wall' = wall + w /\ at = "top" /\ at' = "pacing"
        /\ UNCHANGED <<live, pace, rewound, lastNow, fresh>>
    BY DEF Idles, Begins
  <2>2. past' = <<nowNs>> \/ past' = past
    BY DEF Idles, Remembers
  <2>3. nowNs' \in Nat /\ nowNs <= nowNs'
    <3>1. byWall(wall') \in Int
      BY <2>1 DEF byWall
    <3>2. nowNs' = IF nowNs + d > byWall(wall') THEN Further(byWall(wall'), nowNs) ELSE nowNs + d
      BY DEF Idles
    <3>. QED  BY <3>1, <3>2 DEF Further
  <2>4. idleWait' \in 0..PACE_IDLE
    <3>1. CASE ~(nowNs + d > byWall(wall'))
      BY <3>1, <2>1 DEF Idles
    <3>2. CASE nowNs + d > byWall(wall')
      <4>1. byWall(wall') \in Int
        BY <2>1 DEF byWall
      <4>2. nowNs' <= nowNs + d
        BY <3>2, <4>1 DEF Idles, Further
      <4>. QED  BY <3>2, <4>2, <2>3 DEF Idles
    <3>. QED  BY <3>1, <3>2
  <2>5. PaceTypes' /\ SleptOut' /\ LeadBounded'
    BY <2>1, <2>3, <2>4
  <2>6. PastIsEarlier'
    BY <2>1, <2>2, <2>3
  <2>. QED  BY <2>5, <2>6
<1>10. CASE \E w \in Times, d \in 0..MaxAhead : Jumps(w, d)
  BY <1>10 DEF Jumps, Begins, Remembers
<1>11. CASE UNCHANGED paceVars
  BY <1>11 DEF paceVars
<1>. QED
  BY <1>1, <1>2, <1>3, <1>4, <1>5, <1>6, <1>7, <1>8, <1>9, <1>10, <1>11 DEF PaceNext

(* A step of the guest takes its own time, or as much as the wall's clock   *)
(* is ahead.                                                                *)
LEMMA StepsWithoutBurst ==
  PaceInv /\ [PaceNext]_paceVars
    => (at' = "pacing" /\ live /\ ~rewound /\ paceVars' # paceVars
          => nowNs' - nowNs <= PACE_BEHIND + PACE_IDLE + MaxStep)
<1>. SUFFICES ASSUME PaceInv, PaceNext, at' = "pacing", live, ~rewound
              PROVE  nowNs' - nowNs <= PACE_BEHIND + PACE_IDLE + MaxStep
  BY DEF paceVars
<1>. USE PaceBounds
<1>. USE DEF PaceInv, PaceTypes, Times
<1>1. CASE \E w, t \in Times : Works(w, t)
  BY <1>1 DEF Works, Begins
<1>2. CASE \E w \in Times, d \in 0..MaxAhead : Idles(w, d)
  BY <1>2 DEF Idles, Begins, byWall, Further, LeadBounded, Lead
<1>3. CASE PagePause \/ PageStep \/ Pacing \/ GoesOn \/ PageBack \/ \E w \in Times : Held(w) \/ Reboots(w)
  BY <1>3 DEF PagePause, PageStep, Pacing, GoesOn, PageBack, Held, Reboots, Begins
<1>4. CASE \E w \in Times, d \in 0..MaxAhead : Jumps(w, d)
  BY <1>4 DEF Jumps
<1>. QED  BY <1>1, <1>2, <1>3, <1>4 DEF PaceNext

(* Between steps a guest is not ahead.                                      *)
LEMMA NotAhead == PaceInv => NeverAheadOfTheWall
  BY PaceBounds DEF PaceInv, PaceTypes, LeadBounded, Lead, NeverAheadOfTheWall

(* The loop of run() in host/core.mjs, for any pace, any steps of the guest *)
(* and any pauses, steps, steps back and reboots: a guest is not early, and *)
(* what held it up is not paid back in a burst.                             *)
THEOREM PaceAlwaysKept == PaceSpec => KeepsPace
<1>1. PaceSpec => []PaceInv
  BY PaceInitially, PaceKept, PTL DEF PaceSpec
<1>2. PaceInv /\ [PaceNext]_paceVars
        => [at' = "pacing" /\ live /\ ~rewound
              => nowNs' - nowNs <= PACE_BEHIND + PACE_IDLE + MaxStep]_paceVars
  BY StepsWithoutBurst
<1>. QED
  BY <1>1, <1>2, NotAhead, PTL DEF PaceSpec, KeepsPace, NoBurst
=============================================================================
