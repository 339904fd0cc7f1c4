------------------------------ MODULE HostUart ------------------------------
(***************************************************************************)
(* What someone types, from the host's queue down the wire of the console  *)
(* UART to the application: host/core.mjs on one side, the driver          *)
(* drivers/serial/uart_wasm_host.c on the other.                           *)
(*                                                                         *)
(* A byte is its place in what was put on the wire.  Nothing tells the     *)
(* guest that a byte is there except reading it, so the driver keeps one   *)
(* byte of look-ahead; the host raises the line once for each byte, at the *)
(* start of a step.                                                        *)
(*                                                                         *)
(* Time is kept to whether the next byte is still coming down the wire.    *)
(* The rest of the guest (threads, the other interrupts, the kernel's      *)
(* alarm) may do anything at any time.                                     *)
(***************************************************************************)
EXTENDS Integers, Sequences

CONSTANTS
  Script,       \* what is typed for the board: the length of each line
  Modes,        \* the values opts.interactive may have
  MaxKeys,      \* bound: bytes typed by hand
  MaxReboots    \* maxReboots

ASSUME UartAssumption ==
  /\ Script \in Seq(Nat \ {0})
  /\ Modes \subseteq BOOLEAN
  /\ MaxKeys \in Nat /\ MaxReboots \in Nat

NoByte == 0

VARIABLES
  interactive,  \* opts.interactive
  typing,       \* this.typing, as the lengths of its lines
  held,         \* opts.typeHeld
  shellSeen,    \* this.shellSeen
  promptSince,  \* this.promptSince
  input,        \* this.input
  typed,        \* how many bytes have been put into it
  keys,         \* counts MaxKeys
  coming,       \* uartReadyNs is in the future
  taken,        \* this.uartTaken
  raisedAt,     \* this.uartRaisedAt
  external,     \* the line's bit of externalIrqs
  pending,      \* the line's bit of the guest's pending word
  enabled,      \* the driver has enabled the line
  ahead,        \* data->ahead, NoByte for -1
  rx,           \* data->rx_enabled
  tx,           \* data->tx_enabled
  callback,     \* data->callback is set
  got,          \* what the application has read
  alarm,        \* some other deadline lies ahead
  reboots,      \* this.reboots
  pc            \* "between" two steps, in the "guest", in the ISR's
                \* "callback", in its "tail", or "over"

typeVars   == <<interactive, typing, held, shellSeen, promptSince>>
queueVars  == <<input, typed, keys, coming, taken, raisedAt>>
lineVars   == <<external, pending, enabled>>
driverVars == <<ahead, rx, tx, callback>>
vars == <<typeVars, queueVars, lineVars, driverVars, got, alarm, reboots, pc>>

(* Code of the application, in a thread or called back from the ISR. *)
InApp == pc \in {"guest", "callback"} /\ enabled

-----------------------------------------------------------------------------
(* The host's side of the wire. *)

(* uartReady() *)
UartReady == input # <<>> /\ ~coming

(* uart_poll_in(): the byte that has come down the wire leaves the queue,  *)
(* and the next one needs its time.                                        *)
uart_poll_in ==
  IF UartReady
    THEN /\ input' = Tail(input)
         /\ taken' = taken + 1
         /\ coming' = TRUE
    ELSE UNCHANGED <<input, taken, coming>>

(* startInput(): a key pressed while the event loop has a turn. *)
KeyPressed ==
  /\ pc = "between" /\ interactive /\ keys < MaxKeys
  /\ keys' = keys + 1
  /\ typed' = typed + 1
  /\ input' = Append(input, typed + 1)
  /\ UNCHANGED <<typeVars, coming, taken, raisedAt, lineVars, driverVars, got, alarm,
                 reboots, pc>>

(* A faulty variant: a byte counts as raised for ever after. *)
RunStep_RaisesOnce ==
  /\ pc = "between"
  /\ LET raise == UartReady /\ raisedAt = 0
     IN  /\ raisedAt' = IF raise THEN taken + 1 ELSE raisedAt
         /\ pending' = (pending \/ (enabled /\ (external \/ raise)))
         /\ external' = (~enabled /\ (external \/ raise))
  /\ pc' = "guest"
  /\ UNCHANGED <<typeVars, input, typed, keys, coming, taken, enabled, driverVars, got,
                 alarm, reboots>>

(* runStep(): the line is raised for a byte that it has not been raised    *)
(* for, and stays latched until the driver has enabled it.                 *)
RunStep ==
  /\ pc = "between"
  /\ LET raise == UartReady /\ raisedAt <= taken
     IN  /\ raisedAt' = IF raise THEN taken + 1 ELSE raisedAt
         /\ pending' = (pending \/ (enabled /\ (external \/ raise)))
         /\ external' = (~enabled /\ (external \/ raise))
  /\ pc' = "guest"
  /\ UNCHANGED <<typeVars, input, typed, keys, coming, taken, enabled, driverVars, got,
                 alarm, reboots>>

(* safepoint_tick(): longer than a byte takes. *)
safepoint_tick ==
  /\ pc \in {"guest", "callback", "tail"} /\ coming
  /\ coming' = FALSE
  /\ UNCHANGED <<typeVars, input, typed, keys, taken, raisedAt, lineVars, driverVars, got,
                 alarm, reboots, pc>>

-----------------------------------------------------------------------------
(* The driver. *)

(* Its init function. *)
uart_wasm_host_init ==
  /\ pc = "guest" /\ ~enabled
  /\ enabled' = TRUE
  /\ UNCHANGED <<typeVars, queueVars, external, pending, driverVars, got, alarm, reboots,
                 pc>>

(* rx_waiting(): what it returns, and that it may read a byte to know. *)
Waiting == ahead # NoByte \/ UartReady

(* A faulty variant: it reads whether or not there is a byte ahead. *)
rx_waiting_Overwrites ==
  /\ uart_poll_in
  /\ ahead' = IF UartReady THEN Head(input) ELSE ahead

rx_waiting ==
  IF ahead = NoByte
    THEN /\ uart_poll_in
         /\ ahead' = IF UartReady THEN Head(input) ELSE NoByte
    ELSE UNCHANGED <<input, taken, coming, ahead>>

(* take_byte(), for uart_poll_in() and each turn of uart_fifo_read(): the  *)
(* byte ahead goes first.                                                  *)
take_byte ==
  /\ InApp /\ Waiting
  /\ got' = Append(got, IF ahead # NoByte THEN ahead ELSE Head(input))
  /\ ahead' = NoByte
  /\ IF ahead # NoByte THEN UNCHANGED <<input, taken, coming>> ELSE uart_poll_in
  /\ UNCHANGED <<typeVars, typed, keys, raisedAt, lineVars, rx, tx, callback, alarm,
                 reboots, pc>>

irq_rx_enable ==
  /\ InApp
  /\ rx' = TRUE
  /\ pending' = (pending \/ Waiting)
  /\ rx_waiting
  /\ UNCHANGED <<typeVars, typed, keys, raisedAt, external, enabled, tx, callback, got,
                 alarm, reboots, pc>>

irq_rx_disable ==
  /\ InApp /\ rx
  /\ rx' = FALSE
  /\ UNCHANGED <<typeVars, queueVars, lineVars, ahead, tx, callback, got, alarm, reboots,
                 pc>>

(* irq_rx_ready() and irq_is_pending(), which only a callback may ask. *)
irq_rx_ready ==
  /\ pc = "callback" /\ rx
  /\ rx_waiting
  /\ UNCHANGED <<typeVars, typed, keys, raisedAt, lineVars, rx, tx, callback, got, alarm,
                 reboots, pc>>

(* The transmitter is always empty: enabled, it interrupts at once. *)
irq_tx_enable ==
  /\ InApp
  /\ tx' = TRUE
  /\ pending' = TRUE
  /\ UNCHANGED <<typeVars, queueVars, external, enabled, ahead, rx, callback, got, alarm,
                 reboots, pc>>

irq_tx_disable ==
  /\ InApp /\ tx
  /\ tx' = FALSE
  /\ UNCHANGED <<typeVars, queueVars, lineVars, ahead, rx, callback, got, alarm, reboots,
                 pc>>

irq_callback_set ==
  /\ InApp /\ ~callback
  /\ callback' = TRUE
  /\ UNCHANGED <<typeVars, queueVars, lineVars, ahead, rx, tx, got, alarm, reboots, pc>>

(* The ISR up to its callback; && and || do not look at the receiver when  *)
(* the transmitter is on.                                                  *)
uart_wasm_host_isr ==
  /\ pc = "guest" /\ enabled /\ pending
  /\ pending' = FALSE
  /\ IF callback /\ ~tx /\ rx
       THEN rx_waiting
       ELSE UNCHANGED <<input, taken, coming, ahead>>
  /\ pc' = IF callback /\ (tx \/ (rx /\ Waiting)) THEN "callback" ELSE "tail"
  /\ UNCHANGED <<typeVars, typed, keys, raisedAt, external, enabled, rx, tx, callback, got,
                 alarm, reboots>>

CallbackReturn ==
  /\ pc = "callback"
  /\ pc' = "tail"
  /\ UNCHANGED <<typeVars, queueVars, lineVars, driverVars, got, alarm, reboots>>

(* Level-triggered: it raises its own line for as long as there is reason. *)
IsrTail ==
  /\ pc = "tail"
  /\ IF ~tx /\ rx THEN rx_waiting ELSE UNCHANGED <<input, taken, coming, ahead>>
  /\ pending' = (pending \/ tx \/ (rx /\ Waiting))
  /\ pc' = "guest"
  /\ UNCHANGED <<typeVars, typed, keys, raisedAt, external, enabled, rx, tx, callback, got,
                 alarm, reboots>>

-----------------------------------------------------------------------------
(* The rest of the guest. *)

(* notePrompt(): the last byte of the shell's prompt is written. *)
notePrompt ==
  /\ InApp
  /\ shellSeen' = TRUE
  /\ promptSince' = TRUE
  /\ UNCHANGED <<interactive, typing, held, queueVars, lineVars, driverVars, got, alarm,
                 reboots, pc>>

(* Something else is due later; a clamped alarm that only shows the run   *)
(* to be quiescent is none.                                                *)
SetAlarm ==
  /\ pc = "guest" /\ ~alarm
  /\ alarm' = TRUE
  /\ UNCHANGED <<typeVars, queueVars, lineVars, driverVars, got, reboots, pc>>

(* A thread switch ends the step. *)
Switch ==
  /\ pc = "guest"
  /\ pc' = "between"
  /\ UNCHANGED <<typeVars, queueVars, lineVars, driverVars, got, alarm, reboots>>

(* resetForReboot(): the queue, what has been raised and the prompt stay;  *)
(* the driver starts again.                                                *)
Reboot ==
  /\ pc \in {"guest", "callback"} /\ reboots < MaxReboots
  /\ reboots' = reboots + 1
  /\ coming' = FALSE
  /\ alarm' = FALSE
  /\ pending' = FALSE /\ enabled' = FALSE
  /\ ahead' = NoByte /\ rx' = FALSE /\ tx' = FALSE /\ callback' = FALSE
  /\ pc' = "between"
  /\ UNCHANGED <<typeVars, input, typed, keys, taken, raisedAt, external, got>>

-----------------------------------------------------------------------------
(* The idle half of step(), reached when the guest can take no interrupt.  *)

Idle == pc = "guest" /\ ~(pending /\ enabled)

CanType == /\ typing # <<>> /\ input = <<>> /\ ~held
           /\ shellSeen => promptSince

(* typeNextLine() *)
typeNextLine ==
  /\ Idle /\ CanType
  /\ typing' = Tail(typing)
  /\ input' = [i \in 1 .. Head(typing) |-> typed + i]
  /\ typed' = typed + Head(typing)
  /\ promptSince' = FALSE
  /\ pc' = "between"
  /\ UNCHANGED <<interactive, held, shellSeen, keys, coming, taken, raisedAt, lineVars,
                 driverVars, got, alarm, reboots>>

(* nextUartNs() # null *)
NextUart == input # <<>> /\ coming

(* Time passes, but not beyond the byte on its way. *)
ClockMoves == coming' \in (IF NextUart THEN {coming} ELSE {coming, FALSE})

(* A board that takes keys does not look at the latched lines. *)
Advances == Idle /\ ~CanType /\ (interactive \/ ~(external /\ enabled))

IdleLatched ==
  /\ Idle /\ ~CanType /\ ~interactive /\ external /\ enabled
  /\ pc' = "between"
  /\ UNCHANGED <<typeVars, queueVars, lineVars, driverVars, got, alarm, reboots>>

(* advanceToNextDeadline(): to the byte, *)
IdleToByte ==
  /\ Advances /\ NextUart
  /\ coming' = FALSE
  /\ pc' = "between"
  /\ UNCHANGED <<typeVars, input, typed, keys, taken, raisedAt, lineVars, driverVars, got,
                 alarm, reboots>>

(* to another deadline that comes before it, one that lets typing start    *)
(* among them,                                                             *)
IdleToOther ==
  /\ Advances
  /\ \/ alarm /\ alarm' = FALSE /\ UNCHANGED held
     \/ held /\ held' = FALSE /\ UNCHANGED alarm
  /\ ClockMoves
  /\ pc' = "between"
  /\ UNCHANGED <<interactive, typing, shellSeen, promptSince, input, typed, keys, taken,
                 raisedAt, lineVars, driverVars, got, reboots>>

(* or, waiting for a person, as far as the wall clock went, *)
IdleByWall ==
  /\ Idle /\ ~CanType /\ interactive
  /\ ClockMoves
  /\ pc' = "between"
  /\ UNCHANGED <<typeVars, input, typed, keys, taken, raisedAt, lineVars, driverVars, got,
                 alarm, reboots>>

(* and with nothing due the run is over, unless someone may still type. *)
Finish ==
  /\ Advances /\ ~NextUart /\ ~alarm /\ ~held
  /\ pc' = IF interactive THEN "between" ELSE "over"
  /\ UNCHANGED <<typeVars, queueVars, lineVars, driverVars, got, alarm, reboots>>

Over == pc = "over" /\ UNCHANGED vars

-----------------------------------------------------------------------------
Init ==
  /\ interactive \in Modes
  /\ typing = Script
  /\ held \in BOOLEAN
  /\ shellSeen = FALSE /\ promptSince = FALSE
  /\ input = <<>> /\ typed = 0 /\ keys = 0
  /\ coming = FALSE
  /\ taken = 0 /\ raisedAt = 0
  /\ external = FALSE /\ pending = FALSE /\ enabled = FALSE
  /\ ahead = NoByte /\ rx = FALSE /\ tx = FALSE /\ callback = FALSE
  /\ got = <<>>
  /\ alarm = FALSE
  /\ reboots = 0
  /\ pc = "between"

DriverStep == \/ uart_wasm_host_init \/ take_byte
              \/ irq_rx_enable \/ irq_rx_disable \/ irq_rx_ready
              \/ irq_tx_enable \/ irq_tx_disable \/ irq_callback_set
              \/ uart_wasm_host_isr \/ CallbackReturn \/ IsrTail

IdleStep == typeNextLine \/ IdleLatched \/ IdleToByte \/ IdleToOther \/ IdleByWall \/ Finish

Next == \/ KeyPressed \/ RunStep \/ safepoint_tick
        \/ DriverStep
        \/ notePrompt \/ SetAlarm \/ Switch \/ Reboot
        \/ IdleStep
        \/ Over

Spec == Init /\ [][Next]_vars

(* The clock reaches the byte on its way: the safepoints of a busy guest   *)
(* and the deadlines of an idle one both move it.                          *)
ByteArrives == coming /\ (safepoint_tick \/ IdleStep) /\ ~coming'

(* The loop and the ISR go on; a step ends; an interrupt is taken in the   *)
(* end; time passes; and a callback that can read a byte reads one in the  *)
(* end.                                                                    *)
FairSpec ==
  /\ Spec
  /\ WF_vars(RunStep)
  /\ WF_vars(IsrTail)
  /\ WF_vars(CallbackReturn)
  /\ SF_vars(Switch \/ IdleStep)
  /\ SF_vars(ByteArrives)
  /\ SF_vars(uart_wasm_host_isr)
  /\ SF_vars(pc = "callback" /\ take_byte)

-----------------------------------------------------------------------------
(* Properties. *)

(* Types of the queue's counters, the driver's data and the line. *)
TypeOK ==
  /\ interactive \in BOOLEAN
  /\ typing \in Seq(Nat \ {0})
  /\ held \in BOOLEAN /\ shellSeen \in BOOLEAN /\ promptSince \in BOOLEAN
  /\ input \in Seq(Nat)
  /\ typed \in Nat /\ keys \in Nat /\ taken \in Nat /\ raisedAt \in Nat
  /\ coming \in BOOLEAN
  /\ external \in BOOLEAN /\ pending \in BOOLEAN /\ enabled \in BOOLEAN
  /\ ahead \in Nat
  /\ rx \in BOOLEAN /\ tx \in BOOLEAN /\ callback \in BOOLEAN
  /\ got \in Seq(Nat)
  /\ alarm \in BOOLEAN
  /\ reboots \in Nat
  /\ pc \in {"between", "guest", "callback", "tail", "over"}

(* How many bytes have left the host's queue and not reached anyone. *)
Lost == typed - Len(input) - Len(got) - (IF ahead = NoByte THEN 0 ELSE 1)

(* Every byte reaches the application at most once and in the order it was *)
(* typed, however polling, the interrupt API and the ISR are mixed; and    *)
(* none is lost on the way but the look-ahead byte of a driver that a      *)
(* reboot ends.                                                            *)
BytesInOrder ==
  /\ \A i, j \in 1 .. Len(got) : i < j => got[i] < got[j]
  /\ Lost \in 0 .. reboots

(* While an application listens, with receive enabled and a callback that  *)
(* reads, everything typed is read in the end: no interrupt is missing,    *)
(* whatever was disabled, latched or rebooted before.                      *)
Listening   == enabled /\ rx /\ callback
InputIsRead == <>[]Listening => []<>((input = <<>> /\ ahead = NoByte) \/ pc = "over")

(* When a run ends because nothing can happen any more, an application     *)
(* that listens has been given everything that was typed.                  *)
EndsWithInputRead == (pc = "over" /\ Listening) => (input = <<>> /\ ahead = NoByte)

=============================================================================
