------------------------------ MODULE HostPace ------------------------------
(***************************************************************************)
(* A paced board: the loop of run() in host/core.mjs, which keeps the      *)
(* guest's virtual clock in step with the wall clock, and the idle step of *)
(* an interactive board, whose clock follows the wall.  Both go by an      *)
(* anchor, a moment when the two clocks were lined up.  The speed is 1.    *)
(*                                                                         *)
(* A step of the guest takes some time of either clock.  What a snapshot   *)
(* restores is here the guest's clock.                                     *)
(***************************************************************************)
EXTENDS Integers, Sequences

CONSTANTS
  PACE_MAX, PACE_BEHIND, PACE_IDLE,
  MaxStep,     \* bound: either clock's time in a step, and in a pause
  MaxAhead,    \* bound: how far ahead a deadline is
  MaxNow,      \* bound: the guest's clock when a step begins
  MaxWall      \* bound: the wall clock when a step begins

ASSUME HostPaceAssumption ==
  {PACE_MAX, PACE_BEHIND, PACE_IDLE, MaxStep, MaxAhead, MaxNow, MaxWall} \subseteq Nat

VARIABLES
  live,        \* the board hears from outside: opts.interactive or an uplink
  nowNs, lastNow, wall, pace, held, steps, past, idleWait,
  fresh,       \* the boot path has not suspended yet
  rewound,     \* a step back since the clocks were last lined up
  at           \* "top" of the loop, "pacing" after a step, "waits" at its end

paceVars == <<live, nowNs, lastNow, wall, pace, held, steps, past, idleWait, fresh,
              rewound, at>>

Times == 0..MaxStep

Further(a, b) == IF a > b THEN a ELSE b

reanchor(w) == [guest |-> nowNs, wall |-> w]

(* The guest's clock as the wall has it. *)
byWall(w) == pace.guest + (w - pace.wall)

PaceInit ==
  /\ live \in BOOLEAN
  /\ nowNs = 0 /\ lastNow = 0 /\ wall = 0
  /\ pace = reanchor(0)
  /\ held = FALSE /\ steps = 0 /\ past = <<>> /\ idleWait = 0
  /\ fresh = TRUE /\ rewound = FALSE /\ at = "top"

-----------------------------------------------------------------------------
(* The page, while the loop awaits.                                        *)

PagePause ==
  /\ at = "waits" /\ ~held
  /\ held' = TRUE
  /\ UNCHANGED <<live, nowNs, lastNow, wall, pace, steps, past, idleWait, fresh, rewound, at>>

PageStep ==
  /\ at = "waits" /\ steps = 0 /\ past = <<>>
  /\ held' = TRUE /\ steps' = 1
  /\ UNCHANGED <<live, nowNs, lastNow, wall, pace, past, idleWait, fresh, rewound, at>>

PageBack ==
  /\ at = "waits" \/ (at = "top" /\ held /\ steps = 0)
  /\ past # <<>>
  /\ nowNs' = past[1] /\ past' = <<>>
  /\ held' = TRUE /\ rewound' = TRUE
  /\ UNCHANGED <<live, lastNow, wall, pace, steps, idleWait, fresh, at>>

(* Held at the top of the loop, until it is let go or a step is asked for: *)
(* the wall clock went on meanwhile.                                       *)
LetGo_Kept(w) == pace

LetGo(w) == reanchor(w)

Held(w) ==
  /\ at = "top" /\ held /\ steps = 0 /\ wall < MaxWall
  /\ wall' = wall + w
  /\ \/ held' = FALSE /\ steps' = 0
     \/ held' = TRUE /\ steps' = 1
  /\ pace' = LetGo(wall') /\ rewound' = FALSE
  /\ UNCHANGED <<live, nowNs, lastNow, past, idleWait, fresh, at>>

-----------------------------------------------------------------------------
(* A step. What it started from is kept when the page asked for it.        *)

Begins(w) ==
  /\ at = "top" /\ ~ (held /\ steps = 0)
  /\ nowNs < MaxNow /\ wall < MaxWall
  /\ wall' = wall + w
  /\ steps' = 0
  /\ UNCHANGED <<live, pace, held, rewound>>

Remembers == past' = IF steps > 0 THEN <<nowNs>> ELSE past

(* The guest works. *)
Works(w, t) ==
  /\ Begins(w) /\ Remembers
  /\ nowNs' = nowNs + t
  /\ fresh' = FALSE /\ at' = "pacing"
  /\ UNCHANGED <<lastNow, idleWait>>

(* A board that hears nothing from outside jumps to its next deadline. *)
Jumps(w, d) ==
  /\ Begins(w) /\ Remembers
  /\ ~fresh /\ ~live
  /\ nowNs' = nowNs + d
  /\ at' = "pacing"
  /\ UNCHANGED <<lastNow, idleWait, fresh>>

(* It idles, with its next deadline d ahead, or none: the clock follows    *)
(* the wall as far as that, or jumps to a deadline the wall has passed.    *)
(* The boot path switches to the first thread before anything idles.       *)
Idles(w, d) ==
  /\ Begins(w) /\ Remembers
  /\ ~fresh /\ live
  /\ nowNs' = IF nowNs + d > byWall(wall') THEN Further(byWall(wall'), nowNs) ELSE nowNs + d
  /\ idleWait' = IF nowNs + d > byWall(wall')
                   THEN IF nowNs + d - nowNs' < PACE_IDLE THEN nowNs + d - nowNs' ELSE PACE_IDLE
                   ELSE idleWait
  /\ at' = "pacing"
  /\ UNCHANGED <<lastNow, fresh>>

(* It reboots: the loop starts again before pacing. *)
Reboots(w) ==
  /\ Begins(w)
  /\ nowNs' = 0 /\ past' = <<>>
  /\ fresh' = TRUE /\ at' = "top"
  /\ UNCHANGED <<lastNow, idleWait>>

-----------------------------------------------------------------------------
(* After the step.                                                         *)

Jumped == nowNs < lastNow \/ nowNs - lastNow > PACE_MAX

Anchor == IF Jumped THEN reanchor(wall) ELSE pace

Ahead == (Anchor.wall + (nowNs - Anchor.guest)) - wall

(* Ahead of the wall: the loop waits it out. Far behind: it starts again   *)
(* from here. An idle board sleeps towards its deadline.                   *)
Waits == IF Ahead >= 1 THEN Ahead ELSE idleWait

NewAnchor == IF Ahead < -PACE_BEHIND THEN reanchor(wall) ELSE Anchor

Pacing ==
  /\ at = "pacing"
  /\ lastNow' = nowNs
  /\ pace' = NewAnchor
  /\ rewound' = (rewound /\ NewAnchor # reanchor(wall))
  /\ wall' = wall + Waits
  /\ idleWait' = 0
  /\ at' = "waits"
  /\ UNCHANGED <<live, nowNs, held, steps, past, fresh>>

(* The wait is over. *)
GoesOn ==
  /\ at = "waits" /\ at' = "top"
  /\ UNCHANGED <<live, nowNs, lastNow, wall, pace, held, steps, past, idleWait, fresh, rewound>>

PaceNext ==
  \/ PagePause \/ PageStep \/ PageBack \/ Pacing \/ GoesOn
  \/ \E w \in Times : Held(w) \/ Reboots(w)
  \/ \E w, t \in Times : Works(w, t)
  \/ \E w \in Times, d \in 0..MaxAhead : Idles(w, d) \/ Jumps(w, d)

PaceSpec == PaceInit /\ [][PaceNext]_paceVars

-----------------------------------------------------------------------------
(* Properties.                                                             *)

(* A paced guest is shown no earlier than its clock says: between steps    *)
(* its clock has gone no further than the wall clock since the two were    *)
(* lined up, through jumps, pauses, steps back and reboots.                *)
NeverAheadOfTheWall == at = "top" => nowNs - pace.guest <= wall - pace.wall

(* A clock that follows the wall does not leap: an idle step moves it by   *)
(* no more than a guest may be behind (PACE_BEHIND), the last wait and the *)
(* step itself, or to a deadline. A pause, however long, a reboot that     *)
(* sets the clock to zero and a guest that cannot keep up leave no debt    *)
(* that is paid back in a burst. A step back in the middle of the steps    *)
(* the page asked for is the exception: the anchor is then of the time     *)
(* that was undone.                                                        *)
NoBurst ==
  [][at' = "pacing" /\ live /\ ~rewound
       => nowNs' - nowNs <= PACE_BEHIND + PACE_IDLE + MaxStep]_paceVars

(* Pacing as the page sees it: a guest that is neither early nor, after     *)
(* whatever held it up, hurried (the end of run()'s loop).                  *)
KeepsPace == []NeverAheadOfTheWall /\ NoBurst
=============================================================================
