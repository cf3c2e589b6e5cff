-------------------------------- MODULE Drive --------------------------------
(* The app's drive loop.  One coroutine claims and drops the MANUAL hold, in *)
(* the order the driving screen asked; one streams a frame per tick; a latch *)
(* replaces the sticks by stop frames.  Every sender takes its counter from  *)
(* the session under one fair mutex: the order in which the mutex is granted *)
(* is the order that counts, for the robot refuses a counter that falls back.*)
EXTENDS Naturals, Sequences

CONSTANT MaxWaiting  \* bound: coroutines waiting for the mutex at a time

ASSUME DriveAssumption == MaxWaiting \in Nat

VARIABLES
  row,   \* Room's paired_device, as observePaired emits it: on, era
  lane,  \* SessionManager's mutex: who waits, and with which frame
  wire,  \* the last claim and the last word of the session (ALIVE or DISCONNECT)
         \* to have been given a counter since the pair was made
  stick, \* the deflection in the driving screen's state: 0 is centered
  drv    \* DriveController: currentDevice (dev), manualHeld (held), whether input
         \* is the screen's closure (bound), manualOps (queue), the operation under
         \* way (op), estopLatched (latched), paused, stop frames launched (halts)

driveVars == <<row, lane, wire, stick, drv>>

NoRow == [on |-> FALSE, era |-> 0]

NothingSaid == [claim |-> "none", session |-> "none"]

DriveInit ==
  /\ row \in {NoRow, [on |-> TRUE, era |-> 0]}
  /\ lane = <<>>
  /\ wire = NothingSaid
  /\ stick = 0
  /\ drv = [dev |-> NoRow, held |-> FALSE, bound |-> FALSE, queue |-> <<>>,
            op |-> "none", latched |-> FALSE, paused |-> FALSE, halts |-> 0]

-----------------------------------------------------------------------------
(* The session's mutex. *)

Waits(who) == \E i \in DOMAIN lane : lane[i].by = who

Queue(who, frame) ==
  /\ Len(lane) < MaxWaiting
  /\ lane' = Append(lane, [by |-> who, frame |-> frame])

Claims == {"take", "release"}
Motions == {"go", "rest", "halt"}
Words == {"alive", "bye"}

Said(frame) ==
  CASE frame \in Claims  -> [wire EXCEPT !.claim = frame]
    [] frame \in Words   -> [wire EXCEPT !.session = frame]
    [] frame \in Motions -> wire

Allocate_NewestFirst ==
  /\ lane # <<>>
  /\ lane' = SubSeq(lane, 1, Len(lane) - 1)
  /\ wire' = IF row.on THEN Said(lane[Len(lane)].frame) ELSE wire
  /\ UNCHANGED <<row, stick, drv>>

(* The first in line gets a counter, unless the pair is gone by then.        *)
Allocate ==
  /\ lane # <<>>
  /\ lane' = Tail(lane)
  /\ wire' = IF row.on THEN Said(Head(lane).frame) ELSE wire
  /\ UNCHANGED <<row, stick, drv>>

-----------------------------------------------------------------------------
(* manualLoop *)

Claim(op) == IF op = "enter" THEN "take" ELSE "release"

(* What the operation leaves behind, whatever came of its frame. *)
Ended(d, op) ==
  IF op = "enter" THEN [d EXCEPT !.op = "none", !.held = TRUE]
  ELSE [d EXCEPT !.op = "none", !.held = FALSE, !.bound = FALSE]

ManualOpStarts_Newest ==
  /\ drv.op = "none" /\ drv.queue # <<>>
  /\ LET op == drv.queue[Len(drv.queue)]
         d == [drv EXCEPT !.queue = SubSeq(@, 1, Len(@) - 1)]
     IN IF drv.dev.on
        THEN drv' = [d EXCEPT !.op = op] /\ Queue("manual", Claim(op))
        ELSE drv' = Ended(d, op) /\ UNCHANGED lane
  /\ UNCHANGED <<row, wire, stick>>

ManualOpStarts_Skips ==
  /\ drv.op = "none" /\ drv.queue # <<>>
  /\ LET op == Head(drv.queue)
         d == [drv EXCEPT !.queue = Tail(@)]
     IN IF drv.dev.on
        THEN drv' = [d EXCEPT !.op = op] /\ Queue("manual", Claim(op))
        ELSE drv' = d /\ UNCHANGED lane
  /\ UNCHANGED <<row, wire, stick>>

ManualOpStarts ==
  /\ drv.op = "none" /\ drv.queue # <<>>
  /\ LET op == Head(drv.queue)
         d == [drv EXCEPT !.queue = Tail(@)]
     IN IF drv.dev.on
        THEN drv' = [d EXCEPT !.op = op] /\ Queue("manual", Claim(op))
        ELSE drv' = Ended(d, op) /\ UNCHANGED lane
  /\ UNCHANGED <<row, wire, stick>>

ManualOpEnds ==
  /\ drv.op # "none" /\ ~Waits("manual")
  /\ drv' = Ended(drv, drv.op)
  /\ UNCHANGED <<row, lane, wire, stick>>

-----------------------------------------------------------------------------
(* tickLoop.  A centered stick may also pass its tick without a frame.       *)

Sampled(d) == IF d.latched THEN "halt"
              ELSE IF d.held /\ d.bound /\ stick # 0 THEN "go" ELSE "rest"

DriveTick ==
  /\ ~Waits("tick") /\ ~drv.paused /\ drv.dev.on
  /\ Queue("tick", Sampled(drv))
  /\ UNCHANGED <<row, wire, stick, drv>>

(* The stop frame of emergencyStop itself. *)
HaltStarts ==
  /\ drv.halts > 0
  /\ drv' = [drv EXCEPT !.halts = @ - 1]
  /\ IF drv.dev.on THEN Queue("halt", "halt") ELSE UNCHANGED lane
  /\ UNCHANGED <<row, wire, stick>>

DriveSeesRow_KeepsHold ==
  /\ drv.dev # row
  /\ drv' = [drv EXCEPT !.dev = row]
  /\ UNCHANGED <<row, lane, wire, stick>>

(* collectPaired: without a pair nothing is held. *)
DriveSeesRow ==
  /\ drv.dev # row
  /\ drv' = IF row.on THEN [drv EXCEPT !.dev = row]
            ELSE [drv EXCEPT !.dev = row, !.held = FALSE, !.bound = FALSE]
  /\ UNCHANGED <<row, lane, wire, stick>>

DriveSteps == ManualOpStarts \/ ManualOpEnds \/ DriveTick \/ HaltStarts \/ DriveSeesRow

-----------------------------------------------------------------------------
(* The calls of the screens, on the main thread: what they make of drv.      *)

EnterManual(d) == [d EXCEPT !.bound = TRUE, !.queue = Append(@, "enter")]
ExitManual(d) == [d EXCEPT !.queue = Append(@, "exit")]
EmergencyStop(d) == IF d.latched THEN d ELSE [d EXCEPT !.latched = TRUE, !.halts = @ + 1]
ReleaseEmergency(d) == [d EXCEPT !.latched = FALSE]
=============================================================================
