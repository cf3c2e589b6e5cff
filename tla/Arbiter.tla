------------------------------- MODULE Arbiter -------------------------------
(***************************************************************************)
(* The pure decision logic of the core firmware: the P1 > P2 > P4 motion   *)
(* arbitrator and the safety face plan (behavior/coordinator.h), the       *)
(* system mode policy (behavior/mode_manager.h) and the face catalogue     *)
(* with its preemption rule (shared/link/expression_catalog.h,             *)
(* abilities/expression/expression_manager.h).                             *)
(*                                                                         *)
(* A stick axis is kept by its sign: every test in the code compares an    *)
(* axis with zero only, and amplitudes pass through unscaled.              *)
(*                                                                         *)
(* An operator Name_Suffix is Name with a fault planted in it: it is used  *)
(* by no specification and shows which property notices the fault.         *)
(***************************************************************************)
EXTENDS Integers

Axis == {-1, 0, 1}

Stick == [v : Axis, w : Axis]

Stop == [v |-> 0, w |-> 0]

(* TRUE = ground present under that rail. *)
Rails == [fwd : BOOLEAN, rev : BOOLEAN]

Level == [fwd |-> TRUE, rev |-> TRUE]

GroundLost(g) == ~g.fwd \/ ~g.rev

(* Modes the coordinator can assign: AUTONOMOUS and LOW_POWER are declared *)
(* in SystemState and never used.                                          *)
RobotMode == {"MANUAL", "EMERGENCY"}

BehaviorId == {"NONE", "DRIVE_FORWARD", "HAPPY_WIGGLE"}

-----------------------------------------------------------------------------
(* Motion arbitration.  An input is a record                               *)
(*   [mode, active, groundEvent, gnd, cmd, hasCommand, fresh, stale, done] *)
(* with done = "NONE" when no completion was drained.                      *)

Permitted(s, g) ==
  \/ s.v > 0 /\ g.fwd
  \/ s.v < 0 /\ g.rev
  \/ s.v = 0 /\ s.w # 0 /\ (g.fwd \/ g.rev)

Vetoed_FrontOnly(s, g) == [v |-> IF s.v > 0 /\ ~g.fwd THEN 0 ELSE s.v, w |-> s.w]

Vetoed(s, g) ==
  LET blocked == (s.v > 0 /\ ~g.fwd) \/ (s.v < 0 /\ ~g.rev)
  IN  [v |-> IF blocked THEN 0 ELSE s.v, w |-> s.w]

Decision(mode, active, motion, stick) ==
  [mode |-> mode, active |-> active, motion |-> motion, stick |-> stick]

EnterEmergency == Decision("EMERGENCY", "NONE", "brake", Stop)

WantsDrive_HeldStick(in) == in.hasCommand /\ ~in.stale /\ in.cmd # Stop

WantsDrive(in) == in.fresh /\ in.hasCommand /\ ~in.stale /\ in.cmd # Stop

Latched(in) ==
  IF WantsDrive(in) /\ Permitted(in.cmd, in.gnd)
  THEN Decision("MANUAL", "DRIVE_FORWARD", "drive", in.cmd)
  ELSE Decision("EMERGENCY", "NONE", "drive",
                IF in.stale \/ ~in.hasCommand THEN Stop ELSE Vetoed(in.cmd, in.gnd))

AfterDone(in) ==
  IF in.done # "NONE" /\ in.done = in.active THEN "NONE" ELSE in.active

Unlatched(in) ==
  IF in.stale \/ ~in.hasCommand THEN Decision(in.mode, "NONE", "drive", Stop)
  ELSE IF in.cmd # Stop THEN Decision(in.mode, "DRIVE_FORWARD", "drive", in.cmd)
  ELSE IF AfterDone(in) = "HAPPY_WIGGLE" THEN Decision(in.mode, "HAPPY_WIGGLE", "hold", Stop)
  ELSE Decision(in.mode, "NONE", "drive", Stop)

Arbitrate(in) ==
  IF in.groundEvent THEN EnterEmergency
  ELSE IF in.mode = "EMERGENCY" THEN Latched(in)
  ELSE Unlatched(in)

-----------------------------------------------------------------------------
(* System mode policy.                                                     *)

SysMode == {"NORMAL", "MANUAL", "PAIRING", "OTA"}

(* The mode each closing event ends; the robot is back to NORMAL.          *)
Ends ==
  [OtaDone |-> "OTA", OtaAborted |-> "OTA",
   Paired |-> "PAIRING", PairWindowClosed |-> "PAIRING",
   ManualReleaseGranted |-> "MANUAL", AliveStale |-> "MANUAL"]

ModeApply(m, e) ==
  IF e \in {"OtaStaged", "OtaStarted"} THEN "OTA"
  ELSE IF e = "PairWindowOpened" /\ m # "OTA" THEN "PAIRING"
  ELSE IF e = "ManualTakeGranted" /\ m = "NORMAL" THEN "MANUAL"
  ELSE IF e \in DOMAIN Ends /\ m = Ends[e] THEN "NORMAL"
  ELSE m

ManualDriveAllowed_AnyMode(m, paired) == paired

ManualDriveAllowed(m, paired) == m = "MANUAL" /\ paired

ExprTriggerAllowed(m) == m = "MANUAL"

-----------------------------------------------------------------------------
(* Faces.  Id 5 (QR) and ids past 11 have no row: they stand as "unknown". *)

Priority ==
  [boot |-> 0, blink |-> 0, happy |-> 1, curious |-> 2, sad |-> 3, alert |-> 4,
   surprised |-> 5, confused |-> 6, excited |-> 7, angry |-> 8, scared |-> 9]

Face == DOMAIN Priority

NoFace == "none"

Neutral == {"boot", "blink"}

(* Rows whose motion primitive is not still. *)
Wiggles == {"angry", "excited", "confused"}

Accepts_LatestWins(f, shown) == f \in Face

Accepts(f, shown) ==
  f \in Face /\ (f \in Neutral \/ Priority[f] >= Priority[shown])

DesiredSafetyFace(g, obstacle) ==
  IF GroundLost(g) THEN "scared" ELSE IF obstacle THEN "angry" ELSE NoFace

ResolveSafetyEdge_NoStepDown(desired, claim, shown) ==
  [release |-> FALSE,
   ask     |-> IF desired # NoFace THEN desired
               ELSE IF claim # NoFace /\ shown = claim THEN "boot" ELSE NoFace,
   claim   |-> desired]

ResolveSafetyEdge_KeepsFace(desired, claim, shown) ==
  [release |-> desired # NoFace /\ Priority[desired] < Priority[shown],
   ask     |-> desired,
   claim   |-> desired]

(* What an edge does with the face: the faces requested in order, and the  *)
(* claim kept when the last of them is accepted.                           *)
ResolveSafetyEdge(desired, claim, shown) ==
  IF desired # NoFace
  THEN [release |-> Priority[desired] < Priority[shown], ask |-> desired, claim |-> desired]
  ELSE [release |-> FALSE,
        ask     |-> IF claim # NoFace /\ shown = claim THEN "boot" ELSE NoFace,
        claim   |-> NoFace]
=============================================================================
