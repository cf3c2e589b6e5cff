------------------------ MODULE CoordinatorProperties ------------------------
(***************************************************************************)
(* What the coordinator loop promises: the ground latch, the drive gate,   *)
(* the agreement of its levels with the sensors', the safety face, and the *)
(* statements of the source that its interleavings do not keep.            *)
(***************************************************************************)
EXTENDS Coordinator

TypeBus == queue \in Seq(Event) /\ Len(queue) <= QueueDepth /\ dropped \in BOOLEAN

TypeSensor == sensed \in Rails /\ sensedNear \in BOOLEAN

TypePc == pc \in {"sleep", "drain", "feed", "take", "release", "act"}

TypeEdges ==
  edges \in [ground : BOOLEAN, clear : BOOLEAN, near : BOOLEAN, far : BOOLEAN,
             fresh : BOOLEAN, done : BehaviorId]

TypeDrain ==
  /\ TypeEdges /\ seen \in BOOLEAN
  /\ gnd \in Rails /\ near \in BOOLEAN
  /\ cmd \in Stick /\ cmdAge \in {"none", "fresh", "stale"}

TypeIntent == mode \in RobotMode /\ active \in BehaviorId /\ sysMode \in SysMode

TypeFace ==
  /\ claim \in Face \cup {NoFace} /\ face \in Face
  /\ hasStaged \in BOOLEAN /\ hasBundle \in BOOLEAN

TypePump == head \in Face /\ pump \in {"idle", "taken", "cued", "sent"}

TypeMotion == mailbox \in Stick /\ maneuver \in {"idle", "wiggle"}

TypeSession ==
  /\ peer \in {"none", "window", "live", "lapsed"} /\ ahead \in BOOLEAN
  /\ take \in BOOLEAN /\ release \in BOOLEAN
  /\ trigger \in Face \cup {"unknown", NoFace}

TypeOK ==
  /\ TypeBus /\ TypeSensor /\ TypePc /\ TypeDrain /\ TypeIntent
  /\ TypeFace /\ TypePump /\ TypeMotion /\ TypeSession

(* The step that ends a tick. *)
TickEnds == pc = "act" /\ pc' = "sleep"

-----------------------------------------------------------------------------
(* Ground latch (coordinator.h 36-44, 95-161).                             *)

(* While EMERGENCY is latched the mailbox never holds a translation over a *)
(* rail that has no ground, whatever the stick asked for and however the   *)
(* rail and the stick changed since the entry.                             *)
LatchVeto ==
  Asleep /\ mode = "EMERGENCY" =>
    /\ mailbox.v > 0 => gnd.fwd
    /\ mailbox.v < 0 => gnd.rev

(* EMERGENCY is left only by a command drained in the same tick, not stale,*)
(* in a permitted direction, while a paired app holds the MANUAL session.  *)
EmergencyExit ==
  [][mode = "EMERGENCY" /\ mode' # "EMERGENCY" =>
       /\ edges.fresh /\ cmdAge = "fresh" /\ ~edges.ground
       /\ Permitted(cmd, gnd)
       /\ sysMode = "MANUAL" /\ Paired]_vars

(* A rail that turns from ground to drop under the sensor latches          *)
(* EMERGENCY, unless the queue was full when its event was published.      *)
LossLatches ==
  (GroundLost(sensed) /\ gnd = Level) ~> (mode = "EMERGENCY" \/ dropped)

-----------------------------------------------------------------------------
(* Drive gate (coordinator.h 489-559).                                     *)

(* Between two ticks wheels that turn on a mailbox command obey the last   *)
(* stick (vetoed in EMERGENCY) under a MANUAL session.                     *)
SessionGate ==
  Asleep /\ mailbox # Stop =>
    /\ sysMode = "MANUAL"
    /\ mailbox = IF mode = "EMERGENCY" THEN Vetoed(cmd, gnd) ELSE cmd

(* What makes SessionGate inductive: the arbitrator's "hold" answer, which *)
(* would leave an old mailbox in place, is never given, because no path    *)
(* makes the timed maneuver the active behaviour.                          *)
GateInv == TypeOK /\ active # "HAPPY_WIGGLE" /\ SessionGate

(* A tick that finds the command stale, the app unpaired or the session    *)
(* not MANUAL stops the wheels, a running wiggle included.                 *)
TickStops ==
  [][TickEnds /\ (cmdAge # "fresh" \/ ~Paired \/ sysMode # "MANUAL") =>
       mailbox' = Stop /\ maneuver' = "idle"]_vars

(* An app that stays away (its goodbye, its silence or an unpair) leaves   *)
(* the wheels stopped and the robot out of MANUAL for good.                *)
AbsenceStops ==
  <>[](peer # "live") => <>[](mailbox = Stop /\ sysMode # "MANUAL")

-----------------------------------------------------------------------------
(* Levels (sensors_task.h 152-175, coordinator.h 433-451, 474-483).  The   *)
(* sensor task publishes transitions only, so one lost event would leave   *)
(* the coordinator on a wrong level: as long as nothing was dropped, the   *)
(* last queued level, or the coordinator's own, is the sensor's.           *)

LastOf(type, i) ==
  /\ i \in DOMAIN queue /\ queue[i].type = type
  /\ \A j \in DOMAIN queue : j > i => queue[j].type # type

LevelsAgree ==
  ~dropped =>
    /\ \A i \in DOMAIN queue : LastOf("ground", i) => queue[i].rails = sensed
    /\ \A i \in DOMAIN queue : LastOf("obstacle", i) => queue[i].near = sensedNear
    /\ (\A i \in DOMAIN queue : queue[i].type # "ground") => gnd = sensed
    /\ (\A i \in DOMAIN queue : queue[i].type # "obstacle") => near = sensedNear

-----------------------------------------------------------------------------
(* Safety face (coordinator.h 222-254, 561-595).                           *)

(* After each tick the claim is the face the levels call for, through any  *)
(* order of losses, clears and obstacles in one drain.                     *)
ClaimTracksHazard == Asleep /\ ExpressionAttached => claim = DesiredSafetyFace(gnd, near)

(* What makes ClaimTracksHazard inductive: inside a tick too, a claim that *)
(* differs from the levels has an edge waiting for the decision.           *)
ClaimInv ==
  /\ claim \in {"scared", "angry", NoFace}
  /\ Asleep => edges = NoEdges
  /\ ExpressionAttached /\ ~SafetyEdge => claim = DesiredSafetyFace(gnd, near)

(* A tick that saw an edge and no app trigger shows the claimed face, a    *)
(* step down from scared to angry included; once every hazard is gone it   *)
(* no longer shows the face that was claimed.                              *)
FaceFollowsHazard ==
  [][TickEnds /\ SafetyEdge /\ ExpressionAttached /\ trigger = NoFace =>
       IF claim' # NoFace THEN face' = claim' ELSE claim # NoFace => face' # claim]_vars

(* While the claim stands, the face it holds gives way only to a stronger  *)
(* face or to a neutral one the app asked for under MANUAL.                *)
HazardFaceHeld ==
  [][claim # NoFace /\ claim' = claim /\ face = claim /\ face' # face =>
       \/ Priority[face'] > Priority[face]
       \/ face' \in Neutral /\ face' = trigger /\ sysMode = "MANUAL"]_vars

-----------------------------------------------------------------------------
(* Statements of the source that the code does not keep.                   *)

(* coordinator.h 41-43: a latched robot whose ground comes back without a  *)
(* command stays put; "Wheels never auto-restart."                         *)
NoAutoRestart ==
  [][TickEnds /\ mode = "EMERGENCY" /\ mailbox = Stop /\ ~edges.fresh => mailbox' = Stop]_vars

(* coordinator.h 46-48: a timed maneuver owns the mailbox until DONE; a    *)
(* centered stick does not cancel it.                                      *)
ManeuverOwnsMailbox ==
  [][TickEnds /\ maneuver = "wiggle" /\ cmd = Stop /\ HasCommand
       /\ mode # "EMERGENCY" /\ ~edges.ground => maneuver' = "wiggle"]_vars

(* expression_task.h 62-64: the staged id goes to the link exactly once    *)
(* per stage, and a refused send keeps the latch: a face that is not       *)
(* waiting has been handed over.                                           *)
FaceHandedOver == hasStaged \/ head = face

(* coordinator.h 516-517: the MANUAL session holds while the paired peer   *)
(* stays alive-fresh (and did not release it).                             *)
SessionHolds ==
  [][sysMode = "MANUAL" /\ sysMode' # "MANUAL" /\ ~seen => peer # "live"]_vars
=============================================================================
