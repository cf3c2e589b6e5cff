----------------------------- MODULE Coordinator -----------------------------
(***************************************************************************)
(* The Core 1 behaviour loop of the core firmware (behavior/coordinator.h) *)
(* with everything it reads and writes: the event bus queue, the sensor    *)
(* task's last published levels, the pairing session the radio task writes *)
(* on Core 0, the motion mailbox (motion/motion_controller.h) and the      *)
(* expression latches that the main loop pumps.                            *)
(*                                                                         *)
(* The loop body is cut where another task can run and be observed: the    *)
(* wake up (which fixes nowMs), each event drained, the end of the drain,  *)
(* the session reads, and the decision with all its effects.  On Core 1    *)
(* the sensor task and the main loop have a lower priority, so they step   *)
(* only while the coordinator sleeps; the radio task (Core 0) and the      *)
(* motion task (higher priority) step at any point.                        *)
(***************************************************************************)
EXTENDS Arbiter, Sequences

CONSTANTS
  Commands,            \* stick positions the app sends in DRIVE frames
  RailReadings,        \* fused ground levels the sensor task can evaluate
  ObstacleReadings,    \* outcomes of the ToF hysteresis band
  Triggers,            \* face ids the app sends in EXPR_TRIGGER frames
  QueueDepth,          \* slots of the subscriber queue (16 in the code)
  ExpressionAttached   \* expr_ # nullptr: the face owner is pinned

ASSUME CommandsAssumption == Commands \subseteq Stick
ASSUME ReadingsAssumption ==
  RailReadings \subseteq Rails /\ ObstacleReadings \subseteq BOOLEAN
ASSUME TriggersAssumption == Triggers \subseteq Face \cup {"unknown"}
ASSUME QueueDepthAssumption == QueueDepth \in Nat \ {0}
ASSUME AttachedAssumption == ExpressionAttached \in BOOLEAN

VARIABLES
  queue,       \* private event queue of the coordinator's subscription
  dropped,     \* s_dropped > 0: the full queue has refused an event
  sensed,      \* sensor task: last published ground levels
  sensedNear,  \* sensor task: lastObstacle_
  pc,          \* where the loop body stands
  edges,       \* locals of the loop body, reset on every tick
  seen,        \* local "pending" of the consume-on-read flags
  gnd,         \* gndFwd_, gndRev_
  near,        \* obstacleAsserted_
  cmd,         \* cmdV_, cmdOmega_
  cmdAge,      \* hasCmd_ and lastCmdMs_ against kStaleMs
  mode,        \* mode_ (emergencyLatched_ always equals mode = "EMERGENCY")
  active,      \* active_
  sysMode,     \* sysMode_.mode
  claim,       \* hasSafety_, lastSafety_
  face,        \* expression manager's active id; staged_ and bundle_ repeat it
  hasStaged,   \* face waits for the link to the head
  hasBundle,   \* face waits for its sound and motion
  head,        \* last face handed to the link
  pump,        \* where the main loop stands inside the two pumps
  mailbox,     \* cmd_ of the motion controller
  maneuver,    \* maneuver_ of the motion controller
  peer,        \* pairing session as the loop reads it
  ahead,       \* lastAliveMs_ lies past the tick's nowMs
  take,        \* manualTakePending_
  release,     \* manualReleasePending_
  trigger      \* exprTriggerPending_, exprTriggerId_

busVars     == <<queue, dropped>>
sensorVars  == <<sensed, sensedNear>>
drainVars   == <<edges, seen, gnd, near, cmd, cmdAge>>
intentVars  == <<mode, active, sysMode>>
faceVars    == <<claim, face, hasStaged, hasBundle>>
pumpVars    == <<head, pump>>
motionVars  == <<mailbox, maneuver>>
stagedVars  == <<take, release, trigger>>
sessionVars == <<peer, ahead, take, release, trigger>>

vars == <<busVars, sensorVars, pc, drainVars, intentVars, faceVars, pumpVars,
          motionVars, sessionVars>>

Event ==
  [type : {"ground"}, rails : Rails]
    \cup [type : {"obstacle"}, near : BOOLEAN]
    \cup [type : {"command"}, stick : Stick]
    \cup [type : {"done", "started"}, id : BehaviorId]

NoEdges ==
  [ground |-> FALSE, clear |-> FALSE, near |-> FALSE, far |-> FALSE,
   fresh |-> FALSE, done |-> "NONE"]

Init ==
  /\ queue = <<>> /\ dropped = FALSE
  /\ sensed = Level /\ sensedNear = FALSE
  /\ pc = "sleep" /\ edges = NoEdges /\ seen = FALSE
  /\ gnd = Level /\ near = FALSE
  /\ cmd = Stop /\ cmdAge = "none"
  /\ mode = "MANUAL" /\ active = "NONE" /\ sysMode = "NORMAL"
  /\ claim = NoFace /\ face = "boot"
  /\ hasStaged = FALSE /\ hasBundle = FALSE
  /\ head = "boot" /\ pump = "idle"
  /\ mailbox = Stop /\ maneuver = "idle"
  /\ peer \in {"none", "lapsed"}      \* unpaired, or restored from flash
  /\ ahead = FALSE
  /\ take = FALSE /\ release = FALSE /\ trigger = NoFace

-----------------------------------------------------------------------------
(* Event bus.  A full queue drops the new event and counts it.             *)

Publish_NeverFull(e) == queue' = Append(queue, e) /\ UNCHANGED dropped

Publish_Overwrite(e) ==
  /\ queue' = Append(IF Len(queue) < QueueDepth THEN queue ELSE Tail(queue), e)
  /\ UNCHANGED dropped

Publish(e) ==
  /\ queue' = IF Len(queue) < QueueDepth THEN Append(queue, e) ELSE queue
  /\ dropped' = (dropped \/ Len(queue) >= QueueDepth)

-----------------------------------------------------------------------------
(* Sensor task: one event per change of the fused levels.                  *)

Asleep == pc = "sleep"

SenseGround ==
  /\ Asleep
  /\ \E r \in RailReadings :
       /\ r # sensed
       /\ sensed' = r
       /\ Publish([type |-> "ground", rails |-> r])
  /\ UNCHANGED <<sensedNear, pc, drainVars, intentVars, faceVars, pumpVars,
                 motionVars, sessionVars>>

SenseObstacle ==
  /\ Asleep
  /\ \E o \in ObstacleReadings :
       /\ o # sensedNear
       /\ sensedNear' = o
       /\ Publish([type |-> "obstacle", near |-> o])
  /\ UNCHANGED <<sensed, pc, drainVars, intentVars, faceVars, pumpVars,
                 motionVars, sessionVars>>

-----------------------------------------------------------------------------
(* The pairing session, written on Core 0 and by the pair button.  peer is *)
(* "none" (unpaired), "window" (unpaired, code on display), "live" (paired *)
(* and alive-fresh) or "lapsed" (paired, silent past the alive window or   *)
(* dropped by a goodbye).                                                  *)

Paired == peer \in {"live", "lapsed"}

IsAliveFresh_PairSuffices == Paired

(* The alive test is (nowMs - lastMs_) <= window in unsigned arithmetic: a *)
(* stamp later than the tick's nowMs wraps to a huge age and reads stale.  *)
IsAliveFresh == peer = "live" /\ ~ahead

(* A frame stamped inside a tick may carry a later millisecond than the    *)
(* nowMs the tick took when it woke.                                       *)
MarkAlive ==
  /\ peer' = "live"
  /\ \/ ahead' = ahead
     \/ ~Asleep /\ pc # "act" /\ ahead' = TRUE

SessionStep ==
  UNCHANGED <<sensorVars, pc, drainVars, intentVars, faceVars, pumpVars, motionVars>>

Drive ==
  /\ Paired
  /\ MarkAlive
  /\ \E s \in Commands : Publish([type |-> "command", stick |-> s])
  /\ UNCHANGED stagedVars
  /\ SessionStep

Keepalive ==
  /\ Paired
  /\ MarkAlive
  /\ UNCHANGED <<busVars, stagedVars>>
  /\ SessionStep

ManualTake ==
  /\ Paired
  /\ MarkAlive
  /\ take' = TRUE
  /\ UNCHANGED <<busVars, release, trigger>>
  /\ SessionStep

ManualRelease ==
  /\ Paired
  /\ release' = TRUE
  /\ UNCHANGED <<busVars, peer, ahead, take, trigger>>
  /\ SessionStep

ExprTrigger ==
  /\ Paired
  /\ MarkAlive
  /\ trigger' \in Triggers
  /\ UNCHANGED <<busVars, take, release>>
  /\ SessionStep

Disconnect ==
  /\ Paired
  /\ peer' = "lapsed" /\ ahead' = FALSE
  /\ UNCHANGED <<busVars, stagedVars>>
  /\ SessionStep

ForgetSession ==
  ahead' = FALSE /\ take' = FALSE /\ release' = FALSE /\ trigger' = NoFace

Unpair ==
  /\ Paired
  /\ peer' = "none"
  /\ ForgetSession
  /\ UNCHANGED busVars
  /\ SessionStep

(* enterPairMode, from the main loop: clear the pair, open a window.       *)
PairButton ==
  /\ Asleep
  /\ peer' = "window"
  /\ ForgetSession
  /\ UNCHANGED busVars
  /\ SessionStep

(* PAIR_REQ with the right code: the peer is pinned but no alive stamp is  *)
(* taken.  When saving or sealing the key fails the code is burned anyway. *)
PairReq ==
  /\ peer = "window"
  /\ peer' \in {"lapsed", "none"}
  /\ UNCHANGED <<busVars, ahead, stagedVars>>
  /\ SessionStep

(* Time, as the next tick's nowMs will read it. *)
WindowCloses ==
  /\ Asleep /\ peer = "window"
  /\ peer' = "none"
  /\ UNCHANGED <<busVars, ahead, stagedVars>>
  /\ SessionStep

AliveLapses ==
  /\ Asleep /\ peer = "live"
  /\ peer' = "lapsed"
  /\ UNCHANGED <<busVars, ahead, stagedVars>>
  /\ SessionStep

CommandLapses ==
  /\ Asleep /\ cmdAge = "fresh"
  /\ cmdAge' = "stale"
  /\ UNCHANGED <<busVars, sensorVars, pc, edges, seen, gnd, near, cmd, intentVars,
                 faceVars, pumpVars, motionVars, sessionVars>>

Session ==
  \/ Drive \/ Keepalive \/ ManualTake \/ ManualRelease \/ ExprTrigger
  \/ Disconnect \/ Unpair \/ PairButton \/ PairReq
  \/ WindowCloses \/ AliveLapses \/ CommandLapses

-----------------------------------------------------------------------------
(* Coordinator tick.                                                       *)

Wake ==
  /\ Asleep
  /\ pc' = "drain"
  /\ UNCHANGED <<busVars, sensorVars, drainVars, intentVars, faceVars, pumpVars,
                 motionVars, sessionVars>>

Receive(type) ==
  /\ pc = "drain" /\ queue # <<>>
  /\ Head(queue).type = type
  /\ queue' = Tail(queue)
  /\ UNCHANGED <<dropped, sensorVars, pc, intentVars, faceVars, pumpVars,
                 motionVars, sessionVars>>

LossEdge_BothRails(r) == ~r.fwd /\ ~r.rev /\ (gnd.fwd \/ gnd.rev)

(* A fresh 1 -> 0 on either rail. *)
LossEdge(r) == (gnd.fwd /\ ~r.fwd) \/ (gnd.rev /\ ~r.rev)

DrainGround ==
  /\ Receive("ground")
  /\ LET r == Head(queue).rails
     IN  /\ edges' = IF LossEdge(r) THEN [edges EXCEPT !.ground = TRUE]
                     ELSE IF GroundLost(gnd) /\ ~GroundLost(r)
                          THEN [edges EXCEPT !.clear = TRUE]
                          ELSE edges
         /\ gnd' = r
  /\ UNCHANGED <<seen, near, cmd, cmdAge>>

DrainObstacle ==
  /\ Receive("obstacle")
  /\ near' = Head(queue).near
  /\ edges' = IF near' THEN [edges EXCEPT !.near = TRUE]
                       ELSE [edges EXCEPT !.far = TRUE]
  /\ UNCHANGED <<seen, gnd, cmd, cmdAge>>

DrainCommand ==
  /\ Receive("command")
  /\ cmd' = Head(queue).stick
  /\ cmdAge' = "fresh"
  /\ edges' = [edges EXCEPT !.fresh = TRUE]
  /\ UNCHANGED <<seen, gnd, near>>

DrainDone ==
  /\ Receive("done")
  /\ edges' = [edges EXCEPT !.done = Head(queue).id]
  /\ UNCHANGED <<seen, gnd, near, cmd, cmdAge>>

DrainStarted ==
  /\ Receive("started")
  /\ UNCHANGED drainVars

DrainEvent ==
  DrainGround \/ DrainObstacle \/ DrainCommand \/ DrainDone \/ DrainStarted

DrainEnds ==
  /\ pc = "drain" /\ queue = <<>>
  /\ pc' = "feed"
  /\ UNCHANGED <<busVars, sensorVars, drainVars, intentVars, faceVars, pumpVars,
                 motionVars, sessionVars>>

(* Mode policy feed: the window and paired reads, the staged take, the     *)
(* staged release, the alive clock.  Each flag is read and then cleared    *)
(* with Core 0 free to store into it in between.                           *)
FeedStep ==
  UNCHANGED <<busVars, sensorVars, edges, gnd, near, cmd, cmdAge, mode, active, faceVars,
              pumpVars, motionVars, peer, trigger>>

FeedWindow ==
  /\ pc = "feed" /\ pc' = "take"
  /\ sysMode' = ModeApply(sysMode, IF peer = "window" THEN "PairWindowOpened"
                                   ELSE IF Paired THEN "Paired" ELSE "PairWindowClosed")
  /\ seen' = take
  /\ UNCHANGED <<ahead, take, release>>
  /\ FeedStep

TakeManualTake ==
  /\ pc = "take" /\ pc' = "release"
  /\ take' = FALSE
  /\ sysMode' = IF seen THEN ModeApply(sysMode, "ManualTakeGranted") ELSE sysMode
  /\ seen' = release
  /\ UNCHANGED <<ahead, release>>
  /\ FeedStep

TakeManualRelease ==
  /\ pc = "release" /\ pc' = "act"
  /\ release' = FALSE
  /\ LET released == IF seen THEN ModeApply(sysMode, "ManualReleaseGranted") ELSE sysMode
     IN  sysMode' = IF IsAliveFresh THEN released ELSE ModeApply(released, "AliveStale")
  /\ seen' = FALSE /\ ahead' = FALSE
  /\ UNCHANGED take
  /\ FeedStep

FeedSession == FeedWindow \/ TakeManualTake \/ TakeManualRelease

Stale_NeverAges == cmdAge = "none"

Stale == cmdAge # "fresh"

(* motionInhibited returns the stale test in every mode. *)
HasCommand == ~Stale /\ ManualDriveAllowed(sysMode, Paired)

Intent ==
  Arbitrate([mode |-> mode, active |-> active, groundEvent |-> edges.ground, gnd |-> gnd,
             cmd |-> cmd, hasCommand |-> HasCommand, fresh |-> edges.fresh,
             stale |-> Stale, done |-> edges.done])

ApplyMotion(out) ==
  IF out.motion = "hold"
  THEN UNCHANGED motionVars
  ELSE mailbox' = out.stick /\ maneuver' = "idle"

(* The safety face on a hazard edge, then the app's trigger.               *)
SafetyEdge == edges.ground \/ edges.near \/ edges.clear \/ edges.far

RequestFaces ==
  LET plan     == ResolveSafetyEdge(DesiredSafetyFace(gnd, near), claim, face)
      start    == IF SafetyEdge /\ plan.release THEN "boot" ELSE face
      safe     == SafetyEdge /\ Accepts(plan.ask, start)
      afterSafe == IF safe THEN plan.ask ELSE start
      asked    == ExprTriggerAllowed(sysMode) /\ Accepts(trigger, afterSafe)
      staged   == safe \/ asked \/ (SafetyEdge /\ plan.release)
  IN  /\ face' = IF asked THEN trigger ELSE afterSafe
      /\ claim' = IF safe \/ (SafetyEdge /\ plan.ask = NoFace) THEN plan.claim ELSE claim
      /\ hasStaged' = (hasStaged \/ staged)
      /\ hasBundle' = (hasBundle \/ staged)
      /\ trigger' = NoFace

PublishStarted(next) ==
  IF next # active /\ next # "NONE"
  THEN Publish([type |-> "started", id |-> next])
  ELSE UNCHANGED busVars

Decide ==
  /\ pc = "act"
  /\ pc' = "sleep"
  /\ ApplyMotion(Intent)
  /\ IF ExpressionAttached THEN RequestFaces ELSE UNCHANGED <<faceVars, trigger>>
  /\ PublishStarted(Intent.active)
  /\ mode' = Intent.mode
  /\ active' = Intent.active
  /\ edges' = NoEdges
  /\ UNCHANGED <<sensorVars, seen, gnd, near, cmd, cmdAge, sysMode, pumpVars, peer, ahead,
                 take, release>>

-----------------------------------------------------------------------------
(* Main loop pumps: sound and motion of the staged bundle, then the staged *)
(* id to the head.  Each may be preempted between two of its stores.       *)

PumpStep == UNCHANGED <<busVars, sensorVars, pc, drainVars, intentVars, sessionVars>>

ConductTake ==
  /\ Asleep /\ pump = "idle" /\ hasBundle
  /\ hasBundle' = FALSE
  /\ pump' = "taken"
  /\ UNCHANGED <<claim, face, hasStaged, head, motionVars>>
  /\ PumpStep

ConductStop ==
  /\ Asleep /\ pump = "taken"
  /\ mailbox' = Stop /\ maneuver' = "idle"
  /\ pump' = IF face \in Wiggles THEN "cued" ELSE "idle"
  /\ UNCHANGED <<faceVars, head>>
  /\ PumpStep

ConductWiggle ==
  /\ Asleep /\ pump = "cued"
  /\ maneuver' = "wiggle"
  /\ pump' = "idle"
  /\ UNCHANGED <<faceVars, head, mailbox>>
  /\ PumpStep

(* A refused send is no step: the latch stays up for the next loop.        *)
DispatchSend ==
  /\ Asleep /\ pump = "idle" /\ hasStaged
  /\ head' = face
  /\ pump' = "sent"
  /\ UNCHANGED <<faceVars, motionVars>>
  /\ PumpStep

DispatchClear ==
  /\ Asleep /\ pump = "sent"
  /\ hasStaged' = FALSE
  /\ pump' = "idle"
  /\ UNCHANGED <<claim, face, hasBundle, head, motionVars>>
  /\ PumpStep

Pump == ConductTake \/ ConductStop \/ ConductWiggle \/ DispatchSend \/ DispatchClear

(* Motion task: a wiggle that ran its time goes idle and reports DONE.     *)
WiggleExpires ==
  /\ maneuver = "wiggle"
  /\ maneuver' = "idle"
  /\ Publish([type |-> "done", id |-> "HAPPY_WIGGLE"])
  /\ UNCHANGED <<sensorVars, pc, drainVars, intentVars, faceVars, pumpVars,
                 mailbox, sessionVars>>

-----------------------------------------------------------------------------
Next ==
  \/ SenseGround \/ SenseObstacle
  \/ Session
  \/ Wake \/ DrainEvent \/ DrainEnds \/ FeedSession \/ Decide
  \/ Pump \/ WiggleExpires

Spec == Init /\ [][Next]_vars

(* The 20 ms coordinator period always elapses and its body always runs    *)
(* on; it empties its queue faster than the radio refills it, so the drain *)
(* ends.  The main loop runs whenever the higher tasks sleep, and no timed *)
(* maneuver outlasts its duration.                                         *)
Fairness ==
  /\ WF_vars(Wake) /\ WF_vars(DrainEvent) /\ SF_vars(DrainEnds)
  /\ WF_vars(FeedSession) /\ WF_vars(Decide)
  /\ SF_vars(ConductTake) /\ SF_vars(ConductStop) /\ SF_vars(ConductWiggle)
  /\ SF_vars(DispatchSend) /\ SF_vars(DispatchClear)
  /\ WF_vars(WiggleExpires)

FairSpec == Spec /\ Fairness
=============================================================================
