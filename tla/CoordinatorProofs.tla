-------------------------- MODULE CoordinatorProofs --------------------------
(***************************************************************************)
(* The coordinator's promises, for every set of sticks, readings and       *)
(* triggers and every queue depth.                                         *)
(***************************************************************************)
EXTENDS CoordinatorProperties, TLAPS

(* The catalogue rows the safety plan names, and their order.              *)
LEMMA Catalogue ==
  /\ {"boot", "blink", "angry", "scared"} \subseteq Face
  /\ NoFace \notin Face
  /\ "boot" \in Neutral
  /\ \A f \in Face : Priority[f] \in 0..9
  /\ Priority["boot"] = 0
BY DEF Face, Priority, NoFace, Neutral

(* Decisions of the arbitrator are well formed.                            *)
LEMMA ArbitrateType ==
  ASSUME NEW in,
         in.mode \in RobotMode, in.active \in BehaviorId, in.cmd \in Stick
  PROVE  /\ Arbitrate(in).mode \in RobotMode
         /\ Arbitrate(in).active \in BehaviorId
         /\ Arbitrate(in).stick \in Stick
<1>1. Stop \in Stick /\ Vetoed(in.cmd, in.gnd) \in Stick
  BY DEF Vetoed, Stick, Stop, Axis
<1> QED
  BY <1>1 DEF Arbitrate, EnterEmergency, Latched, Unlatched, Decision, RobotMode, BehaviorId

(* So is the intent the tick computes from its own state.                  *)
LEMMA IntentType ==
  ASSUME TypeDrain, TypeIntent
  PROVE  /\ Intent.mode \in RobotMode
         /\ Intent.active \in BehaviorId
         /\ Intent.stick \in Stick
BY ArbitrateType DEF TypeDrain, TypeIntent, Intent

(* The bus keeps the queue well formed and within its depth.               *)
LEMMA PublishType ==
  ASSUME TypeBus, NEW e \in Event, Publish(e)
  PROVE  TypeBus'
BY QueueDepthAssumption DEF TypeBus, Publish

(* The mode policy stays within the four system modes.                     *)
LEMMA ModeType ==
  ASSUME NEW m \in SysMode, NEW e
  PROVE  ModeApply(m, e) \in SysMode
BY DEF ModeApply, Ends, SysMode

(* A group of variables that a step leaves alone keeps its type.           *)
LEMMA Frame ==
  /\ TypeBus /\ UNCHANGED busVars => TypeBus'
  /\ TypeSensor /\ UNCHANGED sensorVars => TypeSensor'
  /\ TypePc /\ UNCHANGED pc => TypePc'
  /\ TypeDrain /\ UNCHANGED drainVars => TypeDrain'
  /\ TypeIntent /\ UNCHANGED intentVars => TypeIntent'
  /\ TypeFace /\ UNCHANGED faceVars => TypeFace'
  /\ TypePump /\ UNCHANGED pumpVars => TypePump'
  /\ TypeMotion /\ UNCHANGED motionVars => TypeMotion'
  /\ TypeSession /\ UNCHANGED sessionVars => TypeSession'
<1>1. TypeBus /\ UNCHANGED busVars => TypeBus'
  BY DEF TypeBus, busVars
<1>2. TypeSensor /\ UNCHANGED sensorVars => TypeSensor'
  BY DEF TypeSensor, sensorVars
<1>3. TypePc /\ UNCHANGED pc => TypePc'
  BY DEF TypePc
<1>4. TypeDrain /\ UNCHANGED drainVars => TypeDrain'
  BY DEF TypeDrain, TypeEdges, drainVars
<1>5. TypeIntent /\ UNCHANGED intentVars => TypeIntent'
  BY DEF TypeIntent, intentVars
<1>6. TypeFace /\ UNCHANGED faceVars => TypeFace'
  BY DEF TypeFace, faceVars
<1>7. TypePump /\ UNCHANGED pumpVars => TypePump'
  BY DEF TypePump, pumpVars
<1>8. TypeMotion /\ UNCHANGED motionVars => TypeMotion'
  BY DEF TypeMotion, motionVars
<1>9. TypeSession /\ UNCHANGED sessionVars => TypeSession'
  BY DEF TypeSession, sessionVars
<1> QED
  BY <1>1, <1>2, <1>3, <1>4, <1>5, <1>6, <1>7, <1>8, <1>9

-----------------------------------------------------------------------------
(* Type correctness: one lemma per group of actions.                       *)

(* The state after begin() is well typed.                                  *)
LEMMA InitType == Init => TypeOK
<1> SUFFICES ASSUME Init PROVE TypeOK
  OBVIOUS
<1> USE DEF Init
<1>1. TypeBus
  <2>1. <<>> \in Seq(Event) /\ Len(<<>>) = 0
    OBVIOUS
  <2>2. 0 <= QueueDepth
    BY QueueDepthAssumption
  <2> QED
    BY <2>1, <2>2, Zenon DEF TypeBus
<1>2. TypeSensor /\ TypePc
  BY DEF TypeSensor, TypePc, Rails, Level
<1>3. TypeDrain
  BY DEF TypeDrain, TypeEdges, NoEdges, BehaviorId, Rails, Level, Stick, Stop, Axis
<1>4. TypeIntent
  BY DEF TypeIntent, RobotMode, BehaviorId, SysMode
<1>5. TypeFace /\ TypePump
  BY Catalogue DEF TypeFace, TypePump
<1>6. TypeMotion
  BY DEF TypeMotion, Stick, Stop, Axis
<1>7. TypeSession
  BY DEF TypeSession
<1> QED
  BY <1>1, <1>2, <1>3, <1>4, <1>5, <1>6, <1>7 DEF TypeOK

(* A sensor publish keeps the types.                                       *)
LEMMA SensorType == TypeOK /\ (SenseGround \/ SenseObstacle) => TypeOK'
<1> SUFFICES ASSUME TypeOK, SenseGround \/ SenseObstacle PROVE TypeOK'
  OBVIOUS
<1> USE DEF TypeOK
<1>1. TypeSensor' /\ TypeBus'
  <2>1. CASE SenseGround
    <3>1. PICK r \in RailReadings : sensed' = r /\ Publish([type |-> "ground", rails |-> r])
      BY <2>1 DEF SenseGround
    <3>2. r \in Rails /\ [type |-> "ground", rails |-> r] \in Event
      BY ReadingsAssumption DEF Event
    <3> QED
      BY <2>1, <3>1, <3>2, PublishType DEF SenseGround, TypeSensor
  <2>2. CASE SenseObstacle
    <3>1. PICK o \in ObstacleReadings :
            sensedNear' = o /\ Publish([type |-> "obstacle", near |-> o])
      BY <2>2 DEF SenseObstacle
    <3>2. o \in BOOLEAN /\ [type |-> "obstacle", near |-> o] \in Event
      BY ReadingsAssumption DEF Event
    <3> QED
      BY <2>2, <3>1, <3>2, PublishType DEF SenseObstacle, TypeSensor
  <2> QED
    BY <2>1, <2>2
<1>2. UNCHANGED <<pc, drainVars, intentVars, faceVars, pumpVars, motionVars, sessionVars>>
  BY DEF SenseGround, SenseObstacle
<1> QED
  BY <1>1, <1>2, Frame

(* A frame, a button press or a lapse keeps the types.                     *)
LEMMA SessionType == TypeOK /\ Session => TypeOK'
<1> SUFFICES ASSUME TypeOK, Session PROVE TypeOK'
  OBVIOUS
<1> USE DEF TypeOK
<1>1. CASE CommandLapses
  <2>1. TypeDrain'
    BY <1>1 DEF CommandLapses, TypeDrain, TypeEdges
  <2>2. UNCHANGED <<busVars, sensorVars, pc, intentVars, faceVars, pumpVars, motionVars,
                    sessionVars>>
    BY <1>1 DEF CommandLapses
  <2> QED
    BY <2>1, <2>2, Frame
<1>2. CASE ~CommandLapses
  <2>1. SessionStep
    BY <1>2 DEF Session, Drive, Keepalive, ManualTake, ManualRelease, ExprTrigger, Disconnect,
                Unpair, PairButton, PairReq, WindowCloses, AliveLapses
  <2>2. CASE Drive
    <3>1. PICK s \in Commands : Publish([type |-> "command", stick |-> s])
      BY <2>2 DEF Drive
    <3>2. [type |-> "command", stick |-> s] \in Event
      BY CommandsAssumption DEF Event
    <3>3. TypeBus'
      BY <3>1, <3>2, PublishType
    <3>4. TypeSession'
      BY <2>2 DEF Drive, MarkAlive, TypeSession, stagedVars
    <3> QED
      BY <2>1, <3>3, <3>4, Frame DEF SessionStep
  <2>3. CASE ~Drive
    <3>1. UNCHANGED busVars
      BY <1>2, <2>3 DEF Session, Keepalive, ManualTake, ManualRelease, ExprTrigger, Disconnect,
                  Unpair, PairButton, PairReq, WindowCloses, AliveLapses
    <3>2. TypeSession'
      <4>1. CASE Keepalive \/ ManualTake \/ ManualRelease
        BY <4>1 DEF Keepalive, ManualTake, ManualRelease, MarkAlive, TypeSession, stagedVars
      <4>2. CASE ExprTrigger
        BY <4>2, TriggersAssumption DEF ExprTrigger, MarkAlive, TypeSession
      <4>3. CASE Disconnect \/ Unpair \/ PairButton
        BY <4>3 DEF Disconnect, Unpair, PairButton, ForgetSession, TypeSession, stagedVars
      <4>4. CASE PairReq \/ WindowCloses \/ AliveLapses
        BY <4>4 DEF PairReq, WindowCloses, AliveLapses, TypeSession, stagedVars
      <4> QED
        BY <1>2, <2>3, <4>1, <4>2, <4>3, <4>4 DEF Session
    <3> QED
      BY <2>1, <3>1, <3>2, Frame DEF SessionStep
  <2> QED
    BY <2>2, <2>3
<1> QED
  BY <1>1, <1>2

(* Draining one event keeps the types.                                     *)
LEMMA DrainType == TypeOK /\ DrainEvent => TypeOK'
<1> SUFFICES ASSUME TypeOK, DrainEvent PROVE TypeOK'
  OBVIOUS
<1> USE DEF TypeOK
<1>1. /\ queue # <<>> /\ queue' = Tail(queue)
      /\ UNCHANGED <<dropped, sensorVars, pc, intentVars, faceVars, pumpVars, motionVars,
                     sessionVars>>
  BY DEF DrainEvent, DrainGround, DrainObstacle, DrainCommand, DrainDone, DrainStarted, Receive
<1>2. Head(queue) \in Event /\ TypeBus'
  BY <1>1, QueueDepthAssumption DEF TypeBus
<1>3. /\ Head(queue).type = "ground" => Head(queue).rails \in Rails
      /\ Head(queue).type = "obstacle" => Head(queue).near \in BOOLEAN
      /\ Head(queue).type = "command" => Head(queue).stick \in Stick
      /\ Head(queue).type = "done" => Head(queue).id \in BehaviorId
  BY <1>2 DEF Event
<1>4. TypeDrain'
  <2>1. CASE DrainGround
    BY <1>3, <2>1 DEF DrainGround, Receive, TypeDrain, TypeEdges
  <2>2. CASE DrainObstacle
    BY <1>3, <2>2 DEF DrainObstacle, Receive, TypeDrain, TypeEdges
  <2>3. CASE DrainCommand
    BY <1>3, <2>3 DEF DrainCommand, Receive, TypeDrain, TypeEdges
  <2>4. CASE DrainDone
    BY <1>3, <2>4 DEF DrainDone, Receive, TypeDrain, TypeEdges
  <2>5. CASE DrainStarted
    BY <2>5, Frame DEF DrainStarted
  <2> QED
    BY <2>1, <2>2, <2>3, <2>4, <2>5 DEF DrainEvent
<1> QED
  BY <1>1, <1>2, <1>4, Frame

(* The session reads keep the types.                                       *)
LEMMA FeedType == TypeOK /\ FeedSession => TypeOK'
<1> SUFFICES ASSUME TypeOK, FeedSession PROVE TypeOK'
  OBVIOUS
<1> USE DEF TypeOK
<1>1. FeedStep
  BY DEF FeedSession, FeedWindow, TakeManualTake, TakeManualRelease
<1>2. TypeIntent'
  <2>1. CASE FeedWindow
    BY <1>1, <2>1, ModeType DEF FeedWindow, FeedStep, TypeIntent
  <2>2. CASE TakeManualTake
    BY <1>1, <2>2, ModeType DEF TakeManualTake, FeedStep, TypeIntent
  <2>3. CASE TakeManualRelease
    BY <1>1, <2>3, ModeType DEF TakeManualRelease, FeedStep, TypeIntent
  <2> QED
    BY <2>1, <2>2, <2>3 DEF FeedSession
<1>3. TypePc' /\ seen' \in BOOLEAN /\ ahead' \in BOOLEAN /\ take' \in BOOLEAN
        /\ release' \in BOOLEAN
  BY DEF FeedSession, FeedWindow, TakeManualTake, TakeManualRelease, TypePc, TypeSession
<1>4. TypeDrain' /\ TypeSession'
  BY <1>1, <1>3 DEF FeedStep, TypeDrain, TypeEdges, TypeSession
<1> QED
  BY <1>1, <1>2, <1>3, <1>4, Frame DEF FeedStep

(* A decision with all its effects keeps the types.                        *)
LEMMA DecideType == TypeOK /\ Decide => TypeOK'
<1> SUFFICES ASSUME TypeOK, Decide PROVE TypeOK'
  OBVIOUS
<1> USE DEF TypeOK
<1>1. /\ UNCHANGED <<sensorVars, seen, gnd, near, cmd, cmdAge, sysMode, pumpVars, peer,
                     ahead, take, release>>
      /\ mode' = Intent.mode /\ active' = Intent.active
      /\ edges' = NoEdges /\ pc' = "sleep"
  BY DEF Decide
<1>2. TypeBus'
  <2>1. CASE Intent.active # active /\ Intent.active # "NONE"
    <3>1. [type |-> "started", id |-> Intent.active] \in Event
      BY IntentType DEF Event
    <3> QED
      BY <2>1, <3>1, PublishType DEF Decide, PublishStarted
  <2>2. CASE ~(Intent.active # active /\ Intent.active # "NONE")
    BY <2>2, Frame DEF Decide, PublishStarted
  <2> QED
    BY <2>1, <2>2
<1>3. TypePc' /\ TypeEdges' /\ TypeDrain'
  BY <1>1 DEF TypePc, TypeEdges, TypeDrain, NoEdges, BehaviorId
<1>4. TypeIntent'
  BY <1>1, IntentType DEF TypeIntent
<1>5. TypeMotion'
  BY IntentType DEF Decide, ApplyMotion, TypeMotion, motionVars
<1>6. TypeFace' /\ trigger' \in Face \cup {"unknown", NoFace}
  <2>1. CASE ~ExpressionAttached
    BY <2>1 DEF Decide, TypeFace, TypeSession, faceVars
  <2>2. CASE ExpressionAttached
    <3>1. RequestFaces
      BY <2>2 DEF Decide
    <3>2. \A f, g : Accepts(f, g) => f \in Face
      BY DEF Accepts
    <3>3. ResolveSafetyEdge(DesiredSafetyFace(gnd, near), claim, face).claim \in Face \cup {NoFace}
      BY Catalogue DEF ResolveSafetyEdge, DesiredSafetyFace
    <3> QED
      BY <3>1, <3>2, <3>3, Catalogue DEF RequestFaces, TypeFace, TypeSession
  <2> QED
    BY <2>1, <2>2
<1>7. TypeSession'
  BY <1>1, <1>6 DEF TypeSession
<1> QED
  BY <1>1, <1>2, <1>3, <1>4, <1>5, <1>6, <1>7, Frame

(* The main loop pumps keep the types.                                     *)
LEMMA PumpType == TypeOK /\ Pump => TypeOK'
<1> SUFFICES ASSUME TypeOK, Pump PROVE TypeOK'
  OBVIOUS
<1> USE DEF TypeOK
<1>1. PumpStep
  BY DEF Pump, ConductTake, ConductStop, ConductWiggle, DispatchSend, DispatchClear
<1>2. TypeFace'
  BY DEF Pump, ConductTake, ConductStop, ConductWiggle, DispatchSend, DispatchClear, TypeFace,
         faceVars
<1>3. TypePump'
  BY DEF Pump, ConductTake, ConductStop, ConductWiggle, DispatchSend, DispatchClear, TypeFace,
         TypePump
<1>4. TypeMotion'
  BY DEF Pump, ConductTake, ConductStop, ConductWiggle, DispatchSend, DispatchClear, TypeMotion,
         motionVars, Stick, Stop, Axis
<1> QED
  BY <1>1, <1>2, <1>3, <1>4, Frame DEF PumpStep

(* An expiring wiggle keeps the types.                                     *)
LEMMA WiggleType == TypeOK /\ WiggleExpires => TypeOK'
<1> SUFFICES ASSUME TypeOK, WiggleExpires PROVE TypeOK'
  OBVIOUS
<1> USE DEF TypeOK
<1>1. [type |-> "done", id |-> "HAPPY_WIGGLE"] \in Event
  BY DEF Event, BehaviorId
<1>2. TypeBus' /\ TypeMotion'
  BY <1>1, PublishType DEF WiggleExpires, TypeMotion
<1> QED
  BY <1>2, Frame DEF WiggleExpires

(* Waking up and ending the drain keep the types.                         *)
LEMMA StepType == TypeOK /\ (Wake \/ DrainEnds) => TypeOK'
<1> SUFFICES ASSUME TypeOK, Wake \/ DrainEnds PROVE TypeOK'
  OBVIOUS
<1>1. TypePc'
  BY DEF Wake, DrainEnds, TypePc
<1> QED
  BY <1>1, Frame DEF TypeOK, Wake, DrainEnds

(* Every step keeps the types.                                             *)
LEMMA NextType == TypeOK /\ [Next]_vars => TypeOK'
<1> SUFFICES ASSUME TypeOK, [Next]_vars PROVE TypeOK'
  OBVIOUS
<1>1. CASE UNCHANGED vars
  BY <1>1, Frame DEF vars, TypeOK
<1>2. CASE Next
  BY <1>2, SensorType, SessionType, DrainType, FeedType, DecideType, PumpType, WiggleType,
     StepType DEF Next
<1> QED
  BY <1>1, <1>2

(* Every reachable state has the types of the code, and the queue never    *)
(* outgrows the depth the subscription was created with.                   *)
THEOREM TypeCorrect == Spec => []TypeOK
BY InitType, NextType, PTL DEF Spec

-----------------------------------------------------------------------------
(* The drive gate and the latch veto.                                      *)

(* Steps that leave the sleeping loop's intent and mailbox alone, or wake  *)
(* it, or happen while it is awake, keep the gate.                         *)
LEMMA GateKept ==
  ASSUME SessionGate,
         pc' = "sleep" => pc = "sleep" /\ UNCHANGED <<cmd, gnd, mode, sysMode>>,
         mailbox' \in {mailbox, Stop}
  PROVE  SessionGate'
BY DEF SessionGate, Asleep

(* What the arbitrator may answer when it does not hold.                   *)
LEMMA IntentGate ==
  ASSUME TypeOK, active # "HAPPY_WIGGLE"
  PROVE  /\ Intent.motion # "hold" /\ Intent.active # "HAPPY_WIGGLE"
         /\ Intent.stick # Stop =>
              /\ HasCommand
              /\ Intent.stick = IF Intent.mode = "EMERGENCY" THEN Vetoed(cmd, gnd) ELSE cmd
BY DEF TypeOK, TypeIntent, RobotMode, Intent, Arbitrate, EnterEmergency, Latched, Unlatched,
       AfterDone, WantsDrive, Decision

(* The gate holds with the wheels stopped at boot.                         *)
LEMMA GateInit == Init => GateInv
BY InitType DEF Init, GateInv, SessionGate

(* A decision restores the gate for the sleep that follows it.             *)
LEMMA GateDecide == GateInv /\ Decide => SessionGate' /\ active' # "HAPPY_WIGGLE"
<1> SUFFICES ASSUME GateInv, Decide PROVE SessionGate' /\ active' # "HAPPY_WIGGLE"
  OBVIOUS
<1>1. /\ mailbox' = Intent.stick /\ mode' = Intent.mode /\ active' = Intent.active
      /\ UNCHANGED <<cmd, gnd, sysMode>>
  BY IntentGate DEF GateInv, Decide, ApplyMotion
<1>2. HasCommand => sysMode = "MANUAL"
  BY DEF HasCommand, ManualDriveAllowed
<1> QED
  BY <1>1, <1>2, IntentGate DEF GateInv, SessionGate

(* Every step keeps the gate.                                              *)
LEMMA GateNext == GateInv /\ [Next]_vars => GateInv'
<1> SUFFICES ASSUME GateInv, [Next]_vars PROVE GateInv'
  OBVIOUS
<1> USE DEF GateInv
<1>1. TypeOK'
  BY NextType
<1>2. CASE Decide
  BY <1>1, <1>2, GateDecide
<1>3. CASE UNCHANGED vars
  BY <1>1, <1>3, GateKept DEF vars, drainVars, intentVars, motionVars
<1>4. CASE SenseGround \/ SenseObstacle
  BY <1>1, <1>4, GateKept DEF SenseGround, SenseObstacle, drainVars, intentVars, motionVars
<1>5. CASE Session
  <2>1. CASE CommandLapses
    BY <1>1, <2>1, GateKept DEF CommandLapses, intentVars, motionVars
  <2>2. CASE ~CommandLapses
    <3>1. SessionStep
      BY <1>5, <2>2 DEF Session, Drive, Keepalive, ManualTake, ManualRelease, ExprTrigger,
                        Disconnect, Unpair, PairButton, PairReq, WindowCloses, AliveLapses
    <3> QED
      BY <1>1, <3>1, GateKept DEF SessionStep, drainVars, intentVars, motionVars
  <2> QED
    BY <2>1, <2>2
<1>6. CASE Wake \/ DrainEnds
  BY <1>1, <1>6, GateKept DEF Wake, DrainEnds, intentVars, motionVars
<1>7. CASE DrainEvent
  BY <1>1, <1>7, GateKept
  DEF DrainEvent, DrainGround, DrainObstacle, DrainCommand, DrainDone, DrainStarted, Receive,
      intentVars, motionVars
<1>8. CASE FeedSession
  BY <1>1, <1>8, GateKept
  DEF FeedSession, FeedWindow, TakeManualTake, TakeManualRelease, FeedStep, motionVars
<1>9. CASE Pump
  <2>1. PumpStep /\ mailbox' \in {mailbox, Stop}
    BY <1>9 DEF Pump, ConductTake, ConductStop, ConductWiggle, DispatchSend, DispatchClear,
                motionVars
  <2> QED
    BY <1>1, <2>1, GateKept DEF PumpStep, drainVars, intentVars
<1>10. CASE WiggleExpires
  BY <1>1, <1>10, GateKept DEF WiggleExpires, drainVars, intentVars
<1> QED
  BY <1>2, <1>3, <1>4, <1>5, <1>6, <1>7, <1>8, <1>9, <1>10 DEF Next

(* Between two ticks the wheels follow the last stick, vetoed while the    *)
(* latch holds, and only under a MANUAL session.                           *)
THEOREM GateHolds == Spec => []SessionGate
<1>1. GateInv => SessionGate
  BY DEF GateInv
<1> QED
  BY GateInit, GateNext, <1>1, PTL DEF Spec

(* While EMERGENCY is latched the mailbox never translates over a rail     *)
(* without ground.                                                         *)
THEOREM VetoHolds == Spec => []LatchVeto
<1>1. GateInv => LatchVeto
  BY DEF GateInv, SessionGate, LatchVeto, TypeOK, TypeDrain, Stick, Axis, Stop, Vetoed
<1> QED
  BY GateInit, GateNext, <1>1, PTL DEF Spec

-----------------------------------------------------------------------------
(* Leaving the latch, and the tick that must stop.                         *)

(* Only a decision changes the mode, and only a decision ends a tick.      *)
LEMMA OnlyDecide == [Next]_vars => Decide \/ (UNCHANGED mode /\ ~TickEnds)
<1> SUFFICES ASSUME [Next]_vars, ~Decide PROVE UNCHANGED mode /\ ~TickEnds
  OBVIOUS
<1>1. CASE UNCHANGED vars
  BY <1>1 DEF vars, intentVars, TickEnds
<1>2. CASE SenseGround \/ SenseObstacle \/ Wake \/ DrainEnds \/ WiggleExpires
  BY <1>2 DEF SenseGround, SenseObstacle, Wake, DrainEnds, WiggleExpires, intentVars, TickEnds
<1>3. CASE Session
  <2>1. UNCHANGED <<pc, intentVars>>
    BY <1>3 DEF Session, Drive, Keepalive, ManualTake, ManualRelease, ExprTrigger, Disconnect,
                Unpair, PairButton, PairReq, WindowCloses, AliveLapses, CommandLapses, SessionStep
  <2> QED
    BY <2>1 DEF intentVars, TickEnds
<1>4. CASE DrainEvent
  BY <1>4 DEF DrainEvent, DrainGround, DrainObstacle, DrainCommand, DrainDone, DrainStarted,
              Receive, intentVars, TickEnds
<1>5. CASE FeedSession
  BY <1>5 DEF FeedSession, FeedWindow, TakeManualTake, TakeManualRelease, FeedStep, TickEnds
<1>6. CASE Pump
  <2>1. PumpStep
    BY <1>6 DEF Pump, ConductTake, ConductStop, ConductWiggle, DispatchSend, DispatchClear
  <2> QED
    BY <2>1 DEF PumpStep, intentVars, TickEnds
<1> QED
  BY <1>1, <1>2, <1>3, <1>4, <1>5, <1>6 DEF Next

(* The latch is left only by a command drained in the deciding tick, fresh *)
(* and permitted over the rails, under a paired app's MANUAL session.      *)
THEOREM ExitGuarded == Spec => EmergencyExit
<1> DEFINE Exit == mode = "EMERGENCY" /\ mode' # "EMERGENCY" =>
                     /\ edges.fresh /\ cmdAge = "fresh" /\ ~edges.ground
                     /\ Permitted(cmd, gnd)
                     /\ sysMode = "MANUAL" /\ Paired
<1>1. ASSUME Decide, mode = "EMERGENCY", mode' # "EMERGENCY" PROVE Exit
  <2>1. Intent.mode # "EMERGENCY"
    BY <1>1 DEF Decide
  <2>2. edges.fresh /\ HasCommand /\ ~edges.ground /\ Permitted(cmd, gnd)
    BY <1>1, <2>1 DEF Intent, Arbitrate, EnterEmergency, Latched, WantsDrive, Decision
  <2> QED
    BY <2>2 DEF HasCommand, Stale, ManualDriveAllowed
<1>2. [Next]_vars => [Exit]_vars
  BY <1>1, OnlyDecide
<1> QED
  BY <1>2, PTL DEF Spec, EmergencyExit

(* A tick without a fresh command, a pair and the MANUAL session stops the *)
(* wheels and cancels a wiggle.                                            *)
THEOREM StopsOutsideSession == Spec => TickStops
<1> DEFINE Halts == TickEnds /\ (cmdAge # "fresh" \/ ~Paired \/ sysMode # "MANUAL") =>
                      mailbox' = Stop /\ maneuver' = "idle"
<1>1. ASSUME Decide, cmdAge # "fresh" \/ ~Paired \/ sysMode # "MANUAL" PROVE Halts
  <2>1. ~HasCommand
    BY <1>1 DEF HasCommand, Stale, ManualDriveAllowed
  <2>2. Intent.motion # "hold" /\ Intent.stick = Stop
    BY <2>1 DEF Intent, Arbitrate, EnterEmergency, Latched, Unlatched, WantsDrive, Decision
  <2> QED
    BY <1>1, <2>2 DEF Decide, ApplyMotion
<1>2. [Next]_vars => [Halts]_vars
  BY <1>1, OnlyDecide
<1> QED
  BY <1>2, PTL DEF Spec, TickStops

-----------------------------------------------------------------------------
(* The safety claim.                                                       *)

(* Any edge makes the next decision claim what the levels call for: the    *)
(* step down releases first, so the catalogue never refuses it.            *)
LEMMA ClaimDecide ==
  ASSUME TypeOK, RequestFaces, SafetyEdge
  PROVE  claim' = DesiredSafetyFace(gnd, near)
<1> DEFINE want == DesiredSafetyFace(gnd, near)
           plan == ResolveSafetyEdge(want, claim, face)
           start == IF SafetyEdge /\ plan.release THEN "boot" ELSE face
<1>1. want \in {"scared", "angry", NoFace}
  BY DEF DesiredSafetyFace
<1>2. face \in Face
  BY DEF TypeOK, TypeFace
<1>3. CASE want # NoFace
  <2>1. plan.ask = want /\ plan.claim = want /\ (plan.release <=> Priority[want] < Priority[face])
    BY <1>3 DEF ResolveSafetyEdge
  <2>2. want \in Face /\ Priority[want] >= Priority[start]
    BY <1>1, <1>2, <1>3, <2>1, Catalogue
  <2>3. Accepts(plan.ask, start)
    BY <2>1, <2>2 DEF Accepts
  <2> QED
    BY <2>1, <2>3 DEF RequestFaces
<1>4. CASE want = NoFace
  <2>1. plan.claim = NoFace /\ plan.ask \in {"boot", NoFace}
    BY <1>4 DEF ResolveSafetyEdge
  <2>2. plan.ask = "boot" => Accepts(plan.ask, start)
    BY Catalogue DEF Accepts
  <2> QED
    BY <1>4, <2>1, <2>2 DEF RequestFaces
<1> QED
  BY <1>3, <1>4

(* A decision claims a safety face or none.                                *)
LEMMA ClaimKind ==
  ASSUME claim \in {"scared", "angry", NoFace}, RequestFaces
  PROVE  claim' \in {"scared", "angry", NoFace}
<1> DEFINE plan == ResolveSafetyEdge(DesiredSafetyFace(gnd, near), claim, face)
<1>1. plan.claim \in {"scared", "angry", NoFace}
  BY DEF ResolveSafetyEdge, DesiredSafetyFace
<1>2. claim' \in {claim, plan.claim}
  BY DEF RequestFaces
<1> QED
  BY <1>1, <1>2

(* At boot nothing is claimed and no level calls for a face.               *)
LEMMA ClaimInit == Init => ClaimInv
BY DEF Init, ClaimInv, DesiredSafetyFace, GroundLost, Level, NoEdges

(* An event that changes the levels raises the edge that will be decided.  *)
LEMMA ClaimDrain == TypeOK /\ ClaimInv /\ DrainEvent => ClaimInv'
<1> SUFFICES ASSUME TypeOK, ClaimInv, DrainEvent PROVE ClaimInv'
  OBVIOUS
<1>1. pc = "drain" /\ pc' = "drain" /\ UNCHANGED claim
  BY DEF DrainEvent, DrainGround, DrainObstacle, DrainCommand, DrainDone, DrainStarted, Receive,
         faceVars
<1>2. TypeEdges /\ gnd \in Rails /\ near \in BOOLEAN
  BY DEF TypeOK, TypeDrain
<1>3. CASE DrainGround
  <2>1. Head(queue).rails \in Rails /\ gnd' = Head(queue).rails /\ UNCHANGED near
    <3>1. TypeOK'
      BY NextType DEF Next
    <3> QED
      BY <1>3, <3>1 DEF DrainGround, TypeOK, TypeDrain
  <2>2. ~SafetyEdge' => ~SafetyEdge /\ (GroundLost(gnd) <=> GroundLost(gnd'))
    BY <1>2, <1>3, <2>1
    DEF DrainGround, SafetyEdge, TypeEdges, GroundLost, LossEdge, Rails
  <2> QED
    BY <1>1, <2>1, <2>2 DEF ClaimInv, DesiredSafetyFace, Asleep
<1>4. CASE DrainObstacle
  <2>1. SafetyEdge'
    BY <1>2, <1>4 DEF DrainObstacle, SafetyEdge, TypeEdges
  <2> QED
    BY <1>1, <2>1 DEF ClaimInv, Asleep
<1>5. CASE DrainCommand \/ DrainDone \/ DrainStarted
  <2>1. UNCHANGED <<gnd, near>> /\ (SafetyEdge' <=> SafetyEdge)
    BY <1>2, <1>5 DEF DrainCommand, DrainDone, DrainStarted, SafetyEdge, TypeEdges, drainVars
  <2> QED
    BY <1>1, <2>1 DEF ClaimInv, Asleep
<1> QED
  BY <1>3, <1>4, <1>5 DEF DrainEvent

(* Every step keeps the claim in line with the levels, or an edge waiting. *)
LEMMA ClaimNext == TypeOK /\ ClaimInv /\ [Next]_vars => ClaimInv'
<1> SUFFICES ASSUME TypeOK, ClaimInv, [Next]_vars PROVE ClaimInv'
  OBVIOUS
<1>1. ASSUME UNCHANGED <<edges, gnd, near, claim>>, Asleep' => Asleep PROVE ClaimInv'
  BY <1>1 DEF ClaimInv, SafetyEdge
<1>2. CASE UNCHANGED vars
  BY <1>1, <1>2 DEF vars, drainVars, faceVars, Asleep
<1>3. CASE SenseGround \/ SenseObstacle \/ Wake \/ DrainEnds \/ WiggleExpires
  BY <1>1, <1>3
  DEF SenseGround, SenseObstacle, Wake, DrainEnds, WiggleExpires, drainVars, faceVars, Asleep
<1>4. CASE Session
  <2>1. UNCHANGED <<pc, edges, gnd, near, faceVars>>
    <3>1. CASE CommandLapses
      BY <3>1 DEF CommandLapses
    <3>2. CASE SessionStep
      BY <3>2 DEF SessionStep, drainVars
    <3> QED
      BY <1>4, <3>1, <3>2
      DEF Session, Drive, Keepalive, ManualTake, ManualRelease, ExprTrigger, Disconnect, Unpair,
          PairButton, PairReq, WindowCloses, AliveLapses
  <2> QED
    BY <1>1, <2>1 DEF faceVars, Asleep
<1>5. CASE DrainEvent
  BY <1>5, ClaimDrain
<1>6. CASE FeedSession
  BY <1>1, <1>6
  DEF FeedSession, FeedWindow, TakeManualTake, TakeManualRelease, FeedStep, faceVars, Asleep
<1>7. CASE Pump
  BY <1>1, <1>7
  DEF Pump, ConductTake, ConductStop, ConductWiggle, DispatchSend, DispatchClear, PumpStep,
      drainVars, faceVars, Asleep
<1>8. CASE Decide
  <2>1. edges' = NoEdges /\ UNCHANGED <<gnd, near>> /\ claim' \in {"scared", "angry", NoFace}
    BY <1>8, ClaimKind DEF Decide, ClaimInv, faceVars
  <2>2. ASSUME ExpressionAttached PROVE claim' = DesiredSafetyFace(gnd, near)
    <3>1. RequestFaces
      BY <1>8, <2>2 DEF Decide
    <3>2. CASE SafetyEdge
      BY <3>1, <3>2, ClaimDecide
    <3>3. CASE ~SafetyEdge
      BY <2>2, <3>1, <3>3 DEF RequestFaces, ClaimInv
    <3> QED
      BY <3>2, <3>3
  <2> QED
    BY <2>1, <2>2 DEF ClaimInv
<1> QED
  BY <1>2, <1>3, <1>4, <1>5, <1>6, <1>7, <1>8 DEF Next

(* Once the face owner is attached, between two ticks the coordinator      *)
(* claims exactly the face that its ground and obstacle levels call for.   *)
THEOREM ClaimTracks == Spec => []ClaimTracksHazard
<1>1. ClaimInv => ClaimTracksHazard
  BY DEF ClaimInv, ClaimTracksHazard, SafetyEdge, NoEdges
<1> QED
  BY InitType, NextType, ClaimInit, ClaimNext, <1>1, PTL DEF Spec

-----------------------------------------------------------------------------
(* The face shown.                                                         *)

(* Two rows of the catalogue share a rank only when both are neutral.      *)
LEMMA RanksDiffer ==
  \A f, g \in Face : Priority[f] = Priority[g] => f = g \/ (f \in Neutral /\ g \in Neutral)
BY DEF Face, Priority, Neutral

(* Only a decision with the face owner attached changes the face.          *)
LEMMA OnlyRequest ==
  [Next]_vars => (Decide /\ ExpressionAttached /\ RequestFaces) \/ UNCHANGED <<claim, face>>
<1> SUFFICES ASSUME [Next]_vars, ~(Decide /\ ExpressionAttached /\ RequestFaces)
             PROVE  UNCHANGED <<claim, face>>
  OBVIOUS
<1>1. CASE UNCHANGED vars
  BY <1>1 DEF vars, faceVars
<1>2. CASE SenseGround \/ SenseObstacle \/ Wake \/ DrainEnds \/ WiggleExpires
  BY <1>2 DEF SenseGround, SenseObstacle, Wake, DrainEnds, WiggleExpires, faceVars
<1>3. CASE Session
  BY <1>3 DEF Session, Drive, Keepalive, ManualTake, ManualRelease, ExprTrigger, Disconnect,
              Unpair, PairButton, PairReq, WindowCloses, AliveLapses, CommandLapses, SessionStep,
              faceVars
<1>4. CASE DrainEvent
  BY <1>4 DEF DrainEvent, DrainGround, DrainObstacle, DrainCommand, DrainDone, DrainStarted,
              Receive, faceVars
<1>5. CASE FeedSession
  BY <1>5 DEF FeedSession, FeedWindow, TakeManualTake, TakeManualRelease, FeedStep, faceVars
<1>6. CASE Pump
  BY <1>6 DEF Pump, ConductTake, ConductStop, ConductWiggle, DispatchSend, DispatchClear, faceVars
<1>7. CASE Decide
  BY <1>7 DEF Decide, faceVars
<1> QED
  BY <1>1, <1>2, <1>3, <1>4, <1>5, <1>6, <1>7 DEF Next

(* What an edge leaves for the trigger: the wanted face, or with none      *)
(* wanted anything but the face that was claimed.                          *)
LEMMA EdgeFace ==
  ASSUME TypeOK, ClaimInv, RequestFaces, SafetyEdge
  PROVE  \E shown \in Face :
           /\ face' = shown \/ (face' = trigger /\ ExprTriggerAllowed(sysMode)
                                   /\ Accepts(trigger, shown))
           /\ claim' # NoFace => shown = claim'
           /\ claim' = NoFace /\ claim # NoFace => shown # claim
<1> DEFINE want == DesiredSafetyFace(gnd, near)
           plan == ResolveSafetyEdge(want, claim, face)
           start == IF SafetyEdge /\ plan.release THEN "boot" ELSE face
           shown == IF SafetyEdge /\ Accepts(plan.ask, start) THEN plan.ask ELSE start
<1>1. want \in {"scared", "angry", NoFace} /\ face \in Face /\ claim' = want
  BY ClaimDecide DEF DesiredSafetyFace, TypeOK, TypeFace
<1>2. face' = shown \/ (face' = trigger /\ ExprTriggerAllowed(sysMode) /\ Accepts(trigger, shown))
  BY DEF RequestFaces
<1>3. CASE want # NoFace
  <2>1. plan.ask = want /\ (plan.release <=> Priority[want] < Priority[face])
    BY <1>3 DEF ResolveSafetyEdge
  <2>2. Priority[want] >= Priority[start]
    BY <1>1, <1>3, <2>1, Catalogue
  <2>3. shown = want
    BY <1>1, <1>3, <2>1, <2>2, Catalogue DEF Accepts
  <2> QED
    BY <1>1, <1>2, <1>3, <2>3, Catalogue
<1>4. CASE want = NoFace
  <2>1. ~plan.release /\ plan.ask = IF claim # NoFace /\ face = claim THEN "boot" ELSE NoFace
    BY <1>4 DEF ResolveSafetyEdge
  <2>2. shown = IF claim # NoFace /\ face = claim THEN "boot" ELSE face
    BY <2>1, Catalogue DEF Accepts
  <2>3. shown \in Face /\ (claim # NoFace => shown # claim)
    BY <1>1, <2>2, Catalogue DEF ClaimInv
  <2> QED
    BY <1>1, <1>2, <1>4, <2>3
<1> QED
  BY <1>1, <1>3, <1>4

(* A tick with an edge and no trigger shows what it claims, and with the   *)
(* hazards gone no longer the face it claimed.                             *)
THEOREM FaceFollows == Spec => FaceFollowsHazard
<1> DEFINE Follows ==
      TickEnds /\ SafetyEdge /\ ExpressionAttached /\ trigger = NoFace =>
        IF claim' # NoFace THEN face' = claim' ELSE claim # NoFace => face' # claim
<1>1. ASSUME TypeOK, ClaimInv, [Next]_vars PROVE [Follows]_vars
  <2>1. CASE Decide /\ ExpressionAttached /\ SafetyEdge /\ trigger = NoFace
    <3>1. RequestFaces
      BY <2>1 DEF Decide
    <3>2. ~Accepts(trigger, face) /\ \A f \in Face : ~Accepts(trigger, f)
      BY <2>1, Catalogue DEF Accepts
    <3> QED
      BY <1>1, <2>1, <3>1, <3>2, EdgeFace
  <2>2. CASE ~(Decide /\ ExpressionAttached /\ SafetyEdge /\ trigger = NoFace)
    BY <1>1, <2>2, OnlyDecide
  <2> QED
    BY <2>1, <2>2
<1> QED
  BY InitType, NextType, ClaimInit, ClaimNext, <1>1, PTL DEF Spec, FaceFollowsHazard

(* While the claim stands its face yields only to a stronger one, or to a  *)
(* neutral one that the app asked for under MANUAL.                        *)
THEOREM FaceHeld == Spec => HazardFaceHeld
<1> DEFINE Held ==
      claim # NoFace /\ claim' = claim /\ face = claim /\ face' # face =>
        \/ Priority[face'] > Priority[face]
        \/ face' \in Neutral /\ face' = trigger /\ sysMode = "MANUAL"
<1>1. ASSUME TypeOK, ClaimInv, [Next]_vars,
             claim # NoFace, claim' = claim, face = claim, face' # face
      PROVE  Held
  <2>1. Decide /\ RequestFaces
    BY <1>1, OnlyRequest
  <2>2. face' = trigger /\ ExprTriggerAllowed(sysMode) /\ Accepts(trigger, face)
    <3>1. CASE SafetyEdge
      BY <1>1, <2>1, <3>1, EdgeFace
    <3>2. CASE ~SafetyEdge
      BY <1>1, <2>1, <3>2 DEF RequestFaces
    <3> QED
      BY <3>1, <3>2
  <2>3. trigger \in Face /\ face \in Face
    BY <1>1, <2>2 DEF Accepts, TypeOK, TypeFace
  <2>4. CASE trigger \in Neutral
    BY <2>2, <2>4 DEF ExprTriggerAllowed
  <2>5. CASE trigger \notin Neutral
    <3>1. Priority[trigger] >= Priority[face] /\ Priority[trigger] # Priority[face]
      BY <1>1, <2>2, <2>3, <2>5, RanksDiffer DEF Accepts
    <3>2. Priority[trigger] \in 0..9 /\ Priority[face] \in 0..9
      BY <2>3, Catalogue
    <3> QED
      BY <2>2, <3>1, <3>2
  <2> QED
    BY <2>4, <2>5
<1>2. TypeOK /\ ClaimInv /\ [Next]_vars => [Held]_vars
  BY <1>1
<1> QED
  BY InitType, NextType, ClaimInit, ClaimNext, <1>2, PTL DEF Spec, HazardFaceHeld

-----------------------------------------------------------------------------
(* The levels of the sensor task and of the coordinator agree.             *)

(* A published event: the one appended level is the sensor's new one, and  *)
(* every other level keeps its place.                                      *)
LEMMA AgreeAppend ==
  ASSUME TypeBus, LevelsAgree, NEW e \in Event, Publish(e), UNCHANGED <<gnd, near>>,
         sensed' = IF e.type = "ground" THEN e.rails ELSE sensed,
         sensedNear' = IF e.type = "obstacle" THEN e.near ELSE sensedNear
  PROVE  LevelsAgree'
<1> SUFFICES ASSUME ~dropped' PROVE LevelsAgree'
  BY DEF LevelsAgree
<1>1. ~dropped /\ queue' = Append(queue, e)
  <2>1. ~dropped /\ ~(Len(queue) >= QueueDepth)
    BY Zenon DEF Publish
  <2> QED
    BY <2>1, QueueDepthAssumption DEF Publish, TypeBus
<1> DEFINE n == Len(queue) + 1
<1>2. /\ DOMAIN queue = 1..Len(queue) /\ Len(queue) \in Nat /\ DOMAIN queue' = 1..n
      /\ queue'[n] = e /\ \A i \in DOMAIN queue : queue'[i] = queue[i]
  BY <1>1 DEF TypeBus
<1>3. ASSUME NEW type, NEW i, LastOf(type, i)'
      PROVE  \/ i = n /\ e.type = type
             \/ i \in DOMAIN queue /\ e.type # type /\ LastOf(type, i)
  <2>1. i \in 1..n /\ queue'[i].type = type /\ \A j \in 1..n : j > i => queue'[j].type # type
    BY <1>2, <1>3 DEF LastOf
  <2>2. CASE i # n
    <3>1. n > i /\ n \in 1..n /\ i \in DOMAIN queue
      BY <1>2, <2>1, <2>2
    <3>2. \A j \in DOMAIN queue : j \in 1..n
      BY <1>2
    <3>3. e.type # type
      BY <1>2, <2>1, <3>1
    <3>4. queue[i].type = type /\ \A j \in DOMAIN queue : j > i => queue[j].type # type
      BY <1>2, <2>1, <3>1, <3>2
    <3> QED
      BY <3>1, <3>3, <3>4 DEF LastOf
  <2> QED
    BY <1>2, <2>1, <2>2
<1>4. ASSUME NEW i \in DOMAIN queue', LastOf("ground", i)' PROVE queue'[i].rails = sensed'
  BY <1>1, <1>2, <1>3, <1>4 DEF LevelsAgree, LastOf
<1>5. ASSUME NEW i \in DOMAIN queue', LastOf("obstacle", i)' PROVE queue'[i].near = sensedNear'
  BY <1>1, <1>2, <1>3, <1>5 DEF LevelsAgree, LastOf
<1>6. (\A i \in DOMAIN queue' : queue'[i].type # "ground") => gnd' = sensed'
  BY <1>1, <1>2 DEF LevelsAgree
<1>7. (\A i \in DOMAIN queue' : queue'[i].type # "obstacle") => near' = sensedNear'
  BY <1>1, <1>2 DEF LevelsAgree
<1> QED
  BY <1>4, <1>5, <1>6, <1>7 DEF LevelsAgree

(* A drained event: the level that leaves the queue becomes the            *)
(* coordinator's own, so the last one of each kind is not lost.            *)
LEMMA AgreeDrain == TypeBus /\ LevelsAgree /\ DrainEvent => LevelsAgree'
<1> SUFFICES ASSUME TypeBus, LevelsAgree, DrainEvent PROVE LevelsAgree'
  OBVIOUS
<1>1. /\ queue # <<>> /\ queue' = Tail(queue)
      /\ UNCHANGED <<dropped, sensed, sensedNear>>
      /\ gnd' = IF queue[1].type = "ground" THEN queue[1].rails ELSE gnd
      /\ near' = IF queue[1].type = "obstacle" THEN queue[1].near ELSE near
  BY DEF DrainEvent, DrainGround, DrainObstacle, DrainCommand, DrainDone, DrainStarted, Receive,
         drainVars, sensorVars
<1> SUFFICES ASSUME ~dropped PROVE LevelsAgree'
  BY <1>1 DEF LevelsAgree
<1>2. /\ DOMAIN queue = 1..Len(queue) /\ Len(queue) \in Nat \ {0}
      /\ DOMAIN queue' = 1..(Len(queue) - 1)
      /\ \A i \in DOMAIN queue' : queue'[i] = queue[i + 1]
  BY <1>1 DEF TypeBus
<1>3. ASSUME NEW type, NEW i, LastOf(type, i)' PROVE LastOf(type, i + 1)
  <2>1. i \in DOMAIN queue' /\ i + 1 \in DOMAIN queue /\ queue[i + 1].type = type
    BY <1>2, <1>3 DEF LastOf
  <2>2. ASSUME NEW j \in DOMAIN queue, j > i + 1 PROVE queue[j].type # type
    <3>1. j - 1 \in DOMAIN queue' /\ j - 1 > i /\ queue'[j - 1] = queue[j]
      BY <1>2, <2>1, <2>2
    <3> QED
      BY <1>3, <3>1 DEF LastOf
  <2> QED
    BY <2>1, <2>2 DEF LastOf
<1>4. ASSUME NEW type, \A i \in DOMAIN queue' : queue'[i].type # type
      PROVE  \A i \in DOMAIN queue : queue[i].type = type => LastOf(type, 1) /\ i = 1
  <2>1. \A j \in DOMAIN queue : j > 1 => queue[j].type # type
    <3> SUFFICES ASSUME NEW j \in DOMAIN queue, j > 1 PROVE queue[j].type # type
      OBVIOUS
    <3>1. j - 1 \in DOMAIN queue' /\ queue'[j - 1] = queue[j]
      BY <1>2
    <3> QED
      BY <1>4, <3>1
  <2> QED
    BY <1>2, <2>1 DEF LastOf
<1>5. \A i \in DOMAIN queue' : LastOf("ground", i)' => queue'[i].rails = sensed'
  BY <1>1, <1>2, <1>3 DEF LevelsAgree
<1>6. \A i \in DOMAIN queue' : LastOf("obstacle", i)' => queue'[i].near = sensedNear'
  BY <1>1, <1>2, <1>3 DEF LevelsAgree
<1>7. (\A i \in DOMAIN queue' : queue'[i].type # "ground") => gnd' = sensed'
  BY <1>1, <1>2, <1>4 DEF LevelsAgree
<1>8. (\A i \in DOMAIN queue' : queue'[i].type # "obstacle") => near' = sensedNear'
  BY <1>1, <1>2, <1>4 DEF LevelsAgree
<1> QED
  BY <1>5, <1>6, <1>7, <1>8 DEF LevelsAgree

(* Steps that touch neither the bus nor a level.                           *)
LEMMA AgreeKept ==
  ASSUME LevelsAgree, UNCHANGED <<busVars, sensorVars, gnd, near>>
  PROVE  LevelsAgree'
BY DEF LevelsAgree, LastOf, busVars, sensorVars

(* Every step keeps the levels in agreement.                               *)
LEMMA AgreeNext == TypeOK /\ LevelsAgree /\ [Next]_vars => LevelsAgree'
<1> SUFFICES ASSUME TypeOK, LevelsAgree, [Next]_vars PROVE LevelsAgree'
  OBVIOUS
<1> USE DEF TypeOK
<1>1. CASE SenseGround
  <2>1. PICK r \in RailReadings : sensed' = r /\ Publish([type |-> "ground", rails |-> r])
    BY <1>1 DEF SenseGround
  <2>2. [type |-> "ground", rails |-> r] \in Event
    BY ReadingsAssumption DEF Event
  <2> QED
    BY <1>1, <2>1, <2>2, AgreeAppend DEF SenseGround, drainVars
<1>2. CASE SenseObstacle
  <2>1. PICK o \in ObstacleReadings :
          sensedNear' = o /\ Publish([type |-> "obstacle", near |-> o])
    BY <1>2 DEF SenseObstacle
  <2>2. [type |-> "obstacle", near |-> o] \in Event
    BY ReadingsAssumption DEF Event
  <2> QED
    BY <1>2, <2>1, <2>2, AgreeAppend DEF SenseObstacle, drainVars
<1>3. CASE Drive
  <2>1. PICK s \in Commands : Publish([type |-> "command", stick |-> s])
    BY <1>3 DEF Drive
  <2>2. [type |-> "command", stick |-> s] \in Event
    BY CommandsAssumption DEF Event
  <2> QED
    BY <1>3, <2>1, <2>2, AgreeAppend DEF Drive, SessionStep, sensorVars, drainVars
<1>4. CASE Session /\ ~Drive
  <2>1. UNCHANGED <<busVars, sensorVars, gnd, near>>
    BY <1>4 DEF Session, Keepalive, ManualTake, ManualRelease, ExprTrigger, Disconnect, Unpair,
                PairButton, PairReq, WindowCloses, AliveLapses, CommandLapses, SessionStep,
                drainVars
  <2> QED
    BY <2>1, AgreeKept
<1>5. CASE DrainEvent
  BY <1>5, AgreeDrain
<1>6. CASE Decide
  <2>1. UNCHANGED <<sensed, sensedNear, gnd, near>>
    BY <1>6 DEF Decide, sensorVars
  <2>2. CASE Intent.active # active /\ Intent.active # "NONE"
    <3>1. [type |-> "started", id |-> Intent.active] \in Event
      BY IntentType DEF Event
    <3> QED
      BY <1>6, <2>1, <2>2, <3>1, AgreeAppend DEF Decide, PublishStarted, sensorVars
  <2>3. CASE ~(Intent.active # active /\ Intent.active # "NONE")
    BY <1>6, <2>1, <2>3, AgreeKept DEF Decide, PublishStarted
  <2> QED
    BY <2>2, <2>3
<1>7. CASE WiggleExpires
  <2>1. [type |-> "done", id |-> "HAPPY_WIGGLE"] \in Event
    BY DEF Event, BehaviorId
  <2> QED
    BY <1>7, <2>1, AgreeAppend DEF WiggleExpires, sensorVars, drainVars
<1>8. CASE FeedSession \/ Pump
  <2>1. FeedStep \/ PumpStep
    BY <1>8 DEF FeedSession, FeedWindow, TakeManualTake, TakeManualRelease, Pump, ConductTake,
                ConductStop, ConductWiggle, DispatchSend, DispatchClear
  <2> QED
    BY <2>1, AgreeKept DEF FeedStep, PumpStep, drainVars
<1>9. CASE Wake \/ DrainEnds \/ UNCHANGED vars
  BY <1>9, AgreeKept DEF Wake, DrainEnds, vars, drainVars
<1> QED
  BY <1>1, <1>2, <1>3, <1>4, <1>5, <1>6, <1>7, <1>8, <1>9 DEF Next

(* As long as the bus refused nothing, the last queued level of a sensor,  *)
(* or the coordinator's own when none is queued, is the sensor's: the      *)
(* transitions-only publishing loses nothing, at any queue depth.          *)
THEOREM LevelsFollow == Spec => []LevelsAgree
<1>1. Init => LevelsAgree
  <2>1. \A i : i \notin DOMAIN <<>>
    OBVIOUS
  <2> QED
    BY <2>1 DEF Init, LevelsAgree, Level
<1> QED
  BY <1>1, AgreeNext, InitType, NextType, PTL DEF Spec
=============================================================================
