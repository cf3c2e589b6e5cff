SPECIFICATION Spec
CONSTANTS
  Commands <- ThreeWays
  RailReadings <- TwoLedges
  ObstacleReadings <- FarOnly
  Triggers <- Nothing
  QueueDepth = 2
  ExpressionAttached = FALSE
INVARIANTS
  TypeOK
  LatchVeto
  SessionGate
PROPERTIES
  EmergencyExit
  TickStops
