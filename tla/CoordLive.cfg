SPECIFICATION FairSpec
CONSTANTS
  Commands <- ForwardOnly
  RailReadings <- FrontLedge
  ObstacleReadings <- FarOnly
  Triggers <- Nothing
  QueueDepth = 1
  ExpressionAttached = FALSE
PROPERTIES
  
  AbsenceStops
