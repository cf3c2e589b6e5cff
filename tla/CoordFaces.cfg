SPECIFICATION Spec
CONSTANTS
  Commands <- Nothing
  RailReadings <- FrontLedge
  ObstacleReadings <- AnyObstacle
  Triggers <- ExcitedOnly
  QueueDepth = 1
  ExpressionAttached = TRUE
INVARIANTS
  
  ClaimTracksHazard
PROPERTIES
  FaceFollowsHazard
  HazardFaceHeld
