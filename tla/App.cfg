SPECIFICATION Spec
CONSTANTS
  MaxWaiting = 2
  AliveEvery = 1
  StaleTicks = 1
  DeadTicks = 1
  MaxEvents = 4
  MaxEras = 1
  Bounces = FALSE
INVARIANTS TypeOK  NoPhantomSticks UnrefreshedReleased StopOutranks GoodbyeStands
CHECK_DEADLOCK FALSE
