SPECIFICATION Spec
CONSTANTS
  CounterMod = 32
  PersistEvery = 2
  MaxTries = 2
  MaxWindows = 3
  MaxBoots = 0
  MaxFaults = 0
  Torn = FALSE
  Overlap = TRUE
  Gate = 29
  Margin = 3
  CountersUsed <- LowAndHigh
  SentKinds = {"alive"}
  MaxPairs = 1
  MaxKills = 0
  OldPair = TRUE
  Start = 24
  Typos = FALSE
INVARIANTS TypeOK NextAttemptFits EvictionHonest
CHECK_DEADLOCK FALSE
