SPECIFICATION Spec
CONSTANTS
  CounterMod = 32
  PersistEvery = 2
  MaxTries = 2
  MaxWindows = 1
  MaxBoots = 1
  MaxFaults = 1
  Torn = TRUE
  Overlap = FALSE
  Gate = 29
  Margin = 3
  CountersUsed <- LowAndHigh
  SentKinds = {"drive", "alive", "bye"}
  MaxPairs = 0
  MaxKills = 1
  OldPair = TRUE
  Start = 24
  Typos = FALSE
INVARIANTS ConsumedOnce NextIsFresh
CHECK_DEADLOCK FALSE
