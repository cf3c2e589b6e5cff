SPECIFICATION Spec
CONSTANTS
  CounterMod = 32
  PersistEvery = 2
  MaxTries = 2
  MaxWindows = 2
  MaxBoots = 1
  MaxFaults = 1
  Torn = TRUE
  Overlap = FALSE
  Gate = 29
  Margin = 3
  CountersUsed <- LowAndHigh
  SentKinds = {}
  MaxPairs = 1
  MaxKills = 1
  OldPair = TRUE
  Start = 24
  Typos = TRUE
INVARIANTS RebootRestores RowHasKey
PROPERTIES KeysShared
CHECK_DEADLOCK FALSE
