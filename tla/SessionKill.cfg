SPECIFICATION Spec
CONSTANTS
  CounterMod = 32
  PersistEvery = 2
  MaxTries = 2
  MaxWindows = 1
  MaxBoots = 0
  MaxFaults = 0
  Torn = FALSE
  Overlap = FALSE
  Gate = 29
  Margin = 3
  CountersUsed <- LowAndHigh
  SentKinds = {"alive"}
  MaxPairs = 0
  MaxKills = 1
  OldPair = TRUE
  Start = 24
  Typos = FALSE
INVARIANTS NextAttemptFits
CHECK_DEADLOCK FALSE
