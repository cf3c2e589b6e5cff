SPECIFICATION FairSpec
CONSTANTS
  MaxMissed = 3
  MaxFlips = 2
  MaxBoots = 1
  MaxPosts = 1
  MaxLosses = 2
INVARIANTS TypeOK LastGoodHeard
 
CHECK_DEADLOCK FALSE
