SPECIFICATION Spec
CONSTANTS
  SeqMod = 8
  MaxSends = 3
  MaxReplies = 3
  HeadBoots = 2
  Commands = {"show"}
  Networks = {"a", "b"}
  MaxTries = 2
  CoreBoots = 2
  MaxPosts = 2
  MaxFaults = 1
  Refusals = TRUE
  Overlap = FALSE
INVARIANTS TypeOK NewestBeatHeard  
PROPERTIES RunsInOrder
CHECK_DEADLOCK FALSE
