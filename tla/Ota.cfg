SPECIFICATION FairSpec
CONSTANTS
  Uploaders = {u1, u2}
  Cap = 2
  Sizes = {2, 3}
  Versions = {1}
  MaxPosts = 2
  MaxDigests = 1
  Faces = {"boot", "happy"}
  Slot = 2
  Dev = FALSE
  MaxTells = 1
  MaxShows = 1
INVARIANTS TypeOK  BootsCommitted
PROPERTIES OverlayEnds
CHECK_DEADLOCK FALSE
