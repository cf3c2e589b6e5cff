SPECIFICATION Spec
CONSTANTS
  Depth = 8
  Chunk = 3
  BootJingle <- Bells
  Cues <- Faces
  MaxBundles = 4
INVARIANTS Hushed RoomForCue EpochOpen
