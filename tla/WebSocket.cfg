CONSTANTS
  Frames <- AllFrames
  MaxFrames = 3
  MaxMessage = 2
SPECIFICATION FairSpec
INVARIANTS ClientServed
PROPERTIES SessionEnds
CHECK_DEADLOCK FALSE
