CONSTANTS
  Frame <- TwoFrames
  MaxFrames = 2
  MaxPings = 1
  Libraries <- AllLibraries
  Faults <- AllFaults
SPECIFICATION FairSpec
PROPERTY ImplementsPipes
PROPERTY FramesAndEndsArrive
CHECK_DEADLOCK FALSE
