CONSTANTS
  Modulus = 4
  Data <- SomeData
  Text <- SomeText
  MaxFrames = 2
  Capacity = 2
  None = None
  Faults <- AllFaults
SPECIFICATION FairSpec
INVARIANT TypeOK
PROPERTY ImplementsPipe
PROPERTY NobodyWaitsForEver
CHECK_DEADLOCK FALSE
