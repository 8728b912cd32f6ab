CONSTANTS
  MaxCalls = 2
  Settings <- AllSettings
SPECIFICATION FairSpec
INVARIANT MembersAreServed
PROPERTY CallsReturn
PROPERTY EndsReachBothSides
CHECK_DEADLOCK FALSE
