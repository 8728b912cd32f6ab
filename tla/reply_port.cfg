CONSTANTS
  c1 = c1
  c2 = c2
  Call = {c1, c2}
  Value = {v, w}
  Settings <- AllSettings
  None = None
SPECIFICATION FairSpec
INVARIANT TypeOK
INVARIANT PortalsOutliveAnswers
PROPERTY ImplementsOneShot
PROPERTY EveryCallReturns
PROPERTY AnsweredCallsReleaseTheirProxy
CHECK_DEADLOCK FALSE
