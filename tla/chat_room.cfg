CONSTANTS
  Client = {c1, c2}
  Post = {p1}
  None = None
  Faults <- AllFaults
  WordCount = 2
  Earlier <- SomeEarlier
SPECIFICATION FairSpec
INVARIANT PostsAreAttributed
INVARIANT NewsReachesAll
PROPERTY EveryClientIsServed
CHECK_DEADLOCK FALSE
