CONSTANTS
  base = base
  d1 = d1
  d2 = d2
  x = x
  y = y
  z = z
  None = None
  Node = {base, d1, d2}
  Msg = {x, y, z}
  Asks = {x}
  Timed = {x}
  Capacity = 1
  Applications <- AllApplications
SPECIFICATION FairSpec
INVARIANT TypeOK
INVARIANT SentOnceInOrder
INVARIANT EndsHaveCause
PROPERTY EndsReachDependents
CHECK_DEADLOCK FALSE
