CONSTANTS
  n1 = n1
  n2 = n2
  Actor = {x}
  Name = {n1, n2}
  OpaqueActorId = {i}
  Asker = {q1, q2}
  Msg = {}
  None = None
  Contribution <- TwoContributions
  Settings <- LivenessSettings
SPECIFICATION FairSpec
PROPERTY HandshakeCompletes
PROPERTY EveryAskReturns
PROPERTY LinkedProxyStops
CHECK_DEADLOCK FALSE
