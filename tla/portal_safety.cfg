CONSTANTS
  n1 = n1
  n2 = n2
  Actor = {x, y}
  Name = {n1, n2}
  OpaqueActorId = {i1, i2, i3}
  Asker = {q1, q2}
  Msg = {m1, m2}
  None = None
  Contribution <- TwoContributions
  Settings <- SafetySettings
SPECIFICATION Spec
SYMMETRY Interchangeable
INVARIANT TypeOK
INVARIANT NoProtocolViolation
INVARIANT ChannelAgreement
INVARIANT EveryWaitIsOwned
INVARIANT NoSpontaneousShutdown
INVARIANT AnswersTheQuestion
INVARIANT PublishedNamesAreFound
INVARIANT IdsAreSound
INVARIANT DeliveredAsSent
INVARIANT ProxyOutlivedByActorOnly
CHECK_DEADLOCK FALSE
