CONSTANTS
  Connection = {c1, c2}
  Actor = {x, y}
  Name = {n}
  Asker = {q}
  MaxPublished = 2
  HasListener = TRUE
  None = None
  Faults <- AllFaults
SPECIFICATION FairSpec
INVARIANT TypeOK
INVARIANT RegistryTracksPortals
INVARIANT AnswersAreCurrent
INVARIANT ListenerHearsOnce
PROPERTY EveryRequestReturns
CHECK_DEADLOCK FALSE
