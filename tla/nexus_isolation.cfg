CONSTANTS
  Connection = {c1, c2}
  Actor = {x}
  Name = {n}
  Asker = {q}
  MaxPublished = 1
  HasListener = FALSE
  None = None
  Faults <- OnlyRefusals
SPECIFICATION Spec
INVARIANT PortalFailuresAreIsolated
CHECK_DEADLOCK FALSE
