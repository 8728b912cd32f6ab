SPECIFICATION Spec
CHECK_DEADLOCK FALSE
CONSTANTS
  Base <- MCBase
  SizeWords <- MCSizeWords
  Names <- MCNames
  Chars <- MCChars
  Timeouts <- MCTimeouts
  MaxElements = 2
  Links <- MCLinks
INVARIANT ReadAsSent
INVARIANT DifferencesAreTold
