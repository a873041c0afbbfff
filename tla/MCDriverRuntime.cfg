SPECIFICATION Spec
CONSTANTS
  p1 = p1
  p2 = p2
  Process <- MCProcess
  MaxRuns = 2
  Attempts = 2
  Gone = Gone
  Leftover <- MCAbandoned
  Interruptible <- MCAlone
  Killable <- MCOther
  Inspectors <- MCOther
CHECK_DEADLOCK FALSE
INVARIANTS
  TypeOK
  CleanUnlessTimedOut
  ReplacesWhatItFound
  ExitCodeTells
PROPERTIES
  ExitsInTheEnd
