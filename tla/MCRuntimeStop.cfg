SPECIFICATION Spec
CONSTANTS
  p1 = p1
  p2 = p2
  Process <- MCAlone
  MaxRuns = 1
  Attempts = 2
  Gone = Gone
  Leftover <- MCNobody
  Interruptible <- MCNobody
  Killable <- MCNobody
  Inspectors <- MCNobody
CHECK_DEADLOCK FALSE
INVARIANTS
  CleanLifecycle
