SPECIFICATION Spec
CONSTANTS
  MaxSessions = 1
  MaxForeign = 1
  Formats = {"raw"}
  Absent = Absent
  Foreign = Foreign
INVARIANT
  RollsBackOwnSidecars
