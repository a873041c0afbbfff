SPECIFICATION Spec
CONSTANTS
  MaxSessions = 1
  MaxForeign = 0
  Formats = {"container"}
  Absent = Absent
  Foreign = Foreign
INVARIANT
  StagingRemoved
