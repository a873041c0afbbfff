SPECIFICATION Spec
CONSTANTS
  MaxSessions = 2
  MaxForeign = 2
  Formats = {"raw", "container"}
  Absent = Absent
  Foreign = Foreign
INVARIANTS
  TypeOK
  ImageImpliesBundle
  FailureLeavesNothing
PROPERTIES
  PreexistingUntouched
  ForeignFilesKept
  PublishesAtomically
