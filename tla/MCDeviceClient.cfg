SPECIFICATION Spec
CONSTANTS
  MaxWord = 7
  MaxRuns = 3
  MaxTransfer = 2
  Reported <- MCReported
  Later <- MCLater
  Unknown = Unknown
  Refused = Refused
INVARIANTS
  TypeOK
  QueryGivesALayout
  ReadsWhereItAsks
  OneTablePerSession
