SPECIFICATION Spec
CONSTANTS
  Layouts <- MCLayouts
  Volumes <- MCVolumes
  PageSize = 2
  MaxTransfer = 6
  MaxHeaderRuns = 2
  ChunkSize = 4
  Word = 10
  Headroom = 20
  FatLimit = 11
  Granule = 3
  MaxOthers = 3
CHECK_DEADLOCK FALSE
INVARIANTS
  TypeOK
  SealedReadsBack
  RawNeverRunsOut
