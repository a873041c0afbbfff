SPECIFICATION Spec
CONSTANTS
  Tables <- MCTables
  MaxWord = 7
  MaxTransfer = 2
  MaxPending = 2
  Null = Null
  Nothing = Nothing
INVARIANTS
  TypeOK
  NoUseAfterFree
  NoLeak
PROPERTIES
  KeepsSessionPromise
  ClosesInTheEnd
