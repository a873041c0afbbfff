SPECIFICATION Spec
CONSTANTS
  AddressLimit = 7
  PageSize = 2
  MaxTransfer = 4
  Layouts <- MCLayouts
  Before <- MCBefore
  Byte = {zero, data}
  Zero = zero
  Status = {s1, s2}
  Hole = Hole
  RateLimited = TRUE
INVARIANTS
  TypeOK
  ExactlyOnce
  HashMatchesImage
  CountersMatchEvidence
  SpansCanonical
  StatusFaithful
  OnlyContainmentIsRefused
PROPERTIES
  HandsOverInOrder
  KeepsProvenancePromise
  Terminates
