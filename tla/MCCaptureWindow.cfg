SPECIFICATION Spec
CONSTANTS
  MaxOperations = 3
  QueueLimit = 2
  Path = {a, b}
  Nothing = Nothing
CHECK_DEADLOCK FALSE
INVARIANTS
  TypeOK
  EveryPayloadOwned
  MessagesAreCurrent
  CancelMeansThisCapture
  NamesWhatWasWritten
PROPERTIES
  ClosesWhenAsked
