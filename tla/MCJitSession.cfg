SPECIFICATION Spec
CONSTANTS
  w1 = w1
  Window <- OneWindow
  Occurrence <- NoOccurrences
  UserQueue <- EmptyQueue
  UserTrack = 0
  SourceCount = 1
  MaxEntry = 3
  MaxReload = 1
  Upsets <- SessionUpsets
  MaxUpsets = 1
CHECK_DEADLOCK FALSE
INVARIANTS TypeOK OperationsCarried SupplyAsked
PROPERTIES NextIsPicked ContractSpec EveryOperationSettles
