\* Batches resumed, cancelled and sent again by a process that may die.
CONSTANTS
  Requests = {1, 2}
  SliceSizes = {1, 2}
  Fallbacks = {TRUE, FALSE}
  MayMiss = TRUE
  MaxBatches = 3
  MaxRuns = 2
  MaxCrashes = 1
SPECIFICATION Spec
INVARIANTS
  TypeOK
  BilledIsCharged
  ReadOnceChargedOnce
  HoldsOwned
PROPERTIES
  OneLiveSend
  ReadIsUsed
\* Every run made: nothing is left to do.
CHECK_DEADLOCK FALSE
