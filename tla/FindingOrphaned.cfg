\* A review loads the requirements, and one is rejected before it writes.
CONSTANTS
  Standards = {d1}
  Sentences = {s1}
  Corrected = corrected
  worker = worker
  Callers = {}
  Reviews = {v1}
  NoStandard = NoStandard
  NoChunk = NoChunk
  QuickRestarts = FALSE
  AuthDisabled = FALSE
  MaxRetries = 1
  MaxRows = 3
  MaxEditions = 1
  MaxEvents = 2
SPECIFICATION Spec
INVARIANTS
  FindingsResolve
CHECK_DEADLOCK FALSE
