\* Two batches, and a job that waits for the machine.
CONSTANTS
  Jobs = {b1, b2, w}
  Batches = {b1, b2}
  Waiting = {w}
  NoJob = NoJob
  MaxDead = 1
  MaxOutlived = 1
  Tasks = {1, 2}
SPECIFICATION QueueSpec
SYMMETRY MCSymmetry
INVARIANTS
  Exclusive
  ReadOnce
PROPERTIES
  StepsAside
\* Every job is done or dead.
CHECK_DEADLOCK FALSE
