\* Two workers and one mostly scanned document; stages raise, the process is
\* killed or stopped twice, a waiting retry may be cancelled.
CONSTANTS
  Docs = {1}
  Workers = {w1, w2}
  Callers = {}
  Home <- MCHome
  Calls = {"cancel"}
  NumPages = 3
  PageBatchSize = 2
  OcrBatchSize = 1
  EmbedBatchSize = 1
  NativeText = {1}
  NeedsOcr = {2, 3}
  Excluded = {1}
  Pasts = {"new", "retired"}
  Stored = {1}
  Rank <- MCRank
  MaxRetries = 1
  MayFail = {1}
  SlowSteps = FALSE
  HoldsBack = TRUE
  MaxRestarts = 2
  NoDoc = NoDoc
  NoOne = NoOne
  Gone = Gone
SPECIFICATION FairSpec
INVARIANTS
  FinishedWhole
  NotStranded
  OneWorkerPerDocument
  TextComplete
PROPERTIES
  LegalLifecycle
  Settles
\* All work done: the system rests.
CHECK_DEADLOCK FALSE
