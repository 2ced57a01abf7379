\* An administrator runs every stage by hand while the worker drives the document.
CONSTANTS
  Docs = {1}
  Workers = {w1}
  Callers = {c1}
  Home <- MCHome
  Calls = {"extract", "chunk", "rechunk", "embed", "index", "reroute"}
  NumPages = 2
  PageBatchSize = 1
  OcrBatchSize = 1
  EmbedBatchSize = 1
  NativeText = {1}
  NeedsOcr = {1, 2}
  Excluded = {}
  Pasts = {"new", "retired", "older"}
  Stored = {1}
  Rank <- MCRank
  MaxRetries = 1
  MayFail = {}
  SlowSteps = FALSE
  HoldsBack = FALSE
  MaxRestarts = 0
  NoDoc = NoDoc
  NoOne = NoOne
  Gone = Gone
SPECIFICATION FairSpec
INVARIANTS
  AnswerableIndexed
  NoOrphanVectors
  CheckpointCovered
PROPERTIES
  SettlesAfterUpgrade
\* All work done: the system rests.
CHECK_DEADLOCK FALSE
