\* The process is killed once while a scanned page is being read.
CONSTANTS
  Docs = {1}
  Workers = {w1}
  Callers = {}
  Home <- MCHome
  Calls = {}
  NumPages = 3
  PageBatchSize = 2
  OcrBatchSize = 1
  EmbedBatchSize = 1
  NativeText = {1, 2}
  NeedsOcr = {3}
  Excluded = {}
  Pasts = {"new"}
  Stored = {1}
  Rank <- MCRank
  MaxRetries = 1
  MayFail = {}
  SlowSteps = FALSE
  HoldsBack = FALSE
  MaxRestarts = 1
  NoDoc = NoDoc
  NoOne = NoOne
  Gone = Gone
SPECIFICATION Spec
INVARIANTS
  ReadyReflectsText
\* All work done: the system rests.
CHECK_DEADLOCK FALSE
