\* Reviews that fail, are retried and cancelled, on a server that may die.
CONSTANTS
  Submittals = {s1, s2}
  NoSubmittal = NoSubmittal
  MaxReviews = 2
  MaxRetries = 1
  MaxRunning = 1
  FinishRaises = TRUE
  MaxFaults = 1
SPECIFICATION FairSpec
INVARIANTS
  EndsAgree
  RunnerHoldsJob
  ActiveHasJob
  OneFirstReview
PROPERTIES
  EndedForGood
  ReviewEnds
  CancelIsHonoured
\* Every review made and ended: nothing is left to do.
CHECK_DEADLOCK FALSE
