\* One standard of two sentences, the worker and one administrator; two events of
\* any kind, and a re-chunk.
CONSTANTS
  Standards = {d1}
  Sentences = {s1, s2}
  Corrected = corrected
  worker = worker
  Callers = {c1}
  Reviews = {v1}
  NoStandard = NoStandard
  NoChunk = NoChunk
  QuickRestarts = FALSE
  AuthDisabled = TRUE
  MaxRetries = 1
  MaxRows = 9
  MaxEditions = 2
  MaxEvents = 2
SPECIFICATION Spec
INVARIANTS
  OneRowPerSentence
  TextIsRead
PROPERTIES
  DecisionsStand
  ExtractionEnds
\* Everything is extracted, and nobody asks for more.
CHECK_DEADLOCK FALSE
