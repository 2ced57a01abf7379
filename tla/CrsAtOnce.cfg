\* Two reviews of a document are numbered and decided at once.
CONSTANTS
  d1 = d1
  r1 = r1
  r2 = r2
  Documents = {d1}
  Runs = {r1, r2}
  DocOf <- MCAgain
  Numbers = {n1}
  Keys = {k1, k2}
  Words = {said}
  NoNumber = NoNumber
  NoWords = NoWords
  NoRun = NoRun
  NoKey = NoKey
  NoScope = NoScope
  Writers = {w1, w2}
  MaxSeq = 3
  MaxWrites = 1
  MaxActs = 1
  MaxFails = 1
SPECIFICATION Spec
SYMMETRY MCSymmetry
INVARIANTS
  OneSequence
  ConfirmedIsIssued
PROPERTIES
  RegisterKept
  SettledKept
\* Every review finished and decided: nobody writes any more.
CHECK_DEADLOCK FALSE
