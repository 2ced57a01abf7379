\* A comment is confirmed and the document reviewed again: one thread, in turn.
CONSTANTS
  d1 = d1
  r1 = r1
  r2 = r2
  Documents = {d1}
  Runs = {r1, r2}
  DocOf <- MCAgain
  Numbers = {n1}
  Keys = {k1}
  Words = {said1, said2}
  NoNumber = NoNumber
  NoWords = NoWords
  NoRun = NoRun
  NoKey = NoKey
  NoScope = NoScope
  Writers = {w1}
  MaxSeq = 3
  MaxWrites = 2
  MaxActs = 0
  MaxFails = 0
SPECIFICATION Spec
INVARIANTS
  IssuedIsConfirmed
CHECK_DEADLOCK FALSE
