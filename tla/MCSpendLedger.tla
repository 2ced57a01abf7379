---------------------------- MODULE MCSpendLedger ----------------------------
(* SpendLedger for TLC: requests of one or two calls, in a review run and
   outside one.                                                             *)
EXTENDS SpendLedger, TLC

Single(r, s, w) == [run |-> r, calls |-> <<[step |-> s, worst |-> w]>>]
Pair(r, s, v, w) == [run |-> r, calls |-> <<[step |-> s, worst |-> v], [step |-> s, worst |-> w]>>]

\* Outside a run, in one, and for a standard; a call and a batch of two.
MCMixed == {Single("r1", "clause_review", 2), Pair("r1", "standard", 1, 1),
            Single(NoRun, "clause_review", 1)}

MCSymmetry == Permutations(Threads)
=============================================================================
