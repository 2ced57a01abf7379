---------------------------- MODULE MCCrsNumbers ----------------------------
(* CrsNumbers for TLC: two reviews of one document. *)
EXTENDS CrsNumbers, TLC

CONSTANTS d1, r1, r2

MCAgain == (r1 :> d1) @@ (r2 :> d1)

MCSymmetry == Permutations(Writers) \cup Permutations(Keys)
=============================================================================
