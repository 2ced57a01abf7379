---------------------------- MODULE MCReviewJobs ----------------------------
(* ReviewJobs for TLC.                                                      *)
EXTENDS ReviewJobs, TLC

MCSymmetry == Permutations(Submittals)
=============================================================================
