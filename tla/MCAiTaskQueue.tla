---------------------------- MODULE MCAiTaskQueue ----------------------------
(* AiTaskQueue for TLC: two batches and a job that waits. *)
EXTENDS AiTaskQueue, TLC

MCSymmetry == Permutations(Batches) \cup Permutations(Waiting)
=============================================================================
