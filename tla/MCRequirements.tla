--------------------------- MODULE MCRequirements ---------------------------
(* Instances of Requirements for TLC.                                       *)
EXTENDS Requirements
=============================================================================
