---------------------------- MODULE MCClaudeBatch ----------------------------
(* ClaudeBatch for TLC.                                                     *)
EXTENDS ClaudeBatch
=============================================================================
