------------------------------ MODULE MCArrival ------------------------------
(* Arrival for TLC: an upload, the watched folder with one file, a deletion. *)
EXTENDS Arrival
=============================================================================
