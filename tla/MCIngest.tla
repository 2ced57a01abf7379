------------------------------ MODULE MCIngest ------------------------------
(* Instances of Ingest for TLC: the functions a .cfg cannot write.          *)
EXTENDS Ingest

MCHome == [c \in Callers |-> CHOOSE w \in Workers : TRUE]

\* Documents are numbered in the order they are to be taken.
MCRank == [d \in Docs |-> d]
=============================================================================
