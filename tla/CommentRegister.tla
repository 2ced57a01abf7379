--------------------------- MODULE CommentRegister ---------------------------
(* What the permanent numbers of review comments promise: in each sequence a
   comment is given the next number once and for ever, and once it has been
   issued under that number it stays issued.                                *)
EXTENDS Naturals

CONSTANTS Scopes, Keys, MaxSeq   \* MaxSeq: bound on the numbers of a sequence

VARIABLES
  given,     \* given[s][k]: the number of comment k in sequence s, 0 for none
  issued     \* issued[s]: the comments made an engineer's

vars == <<given, issued>>

Init ==
  /\ given = [s \in Scopes |-> [k \in Keys |-> 0]]
  /\ issued = [s \in Scopes |-> {}]

\* n is the number after the highest one that was ever given in s.
IsNext(s, n) ==
  /\ \A j \in Keys : given[s][j] < n
  /\ n = 1 \/ \E j \in Keys : given[s][j] = n - 1

Give(s, k, n) ==
  /\ given[s][k] = 0 /\ IsNext(s, n)
  /\ given' = [given EXCEPT ![s][k] = n]
  /\ \/ UNCHANGED issued
     \/ issued' = [issued EXCEPT ![s] = @ \cup {k}]

Issue(s, k) ==
  /\ given[s][k] # 0
  /\ issued' = [issued EXCEPT ![s] = @ \cup {k}]
  /\ UNCHANGED given

Next ==
  \E s \in Scopes, k \in Keys : Issue(s, k) \/ \E n \in 1..MaxSeq : Give(s, k, n)

Spec == Init /\ [][Next]_vars

=============================================================================
