----------------------------- MODULE SpendBudget -----------------------------
(* What the spend ledger promises of one budget, with no lines, locks or
   files: money is set aside before it can be spent, what is set aside and
   spent together never passes the cap, and no bill is ever larger than what
   is on the books for it.                                                  *)
EXTENDS Naturals

CONSTANT Cap    \* the most that may ever be on the books: a natural number

VARIABLES
  open,      \* set aside for calls that have no cost yet
  settled,   \* charged for calls that are over
  due,       \* what the API will bill of the open part
  billed     \* what it billed of the settled part

vars == <<open, settled, due, billed>>

Init == open = 0 /\ settled = 0 /\ due = 0 /\ billed = 0

\* Money for a call, checked and set aside in one step.
Reserve(w) ==
  /\ open + settled + w <= Cap
  /\ open' = open + w
  /\ UNCHANGED <<settled, due, billed>>

\* A call leaves; what it will cost is within what was set aside for it.
Send(b) ==
  /\ due + b <= open
  /\ due' = due + b
  /\ UNCHANGED <<open, settled, billed>>

\* A call is over: w was set aside, c is charged, b was billed.
Settle(w, c, b) ==
  /\ b <= c /\ c <= w
  /\ w <= open /\ b <= due
  /\ due - b <= open - w
  /\ open' = open - w
  /\ settled' = settled + c
  /\ due' = due - b
  /\ billed' = billed + b

\* A hold nobody came back for is dropped; what was billed for it, if anything,
\* shows on the invoice and never on the books.
WriteOff(w, b) ==
  /\ w <= open /\ b <= due
  /\ due - b <= open - w
  /\ open' = open - w
  /\ due' = due - b
  /\ UNCHANGED <<settled, billed>>

Next ==
  \/ \E w \in 0..Cap : Reserve(w)
  \/ \E b \in 0..Cap : Send(b)
  \/ \E w, c, b \in 0..Cap : Settle(w, c, b)
  \/ \E w, b \in 0..Cap : WriteOff(w, b)

Spec == Init /\ [][Next]_vars

\* The books never show more than the cap.
WithinCap == open + settled <= Cap

\* The books never show less than the bill.
Covered == due <= open /\ billed <= settled

=============================================================================
