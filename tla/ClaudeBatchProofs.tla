-------------------------- MODULE ClaudeBatchProofs --------------------------
(***************************************************************************)
(* Proofs about the Message Batches, for any requests, batches, runs and   *)
(* crashes: what may be billed is on the ledger, no request is out twice   *)
(* or bought again once read, a reservation is charged once, and none is   *)
(* lost track of but those of a batch that was never begun.                *)
(*                                                                         *)
(* A batch the API works on owns its requests (LiveOwned): their rows name *)
(* it and say held, or unconfirmed, and only its end frees them.  What is  *)
(* about to be sent is reserved under a batch that was never used          *)
(* (MakingOK), so nothing is on the ledger, or at the API, for it yet.     *)
(***************************************************************************)
EXTENDS ClaudeBatch, FiniteSetTheorems, TLAPS

Rows == {"none", "held", "retry", "gave_up", "answered", "not_sent", "unconfirmed"}
Results == {"none", "ok", "unbilled", "missing"}
BatchStates == {"none", "creating", "open", "canceling", "ended", "ended_missing", "unconfirmed",
                "not_sent"}
PCs == {"idle", "late", "collect", "poll", "cancel", "cancelling", "read", "answered", "failed",
        "lost", "missing", "hold", "create", "record", "refused", "unsure", "normal", "sent"}

CoreTypes ==
  /\ row \in [Requests -> Rows] /\ in \in [Requests -> Batches \cup {0}]
  /\ batch \in [Batches -> BatchStates]
  /\ holds \in [Batches -> SUBSET Requests]
  /\ charges \in [Batches -> [Requests -> Nat]]
  /\ api \in [Batches -> {"absent", "running", "ended"}]
  /\ members \in [Batches -> SUBSET Requests]
  /\ result \in [Batches -> [Requests -> Results]]

RunTypes ==
  /\ pc \in PCs /\ queue \subseteq Batches /\ making \subseteq Batches
  /\ unread \subseteq Requests /\ cached \subseteq Requests
  /\ tries \in [Requests -> Nat] /\ normal \in [Requests -> Nat]

\* What a batch's row says of the batch: unused, not begun, over.
BatchesOK ==
  \A b \in Batches :
    /\ batch[b] = "none" => api[b] = "absent" /\ \A r \in Requests : in[r] # b
    /\ batch[b] \in {"ended", "ended_missing"} => api[b] = "ended"
    /\ api[b] = "absent" => members[b] = {}
    /\ api[b] # "ended" => \A r \in Requests : result[b][r] # "unbilled"

\* What the API works on.
LiveOwned ==
  \A b \in Batches : \A r \in members[b] :
    api[b] = "running" => in[r] = b /\ row[r] \in {"held", "unconfirmed"}

Reading == {"read", "answered", "failed", "lost", "missing"}
Making == {"hold", "create", "record"}
Sendable == {"none", "retry", "not_sent"}

\* The batch a run is reading has ended, and what it read of it is so.
ReadingOK ==
  /\ pc \in Reading \cup {"poll", "cancel", "cancelling", "create", "record", "refused", "unsure"}
       => cur \in Batches
  /\ pc \in Reading => /\ api[cur] = "ended"
                       /\ \A r \in Requests : res[r] = "unbilled" => result[cur][r] = "unbilled"
                       /\ \A r \in unread : in[r] = cur
  /\ pc \in {"answered", "failed", "lost"} => it \in Requests /\ in[it] = cur
  /\ pc = "sent" => it \in Requests /\ row[it] \notin {"held", "unconfirmed"}
  /\ pc = "late" => \A b \in queue : batch[b] = "ended_missing"

\* The batches a run is making are unused until it comes to them.
MakingOK ==
  /\ pc \in Making =>
       /\ \A b \in making : pc = "hold" \/ b # cur =>
            batch[b] = "none" /\ \A r \in holds[b] : row[r] \in Sendable
       /\ \A b, c \in making : b # c => holds[b] \cap holds[c] = {}
  /\ pc = "create" => /\ cur \in making /\ RowsOf(cur) = holds[cur]
                      /\ \A r \in RowsOf(cur) : row[r] = "held"
  /\ pc \in {"create", "refused"} => api[cur] = "absent"
  /\ pc \in {"create", "record", "refused", "unsure"} => batch[cur] # "none"

Inv ==
  /\ CoreTypes /\ RunTypes
  /\ BatchesOK /\ LiveOwned /\ ReadingOK /\ MakingOK /\ BilledIsCharged

core == <<row, in, batch, holds, charges, api, members, result>>

\* A step of the run that writes nothing down.
LEMMA QuietStep ==
  ASSUME Inv, UNCHANGED core, RunTypes', ReadingOK', MakingOK'
  PROVE  Inv'
  BY DEF Inv, core, CoreTypes, BatchesOK, LiveOwned, BilledIsCharged

LEMMA LeaveStep ==
  ASSUME Inv, Leave, UNCHANGED <<cached, tries, normal>>
  PROVE  RunTypes' /\ ReadingOK' /\ MakingOK'
  BY DEF Leave, Inv, RunTypes, PCs, ReadingOK, MakingOK, Reading, Making

-----------------------------------------------------------------------------
(* The start of a run. *)

LEMMA BeginStep ==
  ASSUME Inv, Begin
  PROVE  Inv'
<1>1. UNCHANGED core
  BY DEF Begin, core, rowVars, ledgerVars, apiVars
<1>2. RunTypes' /\ ReadingOK' /\ MakingOK'
  BY DEF Begin, Inv, RunTypes, PCs, ReadingOK, MakingOK, Reading, Making, readVars
<1> QED  BY <1>1, <1>2, QuietStep

LEMMA ReadLateStep ==
  ASSUME Inv, NEW b \in Batches, ReadLate(b)
  PROVE  Inv'
<1>1. pc = "late" /\ b \in queue /\ batch[b] = "ended_missing" /\ api[b] = "ended" /\ pc' = "late"
  BY DEF ReadLate, Inv, ReadingOK, BatchesOK
<1>2. /\ UNCHANGED <<in, holds, charges, api, members, result>>
      /\ queue' = queue \ {b}
      /\ \E state \in {"ended", "ended_missing"} : batch' = [batch EXCEPT ![b] = state]
      /\ UNCHANGED <<making, unread, cached, tries, normal>>
  BY <1>1 DEF ReadLate, ledgerVars, apiVars, readVars, Inv, CoreTypes
<1>3. /\ row' \in [Requests -> Rows]
      /\ \A r \in Requests : row'[r] = row[r] \/ in[r] = b
  BY DEF ReadLate, RowsOf, Inv, CoreTypes, Rows
<1>4. CoreTypes' /\ RunTypes'
  BY <1>1, <1>2, <1>3 DEF Inv, CoreTypes, RunTypes, BatchStates, PCs
<1>5. BatchesOK'
  BY <1>1, <1>2 DEF Inv, BatchesOK, CoreTypes
<1>6. LiveOwned'
  BY <1>1, <1>2, <1>3 DEF Inv, LiveOwned, CoreTypes
<1>7. ReadingOK' /\ MakingOK'
  BY <1>1, <1>2 DEF Inv, ReadingOK, MakingOK, Reading, Making, CoreTypes, RunTypes
<1>8. BilledIsCharged'
  BY <1>2 DEF Inv, BilledIsCharged
<1> QED  BY <1>4, <1>5, <1>6, <1>7, <1>8 DEF Inv

LEMMA ResumeStep ==
  ASSUME Inv, Resume
  PROVE  Inv'
<1> DEFINE dead == {b \in Batches : batch[b] = "creating"}
<1>1. /\ UNCHANGED <<in, holds, charges, api, members, result>>
      /\ UNCHANGED <<making, unread, cached, tries, normal>>
      /\ pc' = "collect" /\ queue' \subseteq Batches
  BY DEF Resume, ledgerVars, apiVars, readVars, histVars
<1>2. batch' = [b \in Batches |-> IF b \in dead THEN "unconfirmed" ELSE batch[b]]
  BY DEF Resume, Unconfirmed
<1>3. row' = [r \in Requests |-> IF in[r] \in dead THEN "unconfirmed"
                                 ELSE IF row[r] = "gave_up" THEN "retry" ELSE row[r]]
  BY DEF Resume, Unconfirmed
<1>4. CoreTypes' /\ RunTypes'
  BY <1>1, <1>2, <1>3 DEF Inv, CoreTypes, RunTypes, BatchStates, Rows, PCs
<1>5. BatchesOK'
  BY <1>1, <1>2 DEF Inv, BatchesOK, CoreTypes
<1>6. LiveOwned'
  BY <1>1, <1>3 DEF Inv, LiveOwned, CoreTypes
<1>7. ReadingOK' /\ MakingOK'
  BY <1>1 DEF ReadingOK, MakingOK, Reading, Making
<1>8. BilledIsCharged'
  BY <1>1 DEF Inv, BilledIsCharged
<1> QED  BY <1>4, <1>5, <1>6, <1>7, <1>8 DEF Inv

-----------------------------------------------------------------------------
(* Collecting a batch. *)

LEMMA CollectStep ==
  ASSUME Inv, Collect
  PROVE  Inv'
<1>1. UNCHANGED core /\ UNCHANGED <<making, unread, cached, tries, normal, queue>>
  BY DEF Collect, core, rowVars, ledgerVars, apiVars, histVars
<1>2. cur' \in Batches /\ pc' \in {"poll", "cancelling"}
  BY DEF Collect, Inv, RunTypes
<1>3. RunTypes' /\ ReadingOK' /\ MakingOK'
  BY <1>1, <1>2 DEF Inv, RunTypes, PCs, ReadingOK, MakingOK, Reading, Making
<1> QED  BY <1>1, <1>3, QuietStep

LEMMA EndedStep ==
  ASSUME Inv, Ended
  PROVE  Inv'
<1>1. UNCHANGED core /\ UNCHANGED <<making, cached, tries, normal, queue, cur>>
  BY DEF Ended, core, rowVars, ledgerVars, apiVars, histVars, runVars
<1>2. /\ cur \in Batches /\ api[cur] = "ended" /\ pc' = "read"
      /\ unread' = RowsOf(cur) /\ res' = result[cur]
  BY DEF Ended, Inv, ReadingOK
<1>3. RunTypes' /\ MakingOK'
  BY <1>1, <1>2 DEF Inv, RunTypes, PCs, MakingOK, Making, RowsOf
<1>4. ReadingOK'
  BY <1>1, <1>2 DEF ReadingOK, Reading, RowsOf, core
<1> QED  BY <1>1, <1>3, <1>4, QuietStep

LEMMA WaitedStep ==
  ASSUME Inv, Waited
  PROVE  Inv'
<1>1. UNCHANGED core
  BY DEF Waited, core, rowVars, ledgerVars, apiVars
<1>2. RunTypes' /\ ReadingOK' /\ MakingOK'
  BY DEF Waited, Inv, RunTypes, PCs, ReadingOK, MakingOK, Reading, Making, readVars, histVars
<1> QED  BY <1>1, <1>2, QuietStep

LEMMA StopsWaitingStep ==
  ASSUME Inv, StopsWaiting
  PROVE  Inv'
<1>1. UNCHANGED core
  BY DEF StopsWaiting, core, rowVars, ledgerVars, apiVars
<1>2. RunTypes' /\ ReadingOK' /\ MakingOK'
  BY LeaveStep DEF StopsWaiting, histVars
<1> QED  BY <1>1, <1>2, QuietStep

LEMMA CancelStep ==
  ASSUME Inv, Cancel
  PROVE  Inv'
<1>1. CASE Leave /\ UNCHANGED batch
  <2>1. UNCHANGED core
    BY <1>1 DEF Cancel, core, rowVars, ledgerVars, apiVars
  <2>2. RunTypes' /\ ReadingOK' /\ MakingOK'
    BY <1>1, LeaveStep DEF Cancel, histVars
  <2> QED  BY <2>1, <2>2, QuietStep
<1>2. CASE /\ pc' = "cancelling"
           /\ batch' = [batch EXCEPT ![cur] = "canceling"]
           /\ UNCHANGED <<readVars, runVars>>
  <2>1. /\ UNCHANGED <<row, in, holds, charges, api, members, result>>
        /\ UNCHANGED <<making, unread, cached, tries, normal, queue, cur>>
        /\ cur \in Batches
    BY <1>2 DEF Cancel, rowVars, ledgerVars, apiVars, histVars, readVars, runVars, Inv, ReadingOK
  <2>2. CoreTypes' /\ RunTypes' /\ BatchesOK'
    BY <1>2, <2>1 DEF Inv, CoreTypes, RunTypes, BatchStates, PCs, BatchesOK
  <2>3. LiveOwned' /\ BilledIsCharged'
    BY <2>1 DEF Inv, LiveOwned, BilledIsCharged
  <2>4. ReadingOK' /\ MakingOK'
    BY <1>2, <2>1 DEF ReadingOK, MakingOK, Reading, Making
  <2> QED  BY <2>2, <2>3, <2>4 DEF Inv
<1> QED  BY <1>1, <1>2 DEF Cancel

LEMMA ReadStep ==
  ASSUME Inv, NEW r \in Requests, Read(r)
  PROVE  Inv'
<1>1. /\ UNCHANGED <<row, in, batch, api, members, result>>
      /\ UNCHANGED <<making, tries, normal, queue, cur, res>>
      /\ pc = "read" /\ r \in unread /\ unread' = unread \ {r} /\ res[r] \in {"ok", "unbilled"}
  BY DEF Read, rowVars, apiVars, runVars
<1>2. cur \in Batches /\ api[cur] = "ended" /\ in[r] = cur
  BY <1>1 DEF Inv, ReadingOK, Reading
<1>3. /\ pc' = "read" \/ (pc' \in {"answered", "failed"} /\ it' = r)
      /\ cached' \subseteq Requests
  BY <1>1 DEF Read, Inv, RunTypes
<1>4. \/ UNCHANGED <<holds, charges>>
      \/ UNCHANGED holds /\ charges' = [charges EXCEPT ![cur][r] = @ + 1]
      \/ /\ res[r] = "unbilled"
         /\ holds' = [holds EXCEPT ![cur] = @ \ {r}] /\ UNCHANGED charges
      \/ /\ holds' = [holds EXCEPT ![cur] = @ \ {r}]
         /\ charges' = [charges EXCEPT ![cur][r] = @ + 1]
  BY <1>1 DEF Read
<1>5. CoreTypes'
  <2>1. holds' \in [Batches -> SUBSET Requests]
    <3>1. [holds EXCEPT ![cur] = @ \ {r}] \in [Batches -> SUBSET Requests]
      BY <1>2 DEF Inv, CoreTypes
    <3> QED  BY <1>4, <3>1 DEF Inv, CoreTypes
  <2>2. charges' \in [Batches -> [Requests -> Nat]]
    <3>1. [charges EXCEPT ![cur][r] = @ + 1] \in [Batches -> [Requests -> Nat]]
      BY <1>2 DEF Inv, CoreTypes
    <3> QED  BY <1>4, <3>1 DEF Inv, CoreTypes
  <2> QED  BY <1>1, <2>1, <2>2 DEF Inv, CoreTypes
<1>6. RunTypes'
  BY <1>1, <1>3 DEF Inv, RunTypes, PCs
<1>7. BatchesOK' /\ LiveOwned' /\ MakingOK'
  BY <1>1, <1>3 DEF Inv, BatchesOK, LiveOwned, MakingOK, Making
<1>8. ReadingOK'
  BY <1>1, <1>2, <1>3 DEF Inv, ReadingOK, Reading
<1>9. BilledIsCharged'
  <2>1. res[r] = "unbilled" => result[cur][r] = "unbilled"
    BY <1>1 DEF Inv, ReadingOK, Reading
  <2>2. CASE UNCHANGED <<holds, charges>>
    BY <1>1, <2>2 DEF Inv, BilledIsCharged
  <2>3. CASE UNCHANGED holds /\ charges' = [charges EXCEPT ![cur][r] = @ + 1]
    BY <1>1, <1>2, <2>3 DEF Inv, BilledIsCharged, CoreTypes
  <2>4. CASE /\ res[r] = "unbilled"
             /\ holds' = [holds EXCEPT ![cur] = @ \ {r}] /\ UNCHANGED charges
    BY <1>1, <1>2, <2>1, <2>4 DEF Inv, BilledIsCharged, CoreTypes
  <2>5. CASE /\ holds' = [holds EXCEPT ![cur] = @ \ {r}]
             /\ charges' = [charges EXCEPT ![cur][r] = @ + 1]
    BY <1>1, <1>2, <2>5 DEF Inv, BilledIsCharged, CoreTypes
  <2> QED  BY <1>4, <2>2, <2>3, <2>4, <2>5
<1> QED  BY <1>5, <1>6, <1>7, <1>8, <1>9 DEF Inv

\* The row of a request the read batch holds is rewritten.
LEMMA RowOfRead ==
  ASSUME Inv, pc \in {"answered", "failed", "lost"}, NEW state \in Rows,
         row' = [row EXCEPT ![it] = state], pc' \in {"read", "missing"},
         pc' = "read" \/ pc = "lost",
         UNCHANGED <<in, batch, holds, charges, api, members, result>>,
         UNCHANGED <<making, tries, normal, queue, cur, res, unread, cached>>,
         \A r \in unread : in[r] = cur
  PROVE  Inv'
<1>1. cur \in Batches /\ api[cur] = "ended" /\ it \in Requests /\ in[it] = cur
  BY DEF Inv, ReadingOK, Reading
<1>2. CoreTypes' /\ RunTypes'
  BY <1>1 DEF Inv, CoreTypes, RunTypes, PCs
<1>3. BatchesOK' /\ BilledIsCharged' /\ MakingOK'
  BY DEF Inv, BatchesOK, BilledIsCharged, MakingOK, Making
<1>4. LiveOwned'
  BY <1>1 DEF Inv, LiveOwned, CoreTypes
<1>5. ReadingOK'
  BY <1>1 DEF Inv, ReadingOK, Reading
<1> QED  BY <1>2, <1>3, <1>4, <1>5 DEF Inv

LEMMA CommitAnswerStep ==
  ASSUME Inv, CommitAnswer
  PROVE  Inv'
<1>1. \A r \in unread : in[r] = cur
  BY DEF CommitAnswer, Inv, ReadingOK, Reading
<1> QED
  BY <1>1, RowOfRead DEF CommitAnswer, Rows, ledgerVars, apiVars, readVars, runVars, histVars

LEMMA CommitFailedStep ==
  ASSUME Inv, CommitFailed
  PROVE  Inv'
<1>1. \A r \in unread : in[r] = cur
  BY DEF CommitFailed, Inv, ReadingOK, Reading
<1>2. PICK state \in Rows : row' = [row EXCEPT ![it] = state]
  BY DEF CommitFailed, Rows
<1> QED
  BY <1>1, <1>2, RowOfRead DEF CommitFailed, ledgerVars, apiVars, readVars, runVars, histVars

LEMMA ReadMissingStep ==
  ASSUME Inv, ReadMissing
  PROVE  Inv'
<1>1. UNCHANGED core /\ UNCHANGED <<making, cached, tries, normal, queue, cur, res>>
  BY DEF ReadMissing, core, rowVars, ledgerVars, apiVars, histVars, runVars
<1>2. /\ pc = "read" /\ pc' = "missing" /\ unread' \subseteq Requests
      /\ \A r \in unread' : in[r] = cur
  BY DEF ReadMissing, StillHeld, RowsOf
<1>3. RunTypes' /\ MakingOK'
  BY <1>1, <1>2 DEF Inv, RunTypes, PCs, MakingOK, Making
<1>4. ReadingOK'
  BY <1>1, <1>2 DEF Inv, ReadingOK, Reading, core
<1> QED  BY <1>1, <1>3, <1>4, QuietStep

LEMMA SettleMissingStep ==
  ASSUME Inv, NEW r \in Requests, SettleMissing(r)
  PROVE  Inv'
<1>1. /\ UNCHANGED <<row, in, batch, api, members, result>>
      /\ UNCHANGED <<making, tries, normal, queue, cur, res, cached>>
      /\ pc = "missing" /\ pc' = "lost" /\ r \in unread /\ unread' = unread \ {r} /\ it' = r
  BY DEF SettleMissing, rowVars, apiVars, runVars, histVars
<1>2. cur \in Batches /\ api[cur] = "ended" /\ in[r] = cur
  BY <1>1 DEF Inv, ReadingOK, Reading
<1>3. /\ holds' = [holds EXCEPT ![cur] = @ \ {r}]
      /\ charges' = [charges EXCEPT ![cur][r] = @ + 1]
  BY DEF SettleMissing, Lost
<1>4. CoreTypes' /\ RunTypes'
  BY <1>1, <1>2, <1>3 DEF Inv, CoreTypes, RunTypes, PCs
<1>5. BatchesOK' /\ LiveOwned' /\ MakingOK'
  BY <1>1 DEF Inv, BatchesOK, LiveOwned, MakingOK, Making
<1>6. ReadingOK'
  BY <1>1, <1>2 DEF Inv, ReadingOK, Reading
<1>7. BilledIsCharged'
  BY <1>1, <1>2, <1>3 DEF Inv, BilledIsCharged, CoreTypes
<1> QED  BY <1>4, <1>5, <1>6, <1>7 DEF Inv

LEMMA EndReadStep ==
  ASSUME Inv, EndRead
  PROVE  Inv'
<1>1. /\ UNCHANGED <<row, in, holds, charges, api, members, result>>
      /\ UNCHANGED <<making, unread, cached, tries, normal, cur>>
      /\ pc = "missing" /\ pc' = "collect" /\ queue' = queue \ {cur}
  BY DEF EndRead, rowVars, ledgerVars, apiVars, readVars, histVars
<1>2. PICK state \in {"ended", "ended_missing"} : batch' = [batch EXCEPT ![cur] = state]
  BY DEF EndRead
<1>3. cur \in Batches /\ api[cur] = "ended"
  BY <1>1 DEF Inv, ReadingOK, Reading
<1>4. CoreTypes' /\ RunTypes' /\ BatchesOK'
  BY <1>1, <1>2, <1>3 DEF Inv, CoreTypes, RunTypes, BatchStates, PCs, BatchesOK
<1>5. LiveOwned' /\ BilledIsCharged'
  BY <1>1 DEF Inv, LiveOwned, BilledIsCharged
<1>6. ReadingOK' /\ MakingOK'
  BY <1>1 DEF ReadingOK, MakingOK, Reading, Making
<1> QED  BY <1>4, <1>5, <1>6 DEF Inv

-----------------------------------------------------------------------------
(* Sending what is left. *)

LEMMA CollectedStep ==
  ASSUME Inv, Collected
  PROVE  Inv'
<1>1. UNCHANGED core /\ UNCHANGED <<cached, tries, normal>>
  BY DEF Collected, core, rowVars, ledgerVars, apiVars, histVars
<1>2. CASE Leave
  BY <1>1, <1>2, LeaveStep, QuietStep
<1>3. CASE pc' = "normal" /\ unread' = Requests /\ UNCHANGED runVars
  BY <1>1, <1>3, QuietStep DEF runVars, Inv, RunTypes, PCs, ReadingOK, MakingOK, Reading, Making
<1> QED  BY <1>2, <1>3 DEF Collected

\* Rows of requests no batch has, or may have, are rewritten.
LEMMA FreeRows ==
  ASSUME Inv, row' \in [Requests -> Rows], UNCHANGED <<in, api, members>>,
         \A r \in Requests : row'[r] = row[r] \/ row[r] \in Sendable
  PROVE  LiveOwned'
  BY DEF Inv, LiveOwned, CoreTypes, Sendable

LEMMA NumbersGrow ==
  ASSUME NEW fits \in SUBSET Requests, NEW r \in Requests, NEW first \in Nat, NEW size \in SliceSizes
  PROVE  /\ Cardinality({q \in fits : q < r}) \div size \in Nat
         /\ first + Cardinality({q \in fits : q < r}) \div size >= first
<1> DEFINE before == {q \in fits : q < r}
<1>1. IsFiniteSet(Requests) /\ size \in Nat /\ size > 0
  BY BatchAssumption
<1>2. Cardinality(before) \in Nat
  BY <1>1, FS_Subset, FS_CardinalityType
<1>3. \A n \in Nat, k \in Nat : k > 0 => n \div k \in Nat
  OBVIOUS
<1>4. Cardinality(before) \div size \in Nat
  BY <1>1, <1>2, <1>3
<1> HIDE DEF before
<1>5. first + Cardinality(before) \div size >= first
  BY <1>4
<1> QED  BY <1>4, <1>5 DEF before

LEMMA SubmitStep ==
  ASSUME Inv, Submit
  PROVE  Inv'
<1> DEFINE stored == Again \cap cached
           used == {b \in Batches : batch[b] # "none" \/ holds[b] # {}}
<1>1. /\ UNCHANGED <<in, batch, charges, api, members, result>>
      /\ UNCHANGED <<unread, cached, tries, normal, queue>>
      /\ row' = [r \in Requests |-> IF r \in stored THEN "answered" ELSE row[r]]
  BY DEF Submit, apiVars, readVars, histVars
<1>2. PICK fits \in SUBSET (Again \ cached), first \in 1..MaxBatches + 1, size \in SliceSizes :
        LET slice(r) == first + Cardinality({q \in fits : q < r}) \div size
            slices == {slice(r) : r \in fits} IN
        /\ IsFirst(first, {b \in 1..MaxBatches + 1 : \A c \in used : c < b})
        /\ slices \subseteq Batches
        /\ holds' = [b \in Batches |-> IF b \in slices THEN {r \in fits : slice(r) = b} ELSE holds[b]]
        /\ making' = slices
        /\ pc' = IF fits = {} THEN "collect" ELSE "hold"
  BY DEF Submit
<1> DEFINE slice(r) == first + Cardinality({q \in fits : q < r}) \div size
<1>3. /\ making' = {slice(r) : r \in fits} /\ making' \subseteq Batches
      /\ holds' = [b \in Batches |-> IF b \in making' THEN {r \in fits : slice(r) = b} ELSE holds[b]]
      /\ pc' \in {"collect", "hold"}
  BY <1>2
<1>4. \A r \in Again : r \in Requests /\ row[r] \in Sendable
  BY DEF Again, Sendable
<1>5. fits \subseteq Requests /\ fits \cap stored = {} /\ \A r \in fits : row[r] \in Sendable
  BY <1>2, <1>4
<1>6. \A b \in making' : b \notin used
  <2>1. \A c \in used : c < first
    BY <1>2 DEF IsFirst
  <2>2. first \in Nat /\ \A c \in used : c \in Nat
    BY BatchAssumption DEF Batches
  <2> SUFFICES ASSUME NEW r \in fits, slice(r) \in used PROVE FALSE
    BY <1>3
  <2>3. slice(r) >= first
    BY <1>5, <2>2, NumbersGrow
  <2> HIDE DEF slice, used
  <2> QED  BY <2>1, <2>2, <2>3
<1>7. \A b \in making' : b \in Batches /\ batch[b] = "none" /\ api[b] = "absent" /\ members[b] = {}
  BY <1>3, <1>6 DEF Inv, BatchesOK
<1>8. row' \in [Requests -> Rows] /\ \A r \in Requests : row'[r] = row[r] \/ row[r] \in Sendable
  BY <1>1, <1>4 DEF Inv, CoreTypes, Rows
<1> HIDE DEF slice
<1>9. CoreTypes' /\ RunTypes'
  <2>1. holds' \in [Batches -> SUBSET Requests]
    BY <1>3, <1>5 DEF Inv, CoreTypes
  <2> QED  BY <1>1, <1>3, <1>8, <2>1 DEF Inv, CoreTypes, RunTypes, PCs
<1>10. BatchesOK' /\ LiveOwned'
  BY <1>1, <1>8, FreeRows DEF Inv, BatchesOK
<1>11. ReadingOK'
  BY <1>3 DEF ReadingOK, Reading
<1>12. MakingOK'
  <2>1. \A b \in making' : \A r \in holds'[b] : r \in fits /\ slice(r) = b
    BY <1>3
  <2>2. \A r \in fits : row'[r] \in Sendable
    BY <1>1, <1>5
  <2>3. \A b, c \in making' : b # c => holds'[b] \cap holds'[c] = {}
    BY <2>1
  <2> QED  BY <1>1, <1>3, <1>7, <2>1, <2>2, <2>3 DEF MakingOK, Making
<1>13. BilledIsCharged'
  BY <1>1, <1>3, <1>7 DEF Inv, BilledIsCharged, CoreTypes
<1> QED  BY <1>9, <1>10, <1>11, <1>12, <1>13 DEF Inv

LEMMA RefusedStep ==
  ASSUME Inv, Refused
  PROVE  Inv'
<1>1. /\ UNCHANGED <<in, batch, holds, charges, api, members, result>>
      /\ row' = [r \in Requests |-> IF r \in Again \cap cached THEN "answered" ELSE row[r]]
  BY DEF Refused, apiVars, ledgerVars
<1>2. row' \in [Requests -> Rows] /\ \A r \in Requests : row'[r] = row[r] \/ row[r] \in Sendable
  BY <1>1 DEF Inv, CoreTypes, Rows, Again, Sendable
<1>3. RunTypes' /\ ReadingOK' /\ MakingOK'
  BY LeaveStep DEF Refused, histVars
<1>4. CoreTypes' /\ BatchesOK' /\ BilledIsCharged'
  BY <1>1, <1>2 DEF Inv, CoreTypes, BatchesOK, BilledIsCharged
<1> QED  BY <1>1, <1>2, <1>3, <1>4, FreeRows DEF Inv

LEMMA HoldStep ==
  ASSUME Inv, Hold
  PROVE  Inv'
<1>1. /\ UNCHANGED <<holds, charges, api, members, result>>
      /\ UNCHANGED <<unread, cached, tries, normal, queue, making>>
      /\ pc = "hold" /\ pc' = "create" /\ cur' \in making
      /\ batch' = [batch EXCEPT ![cur'] = "creating"]
      /\ row' = [r \in Requests |-> IF r \in holds[cur'] THEN "held" ELSE row[r]]
      /\ in' = [r \in Requests |-> IF r \in holds[cur'] THEN cur' ELSE in[r]]
  BY DEF Hold, apiVars, ledgerVars, runVars, histVars
<1>2. /\ cur' \in Batches /\ holds[cur'] \subseteq Requests
      /\ batch[cur'] = "none" /\ api[cur'] = "absent" /\ members[cur'] = {}
      /\ \A r \in Requests : in[r] # cur'
      /\ \A r \in holds[cur'] : row[r] \in Sendable
  BY <1>1 DEF Inv, RunTypes, MakingOK, Making, BatchesOK, CoreTypes
<1>3. CoreTypes' /\ RunTypes'
  BY <1>1, <1>2 DEF Inv, CoreTypes, RunTypes, PCs, Rows, BatchStates
<1>4. BatchesOK'
  BY <1>1, <1>2 DEF Inv, BatchesOK, CoreTypes
<1>5. LiveOwned'
  BY <1>1, <1>2 DEF Inv, LiveOwned, CoreTypes, Sendable
<1>6. ReadingOK'
  BY <1>1, <1>2 DEF ReadingOK, Reading
<1>7. MakingOK'
  <2>1. RowsOf(cur)' = holds'[cur'] /\ \A r \in holds'[cur'] : row'[r] = "held"
    BY <1>1, <1>2 DEF RowsOf
  <2>2. \A b, c \in making : b # c => holds[b] \cap holds[c] = {}
    BY <1>1 DEF Inv, MakingOK, Making
  <2>3. ASSUME NEW b \in making, b # cur'
        PROVE  batch'[b] = "none" /\ \A r \in holds'[b] : row'[r] \in Sendable
    BY <1>1, <2>2, <2>3 DEF Inv, MakingOK, Making, RunTypes, CoreTypes
  <2>4. batch'[cur'] # "none"
    BY <1>1, <1>2 DEF Inv, CoreTypes
  <2> QED  BY <1>1, <1>2, <2>1, <2>2, <2>3, <2>4 DEF MakingOK
<1>8. BilledIsCharged'
  BY <1>1 DEF Inv, BilledIsCharged
<1> QED  BY <1>3, <1>4, <1>5, <1>6, <1>7, <1>8 DEF Inv

LEMMA CreateStep ==
  ASSUME Inv, Create
  PROVE  Inv'
<1>1. /\ UNCHANGED <<row, in, batch, result>>
      /\ UNCHANGED <<unread, cached, normal, queue, making, cur>>
      /\ pc = "create"
  BY DEF Create, rowVars, readVars, runVars
<1>2. /\ cur \in Batches /\ cur \in making /\ api[cur] = "absent" /\ batch[cur] # "none"
      /\ RowsOf(cur) = holds[cur] /\ \A r \in RowsOf(cur) : row[r] = "held"
      /\ RowsOf(cur) \subseteq Requests
  BY <1>1 DEF Inv, ReadingOK, MakingOK, RowsOf
<1>3. PICK made \in {"running", "absent"} :
        /\ api' = [api EXCEPT ![cur] = made]
        /\ members' = IF made = "running" THEN [members EXCEPT ![cur] = RowsOf(cur)] ELSE members
        /\ \/ pc' = "record" /\ made = "running" /\ UNCHANGED ledgerVars
           \/ /\ pc' = "refused" /\ made = "absent"
              /\ holds' = [holds EXCEPT ![cur] = {}] /\ UNCHANGED charges
           \/ /\ pc' = "unsure"
              /\ holds' = [holds EXCEPT ![cur] = {}]
              /\ charges' = [charges EXCEPT ![cur] =
                               [r \in Requests |-> IF r \in RowsOf(cur) THEN 1 ELSE @[r]]]
  <2>1. api \in [Batches -> {"absent", "running", "ended"}]
    BY DEF Inv, CoreTypes
  <2>2. PICK made \in {"running", "absent"} : api' = [api EXCEPT ![cur] = made]
    <3>1. UNCHANGED api => api' = [api EXCEPT ![cur] = "absent"]
      BY <1>2, <2>1
    <3> QED  BY <3>1 DEF Create
  <2>3. api'[cur] = made
    BY <1>2, <2>1, <2>2
  <2> QED  BY <1>2, <2>1, <2>2, <2>3 DEF Create, NotMade
<1>4. tries' \in [Requests -> Nat]
  BY DEF Create, Inv, RunTypes
<1>5. CoreTypes'
  <2>1. api' \in [Batches -> {"absent", "running", "ended"}] /\ members' \in [Batches -> SUBSET Requests]
    BY <1>2, <1>3 DEF Inv, CoreTypes
  <2>2. holds' \in [Batches -> SUBSET Requests]
    BY <1>2, <1>3 DEF Inv, CoreTypes, ledgerVars
  <2>3. charges' \in [Batches -> [Requests -> Nat]]
    <3>1. [charges EXCEPT ![cur] = [r \in Requests |-> IF r \in RowsOf(cur) THEN 1 ELSE @[r]]]
            \in [Batches -> [Requests -> Nat]]
      BY <1>2 DEF Inv, CoreTypes
    <3> QED  BY <1>3, <3>1 DEF Inv, CoreTypes, ledgerVars
  <2> QED  BY <1>1, <2>1, <2>2, <2>3 DEF Inv, CoreTypes
<1>6. RunTypes'
  BY <1>1, <1>3, <1>4 DEF Inv, RunTypes, PCs
<1>7. BatchesOK'
  BY <1>1, <1>2, <1>3 DEF Inv, BatchesOK, CoreTypes
<1>8. LiveOwned'
  BY <1>1, <1>2, <1>3 DEF Inv, LiveOwned, CoreTypes, RowsOf
<1>9. ReadingOK'
  BY <1>1, <1>2, <1>3 DEF ReadingOK, Reading
<1>10. MakingOK'
  BY <1>1, <1>2, <1>3 DEF Inv, MakingOK, Making, ledgerVars, CoreTypes
<1>11. BilledIsCharged'
  <2>1. members[cur] = {}
    BY <1>2 DEF Inv, BatchesOK
  <2>2. members'[cur] = {} \/ members'[cur] = holds[cur]
    BY <1>2, <1>3, <2>1 DEF Inv, CoreTypes
  <2>3. \A r \in members'[cur] : r \in holds'[cur] \/ charges'[cur][r] >= 1
    <3>1. CASE UNCHANGED ledgerVars
      BY <2>2, <3>1 DEF ledgerVars
    <3>2. CASE made = "absent"
      BY <1>3, <2>1, <3>2
    <3>3. CASE charges' = [charges EXCEPT ![cur] =
                             [r \in Requests |-> IF r \in RowsOf(cur) THEN 1 ELSE @[r]]]
      <4>1. \A r \in RowsOf(cur) : charges'[cur][r] = 1
        BY <1>2, <3>3 DEF Inv, CoreTypes
      <4> QED  BY <1>2, <2>2, <4>1
    <3> QED  BY <1>3, <3>1, <3>2, <3>3
  <2>4. \A b \in Batches : b # cur => /\ members'[b] = members[b] /\ holds'[b] = holds[b]
                                      /\ charges'[b] = charges[b]
    BY <1>2, <1>3 DEF Inv, CoreTypes, ledgerVars
  <2> QED  BY <1>1, <2>3, <2>4 DEF Inv, BilledIsCharged
<1> QED  BY <1>5, <1>6, <1>7, <1>8, <1>9, <1>10, <1>11 DEF Inv

LEMMA CreateFailedStep ==
  ASSUME Inv, CreateFailed
  PROVE  Inv'
<1>1. /\ UNCHANGED <<in, holds, charges, api, members, result>> /\ pc \in {"refused", "unsure"}
      /\ UNCHANGED <<cached, tries, normal>> /\ Leave
  BY DEF CreateFailed, ledgerVars, apiVars, histVars
<1>2. PICK state \in {"not_sent", "unconfirmed"} :
        /\ state = "not_sent" => pc = "refused"
        /\ batch' = [batch EXCEPT ![cur] = state]
        /\ row' = [r \in Requests |-> IF r \in RowsOf(cur) THEN state ELSE row[r]]
  BY <1>1 DEF CreateFailed
<1>3. cur \in Batches /\ (pc = "refused" => api[cur] = "absent")
  BY <1>1 DEF Inv, ReadingOK, MakingOK
<1>4. RunTypes' /\ ReadingOK' /\ MakingOK'
  BY <1>1, LeaveStep
<1>5. CoreTypes' /\ BatchesOK'
  BY <1>1, <1>2, <1>3 DEF Inv, CoreTypes, BatchesOK, Rows, BatchStates
<1>6. LiveOwned'
  BY <1>1, <1>2, <1>3 DEF Inv, LiveOwned, CoreTypes, RowsOf
<1>7. BilledIsCharged'
  BY <1>1 DEF Inv, BilledIsCharged
<1> QED  BY <1>4, <1>5, <1>6, <1>7 DEF Inv

LEMMA RecordStep ==
  ASSUME Inv, Record
  PROVE  Inv'
<1>1. /\ UNCHANGED <<row, in, holds, charges, api, members, result>>
      /\ UNCHANGED <<unread, cached, tries, normal, cur>>
      /\ pc = "record" /\ pc' \in {"collect", "hold"}
      /\ batch' = [batch EXCEPT ![cur] = "open"]
      /\ queue' = queue \cup {cur} /\ making' = making \ {cur}
  BY DEF Record, rowVars, ledgerVars, apiVars, readVars, histVars
<1>2. cur \in Batches
  BY <1>1 DEF Inv, ReadingOK
<1>3. CoreTypes' /\ RunTypes' /\ BatchesOK'
  BY <1>1, <1>2 DEF Inv, CoreTypes, RunTypes, BatchesOK, BatchStates, PCs
<1>4. LiveOwned' /\ BilledIsCharged'
  BY <1>1 DEF Inv, LiveOwned, BilledIsCharged
<1>5. ReadingOK'
  BY <1>1 DEF ReadingOK, Reading
<1>6. MakingOK'
  BY <1>1, <1>2 DEF Inv, MakingOK, Making, CoreTypes, RunTypes
<1> QED  BY <1>3, <1>4, <1>5, <1>6 DEF Inv

LEMMA NormalStep ==
  ASSUME Inv, NEW r \in Requests, Normal(r)
  PROVE  Inv'
<1>1. UNCHANGED core /\ UNCHANGED <<tries, queue, making>> /\ pc = "normal"
  BY DEF Normal, core, rowVars, ledgerVars, apiVars, runVars
<1>2. /\ unread' \subseteq Requests /\ cached' \subseteq Requests
      /\ normal' \in [Requests -> Nat]
  BY DEF Normal, Inv, RunTypes
<1>3. /\ pc' \in {"normal", "sent"}
      /\ pc' = "sent" => it' = r /\ row[r] \notin {"held", "unconfirmed"}
  BY <1>1 DEF Normal
<1>4. RunTypes' /\ ReadingOK' /\ MakingOK'
  BY <1>1, <1>2, <1>3 DEF Inv, RunTypes, PCs, ReadingOK, MakingOK, Reading, Making, core
<1> QED  BY <1>1, <1>4, QuietStep

LEMMA CommitNormalStep ==
  ASSUME Inv, CommitNormal
  PROVE  Inv'
<1>1. /\ UNCHANGED <<in, batch, holds, charges, api, members, result>>
      /\ UNCHANGED <<unread, cached, tries, normal, queue, making>>
      /\ pc = "sent" /\ pc' = "normal" /\ row' = [row EXCEPT ![it] = "answered"]
  BY DEF CommitNormal, ledgerVars, apiVars, readVars, runVars, histVars
<1>2. it \in Requests /\ row[it] \notin {"held", "unconfirmed"}
  BY <1>1 DEF Inv, ReadingOK
<1>3. CoreTypes' /\ RunTypes'
  BY <1>1, <1>2 DEF Inv, CoreTypes, RunTypes, Rows, PCs
<1>4. BatchesOK' /\ BilledIsCharged'
  BY <1>1 DEF Inv, BatchesOK, BilledIsCharged
<1>5. LiveOwned'
  BY <1>1, <1>2 DEF Inv, LiveOwned, CoreTypes
<1>6. ReadingOK' /\ MakingOK'
  BY <1>1 DEF ReadingOK, MakingOK, Reading, Making
<1> QED  BY <1>3, <1>4, <1>5, <1>6 DEF Inv

LEMMA EndNormalStep ==
  ASSUME Inv, EndNormal
  PROVE  Inv'
  BY LeaveStep, QuietStep DEF EndNormal, core, rowVars, ledgerVars, apiVars, histVars

-----------------------------------------------------------------------------
(* The API, and a death of the process. *)

LEMMA ApiEndsStep ==
  ASSUME Inv, NEW b \in Batches, ApiEnds(b)
  PROVE  Inv'
<1>1. /\ UNCHANGED <<row, in, batch, holds, charges, members>>
      /\ UNCHANGED <<pc, cur, it, unread, res, queue, making, cached, tries, normal>>
      /\ api[b] = "running" /\ api' = [api EXCEPT ![b] = "ended"]
  BY DEF ApiEnds, rowVars, ledgerVars, readVars, runVars, histVars
<1>2. PICK f \in [members[b] -> Results] :
        result' = [result EXCEPT ![b] = [r \in Requests |-> IF r \in members[b] THEN f[r] ELSE "none"]]
  BY DEF ApiEnds, Results
<1>3. CoreTypes' /\ RunTypes'
  BY <1>1, <1>2 DEF Inv, CoreTypes, RunTypes, Results
<1>4. BatchesOK' /\ LiveOwned'
  BY <1>1, <1>2 DEF Inv, BatchesOK, LiveOwned, CoreTypes
<1>5. ReadingOK' /\ MakingOK'
  BY <1>1, <1>2 DEF Inv, ReadingOK, MakingOK, Reading, RowsOf, CoreTypes
<1>6. BilledIsCharged'
  BY <1>1, <1>2 DEF Inv, BilledIsCharged, BatchesOK, CoreTypes
<1> QED  BY <1>3, <1>4, <1>5, <1>6 DEF Inv

LEMMA TurnsUpStep ==
  ASSUME Inv, NEW b \in Batches, NEW r \in Requests, TurnsUp(b, r)
  PROVE  Inv'
<1>1. /\ UNCHANGED <<row, in, batch, holds, charges, api, members>>
      /\ UNCHANGED <<pc, cur, it, unread, res, queue, making, cached, tries, normal>>
      /\ result[b][r] = "missing" /\ result' = [result EXCEPT ![b][r] = "ok"]
  BY DEF TurnsUp, rowVars, ledgerVars, readVars, runVars, histVars
<1>2. CoreTypes' /\ RunTypes'
  BY <1>1 DEF Inv, CoreTypes, RunTypes, Results
<1>3. BatchesOK' /\ LiveOwned'
  BY <1>1 DEF Inv, BatchesOK, LiveOwned, CoreTypes
<1>4. ReadingOK' /\ MakingOK'
  BY <1>1 DEF Inv, ReadingOK, MakingOK, Reading, RowsOf, CoreTypes
<1>5. BilledIsCharged'
  BY <1>1 DEF Inv, BilledIsCharged, CoreTypes
<1> QED  BY <1>2, <1>3, <1>4, <1>5 DEF Inv

LEMMA CrashStep ==
  ASSUME Inv, Crash
  PROVE  Inv'
  BY LeaveStep, QuietStep DEF Crash, core, rowVars, ledgerVars, apiVars

-----------------------------------------------------------------------------
LEMMA InitInv ==
  ASSUME Init
  PROVE  Inv
<1>1. CoreTypes /\ RunTypes
  BY DEF Init, CoreTypes, RunTypes, Rows, BatchStates, Results, PCs
<1>2. BatchesOK /\ LiveOwned /\ BilledIsCharged
  BY DEF Init, BatchesOK, LiveOwned, BilledIsCharged, Batches
<1>3. ReadingOK /\ MakingOK
  BY DEF Init, ReadingOK, MakingOK, Reading, Making
<1> QED  BY <1>1, <1>2, <1>3 DEF Inv

LEMMA StepInv ==
  ASSUME Inv, [Next]_vars
  PROVE  Inv'
<1>1. CASE UNCHANGED vars
  BY <1>1, QuietStep
     DEF vars, core, rowVars, ledgerVars, apiVars, readVars, runVars, histVars, Inv, RunTypes,
         ReadingOK, MakingOK, RowsOf
<1>2. CASE Next
  BY <1>2, BeginStep, ResumeStep, ReadLateStep, CollectStep, EndedStep, WaitedStep, StopsWaitingStep,
     CancelStep, ReadStep, SettleMissingStep, NormalStep, CommitAnswerStep, CommitFailedStep,
     ReadMissingStep, EndReadStep, CollectedStep, SubmitStep, RefusedStep, HoldStep, CreateStep,
     CreateFailedStep, RecordStep, CommitNormalStep, EndNormalStep, ApiEndsStep, TurnsUpStep, CrashStep
     DEF Next
<1> QED  BY <1>1, <1>2

LEMMA InvHolds == Spec => []Inv
  BY InitInv, StepInv, PTL DEF Spec

\* What the API may bill is held or charged on the ledger, at every moment and
\* whenever the process dies (the reservations and settlements of run_many).
THEOREM BilledIsOnLedger == Spec => []BilledIsCharged
<1>1. Inv => BilledIsCharged
  BY DEF Inv
<1> QED  BY <1>1, InvHolds, PTL

LEMMA OneSendStep ==
  ASSUME Inv, [Next]_vars
  PROVE  [\A r \in Requests : tries'[r] > tries[r] \/ normal'[r] > normal[r] => Out(r) = {}]_vars
<1> SUFFICES ASSUME Next, NEW r \in Requests, tries'[r] > tries[r] \/ normal'[r] > normal[r]
             PROVE  Out(r) = {}
  BY DEF vars
<1>1. tries[r] \in Nat /\ normal[r] \in Nat
  BY DEF Inv, RunTypes
<1>2. CASE \E q \in Requests : Normal(q)
  <2>1. row[r] \notin {"held", "unconfirmed"}
    BY <1>1, <1>2 DEF Normal, Inv, RunTypes
  <2> QED  BY <2>1 DEF Inv, LiveOwned, Out
<1>3. CASE Create /\ r \in RowsOf(cur)
  BY <1>3 DEF Create, Inv, LiveOwned, MakingOK, Out, RowsOf
<1>4. CASE Create /\ r \notin RowsOf(cur)
  BY <1>1, <1>4 DEF Create
<1>5. CASE Begin
  BY <1>1, <1>5 DEF Begin
<1>6. CASE UNCHANGED <<tries, normal>>
  BY <1>1, <1>6
<1>7. \/ \E q \in Requests : Normal(q)
      \/ Create \/ Begin \/ UNCHANGED <<tries, normal>>
  BY DEF Next, Resume, ReadLate, Collect, Ended, Waited, StopsWaiting, Cancel, Read, SettleMissing,
         CommitAnswer, CommitFailed, ReadMissing, EndRead, Collected, Submit, Refused, Hold,
         CreateFailed, Record, CommitNormal, EndNormal, ApiEnds, TurnsUp, Crash, histVars
<1> QED  BY <1>2, <1>3, <1>4, <1>5, <1>6, <1>7

\* No request is sent, in a batch or on its own, while the API works on a batch
\* that has it (run_many, _mark_unconfirmed and _send_rest_normally).
THEOREM NeverOutTwice == Spec => OneLiveSend
<1>1. Inv /\ [Next]_vars => [\A r \in Requests : tries'[r] > tries[r] \/ normal'[r] > normal[r] => Out(r) = {}]_vars
  BY OneSendStep
<1> QED  BY <1>1, InvHolds, PTL DEF Spec, OneLiveSend

-----------------------------------------------------------------------------
(* What one run leaves to the next.  Every row that says held belongs to a  *)
(* batch that is out or being made (HeldOK); a batch whose read was never   *)
(* cut off is read from rows that all say held and has charged nothing      *)
(* before (ChargesOK), so each row is settled once and used (SeenOK); and   *)
(* a hold is that of such a row, of a batch still to be made, or of one     *)
(* given up because the create of an earlier one failed (HoldsOK).          *)

InCreate == {"create", "record", "refused", "unsure"}
OfBatch == {"poll", "cancel", "cancelling"} \cup Reading
OneRow == {"answered", "failed", "lost"}

Torn(b) == \E q \in Requests \cup {NoRequest} : <<b, q>> \in torn

\* A request is sent while it has an attempt left, and in one run no more
\* often than it has attempts.
AttemptsOK ==
  /\ attempts \in [Requests -> 0..MAX_ATTEMPTS] /\ lost \in [Requests -> BOOLEAN]
  /\ \A r \in Requests : row[r] \in Sendable => attempts[r] < MAX_ATTEMPTS
  /\ \A r \in Requests : tries[r] <= attempts[r]
  /\ pc = "late" => \A r \in Requests : tries[r] = 0
  /\ pc \in {"create", "refused"} => \A r \in RowsOf(cur) : tries[r] < attempts[r]

\* The batch being made is "creating", the batches being collected are open.
StatesOK ==
  /\ pc \in InCreate => batch[cur] = "creating"
  /\ pc \notin {"idle", "late"} => \A b \in queue : batch[b] \in OPEN_STATES
  /\ pc \in OfBatch => cur \in queue

\* A row that says held is that of a batch not yet over.
HeldOK ==
  /\ \A r \in Requests : row[r] = "held" =>
       in[r] \in Batches /\ (r \in members[in[r]] \/ batch[in[r]] = "creating")
  /\ \A r \in Requests : in[r] \in Batches /\ batch[in[r]] = "creating" => row[r] = "held"
  /\ \A r \in Requests : in[r] \in Batches /\ batch[in[r]] \in {"ended", "ended_missing"} =>
       row[r] # "held"
  /\ pc = "record" => RowsOf(cur) \subseteq members[cur]
  /\ pc = "missing" => StillHeld(cur) \subseteq unread
  /\ pc = "lost" => StillHeld(cur) \subseteq unread \cup {it}

\* While results are read, a row not yet come to is as it was.
SnapOK ==
  /\ pc \in {"read", "answered", "failed"} => \A r \in unread : snap[r] = row[r]
  /\ pc \in {"missing", "lost"} => \A r \in unread : row[r] = "held"
  /\ pc \in OneRow => row[it] = "held" /\ it \notin unread /\ it \notin holds[cur]

\* Whose the open reservations are while no run has died.
Waits(b) == pc \in Making \cup InCreate /\ b \in making /\ (pc = "hold" \/ b # cur)
Abandoned(b) == batch[b] = "none" /\ \E c \in Batches : c < b /\ batch[c] \in {"not_sent", "unconfirmed"}
HoldsOK ==
  /\ crashes \in Nat
  /\ crashes = 0 => \A b \in Batches : \A r \in holds[b] :
       (in[r] = b /\ row[r] = "held") \/ Waits(b) \/ Abandoned(b)
  /\ crashes = 0 => \A b \in Batches : batch[b] = "creating" => pc \in InCreate /\ b = cur
  /\ pc \in {"refused", "unsure"} => holds[cur] = {}
  /\ pc \in InCreate => \A b \in making \ {cur} : cur < b /\ batch[b] = "none"

\* A batch whose read was never cut off has charged nothing before it is read,
\* and its rows say held until their results are read.
Unread(b) == batch[b] \in OPEN_STATES /\ ~(pc \in Reading /\ b = cur)
ChargedOK(b) ==
  /\ \A r \in Requests : charges[b][r] <= 1
  /\ batch[b] = "none" \/ (pc \in {"create", "record"} /\ b = cur) \/ Unread(b)
       => \A r \in Requests : charges[b][r] = 0
  /\ Unread(b) => \A r \in RowsOf(b) : row[r] = "held"
  /\ pc \in Reading /\ b = cur =>
       \A r \in RowsOf(b) : r \in unread \/ (row[r] = "held" /\ ~(pc \in OneRow /\ r = it))
         => charges[b][r] = 0 /\ row[r] = "held"
ChargesOK == \A b \in Batches : ~Torn(b) => ChargedOK(b)

\* What was read is used, if no read was cut off.
SeenOK ==
  /\ seen \subseteq Requests
  /\ torn = {} => \A r \in seen : row[r] = "answered" \/ (pc = "answered" /\ it = r)

Inv2 == AttemptsOK /\ StatesOK /\ HeldOK /\ SnapOK /\ HoldsOK /\ ChargesOK /\ SeenOK

LEMMA TornStays ==
  ASSUME [Next]_vars, NEW b \in Batches, Torn(b)
  PROVE  Torn(b)'
<1>1. torn \subseteq torn'
  BY DEF Next, vars, histVars, Begin, Resume, ReadLate, Collect, Ended, Waited, StopsWaiting, Cancel,
         Read, SettleMissing, Normal, CommitAnswer, CommitFailed, ReadMissing, EndRead, Collected, Submit,
         Refused, Hold, Create, CreateFailed, Record, CommitNormal, EndNormal, ApiEnds, TurnsUp, Crash
<1> QED  BY <1>1 DEF Torn

LEMMA AttemptsOKStep ==
  ASSUME Inv, Inv2, [Next]_vars, Inv'
  PROVE  AttemptsOK'
<1>0. CASE UNCHANGED vars
  BY <1>0 DEF Inv2, AttemptsOK, vars, rowVars, ledgerVars, apiVars, readVars, runVars, histVars, RowsOf
<1>1. CASE Begin
  <2>1. /\ UNCHANGED <<row, attempts, lost, in, cur>> /\ pc' = "late"
        /\ tries' = [r \in Requests |-> 0]
    BY <1>1 DEF Begin, rowVars, readVars
  <2>2. \A r \in Requests : attempts[r] \in 0..MAX_ATTEMPTS
    BY DEF Inv2, AttemptsOK
  <2> QED  BY <2>1, <2>2 DEF Inv2, AttemptsOK, MAX_ATTEMPTS, RowsOf
<1>2. CASE Resume
  BY <1>2 DEF Inv2, AttemptsOK, RowsOf, Resume, Unconfirmed, OPEN_STATES, ledgerVars, apiVars, readVars,
        histVars, Sendable, MAX_ATTEMPTS
<1>3. CASE \E b \in Batches : ReadLate(b)
  BY <1>3 DEF Inv2, AttemptsOK, RowsOf, ReadLate, Awaits, ledgerVars, apiVars, readVars, Sendable,
        MAX_ATTEMPTS
<1>4. CASE Collect
  BY <1>4 DEF Inv2, AttemptsOK, RowsOf, Collect, IsFirst, rowVars, ledgerVars, apiVars, histVars
<1>5. CASE Ended
  BY <1>5 DEF Inv2, AttemptsOK, RowsOf, Ended, rowVars, ledgerVars, apiVars, runVars, histVars
<1>6. CASE Waited
  BY <1>6 DEF Inv2, AttemptsOK, RowsOf, Waited, rowVars, ledgerVars, apiVars, readVars, histVars
<1>7. CASE StopsWaiting
  BY <1>7 DEF Inv2, AttemptsOK, RowsOf, StopsWaiting, Leave, rowVars, ledgerVars, apiVars, histVars
<1>8. CASE Cancel
  BY <1>8 DEF Inv2, AttemptsOK, RowsOf, Cancel, readVars, runVars, Leave, rowVars, ledgerVars, apiVars,
        histVars
<1>9. CASE \E r \in Requests : Read(r)
  BY <1>9 DEF Inv2, AttemptsOK, RowsOf, Read, rowVars, apiVars, runVars
<1>10. CASE \E r \in Requests : SettleMissing(r)
  BY <1>10 DEF Inv2, AttemptsOK, RowsOf, SettleMissing, Lost, rowVars, apiVars, runVars, histVars
<1>11. CASE \E r \in Requests : Normal(r)
  BY <1>11 DEF Inv2, AttemptsOK, RowsOf, Normal, rowVars, ledgerVars, apiVars, runVars
<1>12. CASE CommitAnswer
  BY <1>12 DEF Inv2, AttemptsOK, RowsOf, CommitAnswer, ledgerVars, apiVars, readVars, runVars, histVars,
        Sendable, MAX_ATTEMPTS
<1>13. CASE CommitFailed
  <2>1. /\ UNCHANGED <<attempts, in, tries, cur>> /\ pc' \in {"read", "missing"}
        /\ row' = [row EXCEPT ![it] = IF attempts[it] >= MAX_ATTEMPTS THEN "gave_up" ELSE "retry"]
        /\ lost' = [lost EXCEPT ![it] = pc = "lost"]
    BY <1>13 DEF CommitFailed, GivesUp, readVars, histVars
  <2>2. it \in Requests
    BY <1>13 DEF CommitFailed, Inv, ReadingOK
  <2>3. lost' \in [Requests -> BOOLEAN]
    BY <2>1 DEF Inv2, AttemptsOK
  <2>4. ASSUME NEW r \in Requests, row'[r] \in Sendable
        PROVE  attempts'[r] < MAX_ATTEMPTS
    <3>1. attempts[r] \in Nat
      BY DEF Inv2, AttemptsOK, MAX_ATTEMPTS
    <3>2. CASE r = it
      <4>1. row'[r] = IF attempts[r] >= MAX_ATTEMPTS THEN "gave_up" ELSE "retry"
        BY <2>1, <2>2, <3>2 DEF Inv, CoreTypes
      <4> QED  BY <2>1, <2>4, <3>1, <4>1 DEF Sendable, MAX_ATTEMPTS
    <3>3. CASE r # it
      BY <2>1, <2>4, <3>3 DEF Inv2, AttemptsOK, Inv, CoreTypes
    <3> QED  BY <3>2, <3>3
  <2> QED  BY <2>1, <2>3, <2>4 DEF Inv2, AttemptsOK
<1>14. CASE ReadMissing
  BY <1>14 DEF Inv2, AttemptsOK, RowsOf, ReadMissing, StillHeld, rowVars, ledgerVars, apiVars, runVars,
        histVars
<1>15. CASE EndRead
  BY <1>15 DEF Inv2, AttemptsOK, RowsOf, EndRead, rowVars, ledgerVars, apiVars, readVars, histVars
<1>16. CASE Collected
  BY <1>16 DEF Inv2, AttemptsOK, RowsOf, Collected, runVars, Again, Leave, rowVars, ledgerVars, apiVars,
        histVars
<1>17. CASE Submit
  BY <1>17 DEF Inv2, AttemptsOK, RowsOf, Submit, Again, IsFirst, apiVars, readVars, histVars, Sendable,
        MAX_ATTEMPTS
<1>18. CASE Refused
  BY <1>18 DEF Inv2, AttemptsOK, RowsOf, Refused, Again, Leave, ledgerVars, apiVars, histVars, Sendable,
        MAX_ATTEMPTS
<1>19. CASE Hold
  <2>1. /\ UNCHANGED <<lost, holds, tries>> /\ pc = "hold" /\ pc' = "create" /\ cur' \in making
        /\ row' = [r \in Requests |-> IF r \in holds[cur'] THEN "held" ELSE row[r]]
        /\ in' = [r \in Requests |-> IF r \in holds[cur'] THEN cur' ELSE in[r]]
        /\ attempts' = [r \in Requests |-> IF r \in holds[cur'] THEN attempts[r] + 1 ELSE attempts[r]]
    BY <1>19 DEF Hold, Attempted, ledgerVars, histVars
  <2>2. /\ holds[cur'] \subseteq Requests
        /\ \A r \in Requests : in[r] # cur'
        /\ \A r \in holds[cur'] : row[r] \in Sendable
    BY <2>1 DEF Inv, RunTypes, MakingOK, Making, BatchesOK, CoreTypes
  <2>3. \A r \in Requests : attempts[r] \in 0..MAX_ATTEMPTS /\ tries[r] \in Nat /\ tries[r] <= attempts[r]
    BY DEF Inv2, AttemptsOK, Inv, RunTypes
  <2>4. \A r \in holds[cur'] : attempts[r] < MAX_ATTEMPTS
    BY <2>2 DEF Inv2, AttemptsOK
  <2>5. \A r \in Requests : attempts'[r] \in 0..MAX_ATTEMPTS /\ tries'[r] <= attempts'[r]
    BY <2>1, <2>3, <2>4 DEF MAX_ATTEMPTS
  <2>6. \A r \in RowsOf(cur)' : tries'[r] < attempts'[r]
    BY <2>1, <2>2, <2>3 DEF RowsOf, MAX_ATTEMPTS
  <2>7. \A r \in Requests : row'[r] \in Sendable => attempts'[r] < MAX_ATTEMPTS
    BY <2>1 DEF Inv2, AttemptsOK, Sendable
  <2>8. attempts' \in [Requests -> 0..MAX_ATTEMPTS] /\ lost' \in [Requests -> BOOLEAN]
    BY <2>1, <2>5 DEF Inv2, AttemptsOK
  <2> QED  BY <2>1, <2>5, <2>6, <2>7, <2>8 DEF AttemptsOK
<1>20. CASE Create
  <2>1. /\ UNCHANGED <<row, attempts, lost, in, cur>> /\ pc = "create"
        /\ pc' \in {"record", "refused", "unsure"}
    BY <1>20 DEF Create, rowVars, readVars
  <2>2. \A r \in Requests : attempts[r] \in Nat /\ tries[r] \in Nat /\ tries[r] <= attempts[r]
    BY DEF Inv2, AttemptsOK, Inv, RunTypes, MAX_ATTEMPTS
  <2>3. \A r \in RowsOf(cur) : r \in Requests /\ tries[r] < attempts[r]
    BY <2>1 DEF Inv2, AttemptsOK, RowsOf
  <2>4. \A r \in Requests : tries'[r] = tries[r] \/ (r \in RowsOf(cur) /\ tries'[r] = tries[r] + 1)
    BY <1>20 DEF Create
  <2>5. \A r \in Requests : tries'[r] <= attempts'[r]
    BY <2>1, <2>2, <2>3, <2>4
  <2>6. pc' = "refused" => UNCHANGED tries
    <3>1. CASE pc' = "refused"
      <4>1. UNCHANGED api
        BY <1>20, <3>1 DEF Create
      <4>2. api[cur] = "absent"
        BY <2>1 DEF Inv, MakingOK
      <4>3. \A r \in Requests : tries'[r] = tries[r]
        BY <1>20, <4>1, <4>2 DEF Create
      <4>4. DOMAIN tries' = Requests /\ DOMAIN tries = Requests /\ tries' = [r \in DOMAIN tries' |-> tries'[r]]
            /\ tries = [r \in DOMAIN tries |-> tries[r]]
        BY DEF Inv, RunTypes
      <4> QED  BY <4>3, <4>4
    <3> QED  BY <3>1
  <2>7. UNCHANGED RowsOf(cur)
    BY <2>1 DEF RowsOf
  <2> QED  BY <2>1, <2>3, <2>5, <2>6, <2>7 DEF Inv2, AttemptsOK
<1>21. CASE CreateFailed
  <2>1. /\ UNCHANGED <<lost, in, tries>> /\ pc \in {"refused", "unsure"} /\ pc' = "idle"
        /\ row' = [r \in Requests |->
                     IF r \in RowsOf(cur) THEN IF pc = "refused" THEN "not_sent" ELSE "unconfirmed"
                                          ELSE row[r]]
        /\ attempts' = [r \in Requests |-> IF r \in RowsOf(cur) /\ pc = "refused" THEN attempts[r] - 1
                                           ELSE attempts[r]]
    BY <1>21 DEF CreateFailed, Leave, histVars
  <2>2. \A r \in Requests : attempts[r] \in 0..MAX_ATTEMPTS /\ tries[r] \in Nat /\ tries[r] <= attempts[r]
    BY DEF Inv2, AttemptsOK, Inv, RunTypes
  <2>3. pc = "refused" => \A r \in RowsOf(cur) : tries[r] < attempts[r]
    BY DEF Inv2, AttemptsOK
  <2>4. \A r \in Requests : attempts'[r] \in 0..MAX_ATTEMPTS /\ tries'[r] <= attempts'[r]
    BY <2>1, <2>2, <2>3 DEF MAX_ATTEMPTS
  <2>5. \A r \in Requests : row'[r] \in Sendable => attempts'[r] < MAX_ATTEMPTS
    <3> SUFFICES ASSUME NEW r \in Requests, row'[r] \in Sendable PROVE attempts'[r] < MAX_ATTEMPTS
      OBVIOUS
    <3>1. CASE r \in RowsOf(cur)
      BY <2>1, <2>2, <3>1 DEF Sendable, MAX_ATTEMPTS
    <3>2. CASE r \notin RowsOf(cur)
      BY <2>1, <3>2 DEF Inv2, AttemptsOK
    <3> QED  BY <3>1, <3>2
  <2>6. attempts' \in [Requests -> 0..MAX_ATTEMPTS]
    BY <2>1, <2>4
  <2> QED  BY <2>1, <2>4, <2>5, <2>6 DEF Inv2, AttemptsOK
<1>22. CASE Record
  BY <1>22 DEF Inv2, AttemptsOK, RowsOf, Record, rowVars, ledgerVars, apiVars, readVars, histVars
<1>23. CASE CommitNormal
  BY <1>23 DEF Inv2, AttemptsOK, RowsOf, CommitNormal, ledgerVars, apiVars, readVars, runVars, histVars,
        Sendable, MAX_ATTEMPTS
<1>24. CASE EndNormal
  BY <1>24 DEF Inv2, AttemptsOK, RowsOf, EndNormal, Leave, rowVars, ledgerVars, apiVars, histVars
<1>25. CASE \E b \in Batches : ApiEnds(b)
  BY <1>25 DEF Inv2, AttemptsOK, RowsOf, ApiEnds, rowVars, ledgerVars, readVars, runVars, histVars
<1>26. CASE \E b \in Batches, r \in Requests : TurnsUp(b, r)
  BY <1>26 DEF Inv2, AttemptsOK, RowsOf, TurnsUp, rowVars, ledgerVars, readVars, runVars, histVars
<1>27. CASE Crash
  BY <1>27 DEF Inv2, AttemptsOK, RowsOf, Crash, Leave, rowVars, ledgerVars, apiVars
<1> QED  BY <1>0, <1>1, <1>2, <1>3, <1>4, <1>5, <1>6, <1>7, <1>8, <1>9, <1>10, <1>11, <1>12, <1>13, <1>14,
      <1>15, <1>16, <1>17, <1>18, <1>19, <1>20, <1>21, <1>22, <1>23, <1>24, <1>25, <1>26, <1>27 DEF Next

LEMMA StatesOKStep ==
  ASSUME Inv, Inv2, [Next]_vars, Inv'
  PROVE  StatesOK'
<1>0. CASE UNCHANGED vars
  BY <1>0 DEF Inv2, StatesOK, vars, rowVars, ledgerVars, apiVars, readVars, runVars, histVars, RowsOf
<1>1. CASE Begin
  BY <1>1 DEF Inv2, StatesOK, Begin, RowsOf, rowVars, ledgerVars, apiVars, readVars, InCreate, OfBatch,
        Reading, OPEN_STATES
<1>2. CASE Resume
  BY <1>2 DEF Inv2, StatesOK, Resume, Unconfirmed, OPEN_STATES, RowsOf, ledgerVars, apiVars, readVars,
        histVars, InCreate, OfBatch, Reading
<1>3. CASE \E b \in Batches : ReadLate(b)
  BY <1>3 DEF Inv2, StatesOK, ReadLate, RowsOf, Awaits, ledgerVars, apiVars, readVars, InCreate, OfBatch,
        Reading, OPEN_STATES
<1>4. CASE Collect
  BY <1>4 DEF Inv2, StatesOK, Collect, IsFirst, rowVars, ledgerVars, apiVars, histVars, InCreate, OfBatch,
        Reading, OPEN_STATES
<1>5. CASE Ended
  BY <1>5 DEF Inv2, StatesOK, Ended, RowsOf, rowVars, ledgerVars, apiVars, runVars, histVars, InCreate,
        OfBatch, Reading, OPEN_STATES
<1>6. CASE Waited
  BY <1>6 DEF Inv2, StatesOK, Waited, rowVars, ledgerVars, apiVars, readVars, histVars, InCreate, OfBatch,
        Reading, OPEN_STATES
<1>7. CASE StopsWaiting
  BY <1>7 DEF Inv2, StatesOK, StopsWaiting, Leave, rowVars, ledgerVars, apiVars, histVars, InCreate, OfBatch,
        Reading, OPEN_STATES
<1>8. CASE Cancel
  BY <1>8 DEF Inv2, StatesOK, Cancel, readVars, runVars, Leave, rowVars, ledgerVars, apiVars, histVars,
        InCreate, OfBatch, Reading, OPEN_STATES, Inv, CoreTypes, RunTypes, ReadingOK, MakingOK, Making
<1>9. CASE \E r \in Requests : Read(r)
  BY <1>9 DEF Inv2, StatesOK, Read, rowVars, apiVars, runVars, InCreate, OfBatch, Reading, OPEN_STATES
<1>10. CASE \E r \in Requests : SettleMissing(r)
  BY <1>10 DEF Inv2, StatesOK, SettleMissing, Lost, rowVars, apiVars, runVars, histVars, InCreate, OfBatch,
        Reading, OPEN_STATES
<1>11. CASE \E r \in Requests : Normal(r)
  BY <1>11 DEF Inv2, StatesOK, Normal, rowVars, ledgerVars, apiVars, runVars, InCreate, OfBatch, Reading,
        OPEN_STATES
<1>12. CASE CommitAnswer
  BY <1>12 DEF Inv2, StatesOK, CommitAnswer, ledgerVars, apiVars, readVars, runVars, histVars, InCreate,
        OfBatch, Reading, OPEN_STATES
<1>13. CASE CommitFailed
  BY <1>13 DEF Inv2, StatesOK, CommitFailed, GivesUp, MAX_ATTEMPTS, ledgerVars, apiVars, readVars, runVars,
        histVars, InCreate, OfBatch, Reading, OPEN_STATES
<1>14. CASE ReadMissing
  BY <1>14 DEF Inv2, StatesOK, ReadMissing, StillHeld, RowsOf, rowVars, ledgerVars, apiVars, runVars,
        histVars, InCreate, OfBatch, Reading, OPEN_STATES
<1>15. CASE EndRead
  BY <1>15 DEF Inv2, StatesOK, EndRead, rowVars, ledgerVars, apiVars, readVars, histVars, InCreate, OfBatch,
        Reading, OPEN_STATES
<1>16. CASE Collected
  BY <1>16 DEF Inv2, StatesOK, Collected, runVars, Again, Leave, rowVars, ledgerVars, apiVars, histVars,
        InCreate, OfBatch, Reading, OPEN_STATES
<1>17. CASE Submit
  BY <1>17 DEF Inv2, StatesOK, Submit, Again, IsFirst, apiVars, readVars, histVars, InCreate, OfBatch,
        Reading, OPEN_STATES
<1>18. CASE Refused
  BY <1>18 DEF Inv2, StatesOK, Refused, Again, Leave, ledgerVars, apiVars, histVars, InCreate, OfBatch,
        Reading, OPEN_STATES
<1>19. CASE Hold
  BY <1>19 DEF Inv2, StatesOK, Hold, IsFirst, Attempted, ledgerVars, apiVars, runVars, histVars, InCreate,
        OfBatch, Reading, OPEN_STATES, Inv, CoreTypes, RunTypes, ReadingOK, MakingOK, Making
<1>20. CASE Create
  BY <1>20 DEF Inv2, StatesOK, Create, RowsOf, ledgerVars, NotMade, rowVars, readVars, runVars, InCreate,
        OfBatch, Reading, OPEN_STATES
<1>21. CASE CreateFailed
  BY <1>21 DEF Inv2, StatesOK, CreateFailed, RowsOf, Leave, ledgerVars, apiVars, histVars, InCreate, OfBatch,
        Reading, OPEN_STATES
<1>22. CASE Record
  BY <1>22 DEF Inv2, StatesOK, Record, rowVars, ledgerVars, apiVars, readVars, histVars, InCreate, OfBatch,
        Reading, OPEN_STATES, Inv, CoreTypes, RunTypes, ReadingOK, MakingOK, Making
<1>23. CASE CommitNormal
  BY <1>23 DEF Inv2, StatesOK, CommitNormal, ledgerVars, apiVars, readVars, runVars, histVars, InCreate,
        OfBatch, Reading, OPEN_STATES
<1>24. CASE EndNormal
  BY <1>24 DEF Inv2, StatesOK, EndNormal, Leave, rowVars, ledgerVars, apiVars, histVars, InCreate, OfBatch,
        Reading, OPEN_STATES
<1>25. CASE \E b \in Batches : ApiEnds(b)
  BY <1>25 DEF Inv2, StatesOK, ApiEnds, rowVars, ledgerVars, readVars, runVars, histVars
<1>26. CASE \E b \in Batches, r \in Requests : TurnsUp(b, r)
  BY <1>26 DEF Inv2, StatesOK, TurnsUp, rowVars, ledgerVars, readVars, runVars, histVars
<1>27. CASE Crash
  BY <1>27 DEF Inv2, StatesOK, Crash, Leave, rowVars, ledgerVars, apiVars, InCreate, OfBatch, Reading,
        OPEN_STATES
<1> QED  BY <1>0, <1>1, <1>2, <1>3, <1>4, <1>5, <1>6, <1>7, <1>8, <1>9, <1>10, <1>11, <1>12, <1>13, <1>14,
      <1>15, <1>16, <1>17, <1>18, <1>19, <1>20, <1>21, <1>22, <1>23, <1>24, <1>25, <1>26, <1>27 DEF Next

LEMMA HeldOKStep ==
  ASSUME Inv, Inv2, [Next]_vars, Inv'
  PROVE  HeldOK'
<1>0. CASE UNCHANGED vars
  BY <1>0 DEF Inv2, HeldOK, vars, rowVars, ledgerVars, apiVars, readVars, runVars, histVars, RowsOf, StillHeld
<1>1. CASE Begin
  BY <1>1 DEF Inv2, HeldOK, RowsOf, StillHeld, Begin, rowVars, ledgerVars, apiVars, readVars
<1>2. CASE Resume
  BY <1>2 DEF Inv2, HeldOK, RowsOf, StillHeld, Resume, Unconfirmed, OPEN_STATES, ledgerVars, apiVars,
        readVars, histVars
<1>3. CASE \E b \in Batches : ReadLate(b)
  BY <1>3 DEF Inv2, HeldOK, RowsOf, StillHeld, ReadLate, Awaits, ledgerVars, apiVars, readVars, Inv,
        CoreTypes, ReadingOK, Reading
<1>4. CASE Collect
  BY <1>4 DEF Inv2, HeldOK, RowsOf, StillHeld, Collect, IsFirst, rowVars, ledgerVars, apiVars, histVars
<1>5. CASE Ended
  BY <1>5 DEF Inv2, HeldOK, RowsOf, StillHeld, Ended, rowVars, ledgerVars, apiVars, runVars, histVars
<1>6. CASE Waited
  BY <1>6 DEF Inv2, HeldOK, RowsOf, StillHeld, Waited, rowVars, ledgerVars, apiVars, readVars, histVars
<1>7. CASE StopsWaiting
  BY <1>7 DEF Inv2, HeldOK, RowsOf, StillHeld, StopsWaiting, Leave, rowVars, ledgerVars, apiVars, histVars
<1>8. CASE Cancel
  BY <1>8 DEF Inv2, HeldOK, RowsOf, StillHeld, Cancel, readVars, runVars, Leave, rowVars, ledgerVars,
        apiVars, histVars, Inv, CoreTypes, BatchesOK, ReadingOK, Reading, MakingOK, Making, StatesOK,
        InCreate, OfBatch, OPEN_STATES, Sendable
<1>9. CASE \E r \in Requests : Read(r)
  BY <1>9 DEF Inv2, HeldOK, RowsOf, StillHeld, Read, rowVars, apiVars, runVars
<1>10. CASE \E r \in Requests : SettleMissing(r)
  BY <1>10 DEF Inv2, HeldOK, RowsOf, StillHeld, SettleMissing, Lost, rowVars, apiVars, runVars, histVars
<1>11. CASE \E r \in Requests : Normal(r)
  BY <1>11 DEF Inv2, HeldOK, RowsOf, StillHeld, Normal, rowVars, ledgerVars, apiVars, runVars
<1>12. CASE CommitAnswer
  BY <1>12 DEF Inv2, HeldOK, RowsOf, StillHeld, CommitAnswer, ledgerVars, apiVars, readVars, runVars,
        histVars, Inv, CoreTypes, BatchesOK, ReadingOK, Reading, MakingOK, Making, StatesOK, InCreate,
        OfBatch, OPEN_STATES, Sendable
<1>13. CASE CommitFailed
  <2>1. /\ UNCHANGED <<in, batch, members, cur, unread, it>> /\ pc \in {"failed", "lost"}
        /\ pc' = IF pc = "lost" THEN "missing" ELSE "read"
        /\ \E state \in {"gave_up", "retry"} : row' = [row EXCEPT ![it] = state]
    BY <1>13 DEF CommitFailed, readVars, apiVars
  <2>2. it \in Requests /\ in[it] = cur /\ cur \in queue /\ batch[cur] \in OPEN_STATES
    BY <2>1 DEF Inv, ReadingOK, Inv2, StatesOK, OfBatch, Reading
  <2>3. row'[it] \in {"gave_up", "retry"} /\ \A r \in Requests : r # it => row'[r] = row[r]
    BY <2>1, <2>2 DEF Inv, CoreTypes
  <2> QED  BY <2>1, <2>2, <2>3 DEF Inv2, HeldOK, StillHeld, RowsOf, OPEN_STATES
<1>14. CASE ReadMissing
  BY <1>14 DEF Inv2, HeldOK, RowsOf, StillHeld, ReadMissing, rowVars, ledgerVars, apiVars, runVars, histVars
<1>15. CASE EndRead
  BY <1>15 DEF Inv2, HeldOK, RowsOf, StillHeld, EndRead, rowVars, ledgerVars, apiVars, readVars, histVars
<1>16. CASE Collected
  BY <1>16 DEF Inv2, HeldOK, RowsOf, StillHeld, Collected, runVars, Again, Leave, rowVars, ledgerVars,
        apiVars, histVars
<1>17. CASE Submit
  BY <1>17 DEF Inv2, HeldOK, RowsOf, StillHeld, Submit, Again, IsFirst, apiVars, readVars, histVars
<1>18. CASE Refused
  BY <1>18 DEF Inv2, HeldOK, RowsOf, StillHeld, Refused, Again, Leave, ledgerVars, apiVars, histVars
<1>19. CASE Hold
  BY <1>19 DEF Inv2, HeldOK, RowsOf, StillHeld, Hold, IsFirst, Attempted, ledgerVars, apiVars, runVars,
        histVars, Inv, CoreTypes, BatchesOK, ReadingOK, Reading, MakingOK, Making, StatesOK, InCreate,
        OfBatch, OPEN_STATES, Sendable
<1>20. CASE Create
  BY <1>20 DEF Inv2, HeldOK, RowsOf, StillHeld, Create, ledgerVars, NotMade, rowVars, readVars, runVars, Inv,
        CoreTypes, ReadingOK, Reading
<1>21. CASE CreateFailed
  BY <1>21 DEF Inv2, HeldOK, RowsOf, StillHeld, CreateFailed, Leave, ledgerVars, apiVars, histVars, Inv,
        CoreTypes, ReadingOK, Reading
<1>22. CASE Record
  BY <1>22 DEF Inv2, HeldOK, RowsOf, StillHeld, Record, rowVars, ledgerVars, apiVars, readVars, histVars
<1>23. CASE CommitNormal
  BY <1>23 DEF Inv2, HeldOK, RowsOf, StillHeld, CommitNormal, ledgerVars, apiVars, readVars, runVars,
        histVars, Inv, CoreTypes, ReadingOK, Reading
<1>24. CASE EndNormal
  BY <1>24 DEF Inv2, HeldOK, RowsOf, StillHeld, EndNormal, Leave, rowVars, ledgerVars, apiVars, histVars
<1>25. CASE \E b \in Batches : ApiEnds(b)
  BY <1>25 DEF Inv2, HeldOK, RowsOf, StillHeld, ApiEnds, rowVars, ledgerVars, readVars, runVars, histVars
<1>26. CASE \E b \in Batches, r \in Requests : TurnsUp(b, r)
  BY <1>26 DEF Inv2, HeldOK, RowsOf, StillHeld, TurnsUp, rowVars, ledgerVars, readVars, runVars, histVars
<1>27. CASE Crash
  BY <1>27 DEF Inv2, HeldOK, RowsOf, StillHeld, Crash, Leave, rowVars, ledgerVars, apiVars
<1> QED  BY <1>0, <1>1, <1>2, <1>3, <1>4, <1>5, <1>6, <1>7, <1>8, <1>9, <1>10, <1>11, <1>12, <1>13, <1>14,
      <1>15, <1>16, <1>17, <1>18, <1>19, <1>20, <1>21, <1>22, <1>23, <1>24, <1>25, <1>26, <1>27 DEF Next

LEMMA SnapOKStep ==
  ASSUME Inv, Inv2, [Next]_vars, Inv'
  PROVE  SnapOK'
<1>0. CASE UNCHANGED vars
  BY <1>0 DEF Inv2, SnapOK, vars, rowVars, ledgerVars, apiVars, readVars, runVars, histVars
<1>1. CASE Begin
  BY <1>1 DEF Inv2, SnapOK, Begin, RowsOf, rowVars, ledgerVars, apiVars, readVars, OneRow, Inv, CoreTypes,
        ReadingOK, Reading
<1>2. CASE Resume
  BY <1>2 DEF Inv2, SnapOK, Resume, Unconfirmed, OPEN_STATES, RowsOf, ledgerVars, apiVars, readVars,
        histVars, OneRow, Inv, CoreTypes, ReadingOK, Reading
<1>3. CASE \E b \in Batches : ReadLate(b)
  BY <1>3 DEF Inv2, SnapOK, ReadLate, RowsOf, Awaits, ledgerVars, apiVars, readVars, OneRow, Inv, CoreTypes,
        ReadingOK, Reading
<1>4. CASE Collect
  BY <1>4 DEF Inv2, SnapOK, Collect, IsFirst, rowVars, ledgerVars, apiVars, histVars, OneRow, Inv, CoreTypes,
        ReadingOK, Reading, RowsOf
<1>5. CASE Ended
  BY <1>5 DEF Inv2, SnapOK, Ended, RowsOf, rowVars, ledgerVars, apiVars, runVars, histVars, OneRow, Inv,
        CoreTypes, ReadingOK, Reading
<1>6. CASE Waited
  BY <1>6 DEF Inv2, SnapOK, Waited, rowVars, ledgerVars, apiVars, readVars, histVars, OneRow, Inv, CoreTypes,
        ReadingOK, Reading, RowsOf
<1>7. CASE StopsWaiting
  BY <1>7 DEF Inv2, SnapOK, StopsWaiting, Leave, rowVars, ledgerVars, apiVars, histVars, OneRow, Inv,
        CoreTypes, ReadingOK, Reading, RowsOf
<1>8. CASE Cancel
  BY <1>8 DEF Inv2, SnapOK, Cancel, readVars, runVars, Leave, rowVars, ledgerVars, apiVars, histVars, OneRow,
        Inv, CoreTypes, ReadingOK, Reading, RowsOf
<1>9. CASE \E r \in Requests : Read(r)
  BY <1>9 DEF Inv2, SnapOK, Read, rowVars, apiVars, runVars, OneRow, Inv, CoreTypes, ReadingOK, Reading,
        RowsOf
<1>10. CASE \E r \in Requests : SettleMissing(r)
  BY <1>10 DEF Inv2, SnapOK, SettleMissing, Lost, rowVars, apiVars, runVars, histVars, OneRow, Inv,
        CoreTypes, ReadingOK, Reading, RowsOf
<1>11. CASE \E r \in Requests : Normal(r)
  BY <1>11 DEF Inv2, SnapOK, Normal, rowVars, ledgerVars, apiVars, runVars, OneRow, Inv, CoreTypes,
        ReadingOK, Reading, RowsOf
<1>12. CASE CommitAnswer
  BY <1>12 DEF Inv2, SnapOK, CommitAnswer, ledgerVars, apiVars, readVars, runVars, histVars, OneRow, Inv,
        CoreTypes, ReadingOK, Reading, RowsOf
<1>13. CASE CommitFailed
  BY <1>13 DEF Inv2, SnapOK, CommitFailed, GivesUp, MAX_ATTEMPTS, ledgerVars, apiVars, readVars, runVars,
        histVars, OneRow, Inv, CoreTypes, ReadingOK, Reading, RowsOf
<1>14. CASE ReadMissing
  BY <1>14 DEF Inv2, SnapOK, ReadMissing, StillHeld, RowsOf, rowVars, ledgerVars, apiVars, runVars, histVars,
        OneRow, Inv, CoreTypes, ReadingOK, Reading
<1>15. CASE EndRead
  BY <1>15 DEF Inv2, SnapOK, EndRead, rowVars, ledgerVars, apiVars, readVars, histVars, OneRow, Inv,
        CoreTypes, ReadingOK, Reading, RowsOf
<1>16. CASE Collected
  BY <1>16 DEF Inv2, SnapOK, Collected, runVars, Again, Leave, rowVars, ledgerVars, apiVars, histVars,
        OneRow, Inv, CoreTypes, ReadingOK, Reading, RowsOf
<1>17. CASE Submit
  BY <1>17 DEF Inv2, SnapOK, Submit, Again, IsFirst, apiVars, readVars, histVars, OneRow, Inv, CoreTypes,
        ReadingOK, Reading, RowsOf
<1>18. CASE Refused
  BY <1>18 DEF Inv2, SnapOK, Refused, Again, Leave, ledgerVars, apiVars, histVars, OneRow, Inv, CoreTypes,
        ReadingOK, Reading, RowsOf
<1>19. CASE Hold
  BY <1>19 DEF Inv2, SnapOK, Hold, IsFirst, Attempted, ledgerVars, apiVars, runVars, histVars, OneRow, Inv,
        CoreTypes, ReadingOK, Reading, RowsOf
<1>20. CASE Create
  BY <1>20 DEF Inv2, SnapOK, Create, RowsOf, ledgerVars, NotMade, rowVars, readVars, runVars, OneRow, Inv,
        CoreTypes, ReadingOK, Reading
<1>21. CASE CreateFailed
  BY <1>21 DEF Inv2, SnapOK, CreateFailed, RowsOf, Leave, ledgerVars, apiVars, histVars, OneRow, Inv,
        CoreTypes, ReadingOK, Reading
<1>22. CASE Record
  BY <1>22 DEF Inv2, SnapOK, Record, rowVars, ledgerVars, apiVars, readVars, histVars, OneRow, Inv,
        CoreTypes, ReadingOK, Reading, RowsOf
<1>23. CASE CommitNormal
  BY <1>23 DEF Inv2, SnapOK, CommitNormal, ledgerVars, apiVars, readVars, runVars, histVars, OneRow, Inv,
        CoreTypes, ReadingOK, Reading, RowsOf
<1>24. CASE EndNormal
  BY <1>24 DEF Inv2, SnapOK, EndNormal, Leave, rowVars, ledgerVars, apiVars, histVars, OneRow, Inv,
        CoreTypes, ReadingOK, Reading, RowsOf
<1>25. CASE \E b \in Batches : ApiEnds(b)
  BY <1>25 DEF Inv2, SnapOK, ApiEnds, rowVars, ledgerVars, readVars, runVars, histVars
<1>26. CASE \E b \in Batches, r \in Requests : TurnsUp(b, r)
  BY <1>26 DEF Inv2, SnapOK, TurnsUp, rowVars, ledgerVars, readVars, runVars, histVars
<1>27. CASE Crash
  BY <1>27 DEF Inv2, SnapOK, Crash, Leave, rowVars, ledgerVars, apiVars, OneRow, Inv, CoreTypes, ReadingOK,
        Reading, RowsOf
<1> QED  BY <1>0, <1>1, <1>2, <1>3, <1>4, <1>5, <1>6, <1>7, <1>8, <1>9, <1>10, <1>11, <1>12, <1>13, <1>14,
      <1>15, <1>16, <1>17, <1>18, <1>19, <1>20, <1>21, <1>22, <1>23, <1>24, <1>25, <1>26, <1>27 DEF Next

LEMMA HoldsOKStep ==
  ASSUME Inv, Inv2, [Next]_vars, Inv'
  PROVE  HoldsOK'
<1>0. CASE UNCHANGED vars
  BY <1>0 DEF Inv2, HoldsOK, vars, rowVars, ledgerVars, apiVars, readVars, runVars, histVars, Waits, Abandoned
<1>1. CASE Begin
  BY <1>1 DEF Inv2, HoldsOK, Waits, Abandoned, Begin, RowsOf, rowVars, ledgerVars, apiVars, readVars,
        InCreate, Making, OneRow, HeldOK
<1>2. CASE Resume
  BY <1>2 DEF Inv2, HoldsOK, Waits, Abandoned, Resume, Unconfirmed, OPEN_STATES, RowsOf, ledgerVars, apiVars,
        readVars, histVars, StillHeld, InCreate, OneRow, Inv, CoreTypes, RunTypes, ReadingOK, Reading,
        MakingOK, Making, SnapOK, HeldOK, StatesOK, OfBatch, Sendable
<1>3. CASE \E b \in Batches : ReadLate(b)
  <2>1. PICK c \in Batches : ReadLate(c)
    BY <1>3
  <2>2. /\ UNCHANGED <<in, holds, making, crashes>> /\ pc = "late" /\ pc' = "late" /\ batch[c] = "ended_missing"
        /\ \A b \in Batches : batch'[b] = batch[b] \/ (b = c /\ batch'[b] = "ended")
        /\ \A r \in Requests : row'[r] = row[r] \/ in[r] = c
    BY <2>1 DEF ReadLate, RowsOf, ledgerVars, Inv, CoreTypes, ReadingOK
  <2>3. \A b \in Batches : Abandoned(b) => Abandoned(b)'
    BY <2>2 DEF Abandoned
  <2>4. \A r \in Requests : row[r] = "held" => row'[r] = "held"
    BY <2>2 DEF Inv2, HeldOK
  <2>5. \A b \in Batches : holds[b] \subseteq Requests
    BY DEF Inv, CoreTypes
  <2> QED  BY <2>2, <2>3, <2>4, <2>5 DEF Inv2, HoldsOK, Waits, Making, InCreate
<1>4. CASE Collect
  BY <1>4 DEF Inv2, HoldsOK, Waits, Abandoned, Collect, IsFirst, rowVars, ledgerVars, apiVars, histVars,
        InCreate, Making, OneRow, HeldOK
<1>5. CASE Ended
  BY <1>5 DEF Inv2, HoldsOK, Waits, Abandoned, Ended, RowsOf, rowVars, ledgerVars, apiVars, runVars,
        histVars, InCreate, Making, OneRow, HeldOK
<1>6. CASE Waited
  BY <1>6 DEF Inv2, HoldsOK, Waits, Abandoned, Waited, rowVars, ledgerVars, apiVars, readVars, histVars,
        InCreate, Making, OneRow, HeldOK
<1>7. CASE StopsWaiting
  BY <1>7 DEF Inv2, HoldsOK, Waits, Abandoned, StopsWaiting, Leave, rowVars, ledgerVars, apiVars, histVars,
        InCreate, Making, OneRow, HeldOK
<1>8. CASE Cancel
  BY <1>8 DEF Inv2, HoldsOK, Waits, Abandoned, Cancel, readVars, runVars, Leave, rowVars, ledgerVars,
        apiVars, histVars, RowsOf, StillHeld, InCreate, OneRow, Inv, CoreTypes, RunTypes, ReadingOK, Reading,
        MakingOK, Making, SnapOK, HeldOK, StatesOK, OfBatch, OPEN_STATES, Sendable
<1>9. CASE \E r \in Requests : Read(r)
  BY <1>9 DEF Inv2, HoldsOK, Waits, Abandoned, Read, rowVars, apiVars, runVars, RowsOf, StillHeld, InCreate,
        OneRow, Inv, CoreTypes, RunTypes, ReadingOK, Reading, MakingOK, Making, SnapOK, HeldOK, StatesOK,
        OfBatch, OPEN_STATES, Sendable
<1>10. CASE \E r \in Requests : SettleMissing(r)
  BY <1>10 DEF Inv2, HoldsOK, Waits, Abandoned, SettleMissing, Lost, rowVars, apiVars, runVars, histVars,
        InCreate, Making, OneRow, HeldOK
<1>11. CASE \E r \in Requests : Normal(r)
  BY <1>11 DEF Inv2, HoldsOK, Waits, Abandoned, Normal, rowVars, ledgerVars, apiVars, runVars, InCreate,
        Making, OneRow, HeldOK
<1>12. CASE CommitAnswer
  BY <1>12 DEF Inv2, HoldsOK, Waits, Abandoned, CommitAnswer, ledgerVars, apiVars, readVars, runVars,
        histVars, RowsOf, StillHeld, InCreate, OneRow, Inv, CoreTypes, RunTypes, ReadingOK, Reading,
        MakingOK, Making, SnapOK, HeldOK, StatesOK, OfBatch, OPEN_STATES, Sendable
<1>13. CASE CommitFailed
  BY <1>13 DEF Inv2, HoldsOK, Waits, Abandoned, CommitFailed, GivesUp, MAX_ATTEMPTS, ledgerVars, apiVars,
        readVars, runVars, histVars, RowsOf, StillHeld, InCreate, OneRow, Inv, CoreTypes, RunTypes,
        ReadingOK, Reading, MakingOK, Making, SnapOK, HeldOK, StatesOK, OfBatch, OPEN_STATES, Sendable
<1>14. CASE ReadMissing
  BY <1>14 DEF Inv2, HoldsOK, Waits, Abandoned, ReadMissing, StillHeld, RowsOf, rowVars, ledgerVars, apiVars,
        runVars, histVars, InCreate, Making, OneRow, HeldOK
<1>15. CASE EndRead
  <2>1. /\ UNCHANGED <<row, in, holds, making, crashes, cur>> /\ pc = "missing" /\ pc' = "collect"
        /\ cur \in Batches /\ batch[cur] \in OPEN_STATES
        /\ \E state \in {"ended", "ended_missing"} : batch' = [batch EXCEPT ![cur] = state]
    BY <1>15 DEF EndRead, rowVars, ledgerVars, readVars, Inv, ReadingOK, Inv2, StatesOK, OfBatch, Reading
  <2>2. /\ batch'[cur] \in {"ended", "ended_missing"}
        /\ \A b \in Batches : b # cur => batch'[b] = batch[b]
    BY <2>1 DEF Inv, CoreTypes
  <2>3. \A b \in Batches : Abandoned(b) => Abandoned(b)'
    BY <2>1, <2>2 DEF Abandoned, OPEN_STATES
  <2> QED  BY <2>1, <2>2, <2>3 DEF Inv2, HoldsOK, Waits, Making, InCreate
<1>16. CASE Collected
  BY <1>16 DEF Inv2, HoldsOK, Waits, Abandoned, Collected, runVars, Again, Leave, rowVars, ledgerVars,
        apiVars, histVars, InCreate, Making, OneRow, HeldOK
<1>17. CASE Submit
  <2> DEFINE stored == Again \cap cached
             used == {b \in Batches : batch[b] # "none" \/ holds[b] # {}}
  <2>1. /\ UNCHANGED <<in, batch, crashes>> /\ pc = "collect"
        /\ row' = [r \in Requests |-> IF r \in stored THEN "answered" ELSE row[r]]
    BY <1>17 DEF Submit, histVars
  <2>2. PICK fits \in SUBSET (Again \ cached), first \in 1..MaxBatches + 1, size \in SliceSizes :
          LET slice(r) == first + Cardinality({q \in fits : q < r}) \div size
              slices == {slice(r) : r \in fits} IN
          /\ holds' = [b \in Batches |-> IF b \in slices THEN {r \in fits : slice(r) = b} ELSE holds[b]]
          /\ making' = slices
          /\ pc' = IF fits = {} THEN "collect" ELSE "hold"
    BY <1>17 DEF Submit
  <2> DEFINE slice(r) == first + Cardinality({q \in fits : q < r}) \div size
  <2>3. \A b \in Batches : holds'[b] = IF b \in making' THEN {r \in fits : slice(r) = b} ELSE holds[b]
    BY <2>2
  <2>4. making' = {slice(r) : r \in fits} /\ pc' = IF fits = {} THEN "collect" ELSE "hold"
    BY <2>2
  <2> HIDE DEF slice
  <2>5. \A b \in Batches : b \in making' => pc' = "hold"
    BY <2>4
  <2>6. \A b \in Batches : Abandoned(b) => Abandoned(b)'
    BY <2>1 DEF Abandoned
  <2>7. \A r \in Requests : row[r] = "held" => row'[r] = "held"
    BY <2>1 DEF Again
  <2>8. ASSUME crashes = 0, NEW b \in Batches, NEW r \in holds'[b]
        PROVE  (in'[r] = b /\ row'[r] = "held") \/ Waits(b)' \/ Abandoned(b)'
    <3>1. CASE b \in making'
      BY <2>5, <3>1 DEF Waits, Making
    <3>2. CASE b \notin making'
      <4>1. r \in holds[b] /\ r \in Requests
        BY <2>3, <3>2 DEF Inv, CoreTypes
      <4>2. (in[r] = b /\ row[r] = "held") \/ Abandoned(b)
        BY <2>1, <2>8, <4>1 DEF Inv2, HoldsOK, Waits, Making, InCreate
      <4> QED  BY <2>1, <2>6, <2>7, <4>1, <4>2
    <3> QED  BY <3>1, <3>2
  <2>9. pc \notin InCreate /\ pc' \notin InCreate
    BY <2>1, <2>4 DEF InCreate
  <2> QED  BY <2>1, <2>8, <2>9 DEF Inv2, HoldsOK, InCreate
<1>18. CASE Refused
  BY <1>18 DEF Inv2, HoldsOK, Waits, Abandoned, Refused, Again, Leave, ledgerVars, apiVars, histVars, RowsOf,
        StillHeld, InCreate, OneRow, Inv, CoreTypes, RunTypes, ReadingOK, Reading, MakingOK, Making, SnapOK,
        HeldOK, StatesOK, OfBatch, OPEN_STATES, Sendable
<1>19. CASE Hold
  <2>1. /\ UNCHANGED <<holds, crashes, making>> /\ pc = "hold" /\ pc' = "create"
        /\ IsFirst(cur', making) /\ cur' \in making
        /\ batch' = [batch EXCEPT ![cur'] = "creating"]
        /\ row' = [r \in Requests |-> IF r \in holds[cur'] THEN "held" ELSE row[r]]
        /\ in' = [r \in Requests |-> IF r \in holds[cur'] THEN cur' ELSE in[r]]
    BY <1>19 DEF Hold, ledgerVars, runVars, IsFirst
  <2>2. /\ making \subseteq Batches /\ \A b \in making : batch[b] = "none"
        /\ \A b \in Batches : holds[b] \subseteq Requests
        /\ \A r \in holds[cur'] : row[r] # "held"
    <3>1. \A b \in making : batch[b] = "none" /\ \A r \in holds[b] : row[r] \in Sendable
      BY <2>1 DEF Inv, MakingOK, Making
    <3>2. making \subseteq Batches /\ \A b \in Batches : holds[b] \subseteq Requests
      BY DEF Inv, CoreTypes, RunTypes
    <3>3. \A r \in Requests : row[r] \in Sendable => row[r] # "held"
      BY DEF Sendable
    <3> QED  BY <2>1, <3>1, <3>2, <3>3
  <2>i. \A b \in Batches : b \in Int
    BY BatchAssumption DEF Batches
  <2>3. batch'[cur'] = "creating" /\ \A b \in Batches : b # cur' => batch'[b] = batch[b]
    BY <2>1, <2>2 DEF Inv, CoreTypes
  <2>4. \A b \in Batches : b # cur' /\ Abandoned(b) => Abandoned(b)'
    BY <2>1, <2>2, <2>3 DEF Abandoned
  <2>5. \A b \in Batches : b # cur' /\ Waits(b) => Waits(b)'
    BY <2>1 DEF Waits, Making
  <2>6. \A b \in making \ {cur'} : cur' < b
    BY <2>1, <2>2, <2>i DEF IsFirst
  <2>7. \A b \in Batches : \A r \in holds[b] :
          \/ b = cur'
          \/ in[r] = b /\ row[r] = "held" => in'[r] = b /\ row'[r] = "held"
    BY <2>1, <2>2
  <2>8. \A r \in holds[cur'] : in'[r] = cur' /\ row'[r] = "held"
    BY <2>1, <2>2
  <2>9. pc' \in InCreate /\ pc \notin InCreate /\ pc' \notin {"refused", "unsure"}
    BY <2>1 DEF InCreate
  <2>10. crashes = 0 => \A b \in Batches : \A r \in holds'[b] :
           (in'[r] = b /\ row'[r] = "held") \/ Waits(b)' \/ Abandoned(b)'
    BY <2>1, <2>4, <2>5, <2>7, <2>8 DEF Inv2, HoldsOK
  <2>11. crashes = 0 => \A b \in Batches : batch'[b] = "creating" => b = cur'
    BY <2>3, <2>9 DEF Inv2, HoldsOK
  <2>12. \A b \in making' \ {cur'} : cur' < b /\ batch'[b] = "none"
    BY <2>1, <2>2, <2>3, <2>6
  <2>13. crashes' \in Nat
    BY <2>1 DEF Inv2, HoldsOK
  <2> QED  BY <2>1, <2>9, <2>10, <2>11, <2>12, <2>13 DEF HoldsOK
<1>20. CASE Create
  BY <1>20 DEF Inv2, HoldsOK, Waits, Abandoned, Create, RowsOf, ledgerVars, NotMade, rowVars, readVars,
        runVars, StillHeld, InCreate, OneRow, Inv, CoreTypes, RunTypes, ReadingOK, Reading, MakingOK, Making,
        SnapOK, HeldOK, StatesOK, OfBatch, OPEN_STATES, Sendable
<1>21. CASE CreateFailed
  BY <1>21 DEF Inv2, HoldsOK, Waits, Abandoned, CreateFailed, RowsOf, Leave, ledgerVars, apiVars, histVars,
        StillHeld, InCreate, OneRow, Inv, CoreTypes, RunTypes, ReadingOK, Reading, MakingOK, Making, SnapOK,
        HeldOK, StatesOK, OfBatch, OPEN_STATES, Sendable
<1>22. CASE Record
  <2>1. /\ UNCHANGED <<row, in, holds, crashes, cur>> /\ pc = "record" /\ making' = making \ {cur}
        /\ pc' = IF making' = {} THEN "collect" ELSE "hold"
        /\ cur \in Batches /\ batch[cur] = "creating" /\ batch' = [batch EXCEPT ![cur] = "open"]
    BY <1>22 DEF Record, rowVars, ledgerVars, readVars, Inv, ReadingOK, Inv2, StatesOK, InCreate
  <2>2. batch'[cur] = "open" /\ \A b \in Batches : b # cur => batch'[b] = batch[b]
    BY <2>1 DEF Inv, CoreTypes
  <2>3. \A b \in Batches : Abandoned(b) => Abandoned(b)'
    BY <2>1, <2>2 DEF Abandoned
  <2>4. \A b \in Batches : Waits(b) => Waits(b)'
    BY <2>1 DEF Waits, Making
  <2>5. pc' \notin InCreate
    BY <2>1 DEF InCreate
  <2> QED  BY <2>1, <2>2, <2>3, <2>4, <2>5 DEF Inv2, HoldsOK
<1>23. CASE CommitNormal
  BY <1>23 DEF Inv2, HoldsOK, Waits, Abandoned, CommitNormal, ledgerVars, apiVars, readVars, runVars,
        histVars, RowsOf, StillHeld, InCreate, OneRow, Inv, CoreTypes, RunTypes, ReadingOK, Reading,
        MakingOK, Making, SnapOK, HeldOK, StatesOK, OfBatch, OPEN_STATES, Sendable
<1>24. CASE EndNormal
  BY <1>24 DEF Inv2, HoldsOK, Waits, Abandoned, EndNormal, Leave, rowVars, ledgerVars, apiVars, histVars,
        InCreate, Making, OneRow, HeldOK
<1>25. CASE \E b \in Batches : ApiEnds(b)
  BY <1>25 DEF Inv2, HoldsOK, Waits, Abandoned, ApiEnds, rowVars, ledgerVars, readVars, runVars, histVars
<1>26. CASE \E b \in Batches, r \in Requests : TurnsUp(b, r)
  BY <1>26 DEF Inv2, HoldsOK, Waits, Abandoned, TurnsUp, rowVars, ledgerVars, readVars, runVars, histVars
<1>27. CASE Crash
  BY <1>27 DEF Inv2, HoldsOK, Waits, Abandoned, Crash, Leave, rowVars, ledgerVars, apiVars
<1> QED  BY <1>0, <1>1, <1>2, <1>3, <1>4, <1>5, <1>6, <1>7, <1>8, <1>9, <1>10, <1>11, <1>12, <1>13, <1>14,
      <1>15, <1>16, <1>17, <1>18, <1>19, <1>20, <1>21, <1>22, <1>23, <1>24, <1>25, <1>26, <1>27 DEF Next

LEMMA ChargesOKStep ==
  ASSUME Inv, Inv2, [Next]_vars, Inv'
  PROVE  ChargesOK'
<1>t. \A b \in Batches : Torn(b) => Torn(b)'
  BY TornStays
<1>0. CASE UNCHANGED vars
  BY <1>0, <1>t DEF Inv2, ChargesOK, vars, rowVars, ledgerVars, apiVars, readVars, runVars, histVars, RowsOf,
        ChargedOK, Unread
<1>1. CASE Begin
  BY <1>1, <1>t DEF Inv2, ChargesOK, ChargedOK, Unread, RowsOf, Begin, rowVars, ledgerVars, apiVars,
        readVars, Reading, OneRow
<1>2. CASE Resume
  BY <1>2, <1>t DEF Inv2, ChargesOK, ChargedOK, Unread, RowsOf, Resume, Unconfirmed, OPEN_STATES, ledgerVars,
        apiVars, readVars, histVars, Reading, OneRow
<1>3. CASE \E b \in Batches : ReadLate(b)
  BY <1>3, <1>t DEF Inv2, ChargesOK, ChargedOK, Unread, RowsOf, ReadLate, Awaits, ledgerVars, apiVars,
        readVars, StillHeld, OneRow, Inv, CoreTypes, BatchesOK, RunTypes, ReadingOK, MakingOK, Making,
        Reading, SnapOK, HeldOK, StatesOK, InCreate, OfBatch, OPEN_STATES, Sendable
<1>4. CASE Collect
  BY <1>4, <1>t DEF Inv2, ChargesOK, ChargedOK, Unread, RowsOf, Collect, IsFirst, rowVars, ledgerVars,
        apiVars, histVars, Reading, OneRow
<1>5. CASE Ended
  BY <1>5, <1>t DEF Inv2, ChargesOK, ChargedOK, Unread, RowsOf, Ended, rowVars, ledgerVars, apiVars, runVars,
        histVars, StillHeld, OneRow, Inv, CoreTypes, BatchesOK, RunTypes, ReadingOK, MakingOK, Making,
        Reading, SnapOK, HeldOK, StatesOK, InCreate, OfBatch, OPEN_STATES, Sendable
<1>6. CASE Waited
  BY <1>6, <1>t DEF Inv2, ChargesOK, ChargedOK, Unread, RowsOf, Waited, rowVars, ledgerVars, apiVars,
        readVars, histVars, Reading, OneRow
<1>7. CASE StopsWaiting
  BY <1>7, <1>t DEF Inv2, ChargesOK, ChargedOK, Unread, RowsOf, StopsWaiting, Leave, rowVars, ledgerVars,
        apiVars, histVars, Reading, OneRow
<1>8. CASE Cancel
  BY <1>8, <1>t DEF Inv2, ChargesOK, ChargedOK, Unread, RowsOf, Cancel, readVars, runVars, Leave, rowVars,
        ledgerVars, apiVars, histVars, StillHeld, OneRow, Inv, CoreTypes, BatchesOK, RunTypes, ReadingOK,
        MakingOK, Making, Reading, SnapOK, HeldOK, StatesOK, InCreate, OfBatch, OPEN_STATES, Sendable
<1>9. CASE \E r \in Requests : Read(r)
  <2>1. PICK r \in Requests : Read(r)
    BY <1>9
  <2>2. /\ UNCHANGED <<row, in, batch, cur>> /\ pc = "read" /\ r \in unread /\ unread' = unread \ {r}
        /\ charges' \in {charges, [charges EXCEPT ![cur][r] = charges[cur][r] + 1]}
    BY <2>1 DEF Read, rowVars, runVars
  <2>3. /\ cur \in Batches /\ r \in RowsOf(cur) /\ snap[r] = row[r] /\ batch[cur] \in OPEN_STATES
        /\ charges \in [Batches -> [Requests -> Nat]]
    BY <2>2 DEF Inv, CoreTypes, ReadingOK, Reading, RowsOf, Inv2, SnapOK, StatesOK, OfBatch
  <2>4. \A b \in Batches : b # cur => charges'[b] = charges[b]
    BY <2>2, <2>3
  <2>5. /\ \A q \in Requests : q # r => charges'[cur][q] = charges[cur][q]
        /\ charges'[cur][r] \in {charges[cur][r], charges[cur][r] + 1}
    BY <2>2, <2>3
  <2>6. pc' \in Reading
    BY <2>1, <2>2 DEF Read, Reading
  <2> SUFFICES ASSUME NEW b \in Batches, ~Torn(b)'
               PROVE  ChargedOK(b)'
    BY DEF ChargesOK
  <2>7. ChargedOK(b)
    BY <1>t DEF Inv2, ChargesOK
  <2>8. CASE b # cur
    BY <2>2, <2>4, <2>6, <2>7, <2>8 DEF ChargedOK, Unread, RowsOf, Reading
  <2>9. CASE b = cur
    <3>1. row[r] = "held" /\ charges[cur][r] = 0 /\ charges'[cur][r] <= 1
      BY <2>2, <2>3, <2>5, <2>7, <2>9 DEF ChargedOK, Unread, Reading
    <3>2. pc' \in {"answered", "failed"} /\ it' = r
      BY <2>1, <2>3, <3>1 DEF Read
    <3> QED
      BY <2>2, <2>3, <2>5, <2>6, <2>7, <2>9, <3>1, <3>2 DEF ChargedOK, Unread, RowsOf, Reading, OneRow, OPEN_STATES
  <2> QED  BY <2>8, <2>9
<1>10. CASE \E r \in Requests : SettleMissing(r)
  BY <1>10, <1>t DEF Inv2, ChargesOK, ChargedOK, Unread, RowsOf, SettleMissing, Lost, rowVars, apiVars,
        runVars, histVars, StillHeld, OneRow, Inv, CoreTypes, BatchesOK, RunTypes, ReadingOK, MakingOK,
        Making, Reading, SnapOK, HeldOK, StatesOK, InCreate, OfBatch, OPEN_STATES, Sendable
<1>11. CASE \E r \in Requests : Normal(r)
  BY <1>11, <1>t DEF Inv2, ChargesOK, ChargedOK, Unread, RowsOf, Normal, rowVars, ledgerVars, apiVars,
        runVars, Reading, OneRow
<1>12. CASE CommitAnswer
  BY <1>12, <1>t DEF Inv2, ChargesOK, ChargedOK, Unread, RowsOf, CommitAnswer, ledgerVars, apiVars, readVars,
        runVars, histVars, StillHeld, OneRow, Inv, CoreTypes, BatchesOK, RunTypes, ReadingOK, MakingOK,
        Making, Reading, SnapOK, HeldOK, StatesOK, InCreate, OfBatch, OPEN_STATES, Sendable
<1>13. CASE CommitFailed
  BY <1>13, <1>t DEF Inv2, ChargesOK, ChargedOK, Unread, RowsOf, CommitFailed, GivesUp, MAX_ATTEMPTS,
        ledgerVars, apiVars, readVars, runVars, histVars, StillHeld, OneRow, Inv, CoreTypes, BatchesOK,
        RunTypes, ReadingOK, MakingOK, Making, Reading, SnapOK, HeldOK, StatesOK, InCreate, OfBatch,
        OPEN_STATES, Sendable
<1>14. CASE ReadMissing
  BY <1>14, <1>t DEF Inv2, ChargesOK, ChargedOK, Unread, RowsOf, ReadMissing, StillHeld, rowVars, ledgerVars,
        apiVars, runVars, histVars, Reading, OneRow
<1>15. CASE EndRead
  BY <1>15, <1>t DEF Inv2, ChargesOK, ChargedOK, Unread, RowsOf, EndRead, rowVars, ledgerVars, apiVars,
        readVars, histVars, StillHeld, OneRow, Inv, CoreTypes, BatchesOK, RunTypes, ReadingOK, MakingOK,
        Making, Reading, SnapOK, HeldOK, StatesOK, InCreate, OfBatch, OPEN_STATES, Sendable
<1>16. CASE Collected
  BY <1>16, <1>t DEF Inv2, ChargesOK, ChargedOK, Unread, RowsOf, Collected, runVars, Again, Leave, rowVars,
        ledgerVars, apiVars, histVars, Reading, OneRow
<1>17. CASE Submit
  BY <1>17, <1>t DEF Inv2, ChargesOK, ChargedOK, Unread, RowsOf, Submit, Again, IsFirst, apiVars, readVars,
        histVars, Reading, OneRow
<1>18. CASE Refused
  BY <1>18, <1>t DEF Inv2, ChargesOK, ChargedOK, Unread, RowsOf, Refused, Again, Leave, ledgerVars, apiVars,
        histVars, Reading, OneRow
<1>19. CASE Hold
  BY <1>19, <1>t DEF Inv2, ChargesOK, ChargedOK, Unread, RowsOf, Hold, IsFirst, Attempted, ledgerVars,
        apiVars, runVars, histVars, StillHeld, OneRow, Inv, CoreTypes, BatchesOK, RunTypes, ReadingOK,
        MakingOK, Making, Reading, SnapOK, HeldOK, StatesOK, InCreate, OfBatch, OPEN_STATES, Sendable
<1>20. CASE Create
  <2>1. /\ UNCHANGED <<row, in, batch, cur>> /\ pc = "create" /\ pc' \in {"record", "refused", "unsure"}
        /\ \/ UNCHANGED charges
           \/ /\ pc' = "unsure"
              /\ charges' = [charges EXCEPT ![cur] =
                               [r \in Requests |-> IF r \in RowsOf(cur) THEN 1 ELSE charges[cur][r]]]
    BY <1>20 DEF Create, rowVars, readVars, ledgerVars
  <2>2. /\ cur \in Batches /\ batch[cur] = "creating" /\ charges \in [Batches -> [Requests -> Nat]]
    BY <2>1 DEF Inv, CoreTypes, ReadingOK, Inv2, StatesOK, InCreate
  <2> SUFFICES ASSUME NEW b \in Batches, ~Torn(b)'
               PROVE  ChargedOK(b)'
    BY DEF ChargesOK
  <2>3. ChargedOK(b)
    BY <1>t DEF Inv2, ChargesOK
  <2>4. charges'[b] = charges[b] \/ (b = cur /\ pc' = "unsure" /\ \A r \in Requests : charges'[b][r] <= 1)
    BY <2>1, <2>2, <2>3 DEF ChargedOK, Unread
  <2> QED  BY <2>1, <2>2, <2>3, <2>4 DEF ChargedOK, Unread, RowsOf, Reading, OPEN_STATES
<1>21. CASE CreateFailed
  BY <1>21, <1>t DEF Inv2, ChargesOK, ChargedOK, Unread, RowsOf, CreateFailed, Leave, ledgerVars, apiVars,
        histVars, StillHeld, OneRow, Inv, CoreTypes, BatchesOK, RunTypes, ReadingOK, MakingOK, Making,
        Reading, SnapOK, HeldOK, StatesOK, InCreate, OfBatch, OPEN_STATES, Sendable
<1>22. CASE Record
  <2>1. /\ UNCHANGED <<row, in, charges, cur>> /\ pc = "record" /\ pc' \in {"collect", "hold"}
        /\ batch' = [batch EXCEPT ![cur] = "open"]
    BY <1>22 DEF Record, rowVars, readVars, ledgerVars
  <2>2. /\ cur \in Batches /\ batch[cur] = "creating" /\ \A r \in RowsOf(cur) : row[r] = "held"
    BY <2>1 DEF Inv, CoreTypes, ReadingOK, Inv2, StatesOK, InCreate, HeldOK, RowsOf
  <2> SUFFICES ASSUME NEW b \in Batches, ~Torn(b)'
               PROVE  ChargedOK(b)'
    BY DEF ChargesOK
  <2>3. ChargedOK(b)
    BY <1>t DEF Inv2, ChargesOK
  <2>4. b # cur => batch'[b] = batch[b]
    BY <2>1 DEF Inv, CoreTypes
  <2> QED  BY <2>1, <2>2, <2>3, <2>4 DEF ChargedOK, Unread, RowsOf, Reading
<1>23. CASE CommitNormal
  BY <1>23, <1>t DEF Inv2, ChargesOK, ChargedOK, Unread, RowsOf, CommitNormal, ledgerVars, apiVars, readVars,
        runVars, histVars, StillHeld, OneRow, Inv, CoreTypes, BatchesOK, RunTypes, ReadingOK, MakingOK,
        Making, Reading, SnapOK, HeldOK, StatesOK, InCreate, OfBatch, OPEN_STATES, Sendable
<1>24. CASE EndNormal
  BY <1>24, <1>t DEF Inv2, ChargesOK, ChargedOK, Unread, RowsOf, EndNormal, Leave, rowVars, ledgerVars,
        apiVars, histVars, Reading, OneRow
<1>25. CASE \E b \in Batches : ApiEnds(b)
  BY <1>25, <1>t DEF Inv2, ChargesOK, ChargedOK, Unread, RowsOf, ApiEnds, rowVars, ledgerVars, readVars,
        runVars, histVars
<1>26. CASE \E b \in Batches, r \in Requests : TurnsUp(b, r)
  BY <1>26, <1>t DEF Inv2, ChargesOK, ChargedOK, Unread, RowsOf, TurnsUp, rowVars, ledgerVars, readVars,
        runVars, histVars
<1>27. CASE Crash
  <2>1. /\ UNCHANGED <<row, in, batch, charges>> /\ pc' = "idle"
    BY <1>27 DEF Crash, Leave, rowVars, ledgerVars
  <2>2. ASSUME NEW b \in Batches, pc \in Reading, b = cur
        PROVE  Torn(b)'
    <3>1. \E q \in Requests \cup {NoRequest} : torn' = torn \cup {<<cur, q>>}
      <4>1. pc \in OneRow => it \in Requests
        BY DEF Inv, ReadingOK, OneRow
      <4> QED  BY <1>27, <2>2, <4>1 DEF Crash, Reading, OneRow
    <3> QED  BY <2>2, <3>1 DEF Torn
  <2> QED  BY <2>1, <2>2, <1>t DEF Inv2, ChargesOK, ChargedOK, Unread, Reading, RowsOf
<1> QED  BY <1>0, <1>1, <1>2, <1>3, <1>4, <1>5, <1>6, <1>7, <1>8, <1>9, <1>10, <1>11, <1>12, <1>13, <1>14,
      <1>15, <1>16, <1>17, <1>18, <1>19, <1>20, <1>21, <1>22, <1>23, <1>24, <1>25, <1>26, <1>27 DEF Next

LEMMA SeenOKStep ==
  ASSUME Inv, Inv2, [Next]_vars, Inv'
  PROVE  SeenOK'
<1>0. CASE UNCHANGED vars
  BY <1>0 DEF Inv2, SeenOK, vars, rowVars, ledgerVars, apiVars, readVars, runVars, histVars
<1>1. CASE Begin
  BY <1>1 DEF Inv2, SeenOK, Begin, RowsOf, rowVars, ledgerVars, apiVars, readVars
<1>2. CASE Resume
  BY <1>2 DEF Inv2, SeenOK, Resume, Unconfirmed, OPEN_STATES, RowsOf, ledgerVars, apiVars, readVars,
        histVars, HeldOK, Inv, CoreTypes
<1>3. CASE \E b \in Batches : ReadLate(b)
  BY <1>3 DEF Inv2, SeenOK, ReadLate, RowsOf, Awaits, ledgerVars, apiVars, readVars
<1>4. CASE Collect
  BY <1>4 DEF Inv2, SeenOK, Collect, IsFirst, rowVars, ledgerVars, apiVars, histVars
<1>5. CASE Ended
  BY <1>5 DEF Inv2, SeenOK, Ended, RowsOf, rowVars, ledgerVars, apiVars, runVars, histVars
<1>6. CASE Waited
  BY <1>6 DEF Inv2, SeenOK, Waited, rowVars, ledgerVars, apiVars, readVars, histVars
<1>7. CASE StopsWaiting
  BY <1>7 DEF Inv2, SeenOK, StopsWaiting, Leave, rowVars, ledgerVars, apiVars, histVars
<1>8. CASE Cancel
  BY <1>8 DEF Inv2, SeenOK, Cancel, readVars, runVars, Leave, rowVars, ledgerVars, apiVars, histVars
<1>9. CASE \E r \in Requests : Read(r)
  <2> SUFFICES ASSUME NEW r \in Requests, Read(r), torn = {}
               PROVE  \A q \in seen' : row'[q] = "answered" \/ (pc' = "answered" /\ it' = q)
    BY <1>9 DEF Inv2, SeenOK, Read
  <2>1. /\ pc = "read" /\ r \in unread /\ UNCHANGED row
        /\ seen' \subseteq seen \cup (IF res[r] = "ok" THEN {r} ELSE {})
    BY DEF Read, rowVars
  <2>2. cur \in Batches /\ r \in RowsOf(cur) /\ ~Torn(cur) /\ snap[r] = row[r]
    BY <2>1 DEF Inv, ReadingOK, Reading, RowsOf, Torn, Inv2, SnapOK
  <2>3. row[r] = "held"
    BY <2>1, <2>2 DEF Inv2, ChargesOK, ChargedOK, Reading
  <2>4. /\ pc' = IF res[r] = "ok" THEN "answered" ELSE "failed"
        /\ it' = r
    BY <2>2, <2>3 DEF Read
  <2>5. \A q \in seen : row[q] = "answered"
    BY <2>1 DEF Inv2, SeenOK
  <2> QED  BY <2>1, <2>4, <2>5
<1>10. CASE \E r \in Requests : SettleMissing(r)
  BY <1>10 DEF Inv2, SeenOK, SettleMissing, Lost, rowVars, apiVars, runVars, histVars
<1>11. CASE \E r \in Requests : Normal(r)
  BY <1>11 DEF Inv2, SeenOK, Normal, rowVars, ledgerVars, apiVars, runVars
<1>12. CASE CommitAnswer
  BY <1>12 DEF Inv2, SeenOK, CommitAnswer, ledgerVars, apiVars, readVars, runVars, histVars, HeldOK, Inv,
        CoreTypes
<1>13. CASE CommitFailed
  BY <1>13 DEF Inv2, SeenOK, CommitFailed, GivesUp, MAX_ATTEMPTS, ledgerVars, apiVars, readVars, runVars,
        histVars, RowsOf, StillHeld, OneRow, Inv, CoreTypes, RunTypes, ReadingOK, MakingOK, Making, Reading,
        SnapOK, HeldOK, StatesOK, InCreate, OfBatch, OPEN_STATES, Sendable, Torn
<1>14. CASE ReadMissing
  BY <1>14 DEF Inv2, SeenOK, ReadMissing, StillHeld, RowsOf, rowVars, ledgerVars, apiVars, runVars, histVars
<1>15. CASE EndRead
  BY <1>15 DEF Inv2, SeenOK, EndRead, rowVars, ledgerVars, apiVars, readVars, histVars
<1>16. CASE Collected
  BY <1>16 DEF Inv2, SeenOK, Collected, runVars, Again, Leave, rowVars, ledgerVars, apiVars, histVars
<1>17. CASE Submit
  BY <1>17 DEF Inv2, SeenOK, Submit, Again, IsFirst, apiVars, readVars, histVars
<1>18. CASE Refused
  BY <1>18 DEF Inv2, SeenOK, Refused, Again, Leave, ledgerVars, apiVars, histVars
<1>19. CASE Hold
  <2>1. /\ UNCHANGED <<seen, torn>> /\ pc = "hold" /\ cur' \in making
        /\ row' = [r \in Requests |-> IF r \in holds[cur'] THEN "held" ELSE row[r]]
    BY <1>19 DEF Hold, histVars
  <2>2. \A r \in holds[cur'] : row[r] \in Sendable
    BY <2>1 DEF Inv, MakingOK, Making
  <2> QED  BY <2>1, <2>2 DEF Inv2, SeenOK, Sendable
<1>20. CASE Create
  BY <1>20 DEF Inv2, SeenOK, Create, RowsOf, ledgerVars, NotMade, rowVars, readVars, runVars
<1>21. CASE CreateFailed
  BY <1>21 DEF Inv2, SeenOK, CreateFailed, RowsOf, Leave, ledgerVars, apiVars, histVars, StillHeld, OneRow,
        Inv, CoreTypes, RunTypes, ReadingOK, MakingOK, Making, Reading, SnapOK, HeldOK, StatesOK, InCreate,
        OfBatch, OPEN_STATES, Sendable, Torn
<1>22. CASE Record
  BY <1>22 DEF Inv2, SeenOK, Record, rowVars, ledgerVars, apiVars, readVars, histVars
<1>23. CASE CommitNormal
  BY <1>23 DEF Inv2, SeenOK, CommitNormal, ledgerVars, apiVars, readVars, runVars, histVars
<1>24. CASE EndNormal
  BY <1>24 DEF Inv2, SeenOK, EndNormal, Leave, rowVars, ledgerVars, apiVars, histVars
<1>25. CASE \E b \in Batches : ApiEnds(b)
  BY <1>25 DEF Inv2, SeenOK, ApiEnds, rowVars, ledgerVars, readVars, runVars, histVars
<1>26. CASE \E b \in Batches, r \in Requests : TurnsUp(b, r)
  BY <1>26 DEF Inv2, SeenOK, TurnsUp, rowVars, ledgerVars, readVars, runVars, histVars
<1>27. CASE Crash
  <2>1. UNCHANGED <<seen, row>> /\ torn \subseteq torn'
        /\ (pc = "answered" => torn' # {})
    BY <1>27 DEF Crash, rowVars
  <2> QED  BY <2>1 DEF Inv2, SeenOK
<1> QED  BY <1>0, <1>1, <1>2, <1>3, <1>4, <1>5, <1>6, <1>7, <1>8, <1>9, <1>10, <1>11, <1>12, <1>13, <1>14,
      <1>15, <1>16, <1>17, <1>18, <1>19, <1>20, <1>21, <1>22, <1>23, <1>24, <1>25, <1>26, <1>27 DEF Next

LEMMA InitInv2 ==
  ASSUME Init
  PROVE  Inv2
<1>1. AttemptsOK /\ StatesOK
  BY DEF Init, AttemptsOK, StatesOK, InCreate, OfBatch, Reading, MAX_ATTEMPTS
<1>2. HeldOK /\ SnapOK /\ SeenOK
  BY DEF Init, HeldOK, SnapOK, SeenOK, OneRow, RowsOf
<1>3. HoldsOK
  BY DEF Init, HoldsOK, InCreate
<1>4. ChargesOK
  BY DEF Init, ChargesOK, ChargedOK, Unread, Reading, OPEN_STATES
<1> QED  BY <1>1, <1>2, <1>3, <1>4 DEF Inv2

LEMMA Inv2Holds == Spec => [](Inv /\ Inv2)
<1>1. Init => Inv /\ Inv2
  BY InitInv, InitInv2
<1>2. Inv /\ Inv2 /\ [Next]_vars => (Inv /\ Inv2)'
  BY StepInv, AttemptsOKStep, StatesOKStep, HeldOKStep, SnapOKStep, HoldsOKStep, ChargesOKStep, SeenOKStep
     DEF Inv2
<1> QED  BY <1>1, <1>2, PTL DEF Spec

\* The rows, the batches and the ledger keep their types; no request has more
\* than MAX_ATTEMPTS attempts, or is sent more often than that in one run; and
\* a row says held only of a batch the API has or is being given it (_failed,
\* _reopen, _hold and _create_failed).
THEOREM BatchesTyped == Spec => []TypeOK
<1>1. Inv /\ Inv2 => TypeOK
  <2> SUFFICES ASSUME Inv, Inv2 PROVE TypeOK
    OBVIOUS
  <2>1. tries \in [Requests -> 0..MAX_ATTEMPTS]
    <3>1. \A r \in Requests : tries[r] \in 0..MAX_ATTEMPTS
      BY DEF Inv, RunTypes, Inv2, AttemptsOK, MAX_ATTEMPTS
    <3> QED  BY <3>1 DEF Inv, RunTypes
  <2> QED  BY <2>1 DEF TypeOK, Inv, CoreTypes, Inv2, AttemptsOK, HeldOK, Rows, BatchStates
<1> QED  BY <1>1, Inv2Holds, PTL

\* A reservation of a batch whose read was never cut off is charged once,
\* however late its result comes (_take_result, _read_ended and _read_late).
THEOREM ChargedOnceIfRead == Spec => []ReadOnceChargedOnce
<1>1. Inv /\ Inv2 => ReadOnceChargedOnce
  <2> SUFFICES ASSUME Inv, Inv2, NEW b \in Batches, NEW r \in Requests, charges[b][r] > 1
               PROVE  Torn(b)
    BY DEF ReadOnceChargedOnce, Torn
  <2>1. charges[b][r] \in Nat
    BY DEF Inv, CoreTypes
  <2> QED  BY <2>1 DEF Inv2, ChargesOK, ChargedOK
<1> QED  BY <1>1, Inv2Holds, PTL

\* While no run has died, the open reservations after one are those of requests
\* a batch has on file, or of batches given up because the create of an earlier
\* one failed (_reserve, _hold, _create_failed and _read_ended).
THEOREM NoHoldLostTrackOf == Spec => []HoldsOwned
<1>1. Inv /\ Inv2 => HoldsOwned
  BY DEF Inv2, HoldsOK, HoldsOwned, Waits, Abandoned, Making, InCreate
<1> QED  BY <1>1, Inv2Holds, PTL

LEMMA UsedStep ==
  ASSUME Inv, Inv2, [Next]_vars
  PROVE  [\A r \in Requests :
            tries'[r] > tries[r] \/ normal'[r] > normal[r] => r \notin seen \/ torn # {}]_vars
<1> SUFFICES ASSUME Next, NEW r \in Requests, tries'[r] > tries[r] \/ normal'[r] > normal[r],
                    torn = {}, r \in seen
             PROVE  FALSE
  BY DEF vars
<1>1. tries[r] \in Nat /\ normal[r] \in Nat
  BY DEF Inv, RunTypes
<1>2. row[r] = "answered" \/ pc = "answered"
  BY DEF Inv2, SeenOK
<1>3. CASE \E q \in Requests : Normal(q)
  BY <1>1, <1>2, <1>3 DEF Normal, Inv, RunTypes
<1>4. CASE Create /\ r \in RowsOf(cur)
  BY <1>2, <1>4 DEF Create, Inv, MakingOK
<1>5. CASE Create /\ r \notin RowsOf(cur)
  BY <1>1, <1>5 DEF Create
<1>6. CASE Begin
  BY <1>1, <1>6 DEF Begin
<1>7. CASE UNCHANGED <<tries, normal>>
  BY <1>1, <1>7
<1>8. \/ \E q \in Requests : Normal(q)
      \/ Create \/ Begin \/ UNCHANGED <<tries, normal>>
  BY DEF Next, Resume, ReadLate, Collect, Ended, Waited, StopsWaiting, Cancel, Read, SettleMissing,
         CommitAnswer, CommitFailed, ReadMissing, EndRead, Collected, Submit, Refused, Hold,
         CreateFailed, Record, CommitNormal, EndNormal, ApiEnds, TurnsUp, Crash, histVars
<1> QED  BY <1>3, <1>4, <1>5, <1>6, <1>7, <1>8

\* What the program has once read the answer of is not sent again, in a batch or
\* on its own, unless a process died while it read a batch (_take_result,
\* _take_late, _todo and _send_rest_normally).
THEOREM ReadIsNotBoughtAgain == Spec => ReadIsUsed
<1>1. (Inv /\ Inv2) /\ [Next]_vars
        => [\A r \in Requests :
              tries'[r] > tries[r] \/ normal'[r] > normal[r] => r \notin seen \/ torn # {}]_vars
  BY UsedStep
<1> QED  BY <1>1, Inv2Holds, PTL DEF Spec, ReadIsUsed

=============================================================================
