----------------------------- MODULE ClaudeBatch -----------------------------
(***************************************************************************)
(* Message Batches that survive a crash: claude_batch_run.run_many of      *)
(* backend/app with the rows of claude_batch_store, the holds and charges  *)
(* of the spend ledger, the answer cache, and the Batch API.               *)
(*                                                                         *)
(* One process at a time runs run_many over one fixed set of requests; it  *)
(* may die between any two writes, and is run again.  A reservation is     *)
(* named by the batch it was made for and its request.  Answers are all    *)
(* usable, complete, and within the answer cache's rules.                  *)
(***************************************************************************)
EXTENDS Integers, FiniteSets

CONSTANTS
  Requests,     \* custom ids, numbered in the order they are sent
  SliceSizes,   \* requests one batch may take: their bytes decide
  Fallbacks,    \* the runs made: with fallback_after_s (TRUE), without
  MayMiss,      \* may an ended batch have no result row for a request?
  MaxBatches, MaxRuns, MaxCrashes   \* bounds

ASSUME BatchAssumption ==
  /\ Requests \subseteq Nat /\ IsFiniteSet(Requests) /\ SliceSizes \subseteq Nat \ {0}
  /\ Fallbacks \subseteq BOOLEAN /\ MayMiss \in BOOLEAN
  /\ MaxBatches \in Nat /\ MaxRuns \in Nat /\ MaxCrashes \in Nat

Batches == 1..MaxBatches
NoRequest == -1
MAX_ATTEMPTS == 2
OPEN_STATES == {"open", "canceling"}

VARIABLES
  row, attempts, lost, in,  \* claude_batch_requests: state, attempts, whether
                            \* failure is "no_result", batch_row
  batch,                    \* claude_batches: state
  holds, charges,           \* the ledger: open reservations, cost lines
  cached,                   \* the answer cache
  api, members, result,     \* the API's batches, what they hold, the results
  pc, queue, making, cur, it, unread, snap, res, missing,  \* the run: batches to
  left, timedOut, fallback,                \* collect and to make, its place
  runs, crashes,
  tries, torn, seen, normal \* history: sends in this run; batches whose read was
                            \* cut off, and the request settled but not committed;
                            \* answers read; normal sends

rowVars    == <<row, attempts, lost, in>>
ledgerVars == <<holds, charges>>
apiVars    == <<api, members, result>>
readVars   == <<cur, it, unread, snap, res, missing>>
runVars    == <<queue, making, left, timedOut, fallback, runs>>
histVars   == <<tries, torn, seen, normal>>
vars == <<rowVars, batch, ledgerVars, cached, apiVars, pc, readVars, runVars, crashes, histVars>>

Init ==
  /\ row = [r \in Requests |-> "none"] /\ attempts = [r \in Requests |-> 0]
  /\ lost = [r \in Requests |-> FALSE] /\ in = [r \in Requests |-> 0]
  /\ batch = [b \in Batches |-> "none"]
  /\ holds = [b \in Batches |-> {}]
  /\ charges = [b \in Batches |-> [r \in Requests |-> 0]]
  /\ cached = {}
  /\ api = [b \in Batches |-> "absent"] /\ members = [b \in Batches |-> {}]
  /\ result = [b \in Batches |-> [r \in Requests |-> "none"]]
  /\ pc = "idle" /\ queue = {} /\ making = {} /\ cur = 0 /\ it = 0
  /\ unread = {} /\ snap = row /\ res = row /\ missing = FALSE
  /\ left = {} /\ timedOut = FALSE /\ fallback = FALSE
  /\ runs = 0 /\ crashes = 0
  /\ tries = [r \in Requests |-> 0] /\ torn = {} /\ seen = {}
  /\ normal = [r \in Requests |-> 0]

RowsOf(b) == {r \in Requests : in[r] = b}
IsFirst(b, S) == b \in S /\ \A c \in S : b <= c

\* The run returns, raises or dies: what it held in memory is gone.
Leave ==
  /\ pc' = "idle" /\ queue' = {} /\ making' = {} /\ cur' = 0 /\ it' = 0
  /\ unread' = {} /\ missing' = FALSE /\ left' = {} /\ timedOut' = FALSE
  /\ snap' = [r \in Requests |-> "none"] /\ res' = [r \in Requests |-> "none"]
  /\ fallback' = FALSE /\ runs' = runs

-----------------------------------------------------------------------------
(* The start of a run. *)

Begin ==
  /\ pc = "idle" /\ runs < MaxRuns
  /\ runs' = runs + 1
  /\ fallback' \in Fallbacks
  /\ queue' = {b \in Batches : batch[b] = "ended_missing" /\ RowsOf(b) # {}}
  /\ tries' = [r \in Requests |-> 0]
  /\ pc' = "late"
  /\ UNCHANGED <<rowVars, batch, ledgerVars, cached, apiVars, readVars, making, left, timedOut,
                 crashes, torn, seen, normal>>

\* mutant: only a row still to be sent again is answered by a late result
Awaits_Retry(r) == row[r] = "retry"

\* A request a late result is used for.
Awaits(r) == row[r] # "answered"

\* _read_late: a row that turns up is used, and nothing is charged.
ReadLate(b) ==
  LET found == {r \in RowsOf(b) : lost[r] /\ result[b][r] = "ok"} IN
  /\ pc = "late" /\ b \in queue
  /\ queue' = queue \ {b}
  /\ row' = [r \in Requests |-> IF r \in found /\ Awaits(r) THEN "answered" ELSE row[r]]
  /\ lost' = [r \in Requests |-> lost[r] /\ ~(r \in found /\ Awaits(r))]
  /\ batch' = [batch EXCEPT ![b] =
       IF \E r \in RowsOf(b) : lost'[r] /\ row'[r] # "answered" THEN @ ELSE "ended"]
  /\ seen' = seen \cup found
  /\ UNCHANGED <<attempts, in, ledgerVars, cached, apiVars, pc, readVars, making, left, timedOut,
                 fallback, runs, crashes, tries, torn, normal>>

\* mutant: a batch whose create was not seen to end was not made
Unconfirmed_NotSent == "not_sent"

\* What becomes of a batch that died inside create, and of its requests.
Unconfirmed == "unconfirmed"

\* _mark_unconfirmed and _reopen, then the batches still out are collected.
Resume ==
  LET dead == {b \in Batches : batch[b] = "creating"} IN
  /\ pc = "late" /\ queue = {}
  /\ batch' = [b \in Batches |-> IF b \in dead THEN Unconfirmed ELSE batch[b]]
  /\ row' = [r \in Requests |-> IF in[r] \in dead THEN Unconfirmed
                                ELSE IF row[r] = "gave_up" THEN "retry" ELSE row[r]]
  /\ attempts' = [r \in Requests |-> IF row[r] = "gave_up" THEN 0 ELSE attempts[r]]
  /\ lost' = [r \in Requests |-> lost[r] /\ row[r] # "gave_up"]
  /\ queue' = {b \in Batches : batch[b] \in OPEN_STATES /\ RowsOf(b) # {}}
  /\ pc' = "collect"
  /\ UNCHANGED <<in, ledgerVars, cached, apiVars, readVars, making, left, timedOut, fallback, runs,
                 crashes, histVars>>

-----------------------------------------------------------------------------
(* Collecting a batch. *)

Collect ==
  /\ pc = "collect" /\ queue # {}
  /\ \E b \in queue : IsFirst(b, queue) /\ cur' = b
  /\ IF batch[cur'] = "canceling" /\ fallback
       THEN pc' = "cancelling" /\ timedOut' = TRUE
       ELSE pc' = "poll" /\ UNCHANGED timedOut
  /\ UNCHANGED <<rowVars, batch, ledgerVars, cached, apiVars, it, unread, snap, res, missing, queue,
                 making, left, fallback, runs, crashes, histVars>>

\* The batch has ended: its rows and its results are read.
Ended ==
  /\ pc \in {"poll", "cancelling"} /\ api[cur] = "ended"
  /\ unread' = RowsOf(cur) /\ snap' = row /\ res' = result[cur]
  /\ missing' = FALSE
  /\ pc' = "read"
  /\ UNCHANGED <<rowVars, batch, ledgerVars, cached, apiVars, cur, it, runVars, crashes, histVars>>

\* mutant: what the batch has not done yet is sent while it is cancelled
Waited_GoesOn ==
  /\ pc \in {"poll", "cancelling"} /\ api[cur] = "running"
  /\ \/ pc = "poll" /\ pc' = "cancel" /\ fallback /\ timedOut' = TRUE /\ UNCHANGED <<queue, row>>
     \/ /\ pc = "cancelling" /\ pc' = "collect" /\ UNCHANGED timedOut
        /\ queue' = queue \ {cur}
        /\ row' = [r \in Requests |-> IF in[r] = cur THEN "retry" ELSE row[r]]
  /\ UNCHANGED <<attempts, lost, in, batch, ledgerVars, cached, apiVars, readVars, making, left,
                 fallback, runs, crashes, histVars>>

\* It has not ended in time, and with a fallback it is cancelled.
Waited ==
  /\ pc = "poll" /\ api[cur] = "running" /\ fallback
  /\ pc' = "cancel" /\ timedOut' = TRUE
  /\ UNCHANGED <<rowVars, batch, ledgerVars, cached, apiVars, readVars, queue, making, left, fallback,
                 runs, crashes, histVars>>

\* The run stops and says "waiting": no fallback, or a cancel that does not
\* end in time.  A poll that fails stops it too, whatever the batch does.
StopsWaiting ==
  /\ pc \in {"poll", "cancelling"}
  /\ Leave
  /\ UNCHANGED <<rowVars, batch, ledgerVars, cached, apiVars, crashes, histVars>>

\* batch_cancel: taken, or failed and the run waits.
Cancel ==
  /\ pc = "cancel"
  /\ \/ /\ pc' = "cancelling"
        /\ batch' = [batch EXCEPT ![cur] = "canceling"]
        /\ UNCHANGED <<readVars, runVars>>
     \/ Leave /\ UNCHANGED batch
  /\ UNCHANGED <<rowVars, ledgerVars, cached, apiVars, crashes, histVars>>

\* One result row.  Of a request held by this batch the reservation is settled
\* or released; an answer for one answered before is charged once more.
Read(r) ==
  /\ pc = "read" /\ r \in unread /\ res[r] \in {"ok", "unbilled"}
  /\ unread' = unread \ {r}
  /\ seen' = IF res[r] = "ok" THEN seen \cup {r} ELSE seen
  /\ IF snap[r] = "held"
       THEN /\ holds' = [holds EXCEPT ![cur] = @ \ {r}]
            /\ it' = r
            /\ IF res[r] = "ok"
                 THEN /\ charges' = [charges EXCEPT ![cur][r] = @ + 1]
                      /\ cached' = cached \cup {r}
                      /\ pc' = "answered"
                 ELSE pc' = "failed" /\ UNCHANGED <<charges, cached>>
       ELSE /\ charges' = IF snap[r] = "answered" /\ res[r] = "ok"
                            THEN [charges EXCEPT ![cur][r] = @ + 1] ELSE charges
            /\ UNCHANGED <<holds, cached, it, pc>>
  /\ UNCHANGED <<rowVars, batch, apiVars, cur, snap, res, missing, runVars, crashes, tries, torn, normal>>

CommitAnswer ==
  /\ pc = "answered"
  /\ row' = [row EXCEPT ![it] = "answered"]
  /\ pc' = "read"
  /\ UNCHANGED <<attempts, lost, in, batch, ledgerVars, cached, apiVars, readVars, runVars, crashes, histVars>>

\* mutant: one attempt too many
GivesUp_Late(r) == attempts[r] > MAX_ATTEMPTS

GivesUp(r) == attempts[r] >= MAX_ATTEMPTS

\* _failed: queued again once, then given up.
CommitFailed ==
  /\ pc \in {"failed", "lost"}
  /\ row' = [row EXCEPT ![it] = IF GivesUp(it) THEN "gave_up" ELSE "retry"]
  /\ lost' = [lost EXCEPT ![it] = pc = "lost"]
  /\ pc' = IF pc = "lost" THEN "missing" ELSE "read"
  /\ UNCHANGED <<attempts, in, batch, ledgerVars, cached, apiVars, readVars, runVars, crashes, histVars>>

\* mutant: the rows as they were before the results were read
StillHeld_Stale(b) == {r \in RowsOf(b) : snap[r] = "held"}

StillHeld(b) == {r \in RowsOf(b) : row[r] = "held"}

\* All results are read: the requests still held were never named.
ReadMissing ==
  /\ pc = "read" /\ \A r \in unread : res[r] \notin {"ok", "unbilled"}
  /\ unread' = StillHeld(cur)
  /\ missing' = (unread' # {})
  /\ pc' = "missing"
  /\ UNCHANGED <<rowVars, batch, ledgerVars, cached, apiVars, cur, it, snap, res, runVars, crashes, histVars>>

\* mutant: no result, no charge
Lost_Free(r) ==
  /\ holds' = [holds EXCEPT ![cur] = @ \ {r}]
  /\ UNCHANGED charges

\* Charged its worst case: unknown is never free.
Lost(r) ==
  /\ holds' = [holds EXCEPT ![cur] = @ \ {r}]
  /\ charges' = [charges EXCEPT ![cur][r] = @ + 1]

SettleMissing(r) ==
  /\ pc = "missing" /\ r \in unread
  /\ unread' = unread \ {r} /\ it' = r
  /\ Lost(r)
  /\ pc' = "lost"
  /\ UNCHANGED <<rowVars, batch, cached, apiVars, cur, snap, res, missing, runVars, crashes, histVars>>

EndRead ==
  /\ pc = "missing" /\ unread = {}
  /\ batch' = [batch EXCEPT ![cur] = IF missing THEN "ended_missing" ELSE "ended"]
  /\ queue' = queue \ {cur}
  /\ pc' = "collect"
  /\ UNCHANGED <<rowVars, ledgerVars, cached, apiVars, readVars, making, left, timedOut, fallback, runs,
                 crashes, histVars>>

-----------------------------------------------------------------------------
(* Sending what is left. *)

Again == {r \in Requests : row[r] \in {"none", "retry", "not_sent"}} \ left

\* Nothing is left, or the rest is sent one by one.
Collected ==
  /\ pc = "collect" /\ queue = {}
  /\ \/ /\ timedOut
        /\ pc' = "normal" /\ unread' = Requests
        /\ UNCHANGED <<cur, it, snap, res, missing, runVars>>
     \/ ~timedOut /\ Again = {} /\ Leave
  /\ UNCHANGED <<rowVars, batch, ledgerVars, cached, apiVars, crashes, histVars>>

\* _prepare and _reserve: answers on file are used, what does not fit the
\* budget is left out, the rest is reserved for as few batches as the API allows.
Submit ==
  LET stored == Again \cap cached
      used   == {b \in Batches : batch[b] # "none" \/ holds[b] # {}} IN
  /\ pc = "collect" /\ queue = {} /\ ~timedOut /\ Again # {}
  /\ row' = [r \in Requests |-> IF r \in stored THEN "answered" ELSE row[r]]
  /\ \E fits \in SUBSET (Again \ cached), first \in 1..MaxBatches + 1, size \in SliceSizes :
       LET slice(r) == first + Cardinality({q \in fits : q < r}) \div size
           slices == {slice(r) : r \in fits} IN
       /\ IsFirst(first, {b \in 1..MaxBatches + 1 : \A c \in used : c < b})
       /\ slices \subseteq Batches
       /\ left' = left \cup (Again \ (stored \cup fits))
       /\ holds' = [b \in Batches |-> IF b \in slices THEN {r \in fits : slice(r) = b} ELSE holds[b]]
       /\ making' = slices
       /\ pc' = IF fits = {} THEN "collect" ELSE "hold"
  /\ UNCHANGED <<attempts, lost, in, batch, charges, cached, apiVars, readVars, queue, timedOut, fallback,
                 runs, crashes, histVars>>

\* The ledger refuses a reservation: those made are taken back, the run raises.
Refused ==
  /\ pc = "collect" /\ queue = {} /\ ~timedOut /\ Again # {}
  /\ row' = [r \in Requests |-> IF r \in Again \cap cached THEN "answered" ELSE row[r]]
  /\ Leave
  /\ UNCHANGED <<attempts, lost, in, batch, ledgerVars, cached, apiVars, crashes, histVars>>

Attempted(r) == attempts[r] + 1

\* _hold: the batch and its requests are written before the send.
Hold ==
  /\ pc = "hold"
  /\ \E b \in making : IsFirst(b, making) /\ cur' = b
  /\ batch' = [batch EXCEPT ![cur'] = "creating"]
  /\ row' = [r \in Requests |-> IF r \in holds[cur'] THEN "held" ELSE row[r]]
  /\ in' = [r \in Requests |-> IF r \in holds[cur'] THEN cur' ELSE in[r]]
  /\ attempts' = [r \in Requests |-> IF r \in holds[cur'] THEN Attempted(r) ELSE attempts[r]]
  /\ pc' = "create"
  /\ UNCHANGED <<lost, ledgerVars, cached, apiVars, it, unread, snap, res, missing, runVars, crashes, histVars>>

\* mutant: a refused batch leaves its reservations open
NotMade_KeepsHolds == holds

\* The reservations of a batch that was not made are released or settled.
NotMade == [holds EXCEPT ![cur] = {}]

\* batch_create: made; refused, which proves that nothing was billed; or
\* failed in a way that leaves both possible, and is charged.
Create ==
  LET sent == RowsOf(cur) IN
  /\ pc = "create"
  /\ \/ /\ api' = [api EXCEPT ![cur] = "running"]
        /\ pc' = "record"
        /\ UNCHANGED ledgerVars
     \/ /\ pc' = "refused"
        /\ holds' = NotMade
        /\ UNCHANGED <<api, charges>>
     \/ /\ \E made \in {"running", "absent"} : api' = [api EXCEPT ![cur] = made]
        /\ pc' = "unsure"
        /\ holds' = NotMade
        /\ charges' = [charges EXCEPT ![cur] = [r \in Requests |-> IF r \in sent THEN 1 ELSE @[r]]]
  /\ members' = IF api'[cur] = "running" THEN [members EXCEPT ![cur] = sent] ELSE members
  /\ tries' = [r \in Requests |-> IF api'[cur] = "running" /\ r \in sent THEN tries[r] + 1 ELSE tries[r]]
  /\ UNCHANGED <<rowVars, batch, cached, result, readVars, runVars, crashes, torn, seen, normal>>

\* _create_failed: the rows say why, and the run raises.
CreateFailed ==
  LET state == IF pc = "refused" THEN "not_sent" ELSE "unconfirmed"
      sent == RowsOf(cur) IN
  /\ pc \in {"refused", "unsure"}
  /\ batch' = [batch EXCEPT ![cur] = state]
  /\ row' = [r \in Requests |-> IF r \in sent THEN state ELSE row[r]]
  /\ attempts' = [r \in Requests |-> IF r \in sent /\ pc = "refused" THEN attempts[r] - 1 ELSE attempts[r]]
  /\ Leave
  /\ UNCHANGED <<lost, in, ledgerVars, cached, apiVars, crashes, histVars>>

\* The batch's id is stored; the next slice, or all of them are collected.
Record ==
  /\ pc = "record"
  /\ batch' = [batch EXCEPT ![cur] = "open"]
  /\ queue' = queue \cup {cur} /\ making' = making \ {cur}
  /\ pc' = IF making' = {} THEN "collect" ELSE "hold"
  /\ UNCHANGED <<rowVars, ledgerVars, cached, apiVars, readVars, left, timedOut, fallback, runs, crashes, histVars>>

\* _send_rest_normally, one request: one the batch answered, or may still, is
\* passed over; so is one that does not fit; the rest is asked at the normal
\* price unless its answer is on file.  A send that fails is the last one.
Normal(r) ==
  /\ pc = "normal" /\ r \in unread
  /\ \/ unread' = unread \ {r} /\ UNCHANGED <<pc, it, cached, normal>>
     \/ /\ row[r] \notin {"answered", "held", "unconfirmed"} /\ r \notin cached
        /\ normal' = [normal EXCEPT ![r] = @ + 1]
        /\ unread' = {}
        /\ UNCHANGED <<pc, it, cached>>
     \/ /\ row[r] \notin {"answered", "held", "unconfirmed"}
        /\ normal' = IF r \in cached THEN normal ELSE [normal EXCEPT ![r] = @ + 1]
        /\ cached' = cached \cup {r}
        /\ unread' = unread \ {r} /\ it' = r /\ pc' = "sent"
  /\ UNCHANGED <<rowVars, batch, ledgerVars, apiVars, cur, snap, res, missing, runVars, crashes, tries, torn, seen>>

CommitNormal ==
  /\ pc = "sent"
  /\ row' = [row EXCEPT ![it] = "answered"]
  /\ pc' = "normal"
  /\ UNCHANGED <<attempts, lost, in, batch, ledgerVars, cached, apiVars, readVars, runVars, crashes, histVars>>

EndNormal ==
  /\ pc = "normal" /\ unread = {}
  /\ Leave
  /\ UNCHANGED <<rowVars, batch, ledgerVars, cached, apiVars, crashes, histVars>>

-----------------------------------------------------------------------------
(* The API, and a death of the process. *)

\* A batch ends: a request of it succeeded, or was not billed, or its row is
\* missing from the results.
ApiEnds(b) ==
  /\ api[b] = "running"
  /\ api' = [api EXCEPT ![b] = "ended"]
  /\ \E f \in [members[b] -> {"ok", "unbilled"} \cup (IF MayMiss THEN {"missing"} ELSE {})] :
       result' = [result EXCEPT ![b] = [r \in Requests |-> IF r \in members[b] THEN f[r] ELSE "none"]]
  /\ UNCHANGED <<rowVars, batch, ledgerVars, cached, members, pc, readVars, runVars, crashes, histVars>>

TurnsUp(b, r) ==
  /\ result[b][r] = "missing"
  /\ result' = [result EXCEPT ![b][r] = "ok"]
  /\ UNCHANGED <<rowVars, batch, ledgerVars, cached, api, members, pc, readVars, runVars, crashes, histVars>>

Crash ==
  /\ pc # "idle" /\ crashes < MaxCrashes
  /\ crashes' = crashes + 1
  /\ torn' = IF pc \in {"answered", "lost"} THEN torn \cup {<<cur, it>>}
             ELSE IF pc \in {"read", "failed", "missing"} THEN torn \cup {<<cur, NoRequest>>} ELSE torn
  /\ Leave
  /\ UNCHANGED <<rowVars, batch, ledgerVars, cached, apiVars, tries, seen, normal>>

Next ==
  \/ Begin \/ Resume \/ \E b \in Batches : ReadLate(b)
  \/ Collect \/ Ended \/ Waited \/ StopsWaiting \/ Cancel
  \/ \E r \in Requests : Read(r) \/ SettleMissing(r) \/ Normal(r)
  \/ CommitAnswer \/ CommitFailed \/ ReadMissing \/ EndRead
  \/ Collected \/ Submit \/ Refused \/ Hold \/ Create \/ CreateFailed \/ Record
  \/ CommitNormal \/ EndNormal
  \/ \E b \in Batches : ApiEnds(b) \/ \E r \in Requests : TurnsUp(b, r)
  \/ Crash

Spec == Init /\ [][Next]_vars

TypeOK ==
  /\ row \in [Requests -> {"none", "held", "retry", "gave_up", "answered", "not_sent", "unconfirmed"}]
  /\ attempts \in [Requests -> 0..MAX_ATTEMPTS]
  /\ tries \in [Requests -> 0..MAX_ATTEMPTS]
  /\ lost \in [Requests -> BOOLEAN] /\ in \in [Requests -> Batches \cup {0}]
  /\ batch \in [Batches -> {"none", "creating", "open", "canceling", "ended", "ended_missing",
                            "unconfirmed", "not_sent"}]
  /\ holds \in [Batches -> SUBSET Requests]
  /\ charges \in [Batches -> [Requests -> Nat]]
  /\ api \in [Batches -> {"absent", "running", "ended"}]
  /\ \A r \in Requests : row[r] = "held" => r \in members[in[r]] \/ batch[in[r]] = "creating"

-----------------------------------------------------------------------------
(* Correctness. *)

\* Whatever the API may bill of a batch it was given is on the ledger, held or
\* charged, wherever the process dies.
BilledIsCharged ==
  \A b \in Batches : \A r \in members[b] :
    result[b][r] # "unbilled" => r \in holds[b] \/ charges[b][r] >= 1

\* A request is never out twice: nothing sends it, in a batch or on its own,
\* while the API still works on a batch that has it.
Out(r) == {b \in Batches : api[b] = "running" /\ r \in members[b]}
OneLiveSend ==
  [][\A r \in Requests : tries'[r] > tries[r] \/ normal'[r] > normal[r] => Out(r) = {}]_vars

\* A reservation is charged once, however late and in whatever order its result
\* comes, if no process died while its batch was read.
ReadOnceChargedOnce ==
  \A b \in Batches, r \in Requests :
    charges[b][r] > 1 => \E q \in Requests \cup {NoRequest} : <<b, q>> \in torn

\* What the program has once read the answer of is not sent again, by batch or
\* on its own, if no process died while a batch was read.
ReadIsUsed ==
  [][\A r \in Requests :
       tries'[r] > tries[r] \/ normal'[r] > normal[r] => r \notin seen \/ torn # {}]_vars

\* When no run has died, a hold still open after one is that of a request
\* waiting for a batch that has it on file, or of a batch that was not begun
\* because the create of one before it failed: _create_failed settles what its
\* own batch holds, and the run raises with the rest reserved and on no row.
HoldsOwned ==
  pc = "idle" /\ crashes = 0 =>
    \A b \in Batches : \A r \in holds[b] :
      \/ in[r] = b /\ row[r] = "held"
      \/ batch[b] = "none" /\ \E c \in Batches : c < b /\ batch[c] \in {"not_sent", "unconfirmed"}

=============================================================================
