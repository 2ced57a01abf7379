----------------------------- MODULE ReviewJobs -----------------------------
(***************************************************************************)
(* The review queue of backend/app (review_jobs.py, review_recovery.py,    *)
(* worker_review.py): a review is a row of review_runs and a row of jobs,  *)
(* made together and kept in step by the worker thread that runs the       *)
(* review, the requests that cancel it, and the recovery after a crash.    *)
(*                                                                         *)
(* One server process, whose worker thread and request threads interleave; *)
(* a step is one database transaction.  Review r stands for its run and    *)
(* its job.  Of the findings only whether the undecided ones are there is  *)
(* kept; of the work of a step, that it may raise.                         *)
(***************************************************************************)
EXTENDS Integers, FiniteSets, JobStates

CONSTANTS
  Submittals, NoSubmittal,
  MaxReviews,    \* bound on reviews
  MaxRetries,    \* settings.job_max_retries
  MaxRunning,    \* settings.job_max_running
  FinishRaises,  \* may the work after the outcome is stored raise?
  MaxFaults      \* bound on crashes and on writes that raise

ASSUME ReviewAssumption ==
  /\ MaxReviews \in Nat /\ MaxRetries \in Nat /\ MaxFaults \in Nat
  /\ MaxRunning \in Nat \ {0}
  /\ FinishRaises \in BOOLEAN
  /\ NoSubmittal \notin Submittals

Reviews == 1..MaxReviews

VARIABLES
  submittal,      \* review_runs.submittal_document_id
  run,            \* review_runs.status
  findings,       \* has the run undecided findings?
  job, retries,   \* jobs.state, jobs.retries
  asked,          \* jobs.cancel_requested
  claim,          \* jobs.claimed_by and claimed_at: of this process and fresh,
                  \* of a dead one and fresh, or stale
  pc, at,         \* the worker thread, and the review it runs
  cancelling,     \* requests between their two transactions: <<review, next>>
  up, faults

runVars    == <<submittal, run, findings>>
jobVars    == <<job, retries, asked, claim>>
threadVars == <<pc, at, cancelling, up, faults>>
vars       == <<runVars, jobVars, threadVars>>

ACTIVE_RUN == {"queued", "running"}
ActiveJob  == {JOB_QUEUED, JOB_RUNNING, JOB_RETRYING}
EndedJob   == {JOB_DONE, JOB_POISONED, JOB_CANCELLED}

\* The three steps of a review, each behind a look at cancel_requested, and
\* the transactions after them.
STEPS == {"read", "select", "compare"}
Next_Step == [read |-> "select", select |-> "compare", compare |-> "write"]

Init ==
  /\ submittal = [r \in Reviews |-> NoSubmittal]
  /\ run = [r \in Reviews |-> "none"]
  /\ findings = [r \in Reviews |-> FALSE]
  /\ job = [r \in Reviews |-> "none"]
  /\ retries = [r \in Reviews |-> 0]
  /\ asked = [r \in Reviews |-> FALSE]
  /\ claim = [r \in Reviews |-> "none"]
  /\ pc = "idle" /\ at = 0
  /\ cancelling = {}
  /\ up = TRUE /\ faults = 0

-----------------------------------------------------------------------------
(* Requests. *)

\* mutant: the look for an active review is not part of the insert
Busy_Unlocked(s) == \E r \in Reviews : submittal[r] = s /\ run[r] = "running"

\* Under the write lock: is a review of s queued or running?
Busy(s) == \E r \in Reviews : submittal[r] = s /\ run[r] \in ACTIVE_RUN

enqueue(s, r) ==
  /\ up /\ job[r] = "none"
  /\ \A q \in Reviews : q < r => job[q] # "none"
  /\ ~Busy(s)
  /\ submittal' = [submittal EXCEPT ![r] = s]
  /\ run' = [run EXCEPT ![r] = "queued"]
  /\ job' = [job EXCEPT ![r] = JOB_QUEUED]
  /\ UNCHANGED <<findings, retries, asked, claim, threadVars>>

\* mutant: a person may withdraw any job that has not ended
CancelJob_Any(r) ==
  /\ up /\ job[r] \in ActiveJob
  /\ job' = [job EXCEPT ![r] = JOB_CANCELLED]
  /\ cancelling' = cancelling \cup {<<r, "run">>}
  /\ UNCHANGED <<runVars, retries, asked, claim, pc, at, up, faults>>

\* job_queue.cancel, the first transaction of a cancel: a job that waits is
\* cancelled now, a running one is only looked at.
CancelJob(r) ==
  /\ up
  /\ \/ /\ job[r] \in CANCELLABLE
        /\ job' = [job EXCEPT ![r] = JOB_CANCELLED]
        /\ cancelling' = cancelling \cup {<<r, "run">>}
     \/ /\ job[r] = JOB_RUNNING
        /\ cancelling' = cancelling \cup {<<r, "ask">>}
        /\ UNCHANGED job
  /\ UNCHANGED <<runVars, retries, asked, claim, pc, at, up, faults>>

\* The second one: the run of a cancelled job, or the request to stop.
CancelRun(r) ==
  /\ <<r, "run">> \in cancelling
  /\ cancelling' = cancelling \ {<<r, "run">>}
  /\ run' = [run EXCEPT ![r] = "cancelled"]
  /\ UNCHANGED <<submittal, findings, jobVars, pc, at, up, faults>>

CancelAsk(r) ==
  /\ <<r, "ask">> \in cancelling
  /\ cancelling' = cancelling \ {<<r, "ask">>}
  /\ asked' = [asked EXCEPT ![r] = TRUE]
  /\ UNCHANGED <<runVars, job, retries, claim, pc, at, up, faults>>

-----------------------------------------------------------------------------
(* The worker thread. *)

Live == {r \in Reviews : job[r] = JOB_RUNNING /\ claim[r] \in {"mine", "foreign"}}

\* The oldest queued job, or one whose retry is due before it.
claim_next(r) ==
  /\ up /\ pc = "idle"
  /\ job[r] \in {JOB_QUEUED, JOB_RETRYING}
  /\ \A q \in Reviews : q < r => job[q] # JOB_QUEUED
  /\ Cardinality(Live) < MaxRunning
  /\ job' = [job EXCEPT ![r] = JOB_RUNNING]
  /\ claim' = [claim EXCEPT ![r] = "mine"]
  /\ run' = [run EXCEPT ![r] = "running"]
  /\ pc' = "read" /\ at' = r
  /\ UNCHANGED <<submittal, findings, retries, asked, cancelling, up, faults>>

\* mutant: progress is recorded, the request to stop is not looked at
Step_Deaf ==
  /\ pc \in STEPS
  /\ claim' = [claim EXCEPT ![at] = "mine"]
  /\ pc' = Next_Step[pc]
  /\ UNCHANGED <<runVars, job, retries, asked, at, cancelling, up, faults>>

\* _step: the next step begins, and the claim is fresh again.
Step ==
  /\ pc \in STEPS /\ ~asked[at]
  /\ claim' = [claim EXCEPT ![at] = "mine"]
  /\ pc' = Next_Step[pc]
  /\ UNCHANGED <<runVars, job, retries, asked, at, cancelling, up, faults>>

Idle == pc' = "idle" /\ at' = 0

\* _step meets a cancel: the review ends, its findings with it.
Stop ==
  /\ pc \in STEPS /\ asked[at]
  /\ findings' = [findings EXCEPT ![at] = FALSE]
  /\ run' = [run EXCEPT ![at] = "cancelled"]
  /\ job' = [job EXCEPT ![at] = JOB_CANCELLED]
  /\ Idle
  /\ UNCHANGED <<submittal, retries, asked, claim, cancelling, up, faults>>

\* run_comparison: the findings in one transaction, replacing those of an
\* earlier attempt, ...
WriteFindings ==
  /\ pc = "write"
  /\ findings' = [findings EXCEPT ![at] = TRUE]
  /\ pc' = "outcome"
  /\ UNCHANGED <<submittal, run, jobVars, at, cancelling, up, faults>>

\* ... the outcome in another.  The AI checks, numbers and wording follow.
StoreOutcome ==
  /\ pc = "outcome"
  /\ run' = [run EXCEPT ![at] = "completed"]
  /\ pc' = "finish"
  /\ UNCHANGED <<submittal, findings, jobVars, at, cancelling, up, faults>>

Done ==
  /\ pc = "finish"
  /\ job' = [job EXCEPT ![at] = JOB_DONE]
  /\ Idle
  /\ UNCHANGED <<runVars, retries, asked, claim, cancelling, up, faults>>

\* A step raises: another attempt later, or the end.
Fail ==
  LET state == StateAfterFailure(retries[at], MaxRetries) IN
  /\ pc # "idle" /\ (pc = "finish" => FinishRaises)
  /\ job' = [job EXCEPT ![at] = state]
  /\ retries' = [retries EXCEPT ![at] = RetriesAfterFailure(@, MaxRetries)]
  /\ run' = [run EXCEPT ![at] = IF state = JOB_POISONED THEN "failed" ELSE "queued"]
  /\ Idle
  /\ UNCHANGED <<submittal, findings, asked, claim, cancelling, up, faults>>

\* mutant: the run does not end with its job
FileAbsent_JobOnly ==
  /\ pc = "select"
  /\ job' = [job EXCEPT ![at] = JOB_POISONED]
  /\ Idle
  /\ UNCHANGED <<runVars, retries, asked, claim, cancelling, up, faults>>

\* nothing_read.fail_run: the stored file is gone, a retry cannot help.
FileAbsent ==
  /\ pc = "select"
  /\ job' = [job EXCEPT ![at] = JOB_POISONED]
  /\ run' = [run EXCEPT ![at] = "failed"]
  /\ Idle
  /\ UNCHANGED <<submittal, findings, retries, asked, claim, cancelling, up, faults>>

\* The write that ends an attempt raises itself: the drain loop logs it and
\* goes on, and the job stays running.
WriteRaises ==
  /\ pc # "idle" /\ faults < MaxFaults
  /\ faults' = faults + 1
  /\ Idle
  /\ UNCHANGED <<runVars, jobVars, cancelling, up>>

-----------------------------------------------------------------------------
(* Recovery. *)

\* mutant: the sweep finds nothing
Dead_Never(r, atStartup) == FALSE

\* mutant: the sweep looks at the claim, not at the state
Dead_AnyState(r, atStartup) == claim[r] = "stale" \/ (atStartup /\ claim[r] = "foreign")

\* A running job nothing runs: its claim is stale or, as the server starts, of
\* another process.
Dead(r, atStartup) ==
  /\ job[r] = JOB_RUNNING
  /\ claim[r] = "stale" \/ (atStartup /\ claim[r] # "mine")

\* mutant: the findings and the run of a job cancelled here are forgotten
Recovered_JobOnly(atStartup, runs) ==
  LET dead == {r \in Reviews : Dead(r, atStartup)} IN
  /\ job' = [r \in Reviews |-> IF r \notin dead THEN job[r]
                               ELSE IF asked[r] THEN JOB_CANCELLED ELSE JOB_QUEUED]
  /\ claim' = [r \in Reviews |-> IF r \in dead THEN "none" ELSE claim[r]]
  /\ run' = runs
  /\ UNCHANGED findings

\* Every dead job goes back to the queue with its run, or, where a cancel was
\* asked for, ends cancelled with its run and its findings.
Recovered(atStartup, runs) ==
  LET dead == {r \in Reviews : Dead(r, atStartup)}
      ends == {r \in dead : asked[r]} IN
  /\ job' = [r \in Reviews |-> IF r \in ends THEN JOB_CANCELLED
                               ELSE IF r \in dead THEN JOB_QUEUED ELSE job[r]]
  /\ claim' = [r \in Reviews |-> IF r \in dead THEN "none" ELSE claim[r]]
  /\ run' = [r \in Reviews |-> IF r \in ends THEN "cancelled"
                               ELSE IF r \in dead THEN "queued" ELSE runs[r]]
  /\ findings' = [r \in Reviews |-> findings[r] /\ r \notin ends]

\* The sweep of the drain loop, before every claim.
RecoverStale ==
  /\ up /\ pc = "idle"
  /\ \E r \in Reviews : Dead(r, FALSE)
  /\ Recovered(FALSE, run)
  /\ UNCHANGED <<submittal, retries, asked, threadVars>>

\* The server starts: runs nothing carries are failed, then the sweep.
Start ==
  /\ ~up /\ up' = TRUE
  /\ Recovered(TRUE, [r \in Reviews |->
       IF run[r] = "running" /\ job[r] \notin ActiveJob THEN "failed" ELSE run[r]])
  /\ UNCHANGED <<submittal, retries, asked, pc, at, cancelling, faults>>

\* The process dies, its threads with it.
Crash ==
  /\ up /\ faults < MaxFaults
  /\ up' = FALSE /\ faults' = faults + 1
  /\ claim' = [r \in Reviews |-> IF claim[r] = "mine" THEN "foreign" ELSE claim[r]]
  /\ cancelling' = {}
  /\ Idle
  /\ UNCHANGED <<runVars, job, retries, asked>>

\* A claim is not refreshed for CLAIM_STALE_SECONDS.
Age(r) ==
  /\ job[r] = JOB_RUNNING /\ claim[r] # "stale"
  /\ claim' = [claim EXCEPT ![r] = "stale"]
  /\ UNCHANGED <<runVars, job, retries, asked, threadVars>>

-----------------------------------------------------------------------------
Next ==
  \/ \E s \in Submittals, r \in Reviews : enqueue(s, r)
  \/ \E r \in Reviews : CancelJob(r) \/ CancelRun(r) \/ CancelAsk(r)
  \/ \E r \in Reviews : claim_next(r) \/ Age(r)
  \/ Step \/ Stop \/ WriteFindings \/ StoreOutcome \/ Done
  \/ Fail \/ FileAbsent \/ WriteRaises
  \/ RecoverStale \/ Start \/ Crash

\* The worker thread runs, requests under way are carried on, a claim nobody
\* refreshes ages, and a dead server is started again.  Nothing makes a person
\* ask for a review or for its end.
Fairness ==
  /\ WF_vars(\E r \in Reviews : claim_next(r))
  /\ WF_vars(Step \/ Stop \/ WriteFindings \/ StoreOutcome \/ Done)
  /\ WF_vars(RecoverStale) /\ WF_vars(Start)
  /\ \A r \in Reviews : WF_vars(CancelRun(r)) /\ WF_vars(CancelAsk(r)) /\ WF_vars(Age(r))

Spec     == Init /\ [][Next]_vars
FairSpec == Spec /\ Fairness

TypeOK ==
  /\ submittal \in [Reviews -> Submittals \cup {NoSubmittal}]
  /\ run \in [Reviews -> {"none", "queued", "running", "completed", "failed", "cancelled"}]
  /\ findings \in [Reviews -> BOOLEAN]
  /\ job \in [Reviews -> ActiveJob \cup EndedJob \cup {"none"}]
  /\ retries \in [Reviews -> 0..MaxRetries]
  /\ asked \in [Reviews -> BOOLEAN]
  /\ claim \in [Reviews -> {"none", "mine", "foreign", "stale"}]
  /\ pc \in STEPS \cup {"idle", "write", "outcome", "finish"}
  /\ at \in Reviews \cup {0}
  /\ pc # "idle" => up /\ at \in Reviews
  /\ cancelling \subseteq Reviews \X {"run", "ask"}
  /\ up \in BOOLEAN /\ faults \in 0..MaxFaults

-----------------------------------------------------------------------------
(* Correctness. *)

\* The run says what became of the job, wherever the server died: finished
\* means a stored outcome with its findings, poisoned means failed, waiting
\* means queued, running means running, or completed while it is finishing.
EndsAgree ==
  \A r \in Reviews :
    /\ job[r] = JOB_DONE => run[r] = "completed" /\ findings[r]
    /\ job[r] = JOB_POISONED => run[r] = "failed"
    /\ job[r] \in {JOB_QUEUED, JOB_RETRYING} => run[r] = "queued"
    /\ job[r] = JOB_RUNNING => run[r] \in {"running", "completed"}

\* A review the worker runs is one the database says is running: no request and
\* no recovery takes it away, and a review that has ended is not begun again.
RunnerHoldsJob == pc # "idle" => job[at] = JOB_RUNNING
EndedForGood ==
  [][\A r \in Reviews : job[r] \in EndedJob => job'[r] = job[r]]_vars

\* Every review comes to an end, through failures, retries and crashes.
ReviewEnds == \A r \in Reviews : job[r] = JOB_QUEUED ~> job[r] \in EndedJob

\* A cancel asked for before the comparison writes ends the review cancelled
\* or failed, never done.
CancelIsHonoured ==
  \A r \in Reviews :
    (asked[r] /\ job[r] \in ActiveJob /\ ~(at = r /\ pc \in {"write", "outcome", "finish"}))
      ~> job[r] \in {JOB_CANCELLED, JOB_POISONED}

\* There is never a run that waits or runs without its job: a cancel between
\* its two transactions apart, or one the death of the server left there.
ActiveHasJob ==
  \A r \in Reviews :
    run[r] \in ACTIVE_RUN =>
      \/ job[r] \in ActiveJob
      \/ /\ job[r] = JOB_CANCELLED /\ run[r] = "queued"
         /\ <<r, "run">> \in cancelling \/ faults > 0

\* Two reviews of one submittal are active only when one of them is being made
\* again after its comparison was stored: whatever raises or dies, two reviews
\* never work on a first comparison of the same submittal.
OneFirstReview ==
  \A q, r \in Reviews :
    run[q] \in ACTIVE_RUN /\ run[r] \in ACTIVE_RUN /\ submittal[q] = submittal[r]
      => q = r \/ findings[q] \/ findings[r]

=============================================================================
