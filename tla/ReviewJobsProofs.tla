-------------------------- MODULE ReviewJobsProofs --------------------------
(* The run of a review always says what became of its job, and an ended job
   stays ended: proved for any number of reviews, submittals, retries and
   crashes.                                                                 *)
EXTENDS ReviewJobs, TLAPS

\* Where the worker is says what it has written, and a cancel between its two
\* transactions is of a job that is cancelled already.
Progress ==
  /\ pc \in {"outcome", "finish"} => findings[at]
  /\ pc = "finish" => run[at] = "completed"
  /\ \A r \in Reviews : <<r, "run">> \in cancelling => job[r] = JOB_CANCELLED

IInv == TypeOK /\ RunnerHoldsJob /\ EndsAgree /\ Progress

LEMMA Initially == Init => IInv
BY ReviewAssumption
   DEF Init, IInv, TypeOK, RunnerHoldsJob, EndsAgree, Progress, STEPS, Reviews,
       JOB_DONE, JOB_POISONED, JOB_QUEUED, JOB_RETRYING, JOB_RUNNING, JOB_CANCELLED

LEMMA FailureStates ==
  \A n \in 0..MaxRetries :
    /\ StateAfterFailure(n, MaxRetries) \in {JOB_RETRYING, JOB_POISONED}
    /\ RetriesAfterFailure(n, MaxRetries) \in 0..MaxRetries
BY ReviewAssumption DEF StateAfterFailure, RetriesAfterFailure

LEMMA TypesKept == IInv /\ [Next]_vars => TypeOK'
<1> SUFFICES ASSUME IInv, [Next]_vars PROVE TypeOK'
  OBVIOUS
<1> USE ReviewAssumption
    DEF IInv, TypeOK, runVars, jobVars, threadVars, ActiveJob, EndedJob, STEPS, Idle,
        JOB_DONE, JOB_POISONED, JOB_QUEUED, JOB_RETRYING, JOB_RUNNING, JOB_CANCELLED
<1>1. ASSUME NEW s \in Submittals, NEW r \in Reviews, enqueue(s, r) PROVE TypeOK'
  BY <1>1 DEF enqueue
<1>2. ASSUME NEW r \in Reviews, CancelJob(r) PROVE TypeOK'
  BY <1>2 DEF CancelJob
<1>3. ASSUME NEW r \in Reviews, CancelRun(r) PROVE TypeOK'
  BY <1>3 DEF CancelRun
<1>4. ASSUME NEW r \in Reviews, CancelAsk(r) PROVE TypeOK'
  BY <1>4 DEF CancelAsk
<1>5. ASSUME NEW r \in Reviews, claim_next(r) PROVE TypeOK'
  BY <1>5 DEF claim_next
<1>6. ASSUME NEW r \in Reviews, Age(r) PROVE TypeOK'
  BY <1>6 DEF Age
<1>7. CASE Step
  BY <1>7 DEF Step, Next_Step
<1>8. CASE Stop
  BY <1>8 DEF Stop
<1>9. CASE WriteFindings \/ StoreOutcome \/ Done
  BY <1>9 DEF WriteFindings, StoreOutcome, Done
<1>10. CASE Fail
  <2>1. retries[at] \in 0..MaxRetries
    BY <1>10 DEF Fail
  <2>. QED  BY <1>10, <2>1, FailureStates DEF Fail
<1>11. CASE FileAbsent \/ WriteRaises
  BY <1>11 DEF FileAbsent, WriteRaises
<1>12. CASE RecoverStale
  BY <1>12 DEF RecoverStale, Recovered
<1>13. CASE Start
  BY <1>13 DEF Start, Recovered
<1>14. CASE Crash
  <2>1. faults' \in 0..MaxFaults
    BY <1>14 DEF Crash
  <2>2. claim' \in [Reviews -> {"none", "mine", "foreign", "stale"}]
    BY <1>14 DEF Crash
  <2>. QED  BY <1>14, <2>1, <2>2 DEF Crash
<1>15. CASE UNCHANGED vars
  BY <1>15 DEF vars
<1>. QED  BY <1>1, <1>2, <1>3, <1>4, <1>5, <1>6, <1>7, <1>8, <1>9, <1>10, <1>11,
             <1>12, <1>13, <1>14, <1>15 DEF Next

\* The worker's review is taken by one claim, and only the worker, or the
\* recovery that finds it gone, ends it.
LEMMA Inductive == IInv /\ [Next]_vars => IInv'
<1> SUFFICES ASSUME IInv, [Next]_vars PROVE RunnerHoldsJob' /\ EndsAgree' /\ Progress'
  BY TypesKept DEF IInv
<1> USE ReviewAssumption
    DEF IInv, TypeOK, RunnerHoldsJob, EndsAgree, Progress, runVars, jobVars, threadVars,
        ActiveJob, EndedJob, STEPS, Idle, CANCELLABLE,
        JOB_DONE, JOB_POISONED, JOB_QUEUED, JOB_RETRYING, JOB_RUNNING, JOB_CANCELLED
<1> DEFINE Kept == RunnerHoldsJob' /\ EndsAgree' /\ Progress'
<1>1. ASSUME NEW s \in Submittals, NEW r \in Reviews, enqueue(s, r) PROVE Kept
  BY <1>1 DEF enqueue
<1>2. ASSUME NEW r \in Reviews, CancelJob(r) PROVE Kept
  BY <1>2 DEF CancelJob
<1>3. ASSUME NEW r \in Reviews, CancelRun(r) PROVE Kept
  BY <1>3 DEF CancelRun
<1>4. ASSUME NEW r \in Reviews, CancelAsk(r) PROVE Kept
  BY <1>4 DEF CancelAsk
<1>5. ASSUME NEW r \in Reviews, claim_next(r) PROVE Kept
  BY <1>5 DEF claim_next
<1>6. ASSUME NEW r \in Reviews, Age(r) PROVE Kept
  BY <1>6 DEF Age
<1>7. CASE Step
  BY <1>7 DEF Step, Next_Step
<1>8. CASE Stop
  BY <1>8 DEF Stop
<1>9. CASE WriteFindings \/ StoreOutcome \/ Done
  BY <1>9 DEF WriteFindings, StoreOutcome, Done
<1>10. CASE Fail
  <2>1. StateAfterFailure(retries[at], MaxRetries) \in {JOB_RETRYING, JOB_POISONED}
    BY <1>10, FailureStates DEF Fail
  <2>. QED  BY <1>10, <2>1 DEF Fail
<1>11. CASE FileAbsent \/ WriteRaises
  BY <1>11 DEF FileAbsent, WriteRaises
<1>12. CASE RecoverStale
  BY <1>12 DEF RecoverStale, Recovered, Dead
<1>13. CASE Start
  BY <1>13 DEF Start, Recovered, Dead
<1>14. CASE Crash
  BY <1>14 DEF Crash
<1>15. CASE UNCHANGED vars
  BY <1>15 DEF vars
<1>. QED  BY <1>1, <1>2, <1>3, <1>4, <1>5, <1>6, <1>7, <1>8, <1>9, <1>10, <1>11,
             <1>12, <1>13, <1>14, <1>15 DEF Next

LEMMA Invariant == Spec => []IInv
BY Initially, Inductive, PTL DEF Spec

\* The rows stay in the states the code names, and a worker at work is up.
THEOREM TypesHold == Spec => []TypeOK
<1>1. IInv => TypeOK
  BY DEF IInv
<1>. QED  BY <1>1, Invariant, PTL

\* review_jobs.run, review_recovery.recover, main startup: wherever the server
\* dies, the run row says what became of its job.
THEOREM RunsAndJobsAgree == Spec => []EndsAgree
<1>1. IInv => EndsAgree
  BY DEF IInv
<1>. QED  BY <1>1, Invariant, PTL

\* review_jobs.claim_next, cancel, recover: nothing takes a review from the
\* worker that runs it.
THEOREM NothingTakesTheJob == Spec => []RunnerHoldsJob
<1>1. IInv => RunnerHoldsJob
  BY DEF IInv
<1>. QED  BY <1>1, Invariant, PTL

LEMMA EndedStep ==
  IInv /\ [Next]_vars => [\A r \in Reviews : job[r] \in EndedJob => job'[r] = job[r]]_vars
<1> SUFFICES ASSUME IInv, Next, NEW r \in Reviews, job[r] \in EndedJob
             PROVE  job'[r] = job[r]
  BY DEF vars
<1> USE DEF IInv, TypeOK, RunnerHoldsJob, runVars, jobVars, threadVars, EndedJob, STEPS,
        CANCELLABLE, JOB_DONE, JOB_POISONED, JOB_QUEUED, JOB_RETRYING, JOB_RUNNING,
        JOB_CANCELLED
<1>1. CASE \E s \in Submittals, q \in Reviews : enqueue(s, q)
  BY <1>1 DEF enqueue
<1>2. CASE \E q \in Reviews : CancelJob(q) \/ CancelRun(q) \/ CancelAsk(q)
  BY <1>2 DEF CancelJob, CancelRun, CancelAsk
<1>3. CASE \E q \in Reviews : claim_next(q) \/ Age(q)
  BY <1>3 DEF claim_next, Age
<1>4. CASE Step \/ Stop \/ WriteFindings \/ StoreOutcome \/ Done
  BY <1>4 DEF Step, Stop, WriteFindings, StoreOutcome, Done
<1>5. CASE Fail \/ FileAbsent \/ WriteRaises
  BY <1>5 DEF Fail, FileAbsent, WriteRaises
<1>6. CASE RecoverStale \/ Start \/ Crash
  BY <1>6 DEF RecoverStale, Start, Crash, Recovered, Dead
<1>. QED  BY <1>1, <1>2, <1>3, <1>4, <1>5, <1>6 DEF Next

\* No request, retry or recovery begins a review again that has ended.
THEOREM EndedStaysEnded == Spec => EndedForGood
BY Invariant, EndedStep, PTL DEF Spec, EndedForGood

-----------------------------------------------------------------------------
(* Active reviews. *)

\* A run only becomes active again after its comparison was stored.
Stored == \A r \in Reviews : run[r] = "completed" => findings[r]

ActiveInv == ActiveHasJob /\ Stored /\ OneFirstReview

LEMMA ActiveStep == IInv /\ ActiveInv /\ [Next]_vars => ActiveInv'
<1> SUFFICES ASSUME IInv, ActiveInv, [Next]_vars PROVE ActiveInv'
  OBVIOUS
<1> USE ReviewAssumption
    DEF ActiveInv, ActiveHasJob, Stored, OneFirstReview, ACTIVE_RUN, Progress, EndsAgree,
        RunnerHoldsJob, IInv, TypeOK, runVars, jobVars, threadVars, ActiveJob, EndedJob,
        STEPS, Idle, CANCELLABLE, JOB_DONE, JOB_POISONED, JOB_QUEUED, JOB_RETRYING,
        JOB_RUNNING, JOB_CANCELLED
<1>1. ASSUME NEW s \in Submittals, NEW r \in Reviews, enqueue(s, r) PROVE ActiveInv'
  BY <1>1 DEF enqueue, Busy
<1>2. ASSUME NEW r \in Reviews, CancelJob(r) PROVE ActiveInv'
  BY <1>2 DEF CancelJob
<1>3. ASSUME NEW r \in Reviews, CancelRun(r) \/ CancelAsk(r) PROVE ActiveInv'
  BY <1>3 DEF CancelRun, CancelAsk
<1>4. ASSUME NEW r \in Reviews, claim_next(r) \/ Age(r) PROVE ActiveInv'
  BY <1>4 DEF claim_next, Age
<1>5. CASE Step \/ Stop \/ WriteFindings \/ StoreOutcome \/ Done
  BY <1>5 DEF Step, Stop, WriteFindings, StoreOutcome, Done
<1>6. CASE Fail
  <2>1. StateAfterFailure(retries[at], MaxRetries) \in {JOB_RETRYING, JOB_POISONED}
    BY <1>6, FailureStates DEF Fail
  <2>. QED  BY <1>6, <2>1 DEF Fail
<1>7. CASE FileAbsent \/ WriteRaises
  BY <1>7 DEF FileAbsent, WriteRaises
<1>8. CASE RecoverStale
  BY <1>8 DEF RecoverStale, Recovered, Dead
<1>9. CASE Start
  BY <1>9 DEF Start, Recovered, Dead
<1>10. CASE Crash
  <2>1. faults' > 0 /\ UNCHANGED <<job, run, findings>>
    BY <1>10 DEF Crash
  <2>2. ActiveHasJob'
    BY <2>1
  <2>3. Stored' /\ OneFirstReview'
    BY <1>10, <2>1 DEF Crash
  <2>. QED  BY <2>2, <2>3
<1>11. CASE UNCHANGED vars
  BY <1>11 DEF vars
<1>. QED  BY <1>1, <1>2, <1>3, <1>4, <1>5, <1>6, <1>7, <1>8, <1>9, <1>10, <1>11 DEF Next

LEMMA ActiveAlways == Spec => []ActiveInv
<1>1. Init => ActiveInv
  BY DEF Init, ActiveInv, ActiveHasJob, Stored, OneFirstReview, ACTIVE_RUN
<1>. QED  BY <1>1, Invariant, ActiveStep, PTL DEF Spec

\* review_jobs.enqueue, cancel, review_recovery: a run that waits or runs is
\* carried by a job, a cancel cut in two apart.
THEOREM ActiveIsCarried == Spec => []ActiveHasJob
<1>1. ActiveInv => ActiveHasJob
  BY DEF ActiveInv
<1>. QED  BY <1>1, ActiveAlways, PTL

\* review_jobs.enqueue: two reviews never make a first comparison of one
\* submittal at once.
THEOREM NoSecondFirstReview == Spec => []OneFirstReview
<1>1. ActiveInv => OneFirstReview
  BY DEF ActiveInv
<1>. QED  BY <1>1, ActiveAlways, PTL

=============================================================================
