------------------------------ MODULE JobStates ------------------------------
(* The vocabulary of backend/app/job_queue.py shared by every queue: the
   states of a row of `jobs`, what a failed attempt does to it, and which
   states a person may still cancel.  Pure definitions, no state.           *)
EXTENDS Naturals

JOB_QUEUED    == "queued"
JOB_RUNNING   == "running"
JOB_DONE      == "done"
JOB_RETRYING  == "retrying"
JOB_POISONED  == "poisoned"
JOB_CANCELLED == "cancelled"
\* Written by the extraction of a document whose stored file is missing, and
\* by builds older than the retry rule: never reinterpreted as retryable.
JOB_FAILED    == "failed"

JOB_STATES ==
  {JOB_QUEUED, JOB_RUNNING, JOB_DONE, JOB_RETRYING, JOB_POISONED,
   JOB_CANCELLED, JOB_FAILED}

CANCELLABLE == {JOB_QUEUED, JOB_RETRYING}

\* job_queue.fail: another attempt while retries are left, poison after that.
\* The row's present state is not consulted.
StateAfterFailure(retries, maxRetries) ==
  IF retries < maxRetries THEN JOB_RETRYING ELSE JOB_POISONED

RetriesAfterFailure(retries, maxRetries) ==
  IF retries < maxRetries THEN retries + 1 ELSE retries
=============================================================================
