----------------------------- MODULE AiTaskQueue -----------------------------
(***************************************************************************)
(* The queue of AI tasks and the batches that run it (ai_task_runner.py),  *)
(* under the heavy-job lock.                                               *)
(*                                                                         *)
(* A batch is a job that tries the lock once, and runs the queued tasks    *)
(* one at a time while nobody needs the machine.  A step is one statement  *)
(* or transaction on the queue, one look at the machine, or one task.      *)
(***************************************************************************)
EXTENDS HeavyLock

CONSTANTS
  Batches,
  Tasks         \* numbered in the order they are queued

ASSUME QueueAssumption == Batches \subseteq Jobs \ Waiting /\ Tasks \subseteq Nat \ {0}

VARIABLES
  state,        \* ai_task_queue.state of a task
  at, task,     \* a batch's place while it holds the lock, the task it is at
  ends,         \* history: how often a task's result was recorded
  stood         \* history: the jobs that stood waiting at a batch's last claim

queueVars == <<state, at, task, ends, stood>>
vars == <<lockVars, queueVars>>

NoTask == 0

QueueInit ==
  /\ Init
  /\ state = [t \in Tasks |-> "absent"] /\ ends = [t \in Tasks |-> 0]
  /\ at = [b \in Batches |-> "recover"] /\ task = [b \in Batches |-> NoTask]
  /\ stood = [b \in Batches |-> {}]

Queued == {t \in Tasks : state[t] = "queued"}
Running == {t \in Tasks : state[t] = "running"}

enqueue(t) ==
  /\ state[t] = "absent"
  /\ state' = [state EXCEPT ![t] = "queued"]
  /\ UNCHANGED <<lockVars, at, task, ends, stood>>

-----------------------------------------------------------------------------
(* run_batch. *)

At(b, l) == pc[b] = "hold" /\ b \notin dead /\ at[b] = l
On(b, l) == at' = [at EXCEPT ![b] = l]

\* A batch that is over leaves nothing.
Leave(b) ==
  /\ at' = [at EXCEPT ![b] = "recover"]
  /\ task' = [task EXCEPT ![b] = NoTask]
  /\ stood' = [stood EXCEPT ![b] = {}]

\* mutant: a task that has its result is stale as well
StaleRunning_All == {t \in Tasks : state[t] # "absent"}

\* The tasks that may be running for over 15 minutes.
StaleRunning == Running

\* _recover_stale: tasks of a batch that is gone are queued again.
Recover(b) ==
  /\ At(b, "recover")
  /\ \E stale \in SUBSET StaleRunning :
       state' = [t \in Tasks |-> IF t \in stale THEN "queued" ELSE state[t]]
  /\ On(b, "pause")
  /\ UNCHANGED <<lockVars, task, ends, stood>>

\* mutant: nobody is seen waiting
Standing_Nobody == {}

\* The jobs that stand waiting, for all to see.
Standing == {k \in Jobs \ dead : marker[k] = "there"}

\* pause_reason, or the limit: the batch ends while an answer is being produced,
\* heavy work runs or memory is short, ...
Pause(b) ==
  /\ At(b, "pause")
  /\ Finish(b) /\ Leave(b)
  /\ UNCHANGED <<state, ends>>

\* ... and when a job waits for the machine; else it goes on.
LookForWaiters(b) ==
  /\ At(b, "pause")
  /\ \E swept \in SUBSET Jobs : Sweep(swept)
  /\ IF Standing = {} THEN On(b, "select") /\ UNCHANGED <<pc, task, stood>>
                      ELSE Goto(b, "release") /\ Leave(b)
  /\ UNCHANGED <<state, ends>>

\* _claim_next: the first queued task is read, if there is one, ...
Select(b) ==
  /\ At(b, "select")
  /\ IF Queued = {}
       THEN Finish(b) /\ Leave(b)
       ELSE /\ \E t \in Queued : /\ \A u \in Queued : t <= u
                                 /\ task' = [task EXCEPT ![b] = t]
            /\ On(b, "claim")
            /\ UNCHANGED <<lockVars, stood>>
  /\ UNCHANGED <<state, ends>>

\* ... and claimed, whatever has become of it.
Claim(b) ==
  /\ At(b, "claim")
  /\ state' = [state EXCEPT ![task[b]] = "running"]
  /\ stood' = [stood EXCEPT ![b] = {k \in Jobs \ dead : marker[k] = "there"}]
  /\ On(b, "run")
  /\ UNCHANGED <<lockVars, task, ends>>

\* run_task and _finish: the task's result is recorded, good or not, ...
RunTask(b) ==
  /\ At(b, "run")
  /\ state' = [state EXCEPT ![task[b]] = "done"]
  /\ ends' = [ends EXCEPT ![task[b]] = IF @ < 2 THEN @ + 1 ELSE @]
  /\ task' = [task EXCEPT ![b] = NoTask]
  /\ On(b, "pause")
  /\ UNCHANGED <<lockVars, stood>>

\* ... or a step raises and the batch ends.
Raise(b) ==
  /\ pc[b] = "hold"
  /\ Finish(b) /\ Leave(b)
  /\ UNCHANGED <<state, ends>>

QueueNext ==
  \/ \E j \in Jobs : Step(j) /\ UNCHANGED queueVars
  \/ \E j \in Jobs \ Batches : Finish(j) /\ UNCHANGED queueVars
  \/ \E t \in Tasks : enqueue(t)
  \/ \E b \in Batches : \/ Recover(b) \/ Pause(b) \/ LookForWaiters(b) \/ Select(b)
                        \/ Claim(b) \/ RunTask(b) \/ Raise(b)

QueueSpec == QueueInit /\ [][QueueNext]_vars

-----------------------------------------------------------------------------
QueueTypeOK ==
  /\ TypeOK
  /\ state \in [Tasks -> {"absent", "queued", "running", "done"}] /\ ends \in [Tasks -> 0..2]
  /\ at \in [Batches -> {"recover", "pause", "select", "claim", "run"}]
  /\ task \in [Batches -> Tasks \cup {NoTask}]
  /\ stood \in [Batches -> SUBSET Jobs]

\* run_batch: a task's result is recorded once, wherever batches stop or die,
\* unless a batch has outlived the lock or lost it to a racing removal.
ReadOnce ==
  Batches \cap (outlived \cup raced) = {} => \A t \in Tasks : ends[t] <= 1

\* heavy_lock, "steps aside": a batch claims at most one task after a job has
\* put up its marker.
StepsAside ==
  [][\A b \in Batches :
       at[b] = "claim" /\ at'[b] = "run" => \A k \in stood[b] \ dead : marker[k] # "there"]_vars

=============================================================================
