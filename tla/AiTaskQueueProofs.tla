-------------------------- MODULE AiTaskQueueProofs --------------------------
(***************************************************************************)
(* Proofs about the heavy-job lock and the queue of AI tasks, for any jobs *)
(* and tasks, any number of deaths and of records grown too old.           *)
(*                                                                         *)
(* The lock: a job that owns it, from the creation of the file to its      *)
(* release, and has neither outlived its record nor been raced, is the one *)
(* the file names.  So there is only one such job.  The queue does with    *)
(* the lock only what the lock allows, and inherits this.                  *)
(***************************************************************************)
EXTENDS AiTaskQueue, TLAPS

\* The jobs whose hold on the lock nothing has taken away.
Sound == Jobs \ (dead \cup outlived \cup raced)

Owning == {"write", "got", "hold", "release", "unlink"}

\* The file names its owner, and has its record once that is written.
FileOfOwner ==
  \A j \in Sound : pc[j] \in Owning => /\ file.by = j
                                       /\ pc[j] # "write" => file.written

LockInv == TypeOK /\ FileOfOwner

LEMMA ReadType == TypeOK => read \in Jobs \cup {NoJob}
  BY DEF TypeOK, Files, NoFile, read

\* The lock's state keeps its types.
LEMMA TypeStep ==
  ASSUME TypeOK, [Next]_lockVars
  PROVE  TypeOK'
<1> USE LockAssumption DEF TypeOK
<1>1. ASSUME NEW j \in Jobs, Step(j)  PROVE TypeOK'
  <2>1. CASE Start(j)
    BY <2>1 DEF Start, Goto, Places
  <2>2. CASE Create(j)
    <3>1. [by |-> j, written |-> FALSE] \in Files
      BY DEF Files
    <3>2. CASE file = NoFile
      BY <2>2, <3>1, <3>2 DEF Create, Goto, Places
    <3>3. CASE file # NoFile
      BY <2>2, <3>3 DEF Create, Goto, Places
    <3> QED  BY <3>2, <3>3
  <2>3. CASE Write(j)
    BY <2>3 DEF Write, Goto, Places, Files, File
  <2>4. CASE Got(j)
    BY <2>4 DEF Got, Goto, Places
  <2>5. CASE Read(j)
    BY <2>5, ReadType DEF Read, Goto, Places
  <2>6. CASE Remove(j)
    <3>1. Missed(j) => pc' \in [Jobs -> Places]
      BY DEF Missed, Goto, Places
    <3>2. Goto(j, "create") => pc' \in [Jobs -> Places]
      BY DEF Goto, Places
    <3>3. pc' \in [Jobs -> Places]
      BY <2>6, <3>1, <3>2 DEF Remove
    <3>4. file' \in Files
      BY <2>6 DEF Remove, Files
    <3>5. file # NoFile => file.by \in Jobs
      BY DEF Files
    <3>6. raced' \subseteq Jobs
      BY <2>6, <3>5 DEF Remove, Raced
    <3>7. tries' \in [Jobs -> 0..2]
      <4>1. tries[j] \in 0..2 /\ tries[j] > 0
        BY <2>6 DEF Remove
      <4> QED  BY <2>6, <4>1 DEF Remove
    <3>8. ASSUME NEW k \in Jobs, pc'[k] \in {"create", "read", "remove"}  PROVE tries'[k] > 0
      <4>1. CASE k # j
        BY <2>6, <3>8, <4>1 DEF Remove, Missed, Goto
      <4>2. CASE k = j
        <5>1. Missed(j) => pc'[j] \notin {"create", "read", "remove"}
          BY DEF Missed, Goto
        <5> QED  BY <2>6, <3>8, <4>2, <5>1 DEF Remove
      <4> QED  BY <4>1, <4>2
    <3> QED  BY <2>6, <3>3, <3>4, <3>6, <3>7, <3>8 DEF Remove
  <2>7. CASE Mark(j)
    BY <2>7 DEF Mark, Goto, Places
  <2>8. CASE MarkWritten(j)
    BY <2>8 DEF MarkWritten, Goto, Places
  <2>9. CASE Poll(j)
    BY <2>9 DEF Poll, Goto, Places
  <2>10. CASE GiveUp(j)
    BY <2>10 DEF GiveUp, Goto, Places
  <2>11. CASE Release(j)
    BY <2>11 DEF Release, Goto, Places
  <2>12. CASE Unlink(j)
    BY <2>12 DEF Unlink, Goto, Places, Raced, Files
  <2>13. CASE Die(j)
    BY <2>13 DEF Die
  <2>14. CASE Outlive(j)
    BY <2>14 DEF Outlive
  <2> QED
    BY <1>1, <2>1, <2>2, <2>3, <2>4, <2>5, <2>6, <2>7, <2>8, <2>9, <2>10, <2>11, <2>12, <2>13,
       <2>14 DEF Step
<1>2. ASSUME NEW j \in Jobs, Finish(j)  PROVE TypeOK'
  BY <1>2 DEF Finish, Goto, Places
<1>3. ASSUME NEW swept \in SUBSET Jobs, Look(swept)  PROVE TypeOK'
  BY <1>3 DEF Look, Sweep, Goto, Places
<1>4. CASE UNCHANGED lockVars
  BY <1>4 DEF lockVars
<1> QED
  BY <1>1, <1>2, <1>3, <1>4 DEF Next

LEMMA OwnerStep ==
  ASSUME LockInv, [Next]_lockVars
  PROVE  FileOfOwner'
<1> USE LockAssumption
<1>1. ASSUME NEW j \in Jobs, Step(j)  PROVE FileOfOwner'
  <2> USE DEF LockInv, FileOfOwner, Sound, Owning, TypeOK, Goto
  <2>1. CASE Start(j)
    BY <2>1 DEF Start
  <2>2. CASE Create(j)
    <3>1. CASE file = NoFile
      <4>1. \A k \in Sound : pc[k] \notin Owning
        BY <3>1 DEF NoFile
      <4> QED  BY <2>2, <3>1, <4>1 DEF Create
    <3>2. CASE file # NoFile
      BY <2>2, <3>2 DEF Create
    <3> QED  BY <3>1, <3>2
  <2>3. CASE Write(j)
    BY <2>3 DEF Write, File
  <2>4. CASE Got(j)
    BY <2>4 DEF Got
  <2>5. CASE Read(j)
    BY <2>5 DEF Read
  <2>6. CASE Remove(j)
    <3>1. PICK stale \in is_stale(seen[j]) :
            \/ stale /\ file # NoFile /\ raced' = Raced(seen[j])
            \/ UNCHANGED <<file, raced>>
      BY <2>6 DEF Remove
    <3>2. \A k \in Jobs : pc'[k] \in Owning => pc[k] \in Owning /\ pc'[k] = pc[k]
      BY <2>6 DEF Remove, Missed
    <3>3. UNCHANGED <<outlived, dead>>
      BY <2>6 DEF Remove
    <3>4. CASE stale /\ file # NoFile /\ raced' = Raced(seen[j])
      <4>1. CASE file.by = seen[j]
        <5>1. file.by \in outlived \cup dead
          BY <3>1, <3>4, <4>1 DEF is_stale, Files
        <5> QED  BY <3>2, <3>3, <3>4, <4>1, <5>1 DEF Raced
      <4>2. CASE file.by # seen[j]
        BY <3>2, <3>3, <3>4, <4>2 DEF Raced
      <4> QED  BY <4>1, <4>2
    <3>5. CASE UNCHANGED <<file, raced>>
      BY <3>2, <3>3, <3>5
    <3> QED  BY <3>1, <3>4, <3>5
  <2>7. CASE Mark(j)
    BY <2>7 DEF Mark
  <2>8. CASE MarkWritten(j)
    BY <2>8 DEF MarkWritten
  <2>9. CASE Poll(j)
    BY <2>9 DEF Poll
  <2>10. CASE GiveUp(j)
    BY <2>10 DEF GiveUp
  <2>11. CASE Release(j)
    BY <2>11 DEF Release
  <2>12. CASE Unlink(j)
    BY <2>12 DEF Unlink, Raced
  <2>13. CASE Die(j)
    BY <2>13 DEF Die
  <2>14. CASE Outlive(j)
    BY <2>14 DEF Outlive
  <2> QED
    BY <1>1, <2>1, <2>2, <2>3, <2>4, <2>5, <2>6, <2>7, <2>8, <2>9, <2>10, <2>11, <2>12, <2>13,
       <2>14 DEF Step
<1>2. ASSUME NEW j \in Jobs, Finish(j)  PROVE FileOfOwner'
  BY <1>2 DEF Finish, Goto, LockInv, FileOfOwner, Sound, Owning, TypeOK
<1>3. ASSUME NEW swept \in SUBSET Jobs, Look(swept)  PROVE FileOfOwner'
  BY <1>3 DEF Look, Sweep, Goto, LockInv, FileOfOwner, Sound, Owning, TypeOK
<1>4. CASE UNCHANGED lockVars
  BY <1>4 DEF lockVars, LockInv, FileOfOwner, Sound
<1> QED
  BY <1>1, <1>2, <1>3, <1>4 DEF Next

LEMMA LockInvHolds == Spec => []LockInv
<1>1. Init => LockInv
  <2> SUFFICES ASSUME Init  PROVE LockInv
    OBVIOUS
  <2>1. \A j \in Jobs : pc[j] = "idle"
    BY DEF Init
  <2>2. FileOfOwner
    BY <2>1 DEF FileOfOwner, Sound, Owning
  <2>3. TypeOK
    BY <2>1 DEF Init, TypeOK, Files, Places
  <2> QED  BY <2>2, <2>3 DEF LockInv
<1>2. LockInv /\ [Next]_lockVars => LockInv'
  BY TypeStep, OwnerStep DEF LockInv
<1> QED  BY <1>1, <1>2, PTL DEF Spec

LEMMA OneOwner == LockInv => Exclusive
<1> SUFFICES ASSUME LockInv, NEW j \in Holders \ (outlived \cup raced),
                    NEW k \in Holders \ (outlived \cup raced)
             PROVE  j = k
  BY DEF Exclusive
<1>1. j \in Sound /\ k \in Sound /\ pc[j] \in Owning /\ pc[k] \in Owning
  BY DEF Holders, Sound, Owning
<1> QED  BY <1>1 DEF LockInv, FileOfOwner

\* heavy_lock, "two jobs cannot both win": of the jobs that hold the lock, that
\* have not outlived it and whose file nobody removed having read another
\* record, there is at most one.
THEOREM LockIsExclusive == Spec => []Exclusive
  BY OneOwner, LockInvHolds, PTL

-----------------------------------------------------------------------------
(* The queue. *)

\* The queue does to the lock what HeavyLock allows, and nothing else.
LEMMA QueueUsesLock ==
  ASSUME [QueueNext]_vars
  PROVE  [Next]_lockVars
<1> USE QueueAssumption
<1>1. CASE \E j \in Jobs : Step(j)
  BY <1>1 DEF Next
<1>2. ASSUME NEW j \in Jobs, Finish(j)  PROVE Next
  BY <1>2 DEF Next
<1>3. ASSUME NEW t \in Tasks, enqueue(t)  PROVE UNCHANGED lockVars
  BY <1>3 DEF enqueue
<1>4. ASSUME NEW b \in Batches,
             \/ Recover(b) \/ Pause(b) \/ LookForWaiters(b) \/ Select(b)
             \/ Claim(b) \/ RunTask(b) \/ Raise(b)
      PROVE  Next \/ UNCHANGED lockVars
  <2>1. b \in Jobs
    OBVIOUS
  <2>2. CASE LookForWaiters(b)
    <3>1. PICK swept \in SUBSET Jobs : Sweep(swept)
      BY <2>2 DEF LookForWaiters
    <3>2. Look(swept)
      BY <2>1, <2>2, <3>1 DEF LookForWaiters, Look, At
    <3> QED  BY <3>2 DEF Next
  <2>3. CASE ~LookForWaiters(b)
    BY <1>2, <1>4, <2>1, <2>3 DEF Recover, Pause, Select, Claim, RunTask, Raise
  <2> QED  BY <2>2, <2>3
<1>5. CASE UNCHANGED vars
  BY <1>5 DEF vars
<1> QED
  BY <1>1, <1>2, <1>3, <1>4, <1>5 DEF QueueNext

\* AiTaskQueue implements HeavyLock: its batches are jobs like any other.
THEOREM QueueImplementsLock == QueueSpec => Spec
<1>1. QueueInit => Init
  BY DEF QueueInit
<1>2. [QueueNext]_vars => [Next]_lockVars
  BY QueueUsesLock
<1> QED  BY <1>1, <1>2, PTL DEF QueueSpec, Spec

\* Exclusive, of the lock as the queue uses it.
THEOREM QueueIsExclusive == QueueSpec => []Exclusive
  BY QueueImplementsLock, LockIsExclusive, PTL

\* A batch is at a task only while it holds the lock.
AtRest ==
  \A b \in Batches : /\ at[b] # "recover" => pc[b] = "hold"
                     /\ at[b] \in {"claim", "run"} => task[b] \in Tasks

\* No batch has outlived the lock, or lost it to a racing removal.
Calm == Batches \cap (outlived \cup raced) = {}

\* What a batch is at is queued until it claims it, and running until it ends it.
Held ==
  /\ \A t \in Tasks : ends[t] <= 1 /\ (state[t] # "done" => ends[t] = 0)
  /\ \A b \in Batches \ dead : /\ at[b] = "claim" => state[task[b]] = "queued"
                               /\ at[b] = "run" => state[task[b]] = "running"

TaskHeld == Calm => Held

QueueInv == LockInv /\ QueueTypeOK /\ AtRest /\ TaskHeld

LEMMA QueueTypeStep ==
  ASSUME QueueInv, [QueueNext]_vars, TypeOK'
  PROVE  QueueTypeOK' /\ AtRest'
<1> USE QueueAssumption DEF QueueInv, QueueTypeOK, AtRest, On, At, Leave
<1>1. ASSUME NEW j \in Jobs, Step(j), UNCHANGED queueVars  PROVE QueueTypeOK' /\ AtRest'
  <2>1. \A b \in Batches : pc[b] = "hold" => pc'[b] = "hold"
    BY <1>1 DEF Step, Start, Create, Write, Got, Read, Remove, Missed, Mark, MarkWritten, Poll,
         GiveUp, Release, Unlink, Die, Outlive, Goto, TypeOK
  <2> QED  BY <1>1, <2>1 DEF queueVars
<1>2. ASSUME NEW j \in Jobs \ Batches, Finish(j), UNCHANGED queueVars
      PROVE  QueueTypeOK' /\ AtRest'
  BY <1>2 DEF queueVars, Finish, Goto, TypeOK
<1>3. ASSUME NEW t \in Tasks, enqueue(t)  PROVE QueueTypeOK' /\ AtRest'
  BY <1>3 DEF enqueue, lockVars
<1>4. ASSUME NEW b \in Batches, Recover(b)  PROVE QueueTypeOK' /\ AtRest'
  BY <1>4 DEF Recover, lockVars, StaleRunning
<1>5. ASSUME NEW b \in Batches, Pause(b) \/ Raise(b)  PROVE QueueTypeOK' /\ AtRest'
  BY <1>5 DEF Pause, Raise, Finish, Goto, TypeOK
<1>6. ASSUME NEW b \in Batches, LookForWaiters(b)  PROVE QueueTypeOK' /\ AtRest'
  BY <1>6 DEF LookForWaiters, Goto, TypeOK
<1>7. ASSUME NEW b \in Batches, Select(b)  PROVE QueueTypeOK' /\ AtRest'
  BY <1>7 DEF Select, Finish, Goto, TypeOK, lockVars, Queued
<1>8. ASSUME NEW b \in Batches, Claim(b)  PROVE QueueTypeOK' /\ AtRest'
  BY <1>8 DEF Claim, lockVars
<1>9. ASSUME NEW b \in Batches, RunTask(b)  PROVE QueueTypeOK' /\ AtRest'
  <2>1. task[b] \in Tasks
    BY <1>9 DEF RunTask
  <2>2. ends' \in [Tasks -> 0..2]
    <3>1. ends[task[b]] \in 0..2
      BY <2>1
    <3> QED  BY <1>9, <2>1, <3>1 DEF RunTask
  <2> QED  BY <1>9, <2>1, <2>2 DEF RunTask, lockVars
<1>10. CASE UNCHANGED vars
  BY <1>10 DEF vars, lockVars, queueVars
<1> QED
  BY <1>1, <1>2, <1>3, <1>4, <1>5, <1>6, <1>7, <1>8, <1>9, <1>10 DEF QueueNext

LEMMA StaysCalm ==
  ASSUME [Next]_lockVars, Calm'
  PROVE  Calm
<1>1. outlived \subseteq outlived' /\ raced \subseteq raced'
  BY DEF Next, Step, Start, Create, Write, Got, Read, Remove, Mark, MarkWritten, Poll, GiveUp,
       Release, Unlink, Die, Outlive, Finish, Look, Sweep, lockVars, Raced
<1> QED  BY <1>1 DEF Calm

\* While it is calm, one batch at most is at work.
LEMMA OneBatch ==
  ASSUME QueueInv, Calm, NEW b \in Batches \ dead, pc[b] = "hold",
         NEW c \in Batches \ dead, at[c] # "recover"
  PROVE  c = b
<1>1. pc[c] = "hold"
  BY DEF QueueInv, AtRest
<1>2. Exclusive
  BY OneOwner DEF QueueInv
<1> QED  BY <1>1, <1>2, QueueAssumption DEF Calm, Exclusive, Holders

LEMMA DeathIsFinal ==
  ASSUME [Next]_lockVars
  PROVE  dead \subseteq dead'
  BY DEF Next, Step, Start, Create, Write, Got, Read, Remove, Mark, MarkWritten, Poll, GiveUp,
       Release, Unlink, Die, Outlive, Finish, Look, Sweep, lockVars

LEMMA TaskHeldStep ==
  ASSUME QueueInv, [QueueNext]_vars
  PROVE  TaskHeld'
<1> SUFFICES ASSUME Calm'  PROVE Held'
  BY DEF TaskHeld
<1>calm. Calm
  BY StaysCalm, QueueUsesLock
<1>dead. dead \subseteq dead'
  BY DeathIsFinal, QueueUsesLock
<1>held. Held
  BY <1>calm DEF QueueInv, TaskHeld
<1>type. QueueTypeOK /\ AtRest
  BY DEF QueueInv
<1> USE QueueAssumption, <1>held, <1>dead, <1>type DEF Held
<1>2. CASE UNCHANGED queueVars
  BY <1>2 DEF queueVars
<1>3. ASSUME NEW t \in Tasks, enqueue(t)  PROVE Held'
  <2>1. \A c \in Batches : at[c] \in {"claim", "run"} => task[c] \in Tasks
    BY DEF AtRest
  <2> QED  BY <1>3, <2>1 DEF enqueue, QueueTypeOK
<1>4. ASSUME NEW b \in Batches, Recover(b)  PROVE Held'
  <2>1. \A c \in Batches \ dead : c # b => at[c] = "recover"
    BY <1>4, <1>calm, OneBatch DEF Recover, At
  <2> QED  BY <1>4, <2>1 DEF Recover, On, QueueTypeOK, StaleRunning, Running
<1>5. ASSUME NEW b \in Batches, Leave(b), UNCHANGED <<state, ends>>  PROVE Held'
  BY <1>5 DEF Leave, QueueTypeOK
<1>6. ASSUME NEW b \in Batches, LookForWaiters(b)  PROVE Held'
  <2>1. CASE Leave(b)
    BY <1>5, <1>6, <2>1 DEF LookForWaiters
  <2>2. CASE On(b, "select") /\ UNCHANGED task
    BY <1>6, <2>2 DEF LookForWaiters, On, QueueTypeOK
  <2> QED  BY <1>6, <2>1, <2>2 DEF LookForWaiters
<1>7. ASSUME NEW b \in Batches, Select(b)  PROVE Held'
  <2>1. CASE Leave(b)
    BY <1>5, <1>7, <2>1 DEF Select
  <2>2. CASE ~Leave(b)
    <3>1. PICK t \in Queued : task' = [task EXCEPT ![b] = t]
      BY <1>7, <2>2 DEF Select
    <3>2. On(b, "claim") /\ UNCHANGED <<state, ends, dead>>
      BY <1>7, <2>2 DEF Select, lockVars
    <3> QED  BY <3>1, <3>2 DEF On, QueueTypeOK, Queued
  <2> QED  BY <2>1, <2>2
<1>8. ASSUME NEW b \in Batches, Claim(b)  PROVE Held'
  <2>1. \A c \in Batches \ dead : c # b => at[c] = "recover"
    BY <1>8, <1>calm, OneBatch DEF Claim, At
  <2>2. task[b] \in Tasks
    BY <1>8 DEF Claim, At, AtRest
  <2>3. state[task[b]] = "queued"
    <3>1. b \notin dead /\ at[b] = "claim"
      BY <1>8 DEF Claim, At
    <3> QED  BY <3>1
  <2> QED  BY <1>8, <2>1, <2>2, <2>3 DEF Claim, On, QueueTypeOK
<1>9. ASSUME NEW b \in Batches, RunTask(b)  PROVE Held'
  <2>1. \A c \in Batches \ dead : c # b => at[c] = "recover"
    BY <1>9, <1>calm, OneBatch DEF RunTask, At
  <2>2. task[b] \in Tasks
    BY <1>9 DEF RunTask, At, AtRest
  <2>3. state[task[b]] = "running"
    BY <1>9 DEF RunTask, At
  <2>4. ends[task[b]] = 0
    BY <2>2, <2>3
  <2>5. ends' = [ends EXCEPT ![task[b]] = 1]
    BY <1>9, <2>4 DEF RunTask
  <2> QED  BY <1>9, <2>1, <2>2, <2>5 DEF RunTask, On, QueueTypeOK
<1>10. CASE \E b \in Batches : Pause(b) \/ Raise(b)
  BY <1>5, <1>10 DEF Pause, Raise
<1> QED
  BY <1>2, <1>3, <1>4, <1>6, <1>7, <1>8, <1>9, <1>10 DEF QueueNext, vars

LEMMA QueueInvHolds == QueueSpec => []QueueInv
<1>1. QueueInit => QueueTypeOK /\ AtRest /\ TaskHeld
  <2> SUFFICES ASSUME QueueInit  PROVE QueueTypeOK /\ AtRest /\ TaskHeld
    OBVIOUS
  <2>1. TypeOK
    BY LockAssumption DEF QueueInit, Init, TypeOK, Files, Places
  <2> QED  BY <2>1 DEF QueueInit, QueueTypeOK, AtRest, TaskHeld, Held
<1>2. QueueInv /\ [QueueNext]_vars /\ LockInv' => QueueInv'
  BY QueueTypeStep, TaskHeldStep DEF QueueInv, LockInv
<1>3. QueueSpec => []LockInv
  BY QueueImplementsLock, LockInvHolds, PTL
<1>4. LockInv /\ QueueTypeOK /\ AtRest /\ TaskHeld => QueueInv
  BY DEF QueueInv
<1> QED  BY <1>1, <1>2, <1>3, <1>4, PTL DEF QueueSpec

\* run_batch: the result of a task is recorded once, whatever jobs, deaths and
\* tasks there are, unless a batch has outlived the lock or been raced.
THEOREM TasksReadOnce == QueueSpec => []ReadOnce
<1>1. QueueInv => ReadOnce
  BY DEF QueueInv, TaskHeld, Calm, Held, ReadOnce
<1> QED  BY <1>1, QueueInvHolds, PTL

-----------------------------------------------------------------------------
(* A batch steps aside. *)

\* A job that has waited, and waits no longer.
Served == {"hold", "release", "unlink", "done"}

\* A marker is put up by a job that has none, and is empty, or gone, until
\* it is written.
MarkInv ==
  \A k \in Jobs : /\ pc[k] = "mark" => marker[k] = "none"
                  /\ pc[k] = "marked" => marker[k] \in {"empty", "gone"}

LEMMA MarkerStep ==
  ASSUME TypeOK, MarkInv, [Next]_lockVars, NEW k \in Jobs
  PROVE  /\ pc'[k] = "mark" => marker'[k] = "none"
         /\ pc'[k] = "marked" => marker'[k] \in {"empty", "gone"}
         /\ marker[k] = "there" /\ k \notin dead => marker'[k] = "there" \/ pc'[k] \in Served
         /\ pc[k] \in Served /\ marker[k] # "there"
              => pc'[k] \in Served /\ marker'[k] # "there"
         /\ pc[k] \in Served => pc'[k] \in Served
<1> USE DEF TypeOK, MarkInv, Served, Goto
<1>1. ASSUME NEW j \in Jobs, Start(j) \/ Create(j) \/ Write(j) \/ Read(j) \/ Poll(j) \/ Release(j)
                             \/ Unlink(j) \/ Die(j) \/ Outlive(j) \/ Finish(j)
      PROVE  /\ UNCHANGED marker
             /\ pc'[k] = pc[k] \/ pc'[k] \notin {"mark", "marked"}
             /\ pc[k] \in Served => pc'[k] \in Served
  BY <1>1 DEF Start, Create, Write, Read, Poll, Release, Unlink, Die, Outlive, Finish
<1>2. ASSUME NEW j \in Jobs, Remove(j)
      PROVE  /\ UNCHANGED marker
             /\ pc'[k] = pc[k] \/ pc'[k] # "marked"
             /\ pc'[k] = "mark" => marker[k] = "none"
             /\ pc[k] \in Served => pc'[k] \in Served
  <2>1. UNCHANGED marker /\ pc[j] = "remove" /\ (Goto(j, "create") \/ Missed(j))
    BY <1>2 DEF Remove
  <2>2. CASE Goto(j, "create")
    BY <2>1, <2>2
  <2>3. CASE Missed(j)
    BY <2>1, <2>3 DEF Missed
  <2> QED  BY <2>1, <2>2, <2>3
<1>3. ASSUME NEW j \in Jobs, Got(j) \/ Mark(j) \/ MarkWritten(j) \/ GiveUp(j)
      PROVE  /\ pc'[k] = "mark" => marker'[k] = "none"
             /\ pc'[k] = "marked" => marker'[k] \in {"empty", "gone"}
             /\ marker[k] = "there" => marker'[k] = "there" \/ pc'[k] \in Served
             /\ pc[k] \in Served => pc'[k] \in Served /\ marker'[k] = marker[k]
  BY <1>3 DEF Got, Mark, MarkWritten, GiveUp
<1>4. ASSUME NEW swept \in SUBSET Jobs, Look(swept)
      PROVE  /\ pc'[k] = "mark" => marker'[k] = "none"
             /\ pc'[k] = "marked" => marker'[k] \in {"empty", "gone"}
             /\ marker[k] = "there" /\ k \notin dead => marker'[k] = "there"
             /\ marker[k] # "there" => marker'[k] # "there"
             /\ pc[k] \in Served => pc'[k] \in Served
  BY <1>4 DEF Look, Sweep
<1>5. CASE UNCHANGED lockVars
  BY <1>5 DEF lockVars
<1> QED
  BY <1>1, <1>2, <1>3, <1>4, <1>5 DEF Next, Step

\* A job that stood waiting at a batch's last claim still does, or has been
\* served; and a batch that goes on to another task has seen nobody stand.
StoodInv ==
  \A b \in Batches, k \in Jobs \ dead :
    /\ k \in stood[b] => marker[k] = "there" \/ pc[k] \in Served
    /\ k \in stood[b] /\ at[b] \in {"select", "claim"} => marker[k] # "there"

AsideInv == MarkInv /\ StoodInv

LEMMA StoodStep ==
  ASSUME QueueInv, AsideInv, [QueueNext]_vars, NEW b \in Batches, NEW k \in Jobs \ dead',
         k \in stood'[b]
  PROVE  /\ marker'[k] = "there" \/ pc'[k] \in Served
         /\ at'[b] \in {"select", "claim"} => marker'[k] # "there"
<1>1. k \notin dead
  BY DeathIsFinal, QueueUsesLock
<1>2. /\ marker[k] = "there" => marker'[k] = "there" \/ pc'[k] \in Served
      /\ pc[k] \in Served /\ marker[k] # "there" => pc'[k] \in Served /\ marker'[k] # "there"
      /\ pc[k] \in Served => pc'[k] \in Served
  BY <1>1, MarkerStep, QueueUsesLock DEF QueueInv, LockInv, AsideInv
<1>3. stood \in [Batches -> SUBSET Jobs] /\ at \in [Batches -> {"recover", "pause", "select", "claim", "run"}]
  BY DEF QueueInv, QueueTypeOK
<1>4. k \in stood[b] => /\ marker[k] = "there" \/ pc[k] \in Served
                        /\ at[b] \in {"select", "claim"} => marker[k] # "there"
  BY <1>1 DEF AsideInv, StoodInv
<1>5. CASE stood'[b] = stood[b] /\ (at'[b] = at[b] \/ at'[b] \notin {"select", "claim"})
  BY <1>2, <1>4, <1>5
<1>6. ASSUME NEW c \in Batches, LookForWaiters(c)
      PROVE  /\ marker'[k] = "there" \/ pc'[k] \in Served
             /\ at'[b] \in {"select", "claim"} => marker'[k] # "there"
  <2>1. CASE c # b
    BY <1>3, <1>5, <1>6, <2>1 DEF LookForWaiters, On, Leave
  <2>2. CASE c = b /\ Standing = {}
    <3>1. marker[k] # "there"
      BY <1>1, <2>2 DEF Standing
    <3>2. stood'[b] = stood[b]
      BY <1>6, <2>2 DEF LookForWaiters
    <3> QED  BY <1>2, <1>4, <3>1, <3>2
  <2>3. CASE c = b /\ Standing # {}
    BY <1>3, <1>6, <2>3 DEF LookForWaiters, Leave
  <2> QED  BY <2>1, <2>2, <2>3
<1>7. ASSUME NEW c \in Batches, Select(c)
      PROVE  /\ marker'[k] = "there" \/ pc'[k] \in Served
             /\ at'[b] \in {"select", "claim"} => marker'[k] # "there"
  <2>1. CASE c # b
    BY <1>3, <1>5, <1>7, <2>1 DEF Select, On, Leave
  <2>2. CASE c = b
    <3>1. stood'[b] = stood[b] /\ at[b] = "select"
      BY <1>3, <1>7, <2>2 DEF Select, Leave, At
    <3> QED  BY <1>2, <1>4, <3>1
  <2> QED  BY <2>1, <2>2
<1>8. ASSUME NEW c \in Batches, Claim(c)
      PROVE  /\ marker'[k] = "there" \/ pc'[k] \in Served
             /\ at'[b] \in {"select", "claim"} => marker'[k] # "there"
  <2>1. CASE c # b
    BY <1>3, <1>5, <1>8, <2>1 DEF Claim, On
  <2>2. CASE c = b
    <3>1. k \in {j \in Jobs \ dead : marker[j] = "there"} /\ at'[b] = "run"
      BY <1>3, <1>8, <2>2 DEF Claim, On
    <3>2. UNCHANGED marker
      BY <1>8 DEF Claim, lockVars
    <3> QED  BY <3>1, <3>2
  <2> QED  BY <2>1, <2>2
<1>9. ASSUME NEW c \in Batches, Recover(c) \/ RunTask(c)
      PROVE  stood'[b] = stood[b] /\ (at'[b] = at[b] \/ at'[b] = "pause")
  BY <1>3, <1>9 DEF Recover, RunTask, On
<1>10. ASSUME NEW c \in Batches, Pause(c) \/ Raise(c)
       PROVE  stood'[b] = stood[b] /\ (at'[b] = at[b] \/ at'[b] = "recover")
  BY <1>3, <1>10 DEF Pause, Raise, Leave
<1>11. CASE UNCHANGED queueVars
  BY <1>5, <1>11 DEF queueVars
<1>12. ASSUME NEW t \in Tasks, enqueue(t)
       PROVE  UNCHANGED <<at, stood>>
  BY <1>12 DEF enqueue
<1> QED
  BY <1>5, <1>6, <1>7, <1>8, <1>9, <1>10, <1>11, <1>12 DEF QueueNext, vars

LEMMA AsideInvHolds == QueueSpec => []AsideInv
<1>1. QueueInit => AsideInv
  BY DEF QueueInit, Init, AsideInv, MarkInv, StoodInv
<1>2. QueueInv /\ AsideInv /\ [QueueNext]_vars => AsideInv'
  <2> SUFFICES ASSUME QueueInv, AsideInv, [QueueNext]_vars  PROVE MarkInv' /\ StoodInv'
    BY DEF AsideInv
  <2>1. MarkInv'
    BY MarkerStep, QueueUsesLock DEF QueueInv, LockInv, AsideInv, MarkInv
  <2>2. StoodInv'
    BY StoodStep DEF StoodInv
  <2> QED  BY <2>1, <2>2
<1> QED  BY <1>1, <1>2, QueueInvHolds, PTL DEF QueueSpec

\* heavy_lock, "steps aside": however many jobs wait, and whichever of them die,
\* a batch claims no second task after one of them has put up its marker.
THEOREM BatchStepsAside == QueueSpec => StepsAside
<1>1. QueueInv /\ AsideInv
      => [\A b \in Batches :
            at[b] = "claim" /\ at'[b] = "run" => \A k \in stood[b] \ dead : marker[k] # "there"]_vars
  <2>1. ASSUME QueueInv, AsideInv, NEW b \in Batches, at[b] = "claim", NEW k \in stood[b] \ dead
        PROVE  marker[k] # "there"
    BY <2>1 DEF QueueInv, QueueTypeOK, AsideInv, StoodInv
  <2> QED  BY <2>1
<1> QED  BY <1>1, AsideInvHolds, QueueInvHolds, PTL DEF QueueSpec, StepsAside

=============================================================================
