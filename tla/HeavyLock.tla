------------------------------ MODULE HeavyLock ------------------------------
(***************************************************************************)
(* The one lock file the heavy jobs of a machine take in turn              *)
(* (heavy_lock.py).                                                        *)
(*                                                                         *)
(* A job is one run that takes the lock, its token, its record: a process  *)
(* that does so again is another job.  The file is created empty, for its  *)
(* creator alone, and then gets its record.  A job that finds the file reads it, and one  *)
(* it thinks stale it removes, whatever the file says by then.  So does a  *)
(* release: it reads, and removes.  A job that waits leaves a marker.  A   *)
(* step is one call on a file; time is what it does to a record: a job     *)
(* that has held for 3 hours has outlived its own.                         *)
(***************************************************************************)
EXTENDS Naturals, FiniteSets

CONSTANTS
  Jobs,
  Waiting,        \* the jobs that wait for the lock: the others try it once
  NoJob,
  MaxDead, MaxOutlived    \* bounds

ASSUME LockAssumption ==
  /\ MaxDead \in Nat /\ MaxOutlived \in Nat
  /\ Waiting \subseteq Jobs /\ NoJob \notin Jobs

VARIABLES
  file,           \* who created the lock file, and whether its record is there
  marker,         \* marker[j]: of a waiting job
  pc, tries, seen,    \* a job's place, its attempts, the record it has read
  outlived,       \* the jobs that have held, or kept the file, for 3 hours
  dead,           \* the jobs whose process is gone
  raced           \* history: jobs whose file was removed by one that had read
                  \* another record, or none yet

lockVars == <<file, marker, pc, tries, seen, outlived, dead, raced>>

NoFile == [by |-> NoJob, written |-> FALSE]
File(j) == [by |-> j, written |-> TRUE]
Places == {"idle", "create", "write", "got", "read", "remove", "mark", "marked", "wait",
           "hold", "release", "unlink", "done"}

Init ==
  /\ file = NoFile
  /\ marker = [j \in Jobs |-> "none"]
  /\ pc = [j \in Jobs |-> "idle"] /\ tries = [j \in Jobs |-> 0]
  /\ seen = [j \in Jobs |-> NoJob]
  /\ outlived = {} /\ dead = {} /\ raced = {}

\* What a job reads in the file: whose record, if it can be read.
read == IF file.written THEN file.by ELSE NoJob

\* mutant: a record is stale also when its process is there
is_stale_Any(r) == BOOLEAN

\* is_stale: no readable record, or too old; of a dead job also, unless its
\* pid is another process by now or cannot be looked up.
is_stale(r) ==
  IF r = NoJob \/ r \in outlived THEN {TRUE} ELSE IF r \in dead THEN BOOLEAN ELSE {FALSE}

Goto(j, l) == pc' = [pc EXCEPT ![j] = l]

-----------------------------------------------------------------------------
(* try_acquire. *)

Start(j) ==
  /\ pc[j] = "idle" /\ j \notin dead
  /\ Goto(j, "create")
  /\ tries' = [tries EXCEPT ![j] = 2]
  /\ UNCHANGED <<file, marker, seen, outlived, dead, raced>>

\* The attempt failed: a job that waits leaves its marker, or tries again later.
Missed(j) ==
  Goto(j, IF j \notin Waiting THEN "done" ELSE IF marker[j] = "none" THEN "mark" ELSE "wait")

\* The file is created, if there is none.
Create(j) ==
  /\ pc[j] = "create" /\ j \notin dead
  /\ IF file = NoFile
       THEN file' = [by |-> j, written |-> FALSE] /\ Goto(j, "write")
       ELSE Goto(j, "read") /\ UNCHANGED file
  /\ UNCHANGED <<marker, tries, seen, outlived, dead, raced>>

\* Its record is written: into the file created, even if that is gone by now.
Write(j) ==
  /\ pc[j] = "write" /\ j \notin dead
  /\ file' = IF file.by = j THEN File(j) ELSE file
  /\ Goto(j, "got")
  /\ tries' = [tries EXCEPT ![j] = 0]
  /\ UNCHANGED <<marker, seen, outlived, dead, raced>>

\* The job has the lock, and waits no longer.
Got(j) ==
  /\ pc[j] = "got" /\ j \notin dead
  /\ marker' = [marker EXCEPT ![j] = "none"]
  /\ Goto(j, "hold")
  /\ UNCHANGED <<file, tries, seen, outlived, dead, raced>>

Read(j) ==
  /\ pc[j] = "read" /\ j \notin dead
  /\ seen' = [seen EXCEPT ![j] = read]
  /\ Goto(j, "remove")
  /\ UNCHANGED <<file, marker, tries, outlived, dead, raced>>

\* A job that removes the file, having read the record of r, has raced its
\* creator if that is another.
Raced(r) == IF file.by # r THEN raced \cup {file.by} ELSE raced

\* A stale record's file is removed, unless it is gone, or open, which stops
\* a removal on Windows.
Remove(j) ==
  /\ pc[j] = "remove" /\ j \notin dead
  /\ \E stale \in is_stale(seen[j]) :
       \/ /\ stale /\ file # NoFile
          /\ file' = NoFile /\ raced' = Raced(seen[j])
          /\ tries' = [tries EXCEPT ![j] = @ - 1]
          /\ IF tries[j] > 1 THEN Goto(j, "create") ELSE Missed(j)
       \/ /\ stale => file = NoFile \/ ~file.written
          /\ tries' = [tries EXCEPT ![j] = 0]
          /\ Missed(j)
          /\ UNCHANGED <<file, raced>>
  /\ seen' = [seen EXCEPT ![j] = NoJob]
  /\ UNCHANGED <<marker, outlived, dead>>

-----------------------------------------------------------------------------
(* acquire. *)

\* The marker is created empty, unless that fails: the job waits without, ...
Mark(j) ==
  /\ pc[j] = "mark" /\ j \notin dead
  /\ \E m \in {"empty", "gone"} : marker' = [marker EXCEPT ![j] = m]
  /\ Goto(j, "marked")
  /\ UNCHANGED <<file, tries, seen, outlived, dead, raced>>

\* ... and written, even if it is gone by now.
MarkWritten(j) ==
  /\ pc[j] = "marked" /\ j \notin dead
  /\ marker' = [marker EXCEPT ![j] = IF @ = "empty" THEN "there" ELSE "gone"]
  /\ Goto(j, "wait")
  /\ UNCHANGED <<file, tries, seen, outlived, dead, raced>>

Poll(j) ==
  /\ pc[j] = "wait" /\ j \notin dead
  /\ Goto(j, "create")
  /\ tries' = [tries EXCEPT ![j] = 2]
  /\ UNCHANGED <<file, marker, seen, outlived, dead, raced>>

\* HeavyJobBusy: the wait ran out.
GiveUp(j) ==
  /\ pc[j] = "wait" /\ j \notin dead
  /\ marker' = [marker EXCEPT ![j] = "none"]
  /\ Goto(j, "done")
  /\ UNCHANGED <<file, tries, seen, outlived, dead, raced>>

\* waiters: a job that looks for markers may remove one that is still empty,
\* or that a dead job has left.
Sweep(swept) ==
  /\ swept \subseteq {k \in Jobs : marker[k] = "empty" \/ (marker[k] = "there" /\ k \in dead)}
  /\ marker' = [k \in Jobs |-> IF k \in swept THEN "gone" ELSE marker[k]]
  /\ UNCHANGED <<file, tries, seen, outlived, dead, raced>>

-----------------------------------------------------------------------------
(* Handle.release: the record is read, ... *)

Release(j) ==
  /\ pc[j] = "release" /\ j \notin dead
  /\ Goto(j, IF read = j THEN "unlink" ELSE "done")
  /\ UNCHANGED <<file, marker, tries, seen, outlived, dead, raced>>

\* ... and the file removed, whosever it is by then, unless it is gone or open.
Unlink(j) ==
  /\ pc[j] = "unlink" /\ j \notin dead
  /\ \/ file # NoFile /\ file' = NoFile /\ raced' = Raced(j)
     \/ (file = NoFile \/ ~file.written) /\ UNCHANGED <<file, raced>>
  /\ Goto(j, "done")
  /\ UNCHANGED <<marker, tries, seen, outlived, dead>>

\* The work ends, well or not, and the lock is to be released.
Finish(j) ==
  /\ pc[j] = "hold" /\ j \notin dead
  /\ Goto(j, "release")
  /\ UNCHANGED <<file, marker, tries, seen, outlived, dead, raced>>

-----------------------------------------------------------------------------
(* The world. *)

\* A job's process is gone: killed, or at its end.
Die(j) ==
  /\ pc[j] # "idle" /\ j \notin dead /\ Cardinality(dead) < MaxDead
  /\ dead' = dead \cup {j}
  /\ UNCHANGED <<file, marker, pc, tries, seen, outlived, raced>>

\* A record has been in the file for 3 hours.
Outlive(j) ==
  /\ file = File(j)
  /\ j \notin outlived /\ Cardinality(outlived) < MaxOutlived
  /\ outlived' = outlived \cup {j}
  /\ UNCHANGED <<file, marker, pc, tries, seen, dead, raced>>

Step(j) ==
  \/ Start(j) \/ Create(j) \/ Write(j) \/ Got(j) \/ Read(j) \/ Remove(j)
  \/ Mark(j) \/ MarkWritten(j) \/ Poll(j) \/ GiveUp(j)
  \/ Release(j) \/ Unlink(j) \/ Die(j) \/ Outlive(j)

\* Sweep leaves alone where the jobs are, or is one with the end of the work.
Look(swept) ==
  /\ Sweep(swept)
  /\ pc' = pc \/ \E j \in Jobs : pc[j] = "hold" /\ j \notin dead /\ Goto(j, "release")

Next ==
  \/ \E j \in Jobs : Step(j) \/ Finish(j)
  \/ \E swept \in SUBSET Jobs : Look(swept)

Spec == Init /\ [][Next]_lockVars

-----------------------------------------------------------------------------
Files == [by : Jobs, written : BOOLEAN] \cup {NoFile}

TypeOK ==
  /\ file \in Files
  /\ marker \in [Jobs -> {"none", "empty", "there", "gone"}]
  /\ pc \in [Jobs -> Places] /\ tries \in [Jobs -> 0..2]
  /\ seen \in [Jobs -> Jobs \cup {NoJob}]
  /\ outlived \subseteq Jobs /\ dead \subseteq Jobs /\ raced \subseteq Jobs
  /\ \A j \in Jobs : pc[j] \in {"create", "read", "remove"} => tries[j] > 0

Holders == {j \in Jobs \ dead : pc[j] = "hold"}

\* heavy_lock: two jobs do not hold the lock at once, unless one of them has
\* outlived its record, or lost its file to a job that had read another record
\* or an empty file.
Exclusive ==
  \A j, k \in Holders \ (outlived \cup raced) : j = k

=============================================================================
