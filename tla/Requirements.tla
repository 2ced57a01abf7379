---------------------------- MODULE Requirements ----------------------------
(***************************************************************************)
(* The requirements of standards: how they are extracted from the chunks   *)
(* (standards.py), by a job of the ingestion worker or by an administrator's *)
(* request, decided on by engineers, moved over to new chunks              *)
(* (orphan_guard.py), and cited by the findings of a review.               *)
(*                                                                         *)
(* A chunk is the sentence it holds and the edition of the text in which   *)
(* it was made: a re-chunk keeps the chunks it does not change.  A step is *)
(* one read or one transaction.  Table cells follow the same rules with an *)
(* identity of their own and are left out, and so is what is read in a     *)
(* sentence.                                                               *)
(***************************************************************************)
EXTENDS JobStates, FiniteSets

CONSTANTS
  Standards, Sentences, Corrected,  \* Corrected: what an engineer writes instead
  worker, Callers,                  \* who extracts: the worker, requests
  Reviews,
  NoStandard, NoChunk,
  QuickRestarts,                    \* may the server be back within fifteen minutes?
  AuthDisabled,                     \* may it run with AUTH_MODE = disabled, the default?
  MaxRetries,
  MaxRows, MaxEditions, MaxEvents   \* bounds; events: requests, reviews,
                                    \* decisions, exceptions and crashes together

ASSUME RequirementsAssumption ==
  /\ Corrected \notin Sentences /\ worker \notin Callers
  /\ NoStandard \notin Standards /\ NoChunk \notin Sentences \X (1..MaxEditions)
  /\ QuickRestarts \in BOOLEAN /\ AuthDisabled \in BOOLEAN
  /\ {MaxRetries, MaxRows, MaxEditions, MaxEvents} \subseteq Nat
  /\ MaxEditions > 0

Extractors == {worker} \cup Callers
Editions == 1..MaxEditions
Chunks == Sentences \X Editions
Rows == 1..MaxRows
PENDING == {JOB_QUEUED, JOB_RUNNING, JOB_RETRYING}

VARIABLES
  chunks,            \* of a standard
  ready,             \* standards that are ready
  row, made,         \* standard_requirements, and how many were ever written
  job,               \* the last extraction job of a standard
  pc, std,           \* an extractor's place and standard, and what it has read:
  read, known, seen, \* chunks left to read, rows left to meet again, rows of others
  rejecting,         \* rows whose rejection has passed the guard
  review, reads,     \* a review's place, and the requirements it has loaded
  up,
  overlapped, missed, settled, agreed,   \* history, below
  editions, events

libraryVars == <<chunks, ready, row, made>>
threadVars  == <<pc, std, read, known, seen>>
reviewVars  == <<review, reads>>
histVars    == <<overlapped, missed, settled, agreed>>
boundVars   == <<editions, events>>
vars == <<libraryVars, job, threadVars, rejecting, reviewVars, up, histVars, boundVars>>

NoRow == [std |-> NoStandard, text |-> Corrected, chunk |-> NoChunk,
          by |-> "nobody", method |-> "extracted", is |-> "none"]
NoJob == [state |-> "none", retries |-> 0, fresh |-> FALSE]

Idle == [e \in Extractors |-> "idle"]
Nowhere == [e \in Extractors |-> NoStandard]
Nothing == [e \in Extractors |-> {}]

\* Standards have their first chunks, and are to be indexed.
Init ==
  /\ chunks \in [Standards -> SUBSET (Sentences \X {1})] /\ ready = {}
  /\ row = [i \in Rows |-> NoRow] /\ made = 0
  /\ job = [d \in Standards |-> NoJob]
  /\ pc = Idle /\ std = Nowhere /\ read = Nothing /\ known = Nothing /\ seen = Nothing
  /\ rejecting = {}
  /\ review = [v \in Reviews |-> "new"] /\ reads = [v \in Reviews |-> {}]
  /\ up = TRUE
  /\ overlapped = {} /\ missed = {} /\ settled = {} /\ agreed = {}
  /\ editions = 1 /\ events = 0

Current(d) == {i \in Rows : row[i].std = d /\ row[i].is = "current"}
\* _SUPERSEDABLE
Supersedable(d) == {i \in Current(d) : row[i].by = "nobody"}

At(e, place) == pc[e] = place
Goto(e, place) == pc' = [pc EXCEPT ![e] = place]
Event == events < MaxEvents /\ events' = events + 1
Extracting(e, d) == std[e] = d /\ pc[e] \notin {"idle", "hook"}

\* An extractor begins, and has another to itself or not.
Begin(e, d) ==
  /\ Goto(e, "load") /\ std' = [std EXCEPT ![e] = d]
  /\ overlapped' = IF \E f \in Extractors : Extracting(f, d) THEN overlapped \cup {d}
                                                              ELSE overlapped
Leave(e) ==
  /\ Goto(e, "idle") /\ std' = [std EXCEPT ![e] = NoStandard]
  /\ read' = [read EXCEPT ![e] = {}] /\ known' = [known EXCEPT ![e] = {}]
  /\ seen' = [seen EXCEPT ![e] = {}]

-----------------------------------------------------------------------------
(* The queue. *)

\* enqueue_extraction: one that is pending stands for the request.
Enqueue(d) ==
  /\ job' = [job EXCEPT ![d] = IF @.state \in PENDING THEN @
                               ELSE [state |-> JOB_QUEUED, retries |-> 0, fresh |-> FALSE]]
  /\ missed' = missed \ {d}

\* The administrator's request, and a role that is set on a ready document.
Request(d) ==
  /\ up /\ Event
  /\ Enqueue(d)
  /\ UNCHANGED <<libraryVars, threadVars, rejecting, reviewVars, up, overlapped, settled, agreed,
                 editions>>

\* job_queue.cancel
Cancel(d) ==
  /\ up /\ job[d].state \in CANCELLABLE /\ Event
  /\ job' = [job EXCEPT ![d].state = JOB_CANCELLED]
  /\ UNCHANGED <<libraryVars, threadVars, rejecting, reviewVars, up, histVars, editions>>

\* next_extraction_job and run_extraction_job's look at the claim, by a worker
\* that has no document to work on; under_limit_sql allows one running.
Claim(d) ==
  /\ up /\ At(worker, "idle") /\ ready = Standards
  /\ job[d].state \in {JOB_QUEUED, JOB_RETRYING}
  /\ \A other \in Standards : ~(job[other].state = JOB_RUNNING /\ job[other].fresh)
  /\ job' = [job EXCEPT ![d].state = JOB_RUNNING, ![d].fresh = TRUE]
  /\ Begin(worker, d)
  /\ UNCHANGED <<libraryVars, read, known, seen, rejecting, reviewVars, up, missed, settled, agreed,
                 boundVars>>

\* extract_standard_requirements: the administrator waits for this one.
Call(c, d) ==
  /\ up /\ c \in Callers /\ At(c, "idle") /\ Event
  /\ Begin(c, d)
  /\ UNCHANGED <<libraryVars, job, read, known, seen, rejecting, reviewVars, up,
                 missed, settled, agreed, editions>>

-----------------------------------------------------------------------------
(* extract_requirements *)

Load(e) ==
  /\ At(e, "load")
  /\ read' = [read EXCEPT ![e] = chunks[std[e]]]
  /\ Goto(e, "match")
  /\ UNCHANGED <<libraryVars, job, std, known, seen, rejecting, reviewVars, up, histVars, boundVars>>

\* `reproducible`: of two rows of one sentence, the older.
Reproducible(d) ==
  {i \in Supersedable(d) : \A j \in Supersedable(d) : row[j].text = row[i].text => i <= j}

Match(e) ==
  /\ At(e, "match")
  /\ known' = [known EXCEPT ![e] = {<<row[i].text, i>> : i \in Reproducible(std[e])}]
  /\ Goto(e, "seed")
  /\ UNCHANGED <<libraryVars, job, std, read, seen, rejecting, reviewVars, up, histVars, boundVars>>

\* mutant: a row a person has confirmed is not looked for
Seed_Unconfirmed(e) ==
  /\ At(e, "seed")
  /\ seen' = [seen EXCEPT ![e] = {row[i].text : i \in Supersedable(std[e])}
                                 \ {k[1] : k \in known[e]}]
  /\ Goto(e, "write")
  /\ UNCHANGED <<libraryVars, job, std, read, known, rejecting, reviewVars, up, histVars, boundVars>>

\* `seen`: the sentences that have a row, but for those it may meet again.
Seed(e) ==
  /\ At(e, "seed")
  /\ seen' = [seen EXCEPT ![e] = {row[i].text : i \in Current(std[e])}
                                 \ {k[1] : k \in known[e]}]
  /\ Goto(e, "write")
  /\ UNCHANGED <<libraryVars, job, std, read, known, rejecting, reviewVars, up, histVars, boundVars>>

\* By ordinal; which comes first does not matter, as long as it is one order.
First(cs) == CHOOSE c \in cs : TRUE

Done(e, c) == At(e, "write") /\ c = First(read[e]) /\ read' = [read EXCEPT ![e] = @ \ {c}]
Keys(e) == {k[1] : k \in known[e]}

Skip(e, c) ==
  /\ Done(e, c) /\ c[1] \in seen[e]
  /\ UNCHANGED <<libraryVars, job, pc, std, known, seen, rejecting, reviewVars, up, histVars, boundVars>>

\* _reproduced: the row stays, with the chunk of this run, unless a person has
\* decided on it meanwhile.  The database refuses a chunk that is gone.
Again(e, c, i) ==
  /\ Done(e, c) /\ <<c[1], i>> \in known[e]
  /\ known' = [known EXCEPT ![e] = @ \ {<<c[1], i>>}]
  /\ IF i \in Supersedable(std[e])
       THEN c \in chunks[std[e]] /\ row' = [row EXCEPT ![i].chunk = c]
       ELSE UNCHANGED row
  /\ UNCHANGED <<chunks, ready, made, job, pc, std, seen, rejecting, reviewVars, up, histVars, boundVars>>

\* create_requirement: a chunk that is gone makes no row.
Write(e, c) ==
  /\ Done(e, c) /\ c[1] \notin seen[e] \cup Keys(e)
  /\ IF c \in chunks[std[e]]
       THEN /\ made < MaxRows /\ made' = made + 1
            /\ row' = [row EXCEPT ![made + 1] = [std |-> std[e], text |-> c[1], chunk |-> c,
                                                 by |-> "nobody", method |-> "extracted",
                                                 is |-> "current"]]
       ELSE UNCHANGED <<row, made>>
  /\ UNCHANGED <<chunks, ready, job, pc, std, known, seen, rejecting, reviewVars, up, histVars, boundVars>>

\* mutant: what it read is superseded, whoever has decided on it since
Supersede_Blindly(e) ==
  /\ At(e, "write") /\ read[e] = {}
  /\ row' = [i \in Rows |-> IF i \in {k[2] : k \in known[e]} /\ row[i].is = "current"
                             THEN [row[i] EXCEPT !.is = "superseded"] ELSE row[i]]
  /\ IF e = worker THEN Goto(e, "end") /\ UNCHANGED <<std, read, known, seen>> ELSE Leave(e)
  /\ UNCHANGED <<chunks, ready, made, job, rejecting, reviewVars, up, histVars, boundVars>>

\* _supersede: what has not been met again.  The administrator has the answer;
\* a job goes on to the tables.
Supersede(e) ==
  /\ At(e, "write") /\ read[e] = {}
  /\ row' = [i \in Rows |-> IF i \in {k[2] : k \in known[e]} \cap Supersedable(std[e])
                             THEN [row[i] EXCEPT !.is = "superseded"] ELSE row[i]]
  /\ IF e = worker THEN Goto(e, "end") /\ UNCHANGED <<std, read, known, seen>> ELSE Leave(e)
  /\ UNCHANGED <<chunks, ready, made, job, rejecting, reviewVars, up, histVars, boundVars>>

\* run_extraction_job: done, ...
End ==
  /\ At(worker, "end")
  /\ job' = [job EXCEPT ![std[worker]].state = JOB_DONE]
  /\ Leave(worker)
  /\ UNCHANGED <<libraryVars, rejecting, reviewVars, up, histVars, boundVars>>

\* ... or failed, with another attempt or without.
Failed(e) ==
  /\ job' = IF e # worker THEN job
            ELSE [job EXCEPT ![std[e]] =
                    [state |-> StateAfterFailure(@.retries, MaxRetries),
                     retries |-> RetriesAfterFailure(@.retries, MaxRetries), fresh |-> @.fresh]]
  /\ Leave(e)
  /\ UNCHANGED <<libraryVars, rejecting, reviewVars, up, histVars, editions>>

Raise(e) ==
  /\ pc[e] \in {"load", "match", "seed", "write", "end"} /\ Event
  /\ Failed(e)

Refused(e) ==
  /\ At(e, "write")
  /\ \E k \in known[e], c \in read[e] \ chunks[std[e]] :
       c = First(read[e]) /\ k[1] = c[1] /\ k[2] \in Supersedable(std[e])
  /\ UNCHANGED events
  /\ Failed(e)

-----------------------------------------------------------------------------
(* The chunks. *)

\* Where a row's sentence is in new chunks: its own chunk, or another on its page.
Home(i, new, moved) ==
  IF row[i].chunk \in new THEN {row[i].chunk}
  ELSE {c \in new : c[1] = row[i].text /\ c[1] \notin moved}

\* reattach_requirements_after_rechunk: a row without a chunk to go to is
\* superseded, but one a person has confirmed.
Reattached(i, new, moved) ==
  IF row[i].chunk = NoChunk \/ row[i].is \notin {"current", "superseded"} THEN row[i]
  ELSE IF Home(i, new, moved) # {}
         THEN [row[i] EXCEPT !.chunk = CHOOSE c \in Home(i, new, moved) : TRUE]
         ELSE [row[i] EXCEPT !.chunk = NoChunk,
                             !.is = IF row[i].by = "person" THEN @ ELSE "superseded"]

\* chunk_document, asked for by an administrator: sentences go, come, move to
\* another page or stay.
Rechunk(d) ==
  /\ up /\ editions < MaxEditions
  /\ editions' = editions + 1
  /\ \E new \in SUBSET (chunks[d] \cup Sentences \X {editions + 1}), moved \in SUBSET Sentences :
       /\ \A a, b \in new : a[1] = b[1] => a = b
       /\ chunks' = [chunks EXCEPT ![d] = new]
       /\ row' = [i \in Rows |-> IF row[i].std = d THEN Reattached(i, new, moved) ELSE row[i]]
  /\ ready' = ready \ {d}
  /\ UNCHANGED <<made, job, threadVars, rejecting, reviewVars, up, histVars, events>>

\* The worker indexes and embeds them; a standard that is ready ...
Finish(d) ==
  /\ up /\ At(worker, "idle") /\ d \notin ready
  /\ ready' = ready \cup {d}
  /\ Goto(worker, "hook") /\ std' = [std EXCEPT ![worker] = d]
  /\ UNCHANGED <<chunks, row, made, job, read, known, seen, rejecting, reviewVars, up, histVars, boundVars>>

\* mutant: the queue is not told
Hook_Forgets ==
  /\ At(worker, "hook")
  /\ Leave(worker)
  /\ UNCHANGED <<libraryVars, job, rejecting, reviewVars, up, histVars, boundVars>>

\* _queue_extraction_if_standard: ... is queued.
Hook ==
  /\ At(worker, "hook")
  /\ Enqueue(std[worker])
  /\ Leave(worker)
  /\ UNCHANGED <<libraryVars, rejecting, reviewVars, up, overlapped, settled, agreed, boundVars>>

-----------------------------------------------------------------------------
(* decide_requirement: of any row an engineer has an id of, also from a list
   that is not current any more. *)

Decides(i) ==
  /\ up /\ row[i].is \in {"current", "superseded"} /\ Event

\* current_admin has no identity to give while authentication is disabled: the
\* row is a human's by its method, and confirmed by nobody.
Deciders == IF AuthDisabled THEN {"person", "nobody"} ELSE {"person"}

Confirm(i, who) ==
  /\ Decides(i)
  /\ row' = [row EXCEPT ![i].by = who, ![i].method = "human"]
  /\ UNCHANGED <<chunks, ready, made, job, threadVars, rejecting, reviewVars, up, histVars, editions>>

Edit(i, who) ==
  /\ Decides(i)
  /\ row' = [row EXCEPT ![i].by = who, ![i].method = "human", ![i].text = Corrected]
  /\ settled' = settled \cup {<<row[i].std, row[i].text>>}
  /\ UNCHANGED <<chunks, ready, made, job, threadVars, rejecting, reviewVars, up,
                 overlapped, missed, agreed, editions>>

\* orphan_guard.findings_orphaned_by
Cited(i) == \E v \in Reviews : review[v] = "written" /\ i \in reads[v]

\* orphan_guard.check: a row that findings cite goes only if the engineer says so.
Reject(i, acknowledge) ==
  /\ Decides(i)
  /\ Cited(i) => acknowledge
  /\ rejecting' = rejecting \cup {i}
  /\ agreed' = IF acknowledge THEN agreed \cup {i} ELSE agreed
  /\ UNCHANGED <<libraryVars, job, threadVars, reviewVars, up, overlapped, missed, settled, editions>>

Delete(i) ==
  /\ i \in rejecting
  /\ rejecting' = rejecting \ {i}
  /\ row' = [row EXCEPT ![i].is = "deleted"]
  /\ settled' = settled \cup {<<row[i].std, row[i].text>>}
  /\ UNCHANGED <<chunks, ready, made, job, threadVars, reviewVars, up, overlapped, missed, agreed,
                 boundVars>>

-----------------------------------------------------------------------------
(* A review, as far as requirements go: run_comparison loads the current ones
   and, much later, writes the findings that cite them. *)

LoadRequirements(v) ==
  /\ up /\ review[v] = "new" /\ Event
  /\ review' = [review EXCEPT ![v] = "loaded"]
  /\ reads' = [reads EXCEPT ![v] = UNION {Current(d) : d \in Standards}]
  /\ UNCHANGED <<libraryVars, job, threadVars, rejecting, up, histVars, editions>>

WriteFindings(v) ==
  /\ review[v] = "loaded"
  /\ review' = [review EXCEPT ![v] = "written"]
  /\ UNCHANGED <<libraryVars, job, threadVars, rejecting, reads, up, histVars, boundVars>>

-----------------------------------------------------------------------------
(* The server. *)

Crash ==
  /\ up /\ Event
  /\ up' = FALSE
  /\ missed' = IF At(worker, "hook") THEN missed \cup {std[worker]} ELSE missed
  /\ pc' = Idle /\ std' = Nowhere /\ read' = Nothing /\ known' = Nothing /\ seen' = Nothing
  /\ rejecting' = {}
  /\ review' = [v \in Reviews |-> IF review[v] = "loaded" THEN "new" ELSE review[v]]
  /\ UNCHANGED <<libraryVars, job, reads, overlapped, settled, agreed, editions>>

\* A claim nobody works on gets old.
Age(d) ==
  /\ job[d].state = JOB_RUNNING /\ job[d].fresh /\ std[worker] # d
  /\ job' = [job EXCEPT ![d].fresh = FALSE]
  /\ UNCHANGED <<libraryVars, threadVars, rejecting, reviewVars, up, histVars, boundVars>>

\* mutant: nothing is put back in the queue
Start_Recovers_Nothing ==
  /\ ~up /\ up' = TRUE
  /\ QuickRestarts \/ \A d \in Standards : ~(job[d].state = JOB_RUNNING /\ job[d].fresh)
  /\ UNCHANGED <<libraryVars, job, threadVars, rejecting, reviewVars, histVars, boundVars>>

\* recover_stale_extraction_jobs, at start-up only and of old claims only.
Start ==
  /\ ~up /\ up' = TRUE
  /\ QuickRestarts \/ \A d \in Standards : ~(job[d].state = JOB_RUNNING /\ job[d].fresh)
  /\ job' = [d \in Standards |-> IF job[d].state = JOB_RUNNING /\ ~job[d].fresh
                                   THEN [job[d] EXCEPT !.state = JOB_QUEUED] ELSE job[d]]
  /\ UNCHANGED <<libraryVars, threadVars, rejecting, reviewVars, histVars, boundVars>>

-----------------------------------------------------------------------------
Extract(e) ==
  \/ Load(e) \/ Match(e) \/ Seed(e) \/ Supersede(e) \/ Refused(e)
  \/ \E c \in read[e] : Skip(e, c) \/ Write(e, c) \/ \E i \in Rows : Again(e, c, i)

Work == Extract(worker) \/ End \/ Hook \/ \E d \in Standards : Claim(d) \/ Finish(d)

Next ==
  \/ Work \/ Crash \/ Start
  \/ \E c \in Callers : Extract(c)
  \/ \E e \in Extractors : Raise(e)
  \/ \E d \in Standards :
       \/ Request(d) \/ Cancel(d) \/ Rechunk(d) \/ Age(d)
       \/ \E c \in Callers : Call(c, d)
  \/ \E i \in Rows :
       \/ Delete(i)
       \/ \E who \in Deciders : Confirm(i, who) \/ Edit(i, who)
       \/ \E acknowledge \in BOOLEAN : Reject(i, acknowledge)
  \/ \E v \in Reviews : LoadRequirements(v) \/ WriteFindings(v)

Fairness == WF_vars(Work) /\ WF_vars(Start) /\ \A d \in Standards : WF_vars(Age(d))

Spec == Init /\ [][Next]_vars /\ Fairness

-----------------------------------------------------------------------------
ROW == [std : Standards \cup {NoStandard}, text : Sentences \cup {Corrected},
        chunk : Chunks \cup {NoChunk}, by : {"nobody", "person"},
        method : {"extracted", "human"}, is : {"none", "current", "superseded", "deleted"}]

\* The types, and that rows are written in the order of their numbers.
TypeOK ==
  /\ chunks \in [Standards -> SUBSET Chunks] /\ ready \subseteq Standards
  /\ row \in [Rows -> ROW] /\ made \in 0..MaxRows
  /\ \A i \in Rows : i > made <=> row[i].is = "none"
  /\ \A i \in Rows : row[i].is # "none" => row[i].std \in Standards
  /\ job \in [Standards -> [state : JOB_STATES \cup {"none"}, retries : 0..MaxRetries,
                            fresh : BOOLEAN]]
  /\ pc \in [Extractors -> {"idle", "load", "match", "seed", "write", "end", "hook"}]
  /\ std \in [Extractors -> Standards \cup {NoStandard}]
  /\ \A e \in Extractors : pc[e] # "idle" => std[e] \in Standards
  /\ read \in [Extractors -> SUBSET Chunks]
  /\ known \in [Extractors -> SUBSET ((Sentences \cup {Corrected}) \X Rows)]
  /\ seen \in [Extractors -> SUBSET (Sentences \cup {Corrected})]
  /\ rejecting \subseteq 1..made
  /\ review \in [Reviews -> {"new", "loaded", "written"}] /\ reads \in [Reviews -> SUBSET Rows]
  /\ up \in BOOLEAN
  /\ overlapped \subseteq Standards /\ missed \subseteq Standards
  /\ settled \subseteq Standards \X (Sentences \cup {Corrected}) /\ agreed \subseteq Rows
  /\ editions \in Editions /\ events \in 0..MaxEvents

\* "A human's decision outranks a re-parse" (extract_requirements): what a
\* person has confirmed or corrected stays, in their words, whatever run was
\* under way, until somebody decides again.  Where authentication may be
\* disabled it is promised only to the rows that name who decided: the others
\* are superseded by the next run (_SUPERSEDABLE), decided on or not.
DecidedByNobody(i) == AuthDisabled /\ (Confirm(i, "nobody") \/ Edit(i, "nobody"))

DecisionsStand ==
  [][\A i \in Rows :
       /\ i \in Current(row[i].std) /\ row[i].method = "human"
       /\ AuthDisabled => row[i].by = "person"
       => \/ /\ row'[i].is = "current" /\ row'[i].method = "human"
             /\ row'[i].text \in {row[i].text, Corrected}
             /\ row'[i].by = "person" \/ DecidedByNobody(i)
          \/ row'[i].is = "deleted" /\ i \in rejecting]_vars

\* "A duplicate requirement is not a second requirement" (extract_requirements):
\* a standard's current requirements have each sentence once, unless two
\* extractions of it were under way together.
OneRowPerSentence ==
  \A d \in Standards \ overlapped : \A i, j \in Current(d) :
    row[i].text = row[j].text /\ row[i].text # Corrected => i = j

\* The text of a standard has been read, as far as anybody can see.
Finished(d) ==
  /\ d \in ready /\ job[d].state = JOB_DONE
  /\ \A e \in Extractors : std[e] # d
  /\ d \notin overlapped \cup missed

\* When the last job of a ready standard is done, its requirements are those of
\* the text it has now: none is missing, unless a person has settled it, and
\* none that nobody has decided on is left from a text before
\* (run_extraction_job, chunk_document and _queue_extraction_if_standard together).
TextIsRead ==
  \A d \in Standards : Finished(d) =>
    /\ \A c \in chunks[d] : \/ <<d, c[1]>> \in settled
                            \/ \E i \in Current(d) : row[i].text = c[1]
    /\ \A i \in Current(d) : row[i].method = "extracted" => \E c \in chunks[d] : row[i].text = c[1]

\* "Orphaning can no longer happen by default or silently" (orphan_guard.py): a
\* requirement that a finding cites is gone only if the engineer who rejected
\* it said that it might be cited.  It does not hold.
FindingsResolve ==
  \A v \in Reviews : review[v] = "written" =>
    \A i \in reads[v] : row[i].is = "deleted" => i \in agreed

\* Every extraction that is queued, running or to be tried again ends
\* (recover_stale_extraction_jobs: "the orphan nobody would ever see").
ExtractionEnds ==
  \A d \in Standards : job[d].state \in PENDING ~> job[d].state \notin PENDING
=============================================================================
