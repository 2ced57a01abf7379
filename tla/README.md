# A verification of the document backend

TLA+ models of the parts of this repository that keep state over time, TLC
configurations that check them on small instances, and proofs, checked by
TLAPS, of what matters most for every size.  Paths without a directory are
under `src/backend/app/`.

    tlc -workers 2 -config IngestCrash.cfg MCIngest       # one run
    tlapm IngestProofs.tla                                # one module of proofs

- [The system](#the-system): inventory, component by component
- [The modules](#the-modules): which models what, and how state and actions correspond
- [The runs](#the-runs): questions, bounds, fairness
- [The proofs](#the-proofs)
- [What the code does otherwise than it says](#what-the-code-does-otherwise-than-it-says)
- [What is not modelled](#what-is-not-modelled) and [The plan](#the-plan)

## The system

A private document-intelligence server: PDFs and workbooks are uploaded,
extracted, chunked, recognised, indexed and embedded; engineers search them,
chat over them, and have submittals reviewed against standards.  A FastAPI
process (`main.py`) holds request threads, one ingestion worker thread, one
review worker thread and a folder watcher.  Everything shared is in one SQLite
file, apart from the spend ledger, the answer cache and lock files, which other
processes (scripts, evaluation) use at the same time.  The Claude API is
outside, reached directly or by Message Batches.

| Component | State it keeps | Operations | Talks to |
|---|---|---|---|
| Arrival (`upload.py`, `watcher.py`, `api/documents.py`) | a stored file, a row with its job, grants, watch events; the watcher's memory | find a duplicate, store, insert, lose the race, grant, delete; visit, hash, read, refuse, report | ingestion |
| Ingestion (`ingest.py`, `states.py`, `extract.py`, `ocr.py`, `chunker.py`, `fts_index.py`) | a document's status, pages, recognised text, chunks, keyword rows, vectors, counts; claim | claim, extract batch by batch, chunk, index, recognition round, embed, finish, fail, release, stop | job queue (same rows), administrator routes that run the same stages (`api/documents.py`), re-route script |
| Job queue (`job_queue.py`) | state, retries, checkpoint, claim of a job | claim, fail with back-off, poison, cancel, recover stale | used by ingestion, reviews and standards |
| Requirements (`standards.py`, `orphan_guard.py`, part of `chunker.py`, `ingest.py`, `submittal_review.py`) | rows read out of a standard's chunks, an extraction job per standard, the findings that cite rows | queue, claim, extract sentence by sentence, supersede, re-attach after a re-chunk, confirm, edit, reject, delete, recover | ingestion (its worker runs the jobs, its finish queues them), reviews |
| Reviews (`review_jobs.py`, `review_recovery.py`, `worker_review.py`, `nothing_read.py`) | a run row and a job row per review, its findings | enqueue, claim, three steps, write, finish, cancel in two transactions, recover | comparison engine, Claude lane, start-up in `main.py` |
| CRS numbers (`crs_numbers.py`, `crs_carry.py`, part of `main.py`) | numbers per sequence with status, words, issue and reply; the sequence a document is fixed to | number a finished run, mint on a decision, withdraw, reply, close, compose the sheet | reviews, the engineer's routes |
| Spend ledger (`claude_spend.py`, `claude_spend_report.py`, `compile_budget.py`) | a file of lines: reserved, settled, released | reserve all calls of a request, settle, release, sum under caps by step, run, day and total | every caller of the Claude API, in every process, through a file lock |
| Message Batches (`claude_batch_run.py`, `claude_batch_store.py`) | batch rows, request rows with attempts, holds in the ledger | submit in slices, record, poll, cancel, read results, charge what is missing, late rows, normal sends | ledger, answer cache, Batch API |
| Heavy-job lock (`heavy_lock.py`) | one lock file, a marker per waiting job | create, write, read, judge stale, take over, mark, poll, sweep, release | every heavy job of every process |
| AI task queue (`ai_task_runner.py`) | task rows with a state and a result | recover, pause, look for waiters, select, claim, run and record | heavy-job lock |
| Workbooks, reading state (`sheet_chunks.py`, `reading_state.py`) | withheld sheets, a hold on `ready` | withhold, confirm, `finish_status` | ingestion |
| Search (`search.py`, `vector_store.py`, `reranker.py`) | caches of vectors | rank | reads the indexes |
| Comparison and applicability (`comparison.py`, `applicability_v2.py`, `claims.py`) | findings of a run | deterministic judgements | reviews |
| Answer cache, approvals (`claude_answer_cache.py`, `claude_approved.py`) | files of answers | look up, store, approve | Claude lane |
| Chat, agents, identity, page ledger, frontend, scripts | see [What is not modelled](#what-is-not-modelled) | | |

### What is hard in it, and what makes it correct

**Arrival.**  One content can come twice at once, by two routes or by a route
and the folder, while a deletion of it is on its way; a file in the folder may
still be growing; the server can die between the stored file, the row and the
grant.  It is correct when a row has its file, somebody can see every document,
and no dropped file is refused in silence.

**Ingestion.**  A stage is many transactions; between any two of them the
process can be killed, another worker can take the document over when the claim
is fifteen minutes old, and an administrator can run a stage by hand.  It is
correct when an answerable document is exactly indexed, no page is skipped by a
resume, no vector outlives its chunk, `ready` is not said early, two workers
never share a document, a status changes only the way `states.py` allows,
nothing is stranded, and every document ends.

**Requirements.**  An extraction reads the chunks once, decides sentence by
sentence what to write, and supersedes at the end what it did not meet; a
re-chunk, a decision or another extraction can come between any two of these,
and a person's decision outranks all of them.  It is correct when a sentence has
one current row, the rows are those of the text there is, a decision stands,
every extraction ends and a finding cites a row that exists.

**Reviews.**  Two rows describe one review and are written together in most
places but not in all; a cancel is two transactions; a server that starts must
tell dead jobs from live ones.  It is correct when the two rows agree on how it
ended, an active run has a job, an ended review is over for good, every review
ends, a cancel is honoured, and two reviews do not both make the first
comparison of a submittal.

**CRS numbers.**  A number is chosen by reading and claimed by writing; two
threads number the same document, or decide and number at once, and a write may
raise half-way.  It is correct when numbers are given once and in order, a
document keeps one sequence, a settled comment does not disappear, what is
confirmed is issued, and the contractor is told only what an engineer confirmed.

**Spend ledger.**  Processes race for the last dollar, die while a line is being
written, and cross midnight with calls out.  It is correct when no cap is ever
passed and no bill is larger than what the lines show.

**Batches.**  The process can die inside `create`, between a settlement and the
commit after it, and while it reads results; results may be missing and turn
up late.  It is correct when whatever may be billed is held or charged, nothing
is out twice, and an answer that was read is used.

**Lock and task queue.**  The lock file is empty before it has its record;
judging it stale, removing it and creating it are separate calls of processes
that may die or be slow.  They are correct when one job holds the lock, a task is
read once, and a batch lets a waiting job past.

`PROJECT.json` lists each hazard at its line with the properties about it.

## The modules

| Module | Models | Lines of code |
|---|---|---|
| `DocumentStates` | the statuses of a document and the legal transitions | `states.py` |
| `JobStates` | the states of a job; what a failure makes of one | `job_queue.py` |
| `DocumentLifecycle` | the abstract lifecycle: any legal transition, of any document | `states.py` |
| `Ingest` | the pipeline in full; implements `DocumentLifecycle` | `ingest.py` and the stages |
| `Arrival` | uploads, the watched folder, deletion | `upload.py`, `watcher.py`, `api/documents.py` |
| `Requirements` | the requirements of standards, with the jobs that extract them and the reviews that cite them | `standards.py`, `orphan_guard.py`, ... |
| `ReviewJobs` | the review queue | `review_jobs.py`, `review_recovery.py`, ... |
| `CommentRegister` | the abstract register: numbers are given once, in order, for ever; what is issued stays issued | what `crs_numbers.py` promises |
| `CrsNumbers` | numbering, minting and deciding; implements `CommentRegister` | `crs_numbers.py`, `crs_carry.py`, `main.py` |
| `SpendBudget` | the abstract budget: reserve, send, settle under one cap | what `claude_spend.py` promises |
| `SpendLedger` | the ledger in full; implements `SpendBudget` | `claude_spend.py`, `compile_budget.py` |
| `ClaudeBatch` | `run_many` and the Batch API | `claude_batch_run.py`, `claude_batch_store.py` |
| `HeavyLock` | the lock file and its markers | `heavy_lock.py` |
| `AiTaskQueue` | `HeavyLock` composed with the batches that work under it; implements `HeavyLock`'s specification | `ai_task_runner.py` |
| `MC...` | instances for TLC: functions and sequences a `.cfg` cannot write, symmetry | |
| `...Proofs` | theorems about the module they extend | |

**`Ingest`.**  A step is one SQLite transaction, or one read whose result is
used later.  A thread's local variables are variables: the batch it is at
(`next`), the chunks it built or selected (`snap`), the pages of its recognition
round (`round`), whether text was found (`got`), the status `_set_state` goes
to (`target`).  So the window between `chunk_document`'s read and its write, or
between `_finish_if_embedded`'s read and its stamp, is there to be interleaved
with.  `NextDocument` is `_claim` over `Candidates` (the three queries of
`_next_document` in order); `Loop` is the dispatch of `process`;
`ExtractBegin`, `CommitBatch`, `ExtractEnd` are extraction; `ChunkLoad`,
`ChunkWrite`, `ChunkAdvance` chunking; `IndexDocument` the keyword index;
`OcrRound`, `OcrBatch`, `OcrEnd` a recognition round; `Recount`, `EmbedSelect`,
`EmbedBatch`, `EmbedEnd` embedding; `FinishRead`, `FinishEmpty`,
`FinishReady`, `After` the finish; `Raise` an exception at any of these;
`Call` an administrator's request, which runs the same stages with no claim;
`Reroute` the script that sends pages to recognition again.
Text is abstracted to its source, so a chunk is a page and where its text came
from; that is what chunk ids, signatures and the reuse of vectors depend on.
Order in a batch does not matter after selection, so an embedding batch is any
subset of at most the batch size.  The claim's age is one bit, `fresh`; a dead
process's name is `Gone`, as no worker has it again.  The back-off of a retry is
left out, as it always runs out.

**`Arrival`.**  A document is its content, as its id and the name of its file
come from the hash.  A thread is an upload request or the watcher; `Find`,
`Store`, `Insert`, `Lost` and `Grant` are `upload.ingest` and the two callers'
part after it, a step each.  `at` is what the watcher has of its file: the version
it decides about, the hash of its first read, which is what it reports and
remembers, and whether it reports a duplicate; `content` is what the second read
found, which `upload.ingest` goes by.  `Visit`, `Hash`, `Known`, `OwnerFails`, `Read`, `Refuse` and
`Event` are a scan of the watcher over one file; `BeginCopy`, `EndCopy`, `TakeAway` what
people do to the folder, where a version stands for size and time.  `Erase` is
the deletion: the row goes first, the file later (`erasing`).  `Crash` loses the
watcher's memory, which the next scan builds again.  `Corpus` is what the table
holds at the start.  `told` (hashes that an event reported as a duplicate's),
`silent`, `orphaned` and `cut` are history.

**`Requirements`.**  A chunk is its sentence and the edition of the text it was
made in; rows are numbered in the order they are written.  An extractor is the
worker or an administrator's request: `Load` reads the chunks, `Match` the rows
to meet again, `Seed` the sentences other rows have, `Skip`, `Again` and `Write` are
one sentence each, `Supersede` is the end.  `Rechunk` is a re-chunk with
`reattach_requirements` in its transaction; `Finish` and `Hook` the `ready` stamp
and the queueing after it.  `Confirm`, `Edit`, `Reject`, `Delete` are the routes,
`LoadRequirements` and `WriteFindings` what a review reads and writes.  Of a
decision a row keeps two things that the code reads apart: that a person made it
(`method`), and who (`by`, for `confirmed_by`).  `Deciders` are the identities a
request can have: where authentication may be disabled (`AuthDisabled`), also none.
`overlapped`, `missed`, `settled` and `agreed` are history: standards with two
extractions at once, standards whose hook was lost, sentences a person settled,
and rejections that were acknowledged.

**`ReviewJobs`.**  A review is an index with its run row and its job row.  Each
request of two transactions leaves an entry in `cancelling` between them.  The
steps of a review differ only in where a cancel or a failure can meet them;
findings are one bit, "undecided findings exist".  `Crash` takes all threads,
`Start` is start-up's two sweeps in their order; `Age` lets a claim go stale
also under a live worker, which the code does not rule out.

**`CrsNumbers`.**  A writer is a thread in `number_crs_rows` or
`_mint_crs_numbers`; its local state is a record, `job`, with what it read when it
began.  `Scope` and `Fix` choose and fix the document's sequence, `Claim` takes the
next number, `Issue`, `Snap` and `Reopen` are the other statements of `assign`,
`WithdrawLook` and `WithdrawWrite` those of `withdraw`.  `Confirm` and `Reject` are the
engineer's writes, `set_response` and `set_status` a reply and the reviewer's
hand on the status, `EditNumber` a change of the document's number.  `Copy` is the sheet
the contractor gets.  Of words only what tells two wordings apart is kept.

**`SpendLedger`.**  `ledger` is the set of lines; the order of lines is never
read.  `Ask` takes the total of the day into `caps`, before the lock, as
`reserve_all` does; what the code does under the lock, summing the lines at the
prices of that moment and checking every cap, is the step `reserve_all`, and the
lines follow one by one (`Append1`), so a death leaves a prefix, and a line being
written may be torn.  `bill` is what the API will ask for each call: the program
never reads it except through the usage a reply reports.  Time is a counter of
ticks with `TicksPerDay`; `Late` says whether a call may be settled after its
hold left the day's window; `ReleasesHolds` turns on the release of left-over
holds, which is an abstract write-off.  USD are small numbers, and a set of lines
is summed dollar by dollar, as the number of pairs of a line and one of its
dollars: rounding is not modelled.

**`ClaudeBatch`.**  One run at a time over a fixed set of requests, with a
state for every pair of writes a death can come between.  A batch's reservation
is named by batch and request.  `SliceSizes` are how many requests a batch may
have: the code cuts by their number and by their bytes.  `ApiEnds` and `TurnsUp` are the API: a request
of an ended batch succeeded, was not billed, or has no row, which may turn up
later.  `tries`, `torn`, `seen`, `normal` are history variables that properties
speak about and no action reads.

**`HeavyLock`, `AiTaskQueue`.**  A job is one attempt to work under the lock,
named by its token.  `Create` and `Write` are two steps, so are `Read` and `Remove`,
and `Release` and `Unlink`: what the file says may change between any two.  Time is
only what it does to a record: `Outlive` makes one older than three hours.
`Mark`, `MarkWritten`, `Poll`, `GiveUp` and `Sweep` are the waiting side.  A batch
of `AiTaskQueue` is a job that tries the lock once; while it holds, `Recover`,
`Pause`, `LookForWaiters`, `Select`, `Claim` and `RunTask` are its steps.

The definitions marked `mutant` in a module are not part of a specification:
each is a plausible mistake in the definition it stands beside, kept to
show that a property would notice.

## The runs

All pass except the three of the last part.  Times are with two workers.

| Run | Question | Instance |
|---|---|---|
| `ingest_crash` | Does a scanned document always end, and never look better than it is, while stages raise, the process is killed or stopped, and its waiting retry is cancelled? | 2 workers, 1 document, new or at a retired status, of 3 pages in batches of 2, 2 pages to recognise one at a time, 1 retry, 2 kills or stops; 163 000 states |
| `ingest_requests` | Do an administrator's requests, at any moment, leave the indexes exact, also of documents of earlier builds? | 1 worker and 1 caller with extract, chunk, forced chunk, embed, index and re-route; a document of 2 pages to recognise, one with a text layer, that is new, at a retired status, or ready under an older routing rule; 217 000 states |
| `arrival_crash` | What becomes of one content that is uploaded, dropped and deleted at once? | 1 upload, 1 watched file with 3 versions, 1 deletion, a document of that content from the start, 1 failing step, 1 death; 1 780 000 states, 2 minutes |
| `requirements_crash` | Are the requirements of a standard those of its text, each once, with every decision kept? | 1 standard of 2 sentences, the worker and 1 administrator, 1 review, 2 editions of the text, 9 rows, 1 retry, and 2 events, each a request, a decision (with an identity or without), a review, an exception or a death; 960 000 states, 4 minutes |
| `review_crash` | Reviews that fail, are retried and cancelled, on a server that dies or whose last write fails. | 2 reviews of 1 or 2 submittals, 1 retry, 1 fault; 400 000 states |
| `crs_at_once` | Two reviews of a document are numbered and decided at once. | 1 document with at most 1 number, 2 comments, 2 writers, 1 engineer's write, 1 reply, closure or edit, 1 write that raises; 780 000 states |
| `spend_race` | Two processes at the edge of every cap, over midnights and the day a raised total lapses, one of which may die, its holds dropped later. | 3 calls of 1 and 2, alone and in pairs, in a run, outside one and for a standard; caps of 1 to 5, a total of 5 that lapses to 2; a day of 2 ticks; 1 300 000 states, 2 minutes |
| `batch_crash` | Batches resumed, cancelled, read late and sent again by a process that dies at any write. | 2 requests in one slice or two, 3 batches, 2 runs, 1 death; 4 440 000 states, 2 minutes |
| `queue_and_lock` | Two batches and a job that waits share the machine. | 3 jobs, 2 tasks, 1 death, 1 record that grows too old; 2 740 000 states |
| `ingest_recognised_text_lost` | see below | 1 kill |
| `crs_unread_words` | see below | 1 thread, two reviews in turn |
| `finding_orphaned` | see below | 1 sentence, 1 review, 1 rejection |

What they show:

- `ingest_crash`: `FinishedWhole` (`ready` only with every vector, no final status
  with a page unread), `NotStranded` (what is unfinished is in somebody's hands or
  claimable, unless it failed after its stamp), `OneWorkerPerDocument`, `TextComplete`, the
  refinement `LegalLifecycle`, and `Settles`.
- `ingest_requests`: `AnswerableIndexed`, `NoOrphanVectors`, `CheckpointCovered`, and
  `SettlesAfterUpgrade`: once the requests end, everything left behind finishes, and
  has its pages read unless it failed.
- `arrival_crash`: `FileKept` (a row has its file, unless a deletion took it from
  an upload that had found it), `VisibleToSomebody` (or its grant was lost),
  `EveryDropReported` (a file left in the folder is decided about, and an event
  reports this version of it or its hash as a duplicate's, unless a step outside
  the watcher's handlers raised, or its hash was reported in the place of another's).
- `requirements_crash`: `OneRowPerSentence` (unless two extractions of the standard
  overlapped), `TextIsRead` (after the last job the rows are those of the text,
  unless extractions overlapped or the hook was lost), `DecisionsStand` (a decision
  stays until somebody decides again; where authentication may be disabled, one
  that names who decided), `ExtractionEnds`.
- `review_crash`: `EndsAgree`, `RunnerHoldsJob`, `ActiveHasJob`, `OneFirstReview`,
  `EndedForGood`, `ReviewEnds`, `CancelIsHonoured`.
- `crs_at_once`: the refinement `RegisterKept`, `OneSequence`, `ConfirmedIsIssued`
  (unless a write raised), `SettledKept`.
- `spend_race`: the refinement `BudgetKept`, `WithinCaps` (by step, run and day),
  `TornStops` (unless the request read the raised total before its midnight).
- `batch_crash`: `TypeOK` (with the bound on attempts), `BilledIsCharged`,
  `OneLiveSend`, `ReadOnceChargedOnce`, `ReadIsUsed`, `HoldsOwned` (unless its batch
  was never begun).
- `queue_and_lock`: `Exclusive` (unless a record grew too old or a removal raced),
  `ReadOnce` (a task's result is recorded once), `StepsAside` (a batch claims at
  most one task after a job put up its marker).

The "unless" of a property is a named history variable, or a condition on one,
set exactly where the code leaves the gap; each gap is described
[below](#what-the-code-does-otherwise-than-it-says).

### Bounds, and why they are enough

`MaxRestarts`, `MaxCrashes`, `MaxFaults`, `MaxDead` bound deaths; one reaches every
window between two transactions and, with two, a death during the recovery of
the first.  Three pages in batches of two give a full and a short batch, two
pages to recognise one at a time give a second round and a round cut short;
`Excluded` keeps one chunk out of the indexes.  Two workers are all that a
claim can be between.  `MaxRetries = 1` has a retry and a poisoning.

`MaxVersions`, `MaxUploads`, `MaxDeletes`, `MaxFails`: three versions are a file
half-copied, whole, and changed or taken away; an upload, the folder and a
deletion are the three that can meet at one content.  `Corpus` has that content, so
that a drop may be a duplicate from the first; the deletion makes it new.
`MaxRows`,
`MaxEditions`, `MaxEvents`: two editions are one re-chunk, which may come at any
step of an extraction; nine rows are more than two extractors can write in two
editions with two events, so the bound cuts nothing short; two events are a
decision and a death, a request and a decision, or two of a kind.
`AuthDisabled = TRUE` has both kinds of decision in one run; with `FALSE` every
property holds too, `DecisionsStand` then of every decision.

`MaxReviews = 2` has one review waiting, or a second of the submittal, while
another runs.  `MaxRunning = 1` is the default of `job_max_running` (`config.py:869`).  `MaxSeq`, `MaxWrites`, `MaxActs`, `MaxFails`: two comments are the
least that can be given one number or skip one, two writers the least that can
race; the numberings of both runs come on top of the one engineer's write.  In
the ledger two processes and three calls (`MaxCalls`) are enough for a request
of two calls to race with another at a cap; calls of 1 and 2 meet each cap
exactly and by one.  `MaxTicks` crosses the midnight at which the raised total
lapses, to a total under the day's cap, as the shipped settings have it, so that
a request that has read the raised total can pass a torn line.  In the batches two requests are the least for one to be missing while the
other is answered, and three batches (`MaxBatches`, over `MaxRuns`) let a request
go out twice after one it shared with another.  With the lock, two holders of
which one is slow (`MaxOutlived`) and a third that waits are all the roles there
are, and a stale take-over needs two that read one record.

Symmetry is used over processes in the ledger, jobs of a kind under the lock,
and keys and writers in the numbering, in runs whose properties are safety
and treat all of them alike.

Deadlock is not checked: each of these systems rests when its work, or a bound,
is used up.

### Fairness, and why the code justifies it

- `Ingest`: weak fairness of each worker's own step and of a caller's stage
  (threads run), of `Start` (a stopped server is started again; the crash action
  includes its restart), and of the ageing of a claim a dead process left (the
  clock).  Nothing makes anybody upload, request or cancel.  Two workers or a
  long step never make a live claim age in the runs (`SlowSteps = FALSE`): a
  step of fifteen minutes is possible, and the theorems cover it.
- `ReviewJobs`: weak fairness of claiming, of the worker's steps, of the sweep
  before each claim, of start-up, of a request's second transaction, and of the
  ageing of a claim.  Failing is not fair; retries are bounded by the code.
- `Arrival`: weak fairness of the watcher's scan, which is a loop of its thread.
  Uploads and copies owe nothing.
- `Requirements`: weak fairness of the ingestion worker's loop (`Work`), of `Start`,
  and of the ageing of a claim.  `QuickRestarts = FALSE`: a server that dies is not back
  within the fifteen minutes of a claim; see below for one that is.
- The ledger, the batches, the numbering, the lock and the task queue are checked for
  safety only: whether a call is ever answered is the API's business, and a job
  that waits for the lock gives up by itself.

## The proofs

The modules of proofs rest on the assumptions the modules they extend name
(`SizesAssumption`, `DataAssumption`, `ThreadsAssumption`, `ReviewAssumption`,
`BatchAssumption`, `CrsAssumption`, `LockAssumption`, `QueueAssumption`,
`ArrivalAssumption`, `RequirementsAssumption`, `LedgerAssumption`: naturals where
there is a number, a price and a window above nothing, disjoint names, sets
within the sets they are taken from).  Nothing else bounds documents, pages,
workers, callers, restarts, reviews, requests, jobs, tasks, contents, standards
or rows; steps may be slow, every request may be made, a server may be back at
once, unless a theorem says otherwise.  Those that do have an `ASSUME` of their
own, explained with them: `NoEarlyChunk`, `OnlyWorkersDrive`, `NoLateRelease`, `~Late`.

Every invariant and action property of a passing run is a theorem; its liveness
is not.

**`IngestProofs`.**  `TypeInv` is `TypeOK` and `Busy`: a thread that is not idle
has a document.  Without `Busy` the functions would be updated at `NoDoc`.
On it, besides `TypeCorrect` (the other modules of proofs have their `TypesHold`):

- `OrphanFree` (`NoOrphanVectors`): inductive with the types; `ChunkWrite`
  intersects and `EmbedBatch` meets the chunks of the moment.
- `KeywordSearchExact` (`AnswerableIndexed`): inductive with the types, as no
  action makes a document answerable except in the step that rebuilds its
  rows, or from a status that was answerable.
- `CheckpointHolds` (`CheckpointCovered`): needs `InOrder`, that a thread
  committing a batch has every page of the batches before in the database,
  which also covers two workers, or a worker and a caller, at different batches
  of one document.
- `NothingUnread` (`TextComplete`): needs `AllRead`, that whoever is past the
  extraction of a document has one with all its pages, and the assumption
  `NoEarlyChunk`: no chunk requests.  With them it is false; see below.
- `OneDriver` (`OneWorkerPerDocument`): needs `Claims`, that the document a
  worker drives is claimed in its name, and freshly, while nothing is slow.
- `NothingUnfinished` (`FinishedWhole`), `NoneStranded` (`NotStranded`) and the
  refinement `LifecycleLegal` (`LegalLifecycle`) are about documents that only
  workers take through their stages.  `OnlyWorkersDrive` says so: no live claim ages,
  and no request runs a stage by hand; index, cancel and re-route requests may
  come at any moment, and any worker may fail or die anywhere.  With the other
  requests they are false, see below.  `DriveInv` ties a worker's place to its
  document: at a stage the status is the stage's (`AtStage`), past recognition no
  page is left, and past an embedding round no vector is missing or the ones that
  are missing are in the worker's hand (`InHand`).  It needs `Claims`, as a second
  worker would move the document under the first.  `StampInv` adds what the stamp and
  the retry count say of each other, since the claim query reads both:
  a document that was stamped and has never failed is finished.  `NoneStranded` also
  assumes that nothing is re-routed, as a re-routed document is stranded by a
  kill.  Each stage then moves its document by one legal transition.

**`ArrivalProofs`.**  `FilesAreKept`, `DocumentsAreVisible` from the types and
`StoredOK`: what a thread is about to insert has its file in the store, or a
deletion has cut it.  The row and the file are written by different steps, so
neither property is inductive alone.

**`RequirementsProofs`.**  `NoSecondRow` (`OneRowPerSentence`): where no two
extractions overlapped, an extractor is `Alone` at its standard; `OneChunk` says
that the chunks it has left are of different sentences, `Covered` that whatever
row its standard currently has is among those it will meet again or has met, so
that what it writes is new.  `DecisionsAlwaysStand` (`DecisionsStand`) needs the types
and `Signed`, that where authentication is never disabled a decision names who
made it: for each action, what it may do to a row that a person has decided.
`DoneMeansRead` (`TextIsRead`) needs `TextInv`, about the standards that are ready and
had no overlap.  Being ready is what ties an extraction to the text: a re-chunk
takes it away, and only a worker with nothing in hand gives it back, so a worker
extracting a ready standard has read the chunks there are.  `Progress` then says,
for each place, what the extraction has come to: the sentences it is past have a
row or were settled (`SoFar`), a row it has not met again is still as it was
remembered, or a person has decided on it (`Remembers`), and every other row that
nobody has decided on is of the text.  A request's extraction need not have read
the present text, but while the last job is done and nothing was missed
(`Quiet`) it has: the only way to `Quiet` is the end of the worker's extraction,
with which another one would overlap.  `RowsKept` is the frame: what the decisions
of people, and extractions of other standards, leave true of a standard's rows.

**`ReviewJobsProofs`.**  `RunsAndJobsAgree`, `NothingTakesTheJob`, `EndedStaysEnded`
from one invariant: the types, `RunnerHoldsJob`, `EndsAgree`
and `Progress`, which says how far a run has come at each place of the worker
(its findings are there from the write on, the outcome once it is finishing)
and that a cancel between its transactions belongs to a cancelled job.
`ActiveIsCarried` and `NoSecondFirstReview` add `ActiveHasJob` and `OneFirstReview` to it.

**`CrsNumbersProofs`.**  `Types`, `CommentsOK` and `WritersOK` say what a writer may
believe at each of its places: that the sequence it works in is the one its
document is fixed to, or that the document is in `late`.  From them
`NumberedInOneSequence` (`OneSequence`), `SettledStaysSettled` (`SettledKept`) and the
refinement `NumbersImplementRegister` (`RegisterKept`): `Claim` is `Give`,
`Issue` is `Issue`, and every other step leaves numbers and issue alone.
`ConfirmedGetsIssued` (`ConfirmedIsIssued`) needs `ConfirmedOK`: while no write has
raised, a confirmed comment is `Settled` (issued in its document's sequence, or the
document is in `late`) or a writer that mints for its run is `AtWork`: it has still to
look, has seen the confirmation, or has the comment on its list.

**`SpendLedgerProofs`.**  `Core` is the types and what the lines say: a reservation
has one line and one end, a thread holds exactly what it reserved and has not
ended, what it is about to write is of its own holds, and no bill is above its
hold or its settlement.  `reserve_all` checks once and writes line by line, so a
cap alone is not inductive: `RoomLeft` says of a thread in the middle of its lines
that those to come still fit under every cap together with the lines there are.
It survives the other threads because only the thread that has the lock
reserves, and a settlement replaces a hold that was no smaller.  From them

- `StepsAndRunsWithinCap` and `NoCapPassed` (`WithinCaps`): the caps of steps and runs
  however late an answer is, the day's under `~Late`, for a call settled after
  its hold left the window is counted on a day that nobody has checked;
- `TornLineStops` (`TornStops`): a torn line is charged the total of the moment, next
  to which no call fits; the one way past it is a total that was read before the
  lock and is more than the present one;
- `LedgerIsBudget` (`BudgetKept`): `Append1` of a first line reserves, of a last one
  settles or releases, `Send` sends, the dropping of holds is the write-off, and
  the rest stutters; with it `NeverOverCap` and `NeverUnderBill`, which are proved
  of the abstract budget and carried over.

`NoLateRelease` is that nothing drops a hold whose call may still be settled
(`Late` and `ReleasesHolds` not both): otherwise two lines end one reservation; see
below.  Sums are cardinalities of sets of pairs, so that the lemmas about them
(what one line more, less or replaced does to a sum) follow from the library's
facts about finite sets, without induction.

**`ClaudeBatchProofs`.**  One invariant for `BilledIsOnLedger` (`BilledIsCharged`) and
`NeverOutTwice` (`OneLiveSend`): `CoreTypes` and `RunTypes`; `BatchesOK`, how a batch's
row follows what the API has; `LiveOwned`, that a request the API works on is
held for that batch; `ReadingOK` and `MakingOK`, what is true in the middle of
reading results and of making a batch, where a death leaves them.  A second one on
top of it, `Inv2`, for `BatchesTyped` (`TypeOK`, the bound on attempts with it),
`ChargedOnceIfRead` (`ReadOnceChargedOnce`), `NoHoldLostTrackOf` (`HoldsOwned`) and
`ReadIsNotBoughtAgain` (`ReadIsUsed`): what may be sent has an attempt left; a row
that says held is that of a batch not over; the rows a run has still to come to
are as it found them (`SnapOK`), which is what makes its read-then-write sound; an
open reservation is on file, still to be sent, or of a batch that was abandoned;
and a batch whose read was never cut off has charged nothing before it is read.
Its parts need each other, and each is proved for each action in a lemma of its
own.

**`AiTaskQueueProofs`.**  `LockIsExclusive` (`Exclusive`) from the types and
`FileOfOwner`: a holder that has not outlived its record or lost a race has its
record in the file.  `QueueImplementsLock`: each step of the queue is a step of
the lock or leaves it alone, so `QueueIsExclusive` follows.  `TasksReadOnce`
(`ReadOnce`) adds that a running task is at the batch that holds the
lock; `BatchStepsAside` (`StepsAside`) `MarkInv` and `StoodInv`, what has become of the
markers that stood at a batch's last claim.

Only model-checked is all liveness (`Settles`, `SettlesAfterUpgrade`, `ReviewEnds`,
`CancelIsHonoured`, `EveryDropReported`, `ExtractionEnds`): fairness and `ENABLED` are out
of the prover's reach.

## What the code does otherwise than it says

Kept as runs, each of which ends in a violation:

- `ingest_recognised_text_lost` (`ReadyReflectsText`).  A kill between the commit
  of recognised pages and the move back to chunking leaves no page pending; the
  document becomes `ready` and the recognised text is in no chunk.  `ingest.py`
  promises that it becomes searchable.
- `crs_unread_words` (`IssuedIsConfirmed`).  A confirmed and issued comment whose
  words the next review changes takes them from the draft under its issued
  number; the sheet composed next finds the two alike and carries the
  confirmation onto words nobody has read.  `crs_carry.py:1-2` says that a
  confirmation is for the words it was given to.
- `finding_orphaned` (`FindingsResolve`).  A review loads the requirements; one is
  rejected, which no finding cites as yet; the review then writes a finding that
  cites a row that is gone.  `orphan_guard.py:44` says that it cannot happen.

Seen while modelling, and described here only.  Ingestion:

- A finished document keeps the counts of its first pass; re-routed to recognition
  and killed on its way, it is at `partially_searchable` with counts that say
  finished, and no claim query takes it (`ingest.py:276`).  `ingest_requests`
  re-routes on a server that stays up.
- A document that fails after its stamp is queued again, and chunked anew on the
  retry; neither the stamp nor the count of embedded chunks is cleared
  (`chunker.py:3244-3248`).  Killed between the indexing and the recount, it is at
  `partially_searchable` with a stamp and counts that say finished, and no claim
  query takes it: the exception in `NotStranded`.  It takes a page that can be
  found and whose recognised text replaces a text layer, so that the count stays
  as it was.  `ingest_crash` has none, so that its document may also end with no
  content; with `NativeText = {1, 2}` instead, TLC reaches the exception, and
  every property of the run still holds.
- A re-route of a document held at `partially_searchable` does not queue it
  (`extract.py:548`).
- A forced re-chunk of a ready document sets `indexing_keyword`
  (`chunker.py:3245`, `api/documents.py:403`), not a legal transition.  It is why
  `ingest_requests` does not check `LegalLifecycle`; and an embed request may
  then stamp `ready` from counts read before, or while pages wait
  (`ingest.py:834`), which is why it does not check `FinishedWhole`, and why
  `RequestsEnd` leaves such a stamp out.
- A chunk request that moves the status back while the worker recognises pages
  makes the worker's return to chunking illegal (`ingest.py:571`, `states.py:106`),
  which costs the document a retry; enough of them fail a document nothing is
  wrong with, with pages unread.  It is the exception in `SettlesAfterUpgrade`.
- A chunk request while extraction runs, then a kill: the worker goes on from the
  chunks of the pages there are (`chunker.py:2888`).  It is why `NothingUnread`
  has its assumption.

Arrival:

- A crash or a failing write between the row and its grant leaves a document that
  nobody can see (`api/documents.py:93`, `watcher.py:766`): the `orphaned` of
  `VisibleToSomebody`.
- A deletion removes the file after its row (`api/documents.py:358-361`).  An upload
  that finds neither row nor duplicate in between keeps the file it finds there,
  and loses it: the `cut` of `FileKept`.
- A watch event whose write fails is not written again, and an exception out of
  `resolve_owner` (`watcher.py:717`), the grant or the event passes every handler
  after the file was marked as decided about (`watcher.py:674`): no event, and no
  later attempt until the file changes.  Both are `silent`.
- A file that changes between its hash (`watcher.py:651`) and its copy, and is a
  duplicate by then, is reported and remembered under the hash of the first read
  (`watcher.py:746`).  When a document of that first content comes later, a drop of
  it is skipped without a word (`watcher.py:702`), as announced already: the
  last clause of `Reported`.

Requirements:

- Two extractions of one standard at once, by the worker and by an administrator,
  each write the sentences they saw missing (`standards.py:930`); the duplicates
  stay, as a later run meets one of them and supersedes neither: `overlapped`.
- The queueing after the `ready` stamp is lost by a crash in between
  (`ingest.py:852`), or by its own exception, which is only logged: `missed`.
- A crash and a restart within fifteen minutes find a claim that is fresh
  (`standards.py:1486`), and nothing looks again: the job says running for ever.
  `QuickRestarts = TRUE` shows it; so does a failing last write.
- Under `AUTH_MODE=disabled`, the default (`config.py:305`), a caller without an
  identity is nobody (`admin.py:253`), and a confirmation or an edit leaves
  `confirmed_by` empty (`standards.py:1374`).  The row is then still
  `_SUPERSEDABLE` (`standards.py:730`): the next extraction gives it its own
  provenance or, when it was edited, supersedes it.  `standards.py:896` says
  that confirmed rows are never superseded.  `DecisionsStand` is about the decisions
  that name a person when such callers are there.
- Confirming from a list that was loaded before a re-extraction confirms a
  superseded row (`submittal_review.py:251` says that a confirmed row is never
  superseded).
- A sentence an engineer has edited is written again by the next extraction,
  which looks for its first words.
- A long extraction begun by a request may supersede, at its end, rows of a
  newer text.

Reviews:

- Work after the outcome is stored can raise.  The run, already `completed`, goes
  back to `queued`; a second review of the submittal may have been accepted
  meanwhile, and two are active (`review_jobs.py:126`).  `OneFirstReview` is what
  is left of one active review.
- A death between the two transactions of a cancel leaves a run `queued` with no
  job (`review_jobs.py:589`), so the submittal cannot be reviewed again: the
  `faults > 0` of `ActiveHasJob`.
- A review cancelled while it waits for its retry keeps the findings of the failed
  attempt (`review_jobs.py:593`).

CRS numbers:

- A draft of the next review re-opens a withdrawn number (`crs_numbers.py:384`).
- A decision whose mint raises leaves a rejected comment carried, or a confirmed
  one without issue, until the run is decided again (`main.py:2573`): the
  `fails = 0` of `ConfirmedIsIssued`.
- A mint that read its run before a rejection may re-open what the rejection has
  just withdrawn; an answer may come between the look and the write of a
  withdrawal (`crs_numbers.py:460`): `late`.
- An edit of a document's number between a writer's look and its fixing leaves
  comments in two sequences: `late` too.

Money:

- The caps of a request are read (`claude_spend.py:541`) before it has the lock
  (`claude_spend.py:544`), and torn lines are priced under it
  (`claude_spend.py:545`).  A request that reads the raised total on its last day
  and has the lock after midnight finds a torn line priced at the baseline and fits
  next to it, though `claude_spend.py:262-264` says that no further call does: the
  exception in `TornStops`.  The abstract budget is not broken, as the raised
  total was the cap when the request was made.
- A call settled after its hold has left the 24-hour window adds to a day that may
  be full (`claude_spend_report.py:88`); `WithinCaps` is checked with
  `Late = FALSE`.
- `release_left_over_holds` drops a hold by age, and a call that is still to be
  billed may lose its cover (`compile_budget.py:53`).  The abstract budget has
  `WriteOff` for it.
- A death while results are read makes the next run read them from the start with
  rows it has already committed, and charge them once more
  (`claude_batch_run.py:476`); and a late row is ignored, and its request bought
  again, after a death between the re-queue and the batch's `ended_missing`
  (`claude_batch_run.py:472`).  `ReadIsUsed` and `ReadOnceChargedOnce` exempt a
  death while a batch is read.
- All batches of a run are reserved before the first is created.  When the create
  of one fails, its own reservations are settled and the run raises; those of the
  batches after it stay open and are on no row (`claude_batch_run.py:337-354`):
  the exception in `HoldsOwned`.

Lock and queue:

- An empty lock file, which is what a file is between its creation and its record,
  reads as stale (`heavy_lock.py:163-167`): a second job removes it and both hold.
  A removal that was decided on an older record does the same.  `heavy_lock.py:10`
  says that two jobs cannot both win; `Exclusive` exempts a `raced` job, and one
  that has `outlived` its three hours.
- A provider that raises outside the batch's own handler leaves `_batch_lock` taken
  (`ai_task_runner.py:716`); `Raise` models only the failures the batch handles.

## What is not modelled

- *Data*: chunk boundaries, recognition, ranking, comparison, applicability,
  compiling, prompts.  They decide what is written, not when.
- *Within modelled components*: workbook withholding and `finish_status` (a
  nondeterministic hold in `Ingest`); streaming and validation of an upload, page
  images, the role a subfolder gives, the bounds of a scan; table cells, several
  rows of one clause and databases of earlier schemas in `Requirements`, and the
  orphan guard over the deletion of documents and facts; an embed request that
  stamps a standard ready and queues it on its own thread (`api/documents.py:432`;
  in `Ingest` it is there), and the acceptance of a proposed clause check, which
  writes a row and supersedes the one it was proposed for
  (`ai_requirements.py:975`); `resend_unconfirmed`,
  answers that fail the caller's test and several jobs in one batch; chat and web
  comments, the layout of the sheet and the issue of a revision in `CrsNumbers`;
  `HEAVY_JOB_LOCK=off`, and what an AI task asks; a second live server.
- *Components*: reading state, search, comparison engine, answer cache and
  approvals, standards compiler, chat and agents, identity and access, page
  ledger, notifications, frontend, scripts, evaluation, contracts.  They are
  request-scoped, derived, or data; the reading state and the answer cache are in
  the plan.
- *Environment*: SQLite is a serial executor of transactions, the operating
  system frees a dead process's lock, a rename is atomic, a line of the ledger is
  whole or torn, and no disk is lost.

Most of the repository's lines are of the kinds left out: frontend, evaluation,
scripts and the data side of the backend.  The modules cover the files whose
state outlives a call.

## The plan

1. `Ingest` for two documents and a caller with a crash: larger than TLC does in
   minutes; what of `FinishedWhole` is left when callers embed by hand, as a
   theorem with the stamp from old counts as its exception.
2. `Arrival`, `HeavyLock`: what is left of their properties under fewer
   exceptions (one process, no deletion), as theorems.
3. `Requirements`: table cells with their identity.
4. `ClaudeBatch`: `resend_unconfirmed`, and several jobs in one batch.
5. `CrsNumbers`: the issue of a revision, and chat and web comments, which are
   numbered by the same `assign`.
6. Reading state and workbooks on top of `Ingest`; the answer cache under
   `ClaudeBatch`; sign-out in identity.

Order: what loses or misreports a document first, then what loses money, then
what runs twice.
