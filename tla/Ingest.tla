------------------------------- MODULE Ingest -------------------------------
(***************************************************************************)
(* The ingestion pipeline of backend/app: the documents of one SQLite      *)
(* file, their ingestion jobs, the IngestionWorker threads that claim and  *)
(* drive them (ingest.py), and the administrator's calls that run the same *)
(* stages outside the claim (api/documents.py).                            *)
(*                                                                         *)
(* A step is one database transaction, or one read whose result is used    *)
(* later; what a thread holds between two steps is in its own variables    *)
(* (next, snap, round, got, target).  SQLite runs transactions one at a    *)
(* time, so a transaction is atomic; nothing else is.                      *)
(*                                                                         *)
(* A page's text is its source: "native" (the text layer) or "ocr" (what   *)
(* recognition added).  A chunk id carries its page and a hash of the text *)
(* it was built from, so a chunk is <<page, source>>, one per page that    *)
(* has text.                                                               *)
(***************************************************************************)
EXTENDS Integers, FiniteSets, DocumentStates, JobStates

CONSTANTS
  Docs,            \* documents
  Workers,         \* IngestionWorker threads, one per server process
  Callers,         \* request threads of administrators
  Home,            \* the worker whose process serves a caller
  Calls,           \* the requests a caller may make in this instance
  NumPages,        \* pages of a document
  PageBatchSize,   \* settings.page_batch_size
  OcrBatchSize,    \* settings.ocr_batch_size
  EmbedBatchSize,  \* embed_pending's batch
  NativeText,      \* pages whose text layer has text
  NeedsOcr,        \* pages the current routing rule sends to recognition
  Excluded,        \* pages whose chunk is kept but not retrievable
  Pasts,           \* the pasts a document may have in this instance (PastNames)
  Stored,          \* documents whose file is on disk
  Rank,            \* order of taking: priority, then age (lower first)
  MaxRetries,      \* settings.job_max_retries
  MayFail,         \* documents a stage may raise on
  SlowSteps,       \* may one step outlast CLAIM_STALE_SECONDS?
  HoldsBack,       \* may reading_state hold a finished document at partial?
  MaxRestarts,     \* bound on crashes and stops
  NoDoc, NoOne, Gone

Pages     == 1..NumPages
Sources   == {"native", "ocr"}
ChunkIds  == Pages \X Sources
Threads   == Workers \cup Callers
Statuses  == ALL_STATES \cup {"absent", "embedding"}  \* "embedding": retired
\* "new": not uploaded yet; "retired": left by an earlier build at a status
\* this one has no name for; "older": READY under an older OCR routing rule.
PastNames == {"new", "retired", "older"}
CallNames == {"extract", "chunk", "rechunk", "embed", "index", "cancel", "reroute"}

ASSUME SizesAssumption ==
  /\ NumPages \in Nat \ {0}
  /\ PageBatchSize \in Nat \ {0}
  /\ OcrBatchSize \in Nat \ {0}
  /\ EmbedBatchSize \in Nat \ {0}
  /\ MaxRetries \in Nat
  /\ MaxRestarts \in Nat

ASSUME DataAssumption ==
  /\ NativeText \subseteq Pages
  /\ NeedsOcr \subseteq Pages
  /\ Pages \ NativeText \subseteq NeedsOcr
  /\ Excluded \subseteq Pages
  /\ Pasts \subseteq PastNames
  /\ Stored \subseteq Docs
  /\ MayFail \subseteq Docs
  /\ Rank \in [Docs -> Nat]
  /\ SlowSteps \in BOOLEAN
  /\ HoldsBack \in BOOLEAN

ASSUME ThreadsAssumption ==
  /\ Workers \cap Callers = {}
  /\ Home \in [Callers -> Workers]
  /\ Calls \subseteq CallNames
  /\ NoDoc \notin Docs
  /\ NoOne \notin Workers
  /\ Gone \notin Workers
  /\ NoOne # Gone

VARIABLES
  \* the documents row, its pages, page_ocr, chunks, chunks_fts, chunk_vectors
  status, pages, needs, ocr, chunks, sig, fts, vectors,
  chunkCount, embedded, indexed,
  \* the document's ingestion job: state, retries, last_completed_batch
  job, retries, ckpt,
  \* documents.claimed_by, and whether claimed_at is younger than the margin
  holder, fresh,
  \* the threads
  pc, cur, next, snap, round, got, target, stopping,
  \* crashes and stops so far
  restarts

textVars   == <<pages, needs, ocr>>
indexVars  == <<chunks, sig, fts, vectors, chunkCount>>
rowVars    == <<status, embedded, indexed>>
jobVars    == <<job, retries, ckpt>>
claimVars  == <<holder, fresh>>
localVars  == <<next, snap, round, got, target>>
threadVars == <<pc, cur, localVars, stopping, restarts>>
docVars    == <<textVars, indexVars, rowVars, jobVars>>
vars       == <<docVars, claimVars, threadVars>>

Labels ==
  {"idle", "loop", "setState", "setStateWrite", "extract", "batches", "chunk",
   "rechunk", "chunkWrite", "chunkAdvance", "index", "indexOnly", "ocr",
   "ocrRun", "recount", "embedSelect", "embed", "finish", "finishRead",
   "finishEmpty", "finishReady", "after", "release"}

-----------------------------------------------------------------------------
(* What the stages compute. *)

Retrievable(S) == {c \in S : c[1] \notin Excluded}

\* The chunks of the text committed by now: recognised text wins over the
\* text layer of its page (chunker._load_pages).
Build(d) ==
  {<<p, "ocr">> : p \in {q \in pages[d] : ocr[d][q] = "text"}}
    \cup {<<p, "native">> : p \in {q \in pages[d] \cap NativeText :
                                                 ocr[d][q] # "text"}}

\* embedded_count's join: retrievable chunks that have a vector.
Embedded(d) == Retrievable(chunks[d]) \cap vectors[d]

\* mutant: the batch in flight is stored whole
StillThere_All(d, window) == window

\* The chunks of a batch not withdrawn since they were selected.
StillThere(d, window) == window \cap chunks[d]

\* ocr.pending_pages: routed to recognition and not read yet.
pending_pages(d) == {p \in pages[d] \cap needs[d] : ocr[d][p] = "none"}

\* The pages of S that come first, n at most.
FirstPages(S, n) == {p \in S : Cardinality({q \in S : q < p}) < n}

\* A round grows with the pages already read, so a long document is cycled
\* through chunking a logarithmic number of times.
round_size(d) ==
  LET already == Cardinality({p \in Pages : ocr[d][p] # "none"})
  IN  IF already > OcrBatchSize THEN already ELSE OcrBatchSize

\* mutant: the last page of a batch is left out
BatchPages_Short(b) ==
  {p \in Pages : b * PageBatchSize < p /\ p < (b + 1) * PageBatchSize}

\* extract._batches: batch b is the b-th run of PageBatchSize pages, the last
\* one cut at NumPages.
BatchPages(b) == {p \in Pages : b * PageBatchSize < p /\ p <= (b + 1) * PageBatchSize}

\* mutant: a short last batch is not scheduled
HasBatch_FullOnly(b) == (b + 1) * PageBatchSize <= NumPages

\* There is a batch b as long as its first page exists.
HasBatch(b) == b * PageBatchSize < NumPages

Goto(t, l) == pc' = [pc EXCEPT ![t] = l]

\* A stage returns: to the loop of `process`, or to the caller's response.
Return(t) ==
  /\ Goto(t, IF t \in Workers THEN "loop" ELSE "idle")
  /\ cur' = IF t \in Workers THEN cur ELSE [cur EXCEPT ![t] = NoDoc]

-----------------------------------------------------------------------------
InitFrom(past) ==
  /\ status = [d \in Docs |-> CASE past[d] = "retired" -> "embedding"
                                [] past[d] = "older" -> READY
                                [] OTHER         -> "absent"]
  /\ pages = [d \in Docs |-> IF past[d] # "new" THEN Pages ELSE {}]
  /\ needs = [d \in Docs |-> IF past[d] # "new"
                               THEN Pages \ NativeText ELSE {}]
  /\ ocr = [d \in Docs |-> [p \in Pages |->
              IF past[d] # "new" /\ p \notin NativeText
                THEN "text" ELSE "none"]]
  /\ chunks = [d \in Docs |-> Build(d)]
  /\ sig = [d \in Docs |-> chunks[d]]
  /\ fts = [d \in Docs |-> IF past[d] = "older" THEN Retrievable(chunks[d]) ELSE {}]
  /\ vectors = fts
  /\ chunkCount = [d \in Docs |-> Cardinality(Retrievable(chunks[d]))]
  /\ embedded = [d \in Docs |-> Cardinality(vectors[d])]
  /\ indexed = [d \in Docs |-> past[d] = "older"]
  /\ job = [d \in Docs |-> IF past[d] = "older" THEN JOB_DONE ELSE JOB_RUNNING]
  /\ retries = [d \in Docs |-> 0]
  /\ ckpt \in {c \in [Docs -> -1..NumPages] :
                 \A d \in Docs :
                   IF past[d] # "new"
                     THEN HasBatch(c[d]) /\ ~HasBatch(c[d] + 1)
                     ELSE c[d] = -1}
  /\ holder = [d \in Docs |-> NoOne]
  /\ fresh = [d \in Docs |-> FALSE]
  /\ pc = [t \in Threads |-> "idle"]
  /\ cur = [t \in Threads |-> NoDoc]
  /\ next = [t \in Threads |-> 0]
  /\ snap = [t \in Threads |-> {}]
  /\ round = [t \in Threads |-> {}]
  /\ got = [t \in Threads |-> FALSE]
  /\ target = [t \in Threads |-> QUEUED]
  /\ stopping = [w \in Workers |-> FALSE]
  /\ restarts = 0

\* Any document may have any of the pasts.
Init == \E past \in [Docs -> Pasts] : InitFrom(past)

-----------------------------------------------------------------------------
(* Arrival and claiming. *)

\* upload.ingest's one transaction: the row, queued, and its ingestion job.
Upload(d) ==
  /\ status[d] = "absent"
  /\ status' = [status EXCEPT ![d] = QUEUED]
  /\ job' = [job EXCEPT ![d] = JOB_RUNNING]
  /\ UNCHANGED <<textVars, indexVars, embedded, indexed, retries, ckpt,
                 claimVars, threadVars>>

\* mutant: only a status the code still has a name for is claimed
Unsettled_Recognised ==
  {d \in Docs : status[d] \in ALL_STATES \ (TERMINAL_STATES \cup {PARTIALLY_SEARCHABLE})}

\* _next_document's first UPDATE: neither over nor searchable in part.
Unsettled  == {d \in Docs : status[d] \notin
                  TERMINAL_STATES \cup {PARTIALLY_SEARCHABLE, "absent"}}

\* mutant: "embedded in full" alone reads as finished
Unfinished_CountOnly ==
  {d \in Docs : status[d] = PARTIALLY_SEARCHABLE /\ embedded[d] < chunkCount[d]}

Unfinished == {d \in Docs : /\ status[d] = PARTIALLY_SEARCHABLE
                            /\ embedded[d] < chunkCount[d] \/ ~indexed[d]}
\* A failed document whose retry is scheduled.  The back-off always runs out,
\* so the due time is left out.
RetryDue   == {d \in Docs : status[d] = FAILED /\ job[d] = JOB_RETRYING}

\* mutants: a dead worker's claim is for ever; the age test the wrong way round
Free_NoTakeover(w, d) == holder[d] \in {NoOne, w}
Free_Flipped(w, d)    == holder[d] \in {NoOne, w} \/ fresh[d]

\* claim_clause: nobody's, this worker's own, or older than the margin.
Free(w, d) == holder[d] \in {NoOne, w} \/ ~fresh[d]

\* The three conditional UPDATEs of _next_document, tried in this order.
Candidates(w) ==
  LET free(S) == {d \in S : Free(w, d)}
  IN  IF free(Unsettled) # {} THEN free(Unsettled)
      ELSE IF free(Unfinished) # {} THEN free(Unfinished)
      ELSE free(RetryDue)

NextDocument(w) ==
  /\ pc[w] = "idle" /\ ~stopping[w]
  /\ \E d \in Candidates(w) :
       /\ \A e \in Candidates(w) : Rank[d] <= Rank[e]
       /\ holder' = [holder EXCEPT ![d] = w]
       /\ fresh' = [fresh EXCEPT ![d] = TRUE]
       /\ status' = [status EXCEPT ![d] = IF @ = FAILED THEN EXTRACTING ELSE @]
       /\ job' = [job EXCEPT ![d] = IF status[d] = FAILED THEN JOB_RUNNING ELSE @]
       /\ cur' = [cur EXCEPT ![w] = d]
  /\ Goto(w, "loop")
  /\ UNCHANGED <<textVars, indexVars, embedded, indexed, retries, ckpt,
                 localVars, stopping, restarts>>

\* One pass of `process`: prove this worker alive, then act on the status.
Loop(w) ==
  LET d == cur[w] IN
  /\ pc[w] = "loop"
  /\ fresh' = [fresh EXCEPT ![d] = IF holder[d] = w THEN TRUE ELSE @]
  /\ Goto(w, CASE status[d] = EXTRACTING           -> "extract"
               [] status[d] = CHUNKING             -> "chunk"
               [] status[d] = INDEXING_KEYWORD     -> "index"
               [] status[d] = PARTIALLY_SEARCHABLE -> "ocr"
               [] status[d] \in TERMINAL_STATES    -> "release"
               [] status[d] = QUEUED               -> "setState"
               [] OTHER                            -> "setStateWrite")
  /\ target' = [target EXCEPT ![w] =
                  IF status[d] = QUEUED \/ status[d] \notin ALL_STATES
                    THEN EXTRACTING ELSE @]
  /\ UNCHANGED <<docVars, holder, cur, next, snap, round, got, stopping, restarts>>

\* The end of a worker's pass: its own claim goes, another's is not touched.
Release(w) ==
  LET d == cur[w] IN
  /\ pc[w] = "release"
  /\ holder' = [holder EXCEPT ![d] = IF @ = w THEN NoOne ELSE @]
  /\ fresh' = [fresh EXCEPT ![d] = IF holder[d] = w THEN FALSE ELSE @]
  /\ cur' = [cur EXCEPT ![w] = NoDoc]
  /\ Goto(w, "idle")
  /\ UNCHANGED <<docVars, localVars, stopping, restarts>>

\* The exception handler of `process`: the document is failed, its job is
\* retried or poisoned, whatever either was.  An exception in a caller's
\* request is its error response.
Fails(t) ==
  LET d == cur[t] IN
  IF t \in Workers
    THEN /\ status' = [status EXCEPT ![d] = FAILED]
         /\ job' = [job EXCEPT ![d] = StateAfterFailure(retries[d], MaxRetries)]
         /\ retries' = [retries EXCEPT ![d] = RetriesAfterFailure(@, MaxRetries)]
         /\ Goto(t, "release")
         /\ UNCHANGED cur
    ELSE /\ Return(t)
         /\ UNCHANGED <<status, job, retries>>

\* A stage raises (an unreadable file, the engine, the database), or the
\* churn guard of `process` does.
Raise(t) ==
  /\ pc[t] \notin {"idle", "release"}
  /\ cur[t] \in MayFail
  /\ Fails(t)
  /\ UNCHANGED <<textVars, indexVars, embedded, indexed, ckpt, claimVars,
                 localVars, stopping, restarts>>

\* _set_state reads the status and checks the transition, then writes.
SetState(w) ==
  LET d == cur[w] IN
  /\ pc[w] = "setState"
  /\ IF status[d] = target[w] \/ can_transition(status[d], target[w])
       THEN /\ Goto(w, IF status[d] = target[w] THEN "loop" ELSE "setStateWrite")
            /\ UNCHANGED <<status, job, retries, cur>>
       ELSE Fails(w)
  /\ UNCHANGED <<textVars, indexVars, embedded, indexed, ckpt, claimVars,
                 localVars, stopping, restarts>>

SetStateWrite(w) ==
  /\ pc[w] = "setStateWrite"
  /\ status' = [status EXCEPT ![cur[w]] = target[w]]
  /\ Goto(w, "loop")
  /\ UNCHANGED <<textVars, indexVars, embedded, indexed, jobVars, claimVars,
                 cur, localVars, stopping, restarts>>

-----------------------------------------------------------------------------
(* Extraction: batches of pages committed in order, with a checkpoint. *)

ExtractBegin(t) ==
  LET d == cur[t] IN
  /\ pc[t] = "extract"
  /\ IF d \in Stored
       THEN /\ next' = [next EXCEPT ![t] = ckpt[d] + 1]
            /\ Goto(t, "batches")
            /\ UNCHANGED <<status, job, cur>>
       ELSE /\ status' = [status EXCEPT ![d] = FAILED]
            /\ job' = [job EXCEPT ![d] = JOB_FAILED]
            /\ Return(t)
            /\ UNCHANGED next
  /\ UNCHANGED <<textVars, indexVars, embedded, indexed, retries, ckpt,
                 claimVars, snap, round, got, target, stopping, restarts>>

CommitBatch(t) ==
  LET d == cur[t]
      batch == BatchPages(next[t]) IN
  /\ pc[t] = "batches" /\ HasBatch(next[t])
  /\ pages' = [pages EXCEPT ![d] = @ \cup batch]
  /\ needs' = [needs EXCEPT ![d] = (@ \ batch) \cup (batch \cap NeedsOcr)]
  /\ ckpt' = [ckpt EXCEPT ![d] = next[t]]
  /\ status' = [status EXCEPT ![d] = EXTRACTING]
  /\ next' = [next EXCEPT ![t] = @ + 1]
  /\ UNCHANGED <<ocr, indexVars, embedded, indexed, job, retries, claimVars,
                 pc, cur, snap, round, got, target, stopping, restarts>>

ExtractEnd(t) ==
  LET d == cur[t] IN
  /\ pc[t] = "batches" /\ ~HasBatch(next[t])
  /\ status' = [status EXCEPT ![d] = CHUNKING]
  /\ job' = [job EXCEPT ![d] = JOB_DONE]
  /\ next' = [next EXCEPT ![t] = 0]
  /\ Return(t)
  /\ UNCHANGED <<textVars, indexVars, embedded, indexed, retries, ckpt,
                 claimVars, snap, round, got, target, stopping, restarts>>

-----------------------------------------------------------------------------
(* Chunking and the keyword index. *)

\* Reads the pages and decides; the chunks are built outside any transaction.
ChunkLoad(t) ==
  LET d == cur[t]
      unchanged == /\ pc[t] = "chunk"              \* not forced
                   /\ chunks[d] # {} /\ sig[d] = Build(d) IN
  /\ pc[t] \in {"chunk", "rechunk"}
  /\ \/ /\ pages[d] = {}
        /\ Fails(t)
        /\ UNCHANGED snap
     \/ /\ pages[d] # {} /\ unchanged
        /\ IF status[d] = CHUNKING
             THEN Goto(t, "chunkAdvance") /\ UNCHANGED cur
             ELSE Return(t)
        /\ UNCHANGED <<status, job, retries, snap>>
     \/ /\ pages[d] # {} /\ ~unchanged
        /\ snap' = [snap EXCEPT ![t] = Build(d)]
        /\ Goto(t, "chunkWrite")
        /\ UNCHANGED <<status, job, retries, cur>>
  /\ UNCHANGED <<textVars, indexVars, embedded, indexed, ckpt, claimVars,
                 next, round, got, target, stopping, restarts>>

\* mutant: unchanged text is taken to need no keyword index either
ChunkAdvance_SkipsIndex(t) ==
  /\ pc[t] = "chunkAdvance"
  /\ status' = [status EXCEPT ![cur[t]] = PARTIALLY_SEARCHABLE]
  /\ Return(t)
  /\ UNCHANGED <<textVars, indexVars, embedded, indexed, jobVars, claimVars,
                 localVars, stopping, restarts>>

\* The chunks already match the text: only the status moves.
ChunkAdvance(t) ==
  /\ pc[t] = "chunkAdvance"
  /\ status' = [status EXCEPT ![cur[t]] = INDEXING_KEYWORD]
  /\ Return(t)
  /\ UNCHANGED <<textVars, indexVars, embedded, indexed, jobVars, claimVars,
                 localVars, stopping, restarts>>

\* One transaction replaces the chunks, empties the keyword index, keeps the
\* vectors of chunks that survive and are still retrievable, and moves on.
ChunkWrite(t) ==
  LET d == cur[t] IN
  /\ pc[t] = "chunkWrite"
  /\ chunks' = [chunks EXCEPT ![d] = snap[t]]
  /\ sig' = [sig EXCEPT ![d] = snap[t]]
  /\ fts' = [fts EXCEPT ![d] = {}]
  /\ vectors' = [vectors EXCEPT ![d] = @ \cap Retrievable(snap[t])]
  /\ chunkCount' = [chunkCount EXCEPT ![d] = Cardinality(Retrievable(snap[t]))]
  /\ status' = [status EXCEPT ![d] = INDEXING_KEYWORD]
  /\ snap' = [snap EXCEPT ![t] = {}]
  /\ Return(t)
  /\ UNCHANGED <<textVars, embedded, indexed, jobVars, claimVars, next, round,
                 got, target, stopping, restarts>>

\* fts_index.index_document: rebuild and advance in one transaction, the
\* advance guarded by the status expected.  The route only rebuilds.
IndexDocument(t) ==
  LET d == cur[t] IN
  /\ pc[t] \in {"index", "indexOnly"}
  /\ fts' = [fts EXCEPT ![d] = Retrievable(chunks[d])]
  /\ status' = [status EXCEPT ![d] =
                  IF pc[t] = "index" /\ @ = INDEXING_KEYWORD
                    THEN PARTIALLY_SEARCHABLE ELSE @]
  /\ Return(t)
  /\ UNCHANGED <<textVars, chunks, sig, vectors, chunkCount, embedded, indexed,
                 jobVars, claimVars, localVars, stopping, restarts>>

-----------------------------------------------------------------------------
(* Recognition of scanned pages: one round per pass, batches in order. *)

OcrRound(w) ==
  LET d == cur[w] IN
  /\ pc[w] = "ocr"
  /\ round' = [round EXCEPT ![w] = FirstPages(pending_pages(d), round_size(d))]
  /\ got' = [got EXCEPT ![w] = FALSE]
  /\ Goto(w, IF pending_pages(d) = {} THEN "recount" ELSE "ocrRun")
  /\ UNCHANGED <<docVars, claimVars, cur, next, snap, target, stopping, restarts>>

\* A page is read once: it has text, or it is consumed with none (blank, or
\* recognition failed on it).
OcrBatch(w) ==
  LET d == cur[w]
      batch == FirstPages(round[w], OcrBatchSize) IN
  /\ pc[w] = "ocrRun" /\ round[w] # {}
  /\ \E withText \in SUBSET batch :
       /\ ocr' = [ocr EXCEPT ![d] = [p \in Pages |->
                    IF p \in withText THEN "text"
                    ELSE IF p \in batch THEN "empty" ELSE @[p]]]
       /\ got' = [got EXCEPT ![w] = @ \/ withText # {}]
  /\ round' = [round EXCEPT ![w] = @ \ batch]
  /\ UNCHANGED <<pages, needs, indexVars, rowVars, jobVars, claimVars, pc, cur,
                 next, snap, target, stopping, restarts>>

\* The round is over, or was cut short by the stop flag; text found sends the
\* document back through chunking, a blank round on to the next one.
OcrEnd(w) ==
  LET d == cur[w] IN
  /\ pc[w] = "ocrRun" /\ round[w] = {}
  /\ Goto(w, IF stopping[w] THEN "release"
             ELSE IF got[w] THEN "setState"
             ELSE IF pending_pages(d) # {} THEN "loop" ELSE "recount")
  /\ target' = [target EXCEPT ![w] = IF got[w] THEN CHUNKING ELSE @]
  /\ got' = [got EXCEPT ![w] = FALSE]
  /\ UNCHANGED <<docVars, claimVars, cur, next, snap, round, stopping, restarts>>

-----------------------------------------------------------------------------
(* Embedding and finishing. *)

\* _recount_embedded, before embedding and again before finishing.
Recount(t) ==
  LET d == cur[t] IN
  /\ pc[t] \in {"recount", "finish"}
  /\ embedded' = [embedded EXCEPT ![d] = Cardinality(Embedded(d))]
  /\ Goto(t, IF pc[t] = "recount" THEN "embedSelect" ELSE "finishRead")
  /\ UNCHANGED <<textVars, indexVars, status, indexed, jobVars, claimVars, cur,
                 localVars, stopping, restarts>>

EmbedSelect(t) ==
  LET d == cur[t]
      rows == Retrievable(chunks[d]) \ vectors[d] IN
  /\ pc[t] = "embedSelect"
  /\ snap' = [snap EXCEPT ![t] = rows]
  /\ Goto(t, IF rows = {} THEN "finish" ELSE "embed")
  /\ UNCHANGED <<docVars, claimVars, cur, next, round, got, target, stopping,
                 restarts>>

\* One batch: vectors only for chunks that still exist, the count derived
\* from the join in the same transaction; then the claim is refreshed.
EmbedBatch(t) ==
  LET d == cur[t] IN
  /\ pc[t] = "embed"
  /\ ~(t \in Workers /\ stopping[t])
  /\ \E window \in SUBSET snap[t] :
       /\ window # {} /\ Cardinality(window) <= EmbedBatchSize
       /\ vectors' = [vectors EXCEPT ![d] = @ \cup StillThere(d, window)]
       /\ snap' = [snap EXCEPT ![t] = @ \ window]
  /\ embedded' = [embedded EXCEPT ![d] =
                    Cardinality(Retrievable(chunks[d]) \cap vectors'[d])]
  /\ fresh' = [fresh EXCEPT ![d] = IF holder[d] = t THEN TRUE ELSE @]
  /\ UNCHANGED <<textVars, chunks, sig, fts, chunkCount, status, indexed,
                 jobVars, holder, pc, cur, next, round, got, target, stopping,
                 restarts>>

\* mutant: the stop flag ends the loop, and the document is stamped all the same
EmbedEnd_Stamps(t) ==
  /\ pc[t] = "embed"
  /\ snap[t] = {} \/ (t \in Workers /\ stopping[t])
  /\ snap' = [snap EXCEPT ![t] = {}]
  /\ Goto(t, "finishReady")
  /\ UNCHANGED <<docVars, claimVars, cur, next, round, got, target, stopping,
                 restarts>>

\* Nothing left to embed, or the stop flag ends the loop before the stamp.
EmbedEnd(t) ==
  LET stopped == t \in Workers /\ stopping[t] IN
  /\ pc[t] = "embed"
  /\ snap[t] = {} \/ stopped
  /\ snap' = [snap EXCEPT ![t] = {}]
  /\ Goto(t, IF stopped THEN "release" ELSE "finish")
  /\ UNCHANGED <<docVars, claimVars, cur, next, round, got, target, stopping,
                 restarts>>

\* The row _finish_if_embedded decides on.
FinishRead(t) ==
  LET d == cur[t] IN
  /\ pc[t] = "finishRead"
  /\ Goto(t, IF status[d] # PARTIALLY_SEARCHABLE THEN "after"
             ELSE IF chunkCount[d] = 0 THEN "finishEmpty"
             ELSE IF embedded[d] >= chunkCount[d] THEN "finishReady"
             ELSE "after")
  /\ UNCHANGED <<docVars, claimVars, cur, localVars, stopping, restarts>>

FinishEmpty(t) ==
  LET d == cur[t]
      expected == status[d] = PARTIALLY_SEARCHABLE IN
  /\ pc[t] = "finishEmpty"
  /\ status' = [status EXCEPT ![d] = IF expected THEN NO_SEARCHABLE_CONTENT ELSE @]
  /\ indexed' = [indexed EXCEPT ![d] = @ \/ expected]
  /\ job' = [job EXCEPT ![d] = JOB_DONE]
  /\ Goto(t, "after")
  /\ UNCHANGED <<textVars, indexVars, embedded, retries, ckpt, claimVars, cur,
                 localVars, stopping, restarts>>

\* mutant: the stamp without its guard
FinishReady_Unguarded(t) ==
  LET d == cur[t] IN
  /\ pc[t] = "finishReady"
  /\ status' = [status EXCEPT ![d] = READY]
  /\ embedded' = [embedded EXCEPT ![d] = Cardinality(Embedded(d))]
  /\ indexed' = [indexed EXCEPT ![d] = TRUE]
  /\ job' = [job EXCEPT ![d] = JOB_DONE]
  /\ Goto(t, "after")
  /\ UNCHANGED <<textVars, indexVars, retries, ckpt, claimVars, cur, localVars,
                 stopping, restarts>>

\* The recount and the stamp in one transaction, guarded by the status only.
FinishReady(t) ==
  LET d == cur[t]
      expected == status[d] = PARTIALLY_SEARCHABLE IN
  /\ pc[t] = "finishReady"
  /\ \E finish \in {READY} \cup (IF HoldsBack THEN {PARTIALLY_SEARCHABLE} ELSE {}) :
       status' = [status EXCEPT ![d] = IF expected THEN finish ELSE @]
  /\ embedded' = [embedded EXCEPT ![d] =
                    IF expected THEN Cardinality(Embedded(d)) ELSE @]
  /\ indexed' = [indexed EXCEPT ![d] = @ \/ expected]
  /\ job' = [job EXCEPT ![d] = JOB_DONE]
  /\ Goto(t, "after")
  /\ UNCHANGED <<textVars, indexVars, retries, ckpt, claimVars, cur, localVars,
                 stopping, restarts>>

After(t) ==
  /\ pc[t] = "after"
  /\ IF t \in Workers /\ status[cur[t]] = PARTIALLY_SEARCHABLE
       THEN Goto(t, "release") /\ UNCHANGED cur
       ELSE Return(t)
  /\ UNCHANGED <<docVars, claimVars, localVars, stopping, restarts>>

-----------------------------------------------------------------------------
(* Requests, maintenance, time and failure of processes. *)

Call(c, d, name) ==
  /\ pc[c] = "idle" /\ ~stopping[Home[c]]
  /\ status[d] # "absent"
  /\ name \in Calls \cap {"extract", "chunk", "rechunk", "embed", "index"}
  /\ cur' = [cur EXCEPT ![c] = d]
  /\ Goto(c, CASE name = "embed" -> "embedSelect"
               [] name = "index" -> "indexOnly"
               [] OTHER          -> name)
  /\ UNCHANGED <<docVars, claimVars, localVars, stopping, restarts>>

\* job_queue.cancel on an ingestion job that waits for its retry.
CancelJob(d) ==
  /\ "cancel" \in Calls
  /\ job[d] \in CANCELLABLE
  /\ job' = [job EXCEPT ![d] = JOB_CANCELLED]
  /\ UNCHANGED <<textVars, indexVars, rowVars, retries, ckpt, claimVars,
                 threadVars>>

\* extract.reroute_document, run by scripts/reroute_ocr.py with the server
\* stopped: the current routing rule applied to stored pages.
Reroute(d) ==
  LET newly == {p \in pages[d] \cap NeedsOcr : p \notin needs[d] /\ ocr[d][p] = "none"} IN
  /\ "reroute" \in Calls
  /\ d \in Stored
  /\ \A t \in Threads : pc[t] = "idle"
  /\ pages[d] # {}
  /\ needs' = [needs EXCEPT ![d] = pages[d] \cap NeedsOcr]
  /\ status' = [status EXCEPT ![d] =
                  IF newly # {} /\ @ \in {READY, NO_SEARCHABLE_CONTENT}
                    THEN CHUNKING ELSE @]
  /\ UNCHANGED <<pages, ocr, indexVars, embedded, indexed, jobVars, claimVars,
                 threadVars>>

\* A claim grows older than the margin: one left by a dead process always
\* does, a live worker's only when one step outlasts the margin.
ClaimAges(d) ==
  /\ fresh[d]
  /\ holder[d] = Gone \/ SlowSteps
  /\ fresh' = [fresh EXCEPT ![d] = FALSE]
  /\ UNCHANGED <<docVars, holder, threadVars>>

\* The process of w dies with its request threads and is started again.  Its
\* claims stay in the database under a name no worker will have again.
Crash(w) ==
  LET dies == {w} \cup {c \in Callers : Home[c] = w} IN
  /\ restarts < MaxRestarts
  /\ \E t \in dies : pc[t] # "idle"
  /\ restarts' = restarts + 1
  /\ holder' = [d \in Docs |-> IF holder[d] = w THEN Gone ELSE holder[d]]
  /\ pc' = [t \in Threads |-> IF t \in dies THEN "idle" ELSE pc[t]]
  /\ cur' = [t \in Threads |-> IF t \in dies THEN NoDoc ELSE cur[t]]
  /\ next' = [t \in Threads |-> IF t \in dies THEN 0 ELSE next[t]]
  /\ snap' = [t \in Threads |-> IF t \in dies THEN {} ELSE snap[t]]
  /\ round' = [t \in Threads |-> IF t \in dies THEN {} ELSE round[t]]
  /\ got' = [t \in Threads |-> IF t \in dies THEN FALSE ELSE got[t]]
  /\ target' = [t \in Threads |-> IF t \in dies THEN QUEUED ELSE target[t]]
  /\ stopping' = [stopping EXCEPT ![w] = FALSE]
  /\ UNCHANGED <<docVars, fresh>>

\* IngestionWorker.stop sets the flag; the thread ends at its next check.
Stop(w) ==
  /\ restarts < MaxRestarts
  /\ ~stopping[w]
  /\ restarts' = restarts + 1
  /\ stopping' = [stopping EXCEPT ![w] = TRUE]
  /\ UNCHANGED <<docVars, claimVars, pc, cur, localVars>>

Start(w) ==
  /\ stopping[w] /\ pc[w] = "idle"
  /\ stopping' = [stopping EXCEPT ![w] = FALSE]
  /\ UNCHANGED <<docVars, claimVars, pc, cur, localVars, restarts>>

-----------------------------------------------------------------------------
WorkerStep(w) ==
  \/ NextDocument(w) \/ Loop(w) \/ Release(w) \/ SetState(w) \/ SetStateWrite(w)
  \/ OcrRound(w) \/ OcrBatch(w) \/ OcrEnd(w)

StageStep(t) ==
  \/ ExtractBegin(t) \/ CommitBatch(t) \/ ExtractEnd(t)
  \/ ChunkLoad(t) \/ ChunkAdvance(t) \/ ChunkWrite(t) \/ IndexDocument(t)
  \/ Recount(t) \/ EmbedSelect(t) \/ EmbedBatch(t) \/ EmbedEnd(t)
  \/ FinishRead(t) \/ FinishEmpty(t) \/ FinishReady(t) \/ After(t)

Next ==
  \/ \E d \in Docs : Upload(d) \/ CancelJob(d) \/ Reroute(d) \/ ClaimAges(d)
  \/ \E w \in Workers : WorkerStep(w) \/ Crash(w) \/ Stop(w) \/ Start(w)
  \/ \E t \in Threads : StageStep(t) \/ Raise(t)
  \/ \E c \in Callers, d \in Docs, name \in Calls : Call(c, d, name)

Spec == Init /\ [][Next]_vars

\* The worker's thread runs on, a server that stopped is started again, and
\* the clock reaches the margin of a claim a dead process left.
Fairness ==
  /\ \A w \in Workers : /\ WF_vars(WorkerStep(w) \/ StageStep(w))
                        /\ WF_vars(Start(w))
  /\ \A c \in Callers : WF_vars(StageStep(c))
  /\ \A d \in Docs : WF_vars(holder[d] = Gone /\ ClaimAges(d))

FairSpec == Spec /\ Fairness

-----------------------------------------------------------------------------
TypeOK ==
  /\ status \in [Docs -> Statuses]
  /\ pages \in [Docs -> SUBSET Pages]
  /\ needs \in [Docs -> SUBSET Pages]
  /\ ocr \in [Docs -> [Pages -> {"none", "text", "empty"}]]
  /\ chunks \in [Docs -> SUBSET ChunkIds]
  /\ sig \in [Docs -> SUBSET ChunkIds]
  /\ fts \in [Docs -> SUBSET ChunkIds]
  /\ vectors \in [Docs -> SUBSET ChunkIds]
  /\ chunkCount \in [Docs -> Nat]
  /\ embedded \in [Docs -> Nat]
  /\ indexed \in [Docs -> BOOLEAN]
  /\ job \in [Docs -> JOB_STATES]
  /\ retries \in [Docs -> 0..MaxRetries]
  /\ ckpt \in [Docs -> Int]
  /\ holder \in [Docs -> Workers \cup {NoOne, Gone}]
  /\ fresh \in [Docs -> BOOLEAN]
  /\ pc \in [Threads -> Labels]
  /\ cur \in [Threads -> Docs \cup {NoDoc}]
  /\ next \in [Threads -> Int]
  /\ snap \in [Threads -> SUBSET ChunkIds]
  /\ round \in [Threads -> SUBSET Pages]
  /\ got \in [Threads -> BOOLEAN]
  /\ target \in [Threads -> {QUEUED, EXTRACTING, CHUNKING}]
  /\ stopping \in [Workers -> BOOLEAN]
  /\ restarts \in 0..MaxRestarts

-----------------------------------------------------------------------------
(* Correctness. *)

\* The checkpoint is a contiguous high-water mark: every page of every batch
\* up to last_completed_batch is in `pages`, whoever committed it and however
\* often extraction was killed, resumed or run twice (extract._commit_batch).
CheckpointCovered ==
  \A d \in Docs : \A p \in Pages : p <= (ckpt[d] + 1) * PageBatchSize => p \in pages[d]

\* A document past extraction has every page: no interleaving of extractors
\* lets a partly read file on to chunking, search or `ready`.
TextComplete ==
  \A d \in Docs :
    status[d] \in {CHUNKING, INDEXING_KEYWORD, PARTIALLY_SEARCHABLE, READY,
                  NO_SEARCHABLE_CONTENT}
      => pages[d] = Pages

\* An answerable document's keyword index holds exactly its retrievable
\* chunks: the rebuild and the advance are one transaction guarded by status,
\* and a re-chunk takes both away at once (fts_index.index_document).
AnswerableIndexed ==
  \A d \in Docs : status[d] \in ANSWERABLE_STATES => fts[d] = Retrievable(chunks[d])

\* Dense search never holds a vector whose chunk is gone: a re-chunk drops the
\* orphans and an embedding batch in flight skips chunks withdrawn meanwhile.
NoOrphanVectors ==
  \A d \in Docs : vectors[d] \subseteq chunks[d]

\* A finished document is finished: `ready` is only said when every
\* retrievable chunk has a vector (ingest._finish_if_embedded), and neither
\* `ready` nor "nothing to search" while a scanned page still waits for
\* recognition (the rounds of ingest.process).
FinishedWhole ==
  \A d \in Docs :
    /\ status[d] = READY => Retrievable(chunks[d]) \subseteq vectors[d]
    /\ status[d] \in {READY, NO_SEARCHABLE_CONTENT} => pending_pages(d) = {}

\* `ready` is only said of a document whose chunks hold all its text, the
\* text recognition found included.
ReadyReflectsText ==
  \A d \in Docs : status[d] = READY => chunks[d] = Build(d)

WorkLeft(d) ==
  \/ d \in Unsettled
  \/ status[d] = PARTIALLY_SEARCHABLE /\ pending_pages(d) # {}
  \/ status[d] = PARTIALLY_SEARCHABLE /\ ~(Retrievable(chunks[d]) \subseteq vectors[d])

\* A document abandoned mid-pipeline, at whatever step, is either still in a
\* worker's hands or can be claimed again: none is stranded.  The exception is
\* one that failed after it was stamped (ingest._next_document): chunked anew on
\* the retry it keeps its stamp and, until it is embedded, its old count.
NotStranded ==
  \A d \in Docs : WorkLeft(d) =>
    \/ d \in Unsettled \cup Unfinished \/ \E w \in Workers : cur[w] = d
    \/ indexed[d] /\ retries[d] > 0 /\ pending_pages(d) = {}

\* Unless a step outlasts the claim margin, no two workers are ever driving
\* the same document.
OneWorkerPerDocument ==
  ~SlowSteps =>
    \A v, w \in Workers : v # w => cur[v] = NoDoc \/ cur[v] # cur[w]

\* Every status change is one that states.py calls legal.
Lifecycle == INSTANCE DocumentLifecycle
LegalLifecycle == Lifecycle!Spec

Settled(d) == status[d] \in TERMINAL_STATES \/ (HoldsBack /\ indexed[d])

\* Every queued document reaches a final status, through any bounded number
\* of failures, crashes and restarts.
Settles == \A d \in Docs : status[d] = QUEUED ~> Settled(d)

\* Administrators' requests come to an end, and none of them stamps a document
\* itself: an embed request may, while pages still wait for recognition.
RequestsEnd ==
  /\ <>[](\A c \in Callers : pc[c] = "idle")
  /\ [](\A c \in Callers : pc[c] \notin {"finishEmpty", "finishReady"})

\* Documents an earlier build left behind finish too, whatever else is asked of
\* them meanwhile: a retired status is restarted, and a page the newer routing
\* rule sends to recognition is read before the document is final again, unless
\* it failed: each request that moves the status under the worker costs a retry.
\* The server stays up.
SettlesAfterUpgrade ==
  RequestsEnd =>
    \A d \in Docs :
      /\ status[d] = "embedding" ~> Settled(d)
      /\ pending_pages(d) # {} ~>
           Settled(d) /\ (status[d] = FAILED \/ pending_pages(d) = {})

=============================================================================
