---------------------------- MODULE IngestProofs ----------------------------
(* What holds of Ingest for every number of documents, workers, requests,
   pages and restarts, proved with TLAPS.                                   *)
EXTENDS Ingest, FiniteSetTheorems, TLAPS

USE DEF Threads, textVars, indexVars, rowVars, jobVars, claimVars, localVars,
        threadVars, docVars, Goto, Return

-----------------------------------------------------------------------------
(* Counting chunks. *)

\* There are finitely many chunk ids, so a stored chunk count is a number.
LEMMA ChunkCount ==
  ASSUME NEW S \in SUBSET ChunkIds
  PROVE  Cardinality(S) \in Nat /\ Cardinality(Retrievable(S)) \in Nat
<1>1. IsFiniteSet(Pages)
  BY FS_Interval, SizesAssumption DEF Pages
<1>2. IsFiniteSet(Sources)
  <2>1. IsFiniteSet({"native"} \cup {"ocr"})
    BY FS_Singleton, FS_Union
  <2>2. {"native"} \cup {"ocr"} = Sources
    BY DEF Sources
  <2> QED
    BY <2>1, <2>2
<1>3. IsFiniteSet(ChunkIds)
  BY <1>1, <1>2, FS_Product DEF ChunkIds
<1>4. IsFiniteSet(S) /\ IsFiniteSet(Retrievable(S))
  BY <1>3, FS_Subset DEF Retrievable
<1> QED
  BY <1>4, FS_CardinalityType

\* The chunks built from a document are chunk ids.
LEMMA BuildType ==
  ASSUME NEW d \in Docs, pages[d] \subseteq Pages
  PROVE  Build(d) \subseteq ChunkIds
  BY DEF Build, ChunkIds, Sources

\* What the job of a failed attempt becomes is a job state and a count within
\* its limit (job_queue.fail).
LEMMA FailureType ==
  ASSUME NEW r \in 0..MaxRetries
  PROVE  /\ StateAfterFailure(r, MaxRetries) \in JOB_STATES
         /\ RetriesAfterFailure(r, MaxRetries) \in 0..MaxRetries
  BY SizesAssumption DEF StateAfterFailure, RetriesAfterFailure, JOB_STATES,
     JOB_RETRYING, JOB_POISONED

-----------------------------------------------------------------------------
(* Types. *)

\* A thread that is doing something is doing it to a document.
Busy == \A t \in Threads : pc[t] # "idle" => cur[t] \in Docs

TypeInv == TypeOK /\ Busy

USE DEF ALL_STATES, QUEUED, EXTRACTING, CHUNKING, INDEXING_KEYWORD,
        PARTIALLY_SEARCHABLE, READY, NO_SEARCHABLE_CONTENT,
        STORED_NOT_INDEXED, FAILED, JOB_STATES, JOB_QUEUED, JOB_RUNNING,
        JOB_DONE, JOB_RETRYING, JOB_POISONED, JOB_CANCELLED, JOB_FAILED

LEMMA TypeInit == Init => TypeInv
<1> SUFFICES ASSUME NEW past \in [Docs -> Pasts], InitFrom(past) PROVE TypeInv
  BY DEF Init
<1> USE SizesAssumption, DataAssumption
<1>1. pages \in [Docs -> SUBSET Pages] /\ needs \in [Docs -> SUBSET Pages]
  BY DEF InitFrom
<1>2. chunks \in [Docs -> SUBSET ChunkIds]
  BY <1>1, BuildType DEF InitFrom
<1>3. fts \in [Docs -> SUBSET ChunkIds] /\ vectors \in [Docs -> SUBSET ChunkIds]
  BY <1>2 DEF InitFrom, Retrievable
<1>4. chunkCount \in [Docs -> Nat] /\ embedded \in [Docs -> Nat]
  BY <1>2, <1>3, ChunkCount DEF InitFrom
<1>5. ocr \in [Docs -> [Pages -> {"none", "text", "empty"}]]
  BY DEF InitFrom
<1>6. status \in [Docs -> Statuses] /\ job \in [Docs -> JOB_STATES]
  BY DEF InitFrom, Statuses
<1>7. ckpt \in [Docs -> Int] /\ retries \in [Docs -> 0..MaxRetries]
  BY DEF InitFrom
<1>8. restarts \in 0..MaxRestarts
  BY DEF InitFrom
<1>9. Busy
  BY DEF InitFrom, Busy
<1> QED
  BY <1>1, <1>2, <1>3, <1>4, <1>5, <1>6, <1>7, <1>8, <1>9
  DEF InitFrom, TypeInv, TypeOK, Labels

\* An exception leaves a thread's document, job and place well typed.
LEMMA FailsType ==
  ASSUME TypeInv, NEW t \in Threads, pc[t] # "idle", Fails(t)
  PROVE  /\ status' \in [Docs -> Statuses]
         /\ job' \in [Docs -> JOB_STATES]
         /\ retries' \in [Docs -> 0..MaxRetries]
         /\ pc' \in [Threads -> Labels]
         /\ cur' \in [Threads -> Docs \cup {NoDoc}]
         /\ Busy'
<1>1. cur[t] \in Docs
  BY DEF TypeInv, Busy
<1>2. retries[cur[t]] \in 0..MaxRetries
  BY <1>1 DEF TypeInv, TypeOK
<1>3. CASE t \in Workers
  <2>1. /\ StateAfterFailure(retries[cur[t]], MaxRetries) \in JOB_STATES
        /\ RetriesAfterFailure(retries[cur[t]], MaxRetries) \in 0..MaxRetries
    BY <1>2, FailureType
  <2>2. status' \in [Docs -> Statuses]
    BY <1>1, <1>3 DEF TypeInv, TypeOK, Fails, Statuses
  <2>5. job' \in [Docs -> JOB_STATES]
    <3> HIDE DEF JOB_STATES
    <3> QED
      BY <1>1, <1>3, <2>1 DEF TypeInv, TypeOK, Fails
  <2>3. retries' \in [Docs -> 0..MaxRetries]
    BY <1>1, <1>3, <2>1 DEF TypeInv, TypeOK, Fails
  <2>4. pc' \in [Threads -> Labels] /\ cur' \in [Threads -> Docs \cup {NoDoc}] /\ Busy'
    BY <1>1, <1>3 DEF TypeInv, TypeOK, Busy, Fails, Labels
  <2> QED
    BY <2>2, <2>3, <2>4, <2>5
<1>4. CASE t \notin Workers
  BY <1>4 DEF TypeInv, TypeOK, Busy, Fails, Labels
<1> QED
  BY <1>3, <1>4

LEMMA TypeWorker ==
  ASSUME TypeInv, NEW w \in Workers, WorkerStep(w)
  PROVE  TypeInv'
<1> USE DEF TypeInv, TypeOK, Busy, Labels, Statuses
<1>1. CASE NextDocument(w)
  BY <1>1 DEF NextDocument, Candidates, Unsettled, Unfinished, RetryDue
<1>2. CASE Loop(w)
  BY <1>2 DEF Loop
<1>3. CASE Release(w)
  BY <1>3 DEF Release
<1>4. CASE SetState(w)
  BY <1>4, FailsType DEF SetState
<1>5. CASE SetStateWrite(w)
  BY <1>5 DEF SetStateWrite
<1>6. CASE OcrRound(w)
  BY <1>6 DEF OcrRound, FirstPages, pending_pages
<1>7. CASE OcrBatch(w)
  BY <1>7 DEF OcrBatch
<1>8. CASE OcrEnd(w)
  BY <1>8 DEF OcrEnd
<1> QED
  BY <1>1, <1>2, <1>3, <1>4, <1>5, <1>6, <1>7, <1>8 DEF WorkerStep

LEMMA TypeStage ==
  ASSUME TypeInv, NEW t \in Threads, StageStep(t)
  PROVE  TypeInv'
<1> USE DEF TypeInv, TypeOK, Busy, Labels, Statuses
<1>1. CASE ExtractBegin(t)
  <2>1. cur[t] \in Docs
    BY <1>1 DEF ExtractBegin
  <2>2. CASE cur[t] \in Stored
    <3>1. next' = [next EXCEPT ![t] = ckpt[cur[t]] + 1] /\ Goto(t, "batches")
          /\ UNCHANGED <<status, job, cur>>
      BY <1>1, <2>2 DEF ExtractBegin
    <3>2. next' \in [Threads -> Int]
      BY <3>1, <2>1
    <3>3. pc' \in [Threads -> Labels] /\ Busy'
      BY <3>1, <2>1
    <3> QED
      BY <1>1, <3>1, <3>2, <3>3 DEF ExtractBegin
  <2>3. CASE cur[t] \notin Stored
    <3>1. status' \in [Docs -> Statuses] /\ job' \in [Docs -> JOB_STATES]
      BY <1>1, <2>1, <2>3 DEF ExtractBegin
    <3>2. Return(t) /\ UNCHANGED next
      BY <1>1, <2>3 DEF ExtractBegin
    <3>3. pc' \in [Threads -> Labels] /\ cur' \in [Threads -> Docs \cup {NoDoc}] /\ Busy'
      BY <3>2, <2>1
    <3> QED
      BY <1>1, <3>1, <3>2, <3>3 DEF ExtractBegin
  <2> QED
    BY <2>2, <2>3
<1>2. CASE CommitBatch(t)
  BY <1>2 DEF CommitBatch, BatchPages
<1>3. CASE ExtractEnd(t)
  BY <1>3 DEF ExtractEnd
<1>4. CASE ChunkLoad(t)
  <2>1. cur[t] \in Docs /\ Build(cur[t]) \subseteq ChunkIds
    BY <1>4, BuildType DEF ChunkLoad
  <2>2. CASE Fails(t) /\ UNCHANGED snap
    BY <1>4, <2>2, FailsType DEF ChunkLoad
  <2>3. CASE /\ (Goto(t, "chunkAdvance") /\ UNCHANGED cur) \/ Return(t)
             /\ UNCHANGED <<status, job, retries, snap>>
    <3>1. pc' \in [Threads -> Labels] /\ cur' \in [Threads -> Docs \cup {NoDoc}] /\ Busy'
      <4>1. CASE Goto(t, "chunkAdvance") /\ UNCHANGED cur
        BY <2>1, <4>1
      <4>2. CASE Return(t)
        BY <2>1, <4>2
      <4> QED
        BY <2>3, <4>1, <4>2
    <3> QED
      BY <1>4, <2>3, <3>1 DEF ChunkLoad
  <2>4. CASE snap' = [snap EXCEPT ![t] = Build(cur[t])] /\ Goto(t, "chunkWrite")
             /\ UNCHANGED <<status, job, retries, cur>>
    BY <1>4, <2>1, <2>4 DEF ChunkLoad
  <2> QED
    BY <1>4, <2>2, <2>3, <2>4 DEF ChunkLoad
<1>5. CASE ChunkAdvance(t)
  BY <1>5 DEF ChunkAdvance
<1>6. CASE ChunkWrite(t)
  BY <1>6, ChunkCount DEF ChunkWrite
<1>7. CASE IndexDocument(t)
  BY <1>7 DEF IndexDocument, Retrievable
<1>8. CASE Recount(t)
  BY <1>8, ChunkCount DEF Recount, Embedded
<1>9. CASE EmbedSelect(t)
  BY <1>9 DEF EmbedSelect, Retrievable
<1>10. CASE EmbedBatch(t)
  <2>1. cur[t] \in Docs
    BY <1>10 DEF EmbedBatch
  <2>2. vectors' \in [Docs -> SUBSET ChunkIds] /\ snap' \in [Threads -> SUBSET ChunkIds]
    BY <1>10, <2>1 DEF EmbedBatch, StillThere
  <2>3. Cardinality(Retrievable(chunks[cur[t]]) \cap vectors'[cur[t]]) \in Nat
    BY <2>1, <2>2, ChunkCount
  <2>4. embedded' \in [Docs -> Nat]
    BY <1>10, <2>1, <2>3 DEF EmbedBatch
  <2>5. fresh' \in [Docs -> BOOLEAN]
    BY <1>10 DEF EmbedBatch
  <2> QED
    BY <1>10, <2>2, <2>4, <2>5 DEF EmbedBatch
<1>11. CASE EmbedEnd(t)
  BY <1>11 DEF EmbedEnd
<1>12. CASE FinishRead(t)
  BY <1>12 DEF FinishRead
<1>13. CASE FinishEmpty(t)
  BY <1>13 DEF FinishEmpty
<1>14. CASE FinishReady(t)
  <2>1. cur[t] \in Docs
    BY <1>14 DEF FinishReady
  <2>2. Cardinality(Embedded(cur[t])) \in Nat
    BY <2>1, ChunkCount DEF Embedded, Retrievable
  <2>3. status' \in [Docs -> Statuses] /\ embedded' \in [Docs -> Nat]
    BY <1>14, <2>1, <2>2 DEF FinishReady
  <2>4. indexed' \in [Docs -> BOOLEAN]
    BY <1>14 DEF FinishReady
  <2> QED
    BY <1>14, <2>1, <2>3, <2>4 DEF FinishReady
<1>15. CASE After(t)
  <2>1. cur[t] \in Docs
    BY <1>15 DEF After
  <2>2. CASE t \in Workers /\ status[cur[t]] = PARTIALLY_SEARCHABLE
    BY <1>15, <2>1, <2>2 DEF After
  <2>3. CASE Return(t)
    BY <1>15, <2>1, <2>3 DEF After
  <2> QED
    BY <1>15, <2>2, <2>3 DEF After
<1> QED
  BY <1>1, <1>2, <1>3, <1>4, <1>5, <1>6, <1>7, <1>8, <1>9, <1>10, <1>11,
     <1>12, <1>13, <1>14, <1>15 DEF StageStep

LEMMA TypeStep == TypeInv /\ [Next]_vars => TypeInv'
<1> SUFFICES ASSUME TypeInv, [Next]_vars PROVE TypeInv'
  OBVIOUS
<1>1. ASSUME NEW d \in Docs, Upload(d) \/ CancelJob(d) \/ Reroute(d) \/ ClaimAges(d)
      PROVE  TypeInv'
  <2> USE DEF TypeInv, TypeOK, Busy, Statuses
  <2>1. CASE Upload(d)
    BY <2>1 DEF Upload
  <2>2. CASE CancelJob(d)
    BY <2>2 DEF CancelJob
  <2>3. CASE Reroute(d)
    BY <2>3 DEF Reroute
  <2>4. CASE ClaimAges(d)
    BY <2>4 DEF ClaimAges
  <2> QED
    BY <1>1, <2>1, <2>2, <2>3, <2>4
<1>2. ASSUME NEW w \in Workers, WorkerStep(w) PROVE TypeInv'
  BY <1>2, TypeWorker
<1>3. ASSUME NEW w \in Workers, Crash(w) PROVE TypeInv'
  <2> USE DEF TypeInv, TypeOK, Crash
  <2>1. holder' \in [Docs -> Workers \cup {NoOne, Gone}]
    BY <1>3
  <2>2. pc' \in [Threads -> Labels] /\ cur' \in [Threads -> Docs \cup {NoDoc}] /\ Busy'
    BY <1>3 DEF Labels, Busy
  <2>3. /\ next' \in [Threads -> Int]
        /\ snap' \in [Threads -> SUBSET ChunkIds]
        /\ round' \in [Threads -> SUBSET Pages]
        /\ target' \in [Threads -> {QUEUED, EXTRACTING, CHUNKING}]
    BY <1>3
  <2>4. got' \in [Threads -> BOOLEAN] /\ stopping' \in [Workers -> BOOLEAN]
    BY <1>3
  <2>5. restarts' \in 0..MaxRestarts
    BY <1>3, SizesAssumption
  <2> QED
    BY <1>3, <2>1, <2>2, <2>3, <2>4, <2>5
<1>4. ASSUME NEW w \in Workers, Stop(w) \/ Start(w) PROVE TypeInv'
  <2> USE DEF TypeInv, TypeOK, Stop, Start
  <2>1. stopping' \in [Workers -> BOOLEAN]
    BY <1>4
  <2>2. restarts' \in 0..MaxRestarts
    BY <1>4, SizesAssumption
  <2> QED
    BY <1>4, <2>1, <2>2 DEF Busy
<1>5. ASSUME NEW t \in Threads, StageStep(t) PROVE TypeInv'
  BY <1>5, TypeStage
<1>6. ASSUME NEW t \in Threads, Raise(t) PROVE TypeInv'
  BY <1>6, FailsType DEF TypeInv, TypeOK, Raise
<1>7. ASSUME NEW c \in Callers, NEW d \in Docs, NEW name \in Calls, Call(c, d, name)
      PROVE  TypeInv'
  BY <1>7 DEF TypeInv, TypeOK, Busy, Call, Labels
<1>8. CASE UNCHANGED vars
  BY <1>8 DEF TypeInv, TypeOK, Busy, vars
<1> QED
  BY <1>1, <1>2, <1>3, <1>4, <1>5, <1>6, <1>7, <1>8 DEF Next

\* Type correctness of the pipeline, for every instance.
THEOREM TypeCorrect == Spec => []TypeOK
<1>1. TypeInv => TypeOK
  BY DEF TypeInv
<1> QED
  BY <1>1, TypeInit, TypeStep, PTL DEF Spec

-----------------------------------------------------------------------------
(* The search indexes. *)

\* `vectors` is only changed by the transaction that rebuilds the chunks and
\* by the one that stores a batch of embeddings; each leaves a subset.
LEMMA OrphanStep == TypeInv /\ NoOrphanVectors /\ [Next]_vars => NoOrphanVectors'
<1> SUFFICES ASSUME TypeInv, NoOrphanVectors, [Next]_vars PROVE NoOrphanVectors'
  OBVIOUS
<1> USE DEF NoOrphanVectors
<1>1. ASSUME NEW t \in Threads, ChunkWrite(t) PROVE NoOrphanVectors'
  BY <1>1 DEF ChunkWrite, TypeInv, TypeOK, Retrievable
<1>2. ASSUME NEW t \in Threads, EmbedBatch(t) PROVE NoOrphanVectors'
  BY <1>2 DEF EmbedBatch, TypeInv, TypeOK, StillThere
<1>3. ASSUME UNCHANGED <<chunks, vectors>> PROVE NoOrphanVectors'
  BY <1>3
<1>4. ASSUME NEW t \in Threads, StageStep(t) PROVE NoOrphanVectors'
  BY <1>1, <1>2, <1>3, <1>4 DEF StageStep, ExtractBegin, CommitBatch, ExtractEnd,
     ChunkLoad, ChunkAdvance, IndexDocument, Recount, EmbedSelect, EmbedEnd,
     FinishRead, FinishEmpty, FinishReady, After
<1>5. ASSUME NEW w \in Workers, WorkerStep(w) PROVE NoOrphanVectors'
  BY <1>3, <1>5 DEF WorkerStep, NextDocument, Loop, Release, SetState,
     SetStateWrite, OcrRound, OcrBatch, OcrEnd
<1>6. ASSUME NEW w \in Workers, Crash(w) \/ Stop(w) \/ Start(w) PROVE NoOrphanVectors'
  BY <1>3, <1>6 DEF Crash, Stop, Start
<1>7. ASSUME NEW d \in Docs, Upload(d) \/ CancelJob(d) \/ Reroute(d) \/ ClaimAges(d)
      PROVE  NoOrphanVectors'
  BY <1>3, <1>7 DEF Upload, CancelJob, Reroute, ClaimAges
<1>8. ASSUME NEW t \in Threads, Raise(t) PROVE NoOrphanVectors'
  BY <1>3, <1>8 DEF Raise
<1>9. ASSUME NEW c \in Callers, NEW d \in Docs, NEW name \in Calls, Call(c, d, name)
      PROVE  NoOrphanVectors'
  BY <1>3, <1>9 DEF Call
<1>10. CASE UNCHANGED vars
  BY <1>3, <1>10 DEF vars
<1> QED
  BY <1>4, <1>5, <1>6, <1>7, <1>8, <1>9, <1>10 DEF Next

\* Dense search never holds a vector of a chunk that is gone, however many
\* workers and requests rebuild and embed the same document at once.
THEOREM OrphanFree == Spec => []NoOrphanVectors
<1>1. Init => NoOrphanVectors
  BY DEF Init, InitFrom, NoOrphanVectors, Retrievable
<1>2. TypeInv /\ NoOrphanVectors /\ [Next]_vars => TypeInv' /\ NoOrphanVectors'
  BY TypeStep, OrphanStep
<1> QED
  BY <1>1, <1>2, TypeInit, PTL DEF Spec

\* A document becomes answerable only in the transaction that rebuilds its
\* keyword index; the chunks change only in one that takes it out again.
LEMMA IndexedStep == TypeInv /\ AnswerableIndexed /\ [Next]_vars => AnswerableIndexed'
<1> SUFFICES ASSUME TypeInv, AnswerableIndexed, [Next]_vars PROVE AnswerableIndexed'
  OBVIOUS
<1> USE DEF AnswerableIndexed, ANSWERABLE_STATES
<1>1. ASSUME UNCHANGED <<chunks, fts>>,
             \A d \in Docs : status'[d] \in ANSWERABLE_STATES => status[d] \in ANSWERABLE_STATES
      PROVE  AnswerableIndexed'
  BY <1>1 DEF Retrievable
<1>2. ASSUME UNCHANGED <<status, chunks, fts>> PROVE AnswerableIndexed'
  BY <1>2 DEF Retrievable
<1>3. ASSUME NEW t \in Threads, Fails(t), UNCHANGED <<chunks, fts>> PROVE AnswerableIndexed'
  BY <1>1, <1>3 DEF Fails, TypeInv, TypeOK
<1>4. ASSUME NEW t \in Threads, StageStep(t) PROVE AnswerableIndexed'
  <2>1. CASE ExtractBegin(t) \/ CommitBatch(t) \/ ExtractEnd(t)
    BY <1>1, <2>1 DEF ExtractBegin, CommitBatch, ExtractEnd, TypeInv, TypeOK
  <2>2. CASE ChunkLoad(t)
    BY <1>2, <1>3, <2>2 DEF ChunkLoad
  <2>3. CASE ChunkAdvance(t)
    BY <1>1, <2>3 DEF ChunkAdvance, TypeInv, TypeOK
  <2>4. CASE ChunkWrite(t)
    BY <2>4 DEF ChunkWrite, TypeInv, TypeOK, Retrievable
  <2>5. CASE IndexDocument(t)
    BY <2>5 DEF IndexDocument, TypeInv, TypeOK, Retrievable
  <2>6. CASE FinishEmpty(t)
    BY <1>1, <2>6 DEF FinishEmpty, TypeInv, TypeOK
  <2>7. CASE FinishReady(t)
    BY <1>1, <2>7 DEF FinishReady, TypeInv, TypeOK
  <2>8. CASE Recount(t) \/ EmbedSelect(t) \/ EmbedBatch(t) \/ EmbedEnd(t)
             \/ FinishRead(t) \/ After(t)
    BY <1>2, <2>8 DEF Recount, EmbedSelect, EmbedBatch, EmbedEnd, FinishRead, After
  <2> QED
    BY <1>4, <2>1, <2>2, <2>3, <2>4, <2>5, <2>6, <2>7, <2>8 DEF StageStep
<1>5. ASSUME NEW w \in Workers, WorkerStep(w) PROVE AnswerableIndexed'
  <2>1. CASE NextDocument(w)
    BY <1>1, <2>1 DEF NextDocument, TypeInv, TypeOK
  <2>2. CASE SetState(w)
    BY <1>2, <1>3, <2>2 DEF SetState
  <2>3. CASE SetStateWrite(w)
    BY <1>1, <2>3 DEF SetStateWrite, TypeInv, TypeOK
  <2>4. CASE Loop(w) \/ Release(w) \/ OcrRound(w) \/ OcrBatch(w) \/ OcrEnd(w)
    BY <1>2, <2>4 DEF Loop, Release, OcrRound, OcrBatch, OcrEnd
  <2> QED
    BY <1>5, <2>1, <2>2, <2>3, <2>4 DEF WorkerStep
<1>6. ASSUME NEW w \in Workers, Crash(w) \/ Stop(w) \/ Start(w) PROVE AnswerableIndexed'
  BY <1>2, <1>6 DEF Crash, Stop, Start
<1>7. ASSUME NEW d \in Docs, Upload(d) \/ Reroute(d) PROVE AnswerableIndexed'
  BY <1>1, <1>7 DEF Upload, Reroute, TypeInv, TypeOK
<1>8. ASSUME NEW d \in Docs, CancelJob(d) \/ ClaimAges(d) PROVE AnswerableIndexed'
  BY <1>2, <1>8 DEF CancelJob, ClaimAges
<1>9. ASSUME NEW t \in Threads, Raise(t) PROVE AnswerableIndexed'
  BY <1>3, <1>9 DEF Raise
<1>10. ASSUME NEW c \in Callers, NEW d \in Docs, NEW name \in Calls, Call(c, d, name)
       PROVE  AnswerableIndexed'
  BY <1>2, <1>10 DEF Call
<1>11. CASE UNCHANGED vars
  BY <1>2, <1>11 DEF vars
<1> QED
  BY <1>4, <1>5, <1>6, <1>7, <1>8, <1>9, <1>10, <1>11 DEF Next

\* An answerable document's keyword index is exactly its retrievable chunks.
THEOREM KeywordSearchExact == Spec => []AnswerableIndexed
<1>1. Init => AnswerableIndexed
  BY DataAssumption DEF Init, InitFrom, AnswerableIndexed, ANSWERABLE_STATES
<1>2. TypeInv /\ AnswerableIndexed /\ [Next]_vars => TypeInv' /\ AnswerableIndexed'
  BY TypeStep, IndexedStep
<1> QED
  BY <1>1, <1>2, TypeInit, PTL DEF Spec

-----------------------------------------------------------------------------
(* Extraction. *)

\* The pages of the first b batches.
Before(b) == {p \in Pages : p <= b * PageBatchSize}

\* An extractor that is about to commit batch b is behind no page of the
\* batches before it: batches are read from a checkpoint and in order.
InOrder ==
  \A t \in Threads : pc[t] = "batches" => Before(next[t]) \subseteq pages[cur[t]]

Covered == \A d \in Docs : Before(ckpt[d] + 1) \subseteq pages[d]

ReadInv == Covered /\ InOrder

\* The pages of a batch and of those before it are those before the next.
LEMMA NextBatch ==
  ASSUME NEW b \in Int
  PROVE  Before(b + 1) \subseteq Before(b) \cup BatchPages(b)
<1> SUFFICES ASSUME NEW p \in Pages, p <= (b + 1) * PageBatchSize, ~(p <= b * PageBatchSize)
             PROVE  b * PageBatchSize < p
  BY DEF Before, BatchPages
<1>1. p \in Int /\ b * PageBatchSize \in Int
  BY SizesAssumption DEF Pages
<1> QED
  BY <1>1

\* After the last batch nothing is left to read.
LEMMA LastBatch ==
  ASSUME NEW b \in Int, ~HasBatch(b)
  PROVE  Before(b) = Pages
<1>1. b * PageBatchSize \in Int /\ NumPages \in Int
  BY SizesAssumption
<1> QED
  BY <1>1 DEF Before, HasBatch, Pages

\* No step takes a page away, or moves a thread's document while it works.
LEMMA PagesKept ==
  ASSUME TypeInv, [Next]_vars, NEW d \in Docs
  PROVE  pages[d] \subseteq pages'[d]
<1> SUFFICES ASSUME pages' # pages PROVE pages[d] \subseteq pages'[d]
  BY DEF TypeInv, TypeOK
<1>1. ASSUME NEW t \in Threads, StageStep(t) PROVE CommitBatch(t)
  BY <1>1 DEF StageStep, ExtractBegin, ExtractEnd, ChunkLoad, ChunkAdvance,
     ChunkWrite, IndexDocument, Recount, EmbedSelect, EmbedBatch, EmbedEnd,
     FinishRead, FinishEmpty, FinishReady, After
<1>2. ASSUME NEW w \in Workers PROVE ~WorkerStep(w)
  BY DEF WorkerStep, NextDocument, Loop, Release, SetState, SetStateWrite,
     OcrRound, OcrBatch, OcrEnd
<1>3. ASSUME NEW w \in Workers PROVE ~(Crash(w) \/ Stop(w) \/ Start(w))
  BY DEF Crash, Stop, Start
<1>4. ASSUME NEW e \in Docs PROVE ~(Upload(e) \/ CancelJob(e) \/ Reroute(e) \/ ClaimAges(e))
  BY DEF Upload, CancelJob, Reroute, ClaimAges
<1>5. ASSUME NEW t \in Threads PROVE ~Raise(t)
  BY DEF Raise
<1>6. ASSUME NEW c \in Callers, NEW e \in Docs, NEW name \in Calls PROVE ~Call(c, e, name)
  BY DEF Call
<1>7. ~UNCHANGED vars
  BY DEF vars
<1>8. \E t \in Threads : CommitBatch(t)
  BY <1>1, <1>2, <1>3, <1>4, <1>5, <1>6, <1>7 DEF Next
<1> QED
  BY <1>8 DEF CommitBatch, TypeInv, TypeOK

LEMMA ReadStep == TypeInv /\ ReadInv /\ [Next]_vars => ReadInv'
<1> SUFFICES ASSUME TypeInv, ReadInv, [Next]_vars PROVE ReadInv'
  OBVIOUS
<1> USE DEF ReadInv, Covered, InOrder
<1>0. \A d \in Docs : pages[d] \subseteq pages'[d]
  BY PagesKept
\* A step that moves no checkpoint and brings no thread to its batches.
<1>1. ASSUME UNCHANGED ckpt,
             \A t \in Threads : pc'[t] = "batches" =>
                pc[t] = "batches" /\ cur'[t] = cur[t] /\ next'[t] = next[t]
      PROVE  ReadInv'
  <2>1. Covered'
    BY <1>0, <1>1 DEF Before
  <2>2. InOrder'
    BY <1>0, <1>1 DEF Before, TypeInv, Busy
  <2> QED
    BY <2>1, <2>2
<1>2. ASSUME NEW t \in Threads, CommitBatch(t) PROVE ReadInv'
  <2>1. cur[t] \in Docs /\ next[t] \in Int
    BY <1>2 DEF CommitBatch, TypeInv, TypeOK, Busy
  <2>2. Before(next[t] + 1) \subseteq pages'[cur[t]]
    BY <1>2, <2>1, NextBatch DEF CommitBatch, TypeInv, TypeOK
  <2>3. Covered'
    BY <1>0, <1>2, <2>1, <2>2 DEF CommitBatch, TypeInv, TypeOK, Before
  <2>4. InOrder'
    BY <1>0, <1>2, <2>1, <2>2 DEF CommitBatch, TypeInv, TypeOK, Busy, Before
  <2> QED
    BY <2>3, <2>4
<1>3. ASSUME NEW t \in Threads, ExtractBegin(t) PROVE ReadInv'
  <2>1. cur[t] \in Docs
    BY <1>3 DEF ExtractBegin, TypeInv, Busy
  <2>2. CASE cur[t] \in Stored
    <3>1. pc' = [pc EXCEPT ![t] = "batches"] /\ next' = [next EXCEPT ![t] = ckpt[cur[t]] + 1]
          /\ UNCHANGED <<cur, ckpt, pages>>
      BY <1>3, <2>2 DEF ExtractBegin
    <3> QED
      BY <2>1, <3>1 DEF TypeInv, TypeOK, Before
  <2>3. CASE cur[t] \notin Stored
    <3>1. Return(t) /\ UNCHANGED <<next, ckpt>>
      BY <1>3, <2>3 DEF ExtractBegin
    <3> QED
      BY <1>1, <3>1 DEF TypeInv, TypeOK
  <2> QED
    BY <2>2, <2>3
<1>4. ASSUME NEW t \in Threads, Fails(t), UNCHANGED <<ckpt, next>> PROVE ReadInv'
  BY <1>1, <1>4 DEF Fails, TypeInv, TypeOK
<1>5. ASSUME NEW t \in Threads, StageStep(t) PROVE ReadInv'
  <2>1. CASE ExtractEnd(t)
    BY <1>1, <2>1 DEF ExtractEnd, TypeInv, TypeOK
  <2>2. CASE ChunkLoad(t)
    BY <1>1, <1>4, <2>2 DEF ChunkLoad, TypeInv, TypeOK
  <2>3. CASE ChunkAdvance(t) \/ ChunkWrite(t) \/ IndexDocument(t)
    <3>1. Return(t) /\ UNCHANGED <<next, ckpt>>
      BY <2>3 DEF ChunkAdvance, ChunkWrite, IndexDocument
    <3> QED
      BY <1>1, <3>1 DEF TypeInv, TypeOK
  <2>4. CASE Recount(t) \/ EmbedSelect(t) \/ EmbedBatch(t) \/ EmbedEnd(t)
    BY <1>1, <2>4 DEF Recount, EmbedSelect, EmbedBatch, EmbedEnd, TypeInv, TypeOK
  <2>5. CASE FinishRead(t) \/ FinishEmpty(t) \/ FinishReady(t) \/ After(t)
    BY <1>1, <2>5 DEF FinishRead, FinishEmpty, FinishReady, After, TypeInv, TypeOK
  <2> QED
    BY <1>2, <1>3, <1>5, <2>1, <2>2, <2>3, <2>4, <2>5 DEF StageStep
<1>6. ASSUME NEW w \in Workers, WorkerStep(w) PROVE ReadInv'
  <2>1. CASE NextDocument(w) \/ Release(w)
    BY <1>1, <2>1 DEF NextDocument, Release, TypeInv, TypeOK
  <2>4. CASE Loop(w)
    BY <1>1, <2>4 DEF Loop, TypeInv, TypeOK
  <2>2. CASE SetState(w)
    BY <1>1, <1>4, <2>2 DEF SetState, TypeInv, TypeOK
  <2>3. CASE SetStateWrite(w) \/ OcrRound(w) \/ OcrBatch(w) \/ OcrEnd(w)
    BY <1>1, <2>3 DEF SetStateWrite, OcrRound, OcrBatch, OcrEnd, TypeInv, TypeOK
  <2> QED
    BY <1>6, <2>1, <2>2, <2>3, <2>4 DEF WorkerStep
<1>7. ASSUME NEW w \in Workers, Crash(w) \/ Stop(w) \/ Start(w) PROVE ReadInv'
  <2>1. CASE Crash(w)
    BY <1>1, <2>1 DEF Crash, TypeInv, TypeOK
  <2>2. CASE Stop(w) \/ Start(w)
    BY <1>1, <2>2 DEF Stop, Start
  <2> QED
    BY <1>7, <2>1, <2>2
<1>8. ASSUME NEW d \in Docs, Upload(d) \/ CancelJob(d) \/ Reroute(d) \/ ClaimAges(d)
      PROVE  ReadInv'
  BY <1>1, <1>8 DEF Upload, CancelJob, Reroute, ClaimAges
<1>9. ASSUME NEW t \in Threads, Raise(t) PROVE ReadInv'
  BY <1>4, <1>9 DEF Raise
<1>10. ASSUME NEW c \in Callers, NEW d \in Docs, NEW name \in Calls, Call(c, d, name)
       PROVE  ReadInv'
  BY <1>1, <1>10, ThreadsAssumption DEF Call, CallNames, TypeInv, TypeOK
<1>11. CASE UNCHANGED vars
  BY <1>1, <1>11 DEF vars
<1> QED
  BY <1>5, <1>6, <1>7, <1>8, <1>9, <1>10, <1>11 DEF Next

LEMMA ReadInit == Init => ReadInv
<1> SUFFICES ASSUME Init PROVE ReadInv
  OBVIOUS
<1>0. PICK past \in [Docs -> Pasts] : InitFrom(past)
  BY DEF Init
<1>1. ASSUME NEW d \in Docs PROVE Before(ckpt[d] + 1) \subseteq pages[d]
  <2>1. CASE past[d] # "new"
    BY <1>0, <2>1 DEF InitFrom, Before
  <2>2. CASE past[d] = "new"
    <3>1. ckpt[d] + 1 = 0 /\ 0 * PageBatchSize = 0
      BY <1>0, <2>2, SizesAssumption DEF InitFrom
    <3> QED
      BY <3>1 DEF Before, Pages
  <2> QED
    BY <2>1, <2>2
<1> QED
  BY <1>0, <1>1 DEF InitFrom, ReadInv, Covered, InOrder

\* The checkpoint is a contiguous high-water mark of what is in `pages`, for
\* any number of extractors, crashes and batches.
THEOREM CheckpointHolds == Spec => []CheckpointCovered
<1>1. ReadInv => CheckpointCovered
  BY DEF ReadInv, Covered, Before, CheckpointCovered
<1>2. TypeInv /\ ReadInv /\ [Next]_vars => TypeInv' /\ ReadInv'
  BY TypeStep, ReadStep
<1> QED
  BY <1>1, <1>2, TypeInit, ReadInit, PTL DEF Spec

\* Where a thread only goes with a document that is past extraction, unless a
\* request chunks it early.
PastReading(t) ==
  \/ pc[t] \in {"chunk", "rechunk", "chunkWrite", "chunkAdvance", "ocr", "ocrRun"}
  \/ pc[t] \in {"setState", "setStateWrite"} /\ target[t] = CHUNKING

AllRead == \A t \in Threads : PastReading(t) => pages[cur[t]] = Pages

CompleteInv == TextComplete /\ AllRead

NoEarlyChunk == Calls \cap {"chunk", "rechunk"} = {}

LEMMA CompleteStep ==
  ASSUME NoEarlyChunk, TypeInv, ReadInv, CompleteInv, [Next]_vars
  PROVE  CompleteInv'
<1> USE DEF CompleteInv, TextComplete, AllRead, PastReading
<1>0. \A d \in Docs : pages[d] = Pages => pages'[d] = Pages
  <2>1. ASSUME NEW d \in Docs PROVE pages'[d] \subseteq Pages /\ pages[d] \subseteq pages'[d]
    BY TypeStep, PagesKept DEF TypeInv, TypeOK
  <2> QED
    BY <2>1
\* A step that moves no document past extraction and no thread with it.
<1>1. ASSUME \A d \in Docs : status'[d] \in {CHUNKING, INDEXING_KEYWORD,
               PARTIALLY_SEARCHABLE, READY, NO_SEARCHABLE_CONTENT} => pages[d] = Pages,
             \A t \in Threads : PastReading(t)' =>
                /\ cur'[t] \in Docs
                /\ pages[cur'[t]] = Pages
      PROVE  CompleteInv'
  BY <1>0, <1>1
<1>2. ASSUME NEW t \in Threads, pc[t] # "idle", Fails(t), UNCHANGED target
      PROVE  CompleteInv'
  BY <1>1, <1>2 DEF Fails, TypeInv, TypeOK, Busy
\* A thread moves on, or returns, and at most fails a document.
<1>10. ASSUME NEW t \in Threads, cur[t] \in Docs,
              \/ Return(t)
              \/ /\ UNCHANGED cur
                 /\ \E l \in Labels :
                      /\ Goto(t, l)
                      /\ l \in {"chunkWrite", "chunkAdvance"} => PastReading(t)
                      /\ l \notin {"chunk", "rechunk", "ocr", "ocrRun", "setState",
                                   "setStateWrite"},
              UNCHANGED target,
              \A d \in Docs : status'[d] = status[d] \/ status'[d] = FAILED
       PROVE  CompleteInv'
  <2>1. CASE Return(t)
    BY <1>1, <1>10, <2>1 DEF TypeInv, TypeOK, Busy
  <2>2. CASE ~Return(t)
    BY <1>1, <1>10, <2>2 DEF TypeInv, TypeOK, Busy
  <2> QED
    BY <2>1, <2>2
<1>3. ASSUME NEW t \in Threads, StageStep(t) PROVE CompleteInv'
  <2> USE DEF TypeInv, TypeOK, Busy
  <2>1. CASE ExtractBegin(t)
    <3>1. cur[t] \in Docs /\ UNCHANGED target
      BY <2>1 DEF ExtractBegin
    <3>3. CASE cur[t] \in Stored
      BY <1>1, <2>1, <3>3 DEF ExtractBegin
    <3>4. cur[t] \notin Stored => Return(t)
      BY <2>1 DEF ExtractBegin
    <3>2. \A d \in Docs : status'[d] = status[d] \/ status'[d] = FAILED
      BY <2>1 DEF ExtractBegin
    <3> QED
      BY <1>10, <3>1, <3>2, <3>3, <3>4
  <2>2. CASE CommitBatch(t)
    BY <1>1, <2>2 DEF CommitBatch
  <2>3. CASE ExtractEnd(t)
    <3>1. pages[cur[t]] = Pages
      <4>1. /\ next[t] \in Int /\ ~HasBatch(next[t])
            /\ Before(next[t]) \subseteq pages[cur[t]]
            /\ pages[cur[t]] \subseteq Pages
        BY <2>3 DEF ExtractEnd, ReadInv, InOrder
      <4> QED
        BY <4>1, LastBatch
    <3> QED
      BY <1>1, <2>3, <3>1 DEF ExtractEnd
  <2>4. CASE ChunkLoad(t)
    <3>1. CASE Fails(t)
      BY <1>2, <2>4, <3>1 DEF ChunkLoad
    <3>2. CASE UNCHANGED status /\ ~Fails(t)
      <4>1. /\ cur[t] \in Docs /\ PastReading(t) /\ UNCHANGED target
            /\ \/ Return(t)
               \/ UNCHANGED cur /\ Goto(t, "chunkAdvance")
               \/ UNCHANGED cur /\ Goto(t, "chunkWrite")
        BY <2>4, <3>2 DEF ChunkLoad
      <4> QED
        BY <1>10, <3>2, <4>1 DEF Labels
    <3> QED
      BY <2>4, <3>1, <3>2 DEF ChunkLoad
  <2>5. CASE ChunkAdvance(t)
    BY <1>1, <2>5 DEF ChunkAdvance
  <2>6. CASE ChunkWrite(t)
    BY <1>1, <2>6 DEF ChunkWrite
  <2>7. CASE IndexDocument(t)
    BY <1>1, <2>7 DEF IndexDocument
  <2>8. CASE Recount(t) \/ EmbedSelect(t) \/ EmbedBatch(t) \/ EmbedEnd(t)
    <3>1. CASE Recount(t)
      BY <1>1, <3>1 DEF Recount
    <3>2. CASE EmbedSelect(t) \/ EmbedEnd(t)
      BY <1>1, <3>2 DEF EmbedSelect, EmbedEnd
    <3>3. CASE EmbedBatch(t)
      BY <1>1, <3>3 DEF EmbedBatch
    <3> QED
      BY <2>8, <3>1, <3>2, <3>3
  <2>9. CASE FinishRead(t) \/ FinishEmpty(t)
    BY <1>1, <2>9 DEF FinishRead, FinishEmpty
  <2>10. CASE FinishReady(t)
    BY <1>1, <2>10 DEF FinishReady
  <2>11. CASE After(t)
    BY <1>1, <2>11 DEF After
  <2> QED
    BY <1>3, <2>1, <2>2, <2>3, <2>4, <2>5, <2>6, <2>7, <2>8, <2>9, <2>10, <2>11
    DEF StageStep
<1>4. ASSUME NEW w \in Workers, WorkerStep(w) PROVE CompleteInv'
  <2> USE DEF TypeInv, TypeOK, Busy
  <2>1. CASE NextDocument(w)
    BY <1>1, <2>1 DEF NextDocument
  <2>2. CASE Loop(w)
    <3>1. PastReading(w)' => pages[cur[w]] = Pages
      BY <2>2 DEF Loop, TERMINAL_STATES
    <3> QED
      BY <1>1, <2>2, <3>1 DEF Loop
  <2>3. CASE Release(w)
    BY <1>1, <2>3 DEF Release
  <2>4. CASE SetState(w)
    <3>1. CASE Fails(w)
      BY <1>2, <2>4, <3>1 DEF SetState
    <3>2. CASE UNCHANGED status /\ ~Fails(w)
      BY <1>1, <2>4, <3>2 DEF SetState
    <3> QED
      BY <2>4, <3>1, <3>2 DEF SetState
  <2>5. CASE SetStateWrite(w)
    BY <1>1, <2>5 DEF SetStateWrite
  <2>6. CASE OcrRound(w) \/ OcrBatch(w)
    BY <1>1, <2>6 DEF OcrRound, OcrBatch
  <2>7. CASE OcrEnd(w)
    BY <1>1, <2>7 DEF OcrEnd
  <2> QED
    BY <1>4, <2>1, <2>2, <2>3, <2>4, <2>5, <2>6, <2>7 DEF WorkerStep
<1>5. ASSUME NEW w \in Workers, Crash(w) \/ Stop(w) \/ Start(w) PROVE CompleteInv'
  <2>1. CASE Crash(w)
    BY <1>1, <2>1 DEF Crash, TypeInv, TypeOK, Busy
  <2>2. CASE Stop(w) \/ Start(w)
    BY <1>1, <2>2 DEF Stop, Start, TypeInv, TypeOK, Busy
  <2> QED
    BY <1>5, <2>1, <2>2
<1>6. ASSUME NEW d \in Docs, Upload(d) \/ CancelJob(d) \/ Reroute(d) \/ ClaimAges(d)
      PROVE  CompleteInv'
  BY <1>1, <1>6 DEF Upload, CancelJob, Reroute, ClaimAges, TypeInv, TypeOK, Busy
<1>7. ASSUME NEW t \in Threads, Raise(t) PROVE CompleteInv'
  BY <1>2, <1>7 DEF Raise
<1>8. ASSUME NEW c \in Callers, NEW d \in Docs, NEW name \in Calls, Call(c, d, name)
      PROVE  CompleteInv'
  BY <1>1, <1>8, NoEarlyChunk DEF Call, NoEarlyChunk, TypeInv, TypeOK, Busy
<1>9. CASE UNCHANGED vars
  BY <1>1, <1>9 DEF vars, TypeInv, TypeOK, Busy
<1> QED
  BY <1>3, <1>4, <1>5, <1>6, <1>7, <1>8, <1>9 DEF Next

\* However many workers and /extract requests read a document at once, and
\* wherever each is killed, no document with a page missing goes on to
\* chunking, search or `ready` - as long as no request chunks it early.
THEOREM NothingUnread ==
  ASSUME NoEarlyChunk
  PROVE  Spec => []TextComplete
<1>1. Init => CompleteInv
  BY DataAssumption DEF Init, InitFrom, CompleteInv, TextComplete, AllRead, PastReading
<1>2. TypeInv /\ ReadInv /\ CompleteInv /\ [Next]_vars
        => TypeInv' /\ ReadInv' /\ CompleteInv'
  BY TypeStep, ReadStep, CompleteStep
<1>3. CompleteInv => TextComplete
  BY DEF CompleteInv
<1> QED
  BY <1>1, <1>2, <1>3, TypeInit, ReadInit, PTL DEF Spec

-----------------------------------------------------------------------------
(* Claims. *)

\* A worker's document is claimed in its name, and while no step outlasts the
\* margin a live worker's claim is never old enough to be taken.
Claims ==
  ~SlowSteps =>
    /\ \A w \in Workers : cur[w] # NoDoc => holder[cur[w]] = w
    /\ \A d \in Docs : holder[d] \in Workers => fresh[d]

LEMMA ClaimStep == TypeInv /\ Claims /\ [Next]_vars => Claims'
<1> SUFFICES ASSUME TypeInv, Claims, [Next]_vars, ~SlowSteps PROVE Claims'
  BY DEF Claims
<1> USE ThreadsAssumption DEF Claims
<1>1. ASSUME UNCHANGED <<holder, fresh>>,
             \A w \in Workers : cur'[w] = cur[w] \/ cur'[w] = NoDoc
      PROVE  Claims'
  BY <1>1
<1>2. ASSUME NEW t \in Threads, Fails(t) \/ Return(t), UNCHANGED <<holder, fresh>>
      PROVE  Claims'
  BY <1>1, <1>2 DEF Fails, TypeInv, TypeOK
<1>3. ASSUME UNCHANGED <<holder, cur>>, \A d \in Docs : fresh[d] => fresh'[d] PROVE Claims'
  BY <1>3
<1>4. ASSUME NEW t \in Threads, StageStep(t) PROVE Claims'
  <2>1. CASE EmbedBatch(t)
    BY <1>3, <2>1 DEF EmbedBatch, TypeInv, TypeOK
  <2>2. CASE ExtractBegin(t) \/ CommitBatch(t) \/ ExtractEnd(t)
    BY <1>1, <1>2, <2>2 DEF ExtractBegin, CommitBatch, ExtractEnd
  <2>3. CASE ChunkLoad(t)
    BY <1>1, <1>2, <2>3 DEF ChunkLoad
  <2>4. CASE ChunkAdvance(t) \/ ChunkWrite(t) \/ IndexDocument(t)
    BY <1>2, <2>4 DEF ChunkAdvance, ChunkWrite, IndexDocument
  <2>5. CASE Recount(t) \/ EmbedSelect(t) \/ EmbedEnd(t) \/ FinishRead(t)
             \/ FinishEmpty(t) \/ FinishReady(t) \/ After(t)
    BY <1>1, <1>2, <2>5 DEF Recount, EmbedSelect, EmbedEnd, FinishRead, FinishEmpty,
       FinishReady, After
  <2> QED
    BY <1>4, <2>1, <2>2, <2>3, <2>4, <2>5 DEF StageStep
<1>5. ASSUME NEW w \in Workers, WorkerStep(w) PROVE Claims'
  <2>1. CASE NextDocument(w)
    <3>1. PICK d \in Docs : /\ Free(w, d)
                           /\ holder' = [holder EXCEPT ![d] = w]
                           /\ fresh' = [fresh EXCEPT ![d] = TRUE]
                           /\ cur' = [cur EXCEPT ![w] = d]
      BY <2>1 DEF NextDocument, Candidates, Unsettled, Unfinished, RetryDue
    <3>2. holder[d] \notin Workers \ {w}
      BY <3>1 DEF Free
    <3>3. ASSUME NEW v \in Workers, cur'[v] # NoDoc PROVE holder'[cur'[v]] = v
      BY <3>1, <3>2, <3>3 DEF TypeInv, TypeOK
    <3>4. ASSUME NEW e \in Docs, holder'[e] \in Workers PROVE fresh'[e]
      BY <3>1, <3>4 DEF TypeInv, TypeOK
    <3> QED
      BY <3>3, <3>4
  <2>2. CASE Loop(w)
    BY <1>3, <2>2 DEF Loop, TypeInv, TypeOK
  <2>3. CASE Release(w)
    BY <2>3 DEF Release, TypeInv, TypeOK
  <2>4. CASE SetState(w)
    BY <1>1, <1>2, <2>4 DEF SetState
  <2>5. CASE SetStateWrite(w) \/ OcrRound(w) \/ OcrBatch(w) \/ OcrEnd(w)
    BY <1>1, <2>5 DEF SetStateWrite, OcrRound, OcrBatch, OcrEnd
  <2> QED
    BY <1>5, <2>1, <2>2, <2>3, <2>4, <2>5 DEF WorkerStep
<1>6. ASSUME NEW w \in Workers, Crash(w) PROVE Claims'
  BY <1>6 DEF Crash, TypeInv, TypeOK
<1>7. ASSUME NEW w \in Workers, Stop(w) \/ Start(w) PROVE Claims'
  BY <1>1, <1>7 DEF Stop, Start
<1>8. ASSUME NEW d \in Docs, ClaimAges(d) PROVE Claims'
  BY <1>8 DEF ClaimAges, TypeInv, TypeOK
<1>9. ASSUME NEW d \in Docs, Upload(d) \/ CancelJob(d) \/ Reroute(d) PROVE Claims'
  BY <1>1, <1>9 DEF Upload, CancelJob, Reroute
<1>10. ASSUME NEW t \in Threads, Raise(t) PROVE Claims'
  BY <1>2, <1>10 DEF Raise
<1>11. ASSUME NEW c \in Callers, NEW d \in Docs, NEW name \in Calls, Call(c, d, name)
       PROVE  Claims'
  BY <1>1, <1>11 DEF Call, TypeInv, TypeOK
<1>12. CASE UNCHANGED vars
  BY <1>1, <1>12 DEF vars
<1> QED
  BY <1>4, <1>5, <1>6, <1>7, <1>8, <1>9, <1>10, <1>11, <1>12 DEF Next

LEMMA ClaimInit == Init => Claims
  BY ThreadsAssumption DEF Init, InitFrom, Claims

\* Unless a step outlasts the claim margin, no two workers drive one document.
THEOREM OneDriver == Spec => []OneWorkerPerDocument
<1>1. Init => Claims
  BY ClaimInit
<1>2. TypeInv /\ Claims /\ [Next]_vars => TypeInv' /\ Claims'
  BY TypeStep, ClaimStep
<1>3. Claims => OneWorkerPerDocument
  BY DEF Claims, OneWorkerPerDocument
<1> QED
  BY <1>1, <1>2, <1>3, TypeInit, PTL DEF Spec

-----------------------------------------------------------------------------
(* What the pipeline promises of documents that only workers take through    *)
(* their stages, each one at a time.                                         *)

\* No step outlasts the claim margin, and requests only rebuild a keyword
\* index, cancel a waiting retry or reroute.
OnlyWorkersDrive ==
  ~SlowSteps /\ Calls \cap {"extract", "chunk", "rechunk", "embed"} = {}

\* From recognition to the stamp, and the part of it that has no page left to
\* recognise.
Embedding == {"recount", "embedSelect", "embed", "finish", "finishRead", "finishEmpty",
              "finishReady"}
Searching == Embedding \cup {"ocr", "ocrRun"}
Finishing == {"finish", "finishRead", "finishEmpty", "finishReady"}

\* What a document is at while its worker is at a stage.
AtStage(l, goal, s) ==
  /\ s # "absent"
  /\ l \notin {"rechunk", "indexOnly"}
  /\ l \in {"extract", "batches"} => s = EXTRACTING
  /\ l \in {"chunk", "chunkWrite", "chunkAdvance"} => s = CHUNKING
  /\ l = "index" => s = INDEXING_KEYWORD
  /\ l \in Searching => s = PARTIALLY_SEARCHABLE
  /\ l = "after" => s \in {PARTIALLY_SEARCHABLE, READY, NO_SEARCHABLE_CONTENT}
  /\ l \in {"setState", "setStateWrite"} =>
       \/ s = QUEUED /\ goal = EXTRACTING
       \/ s = PARTIALLY_SEARCHABLE /\ goal = CHUNKING
       \/ l = "setStateWrite" /\ s = "embedding" /\ goal = EXTRACTING

Missing(d) == Retrievable(chunks[d]) \ vectors[d]

\* What a worker has seen to, at the stage it is at.
InHand(l, d, rows) ==
  /\ l \in Embedding => pending_pages(d) = {}
  /\ l = "embed" => Missing(d) \subseteq rows
  /\ l \in Finishing => Missing(d) = {}

Hand(w) ==
  pc[w] # "idle" => /\ AtStage(pc[w], target[w], status[cur[w]])
                    /\ InHand(pc[w], cur[w], snap[w])

\* What a finished document has.
Whole(d) ==
  /\ status[d] = READY => Missing(d) = {}
  /\ status[d] \in {READY, NO_SEARCHABLE_CONTENT} => pending_pages(d) = {}
  /\ status[d] # STORED_NOT_INDEXED

Patient(t) == t \in Workers \/ pc[t] \in {"idle", "indexOnly"}

DriveInv ==
  /\ \A w \in Workers : Hand(w)
  /\ \A d \in Docs : Whole(d)
  /\ \A t \in Threads : Patient(t)

\* What a document keeps from the first time it is stamped, and what its worker
\* finds of it.
Read(d) == ~HasBatch(ckpt[d] + 1)

Stamped(d) ==
  /\ status[d] \in {CHUNKING, INDEXING_KEYWORD, PARTIALLY_SEARCHABLE, READY,
                    NO_SEARCHABLE_CONTENT} => Read(d)
  /\ job[d] = JOB_RETRYING => retries[d] > 0
  /\ indexed[d] => /\ Read(d) /\ pending_pages(d) = {}
                   /\ retries[d] = 0 => /\ Missing(d) = {}
                                        /\ status[d] \in {PARTIALLY_SEARCHABLE, READY,
                                                          NO_SEARCHABLE_CONTENT, FAILED}

StampedHand(w) ==
  /\ pc[w] = "batches" => next[w] = ckpt[cur[w]] + 1
  /\ pc[w] \in {"ocrRun", "setState", "setStateWrite"} /\ indexed[cur[w]] => retries[cur[w]] > 0

StampInv ==
  /\ \A d \in Docs : Stamped(d)
  /\ \A w \in Workers : StampedHand(w)

\* A step leaves a document, or a worker, as it was.
Kept(d) ==
  /\ status'[d] = status[d] /\ pages'[d] = pages[d] /\ needs'[d] = needs[d] /\ ocr'[d] = ocr[d]
  /\ chunks'[d] = chunks[d] /\ vectors'[d] = vectors[d] /\ ckpt'[d] = ckpt[d]
  /\ indexed'[d] = indexed[d] /\ retries'[d] = retries[d]
SameHand(w) ==
  /\ pc'[w] = pc[w] /\ cur'[w] = cur[w] /\ target'[w] = target[w] /\ snap'[w] = snap[w]
  /\ next'[w] = next[w]

\* A worker's step is about the document it is at and about itself.
LEMMA StepLocal ==
  ASSUME TypeInv, DriveInv, NEW w \in Workers, pc[w] # "idle",
         WorkerStep(w) \/ StageStep(w) \/ Raise(w)
  PROVE  /\ \A e \in Docs \ {cur[w]} : Kept(e) /\ job'[e] = job[e]
         /\ \A t \in Threads \ {w} : SameHand(t)
<1>t. TypeOK /\ cur[w] \in Docs
  BY DEF TypeInv, Busy
<1> USE DEF TypeOK, Kept, SameHand
<1>1. CASE Loop(w)
  BY <1>t, <1>1 DEF Loop, TERMINAL_STATES, Statuses
<1>2. CASE Release(w)
  BY <1>t, <1>2 DEF Release
<1>3. CASE SetState(w)
  BY <1>t, <1>3 DEF SetState, Fails
<1>4. CASE SetStateWrite(w)
  BY <1>t, <1>4 DEF SetStateWrite
<1>5. CASE OcrRound(w)
  BY <1>t, <1>5 DEF OcrRound
<1>6. CASE OcrBatch(w)
  BY <1>t, <1>6 DEF OcrBatch
<1>7. CASE OcrEnd(w)
  BY <1>t, <1>7 DEF OcrEnd
<1>8. CASE ExtractBegin(w)
  BY <1>t, <1>8 DEF ExtractBegin
<1>9. CASE CommitBatch(w)
  BY <1>t, <1>9 DEF CommitBatch
<1>10. CASE ExtractEnd(w)
  BY <1>t, <1>10 DEF ExtractEnd
<1>11. CASE ChunkLoad(w)
  BY <1>t, <1>11 DEF ChunkLoad, Fails
<1>12. CASE ChunkAdvance(w)
  BY <1>t, <1>12 DEF ChunkAdvance
<1>13. CASE ChunkWrite(w)
  BY <1>t, <1>13 DEF ChunkWrite
<1>14. CASE IndexDocument(w)
  BY <1>t, <1>14 DEF IndexDocument
<1>15. CASE Recount(w)
  BY <1>t, <1>15 DEF Recount
<1>16. CASE EmbedSelect(w)
  BY <1>t, <1>16 DEF EmbedSelect
<1>17. CASE EmbedBatch(w)
  BY <1>t, <1>17 DEF EmbedBatch, StillThere
<1>18. CASE EmbedEnd(w)
  BY <1>t, <1>18 DEF EmbedEnd
<1>19. CASE FinishRead(w)
  BY <1>t, <1>19 DEF FinishRead
<1>20. CASE FinishEmpty(w)
  BY <1>t, <1>20 DEF FinishEmpty
<1>21. CASE FinishReady(w)
  BY <1>t, <1>21 DEF FinishReady
<1>22. CASE After(w)
  BY <1>t, <1>22 DEF After
<1>23. CASE Raise(w)
  BY <1>t, <1>23 DEF Raise, Fails
<1>n. ~NextDocument(w)
  BY DEF NextDocument
<1> QED
  BY <1>n, <1>1, <1>2, <1>3, <1>4, <1>5, <1>6, <1>7, <1>8, <1>9, <1>10, <1>11, <1>12,
     <1>13, <1>14, <1>15, <1>16, <1>17, <1>18, <1>19, <1>20, <1>21, <1>22, <1>23 DEF
     WorkerStep, StageStep

\* A worker's step leaves it at a stage its document is at, with as much of it
\* seen to.
LEMMA HandStep ==
  ASSUME TypeInv, DriveInv, NEW w \in Workers, pc[w] # "idle",
         WorkerStep(w) \/ StageStep(w) \/ Raise(w)
  PROVE  Hand(w)'
<1>t. TypeOK /\ cur[w] \in Docs
  BY DEF TypeInv, Busy
<1> USE DEF TypeOK, DriveInv, Hand, AtStage, InHand, Searching, Embedding, Finishing,
            Missing, pending_pages, Retrievable
<1>1. CASE Loop(w)
  BY <1>t, <1>1 DEF Loop, TERMINAL_STATES, Statuses
<1>2. CASE Release(w)
  BY <1>t, <1>2 DEF Release
<1>3. CASE SetState(w)
  BY <1>t, <1>3 DEF SetState, Fails
<1>4. CASE SetStateWrite(w)
  BY <1>t, <1>4 DEF SetStateWrite
<1>5. CASE OcrRound(w)
  BY <1>t, <1>5 DEF OcrRound
<1>6. CASE OcrBatch(w)
  BY <1>t, <1>6 DEF OcrBatch
<1>7. CASE OcrEnd(w)
  BY <1>t, <1>7 DEF OcrEnd
<1>8. CASE ExtractBegin(w)
  BY <1>t, <1>8 DEF ExtractBegin
<1>9. CASE CommitBatch(w)
  BY <1>t, <1>9 DEF CommitBatch
<1>10. CASE ExtractEnd(w)
  BY <1>t, <1>10 DEF ExtractEnd
<1>11. CASE ChunkLoad(w)
  BY <1>t, <1>11 DEF ChunkLoad, Fails
<1>12. CASE ChunkAdvance(w)
  BY <1>t, <1>12 DEF ChunkAdvance
<1>13. CASE ChunkWrite(w)
  BY <1>t, <1>13 DEF ChunkWrite
<1>14. CASE IndexDocument(w)
  BY <1>t, <1>14 DEF IndexDocument
<1>15. CASE Recount(w)
  BY <1>t, <1>15 DEF Recount
<1>16. CASE EmbedSelect(w)
  BY <1>t, <1>16 DEF EmbedSelect
<1>17. CASE EmbedBatch(w)
  BY <1>t, <1>17 DEF EmbedBatch, StillThere
<1>18. CASE EmbedEnd(w)
  BY <1>t, <1>18 DEF EmbedEnd
<1>19. CASE FinishRead(w)
  BY <1>t, <1>19 DEF FinishRead
<1>20. CASE FinishEmpty(w)
  BY <1>t, <1>20 DEF FinishEmpty
<1>21. CASE FinishReady(w)
  BY <1>t, <1>21 DEF FinishReady
<1>22. CASE After(w)
  BY <1>t, <1>22 DEF After
<1>23. CASE Raise(w)
  BY <1>t, <1>23 DEF Raise, Fails
<1>n. ~NextDocument(w)
  BY DEF NextDocument
<1> QED
  BY <1>n, <1>1, <1>2, <1>3, <1>4, <1>5, <1>6, <1>7, <1>8, <1>9, <1>10, <1>11, <1>12,
     <1>13, <1>14, <1>15, <1>16, <1>17, <1>18, <1>19, <1>20, <1>21, <1>22, <1>23 DEF
     WorkerStep, StageStep

\* ... and the document finished only when it is.
LEMMA WholeStep ==
  ASSUME TypeInv, DriveInv, NEW w \in Workers, pc[w] # "idle",
         WorkerStep(w) \/ StageStep(w) \/ Raise(w),
         NEW d \in Docs, d = cur[w]
  PROVE  Whole(d)'
<1>t. TypeOK /\ cur[w] \in Docs
  BY DEF TypeInv, Busy
<1> USE DEF TypeOK, DriveInv, Hand, AtStage, InHand, Searching, Embedding, Finishing,
            Whole, Missing, pending_pages, Retrievable
<1>1. CASE Loop(w)
  BY <1>t, <1>1 DEF Loop, TERMINAL_STATES, Statuses
<1>2. CASE Release(w)
  BY <1>t, <1>2 DEF Release
<1>3. CASE SetState(w)
  BY <1>t, <1>3 DEF SetState, Fails
<1>4. CASE SetStateWrite(w)
  BY <1>t, <1>4 DEF SetStateWrite
<1>5. CASE OcrRound(w)
  BY <1>t, <1>5 DEF OcrRound
<1>6. CASE OcrBatch(w)
  BY <1>t, <1>6 DEF OcrBatch
<1>7. CASE OcrEnd(w)
  BY <1>t, <1>7 DEF OcrEnd
<1>8. CASE ExtractBegin(w)
  BY <1>t, <1>8 DEF ExtractBegin
<1>9. CASE CommitBatch(w)
  BY <1>t, <1>9 DEF CommitBatch
<1>10. CASE ExtractEnd(w)
  BY <1>t, <1>10 DEF ExtractEnd
<1>11. CASE ChunkLoad(w)
  BY <1>t, <1>11 DEF ChunkLoad, Fails
<1>12. CASE ChunkAdvance(w)
  BY <1>t, <1>12 DEF ChunkAdvance
<1>13. CASE ChunkWrite(w)
  BY <1>t, <1>13 DEF ChunkWrite
<1>14. CASE IndexDocument(w)
  BY <1>t, <1>14 DEF IndexDocument
<1>15. CASE Recount(w)
  BY <1>t, <1>15 DEF Recount
<1>16. CASE EmbedSelect(w)
  BY <1>t, <1>16 DEF EmbedSelect
<1>17. CASE EmbedBatch(w)
  BY <1>t, <1>17 DEF EmbedBatch, StillThere
<1>18. CASE EmbedEnd(w)
  BY <1>t, <1>18 DEF EmbedEnd
<1>19. CASE FinishRead(w)
  BY <1>t, <1>19 DEF FinishRead
<1>20. CASE FinishEmpty(w)
  BY <1>t, <1>20 DEF FinishEmpty
<1>21. CASE FinishReady(w)
  BY <1>t, <1>21 DEF FinishReady
<1>22. CASE After(w)
  BY <1>t, <1>22 DEF After
<1>23. CASE Raise(w)
  BY <1>t, <1>23 DEF Raise, Fails
<1>n. ~NextDocument(w)
  BY DEF NextDocument
<1> QED
  BY <1>n, <1>1, <1>2, <1>3, <1>4, <1>5, <1>6, <1>7, <1>8, <1>9, <1>10, <1>11, <1>12,
     <1>13, <1>14, <1>15, <1>16, <1>17, <1>18, <1>19, <1>20, <1>21, <1>22, <1>23 DEF
     WorkerStep, StageStep

\* ... and on its way with a stamped document only to see what is missing.
LEMMA StampedHandStep ==
  ASSUME TypeInv, DriveInv, NEW w \in Workers, pc[w] # "idle",
         WorkerStep(w) \/ StageStep(w) \/ Raise(w),
         StampInv
  PROVE  StampedHand(w)'
<1>t. TypeOK /\ cur[w] \in Docs
  BY DEF TypeInv, Busy
<1> USE DEF TypeOK, DriveInv, Hand, AtStage, InHand, Searching, Embedding, Finishing,
            StampInv, Stamped, StampedHand, Read
<1>1. CASE Loop(w)
  BY <1>t, <1>1 DEF Loop, TERMINAL_STATES, Statuses
<1>2. CASE Release(w)
  BY <1>t, <1>2 DEF Release
<1>3. CASE SetState(w)
  BY <1>t, <1>3 DEF SetState, Fails
<1>4. CASE SetStateWrite(w)
  BY <1>t, <1>4 DEF SetStateWrite
<1>5. CASE OcrRound(w)
  BY <1>t, <1>5 DEF OcrRound
<1>6. CASE OcrBatch(w)
  BY <1>t, <1>6 DEF OcrBatch
<1>7. CASE OcrEnd(w)
  BY <1>t, <1>7 DEF OcrEnd
<1>8. CASE ExtractBegin(w)
  BY <1>t, <1>8 DEF ExtractBegin
<1>9. CASE CommitBatch(w)
  BY <1>t, <1>9 DEF CommitBatch
<1>10. CASE ExtractEnd(w)
  BY <1>t, <1>10 DEF ExtractEnd
<1>11. CASE ChunkLoad(w)
  BY <1>t, <1>11 DEF ChunkLoad, Fails
<1>12. CASE ChunkAdvance(w)
  BY <1>t, <1>12 DEF ChunkAdvance
<1>13. CASE ChunkWrite(w)
  BY <1>t, <1>13 DEF ChunkWrite
<1>14. CASE IndexDocument(w)
  BY <1>t, <1>14 DEF IndexDocument
<1>15. CASE Recount(w)
  BY <1>t, <1>15 DEF Recount
<1>16. CASE EmbedSelect(w)
  BY <1>t, <1>16 DEF EmbedSelect
<1>17. CASE EmbedBatch(w)
  BY <1>t, <1>17 DEF EmbedBatch, StillThere
<1>18. CASE EmbedEnd(w)
  BY <1>t, <1>18 DEF EmbedEnd
<1>19. CASE FinishRead(w)
  BY <1>t, <1>19 DEF FinishRead
<1>20. CASE FinishEmpty(w)
  BY <1>t, <1>20 DEF FinishEmpty
<1>21. CASE FinishReady(w)
  BY <1>t, <1>21 DEF FinishReady
<1>22. CASE After(w)
  BY <1>t, <1>22 DEF After
<1>23. CASE Raise(w)
  BY <1>t, <1>23 DEF Raise, Fails
<1>n. ~NextDocument(w)
  BY DEF NextDocument
<1> QED
  BY <1>n, <1>1, <1>2, <1>3, <1>4, <1>5, <1>6, <1>7, <1>8, <1>9, <1>10, <1>11, <1>12,
     <1>13, <1>14, <1>15, <1>16, <1>17, <1>18, <1>19, <1>20, <1>21, <1>22, <1>23 DEF
     WorkerStep, StageStep

\* ... and the document as read and as whole as its stamp says.
LEMMA StampedStep ==
  ASSUME TypeInv, DriveInv, NEW w \in Workers, pc[w] # "idle",
         WorkerStep(w) \/ StageStep(w) \/ Raise(w),
         StampInv, NEW d \in Docs, d = cur[w]
  PROVE  Stamped(d)'
<1>t. TypeOK /\ cur[w] \in Docs
  BY DEF TypeInv, Busy
<1>r. \E r \in 0..MaxRetries : r = retries[d] /\ RetriesAfterFailure(r, MaxRetries) \in Nat
        /\ RetriesAfterFailure(r, MaxRetries) >= r
        /\ (StateAfterFailure(r, MaxRetries) = JOB_RETRYING => RetriesAfterFailure(r, MaxRetries) > 0)
  BY <1>t, SizesAssumption DEF TypeOK, RetriesAfterFailure, StateAfterFailure
<1> USE DEF TypeOK, DriveInv, Hand, AtStage, InHand, Searching, Embedding, Finishing,
            StampInv, Stamped, StampedHand, Read, Missing, pending_pages, Retrievable
<1>1. CASE Loop(w)
  BY <1>t, <1>1 DEF Loop, TERMINAL_STATES, Statuses
<1>2. CASE Release(w)
  BY <1>t, <1>2 DEF Release
<1>3. CASE SetState(w)
  BY <1>t, <1>r, <1>3 DEF SetState, Fails
<1>4. CASE SetStateWrite(w)
  <2> HIDE DEF pending_pages, Missing, Read
  <2>1. /\ pending_pages(d)' = pending_pages(d) /\ ckpt'[d] = ckpt[d] /\ indexed'[d] = indexed[d]
        /\ retries'[d] = retries[d] /\ status'[d] = target[w]
        /\ job'[d] = job[d]
    BY <1>t, <1>4 DEF SetStateWrite, pending_pages
  <2>2. indexed[d] => retries[d] # 0
    BY <1>t, <1>4 DEF SetStateWrite
  <2>3. target[w] = CHUNKING => Read(d)
    <3>1. target[w] = CHUNKING => status[d] = PARTIALLY_SEARCHABLE
      BY <1>t, <1>4 DEF SetStateWrite
    <3> QED  BY <3>1 DEF Read
  <2> QED  BY <1>t, <2>1, <2>2, <2>3 DEF Read
<1>5. CASE OcrRound(w)
  BY <1>t, <1>5 DEF OcrRound
<1>6. CASE OcrBatch(w)
  BY <1>t, <1>6 DEF OcrBatch
<1>7. CASE OcrEnd(w)
  BY <1>t, <1>7 DEF OcrEnd
<1>8. CASE ExtractBegin(w)
  BY <1>t, <1>8 DEF ExtractBegin
<1>9. CASE CommitBatch(w)
  BY <1>t, <1>9 DEF CommitBatch
<1>10. CASE ExtractEnd(w)
  <2> HIDE DEF pending_pages, Missing, Read
  <2>1. /\ pending_pages(d)' = pending_pages(d) /\ ckpt'[d] = ckpt[d] /\ indexed'[d] = indexed[d]
        /\ retries'[d] = retries[d] /\ status'[d] = CHUNKING
        /\ job'[d] = JOB_DONE
    BY <1>t, <1>10 DEF ExtractEnd, pending_pages
  <2>2. indexed[d] => retries[d] # 0
    BY <1>t, <1>10 DEF ExtractEnd
  <2>3. Read(d)
    BY <1>t, <1>10 DEF ExtractEnd, Read
  <2> QED  BY <1>t, <2>1, <2>2, <2>3 DEF Read
<1>11. CASE ChunkLoad(w)
  BY <1>t, <1>r, <1>11 DEF ChunkLoad, Fails
<1>12. CASE ChunkAdvance(w)
  <2> HIDE DEF pending_pages, Missing, Read
  <2>1. /\ pending_pages(d)' = pending_pages(d) /\ ckpt'[d] = ckpt[d] /\ indexed'[d] = indexed[d]
        /\ retries'[d] = retries[d] /\ status'[d] = INDEXING_KEYWORD
        /\ job'[d] = job[d]
    BY <1>t, <1>12 DEF ChunkAdvance, pending_pages
  <2>2. indexed[d] => retries[d] # 0
    BY <1>t, <1>12 DEF ChunkAdvance
  <2>3. Read(d)
    BY <1>t, <1>12 DEF ChunkAdvance, Read
  <2> QED  BY <1>t, <2>1, <2>2, <2>3 DEF Read
<1>13. CASE ChunkWrite(w)
  <2> HIDE DEF pending_pages, Missing, Read
  <2>1. /\ pending_pages(d)' = pending_pages(d) /\ ckpt'[d] = ckpt[d] /\ indexed'[d] = indexed[d]
        /\ retries'[d] = retries[d] /\ status'[d] = INDEXING_KEYWORD
        /\ job'[d] = job[d]
    BY <1>t, <1>13 DEF ChunkWrite, pending_pages
  <2>2. indexed[d] => retries[d] # 0
    BY <1>t, <1>13 DEF ChunkWrite
  <2>3. Read(d)
    BY <1>t, <1>13 DEF ChunkWrite, Read
  <2> QED  BY <1>t, <2>1, <2>2, <2>3 DEF Read
<1>14. CASE IndexDocument(w)
  BY <1>t, <1>14 DEF IndexDocument
<1>15. CASE Recount(w)
  BY <1>t, <1>15 DEF Recount
<1>16. CASE EmbedSelect(w)
  BY <1>t, <1>16 DEF EmbedSelect
<1>17. CASE EmbedBatch(w)
  BY <1>t, <1>17 DEF EmbedBatch, StillThere
<1>18. CASE EmbedEnd(w)
  BY <1>t, <1>18 DEF EmbedEnd
<1>19. CASE FinishRead(w)
  BY <1>t, <1>19 DEF FinishRead
<1>20. CASE FinishEmpty(w)
  BY <1>t, <1>20 DEF FinishEmpty
<1>21. CASE FinishReady(w)
  BY <1>t, <1>21 DEF FinishReady
<1>22. CASE After(w)
  BY <1>t, <1>22 DEF After
<1>23. CASE Raise(w)
  BY <1>t, <1>r, <1>23 DEF Raise, Fails
<1>n. ~NextDocument(w)
  BY DEF NextDocument
<1> QED
  BY <1>n, <1>1, <1>2, <1>3, <1>4, <1>5, <1>6, <1>7, <1>8, <1>9, <1>10, <1>11, <1>12,
     <1>13, <1>14, <1>15, <1>16, <1>17, <1>18, <1>19, <1>20, <1>21, <1>22, <1>23 DEF
     WorkerStep, StageStep

\* What a step of a worker makes of the status of its document.
Moved(s, t) == t = s \/ can_transition(s, t) \/ (s = "embedding" /\ t \in {EXTRACTING, FAILED})

LEMMA MovedStep ==
  ASSUME TypeInv, DriveInv, NEW w \in Workers, pc[w] # "idle",
         WorkerStep(w) \/ StageStep(w) \/ Raise(w)
  PROVE  Moved(status[cur[w]], status'[cur[w]])
<1>t. TypeOK /\ cur[w] \in Docs
  BY DEF TypeInv, Busy
<1> USE DEF TypeOK, DriveInv, Hand, AtStage, InHand, Searching, Embedding, Finishing,
            Moved, Whole, Statuses, can_transition, LEGAL_TRANSITIONS
<1>1. CASE Loop(w)
  BY <1>t, <1>1 DEF Loop, TERMINAL_STATES, Statuses
<1>2. CASE Release(w)
  BY <1>t, <1>2 DEF Release
<1>3. CASE SetState(w)
  BY <1>t, <1>3 DEF SetState, Fails
<1>4. CASE SetStateWrite(w)
  BY <1>t, <1>4 DEF SetStateWrite
<1>5. CASE OcrRound(w)
  BY <1>t, <1>5 DEF OcrRound
<1>6. CASE OcrBatch(w)
  BY <1>t, <1>6 DEF OcrBatch
<1>7. CASE OcrEnd(w)
  BY <1>t, <1>7 DEF OcrEnd
<1>8. CASE ExtractBegin(w)
  BY <1>t, <1>8 DEF ExtractBegin
<1>9. CASE CommitBatch(w)
  BY <1>t, <1>9 DEF CommitBatch
<1>10. CASE ExtractEnd(w)
  BY <1>t, <1>10 DEF ExtractEnd
<1>11. CASE ChunkLoad(w)
  BY <1>t, <1>11 DEF ChunkLoad, Fails
<1>12. CASE ChunkAdvance(w)
  BY <1>t, <1>12 DEF ChunkAdvance
<1>13. CASE ChunkWrite(w)
  BY <1>t, <1>13 DEF ChunkWrite
<1>14. CASE IndexDocument(w)
  BY <1>t, <1>14 DEF IndexDocument
<1>15. CASE Recount(w)
  BY <1>t, <1>15 DEF Recount
<1>16. CASE EmbedSelect(w)
  BY <1>t, <1>16 DEF EmbedSelect
<1>17. CASE EmbedBatch(w)
  BY <1>t, <1>17 DEF EmbedBatch, StillThere
<1>18. CASE EmbedEnd(w)
  BY <1>t, <1>18 DEF EmbedEnd
<1>19. CASE FinishRead(w)
  BY <1>t, <1>19 DEF FinishRead
<1>20. CASE FinishEmpty(w)
  BY <1>t, <1>20 DEF FinishEmpty
<1>21. CASE FinishReady(w)
  BY <1>t, <1>21 DEF FinishReady
<1>22. CASE After(w)
  BY <1>t, <1>22 DEF After
<1>23. CASE Raise(w)
  BY <1>t, <1>23 DEF Raise, Fails
<1>n. ~NextDocument(w)
  BY DEF NextDocument
<1> QED
  BY <1>n, <1>1, <1>2, <1>3, <1>4, <1>5, <1>6, <1>7, <1>8, <1>9, <1>10, <1>11, <1>12,
     <1>13, <1>14, <1>15, <1>16, <1>17, <1>18, <1>19, <1>20, <1>21, <1>22, <1>23 DEF
     WorkerStep, StageStep

\* What a step leaves as it was, it leaves in order.
LEMMA HandKept ==
  ASSUME DriveInv, NEW v \in Workers, SameHand(v), pc[v] # "idle" => Kept(cur[v])
  PROVE  Hand(v)'
  BY DEF DriveInv, Hand, AtStage, InHand, Searching, Embedding, Finishing, Missing, pending_pages,
     Retrievable, Kept, SameHand

LEMMA WholeKept ==
  ASSUME DriveInv, NEW d \in Docs, Kept(d)
  PROVE  Whole(d)'
  BY DEF DriveInv, Whole, Missing, pending_pages, Retrievable, Kept

LEMMA StampedKept ==
  ASSUME StampInv, NEW d \in Docs, Kept(d), job'[d] \in {job[d], JOB_CANCELLED}
  PROVE  Stamped(d)'
  BY DEF StampInv, Stamped, Missing, pending_pages, Retrievable, Kept, Read

LEMMA StampedHandKept ==
  ASSUME StampInv, NEW v \in Workers, SameHand(v), pc[v] # "idle" => Kept(cur[v])
  PROVE  StampedHand(v)'
  BY DEF StampInv, StampedHand, Kept, SameHand

\* Two workers that are at something are at different documents.
LEMMA Alone ==
  ASSUME OnlyWorkersDrive, TypeInv, Claims, NEW v \in Workers, NEW w \in Workers, v # w,
         pc[v] # "idle", pc[w] # "idle"
  PROVE  cur[v] \in Docs /\ cur[w] \in Docs /\ cur[v] # cur[w]
  BY ThreadsAssumption DEF OnlyWorkersDrive, TypeInv, Busy, Claims

Arrives(d) ==
  /\ status[d] = "absent" /\ status'[d] = QUEUED /\ job'[d] = JOB_RUNNING
  /\ pages'[d] = pages[d] /\ needs'[d] = needs[d] /\ ocr'[d] = ocr[d]
  /\ chunks'[d] = chunks[d] /\ vectors'[d] = vectors[d] /\ ckpt'[d] = ckpt[d]
  /\ indexed'[d] = indexed[d] /\ retries'[d] = retries[d]

\* What a step that is none of a worker's stages does to documents and workers.
Outside ==
  /\ \A d \in Docs : \/ "reroute" \in Calls /\ Moved(status[d], status'[d])
                     \/ Arrives(d)
                     \/ Kept(d) /\ job'[d] \in {job[d], JOB_CANCELLED}
  /\ \A d, e \in Docs : d = e \/ status'[d] = status[d] \/ status'[e] = status[e]
  /\ \A d \in Docs : Kept(d) \/ Whole(d)'
  /\ \A w \in Workers : pc'[w] = "idle" \/ (SameHand(w) /\ (pc[w] # "idle" => Kept(cur[w])))
  /\ \A t \in Callers : pc'[t] \in {"idle", pc[t], "indexOnly"}

LEMMA OutsideKeeps ==
  ASSUME DriveInv, Outside
  PROVE  DriveInv'
<1>1. \A d \in Docs : Whole(d)'
  BY WholeKept DEF Outside
<1>2. \A w \in Workers : Hand(w)'
  BY HandKept DEF Outside, Hand
<1>3. \A t \in Threads : Patient(t)'
  BY DEF Outside, DriveInv, Patient
<1> QED  BY <1>1, <1>2, <1>3 DEF DriveInv

\* A worker takes a document that no other worker has.
LEMMA TakenAlone ==
  ASSUME OnlyWorkersDrive, TypeInv, Claims, TypeInv', Claims', NEW w \in Workers, NextDocument(w)
  PROVE  \E d \in Docs :
           /\ \A e \in Docs \ {d} : Kept(e) /\ job'[e] = job[e]
           /\ \A t \in Threads \ {w} : SameHand(t)
           /\ \A v \in Workers \ {w} : pc[v] # "idle" => cur[v] \in Docs \ {d}
           /\ pc'[w] = "loop" /\ cur'[w] = d
           /\ \/ Kept(d) /\ job'[d] = job[d] /\ status[d] # "absent"
              \/ /\ status[d] = FAILED /\ job[d] = JOB_RETRYING
                 /\ status'[d] = EXTRACTING /\ job'[d] = JOB_RUNNING
                 /\ pages'[d] = pages[d] /\ needs'[d] = needs[d] /\ ocr'[d] = ocr[d]
                 /\ chunks'[d] = chunks[d] /\ vectors'[d] = vectors[d] /\ ckpt'[d] = ckpt[d]
                 /\ indexed'[d] = indexed[d] /\ retries'[d] = retries[d]
<1>1. PICK d \in Candidates(w) :
        /\ holder' = [holder EXCEPT ![d] = w]
        /\ status' = [status EXCEPT ![d] = IF @ = FAILED THEN EXTRACTING ELSE @]
        /\ job' = [job EXCEPT ![d] = IF status[d] = FAILED THEN JOB_RUNNING ELSE @]
        /\ cur' = [cur EXCEPT ![w] = d]
  BY DEF NextDocument
<1>2. d \in Docs /\ status[d] # "absent" /\ (status[d] = FAILED => job[d] = JOB_RETRYING)
  BY <1>1 DEF Candidates, Unsettled, Unfinished, RetryDue, TERMINAL_STATES
<1>3. /\ pc' = [pc EXCEPT ![w] = "loop"]
      /\ UNCHANGED <<textVars, indexVars, embedded, indexed, retries, ckpt, localVars>>
  BY DEF NextDocument
<1>4. /\ pc \in [Threads -> Labels] /\ cur \in [Threads -> Docs \cup {NoDoc}]
      /\ status \in [Docs -> Statuses] /\ job \in [Docs -> JOB_STATES]
      /\ holder \in [Docs -> Workers \cup {NoOne, Gone}]
  BY DEF TypeInv, TypeOK
<1>5. ASSUME NEW v \in Workers \ {w}, pc[v] # "idle"
      PROVE  cur[v] \in Docs \ {d}
  <2>1. cur[v] \in Docs /\ cur'[v] = cur[v]
    BY <1>1, <1>4, <1>5 DEF TypeInv, Busy
  <2>2. holder'[cur'[v]] = v /\ holder'[d] = w
    BY <1>1, <1>2, <1>4, <2>1, ThreadsAssumption DEF OnlyWorkersDrive, Claims
  <2> QED  BY <2>1, <2>2, <1>5
<1>6. \A e \in Docs \ {d} : Kept(e) /\ job'[e] = job[e]
  BY <1>1, <1>3, <1>4 DEF Kept
<1>7. \A t \in Threads \ {w} : SameHand(t)
  BY <1>1, <1>3, <1>4 DEF SameHand
<1>8. pc'[w] = "loop" /\ cur'[w] = d
  BY <1>1, <1>3, <1>4
<1>9. CASE status[d] = FAILED
  <2>1. status'[d] = EXTRACTING /\ job'[d] = JOB_RUNNING
    BY <1>1, <1>2, <1>4, <1>9
  <2> QED  BY <1>2, <1>3, <1>5, <1>6, <1>7, <1>8, <1>9, <2>1
<1>10. CASE status[d] # FAILED
  <2>1. status'[d] = status[d] /\ job'[d] = job[d]
    BY <1>1, <1>2, <1>4, <1>10
  <2> QED  BY <1>2, <1>3, <1>5, <1>6, <1>7, <1>8, <2>1 DEF Kept
<1> QED  BY <1>9, <1>10

\* The steps that drive no document: of requests, the clock and the processes.
LEMMA OutsideSteps ==
  ASSUME OnlyWorkersDrive, TypeInv, DriveInv, [Next]_vars
  PROVE  \/ Outside
         \/ \E w \in Workers :
              \/ NextDocument(w)
              \/ pc[w] # "idle" /\ (WorkerStep(w) \/ StageStep(w) \/ Raise(w))
<1>t. /\ pc \in [Threads -> Labels] /\ cur \in [Threads -> Docs \cup {NoDoc}]
      /\ status \in [Docs -> Statuses]
      /\ \A t \in Threads : pc[t] # "idle" => cur[t] \in Docs
      /\ job \in [Docs -> JOB_STATES]
  BY DEF TypeInv, TypeOK, Busy
<1> USE ThreadsAssumption
<1>1. ASSUME NEW d \in Docs, Upload(d)
      PROVE  Outside
  <2>1. status' = [status EXCEPT ![d] = QUEUED] /\ status[d] = "absent"
        /\ UNCHANGED <<pages, needs, ocr, chunks, vectors, ckpt, indexed, retries, threadVars>>
    BY <1>1 DEF Upload
  <2>2. Whole(d)' /\ \A e \in Docs \ {d} : Kept(e)
    BY <1>t, <2>1 DEF Whole, Kept
  <2>3. ASSUME NEW w \in Workers, pc[w] # "idle"
        PROVE  cur[w] \in Docs \ {d}
    BY <1>t, <2>1, <2>3 DEF DriveInv, Hand, AtStage
  <2>4. Arrives(d) /\ \A e \in Docs \ {d} : job'[e] = job[e]
    BY <1>t, <1>1, <2>1 DEF Upload, Arrives
  <2> QED  BY <2>1, <2>2, <2>3, <2>4 DEF Outside, SameHand
<1>2. ASSUME NEW d \in Docs, CancelJob(d) \/ ClaimAges(d)
      PROVE  Outside
  BY <1>t, <1>2 DEF CancelJob, ClaimAges, Outside, Kept, SameHand, rowVars
<1>3. ASSUME NEW d \in Docs, Reroute(d)
      PROVE  Outside
  <2>1. \A e \in Docs \ {d} : Kept(e)
    BY <1>t, <1>3 DEF Reroute, Kept, TypeInv, TypeOK
  <2>2. Whole(d)'
    <3>1. needs \in [Docs -> SUBSET Pages]
      BY DEF TypeInv, TypeOK
    <3> QED  BY <1>t, <1>3, <3>1 DEF Reroute, DriveInv, Whole, Missing, pending_pages, Retrievable
  <2>3. Moved(status[d], status'[d]) /\ \A e \in Docs : Moved(status[e], status[e])
    BY <1>t, <1>3 DEF Reroute, Moved, can_transition, LEGAL_TRANSITIONS
  <2> QED  BY <1>3, <2>1, <2>2, <2>3 DEF Reroute, Outside, Kept
<1>4. ASSUME NEW w \in Workers, Crash(w)
      PROVE  Outside
  BY <1>t, <1>4 DEF Crash, Outside, Kept, SameHand, rowVars
<1>5. ASSUME NEW w \in Workers, Stop(w) \/ Start(w)
      PROVE  Outside
  BY <1>t, <1>5 DEF Stop, Start, Outside, Kept, SameHand, rowVars
<1>6. ASSUME NEW c \in Callers, StageStep(c) \/ Raise(c)
      PROVE  Outside
  <2>1. pc[c] \in {"idle", "indexOnly"}
    BY DEF DriveInv, Patient
  <2>2. IndexDocument(c) \/ Raise(c)
    BY <1>6, <2>1 DEF StageStep, ExtractBegin, CommitBatch, ExtractEnd, ChunkLoad, ChunkAdvance,
       ChunkWrite, Recount, EmbedSelect, EmbedBatch, EmbedEnd, FinishRead, FinishEmpty,
       FinishReady, After
  <2>3. CASE IndexDocument(c)
    BY <1>t, <2>1, <2>3 DEF IndexDocument, Outside, Kept, SameHand
  <2>4. CASE Raise(c)
    BY <1>t, <2>1, <2>4 DEF Raise, Fails, Outside, Kept, SameHand
  <2> QED  BY <2>2, <2>3, <2>4
<1>7. ASSUME NEW c \in Callers, NEW d \in Docs, NEW name \in Calls, Call(c, d, name)
      PROVE  Outside
  <2>1. name = "index"
    BY <1>7 DEF Call, OnlyWorkersDrive
  <2> QED  BY <1>t, <1>7, <2>1 DEF Call, Outside, Kept, SameHand, rowVars
<1>8. CASE UNCHANGED vars
  BY <1>8 DEF vars, Outside, Kept, SameHand, rowVars
<1>9. ASSUME NEW w \in Workers, WorkerStep(w) \/ StageStep(w) \/ Raise(w), pc[w] = "idle"
      PROVE  NextDocument(w)
  BY <1>9 DEF WorkerStep, Loop, Release, SetState, SetStateWrite, OcrRound, OcrBatch, OcrEnd,
     Raise, StageStep, ExtractBegin, CommitBatch, ExtractEnd, ChunkLoad, ChunkAdvance,
     ChunkWrite, IndexDocument, Recount, EmbedSelect, EmbedBatch, EmbedEnd, FinishRead,
     FinishEmpty, FinishReady, After
<1> QED
  BY <1>1, <1>2, <1>3, <1>4, <1>5, <1>6, <1>7, <1>8, <1>9 DEF Next

LEMMA DriveStep ==
  ASSUME OnlyWorkersDrive, TypeInv, Claims, DriveInv, TypeInv', Claims', [Next]_vars
  PROVE  DriveInv'
<1>1. CASE Outside
  BY <1>1, OutsideKeeps
<1>2. ASSUME NEW w \in Workers, NextDocument(w)
      PROVE  DriveInv'
  <2>1. PICK d \in Docs :
           /\ \A e \in Docs \ {d} : Kept(e)
           /\ \A t \in Threads \ {w} : SameHand(t)
           /\ \A v \in Workers \ {w} : pc[v] # "idle" => cur[v] \in Docs \ {d}
           /\ pc'[w] = "loop" /\ cur'[w] = d
           /\ \/ Kept(d) /\ status[d] # "absent"
              \/ status[d] = FAILED /\ status'[d] = EXTRACTING
    BY <1>2, TakenAlone
  <2>2. Hand(w)'
    BY <2>1 DEF Hand, AtStage, InHand, Kept, Searching, Embedding, Finishing
  <2>3. \A v \in Workers : Hand(v)'
    BY <2>1, <2>2, HandKept
  <2>4. Whole(d)'
    <3>1. CASE Kept(d)
      BY <3>1, WholeKept
    <3>2. CASE status'[d] = EXTRACTING
      BY <3>2 DEF Whole
    <3> QED  BY <2>1, <3>1, <3>2
  <2>5. \A e \in Docs : Whole(e)'
    BY <2>1, <2>4, WholeKept
  <2>6. \A t \in Threads : Patient(t)'
    BY <2>1, <1>2 DEF Patient, DriveInv, SameHand
  <2> QED  BY <2>3, <2>5, <2>6 DEF DriveInv
<1>3. ASSUME NEW w \in Workers, pc[w] # "idle", WorkerStep(w) \/ StageStep(w) \/ Raise(w)
      PROVE  DriveInv'
  <2>1. Hand(w)' /\ \A e \in Docs : e = cur[w] => Whole(e)'
    BY <1>3, HandStep, WholeStep
  <2>2. /\ \A e \in Docs \ {cur[w]} : Kept(e)
        /\ \A t \in Threads \ {w} : SameHand(t)
    BY <1>3, StepLocal
  <2>3. \A v \in Workers : Hand(v)'
    BY <1>3, <2>1, <2>2, HandKept, Alone
  <2>4. \A e \in Docs : Whole(e)'
    BY <2>1, <2>2, WholeKept
  <2>5. \A t \in Threads : Patient(t)'
    BY <1>3, <2>2 DEF Patient, DriveInv, SameHand
  <2> QED  BY <2>3, <2>4, <2>5 DEF DriveInv
<1> QED  BY <1>1, <1>2, <1>3, OutsideSteps

\* Whether it is driven, taken, or left alone.
LEMMA StampStep ==
  ASSUME OnlyWorkersDrive, "reroute" \notin Calls, TypeInv, Claims, DriveInv, StampInv, TypeInv',
         Claims', [Next]_vars
  PROVE  StampInv'
<1>1. ASSUME \A d \in Docs : Stamped(d)' \/ (Kept(d) /\ job'[d] \in {job[d], JOB_CANCELLED}),
             \A w \in Workers : StampedHand(w)' \/ pc'[w] = "idle"
                                 \/ (SameHand(w) /\ (pc[w] # "idle" => Kept(cur[w])))
      PROVE  StampInv'
  <2>1. \A d \in Docs : Stamped(d)'
    BY <1>1, StampedKept
  <2>2. \A w \in Workers : StampedHand(w)'
    BY <1>1, StampedHandKept DEF StampedHand
  <2> QED  BY <2>1, <2>2 DEF StampInv
<1>2. CASE Outside
  <2>1. ASSUME NEW d \in Docs, Arrives(d)
        PROVE  Stamped(d)'
    BY <2>1 DEF Arrives, StampInv, Stamped, Read, pending_pages, Missing, Retrievable
  <2> QED  BY <1>1, <1>2, <2>1 DEF Outside
<1>3. ASSUME NEW w \in Workers, NextDocument(w)
      PROVE  StampInv'
  <2>1. PICK d \in Docs :
           /\ \A e \in Docs \ {d} : Kept(e) /\ job'[e] = job[e]
           /\ \A t \in Threads \ {w} : SameHand(t)
           /\ \A v \in Workers \ {w} : pc[v] # "idle" => cur[v] \in Docs \ {d}
           /\ pc'[w] = "loop" /\ cur'[w] = d
           /\ \/ Kept(d) /\ job'[d] = job[d] /\ status[d] # "absent"
              \/ /\ status[d] = FAILED /\ job[d] = JOB_RETRYING
                 /\ status'[d] = EXTRACTING /\ job'[d] = JOB_RUNNING
                 /\ pages'[d] = pages[d] /\ needs'[d] = needs[d] /\ ocr'[d] = ocr[d]
                 /\ chunks'[d] = chunks[d] /\ vectors'[d] = vectors[d] /\ ckpt'[d] = ckpt[d]
                 /\ indexed'[d] = indexed[d] /\ retries'[d] = retries[d]
    BY <1>3, TakenAlone
  <2>2. StampedHand(w)'
    BY <2>1 DEF StampedHand
  <2>3. CASE Kept(d) /\ job'[d] = job[d]
    BY <1>1, <2>1, <2>2, <2>3
  <2>4. CASE ~(Kept(d) /\ job'[d] = job[d])
    <3>1. Stamped(d)'
      BY <2>1, <2>4 DEF StampInv, Stamped, Read, pending_pages, Missing, Retrievable
    <3> QED  BY <1>1, <2>1, <2>2, <3>1
  <2> QED  BY <2>3, <2>4
<1>4. ASSUME NEW w \in Workers, pc[w] # "idle", WorkerStep(w) \/ StageStep(w) \/ Raise(w)
      PROVE  StampInv'
  <2>1. StampedHand(w)' /\ \A e \in Docs : e = cur[w] => Stamped(e)'
    BY <1>4, StampedHandStep, StampedStep
  <2>2. /\ \A e \in Docs \ {cur[w]} : Kept(e) /\ job'[e] = job[e]
        /\ \A t \in Threads \ {w} : SameHand(t)
    BY <1>4, StepLocal
  <2>3. \A v \in Workers \ {w} : SameHand(v) /\ (pc[v] # "idle" => Kept(cur[v]))
    BY <1>4, <2>2, Alone
  <2> QED  BY <1>1, <2>1, <2>2, <2>3
<1> QED  BY <1>2, <1>3, <1>4, OutsideSteps

LEMMA DriveInit == Init => DriveInv /\ StampInv
<1> SUFFICES ASSUME NEW past \in [Docs -> Pasts], InitFrom(past)
             PROVE  DriveInv /\ StampInv
  BY DEF Init
<1>1. \A t \in Threads : pc[t] = "idle"
  BY DEF InitFrom
<1>2. ASSUME NEW d \in Docs
      PROVE  Whole(d) /\ Stamped(d)
  <2>1. past[d] \in PastNames /\ past[d] # "new" /\ past[d] # "older" => past[d] = "retired"
    BY DataAssumption DEF PastNames
  <2>2. /\ job[d] # JOB_RETRYING
        /\ status[d] = IF past[d] = "retired" THEN "embedding"
                       ELSE IF past[d] = "older" THEN READY ELSE "absent"
        /\ indexed[d] = (past[d] = "older")
    BY DEF InitFrom
  <2>3. CASE past[d] = "older"
    <3>1. pending_pages(d) = {}
      BY <2>3 DEF InitFrom, pending_pages
    <3>2. Missing(d) = {}
      BY <2>3 DEF InitFrom, Missing
    <3>3. Read(d)
      BY <2>3 DEF InitFrom, Read
    <3> QED  BY <2>2, <2>3, <3>1, <3>2, <3>3 DEF Whole, Stamped
  <2>4. CASE past[d] # "older"
    BY <2>2, <2>4 DEF Whole, Stamped
  <2> QED  BY <2>3, <2>4
<1> QED  BY <1>1, <1>2 DEF DriveInv, StampInv, Hand, StampedHand, Patient

\* While only workers drive documents, and no step outlasts the margin, `ready`
\* and "nothing to search" are said of documents of which nothing is left to
\* embed or to recognise (ingest.process, ingest._finish_if_embedded).
THEOREM NothingUnfinished == ASSUME OnlyWorkersDrive PROVE Spec => []FinishedWhole
<1>1. Init => TypeInv /\ Claims /\ DriveInv
  BY TypeInit, ClaimInit, DriveInit
<1>2. TypeInv /\ Claims /\ DriveInv /\ [Next]_vars => TypeInv' /\ Claims' /\ DriveInv'
  BY OnlyWorkersDrive, TypeStep, ClaimStep, DriveStep
<1>3. DriveInv => FinishedWhole
  BY DEF DriveInv, Whole, Missing, FinishedWhole
<1> QED  BY <1>1, <1>2, <1>3, PTL DEF Spec

\* ... and no document is stranded at the searchable half-way state, wherever
\* its worker dies, but one that failed after it was stamped.
THEOREM NoneStranded ==
  ASSUME OnlyWorkersDrive, "reroute" \notin Calls PROVE Spec => []NotStranded
<1>1. Init => TypeInv /\ Claims /\ DriveInv /\ StampInv
  BY TypeInit, ClaimInit, DriveInit
<1>2. TypeInv /\ Claims /\ DriveInv /\ StampInv /\ [Next]_vars
        => TypeInv' /\ Claims' /\ DriveInv' /\ StampInv'
  BY OnlyWorkersDrive, TypeStep, ClaimStep, DriveStep, StampStep
<1>3. TypeInv /\ StampInv => NotStranded
  <2> SUFFICES ASSUME TypeInv, StampInv, NEW d \in Docs, WorkLeft(d), d \notin Unsettled \cup Unfinished
               PROVE  indexed[d] /\ retries[d] > 0 /\ pending_pages(d) = {}
    BY DEF NotStranded
  <2>1. status[d] = PARTIALLY_SEARCHABLE /\ indexed[d]
    BY DEF WorkLeft, Unfinished, TypeInv, TypeOK
  <2>2. pending_pages(d) = {} /\ (retries[d] = 0 => Missing(d) = {})
    BY <2>1 DEF StampInv, Stamped
  <2>3. Missing(d) # {}
    BY <2>1, <2>2 DEF WorkLeft, Unsettled, Missing
  <2>4. retries[d] \in 0..MaxRetries
    BY DEF TypeInv, TypeOK
  <2> QED  BY <2>1, <2>2, <2>3, <2>4, SizesAssumption
<1> QED  BY <1>1, <1>2, <1>3, PTL DEF Spec

-----------------------------------------------------------------------------
(* The documents' lifecycle. *)

LEMMA TransitionType ==
  ASSUME NEW s, NEW t, can_transition(s, t)
  PROVE  t \in ALL_STATES
  BY DEF can_transition, LEGAL_TRANSITIONS

\* The abstract lifecycle makes of a status what a step of a worker does.
LEMMA LifecycleMoves ==
  ASSUME status \in [Docs -> Statuses], status' \in [Docs -> Statuses],
         NEW d \in Docs, \A e \in Docs \ {d} : status'[e] = status[e],
         Moved(status[d], status'[d]) \/ (status[d] = "absent" /\ status'[d] = QUEUED)
  PROVE  Lifecycle!Next \/ UNCHANGED status
<1>1. status' = [status EXCEPT ![d] = status'[d]]
  OBVIOUS
<1>2. CASE status'[d] = status[d]
  BY <1>1, <1>2
<1>3. CASE status[d] = "absent" /\ status'[d] = QUEUED
  BY <1>1, <1>3 DEF Lifecycle!Next, Lifecycle!Arrive, Lifecycle!QUEUED
<1>4. CASE status[d] = "embedding" /\ status'[d] = EXTRACTING
  BY <1>1, <1>4 DEF Lifecycle!Next, Lifecycle!Restart, Lifecycle!EXTRACTING
<1>5. CASE can_transition(status[d], status'[d]) \/ (status[d] = "embedding" /\ status'[d] = FAILED)
  <2>1. status'[d] \in Lifecycle!ALL_STATES
    BY <1>5, TransitionType DEF Lifecycle!ALL_STATES, Lifecycle!QUEUED, Lifecycle!EXTRACTING,
       Lifecycle!CHUNKING, Lifecycle!INDEXING_KEYWORD, Lifecycle!PARTIALLY_SEARCHABLE,
       Lifecycle!READY, Lifecycle!NO_SEARCHABLE_CONTENT, Lifecycle!STORED_NOT_INDEXED, Lifecycle!FAILED
  <2>2. CASE can_transition(status[d], status'[d])
    <3>1. Lifecycle!can_transition(status[d], status'[d])
      BY <2>2 DEF can_transition, LEGAL_TRANSITIONS, Lifecycle!can_transition,
         Lifecycle!LEGAL_TRANSITIONS, Lifecycle!ALL_STATES, Lifecycle!QUEUED, Lifecycle!EXTRACTING,
         Lifecycle!CHUNKING, Lifecycle!INDEXING_KEYWORD, Lifecycle!PARTIALLY_SEARCHABLE,
         Lifecycle!READY, Lifecycle!NO_SEARCHABLE_CONTENT, Lifecycle!STORED_NOT_INDEXED,
         Lifecycle!FAILED
    <3> QED  BY <1>1, <2>1, <3>1 DEF Lifecycle!Next, Lifecycle!Move
  <2>3. CASE status[d] = "embedding" /\ status'[d] = FAILED
    BY <1>1, <2>1, <2>3 DEF Lifecycle!Next, Lifecycle!Move, Lifecycle!FAILED
  <2> QED  BY <1>5, <2>2, <2>3
<1> QED  BY <1>2, <1>3, <1>4, <1>5 DEF Moved

LEMMA LifecycleStep ==
  ASSUME OnlyWorkersDrive, TypeInv, Claims, DriveInv, TypeInv', Claims', [Next]_vars
  PROVE  Lifecycle!Next \/ UNCHANGED status
<1>t. status \in [Docs -> Statuses] /\ status' \in [Docs -> Statuses]
  BY DEF TypeInv, TypeOK
<1>1. CASE \A d \in Docs : status'[d] = status[d]
  BY <1>t, <1>1
<1>2. ASSUME NEW d \in Docs, status'[d] # status[d]
      PROVE  Lifecycle!Next
  <2>1. CASE Outside
    <3>1. \A e \in Docs \ {d} : status'[e] = status[e]
      BY <1>2, <2>1 DEF Outside
    <3>2. Moved(status[d], status'[d]) \/ (status[d] = "absent" /\ status'[d] = QUEUED)
      BY <1>2, <2>1 DEF Outside, Kept, Arrives
    <3> QED  BY <1>t, <1>2, <3>1, <3>2, LifecycleMoves
  <2>2. ASSUME NEW w \in Workers, NextDocument(w)
        PROVE  Lifecycle!Next
    <3>1. /\ \A e \in Docs \ {d} : status'[e] = status[e]
          /\ status[d] = FAILED /\ status'[d] = EXTRACTING
      BY <1>2, <2>2, TakenAlone DEF Kept
    <3>2. Moved(status[d], status'[d])
      BY <3>1 DEF Moved, can_transition, LEGAL_TRANSITIONS
    <3> QED  BY <1>t, <1>2, <3>1, <3>2, LifecycleMoves
  <2>3. ASSUME NEW w \in Workers, pc[w] # "idle", WorkerStep(w) \/ StageStep(w) \/ Raise(w)
        PROVE  Lifecycle!Next
    <3>1. \A e \in Docs \ {cur[w]} : status'[e] = status[e]
      BY <2>3, StepLocal DEF Kept
    <3>2. d = cur[w]
      BY <1>2, <3>1
    <3>3. Moved(status[d], status'[d])
      BY <2>3, <3>2, MovedStep
    <3> QED  BY <1>t, <1>2, <3>1, <3>2, <3>3, LifecycleMoves
  <2> QED  BY <2>1, <2>2, <2>3, OutsideSteps
<1> QED  BY <1>1, <1>2

\* While only workers drive documents, every change of a status is one that
\* states.py calls legal, though a worker checks it before it writes and most
\* writes check nothing (ingest._set_state, extract, chunker, fts_index).
THEOREM LifecycleLegal == ASSUME OnlyWorkersDrive PROVE Spec => LegalLifecycle
<1>1. Init => Lifecycle!Init
  <2> SUFFICES ASSUME NEW past \in [Docs -> Pasts], InitFrom(past)
               PROVE  Lifecycle!Init
    BY DEF Init
  <2> QED  BY DEF InitFrom, Lifecycle!Init, Lifecycle!READY
<1>2. Init => TypeInv /\ Claims /\ DriveInv
  BY TypeInit, ClaimInit, DriveInit
<1>3. TypeInv /\ Claims /\ DriveInv /\ [Next]_vars => TypeInv' /\ Claims' /\ DriveInv'
  BY OnlyWorkersDrive, TypeStep, ClaimStep, DriveStep
<1>4. TypeInv /\ Claims /\ DriveInv /\ [Next]_vars /\ TypeInv' /\ Claims' => [Lifecycle!Next]_status
  BY LifecycleStep
<1> QED  BY <1>1, <1>2, <1>3, <1>4, PTL DEF Spec, LegalLifecycle, Lifecycle!Spec

=============================================================================
