------------------------- MODULE RequirementsProofs -------------------------
(***************************************************************************)
(* Proofs about the requirements of standards, for any standards,          *)
(* sentences, extractors, reviews and bounds: the types, that a person's   *)
(* decision stands, that a sentence has one current row, and that the      *)
(* requirements of a standard whose job is done are those of its text.     *)
(***************************************************************************)
EXTENDS Requirements, TLAPS

\* One extractor at a time has a standard that is not in `overlapped`.
Alone ==
  \A d \in Standards \ overlapped : \A e, f \in Extractors :
    Extracting(e, d) /\ Extracting(f, d) => e = f

\* A sentence is in one chunk, of those there are and of those that were read.
OneChunk ==
  /\ \A d \in Standards : \A a, b \in chunks[d] : a[1] = b[1] => a = b
  /\ \A e \in Extractors : \A a, b \in read[e] : a[1] = b[1] => a = b

\* An extractor that writes knows of every current row whose sentence it has
\* still to come to.
Covered ==
  \A e \in Extractors : At(e, "write") /\ std[e] \notin overlapped =>
    \A i \in Current(std[e]) :
      \/ row[i].text = Corrected
      \/ row[i].text \in seen[e] \cup Keys(e)
      \/ \A c \in read[e] : c[1] # row[i].text

Inv == TypeOK /\ Alone /\ OneChunk /\ Covered /\ OneRowPerSentence

-----------------------------------------------------------------------------
(* The types, in groups. *)

Sayings == Sentences \cup {Corrected}
JOB == [state : JOB_STATES \cup {"none"}, retries : 0..MaxRetries, fresh : BOOLEAN]
Places == {"idle", "load", "match", "seed", "write", "end", "hook"}

LibraryOK ==
  /\ chunks \in [Standards -> SUBSET Chunks] /\ ready \subseteq Standards
  /\ row \in [Rows -> ROW] /\ made \in 0..MaxRows
  /\ \A i \in Rows : i > made <=> row[i].is = "none"
  /\ \A i \in Rows : row[i].is # "none" => row[i].std \in Standards

ThreadsOK ==
  /\ pc \in [Extractors -> Places]
  /\ std \in [Extractors -> Standards \cup {NoStandard}]
  /\ \A e \in Extractors : pc[e] # "idle" => std[e] \in Standards
  /\ read \in [Extractors -> SUBSET Chunks]
  /\ known \in [Extractors -> SUBSET (Sayings \X Rows)]
  /\ seen \in [Extractors -> SUBSET Sayings]

ReviewsOK ==
  /\ rejecting \subseteq 1..made
  /\ review \in [Reviews -> {"new", "loaded", "written"}] /\ reads \in [Reviews -> SUBSET Rows]

RestOK ==
  /\ job \in [Standards -> JOB] /\ up \in BOOLEAN
  /\ overlapped \subseteq Standards /\ missed \subseteq Standards
  /\ settled \subseteq Standards \X Sayings /\ agreed \subseteq Rows
  /\ editions \in Editions /\ events \in 0..MaxEvents

LEMMA Groups == TypeOK <=> LibraryOK /\ ThreadsOK /\ ReviewsOK /\ RestOK
  BY DEF TypeOK, LibraryOK, ThreadsOK, ReviewsOK, RestOK, Sayings, JOB, Places

LEMMA GroupsNext == LibraryOK' /\ ThreadsOK' /\ ReviewsOK' /\ RestOK' => TypeOK'
  BY DEF TypeOK, LibraryOK, ThreadsOK, ReviewsOK, RestOK, Sayings, JOB, Places

LEMMA InitTypes == Init => TypeOK
<1> SUFFICES ASSUME Init PROVE TypeOK
  OBVIOUS
<1>1. LibraryOK
  BY RequirementsAssumption DEF Init, LibraryOK, Chunks, Editions, Rows, ROW, NoRow
<1>2. ThreadsOK
  BY DEF Init, ThreadsOK, Places, Idle, Nowhere, Nothing
<1>3. ReviewsOK
  BY DEF Init, ReviewsOK
<1>4. RestOK
  BY RequirementsAssumption DEF Init, RestOK, JOB, NoJob, Editions
<1> QED  BY <1>1, <1>2, <1>3, <1>4, Groups

\* An extractor begins with a standard, or leaves what it has.
LEMMA BeginTypes ==
  ASSUME TypeOK, NEW e \in Extractors, NEW d \in Standards, Begin(e, d),
         UNCHANGED <<read, known, seen>>
  PROVE  ThreadsOK' /\ overlapped' \subseteq Standards
  BY Groups DEF ThreadsOK, RestOK, Begin, Goto, Places

LEMMA LeaveTypes ==
  ASSUME TypeOK, NEW e \in Extractors, Leave(e)
  PROVE  ThreadsOK'
  BY Groups DEF ThreadsOK, Leave, Goto, Places

LEMMA EnqueueTypes ==
  ASSUME TypeOK, NEW d \in Standards, Enqueue(d)
  PROVE  job' \in [Standards -> JOB] /\ missed' \subseteq Standards
<1>1. [state |-> JOB_QUEUED, retries |-> 0, fresh |-> FALSE] \in JOB
  BY RequirementsAssumption DEF JOB, JOB_STATES
<1> QED  BY <1>1, Groups DEF RestOK, Enqueue

LEMMA FailedTypes ==
  ASSUME TypeOK, NEW e \in Extractors, std[e] \in Standards, Failed(e), events' \in 0..MaxEvents
  PROVE  TypeOK'
<1>1. ASSUME NEW j \in JOB
      PROVE  [state |-> StateAfterFailure(j.retries, MaxRetries),
              retries |-> RetriesAfterFailure(j.retries, MaxRetries), fresh |-> j.fresh] \in JOB
  <2>1. StateAfterFailure(j.retries, MaxRetries) \in JOB_STATES \cup {"none"}
    BY DEF JOB_STATES, StateAfterFailure
  <2>2. RetriesAfterFailure(j.retries, MaxRetries) \in 0..MaxRetries
    BY RequirementsAssumption DEF JOB, RetriesAfterFailure
  <2> QED  BY <2>1, <2>2 DEF JOB
<1>2. job \in [Standards -> JOB]
  BY Groups DEF RestOK
<1>3. job' \in [Standards -> JOB]
  BY <1>1, <1>2 DEF Failed
<1>4. LibraryOK' /\ ReviewsOK'
  BY Groups DEF Failed, LibraryOK, ReviewsOK, libraryVars, reviewVars
<1>5. ThreadsOK'
  BY LeaveTypes DEF Failed
<1>6. UNCHANGED <<up, histVars, editions>>
  BY DEF Failed
<1>7. RestOK'
  BY <1>3, <1>6, Groups DEF RestOK, histVars
<1> QED  BY <1>4, <1>5, <1>7, GroupsNext

-----------------------------------------------------------------------------
(* Every step keeps the types. *)

LEMMA EventTypes ==
  ASSUME TypeOK, Event
  PROVE  events' \in 0..MaxEvents
  BY Groups, RequirementsAssumption DEF Event, RestOK

\* A step of the queue.
LEMMA QueueTypes ==
  ASSUME TypeOK, NEW d \in Standards,
         Request(d) \/ Cancel(d) \/ Claim(d) \/ Age(d) \/ (\E c \in Callers : Call(c, d))
  PROVE  TypeOK'
<1> USE Groups, GroupsNext
<1>1. CASE Request(d)
  BY <1>1, EnqueueTypes, EventTypes
  DEF Request, LibraryOK, ThreadsOK, ReviewsOK, RestOK, libraryVars, threadVars, reviewVars
<1>2. CASE Cancel(d)
  BY <1>2, EventTypes DEF Cancel, LibraryOK, ThreadsOK, ReviewsOK, RestOK, JOB, JOB_STATES,
    libraryVars, threadVars, reviewVars, histVars
<1>3. CASE Claim(d)
  <2>1. LibraryOK' /\ ReviewsOK'
    BY <1>3 DEF Claim, LibraryOK, ReviewsOK, libraryVars, reviewVars
  <2>2. ThreadsOK' /\ overlapped' \subseteq Standards
    BY <1>3, BeginTypes DEF Claim, Extractors
  <2>3. RestOK'
    BY <1>3, <2>2 DEF Claim, RestOK, JOB, JOB_STATES, boundVars
  <2> QED  BY <2>1, <2>2, <2>3
<1>4. CASE Age(d)
  BY <1>4 DEF Age, LibraryOK, ThreadsOK, ReviewsOK, RestOK, JOB,
    libraryVars, threadVars, reviewVars, histVars, boundVars
<1>5. ASSUME NEW c \in Callers, Call(c, d)
      PROVE  TypeOK'
  <2>1. LibraryOK' /\ ReviewsOK'
    BY <1>5 DEF Call, LibraryOK, ReviewsOK, libraryVars, reviewVars
  <2>2. ThreadsOK' /\ overlapped' \subseteq Standards
    BY <1>5, BeginTypes DEF Call, Extractors
  <2>3. RestOK'
    BY <1>5, <2>2, EventTypes DEF Call, RestOK
  <2> QED  BY <2>1, <2>2, <2>3
<1> QED  BY <1>1, <1>2, <1>3, <1>4, <1>5

\* What a re-chunk makes of a row is a row, and one if it was one.
LEMMA ReattachedRow ==
  ASSUME TypeOK, NEW i \in Rows, NEW new \in SUBSET Chunks, NEW moved
  PROVE  /\ Reattached(i, new, moved) \in ROW
         /\ Reattached(i, new, moved).is = "none" <=> row[i].is = "none"
         /\ Reattached(i, new, moved).is = "current" => row[i].is = "current"
         /\ Reattached(i, new, moved).std = row[i].std
         /\ Reattached(i, new, moved).text = row[i].text
         /\ Reattached(i, new, moved).by = row[i].by
         /\ Reattached(i, new, moved).method = row[i].method
         /\ row[i].by = "person" => Reattached(i, new, moved).is = row[i].is
<1>1. row[i] \in ROW
  BY Groups DEF LibraryOK
<1>2. Home(i, new, moved) \subseteq Chunks
  BY DEF Home
<1>3. Home(i, new, moved) # {} => (CHOOSE c \in Home(i, new, moved) : TRUE) \in Chunks
  BY <1>2
<1> QED  BY <1>1, <1>3 DEF Reattached, ROW

LEMMA ChunkTypes ==
  ASSUME TypeOK, NEW d \in Standards, Rechunk(d) \/ Finish(d)
  PROVE  TypeOK'
<1> USE Groups, GroupsNext
<1>1. CASE Rechunk(d)
  <2>1. PICK new \in SUBSET (chunks[d] \cup Sentences \X {editions + 1}), moved \in SUBSET Sentences :
          /\ chunks' = [chunks EXCEPT ![d] = new]
          /\ row' = [i \in Rows |-> IF row[i].std = d THEN Reattached(i, new, moved) ELSE row[i]]
    BY <1>1 DEF Rechunk
  <2>2. new \in SUBSET Chunks
    BY <1>1, RequirementsAssumption DEF Rechunk, LibraryOK, RestOK, Chunks, Editions
  <2>3. /\ row' \in [Rows -> ROW]
        /\ \A i \in Rows : (row'[i].is = "none" <=> row[i].is = "none") /\ row'[i].std = row[i].std
    BY <2>1, <2>2, ReattachedRow DEF LibraryOK
  <2>4. LibraryOK'
    BY <1>1, <2>1, <2>2, <2>3 DEF Rechunk, LibraryOK
  <2>5. ThreadsOK' /\ ReviewsOK'
    BY <1>1 DEF Rechunk, ThreadsOK, ReviewsOK, threadVars, reviewVars
  <2>6. RestOK'
    BY <1>1, RequirementsAssumption DEF Rechunk, RestOK, histVars, Editions
  <2> QED  BY <2>4, <2>5, <2>6
<1>2. CASE Finish(d)
  BY <1>2 DEF Finish, Goto, LibraryOK, ThreadsOK, ReviewsOK, RestOK, Extractors, Places,
    reviewVars, histVars, boundVars
<1> QED  BY <1>1, <1>2

\* A step of an extraction.
LEMMA ExtractTypes ==
  ASSUME TypeOK, NEW e \in Extractors, Extract(e) \/ Raise(e)
  PROVE  TypeOK'
<1> USE Groups, GroupsNext
<1>0. Chunks = Sentences \X Editions /\ Sentences \subseteq Sayings
  BY DEF Chunks, Sayings
<1>1. CASE Load(e)
  <2>1. std[e] \in Standards
    BY <1>1 DEF Load, At, ThreadsOK
  <2>2. ThreadsOK'
    BY <1>1, <2>1 DEF Load, Goto, ThreadsOK, LibraryOK, Places
  <2> QED  BY <1>1, <2>2
       DEF Load, LibraryOK, ReviewsOK, RestOK, libraryVars, reviewVars, histVars, boundVars
<1>2. CASE Match(e)
  <2>1. {<<row[i].text, i>> : i \in Reproducible(std[e])} \subseteq Sayings \X Rows
    BY DEF Reproducible, Supersedable, Current, LibraryOK, ROW, Sayings
  <2>2. ThreadsOK'
    BY <1>2, <2>1 DEF Match, Goto, At, ThreadsOK, Places
  <2> QED  BY <1>2, <2>2
       DEF Match, LibraryOK, ReviewsOK, RestOK, libraryVars, reviewVars, histVars, boundVars
<1>3. CASE Seed(e)
  <2>1. {row[i].text : i \in Current(std[e])} \subseteq Sayings
    BY DEF Current, LibraryOK, ROW, Sayings
  <2>2. ThreadsOK'
    BY <1>3, <2>1 DEF Seed, Goto, At, ThreadsOK, Places
  <2> QED  BY <1>3, <2>2
       DEF Seed, LibraryOK, ReviewsOK, RestOK, libraryVars, reviewVars, histVars, boundVars
<1>4. CASE Supersede(e)
  <2>1. /\ row' \in [Rows -> ROW]
        /\ \A i \in Rows : (row'[i].is = "none" <=> row[i].is = "none") /\ row'[i].std = row[i].std
    BY <1>4 DEF Supersede, Supersedable, Current, LibraryOK, ROW
  <2>2. LibraryOK'
    BY <1>4, <2>1 DEF Supersede, LibraryOK
  <2>3. ThreadsOK'
    <3>1. CASE e = worker
      BY <1>4, <3>1 DEF Supersede, Goto, At, ThreadsOK, Places
    <3>2. CASE e # worker
      BY <1>4, <3>2, LeaveTypes DEF Supersede
    <3> QED  BY <3>1, <3>2
  <2> QED  BY <1>4, <2>2, <2>3
       DEF Supersede, ReviewsOK, RestOK, reviewVars, histVars, boundVars
<1>5. CASE Refused(e)
  BY <1>5, FailedTypes DEF Refused, At, ThreadsOK, RestOK
<1>6. CASE Raise(e)
  BY <1>6, FailedTypes, EventTypes DEF Raise, ThreadsOK
<1>7. ASSUME NEW c \in read[e], Skip(e, c)
      PROVE  TypeOK'
  BY <1>7 DEF Skip, Done, LibraryOK, ThreadsOK, ReviewsOK, RestOK,
    libraryVars, reviewVars, histVars, boundVars
<1>8. ASSUME NEW c \in read[e], Write(e, c)
      PROVE  TypeOK'
  <2>1. c \in Chunks /\ c[1] \in Sentences /\ std[e] \in Standards
    BY <1>0, <1>8 DEF Write, Done, At, ThreadsOK
  <2>2. ThreadsOK'
    BY <1>8 DEF Write, Done, ThreadsOK
  <2>3. LibraryOK' /\ rejecting \subseteq 1..made'
    <3>1. CASE c \in chunks[std[e]]
      <4>1. made + 1 \in Rows /\ made' = made + 1
        BY <1>8, <3>1, RequirementsAssumption DEF Write, LibraryOK, Rows
      <4> DEFINE new == [std |-> std[e], text |-> c[1], chunk |-> c, by |-> "nobody",
                         method |-> "extracted", is |-> "current"]
      <4>2. row' = [row EXCEPT ![made + 1] = new]
        BY <1>8, <3>1 DEF Write
      <4>3. new \in ROW /\ new.is = "current" /\ new.std \in Standards
        BY <2>1 DEF ROW
      <4> HIDE DEF new
      <4>4. row' \in [Rows -> ROW] /\ \A i \in Rows : row'[i] = IF i = made + 1 THEN new ELSE row[i]
        BY <4>1, <4>2, <4>3 DEF LibraryOK
      <4>5. \A i \in Rows : /\ i > made' <=> row'[i].is = "none"
                            /\ row'[i].is # "none" => row'[i].std \in Standards
        BY <4>1, <4>3, <4>4 DEF LibraryOK, Rows
      <4>6. made' \in 0..MaxRows /\ rejecting \subseteq 1..made'
        BY <4>1, RequirementsAssumption DEF LibraryOK, ReviewsOK, Rows
      <4> QED  BY <1>8, <4>4, <4>5, <4>6 DEF Write, LibraryOK
    <3>2. CASE c \notin chunks[std[e]]
      BY <1>8, <3>2 DEF Write, LibraryOK, ReviewsOK
    <3> QED  BY <3>1, <3>2
  <2> QED  BY <1>8, <2>2, <2>3 DEF Write, ReviewsOK, RestOK, reviewVars, histVars, boundVars
<1>9. ASSUME NEW c \in read[e], NEW i \in Rows, Again(e, c, i)
      PROVE  TypeOK'
  <2>1. c \in Chunks
    BY DEF ThreadsOK
  <2>2. LibraryOK'
    BY <1>9, <2>1 DEF Again, LibraryOK, ROW
  <2>3. ThreadsOK'
    BY <1>9 DEF Again, Done, ThreadsOK
  <2> QED  BY <1>9, <2>2, <2>3
       DEF Again, ReviewsOK, RestOK, reviewVars, histVars, boundVars
<1> QED  BY <1>1, <1>2, <1>3, <1>4, <1>5, <1>6, <1>7, <1>8, <1>9 DEF Extract

LEMMA EndTypes ==
  ASSUME TypeOK, End \/ Hook
  PROVE  TypeOK'
<1> USE Groups, GroupsNext
<1>1. CASE End
  <2>1. ThreadsOK' /\ std[worker] \in Standards
    BY <1>1, LeaveTypes DEF End, At, ThreadsOK, Extractors
  <2> QED  BY <1>1, <2>1 DEF End, LibraryOK, ReviewsOK, RestOK, JOB, JOB_STATES,
         libraryVars, reviewVars, histVars, boundVars
<1>2. CASE Hook
  <2>1. std[worker] \in Standards
    BY <1>2 DEF Hook, At, ThreadsOK, Extractors
  <2>2. job' \in [Standards -> JOB] /\ missed' \subseteq Standards
    BY <1>2, <2>1, EnqueueTypes DEF Hook
  <2>3. ThreadsOK'
    BY <1>2, LeaveTypes DEF Hook, Extractors
  <2> QED  BY <1>2, <2>2, <2>3 DEF Hook, LibraryOK, ReviewsOK, RestOK, libraryVars, reviewVars, boundVars
<1> QED  BY <1>1, <1>2

\* A decision of an engineer, or a step of a review.
LEMMA DecisionTypes ==
  ASSUME TypeOK, NEW i \in Rows,
         \/ \E who \in Deciders : Confirm(i, who) \/ Edit(i, who)
         \/ Delete(i) \/ \E acknowledge \in BOOLEAN : Reject(i, acknowledge)
  PROVE  TypeOK'
<1> USE Groups, GroupsNext
<1>0. row[i] \in ROW
  BY DEF LibraryOK
<1> DEFINE Kept == /\ row' \in [Rows -> ROW]
                   /\ \A j \in Rows : /\ row'[j].is = "none" <=> row[j].is = "none"
                                      /\ row'[j].std = row[j].std
<1>1. ASSUME NEW who \in Deciders, Confirm(i, who)
      PROVE  TypeOK'
  <2>1. Kept
    BY <1>1, <1>0 DEF Confirm, Deciders, LibraryOK, ROW
  <2>2. LibraryOK'
    BY <1>1, <2>1 DEF Confirm, LibraryOK
  <2> QED  BY <1>1, <2>2, EventTypes
       DEF Confirm, Decides, ThreadsOK, ReviewsOK, RestOK, threadVars, reviewVars, histVars
<1>2. ASSUME NEW who \in Deciders, Edit(i, who)
      PROVE  TypeOK'
  <2>1. Kept
    BY <1>2, <1>0 DEF Edit, Deciders, LibraryOK, ROW
  <2>2. LibraryOK'
    BY <1>2, <2>1 DEF Edit, LibraryOK
  <2>3. settled' \subseteq Standards \X Sayings
    <3>1. row[i].std \in Standards /\ row[i].text \in Sayings
      BY <1>0, <1>2 DEF Edit, Decides, LibraryOK, ROW, Sayings
    <3>2. settled' = settled \cup {<<row[i].std, row[i].text>>}
      BY <1>2 DEF Edit
    <3> QED  BY <3>1, <3>2 DEF RestOK
  <2> QED  BY <1>2, <2>2, <2>3, EventTypes
       DEF Edit, Decides, ThreadsOK, ReviewsOK, RestOK, threadVars, reviewVars
<1>3. CASE Delete(i)
  <2>1. row[i].is # "none"
    BY <1>3 DEF Delete, LibraryOK, ReviewsOK, Rows
  <2>2. Kept
    BY <1>3, <1>0, <2>1 DEF Delete, LibraryOK, ROW
  <2>3. LibraryOK'
    BY <1>3, <2>2 DEF Delete, LibraryOK
  <2>4. settled' \subseteq Standards \X Sayings
    BY <1>0, <1>3, <2>1 DEF Delete, LibraryOK, RestOK, ROW, Sayings
  <2> QED  BY <1>3, <2>3, <2>4
       DEF Delete, ThreadsOK, ReviewsOK, RestOK, threadVars, reviewVars, boundVars
<1>4. ASSUME NEW acknowledge \in BOOLEAN, Reject(i, acknowledge)
      PROVE  TypeOK'
  <2>1. i \in 1..made
    BY <1>4 DEF Reject, Decides, LibraryOK, Rows
  <2> QED  BY <1>4, <2>1, EventTypes
       DEF Reject, Decides, LibraryOK, ThreadsOK, ReviewsOK, RestOK, libraryVars, threadVars, reviewVars
<1> QED  BY <1>1, <1>2, <1>3, <1>4

LEMMA ReviewTypes ==
  ASSUME TypeOK, NEW v \in Reviews, LoadRequirements(v) \/ WriteFindings(v)
  PROVE  TypeOK'
<1> USE Groups, GroupsNext
<1>1. CASE LoadRequirements(v)
  BY <1>1, EventTypes DEF LoadRequirements, Current, LibraryOK, ThreadsOK, ReviewsOK, RestOK,
    libraryVars, threadVars, histVars
<1>2. CASE WriteFindings(v)
  BY <1>2 DEF WriteFindings, LibraryOK, ThreadsOK, ReviewsOK, RestOK,
    libraryVars, threadVars, histVars, boundVars
<1> QED  BY <1>1, <1>2

LEMMA ServerTypes ==
  ASSUME TypeOK, Crash \/ Start
  PROVE  TypeOK'
<1> USE Groups, GroupsNext
<1>1. CASE Crash
  <2>1. At(worker, "hook") => std[worker] \in Standards
    BY DEF At, ThreadsOK, Extractors
  <2>2. ThreadsOK'
    BY <1>1 DEF Crash, ThreadsOK, Idle, Nowhere, Nothing, Places
  <2> QED  BY <1>1, <2>1, <2>2, EventTypes DEF Crash, LibraryOK, ReviewsOK, RestOK, libraryVars
<1>2. CASE Start
  <2>1. job' \in [Standards -> JOB]
    BY <1>2 DEF Start, RestOK, JOB, JOB_STATES
  <2> QED  BY <1>2, <2>1 DEF Start, LibraryOK, ThreadsOK, ReviewsOK, RestOK,
         libraryVars, threadVars, reviewVars, histVars, boundVars
<1> QED  BY <1>1, <1>2

LEMMA NextTypes == TypeOK /\ [Next]_vars => TypeOK'
<1> SUFFICES ASSUME TypeOK, [Next]_vars PROVE TypeOK'
  OBVIOUS
<1>1. CASE UNCHANGED vars
  BY <1>1 DEF TypeOK, vars, libraryVars, threadVars, reviewVars, histVars, boundVars
<1>2. CASE Work
  BY <1>2, ExtractTypes, EndTypes, QueueTypes, ChunkTypes DEF Work, Extractors
<1>3. ASSUME NEW e \in Extractors, Extract(e) \/ Raise(e)
      PROVE  TypeOK'
  BY <1>3, ExtractTypes
<1>4. ASSUME NEW d \in Standards,
             Request(d) \/ Cancel(d) \/ Rechunk(d) \/ Age(d) \/ \E c \in Callers : Call(c, d)
      PROVE  TypeOK'
  BY <1>4, QueueTypes, ChunkTypes
<1>5. ASSUME NEW i \in Rows,
             \/ \E who \in Deciders : Confirm(i, who) \/ Edit(i, who)
             \/ Delete(i) \/ \E acknowledge \in BOOLEAN : Reject(i, acknowledge)
      PROVE  TypeOK'
  BY <1>5, DecisionTypes
<1>6. ASSUME NEW v \in Reviews, LoadRequirements(v) \/ WriteFindings(v)
      PROVE  TypeOK'
  BY <1>6, ReviewTypes
<1>7. CASE Crash \/ Start
  BY <1>7, ServerTypes
<1> QED  BY <1>1, <1>2, <1>3, <1>4, <1>5, <1>6, <1>7 DEF Next, Extractors

\* Requirements, jobs, extractors, decisions and reviews keep their types, and
\* rows are written in the order of their numbers, for any constants.
THEOREM TypesHold == Spec => []TypeOK
  BY InitTypes, NextTypes, PTL DEF Spec

-----------------------------------------------------------------------------
(* What a step may do to a row: this is all that the two properties need to *)
(* know of most actions.                                                    *)

\* The decision of a person who is named on a row stands.
Stands(i) ==
  row[i].is = "current" /\ row[i].method = "human" /\ row[i].by = "person" =>
    \/ /\ row'[i].is = "current" /\ row'[i].method = "human"
       /\ row'[i].text \in {row[i].text, Corrected}
       /\ row'[i].by = "person" \/ DecidedByNobody(i)
    \/ row'[i].is = "deleted" /\ i \in rejecting

\* While authentication is not disabled, a row a human has decided on names them.
Signed == AuthDisabled \/ \A i \in Rows : row[i].method = "human" => row[i].by = "person"

\* A row does not become current, and changes its sentence only for a correction.
NoNewer(i) ==
  row'[i].is = "current" =>
    /\ row[i].is = "current" /\ row'[i].std = row[i].std
    /\ row'[i].text \in {row[i].text, Corrected}

\* The actions that change a row, a chunk, or what people have settled.
LEMMA RowActions ==
  ASSUME [Next]_vars
  PROVE  \/ UNCHANGED <<chunks, row, settled>>
         \/ \E e \in Extractors : Supersede(e)
         \/ \E e \in Extractors : \E c \in read[e] : Write(e, c)
         \/ \E e \in Extractors : \E c \in read[e], j \in Rows : Again(e, c, j)
         \/ \E d \in Standards : Rechunk(d)
         \/ \E j \in Rows : Delete(j) \/ \E who \in Deciders : Confirm(j, who) \/ Edit(j, who)
<1> DEFINE Same == UNCHANGED <<chunks, row, settled>>
<1>1. CASE UNCHANGED vars
  BY <1>1 DEF vars, libraryVars, histVars
<1>2. ASSUME NEW e \in Extractors, Extract(e)
      PROVE  \/ Same \/ Supersede(e)
             \/ \E c \in read[e] : Write(e, c)
             \/ \E c \in read[e], j \in Rows : Again(e, c, j)
  BY <1>2 DEF Extract, Load, Match, Seed, Refused, Failed, Skip, libraryVars, histVars
<1>3. CASE End \/ Hook \/ Crash \/ Start
  BY <1>3 DEF End, Hook, Crash, Start, libraryVars, histVars
<1>4. ASSUME NEW d \in Standards,
             \/ Claim(d) \/ Finish(d) \/ Request(d) \/ Cancel(d) \/ Age(d)
             \/ \E c \in Callers : Call(c, d)
      PROVE  Same
  BY <1>4 DEF Claim, Finish, Request, Cancel, Age, Call, libraryVars, histVars
<1>5. ASSUME NEW e \in Extractors, Raise(e)
      PROVE  Same
  BY <1>5 DEF Raise, Failed, libraryVars, histVars
<1>6. ASSUME NEW j \in Rows, NEW acknowledge \in BOOLEAN, Reject(j, acknowledge)
      PROVE  Same
  BY <1>6 DEF Reject, libraryVars
<1>7. ASSUME NEW v \in Reviews, LoadRequirements(v) \/ WriteFindings(v)
      PROVE  Same
  BY <1>7 DEF LoadRequirements, WriteFindings, libraryVars, histVars
<1> QED  BY <1>1, <1>2, <1>3, <1>4, <1>5, <1>6, <1>7 DEF Next, Work, Extractors

\* Every action but Write lets the current rows be, or makes fewer of them.
LEMMA RowSteps ==
  ASSUME TypeOK, [Next]_vars, ~ \E e \in Extractors : \E c \in read[e] : Write(e, c)
  PROVE  \A i \in Rows : Stands(i) /\ NoNewer(i)
<1> SUFFICES ASSUME NEW i \in Rows PROVE Stands(i) /\ NoNewer(i)
  OBVIOUS
<1>0. row \in [Rows -> ROW] /\ row[i] \in ROW
  BY Groups DEF LibraryOK
<1>1. CASE row' = row
  BY <1>1 DEF Stands, NoNewer
<1>2. ASSUME NEW e \in Extractors, Supersede(e)
      PROVE  Stands(i) /\ NoNewer(i)
  BY <1>0, <1>2 DEF Supersede, Supersedable, Current, Stands, NoNewer, ROW
<1>3. ASSUME NEW e \in Extractors, NEW c \in read[e], NEW j \in Rows, Again(e, c, j)
      PROVE  Stands(i) /\ NoNewer(i)
  BY <1>0, <1>3 DEF Again, Supersedable, Current, Stands, NoNewer, ROW
<1>4. ASSUME NEW d \in Standards, Rechunk(d)
      PROVE  Stands(i) /\ NoNewer(i)
  <2>1. PICK new \in SUBSET (chunks[d] \cup Sentences \X {editions + 1}), moved \in SUBSET Sentences :
          row' = [j \in Rows |-> IF row[j].std = d THEN Reattached(j, new, moved) ELSE row[j]]
    BY <1>4 DEF Rechunk
  <2>2. new \in SUBSET Chunks
    BY <1>4, Groups, RequirementsAssumption DEF Rechunk, LibraryOK, RestOK, Chunks, Editions
  <2> QED  BY <2>1, <2>2, ReattachedRow DEF Stands, NoNewer
<1>5. ASSUME NEW j \in Rows, NEW who \in Deciders, Confirm(j, who) \/ Edit(j, who)
      PROVE  Stands(i) /\ NoNewer(i)
  <2>1. NoNewer(i)
    BY <1>0, <1>5 DEF Confirm, Edit, NoNewer, ROW
  <2>2. /\ row'[i].is = row[i].is /\ row'[i].text \in {row[i].text, Corrected}
        /\ row[i].method = "human" => row'[i].method = "human"
        /\ row'[i].by = IF i = j THEN who ELSE row[i].by
    BY <1>0, <1>5 DEF Confirm, Edit, ROW
  <2>3. i = j /\ who # "person" => DecidedByNobody(i)
    BY <1>5 DEF Deciders, DecidedByNobody
  <2> QED  BY <2>1, <2>2, <2>3 DEF Stands
<1>7. ASSUME NEW j \in Rows, Delete(j)
      PROVE  Stands(i) /\ NoNewer(i)
  BY <1>0, <1>7 DEF Delete, Stands, NoNewer, ROW
<1>8. \/ row' = row
      \/ \E e \in Extractors : Supersede(e)
      \/ \E e \in Extractors : \E c \in read[e], j \in Rows : Again(e, c, j)
      \/ \E d \in Standards : Rechunk(d)
      \/ \E j \in Rows : Delete(j) \/ \E who \in Deciders : Confirm(j, who) \/ Edit(j, who)
  BY RowActions
<1> QED  BY <1>1, <1>2, <1>3, <1>4, <1>5, <1>7, <1>8

\* A row that is written is a new one.
LEMMA WriteRow ==
  ASSUME TypeOK, NEW e \in Extractors, NEW c \in read[e], Write(e, c)
  PROVE  /\ std[e] \in Standards /\ c \in Chunks /\ c[1] \in Sentences
         /\ \/ row' = row
            \/ /\ made + 1 \in Rows /\ row[made + 1].is = "none"
               /\ row'[made + 1].std = std[e] /\ row'[made + 1].text = c[1]
               /\ row'[made + 1].is = "current"
               /\ row'[made + 1].by = "nobody" /\ row'[made + 1].method = "extracted"
               /\ \A i \in Rows \ {made + 1} : row'[i] = row[i]
<1>1. std[e] \in Standards /\ c \in Chunks /\ c[1] \in Sentences
  BY Groups DEF Write, Done, At, ThreadsOK, Chunks
<1>2. CASE c \in chunks[std[e]]
  <2>1. made + 1 \in Rows /\ row[made + 1].is = "none"
    BY <1>2, Groups, RequirementsAssumption DEF Write, LibraryOK, Rows
  <2>2. row' = [row EXCEPT ![made + 1] = [std |-> std[e], text |-> c[1], chunk |-> c,
                                          by |-> "nobody",
                                          method |-> "extracted", is |-> "current"]]
    BY <1>2 DEF Write
  <2>3. row \in [Rows -> ROW]
    BY Groups DEF LibraryOK
  <2> QED  BY <1>1, <2>1, <2>2, <2>3
<1>3. CASE c \notin chunks[std[e]]
  BY <1>1, <1>3 DEF Write
<1> QED  BY <1>2, <1>3

LEMMA SignedNext == TypeOK /\ Signed /\ [Next]_vars => Signed'
<1> SUFFICES ASSUME TypeOK, Signed, [Next]_vars, ~ AuthDisabled, NEW i \in Rows, row'[i].method = "human"
             PROVE  row'[i].by = "person"
  BY DEF Signed
<1>0. row \in [Rows -> ROW] /\ row[i] \in ROW /\ (row[i].method = "human" => row[i].by = "person")
  BY Groups DEF LibraryOK, Signed
<1>1. CASE row' = row
  BY <1>0, <1>1
<1>2. ASSUME NEW e \in Extractors, Supersede(e)
      PROVE  row'[i].by = "person"
  BY <1>0, <1>2 DEF Supersede, ROW
<1>3. ASSUME NEW e \in Extractors, NEW c \in read[e], Write(e, c)
      PROVE  row'[i].by = "person"
  BY <1>0, <1>3, WriteRow
<1>4. ASSUME NEW e \in Extractors, NEW c \in read[e], NEW j \in Rows, Again(e, c, j)
      PROVE  row'[i].by = "person"
  BY <1>0, <1>4 DEF Again, ROW
<1>5. ASSUME NEW d \in Standards, Rechunk(d)
      PROVE  row'[i].by = "person"
  <2>1. PICK new \in SUBSET (chunks[d] \cup Sentences \X {editions + 1}), moved \in SUBSET Sentences :
          row' = [j \in Rows |-> IF row[j].std = d THEN Reattached(j, new, moved) ELSE row[j]]
    BY <1>5 DEF Rechunk
  <2>2. new \in SUBSET Chunks
    BY <1>5, Groups, RequirementsAssumption DEF Rechunk, LibraryOK, RestOK, Chunks, Editions
  <2> QED  BY <1>0, <2>1, <2>2, ReattachedRow
<1>6. ASSUME NEW j \in Rows, NEW who \in Deciders, Confirm(j, who) \/ Edit(j, who)
      PROVE  row'[i].by = "person"
  BY <1>0, <1>6 DEF Confirm, Edit, Deciders, ROW
<1>7. ASSUME NEW j \in Rows, Delete(j)
      PROVE  row'[i].by = "person"
  BY <1>0, <1>7 DEF Delete, ROW
<1> QED  BY <1>1, <1>2, <1>3, <1>4, <1>5, <1>6, <1>7, RowActions

\* "A human's decision outranks a re-parse": what a person has confirmed or
\* corrected stays, in their words, whatever extraction, re-chunk or crash
\* comes in between, until somebody decides again: every decision, where
\* authentication is never disabled, and otherwise those that name a person.
THEOREM DecisionsAlwaysStand == Spec => DecisionsStand
<1>1. ASSUME TypeOK, [Next]_vars, NEW i \in Rows
      PROVE  Stands(i)
  <2>1. CASE \E e \in Extractors : \E c \in read[e] : Write(e, c)
    BY <1>1, <2>1, WriteRow DEF Stands
  <2>2. CASE ~ \E e \in Extractors : \E c \in read[e] : Write(e, c)
    BY <1>1, <2>2, RowSteps
  <2> QED  BY <2>1, <2>2
<1>2. TypeOK /\ Signed /\ [Next]_vars =>
        [\A i \in Rows :
           /\ i \in Current(row[i].std) /\ row[i].method = "human"
           /\ AuthDisabled => row[i].by = "person"
           => \/ /\ row'[i].is = "current" /\ row'[i].method = "human"
                 /\ row'[i].text \in {row[i].text, Corrected}
                 /\ row'[i].by = "person" \/ DecidedByNobody(i)
              \/ row'[i].is = "deleted" /\ i \in rejecting]_vars
  BY <1>1 DEF Stands, Signed, Current
<1>3. Init => Signed
  BY DEF Init, NoRow, Signed
<1>4. TypeOK /\ Signed /\ [Next]_vars => Signed'
  BY SignedNext
<1> QED  BY <1>2, <1>3, <1>4, TypesHold, PTL DEF Spec, DecisionsStand

-----------------------------------------------------------------------------
(* One row per sentence.  The rows an extraction knows of at its beginning,  *)
(* and those it writes, are all there are, as long as it is alone.           *)

\* Nobody begins to extract, or one extractor does.
LEMMA PlaceSteps ==
  ASSUME TypeOK, [Next]_vars
  PROVE  /\ overlapped \subseteq overlapped'
         /\ \/ \A e \in Extractors, d \in Standards : Extracting(e, d)' => Extracting(e, d)
            \/ \E e \in Extractors, d \in Standards : Begin(e, d) /\ pc[e] = "idle"
<1> DEFINE Fewer == \A e \in Extractors, d \in Standards : Extracting(e, d)' => Extracting(e, d)
<1>0. pc \in [Extractors -> Places] /\ std \in [Extractors -> Standards \cup {NoStandard}]
  BY Groups DEF ThreadsOK
<1>1. ASSUME UNCHANGED <<pc, std, overlapped>>
      PROVE  Fewer /\ overlapped \subseteq overlapped'
  BY <1>1 DEF Extracting
<1>2. ASSUME NEW e \in Extractors, Leave(e), UNCHANGED overlapped
      PROVE  Fewer /\ overlapped \subseteq overlapped'
  BY <1>0, <1>2 DEF Leave, Goto, Extracting
<1>3. ASSUME NEW e \in Extractors, NEW p, pc[e] \notin {"idle", "hook"}, Goto(e, p),
             UNCHANGED <<std, overlapped>>
      PROVE  Fewer /\ overlapped \subseteq overlapped'
  BY <1>0, <1>3 DEF Goto, Extracting
<1>4. ASSUME NEW e \in Extractors, Extract(e) \/ Raise(e)
      PROVE  Fewer /\ overlapped \subseteq overlapped'
  <2>1. CASE Load(e) \/ Match(e) \/ Seed(e)
    BY <1>3, <2>1 DEF Load, Match, Seed, At, histVars
  <2>2. CASE Supersede(e)
    BY <1>2, <1>3, <2>2 DEF Supersede, At, histVars
  <2>3. CASE Refused(e) \/ Raise(e)
    BY <1>2, <2>3 DEF Refused, Raise, Failed, histVars
  <2>4. ASSUME NEW c \in read[e], NEW i \in Rows, Skip(e, c) \/ Write(e, c) \/ Again(e, c, i)
        PROVE  Fewer /\ overlapped \subseteq overlapped'
    BY <1>1, <2>4 DEF Skip, Write, Again, histVars
  <2>5. ASSUME NEW c \in read[e], Skip(e, c) \/ Write(e, c)
        PROVE  Fewer /\ overlapped \subseteq overlapped'
    BY <1>1, <2>5 DEF Skip, Write, histVars
  <2> QED  BY <1>4, <2>1, <2>2, <2>3, <2>4, <2>5 DEF Extract
<1>5. CASE End \/ Hook
  BY <1>2, <1>5 DEF End, Hook, Extractors, histVars
<1>6. ASSUME NEW e \in Extractors, NEW d \in Standards, Begin(e, d)
      PROVE  overlapped \subseteq overlapped'
  BY <1>6 DEF Begin
<1>7. ASSUME NEW d \in Standards, Finish(d)
      PROVE  Fewer /\ overlapped \subseteq overlapped'
  BY <1>0, <1>7 DEF Finish, Goto, At, Extracting, Extractors, histVars
<1>8. CASE Crash
  BY <1>8 DEF Crash, Idle, Extracting
<1>9. ASSUME NEW d \in Standards,
             \/ Request(d) \/ Cancel(d) \/ Rechunk(d) \/ Age(d)
             \/ Claim(d) \/ Finish(d) \/ \E c \in Callers : Call(c, d)
      PROVE  /\ overlapped \subseteq overlapped'
             /\ Fewer \/ \E e \in Extractors : Begin(e, d) /\ pc[e] = "idle"
  BY <1>1, <1>6, <1>7, <1>9
  DEF Request, Cancel, Rechunk, Age, Claim, Call, At, Extractors, threadVars, histVars
<1>10. CASE \/ UNCHANGED vars \/ Start
            \/ \E i \in Rows : \/ Delete(i)
                               \/ \E who \in Deciders : Confirm(i, who) \/ Edit(i, who)
                               \/ \E acknowledge \in BOOLEAN : Reject(i, acknowledge)
            \/ \E v \in Reviews : LoadRequirements(v) \/ WriteFindings(v)
  BY <1>1, <1>10 DEF vars, Start, Confirm, Edit, Delete, Reject, LoadRequirements, WriteFindings,
    threadVars, histVars
<1> QED  BY <1>4, <1>5, <1>8, <1>9, <1>10 DEF Next, Work, Extractors

LEMMA AloneNext == TypeOK /\ Alone /\ [Next]_vars => Alone'
<1> SUFFICES ASSUME TypeOK, Alone, [Next]_vars PROVE Alone'
  OBVIOUS
<1>1. overlapped \subseteq overlapped'
  BY PlaceSteps
<1>2. CASE \A e \in Extractors, d \in Standards : Extracting(e, d)' => Extracting(e, d)
  BY <1>1, <1>2 DEF Alone
<1>3. ASSUME NEW e \in Extractors, NEW d \in Standards, Begin(e, d), pc[e] = "idle"
      PROVE  Alone'
  <2>1. /\ pc \in [Extractors -> Places] /\ std \in [Extractors -> Standards \cup {NoStandard}]
    BY Groups DEF ThreadsOK
  <2>2. \A f \in Extractors \ {e}, x \in Standards : Extracting(f, x)' => Extracting(f, x)
    BY <1>3, <2>1 DEF Begin, Goto, Extracting
  <2>3. \A x \in Standards : Extracting(e, x)' => x = d
    BY <1>3, <2>1 DEF Begin, Extracting
  <2>4. d \notin overlapped' => \A f \in Extractors : ~ Extracting(f, d)
    BY <1>3 DEF Begin
  <2> QED  BY <1>1, <2>2, <2>3, <2>4 DEF Alone
<1> QED  BY <1>2, <1>3, PlaceSteps

\* What an extractor has still to do when it is in the middle of its rows: it
\* was there before, and forgets only a sentence it has come to.
Writing(e) ==
  /\ At(e, "write") /\ std'[e] = std[e] /\ seen'[e] = seen[e] /\ read'[e] \subseteq read[e]
  /\ \A k \in known[e] : k \in known'[e] \/ \A c \in read'[e] : c[1] # k[1]

LEMMA WritingSteps ==
  ASSUME TypeOK, OneChunk, [Next]_vars, NEW e \in Extractors, pc'[e] = "write"
  PROVE  Seed(e) \/ Writing(e)
<1>0. /\ pc \in [Extractors -> Places] /\ std \in [Extractors -> Standards \cup {NoStandard}]
      /\ read \in [Extractors -> SUBSET Chunks] /\ seen \in [Extractors -> SUBSET Sayings]
      /\ known \in [Extractors -> SUBSET (Sayings \X Rows)]
  BY Groups DEF ThreadsOK
<1>1. CASE UNCHANGED threadVars
  BY <1>1 DEF Writing, At, threadVars
<1>2. ASSUME NEW f \in Extractors, NEW p, Goto(f, p), p # "write",
             \A x \in Extractors \ {f} : std'[x] = std[x],
             \A x \in Extractors \ {f} : read'[x] = read[x] /\ known'[x] = known[x] /\ seen'[x] = seen[x]
      PROVE  Writing(e)
  <2>1. e # f /\ pc'[e] = pc[e]
    BY <1>0, <1>2 DEF Goto
  <2> QED  BY <1>2, <2>1 DEF Writing, At
<1>3. ASSUME NEW f \in Extractors, Leave(f)
      PROVE  Writing(e)
  BY <1>0, <1>2, <1>3 DEF Leave
<1>4. ASSUME NEW f \in Extractors, NEW d \in Standards, Begin(f, d), UNCHANGED <<read, known, seen>>
      PROVE  Writing(e)
  BY <1>0, <1>2, <1>4 DEF Begin
<1>5. ASSUME NEW f \in Extractors, Extract(f) \/ Raise(f)
      PROVE  Seed(e) \/ Writing(e)
  <2>1. CASE Load(f)
    BY <1>0, <1>2, <2>1 DEF Load
  <2>2. CASE Match(f)
    BY <1>0, <1>2, <2>2 DEF Match
  <2>3. CASE Seed(f) /\ f # e
    BY <1>0, <2>3 DEF Seed, Goto, Writing, At
  <2>4. CASE Supersede(f)
    BY <1>2, <1>3, <2>4 DEF Supersede
  <2>5. CASE Refused(f) \/ Raise(f)
    BY <1>3, <2>5 DEF Refused, Raise, Failed
  <2>6. ASSUME NEW c \in read[f], Skip(f, c) \/ Write(f, c)
        PROVE  Writing(e)
    BY <1>0, <2>6 DEF Skip, Write, Done, Writing, At
  <2>7. ASSUME NEW c \in read[f], NEW i \in Rows, Again(f, c, i)
        PROVE  Writing(e)
    <3>1. UNCHANGED <<pc, std, seen>> /\ read' = [read EXCEPT ![f] = @ \ {c}]
          /\ known' = [known EXCEPT ![f] = @ \ {<<c[1], i>>}]
      BY <2>7 DEF Again, Done
    <3>2. CASE e # f
      BY <1>0, <3>1, <3>2 DEF Writing, At
    <3>3. CASE e = f
      <4>1. read'[e] = read[e] \ {c} /\ known'[e] = known[e] \ {<<c[1], i>>}
        BY <1>0, <3>1, <3>3
      <4>2. \A a \in read'[e] : a[1] # c[1]
        BY <3>3, <4>1 DEF OneChunk
      <4> QED  BY <3>1, <4>1, <4>2 DEF Writing, At
    <3> QED  BY <3>2, <3>3
  <2> QED  BY <1>5, <2>1, <2>2, <2>3, <2>4, <2>5, <2>6, <2>7 DEF Extract
<1>6. CASE End \/ Hook
  BY <1>3, <1>6 DEF End, Hook, Extractors
<1>7. CASE Crash
  BY <1>7 DEF Crash, Idle
<1>8. ASSUME NEW d \in Standards,
             \/ Request(d) \/ Cancel(d) \/ Rechunk(d) \/ Age(d)
             \/ Claim(d) \/ Finish(d) \/ \E c \in Callers : Call(c, d)
      PROVE  Seed(e) \/ Writing(e)
  <2>1. CASE Finish(d)
    BY <1>0, <1>2, <2>1 DEF Finish, Extractors
  <2> QED  BY <1>1, <1>4, <1>8, <2>1
       DEF Request, Cancel, Rechunk, Age, Claim, Call, Extractors
<1>9. CASE \/ UNCHANGED vars \/ Start
           \/ \E i \in Rows : \/ Delete(i)
                              \/ \E who \in Deciders : Confirm(i, who) \/ Edit(i, who)
                              \/ \E acknowledge \in BOOLEAN : Reject(i, acknowledge)
           \/ \E v \in Reviews : LoadRequirements(v) \/ WriteFindings(v)
  BY <1>1, <1>9 DEF vars, Start, Confirm, Edit, Delete, Reject, LoadRequirements, WriteFindings
<1> QED  BY <1>5, <1>6, <1>7, <1>8, <1>9 DEF Next, Work, Extractors

LEMMA OneChunkNext == TypeOK /\ OneChunk /\ [Next]_vars => OneChunk'
<1> SUFFICES ASSUME TypeOK, OneChunk, [Next]_vars PROVE OneChunk'
  OBVIOUS
<1>0. chunks \in [Standards -> SUBSET Chunks] /\ read \in [Extractors -> SUBSET Chunks]
  BY Groups DEF LibraryOK, ThreadsOK
<1>1. ASSUME NEW d \in Standards, Rechunk(d)
      PROVE  OneChunk'
  BY <1>0, <1>1 DEF Rechunk, OneChunk, threadVars
<1>2. ASSUME NEW e \in Extractors, Load(e)
      PROVE  OneChunk'
  <2>1. std[e] \in Standards
    BY <1>2, Groups DEF Load, At, ThreadsOK
  <2> QED  BY <1>0, <1>2, <2>1 DEF Load, OneChunk, libraryVars
<1>3. ASSUME chunks' = chunks, \A e \in Extractors : read'[e] \subseteq read[e]
      PROVE  OneChunk'
  BY <1>3 DEF OneChunk
<1>4. ASSUME NEW e \in Extractors, Leave(e), chunks' = chunks
      PROVE  OneChunk'
  BY <1>0, <1>3, <1>4 DEF Leave
<1>5. ASSUME NEW e \in Extractors, Extract(e) \/ Raise(e)
      PROVE  OneChunk'
  <2>1. CASE Match(e) \/ Seed(e)
    BY <1>3, <2>1 DEF Match, Seed, libraryVars
  <2>2. CASE Supersede(e)
    BY <1>3, <1>4, <2>2 DEF Supersede
  <2>3. CASE Refused(e) \/ Raise(e)
    BY <1>4, <2>3 DEF Refused, Raise, Failed, libraryVars
  <2>4. ASSUME NEW c \in read[e], Skip(e, c) \/ Write(e, c) \/ \E i \in Rows : Again(e, c, i)
        PROVE  OneChunk'
    BY <1>0, <1>3, <2>4 DEF Skip, Write, Again, Done, libraryVars
  <2> QED  BY <1>2, <1>5, <2>1, <2>2, <2>3, <2>4 DEF Extract
<1>6. CASE End \/ Hook
  BY <1>4, <1>6 DEF End, Hook, Extractors, libraryVars
<1>7. CASE Crash
  BY <1>3, <1>7 DEF Crash, Nothing, libraryVars
<1>8. ASSUME NEW d \in Standards,
             \/ Request(d) \/ Cancel(d) \/ Age(d)
             \/ Claim(d) \/ Finish(d) \/ \E c \in Callers : Call(c, d)
      PROVE  OneChunk'
  BY <1>3, <1>8 DEF Request, Cancel, Age, Claim, Finish, Call, libraryVars, threadVars
<1>9. CASE \/ UNCHANGED vars \/ Start
           \/ \E i \in Rows : \/ Delete(i)
                              \/ \E who \in Deciders : Confirm(i, who) \/ Edit(i, who)
                              \/ \E acknowledge \in BOOLEAN : Reject(i, acknowledge)
           \/ \E v \in Reviews : LoadRequirements(v) \/ WriteFindings(v)
  BY <1>3, <1>9 DEF vars, Start, Confirm, Edit, Delete, Reject, LoadRequirements, WriteFindings,
    libraryVars, threadVars
<1> QED  BY <1>1, <1>5, <1>6, <1>7, <1>8, <1>9 DEF Next, Work, Extractors

LEMMA CoveredNext == Inv /\ [Next]_vars => Covered'
<1> SUFFICES ASSUME Inv, [Next]_vars, NEW e \in Extractors, pc'[e] = "write",
                    std'[e] \notin overlapped', NEW i \in Rows,
                    row'[i].std = std'[e], row'[i].is = "current"
             PROVE  \/ row'[i].text = Corrected
                    \/ row'[i].text \in seen'[e] \cup {k[1] : k \in known'[e]}
                    \/ \A c \in read'[e] : c[1] # row'[i].text
  BY DEF Covered, At, Current, Keys
<1> USE DEF Inv
<1>1. CASE Seed(e)
  <2>1. row' = row /\ known' = known /\ std' = std
    BY <1>1 DEF Seed, libraryVars
  <2>2. seen'[e] = {row[j].text : j \in Current(std[e])} \ {k[1] : k \in known[e]}
    BY <1>1, Groups DEF Seed, ThreadsOK
  <2>3. i \in Current(std[e])
    BY <2>1 DEF Current
  <2> QED  BY <2>1, <2>2, <2>3
<1>2. CASE Writing(e)
  <2>1. std[e] \notin overlapped /\ At(e, "write") /\ std'[e] = std[e]
    BY <1>2, PlaceSteps DEF Writing
  <2>2. ASSUME row[i].std = std[e], row[i].is = "current", row'[i].text \in {row[i].text, Corrected}
        PROVE  \/ row'[i].text = Corrected
               \/ row'[i].text \in seen'[e] \cup {k[1] : k \in known'[e]}
               \/ \A c \in read'[e] : c[1] # row'[i].text
    <3>1. \/ row[i].text = Corrected
          \/ row[i].text \in seen[e] \cup Keys(e)
          \/ \A c \in read[e] : c[1] # row[i].text
      BY <2>1, <2>2 DEF Covered, Current
    <3>2. CASE row[i].text \in Keys(e) /\ row'[i].text = row[i].text
      <4>1. PICK k \in known[e] : k[1] = row[i].text
        BY <3>2 DEF Keys
      <4>2. k \in known'[e] \/ \A c \in read'[e] : c[1] # k[1]
        BY <1>2 DEF Writing
      <4> QED  BY <3>2, <4>1, <4>2
    <3> QED  BY <1>2, <2>2, <3>1, <3>2 DEF Writing
  <2>3. CASE ~ \E f \in Extractors : \E c \in read[f] : Write(f, c)
    BY <2>1, <2>2, <2>3, RowSteps DEF NoNewer
  <2>4. ASSUME NEW f \in Extractors, NEW c \in read[f], Write(f, c)
        PROVE  \/ row'[i].text = Corrected
               \/ row'[i].text \in seen'[e] \cup {k[1] : k \in known'[e]}
               \/ \A a \in read'[e] : a[1] # row'[i].text
    <3>1. CASE row'[i] = row[i]
      BY <2>1, <2>2, <3>1
    <3>2. CASE row'[i].std = std[f] /\ row'[i].text = c[1]
      <4>1. std[e] \in Standards /\ Extracting(e, std[e]) /\ Extracting(f, std[e])
        BY <2>1, <2>4, <3>2, WriteRow DEF Write, Done, At, Extracting
      <4>2. f = e
        BY <2>1, <4>1 DEF Alone
      <4>3. read'[e] = read[e] \ {c}
        BY <2>4, <4>2, Groups DEF Write, Done, ThreadsOK
      <4> QED  BY <2>4, <3>2, <4>2, <4>3 DEF OneChunk
    <3> QED  BY <2>4, <3>1, <3>2, WriteRow
  <2> QED  BY <2>3, <2>4
<1> QED  BY <1>1, <1>2, WritingSteps

LEMMA OneRowNext == Inv /\ [Next]_vars => OneRowPerSentence'
<1> SUFFICES ASSUME Inv, [Next]_vars, NEW d \in Standards, d \notin overlapped',
                    NEW i \in Rows, NEW j \in Rows, row'[i].std = d, row'[j].std = d,
                    row'[i].is = "current", row'[j].is = "current",
                    row'[i].text = row'[j].text, row'[i].text # Corrected, i # j
             PROVE  FALSE
  BY DEF OneRowPerSentence, Current
<1> USE DEF Inv
<1>0. d \notin overlapped
  BY PlaceSteps
<1>1. CASE ~ \E f \in Extractors : \E c \in read[f] : Write(f, c)
  BY <1>0, <1>1, RowSteps DEF NoNewer, OneRowPerSentence, Current
<1>2. ASSUME NEW e \in Extractors, NEW c \in read[e], Write(e, c)
      PROVE  FALSE
  <2>1. ASSUME NEW n \in Rows, row[n].std = std[e], row[n].is = "current", row[n].text = c[1],
               std[e] \notin overlapped, c[1] # Corrected
        PROVE  FALSE
    <3>1. At(e, "write") /\ c[1] \notin seen[e] \cup Keys(e)
      BY <1>2 DEF Write, Done
    <3> QED  BY <2>1, <3>1 DEF Covered, Current
  <2> QED  BY <1>0, <1>2, <2>1, WriteRow DEF OneRowPerSentence, Current
<1> QED  BY <1>1, <1>2

LEMMA InvInit == Init => Inv
<1> SUFFICES ASSUME Init PROVE Inv
  OBVIOUS
<1>1. TypeOK
  BY InitTypes
<1>2. Alone /\ Covered
  BY DEF Init, Idle, Alone, Covered, Extracting, At
<1>3. OneChunk
  BY DEF Init, Nothing, OneChunk
<1>4. OneRowPerSentence
  BY DEF Init, NoRow, OneRowPerSentence, Current
<1> QED  BY <1>1, <1>2, <1>3, <1>4 DEF Inv

LEMMA InvNext == Inv /\ [Next]_vars => Inv'
  BY NextTypes, AloneNext, OneChunkNext, CoveredNext, OneRowNext DEF Inv

\* "A duplicate requirement is not a second requirement": a standard's current
\* requirements have each sentence once, for any sentences, extractions,
\* re-chunks, decisions and crashes, unless two extractions of it overlapped.
THEOREM NoSecondRow == Spec => []OneRowPerSentence
<1>1. Inv => OneRowPerSentence
  BY DEF Inv
<1> QED  BY InvInit, InvNext, <1>1, PTL DEF Spec
-----------------------------------------------------------------------------
(* The text is read.  While a ready standard is extracted by one extractor,  *)
(* its chunks are those that were read, and nobody else adds or removes      *)
(* rows; what people decide in the meantime is on record.                    *)

\* What nobody has decided on is a sentence of the text, confirmed by nobody.
MachineWords ==
  \A i \in Rows : row[i].is # "none" /\ row[i].method = "extracted" =>
    row[i].text \in Sentences /\ row[i].by = "nobody"

\* A job that is being extracted is not done yet.
UnderWay ==
  \A d \in Standards : Extracting(worker, d) => job[d].state # JOB_DONE

\* A sentence of a standard has its row, or a person has settled it.
HasRow(d, t) ==
  \/ <<d, t>> \in settled
  \/ \E i \in Rows : row[i].std = d /\ row[i].is = "current" /\ row[i].text = t

\* A row has been decided on, or is a sentence of the text.
InText(d, i) ==
  row[i].std = d /\ row[i].is = "current" /\ row[i].method = "extracted" =>
    \E c \in chunks[d] : row[i].text = c[1]

Complete(d) == \A c \in chunks[d] : HasRow(d, c[1])
NothingLeft(d) == \A i \in Rows : InText(d, i)

\* The last job of a ready standard is done, and nothing has been missed.
Quiet(d) ==
  /\ d \in ready \ (overlapped \cup missed) /\ job[d].state = JOB_DONE
  /\ ~ (At(worker, "hook") /\ std[worker] = d)

\* An extraction of which something is known: of a ready standard by the
\* worker, or by somebody else while the last job is done.
Watched(e, d) ==
  /\ e \in Extractors /\ d \in ready \ overlapped /\ Extracting(e, d)
  /\ e = worker \/ Quiet(d)

\* What it has met, or written, so far has a row ...
SoFar(e, d) ==
  \A c \in chunks[d] : c \in read[e] \/ HasRow(d, c[1])

\* ... and what it remembers of rows is still so, or a person has settled it.
Remembers(e, d) ==
  /\ \A k, l \in known[e] : k[1] = l[1] => k = l
  /\ \A k \in known[e] :
       /\ k[2] \in Rows /\ row[k[2]].is # "none" /\ row[k[2]].std = d
       /\ \/ <<d, k[1]>> \in settled
          \/ row[k[2]].is = "current" /\ row[k[2]].text = k[1]
       /\ row[k[2]].text \in {k[1], Corrected}
  /\ \A i \in Rows : <<row[i].text, i>> \in known[e] \/ InText(d, i)

Progress(e, d) ==
  /\ pc[e] \in {"match", "seed"} => read[e] = chunks[d]
  /\ pc[e] \in {"seed", "write"} => Remembers(e, d)
  /\ At(e, "write") =>
       /\ read[e] \subseteq chunks[d] /\ SoFar(e, d)
       /\ \A t \in seen[e] : t = Corrected \/ HasRow(d, t)
       /\ \A k \in known[e] : k[1] \notin seen[e]
       /\ \A k \in known[e], c \in chunks[d] : k[1] = c[1] => c \in read[e]
  /\ At(e, "end") => Complete(d) /\ NothingLeft(d)

TextInv ==
  /\ MachineWords /\ UnderWay
  /\ \A d \in Standards : Quiet(d) => Complete(d) /\ NothingLeft(d)
  /\ \A e \in Extractors, d \in Standards : Watched(e, d) => Progress(e, d)

\* What a step does to the rows of a standard that no extractor adds to or
\* removes from.
RowsKept(d) ==
  /\ chunks'[d] = chunks[d] /\ settled \subseteq settled'
  /\ \A i \in Rows :
       /\ row[i].is # "none" =>
            /\ row'[i].is # "none" /\ row'[i].std = row[i].std
            /\ row'[i].text \in {row[i].text, Corrected}
       /\ row[i].std = d /\ row[i].is = "current" =>
            \/ <<d, row[i].text>> \in settled'
            \/ row'[i].is = "current" /\ row'[i].text = row[i].text
       /\ row'[i].std = d /\ row'[i].is # "none" /\ row'[i].method = "extracted" =>
            /\ row[i].std = d /\ row[i].is # "none" /\ row[i].method = "extracted"
            /\ row'[i].text = row[i].text
            /\ row'[i].is = "current" => row[i].is = "current"

\* A row that is met again keeps its sentence.
LEMMA AgainRows ==
  ASSUME TypeOK, NEW d \in Standards, NEW e \in Extractors, NEW c \in read[e], NEW j \in Rows,
         Again(e, c, j)
  PROVE  RowsKept(d)
<1>0. row \in [Rows -> ROW]
  BY Groups DEF LibraryOK
<1>1. UNCHANGED <<chunks, settled>>
  BY DEF Again, histVars
<1>2. row' = row \/ row' = [row EXCEPT ![j].chunk = c]
  BY DEF Again
<1> QED  BY <1>0, <1>1, <1>2 DEF RowsKept, ROW

\* Every step lets them be, but one that adds, removes or re-chunks.
LEMMA RowsKeptSteps ==
  ASSUME TypeOK, [Next]_vars, NEW d \in Standards, ~ Rechunk(d),
         ~ \E e \in Extractors : std[e] = d /\ (Supersede(e) \/ \E c \in read[e] : Write(e, c))
  PROVE  RowsKept(d)
<1>0. /\ chunks \in [Standards -> SUBSET Chunks] /\ row \in [Rows -> ROW]
      /\ \A i \in Rows : row[i] \in ROW
  BY Groups DEF LibraryOK
<1>1. CASE UNCHANGED <<chunks, row, settled>>
  BY <1>1 DEF RowsKept
<1>2. ASSUME NEW e \in Extractors, Supersede(e), std[e] # d
      PROVE  RowsKept(d)
  <2>1. UNCHANGED <<chunks, settled>>
    BY <1>2 DEF Supersede, histVars
  <2>2. \A i \in Rows : \/ row'[i] = row[i]
                       \/ /\ row[i].std = std[e] /\ row[i].is # "none"
                          /\ row'[i] = [row[i] EXCEPT !.is = "superseded"]
    BY <1>0, <1>2 DEF Supersede, Supersedable, Current
  <2> QED  BY <1>0, <1>2, <2>1, <2>2 DEF RowsKept, ROW
<1>3. ASSUME NEW e \in Extractors, NEW c \in read[e], Write(e, c), std[e] # d
      PROVE  RowsKept(d)
  <2>1. UNCHANGED <<chunks, settled>>
    BY <1>3 DEF Write, histVars
  <2> QED  BY <1>0, <1>3, <2>1, WriteRow DEF RowsKept
<1>4. ASSUME NEW e \in Extractors, NEW c \in read[e], NEW j \in Rows, Again(e, c, j)
      PROVE  RowsKept(d)
  BY <1>4, AgainRows
<1>5. ASSUME NEW x \in Standards, Rechunk(x), x # d
      PROVE  RowsKept(d)
  <2>1. PICK new \in SUBSET (chunks[x] \cup Sentences \X {editions + 1}), moved \in SUBSET Sentences :
          /\ chunks' = [chunks EXCEPT ![x] = new]
          /\ row' = [i \in Rows |-> IF row[i].std = x THEN Reattached(i, new, moved) ELSE row[i]]
    BY <1>5 DEF Rechunk
  <2>2. new \in SUBSET Chunks
    BY <1>5, Groups, RequirementsAssumption DEF Rechunk, LibraryOK, RestOK, Chunks, Editions
  <2>3. chunks'[d] = chunks[d] /\ settled' = settled
    BY <1>0, <1>5, <2>1 DEF Rechunk, histVars
  <2>4. \A i \in Rows : row'[i] = IF row[i].std = x THEN Reattached(i, new, moved) ELSE row[i]
    BY <2>1
  <2> QED  BY <1>5, <2>2, <2>3, <2>4, ReattachedRow DEF RowsKept
<1>6. ASSUME NEW j \in Rows, NEW who \in Deciders, Confirm(j, who)
      PROVE  RowsKept(d)
  <2>1. /\ UNCHANGED <<chunks, settled>>
        /\ row' = [row EXCEPT ![j].by = who, ![j].method = "human"]
    BY <1>6 DEF Confirm, histVars
  <2> QED  BY <1>0, <2>1 DEF RowsKept, ROW
<1>7. ASSUME NEW j \in Rows, NEW who \in Deciders, Edit(j, who)
      PROVE  RowsKept(d)
  <2>1. /\ chunks' = chunks /\ settled' = settled \cup {<<row[j].std, row[j].text>>}
        /\ row' = [row EXCEPT ![j].by = who, ![j].method = "human", ![j].text = Corrected]
    BY <1>7 DEF Edit
  <2> QED  BY <1>0, <2>1 DEF RowsKept, ROW
<1>8. ASSUME NEW j \in Rows, Delete(j)
      PROVE  RowsKept(d)
  <2>1. /\ chunks' = chunks /\ settled' = settled \cup {<<row[j].std, row[j].text>>}
        /\ row' = [row EXCEPT ![j].is = "deleted"] /\ j \in rejecting
    BY <1>8 DEF Delete
  <2>2. row[j].is # "none"
    BY <2>1, Groups DEF LibraryOK, ReviewsOK, Rows
  <2> QED  BY <1>0, <2>1, <2>2 DEF RowsKept, ROW
<1> QED  BY <1>1, <1>2, <1>3, <1>4, <1>5, <1>6, <1>7, <1>8, RowActions

\* What is said of such rows stays true.
LEMMA HasRowKept ==
  ASSUME NEW d \in Standards, RowsKept(d), NEW t, HasRow(d, t)
  PROVE  HasRow(d, t)'
  BY DEF RowsKept, HasRow

LEMMA InTextKept ==
  ASSUME NEW d \in Standards, RowsKept(d), NEW i \in Rows, InText(d, i)
  PROVE  InText(d, i)'
  BY DEF RowsKept, InText

LEMMA WholeKept ==
  ASSUME NEW d \in Standards, RowsKept(d)
  PROVE  /\ Complete(d) => Complete(d)'
         /\ NothingLeft(d) => NothingLeft(d)'
<1>1. chunks'[d] = chunks[d]
  BY DEF RowsKept
<1>2. Complete(d) => Complete(d)'
  BY <1>1, HasRowKept DEF Complete
<1>3. NothingLeft(d) => NothingLeft(d)'
  BY InTextKept DEF NothingLeft
<1> QED  BY <1>2, <1>3

SameHand(e) ==
  /\ pc'[e] = pc[e] /\ std'[e] = std[e]
  /\ read'[e] = read[e] /\ known'[e] = known[e] /\ seen'[e] = seen[e]

LEMMA RemembersKept ==
  ASSUME NEW d \in Standards, RowsKept(d), NEW e \in Extractors, Remembers(e, d), known'[e] = known[e]
  PROVE  Remembers(e, d)'
<1>1. \A k, l \in known'[e] : k[1] = l[1] => k = l
  BY DEF Remembers
<1>2. ASSUME NEW k \in known[e]
      PROVE  /\ k[2] \in Rows /\ row'[k[2]].is # "none" /\ row'[k[2]].std = d
             /\ \/ <<d, k[1]>> \in settled'
                \/ row'[k[2]].is = "current" /\ row'[k[2]].text = k[1]
             /\ row'[k[2]].text \in {k[1], Corrected}
  <2> DEFINE i == k[2]
  <2>1. /\ i \in Rows /\ row[i].is # "none" /\ row[i].std = d
        /\ <<d, k[1]>> \in settled \/ (row[i].is = "current" /\ row[i].text = k[1])
        /\ row[i].text \in {k[1], Corrected}
    BY <1>2 DEF Remembers
  <2> HIDE DEF i
  <2>2. /\ i \in Rows /\ row'[i].is # "none" /\ row'[i].std = d
        /\ <<d, k[1]>> \in settled' \/ (row'[i].is = "current" /\ row'[i].text = k[1])
        /\ row'[i].text \in {k[1], Corrected}
    BY <2>1 DEF RowsKept
  <2> QED  BY <2>2 DEF i
<1>3. ASSUME NEW i \in Rows, ~ InText(d, i)'
      PROVE  <<row'[i].text, i>> \in known'[e]
  <2>1. ~ InText(d, i)
    BY <1>3, InTextKept
  <2>2. <<row[i].text, i>> \in known[e]
    BY <2>1 DEF Remembers
  <2>3. row'[i].text = row[i].text \/ row[i].is = "none"
    BY <1>3 DEF InText, RowsKept
  <2>4. row[i].is # "none"
    BY <2>1 DEF InText
  <2> QED  BY <2>2, <2>3, <2>4
<1> QED  BY <1>1, <1>2, <1>3 DEF Remembers

LEMMA ProgressKept ==
  ASSUME NEW d \in Standards, RowsKept(d), NEW e \in Extractors, Progress(e, d), SameHand(e)
  PROVE  Progress(e, d)'
<1> USE DEF SameHand, At
<1>0. chunks'[d] = chunks[d]
  BY DEF RowsKept
<1>1. pc'[e] \in {"match", "seed"} => read'[e] = chunks'[d]
  BY <1>0 DEF Progress
<1>2. pc'[e] \in {"seed", "write"} => Remembers(e, d)'
  BY RemembersKept DEF Progress
<1>3. ASSUME pc'[e] = "write"
      PROVE  /\ read'[e] \subseteq chunks'[d] /\ SoFar(e, d)'
             /\ \A t \in seen'[e] : t = Corrected \/ HasRow(d, t)'
             /\ \A k \in known'[e] : k[1] \notin seen'[e]
             /\ \A k \in known'[e], c \in chunks'[d] : k[1] = c[1] => c \in read'[e]
  <2>1. /\ read[e] \subseteq chunks[d] /\ SoFar(e, d)
        /\ \A t \in seen[e] : t = Corrected \/ HasRow(d, t)
        /\ \A k \in known[e] : k[1] \notin seen[e]
        /\ \A k \in known[e], c \in chunks[d] : k[1] = c[1] => c \in read[e]
    BY <1>3 DEF Progress
  <2>2. SoFar(e, d)'
    BY <1>0, <2>1, HasRowKept DEF SoFar
  <2>3. \A t \in seen'[e] : t = Corrected \/ HasRow(d, t)'
    BY <2>1, HasRowKept
  <2> QED  BY <1>0, <2>1, <2>2, <2>3
<1>4. pc'[e] = "end" => Complete(d)' /\ NothingLeft(d)'
  BY WholeKept DEF Progress
<1> QED  BY <1>1, <1>2, <1>3, <1>4 DEF Progress

-----------------------------------------------------------------------------
(* Who is watched, and what the watched do.                                *)

\* An extractor is where it was, or does a step of its own.
LEMMA HandSteps ==
  ASSUME TypeOK, [Next]_vars, NEW e \in Extractors, pc'[e] \notin {"idle", "hook", "load"}
  PROVE  \/ SameHand(e) \/ Load(e) \/ Match(e) \/ Seed(e) \/ Supersede(e)
         \/ \E c \in read[e] : Skip(e, c) \/ Write(e, c) \/ \E i \in Rows : Again(e, c, i)
<1>0. /\ pc \in [Extractors -> Places] /\ std \in [Extractors -> Standards \cup {NoStandard}]
      /\ read \in [Extractors -> SUBSET Chunks] /\ seen \in [Extractors -> SUBSET Sayings]
      /\ known \in [Extractors -> SUBSET (Sayings \X Rows)]
  BY Groups DEF ThreadsOK
<1>1. CASE UNCHANGED threadVars
  BY <1>1 DEF SameHand, threadVars
<1>2. ASSUME NEW f \in Extractors, NEW p, Goto(f, p),
             p \in {"idle", "hook", "load"} \/ e # f,
             \A x \in Extractors \ {f} : /\ std'[x] = std[x] /\ read'[x] = read[x]
                                         /\ known'[x] = known[x] /\ seen'[x] = seen[x]
      PROVE  SameHand(e)
  BY <1>0, <1>2 DEF Goto, SameHand
<1>3. ASSUME NEW f \in Extractors, Leave(f)
      PROVE  SameHand(e)
  BY <1>0, <1>2, <1>3 DEF Leave
<1>4. ASSUME NEW f \in Extractors, NEW d \in Standards, Begin(f, d), UNCHANGED <<read, known, seen>>
      PROVE  SameHand(e)
  BY <1>0, <1>2, <1>4 DEF Begin
<1>5. ASSUME NEW f \in Extractors, f # e, Extract(f)
      PROVE  SameHand(e)
  <2>1. CASE Load(f) \/ Match(f) \/ Seed(f)
    BY <1>0, <1>2, <1>5, <2>1 DEF Load, Match, Seed
  <2>2. CASE Supersede(f)
    BY <1>2, <1>3, <1>5, <2>2 DEF Supersede
  <2>3. CASE Refused(f)
    BY <1>3, <2>3 DEF Refused, Failed
  <2>4. ASSUME NEW c \in read[f], Skip(f, c) \/ Write(f, c) \/ \E i \in Rows : Again(f, c, i)
        PROVE  SameHand(e)
    BY <1>0, <1>5, <2>4 DEF Skip, Write, Again, Done, SameHand
  <2> QED  BY <1>5, <2>1, <2>2, <2>3, <2>4 DEF Extract
<1>6. ASSUME Refused(e)
      PROVE  SameHand(e)
  BY <1>3, <1>6 DEF Refused, Failed
<1>7. ASSUME NEW f \in Extractors, Raise(f)
      PROVE  SameHand(e)
  BY <1>3, <1>7 DEF Raise, Failed
<1>8. CASE End \/ Hook
  BY <1>3, <1>8 DEF End, Hook, Extractors
<1>9. CASE Crash
  BY <1>9 DEF Crash, Idle
<1>10. ASSUME NEW d \in Standards,
              \/ Request(d) \/ Cancel(d) \/ Rechunk(d) \/ Age(d)
              \/ Claim(d) \/ Finish(d) \/ \E c \in Callers : Call(c, d)
       PROVE  SameHand(e)
  <2>1. CASE Finish(d)
    BY <1>0, <1>2, <2>1 DEF Finish, Extractors
  <2>2. CASE Claim(d)
    BY <1>4, <2>2 DEF Claim, Extractors
  <2>3. ASSUME NEW c \in Callers, Call(c, d)
        PROVE  SameHand(e)
    BY <1>4, <2>3 DEF Call, Extractors
  <2>4. CASE Request(d) \/ Cancel(d) \/ Age(d) \/ Rechunk(d)
    <3>1. UNCHANGED threadVars
      BY <2>4 DEF Request, Cancel, Rechunk, Age, threadVars
    <3> QED  BY <3>1 DEF SameHand, threadVars
  <2> QED  BY <1>10, <2>1, <2>2, <2>3, <2>4
<1>11. CASE \/ UNCHANGED vars \/ Start
            \/ \E i \in Rows : \/ Delete(i)
                               \/ \E who \in Deciders : Confirm(i, who) \/ Edit(i, who)
                               \/ \E acknowledge \in BOOLEAN : Reject(i, acknowledge)
            \/ \E v \in Reviews : LoadRequirements(v) \/ WriteFindings(v)
  BY <1>1, <1>11 DEF vars, Start, Confirm, Edit, Delete, Reject, LoadRequirements, WriteFindings
<1>12. \A f \in Extractors : Extract(f) => \/ f # e
            \/ Load(e) \/ Match(e) \/ Seed(e) \/ Supersede(e) \/ Refused(e)
            \/ \E c \in read[e] : Skip(e, c) \/ Write(e, c) \/ \E i \in Rows : Again(e, c, i)
  BY DEF Extract
<1> QED  BY <1>5, <1>6, <1>7, <1>8, <1>9, <1>10, <1>11, <1>12 DEF Next, Work, Extractors

\* A job is done only by the extraction that ends.
LEMMA JobDone ==
  ASSUME TypeOK, [Next]_vars, NEW d \in Standards, job'[d].state = JOB_DONE
  PROVE  job[d].state = JOB_DONE \/ (End /\ std[worker] = d)
<1>0. /\ job \in [Standards -> JOB] /\ std \in [Extractors -> Standards \cup {NoStandard}]
      /\ \A x \in Standards : job[x] \in JOB
  BY Groups DEF RestOK, ThreadsOK
<1>1. CASE UNCHANGED job
  BY <1>1
<1>2. ASSUME NEW x \in Standards, Enqueue(x)
      PROVE  job[d].state = JOB_DONE
  BY <1>0, <1>2 DEF Enqueue, JOB_QUEUED, JOB_DONE
<1>3. CASE End
  BY <1>0, <1>3 DEF End
<1>4. CASE Hook
  <2>1. std[worker] \in Standards
    BY <1>4, Groups DEF Hook, At, ThreadsOK, Extractors
  <2> QED  BY <1>2, <1>4, <2>1 DEF Hook
<1>5. ASSUME NEW e \in Extractors, Failed(e)
      PROVE  job[d].state = JOB_DONE
  BY <1>0, <1>5 DEF Failed, StateAfterFailure, JOB_DONE, JOB_RETRYING, JOB_POISONED
<1>6. ASSUME NEW e \in Extractors, Extract(e) \/ Raise(e)
      PROVE  job[d].state = JOB_DONE
  BY <1>1, <1>5, <1>6 DEF Extract, Load, Match, Seed, Supersede, Refused, Raise, Skip, Write, Again
<1>7. ASSUME NEW x \in Standards,
             \/ Request(x) \/ Cancel(x) \/ Rechunk(x) \/ Age(x)
             \/ Claim(x) \/ Finish(x) \/ \E c \in Callers : Call(c, x)
      PROVE  job[d].state = JOB_DONE
  <2>1. CASE Request(x)
    BY <1>2, <2>1 DEF Request
  <2>2. CASE Cancel(x)
    BY <1>0, <2>2 DEF Cancel, JOB_CANCELLED, JOB_DONE
  <2>3. CASE Age(x)
    BY <1>0, <2>3 DEF Age, JOB
  <2>4. CASE Claim(x)
    BY <1>0, <2>4 DEF Claim, JOB_RUNNING, JOB_DONE
  <2> QED  BY <1>1, <1>7, <2>1, <2>2, <2>3, <2>4 DEF Rechunk, Finish, Call
<1>8. CASE Start
  BY <1>0, <1>8 DEF Start, JOB_QUEUED, JOB_DONE
<1>9. CASE \/ UNCHANGED vars \/ Crash
           \/ \E i \in Rows : \/ Delete(i)
                              \/ \E who \in Deciders : Confirm(i, who) \/ Edit(i, who)
                              \/ \E acknowledge \in BOOLEAN : Reject(i, acknowledge)
           \/ \E v \in Reviews : LoadRequirements(v) \/ WriteFindings(v)
  BY <1>1, <1>9 DEF vars, Crash, Confirm, Edit, Delete, Reject, LoadRequirements, WriteFindings
<1> QED  BY <1>3, <1>4, <1>6, <1>7, <1>8, <1>9 DEF Next, Work, Extractors

\* A standard becomes ready when the worker has finished it, and what is missed
\* comes off the list when it is queued.
LEMMA LibrarySteps ==
  ASSUME TypeOK, [Next]_vars, NEW d \in Standards
  PROVE  /\ d \in ready' => (d \in ready \/ Finish(d)) /\ ~ Rechunk(d)
         /\ d \in missed /\ d \notin missed' => job'[d].state # JOB_DONE
         /\ At(worker, "hook") /\ std[worker] = d =>
              \/ At(worker, "hook")' /\ std'[worker] = d
              \/ job'[d].state # JOB_DONE \/ d \in missed'
<1>0. /\ job \in [Standards -> JOB] /\ std \in [Extractors -> Standards \cup {NoStandard}]
      /\ pc \in [Extractors -> Places]
  BY Groups DEF RestOK, ThreadsOK
<1> DEFINE Hooked == At(worker, "hook") /\ std[worker] = d
<1>1. ASSUME NEW x \in Standards, Enqueue(x)
      PROVE  /\ job'[x].state # JOB_DONE
             /\ missed' = missed \ {x}
  BY <1>0, <1>1 DEF Enqueue, PENDING, JOB_QUEUED, JOB_RUNNING, JOB_RETRYING, JOB_DONE
<1>2. d \in ready' => (d \in ready \/ Finish(d)) /\ ~ Rechunk(d)
  <2>1. CASE UNCHANGED ready
    BY <2>1 DEF Rechunk
  <2>2. ASSUME NEW x \in Standards, Rechunk(x) \/ Finish(x)
        PROVE  d \in ready' => (d \in ready \/ Finish(d)) /\ ~ Rechunk(d)
    BY <2>2 DEF Rechunk, Finish
  <2>3. UNCHANGED ready \/ \E x \in Standards : Rechunk(x) \/ Finish(x)
    <3>1. ASSUME NEW e \in Extractors, Extract(e) \/ Raise(e)
          PROVE  UNCHANGED ready
      BY <3>1 DEF Extract, Raise, Load, Match, Seed, Supersede, Refused, Failed, Skip, Write, Again,
         libraryVars
    <3>2. CASE End \/ Hook \/ Crash \/ Start
      BY <3>2 DEF End, Hook, Crash, Start, libraryVars
    <3>3. ASSUME NEW x \in Standards,
                 Claim(x) \/ Request(x) \/ Cancel(x) \/ Age(x) \/ \E c \in Callers : Call(c, x)
          PROVE  UNCHANGED ready
      BY <3>3 DEF Claim, Request, Cancel, Age, Call, libraryVars
    <3>4. CASE \/ UNCHANGED vars
               \/ \E i \in Rows : \/ Delete(i)
                                  \/ \E who \in Deciders : Confirm(i, who) \/ Edit(i, who)
                                  \/ \E acknowledge \in BOOLEAN : Reject(i, acknowledge)
               \/ \E v \in Reviews : LoadRequirements(v) \/ WriteFindings(v)
      BY <3>4 DEF vars, Confirm, Edit, Delete, Reject, LoadRequirements, WriteFindings, libraryVars
    <3> QED  BY <3>1, <3>2, <3>3, <3>4 DEF Next, Work, Extractors
  <2> QED  BY <2>1, <2>2, <2>3
<1>3. \/ missed' = missed
      \/ \E x \in Standards : Enqueue(x)
      \/ Crash
  <2>1. CASE Hook
    BY <2>1, Groups DEF Hook, At, ThreadsOK, Extractors
  <2>2. ASSUME NEW x \in Standards, \/ Request(x) \/ Claim(x) \/ Cancel(x) \/ Age(x) \/ Rechunk(x)
                                    \/ Finish(x) \/ \E c \in Callers : Call(c, x)
        PROVE  missed' = missed \/ Enqueue(x)
    BY <2>2 DEF Request, Claim, Cancel, Age, Rechunk, Finish, Call, histVars
  <2>3. ASSUME NEW e \in Extractors, Extract(e) \/ Raise(e)
        PROVE  missed' = missed
    BY <2>3 DEF Extract, Raise, Load, Match, Seed, Supersede, Refused, Failed, Skip, Write, Again,
       histVars
  <2>4. CASE \/ UNCHANGED vars \/ End \/ Start
             \/ \E i \in Rows : \/ Delete(i)
                                \/ \E who \in Deciders : Confirm(i, who) \/ Edit(i, who)
                                \/ \E acknowledge \in BOOLEAN : Reject(i, acknowledge)
             \/ \E v \in Reviews : LoadRequirements(v) \/ WriteFindings(v)
    BY <2>4 DEF vars, End, Start, Confirm, Edit, Delete, Reject, LoadRequirements, WriteFindings, histVars
  <2> QED  BY <2>1, <2>2, <2>3, <2>4 DEF Next, Work, Extractors
<1>4. d \in missed /\ d \notin missed' => job'[d].state # JOB_DONE
  BY <1>1, <1>3 DEF Crash
<1>5. ASSUME Hooked
      PROVE  \/ pc'[worker] = "hook" /\ std'[worker] = d
             \/ job'[d].state # JOB_DONE \/ d \in missed'
  <2>1. CASE Hook
    BY <1>1, <1>5, <2>1 DEF Hook
  <2>2. CASE Crash
    BY <1>5, <2>2 DEF Crash
  <2>3. CASE UNCHANGED threadVars
    BY <1>5, <2>3 DEF At, threadVars
  <2>4. ASSUME NEW e \in Extractors, e # worker, pc'[worker] = pc[worker], std'[worker] = std[worker]
        PROVE  pc'[worker] = "hook" /\ std'[worker] = d
    BY <1>5, <2>4 DEF At
  <2>5. ASSUME NEW e \in Extractors, Extract(e) \/ Raise(e)
        PROVE  e # worker /\ pc'[worker] = pc[worker] /\ std'[worker] = std[worker]
    <3>1. e # worker
      BY <1>5, <2>5 DEF Extract, Raise, Load, Match, Seed, Supersede, Refused, Skip, Write, Again, Done, At
    <3>2. CASE Leave(e)
      BY <1>0, <3>1, <3>2 DEF Leave, Goto, Extractors
    <3>3. CASE Load(e) \/ Match(e) \/ Seed(e)
      BY <1>0, <3>1, <3>3 DEF Load, Match, Seed, Goto, Extractors
    <3> QED  BY <2>5, <3>1, <3>2, <3>3
         DEF Extract, Raise, Supersede, Refused, Failed, Skip, Write, Again, Done
  <2>6. ASSUME NEW x \in Standards, \/ Request(x) \/ Claim(x) \/ Cancel(x) \/ Age(x) \/ Rechunk(x)
                                    \/ Finish(x) \/ \E c \in Callers : Call(c, x)
        PROVE  pc'[worker] = pc[worker] /\ std'[worker] = std[worker]
    <3>1. ~ Claim(x) /\ ~ Finish(x)
      BY <1>5 DEF Claim, Finish, At
    <3>2. ASSUME NEW c \in Callers, Call(c, x)
          PROVE  pc'[worker] = pc[worker] /\ std'[worker] = std[worker]
      BY <1>0, <3>2, RequirementsAssumption DEF Call, Begin, Goto, Extractors
    <3> QED  BY <2>6, <3>1, <3>2 DEF Request, Cancel, Age, Rechunk, threadVars
  <2>7. CASE \/ UNCHANGED vars \/ End \/ Start
             \/ \E i \in Rows : \/ Delete(i)
                                \/ \E who \in Deciders : Confirm(i, who) \/ Edit(i, who)
                                \/ \E acknowledge \in BOOLEAN : Reject(i, acknowledge)
             \/ \E v \in Reviews : LoadRequirements(v) \/ WriteFindings(v)
    BY <1>5, <2>3, <2>7
    DEF vars, End, At, Start, Confirm, Edit, Delete, Reject, LoadRequirements, WriteFindings
  <2> QED  BY <1>5, <2>1, <2>2, <2>5, <2>6, <2>7 DEF Next, Work, Extractors, At
<1> QED  BY <1>2, <1>4, <1>5 DEF At

LEMMA WorkerBegins ==
  ASSUME TypeOK, [Next]_vars, pc[worker] = "idle", pc'[worker] = "load"
  PROVE  \E x \in Standards : Claim(x)
<1>0. pc \in [Extractors -> Places] /\ worker \in Extractors
  BY Groups DEF ThreadsOK, Extractors
<1>1. ASSUME NEW e \in Extractors, Extract(e) \/ Raise(e)
      PROVE  FALSE
  <2>1. e # worker
    BY <1>1 DEF Extract, Raise, Load, Match, Seed, Supersede, Refused, Skip, Write, Again, Done, At
  <2>2. CASE Leave(e)
    BY <1>0, <2>1, <2>2 DEF Leave, Goto
  <2>3. CASE Load(e) \/ Match(e) \/ Seed(e)
    BY <1>0, <2>1, <2>3 DEF Load, Match, Seed, Goto
  <2> QED  BY <1>0, <1>1, <2>1, <2>2, <2>3
       DEF Extract, Raise, Supersede, Refused, Failed, Skip, Write, Again, Done
<1>2. CASE End \/ Hook
  BY <1>2 DEF End, Hook, At
<1>3. ASSUME NEW x \in Standards,
             \/ Request(x) \/ Cancel(x) \/ Rechunk(x) \/ Age(x)
             \/ Finish(x) \/ \E c \in Callers : Call(c, x)
      PROVE  FALSE
  <2>1. CASE Finish(x)
    BY <1>0, <2>1 DEF Finish, Goto
  <2>2. ASSUME NEW c \in Callers, Call(c, x)
        PROVE  FALSE
    BY <1>0, <2>2, RequirementsAssumption DEF Call, Begin, Goto
  <2> QED  BY <1>3, <2>1, <2>2 DEF Request, Cancel, Rechunk, Age, threadVars
<1>4. CASE \/ UNCHANGED vars \/ Start \/ Crash
           \/ \E i \in Rows : \/ Delete(i)
                              \/ \E who \in Deciders : Confirm(i, who) \/ Edit(i, who)
                              \/ \E acknowledge \in BOOLEAN : Reject(i, acknowledge)
           \/ \E v \in Reviews : LoadRequirements(v) \/ WriteFindings(v)
  BY <1>0, <1>4
  DEF vars, Start, Crash, Idle, Confirm, Edit, Delete, Reject, LoadRequirements, WriteFindings, threadVars
<1> QED  BY <1>1, <1>2, <1>3, <1>4 DEF Next, Work, Extractors

\* Who extracts was there before, or has begun just now.
LEMMA ExtractingSteps ==
  ASSUME TypeOK, [Next]_vars, NEW e \in Extractors, NEW d \in Standards, Extracting(e, d)'
  PROVE  \/ Extracting(e, d)
         \/ pc[e] = "idle" /\ pc'[e] = "load" /\ std'[e] = d
<1>0. pc \in [Extractors -> Places] /\ std \in [Extractors -> Standards \cup {NoStandard}]
  BY Groups DEF ThreadsOK
<1>1. ASSUME NEW f \in Extractors, NEW x \in Standards, Begin(f, x), pc[f] = "idle"
      PROVE  \/ Extracting(e, d)
             \/ pc[e] = "idle" /\ pc'[e] = "load" /\ std'[e] = d
  BY <1>0, <1>1 DEF Begin, Goto, Extracting
<1> QED  BY <1>1, PlaceSteps

LEMMA UnderWayNext ==
  ASSUME TypeOK, UnderWay, [Next]_vars
  PROVE  UnderWay'
<1> SUFFICES ASSUME NEW d \in Standards, Extracting(worker, d)', job'[d].state = JOB_DONE
             PROVE  FALSE
  BY DEF UnderWay
<1>0. worker \in Extractors /\ job \in [Standards -> JOB] /\ pc \in [Extractors -> Places]
      /\ std \in [Extractors -> Standards \cup {NoStandard}]
  BY Groups DEF Extractors, RestOK, ThreadsOK
<1>1. CASE End /\ std[worker] = d
  BY <1>0, <1>1 DEF End, Leave, Goto, Extracting
<1>2. CASE job[d].state = JOB_DONE
  <2>1. pc[worker] = "idle" /\ pc'[worker] = "load" /\ std'[worker] = d
    BY <1>0, <1>2, ExtractingSteps DEF UnderWay
  <2>2. PICK x \in Standards : Claim(x)
    BY <2>1, WorkerBegins
  <2>3. x = d
    BY <1>0, <2>1, <2>2 DEF Claim, Begin
  <2> QED  BY <1>0, <1>2, <2>2, <2>3 DEF Claim, JOB_QUEUED, JOB_RETRYING, JOB_DONE
<1> QED  BY <1>1, <1>2, JobDone

LEMMA MachineWordsNext ==
  ASSUME TypeOK, MachineWords, [Next]_vars
  PROVE  MachineWords'
<1> SUFFICES ASSUME NEW i \in Rows, row'[i].is # "none", row'[i].method = "extracted"
             PROVE  row'[i].text \in Sentences /\ row'[i].by = "nobody"
  BY DEF MachineWords
<1>0. row \in [Rows -> ROW] /\ row[i] \in ROW
  BY Groups DEF LibraryOK
<1>1. ASSUME row[i].is # "none", row[i].method = "extracted", row'[i].text = row[i].text,
             row'[i].by = row[i].by
      PROVE  row'[i].text \in Sentences /\ row'[i].by = "nobody"
  BY <1>1 DEF MachineWords
<1>2. CASE row' = row
  BY <1>1, <1>2
<1>3. ASSUME NEW e \in Extractors, Supersede(e)
      PROVE  row'[i].text \in Sentences /\ row'[i].by = "nobody"
  BY <1>0, <1>1, <1>3 DEF Supersede, Supersedable, Current, ROW
<1>4. ASSUME NEW e \in Extractors, NEW c \in read[e], Write(e, c)
      PROVE  row'[i].text \in Sentences /\ row'[i].by = "nobody"
  BY <1>1, <1>4, WriteRow
<1>5. ASSUME NEW e \in Extractors, NEW c \in read[e], NEW j \in Rows, Again(e, c, j)
      PROVE  row'[i].text \in Sentences /\ row'[i].by = "nobody"
  BY <1>0, <1>1, <1>5 DEF Again, ROW
<1>6. ASSUME NEW d \in Standards, Rechunk(d)
      PROVE  row'[i].text \in Sentences /\ row'[i].by = "nobody"
  <2>1. PICK new \in SUBSET (chunks[d] \cup Sentences \X {editions + 1}), moved \in SUBSET Sentences :
          row' = [j \in Rows |-> IF row[j].std = d THEN Reattached(j, new, moved) ELSE row[j]]
    BY <1>6 DEF Rechunk
  <2>2. new \in SUBSET Chunks
    BY <1>6, Groups, RequirementsAssumption DEF Rechunk, LibraryOK, RestOK, Chunks, Editions
  <2> QED  BY <1>1, <2>1, <2>2, ReattachedRow
<1>7. ASSUME NEW j \in Rows, Delete(j)
      PROVE  row'[i].text \in Sentences /\ row'[i].by = "nobody"
  <2>1. row[j].is # "none"
    BY <1>7, Groups DEF Delete, LibraryOK, ReviewsOK, Rows
  <2> QED  BY <1>0, <1>1, <1>7, <2>1 DEF Delete, ROW
<1>8. ASSUME NEW j \in Rows, NEW who \in Deciders, Confirm(j, who) \/ Edit(j, who)
      PROVE  row'[i].text \in Sentences /\ row'[i].by = "nobody"
  <2>1. i # j
    BY <1>0, <1>8 DEF Confirm, Edit, ROW
  <2>2. row'[i] = row[i]
    BY <1>0, <1>8, <2>1 DEF Confirm, Edit
  <2> QED  BY <1>1, <2>2
<1> QED  BY <1>2, <1>3, <1>4, <1>5, <1>6, <1>7, <1>8, RowActions

\* A standard becomes quiet only when the worker ends the extraction of it.
LEMMA QuietSteps ==
  ASSUME TypeOK, [Next]_vars, NEW d \in Standards, Quiet(d)'
  PROVE  /\ d \in ready \ overlapped /\ ~ Rechunk(d)
         /\ Quiet(d) \/ (End /\ std[worker] = d)
<1>0. d \in ready' /\ d \notin overlapped' /\ d \notin missed' /\ job'[d].state = JOB_DONE
      /\ ~ (At(worker, "hook")' /\ std'[worker] = d)
  BY DEF Quiet
<1>1. ~ Finish(d)
  BY <1>0, Groups DEF Finish, Goto, At, ThreadsOK, Extractors
<1>2. d \in ready \ overlapped /\ ~ Rechunk(d)
  BY <1>0, <1>1, LibrarySteps, PlaceSteps
<1>3. d \notin missed /\ ~ (At(worker, "hook") /\ std[worker] = d)
  BY <1>0, LibrarySteps
<1> QED  BY <1>0, <1>2, <1>3, JobDone DEF Quiet

LEMMA WatchedSteps ==
  ASSUME TypeOK, Alone, [Next]_vars, NEW e \in Extractors, NEW d \in Standards, Watched(e, d)'
  PROVE  /\ d \in ready \ overlapped /\ ~ Rechunk(d)
         /\ Watched(e, d) \/ pc'[e] = "load"
<1>0. d \in ready' /\ d \notin overlapped' /\ Extracting(e, d)' /\ (e = worker \/ Quiet(d)')
  BY DEF Watched
<1>1. CASE e = worker
  <2>1. ~ Finish(d)
    BY <1>0, <1>1, Groups DEF Finish, Goto, Extracting, ThreadsOK
  <2>2. d \in ready \ overlapped /\ ~ Rechunk(d)
    BY <1>0, <2>1, LibrarySteps, PlaceSteps
  <2> QED  BY <1>0, <1>1, <2>2, ExtractingSteps DEF Watched
<1>2. CASE e # worker
  <2>1. d \in ready \ overlapped /\ ~ Rechunk(d) /\ (Quiet(d) \/ (End /\ std[worker] = d))
    BY <1>0, <1>2, QuietSteps
  <2>2. ASSUME End, std[worker] = d, Extracting(e, d)
        PROVE  FALSE
    <3>1. Extracting(worker, d) /\ worker \in Extractors
      BY <2>2 DEF End, At, Extracting, Extractors
    <3> QED  BY <1>2, <2>1, <2>2, <3>1 DEF Alone
  <2> QED  BY <1>0, <2>1, <2>2, ExtractingSteps DEF Watched
<1> QED  BY <1>1, <1>2

-----------------------------------------------------------------------------
(* What the steps of an extraction that is watched come to.                *)

LEMMA WriteKeeps ==
  ASSUME TypeOK, NEW e \in Extractors, NEW c \in read[e], Write(e, c), NEW d \in Standards,
         std[e] = d, c \in chunks[d]
  PROVE  /\ \A t : HasRow(d, t) => HasRow(d, t)'
         /\ HasRow(d, c[1])'
         /\ \A i \in Rows : InText(d, i) => InText(d, i)'
         /\ \A i \in Rows : row[i].is # "none" => row'[i] = row[i]
         /\ \A i \in Rows : row'[i] = row[i] \/ InText(d, i)'
<1>0. row \in [Rows -> ROW] /\ UNCHANGED <<chunks, settled>>
  BY Groups DEF LibraryOK, Write, histVars
<1>1. made + 1 \in Rows /\ row[made + 1].is = "none"
  BY Groups, RequirementsAssumption DEF Write, LibraryOK, Rows
<1> DEFINE new == [std |-> d, text |-> c[1], chunk |-> c, by |-> "nobody",
                   method |-> "extracted", is |-> "current"]
<1>2. row' = [row EXCEPT ![made + 1] = new]
  BY DEF Write
<1>3. new.std = d /\ new.text = c[1] /\ new.is = "current"
  OBVIOUS
<1> HIDE DEF new
<1>4. row'[made + 1] = new /\ \A i \in Rows : i # made + 1 => row'[i] = row[i]
  BY <1>0, <1>1, <1>2
<1>5. \A i \in Rows : row[i].is # "none" => row'[i] = row[i]
  BY <1>1, <1>4
<1>6. \A t : HasRow(d, t) => HasRow(d, t)'
  BY <1>0, <1>5 DEF HasRow
<1>7. HasRow(d, c[1])'
  BY <1>1, <1>3, <1>4 DEF HasRow
<1>8. ASSUME NEW i \in Rows, i = made + 1
      PROVE  InText(d, i)'
  BY <1>0, <1>3, <1>4, <1>8 DEF InText
<1>9. \A i \in Rows : row'[i] = row[i] \/ InText(d, i)'
  BY <1>4, <1>8
<1>10. \A i \in Rows : InText(d, i) => InText(d, i)'
  BY <1>0, <1>9 DEF InText
<1> QED  BY <1>5, <1>6, <1>7, <1>9, <1>10

\* The end of an extraction leaves the rows of the text, and no other.
LEMMA SupersedeKeeps ==
  ASSUME TypeOK, NEW e \in Extractors, NEW d \in Standards, std[e] = d, Supersede(e), Progress(e, d),
         MachineWords
  PROVE  Complete(d)' /\ NothingLeft(d)'
<1> DEFINE gone == {k[2] : k \in known[e]} \cap Supersedable(d)
<1>0. /\ row \in [Rows -> ROW] /\ UNCHANGED <<chunks, settled>> /\ read[e] = {} /\ At(e, "write")
      /\ \A i \in Rows : row[i] \in ROW
  BY Groups DEF LibraryOK, Supersede, histVars
<1>1. \A i \in Rows : row'[i] = IF i \in gone /\ row[i].is = "current"
                                THEN [row[i] EXCEPT !.is = "superseded"] ELSE row[i]
  BY DEF Supersede, Supersedable, Current
<1>2. /\ Remembers(e, d) /\ SoFar(e, d)
      /\ \A k \in known[e], c \in chunks[d] : k[1] # c[1]
  BY <1>0 DEF Progress, At
<1>3. ASSUME NEW c \in chunks[d]
      PROVE  HasRow(d, c[1])'
  <2>1. CASE <<d, c[1]>> \in settled
    BY <1>0, <2>1 DEF HasRow
  <2>2. ASSUME NEW i \in Rows, row[i].std = d, row[i].is = "current", row[i].text = c[1]
        PROVE  HasRow(d, c[1])'
    <3>1. ASSUME i \in gone
          PROVE  FALSE
      <4>1. PICK k \in known[e] : k[2] = i
        BY <3>1
      <4>2. row[k[2]].text \in {k[1], Corrected}
        BY <1>2 DEF Remembers
      <4>3. c[1] # Corrected
        BY Groups, RequirementsAssumption DEF LibraryOK, Chunks
      <4> QED  BY <1>2, <2>2, <4>1, <4>2, <4>3
    <3> QED  BY <1>1, <2>2, <3>1 DEF HasRow
  <2>3. HasRow(d, c[1])
    BY <1>0, <1>2 DEF SoFar
  <2> QED  BY <2>1, <2>2, <2>3 DEF HasRow
<1>4. ASSUME NEW i \in Rows
      PROVE  InText(d, i)'
  <2> SUFFICES ASSUME ~ InText(d, i)' PROVE FALSE
    OBVIOUS
  <2>1. row'[i].std = d /\ row'[i].is = "current" /\ row'[i].method = "extracted"
        /\ ~ \E c \in chunks'[d] : row'[i].text = c[1]
    BY DEF InText
  <2>2. i \notin gone /\ row'[i] = row[i]
    BY <1>0, <1>1, <2>1 DEF ROW, Supersedable, Current
  <2>3. ~ InText(d, i) /\ i \in Supersedable(d)
    BY <1>0, <2>1, <2>2 DEF InText, MachineWords, Supersedable, Current
  <2>4. <<row[i].text, i>> \in known[e]
    BY <1>2, <2>3 DEF Remembers
  <2> QED  BY <2>2, <2>3, <2>4
<1> QED  BY <1>0, <1>3, <1>4 DEF Complete, NothingLeft

\* What is true of a quiet standard stays true while others extract it.
LEMMA QuietNext ==
  ASSUME Inv, TextInv, [Next]_vars, NEW d \in Standards, Quiet(d)'
  PROVE  Complete(d)' /\ NothingLeft(d)'
<1> USE DEF Inv
<1>0. d \in ready \ overlapped /\ ~ Rechunk(d) /\ (Quiet(d) \/ (End /\ std[worker] = d))
  BY QuietSteps
<1>1. CASE End /\ std[worker] = d
  <2>1. worker \in Extractors /\ At(worker, "end") /\ UNCHANGED <<chunks, row, settled>>
    BY <1>1 DEF End, Extractors, libraryVars, histVars
  <2>2. Watched(worker, d)
    BY <1>0, <1>1, <2>1 DEF Watched, Extracting, At
  <2>3. Complete(d) /\ NothingLeft(d)
    BY <2>1, <2>2 DEF TextInv, Progress
  <2> QED  BY <2>1, <2>3 DEF Complete, NothingLeft, HasRow, InText
<1>2. CASE Quiet(d)
  <2>0. Complete(d) /\ NothingLeft(d)
    BY <1>2 DEF TextInv
  <2>1. ASSUME NEW e \in Extractors, std[e] = d, At(e, "write")
        PROVE  Progress(e, d)
    BY <1>0, <1>2, <2>1 DEF TextInv, Watched, Extracting, At
  <2>2. ASSUME NEW e \in Extractors, std[e] = d, Supersede(e)
        PROVE  Complete(d)' /\ NothingLeft(d)'
    BY <2>1, <2>2, SupersedeKeeps DEF Supersede, TextInv
  <2>3. ASSUME NEW e \in Extractors, std[e] = d, NEW c \in read[e], Write(e, c)
        PROVE  Complete(d)' /\ NothingLeft(d)'
    <3>1. c \in chunks[d] /\ chunks' = chunks
      BY <2>1, <2>3 DEF Write, Done, Progress
    <3> QED  BY <2>0, <2>3, <3>1, WriteKeeps DEF Complete, NothingLeft
  <2>4. CASE ~ \E e \in Extractors : std[e] = d /\ (Supersede(e) \/ \E c \in read[e] : Write(e, c))
    BY <1>0, <2>0, <2>4, RowsKeptSteps, WholeKept
  <2> QED  BY <2>2, <2>3, <2>4
<1> QED  BY <1>0, <1>1, <1>2

-----------------------------------------------------------------------------
(* An extraction goes on as far as is known of it.                         *)

LEMMA MatchRemembers ==
  ASSUME Inv, MachineWords, NEW d \in Standards \ overlapped, NEW e \in Extractors,
         std[e] = d, Match(e)
  PROVE  Remembers(e, d)'
<1> USE DEF Inv
<1>0. row' = row /\ settled' = settled /\ chunks' = chunks
      /\ known'[e] = {<<row[i].text, i>> : i \in Reproducible(d)}
  BY Groups DEF Match, libraryVars, histVars, ThreadsOK
<1>1. \A i \in Reproducible(d) :
        /\ i \in Rows /\ row[i].std = d /\ row[i].is = "current"
        /\ \A j \in Reproducible(d) : row[j].text = row[i].text => i = j
  BY DEF Reproducible, Supersedable, Current, Rows
<1>2. ASSUME NEW i \in Rows, row[i].std = d, row[i].is = "current", row[i].method = "extracted"
      PROVE  i \in Reproducible(d)
  <2>1. row[i].text # Corrected /\ row[i].by = "nobody"
    BY <1>2, RequirementsAssumption DEF MachineWords
  <2>2. \A j \in Supersedable(d) : row[j].text = row[i].text => i = j
    BY <1>2, <2>1 DEF OneRowPerSentence, Supersedable, Current
  <2>3. i \in Supersedable(d)
    BY <1>2, <2>1 DEF Supersedable, Current
  <2>4. \A j \in Supersedable(d) : row[j].text = row[i].text => i <= j
    BY <2>2 DEF Rows
  <2> QED  BY <2>3, <2>4 DEF Reproducible
<1>3. \A k, l \in known'[e] : k[1] = l[1] => k = l
  BY <1>0, <1>1
<1>4. ASSUME NEW k \in known'[e]
      PROVE  /\ k[2] \in Rows /\ row'[k[2]].is # "none" /\ row'[k[2]].std = d
             /\ row'[k[2]].is = "current" /\ row'[k[2]].text = k[1]
  <2>1. PICK i \in Reproducible(d) : k = <<row[i].text, i>>
    BY <1>0, <1>4
  <2>2. k[2] = i /\ k[1] = row[i].text
    BY <2>1
  <2> QED  BY <1>0, <1>1, <2>1, <2>2
<1>5. ASSUME NEW i \in Rows, ~ InText(d, i)'
      PROVE  <<row'[i].text, i>> \in known'[e]
  BY <1>0, <1>2, <1>5 DEF InText
<1> QED  BY <1>3, <1>4, <1>5 DEF Remembers

LEMMA WriteProgress ==
  ASSUME TypeOK, NEW d \in Standards, NEW e \in Extractors, std[e] = d, Progress(e, d),
         NEW c \in read[e], Write(e, c)
  PROVE  Progress(e, d)'
<1>0. /\ pc'[e] = "write" /\ At(e, "write") /\ UNCHANGED <<chunks, settled, known, seen>>
      /\ read'[e] = read[e] \ {c}
  BY Groups DEF Write, Done, At, ThreadsOK, histVars
<1>1. /\ Remembers(e, d) /\ read[e] \subseteq chunks[d] /\ SoFar(e, d)
      /\ \A t \in seen[e] : t = Corrected \/ HasRow(d, t)
      /\ \A k \in known[e] : k[1] \notin seen[e]
      /\ \A k \in known[e], a \in chunks[d] : k[1] = a[1] => a \in read[e]
  BY <1>0 DEF Progress, At
<1>2. c \in chunks[d]
  BY <1>1
<1>3. Remembers(e, d)'
  <2>1. ASSUME NEW k \in known[e]
        PROVE  /\ k[2] \in Rows /\ row'[k[2]].is # "none" /\ row'[k[2]].std = d
               /\ \/ <<d, k[1]>> \in settled'
                  \/ row'[k[2]].is = "current" /\ row'[k[2]].text = k[1]
               /\ row'[k[2]].text \in {k[1], Corrected}
    BY <1>0, <1>1, <1>2, <2>1, WriteKeeps DEF Remembers
  <2>2. ASSUME NEW i \in Rows, ~ InText(d, i)'
        PROVE  <<row'[i].text, i>> \in known'[e]
    BY <1>0, <1>1, <1>2, <2>2, WriteKeeps DEF Remembers
  <2>3. \A k, l \in known'[e] : k[1] = l[1] => k = l
    BY <1>0, <1>1 DEF Remembers
  <2> QED  BY <1>0, <2>1, <2>2, <2>3 DEF Remembers
<1>4. SoFar(e, d)' /\ \A t \in seen'[e] : t = Corrected \/ HasRow(d, t)'
  BY <1>0, <1>1, <1>2, WriteKeeps DEF SoFar
<1>5. \A k \in known'[e], a \in chunks'[d] : k[1] = a[1] => a \in read'[e]
  BY <1>0, <1>1 DEF Write, Keys
<1> QED  BY <1>0, <1>1, <1>3, <1>4, <1>5 DEF Progress, At

LEMMA AgainProgress ==
  ASSUME TypeOK, NEW d \in Standards, NEW e \in Extractors, std[e] = d, Progress(e, d),
         NEW c \in read[e], NEW j \in Rows, Again(e, c, j)
  PROVE  Progress(e, d)'
<1>0. /\ pc'[e] = "write" /\ At(e, "write") /\ UNCHANGED <<chunks, settled, seen>>
      /\ read'[e] = read[e] \ {c} /\ known'[e] = known[e] \ {<<c[1], j>>} /\ <<c[1], j>> \in known[e]
  BY Groups DEF Again, Done, At, ThreadsOK, histVars
<1>1. /\ Remembers(e, d) /\ read[e] \subseteq chunks[d] /\ SoFar(e, d)
      /\ \A t \in seen[e] : t = Corrected \/ HasRow(d, t)
      /\ \A k \in known[e] : k[1] \notin seen[e]
      /\ \A k \in known[e], a \in chunks[d] : k[1] = a[1] => a \in read[e]
  BY <1>0 DEF Progress, At
<1>2. RowsKept(d)
  BY AgainRows
<1>3. Remembers(e, d)'
  <2>1. ASSUME NEW k \in known[e]
        PROVE  /\ k[2] \in Rows /\ row'[k[2]].is # "none" /\ row'[k[2]].std = d
               /\ \/ <<d, k[1]>> \in settled'
                  \/ row'[k[2]].is = "current" /\ row'[k[2]].text = k[1]
               /\ row'[k[2]].text \in {k[1], Corrected}
    <3> DEFINE i == k[2]
    <3>1. /\ i \in Rows /\ row[i].is # "none" /\ row[i].std = d
          /\ <<d, k[1]>> \in settled \/ (row[i].is = "current" /\ row[i].text = k[1])
          /\ row[i].text \in {k[1], Corrected}
      BY <1>1, <2>1 DEF Remembers
    <3> HIDE DEF i
    <3>2. /\ i \in Rows /\ row'[i].is # "none" /\ row'[i].std = d
          /\ <<d, k[1]>> \in settled' \/ (row'[i].is = "current" /\ row'[i].text = k[1])
          /\ row'[i].text \in {k[1], Corrected}
      BY <1>2, <3>1 DEF RowsKept
    <3> QED  BY <3>2 DEF i
  <2>2. ASSUME NEW i \in Rows, ~ InText(d, i)'
        PROVE  <<row'[i].text, i>> \in known'[e]
    <3>1. ~ InText(d, i) /\ <<row[i].text, i>> \in known[e]
      BY <1>1, <1>2, <2>2, InTextKept DEF Remembers
    <3>2. row[i].is # "none" /\ row'[i].text = row[i].text
      BY <1>2, <2>2, <3>1 DEF InText, RowsKept
    <3>3. <<row[i].text, i>> # <<c[1], j>>
      BY <1>0, <1>1, <2>2, <3>2 DEF InText
    <3> QED  BY <1>0, <3>1, <3>2, <3>3
  <2>3. \A k, l \in known'[e] : k[1] = l[1] => k = l
    BY <1>0, <1>1 DEF Remembers
  <2> QED  BY <1>0, <2>1, <2>2, <2>3 DEF Remembers
<1>4. HasRow(d, c[1])
  <2> DEFINE k == <<c[1], j>>
  <2>1. k \in known[e] /\ k[1] = c[1] /\ k[2] = j
    BY <1>0
  <2> HIDE DEF k
  <2> QED  BY <1>1, <2>1 DEF Remembers, HasRow
<1>5. SoFar(e, d)' /\ \A t \in seen'[e] : t = Corrected \/ HasRow(d, t)'
  BY <1>0, <1>1, <1>2, <1>4, HasRowKept DEF SoFar
<1>6. \A k \in known'[e], a \in chunks'[d] : k[1] = a[1] => a \in read'[e]
  <2>1. ASSUME NEW k \in known'[e], k[1] = c[1]
        PROVE  FALSE
    <3> DEFINE l == <<c[1], j>>
    <3>1. k \in known[e] /\ l \in known[e] /\ l[1] = k[1] /\ k # l
      BY <1>0, <2>1
    <3> HIDE DEF l
    <3> QED  BY <1>1, <3>1 DEF Remembers
  <2> QED  BY <1>0, <1>1, <2>1
<1> QED  BY <1>0, <1>1, <1>3, <1>5, <1>6 DEF Progress, At

LEMMA ProgressNext ==
  ASSUME Inv, TextInv, [Next]_vars, NEW e \in Extractors, NEW d \in Standards, Watched(e, d)'
  PROVE  Progress(e, d)'
<1> USE DEF Inv
<1>0. /\ d \in ready \ overlapped /\ ~ Rechunk(d) /\ (Watched(e, d) \/ pc'[e] = "load")
      /\ pc'[e] \notin {"idle", "hook"} /\ std'[e] = d
  BY WatchedSteps DEF Watched, Extracting
<1>1. CASE pc'[e] = "load"
  BY <1>1 DEF Progress, At
<1>2. ASSUME Watched(e, d), pc'[e] # "load"
      PROVE  Progress(e, d)'
  <2>0. Progress(e, d) /\ Extracting(e, d) /\ std[e] = d
    BY <1>2 DEF TextInv, Watched, Extracting
  <2>1. CASE SameHand(e)
    <3>1. ASSUME NEW f \in Extractors, std[f] = d, Supersede(f) \/ \E c \in read[f] : Write(f, c)
          PROVE  FALSE
      <4>1. Extracting(f, d)
        BY <3>1 DEF Supersede, Write, Done, At, Extracting
      <4>2. f = e
        BY <1>0, <2>0, <4>1 DEF Alone
      <4>3. CASE Supersede(e)
        BY <1>0, <2>1, <4>3, Groups DEF Supersede, Leave, Goto, At, SameHand, ThreadsOK
      <4>4. ASSUME NEW c \in read[e], Write(e, c)
            PROVE  FALSE
        BY <2>1, <4>4, Groups DEF Write, Done, SameHand, ThreadsOK
      <4> QED  BY <3>1, <4>2, <4>3, <4>4
    <3>2. RowsKept(d)
      BY <1>0, <3>1, RowsKeptSteps
    <3> QED  BY <2>0, <2>1, <3>2, ProgressKept
  <2>2. CASE Load(e)
    <3>1. pc'[e] = "match" /\ read'[e] = chunks[d] /\ chunks' = chunks
      BY <2>0, <2>2, Groups DEF Load, Goto, ThreadsOK, libraryVars
    <3> QED  BY <3>1 DEF Progress, At
  <2>3. CASE Match(e)
    <3>1. pc'[e] = "seed" /\ read'[e] = read[e] /\ chunks' = chunks /\ read[e] = chunks[d]
      BY <2>0, <2>3, Groups DEF Match, Goto, At, ThreadsOK, libraryVars, Progress
    <3>2. Remembers(e, d)'
      BY <1>0, <2>0, <2>3, MatchRemembers DEF TextInv
    <3> QED  BY <3>1, <3>2 DEF Progress, At
  <2>4. CASE Seed(e)
    <3>1. /\ pc'[e] = "write" /\ UNCHANGED <<chunks, row, settled, read, known>>
          /\ seen'[e] = {row[i].text : i \in Current(d)} \ {k[1] : k \in known[e]}
          /\ read[e] = chunks[d] /\ Remembers(e, d)
      BY <2>0, <2>4, Groups DEF Seed, Goto, At, ThreadsOK, libraryVars, histVars, Progress
    <3>2. Remembers(e, d)'
      BY <3>1 DEF Remembers, InText
    <3>3. \A t \in seen'[e] : HasRow(d, t)'
      BY <3>1 DEF HasRow, Current
    <3>4. \A k \in known'[e] : k[1] \notin seen'[e]
      BY <3>1
    <3> QED  BY <3>1, <3>2, <3>3, <3>4 DEF Progress, At, SoFar
  <2>5. CASE Supersede(e)
    <3>1. pc'[e] = "end"
      BY <1>0, <2>5, Groups DEF Supersede, Leave, Goto, ThreadsOK
    <3> QED  BY <2>0, <2>5, <3>1, SupersedeKeeps DEF Progress, At, TextInv
  <2>6. ASSUME NEW c \in read[e], Skip(e, c)
        PROVE  Progress(e, d)'
    <3>1. /\ pc'[e] = "write" /\ At(e, "write") /\ UNCHANGED <<chunks, row, settled, known, seen>>
          /\ read'[e] = read[e] \ {c} /\ c[1] \in seen[e] /\ c[1] # Corrected
      BY <2>6, Groups, RequirementsAssumption
      DEF Skip, Done, At, ThreadsOK, libraryVars, histVars, Chunks
    <3>2. /\ Remembers(e, d) /\ read[e] \subseteq chunks[d] /\ SoFar(e, d)
          /\ \A t \in seen[e] : t = Corrected \/ HasRow(d, t)
          /\ \A k \in known[e] : k[1] \notin seen[e]
          /\ \A k \in known[e], a \in chunks[d] : k[1] = a[1] => a \in read[e]
      BY <2>0, <3>1 DEF Progress, At
    <3>3. Remembers(e, d)'
      BY <3>1, <3>2 DEF Remembers, InText
    <3>4. \A t : HasRow(d, t) => HasRow(d, t)'
      BY <3>1 DEF HasRow
    <3>5. SoFar(e, d)' /\ \A t \in seen'[e] : t = Corrected \/ HasRow(d, t)'
      BY <3>1, <3>2, <3>4 DEF SoFar
    <3>6. \A k \in known'[e], a \in chunks'[d] : k[1] = a[1] => a \in read'[e]
      BY <3>1, <3>2
    <3> QED  BY <3>1, <3>2, <3>3, <3>5, <3>6 DEF Progress, At
  <2>7. ASSUME NEW c \in read[e], Write(e, c)
        PROVE  Progress(e, d)'
    BY <2>0, <2>7, WriteProgress
  <2>8. ASSUME NEW c \in read[e], NEW i \in Rows, Again(e, c, i)
        PROVE  Progress(e, d)'
    BY <2>0, <2>8, AgainProgress
  <2> QED  BY <1>0, <1>2, <2>1, <2>2, <2>3, <2>4, <2>5, <2>6, <2>7, <2>8, HandSteps
<1> QED  BY <1>0, <1>1, <1>2

LEMMA TextInvInit == Init => TextInv
<1> SUFFICES ASSUME Init PROVE TextInv
  OBVIOUS
<1>1. MachineWords
  BY DEF Init, NoRow, MachineWords
<1>2. UnderWay
  BY DEF Init, Idle, Extractors, UnderWay, Extracting
<1>3. \A d \in Standards : ~ Quiet(d) /\ \A e \in Extractors : ~ Watched(e, d)
  BY DEF Init, Quiet, Watched
<1> QED  BY <1>1, <1>2, <1>3 DEF TextInv

LEMMA TextInvNext == Inv /\ TextInv /\ [Next]_vars => TextInv'
<1> SUFFICES ASSUME Inv, TextInv, [Next]_vars PROVE TextInv'
  OBVIOUS
<1>1. MachineWords' /\ UnderWay'
  BY MachineWordsNext, UnderWayNext DEF Inv, TextInv
<1>2. \A d \in Standards : Quiet(d)' => Complete(d)' /\ NothingLeft(d)'
  BY QuietNext
<1>3. \A e \in Extractors, d \in Standards : Watched(e, d)' => Progress(e, d)'
  BY ProgressNext
<1> QED  BY <1>1, <1>2, <1>3 DEF TextInv

\* When the last job of a ready standard is done, its requirements are those of
\* the text it has now, for any standards, sentences, callers, re-chunks,
\* decisions, failures and crashes, unless two extractions of it overlapped or
\* a crash came between the last stage and the queue: none is missing unless a
\* person has settled it, and none that nobody has decided on is left from a
\* text before (run_extraction_job, extract_requirements, chunk_document and
\* _queue_extraction_if_standard together).
THEOREM DoneMeansRead == Spec => []TextIsRead
<1>1. Init => Inv /\ TextInv
  BY InvInit, TextInvInit
<1>2. Inv /\ TextInv /\ [Next]_vars => (Inv /\ TextInv)'
  BY InvNext, TextInvNext
<1>3. TextInv => TextIsRead
  <2> SUFFICES ASSUME TextInv, NEW d \in Standards, Finished(d)
               PROVE  /\ \A c \in chunks[d] : \/ <<d, c[1]>> \in settled
                                              \/ \E i \in Current(d) : row[i].text = c[1]
                      /\ \A i \in Current(d) : row[i].method = "extracted" =>
                           \E c \in chunks[d] : row[i].text = c[1]
    BY DEF TextIsRead
  <2>1. Quiet(d)
    BY DEF Finished, Quiet, Extractors
  <2>2. Complete(d) /\ NothingLeft(d)
    BY <2>1 DEF TextInv
  <2> QED  BY <2>2 DEF Complete, HasRow, NothingLeft, InText, Current
<1> QED  BY <1>1, <1>2, <1>3, PTL DEF Spec
=============================================================================
