---------------------------- MODULE ArrivalProofs ----------------------------
(***************************************************************************)
(* Proofs about the arrival and the deletion of documents, for any uploads,*)
(* watched files and contents, and any number of deletions and crashes.    *)
(*                                                                         *)
(* A document comes from a thread that has stored its file, and goes from  *)
(* that thread's hands with its grant: so what is to be shown of documents *)
(* is shown together with what their threads still hold.                   *)
(***************************************************************************)
EXTENDS Arrival, TLAPS

PCs == {"idle", "find", "store", "insert", "lost", "grant", "hash", "known", "read", "event"}

Versions == [file : Files, version : 0..MaxVersions]
Visits == [file : Files, version : 0..MaxVersions, sha : Contents \cup {NoContent}, dup : BOOLEAN]

\* Where the watcher is once it has hashed its file, and has not decided.
Hashed == {"known", "read", "find", "store", "insert", "lost"}

\* A thread between its reading and its answer has a content, and a watcher
\* that is not idle a file, and its hash.
ThreadsOK ==
  /\ \A t \in Threads : pc[t] \in {"find", "store", "insert", "lost", "grant", "known"} =>
                          content[t] \in Contents
  /\ pc[watcher] # "idle" => at \in Visits
  /\ pc[watcher] \in Hashed \/ (pc[watcher] # "idle" /\ at.dup) => at.sha \in Contents

\* What a thread is about to insert has its file, unless a deletion took it.
StoredOK == \A t \in Threads : pc[t] = "insert" => content[t] \in stored \cup cut

Types == TypeOK /\ ThreadsOK

Inv == Types /\ StoredOK /\ FileKept /\ VisibleToSomebody

LEMMA WatcherIsThread == watcher \in Threads /\ Uploads \subseteq Threads
  BY DEF Threads

-----------------------------------------------------------------------------
(* ingest, by any thread. *)

\* Who holds a grant to give keeps it until it is given.
LEMMA StaysVisible ==
  ASSUME VisibleToSomebody,
         documents' \ (granted' \cup orphaned') \subseteq documents \ (granted \cup orphaned),
         \A t \in Threads :
           pc[t] = "grant" /\ content[t] \in documents' \ (granted' \cup orphaned') =>
             pc'[t] = "grant" /\ content'[t] = content[t]
  PROVE  VisibleToSomebody'
  BY DEF VisibleToSomebody

\* A thread goes to a place that is neither of those before a transaction.
LEMMA MovesOn ==
  ASSUME Inv, NEW t \in Threads, NEW l \in PCs \ {"insert", "grant"},
         pc' = [pc EXCEPT ![t] = l], pc[t] # "grant",
         content' = content \/ \E c \in Contents \cup {NoContent} : content' = [content EXCEPT ![t] = c],
         UNCHANGED <<documents, granted, stored, orphaned, cut>>
  PROVE  StoredOK' /\ FileKept' /\ VisibleToSomebody'
<1>1. pc \in [Threads -> PCs] /\ content \in [Threads -> Contents \cup {NoContent}]
  BY DEF Inv, Types, TypeOK, PCs
<1>2. \A s \in Threads \ {t} : pc'[s] = pc[s] /\ content'[s] = content[s]
  BY <1>1
<1>3. pc'[t] = l
  BY <1>1
<1>4. StoredOK'
  BY <1>2, <1>3 DEF Inv, StoredOK
<1>5. FileKept'
  BY DEF Inv, FileKept
<1>6. VisibleToSomebody'
  BY <1>2, StaysVisible DEF Inv
<1> QED  BY <1>4, <1>5, <1>6

LEMMA AnswerTypes ==
  ASSUME Types, NEW t \in Threads, Answer(t)
  PROVE  /\ pc' \in [Threads -> PCs] /\ content' \in [Threads -> Contents \cup {NoContent}]
         /\ \A s \in Threads \ {t} : pc'[s] = pc[s] /\ content'[s] = content[s]
         /\ pc'[t] = IF t = watcher THEN "event" ELSE "idle"
         /\ \E l \in {"event", "idle"} : pc' = [pc EXCEPT ![t] = l]
         /\ content' = content \/ content' = [content EXCEPT ![t] = NoContent]
<1>1. pc \in [Threads -> PCs] /\ content \in [Threads -> Contents \cup {NoContent}]
  BY DEF Types, TypeOK, PCs
<1>2. CASE t = watcher
  BY <1>1, <1>2 DEF Answer, Goto, Holds, PCs
<1>3. CASE t # watcher
  BY <1>1, <1>3 DEF Answer, Goto, Holds, PCs
<1> QED  BY <1>2, <1>3

LEMMA AnswerThreads ==
  ASSUME Types, NEW t \in Threads, Answer(t), pc[t] # "idle",
         at' = at \/ (t = watcher /\ at' \in Visits /\ at'.sha \in Contents)
  PROVE  ThreadsOK'
<1>1. /\ \A s \in Threads \ {t} : pc'[s] = pc[s] /\ content'[s] = content[s]
      /\ pc'[t] = IF t = watcher THEN "event" ELSE "idle"
  BY AnswerTypes
<1>2. ASSUME NEW s \in Threads, pc'[s] \in {"find", "store", "insert", "lost", "grant", "known"}
      PROVE  content'[s] \in Contents
  BY <1>1, <1>2 DEF Types, ThreadsOK
<1>3. pc'[watcher] # "idle" => at' \in Visits
  BY <1>1, WatcherIsThread DEF Types, ThreadsOK
<1>4. pc'[watcher] \in Hashed \/ (pc'[watcher] # "idle" /\ at'.dup) => at'.sha \in Contents
  BY <1>1, WatcherIsThread DEF Types, ThreadsOK, Hashed
<1> QED  BY <1>2, <1>3, <1>4 DEF ThreadsOK, Visits, Hashed

\* The watcher has the hash of what it meets.
LEMMA AnnounceTypes ==
  ASSUME Types, NEW t \in Threads, pc[t] \in {"find", "lost", "known"}, Announce(t)
  PROVE  /\ announced' \subseteq Contents
         /\ at' = at \/ (t = watcher /\ at' \in Visits /\ at'.sha \in Contents)
<1>1. CASE t = watcher
  <2>1. at \in Visits /\ at.sha \in Contents
    BY <1>1 DEF Types, ThreadsOK, Hashed
  <2>2. announced' = announced \cup {at.sha} /\ at' = [at EXCEPT !.dup = TRUE]
    BY <1>1 DEF Announce
  <2>3. announced' \subseteq Contents
    BY <2>1, <2>2 DEF Types, TypeOK
  <2>4. at' \in Visits /\ at'.sha = at.sha
    BY <2>1, <2>2 DEF Visits
  <2> QED  BY <1>1, <2>1, <2>3, <2>4
<1>2. CASE t # watcher
  BY <1>2 DEF Announce, Types, TypeOK
<1> QED  BY <1>1, <1>2

LEMMA FindStep ==
  ASSUME Inv, NEW t \in Threads, Find(t)
  PROVE  Inv'
<1>1. UNCHANGED <<docVars, folder, seen, handled, failures, events, histVars, boundVars>>
  BY DEF Find
<1>2. pc[t] = "find" /\ content[t] \in Contents
  BY DEF Find, Inv, Types, ThreadsOK
<1>3. CASE Answer(t) /\ Announce(t)
  <2>1. Types'
    <3>1. pc' \in [Threads -> PCs] /\ content' \in [Threads -> Contents \cup {NoContent}]
      BY <1>3, AnswerTypes DEF Inv
    <3>2. /\ announced' \subseteq Contents
          /\ at' = at \/ (t = watcher /\ at' \in Visits /\ at'.sha \in Contents)
      BY <1>2, <1>3, AnnounceTypes DEF Inv
    <3>3. TypeOK'
      BY <1>1, <3>1, <3>2 DEF Inv, Types, TypeOK, docVars, histVars, PCs
    <3>4. ThreadsOK'
      BY <1>2, <1>3, <3>2, AnswerThreads DEF Inv
    <3> QED  BY <3>3, <3>4 DEF Types
  <2>2. StoredOK' /\ FileKept' /\ VisibleToSomebody'
    BY <1>1, <1>2, <1>3, AnswerTypes, MovesOn DEF docVars, histVars, PCs, Inv
  <2> QED  BY <2>1, <2>2 DEF Inv
<1>4. CASE Goto(t, "store") /\ UNCHANGED <<content, announced, at>>
  <2>1. Types'
    BY <1>1, <1>2, <1>4 DEF Inv, Types, TypeOK, ThreadsOK, Goto, docVars, histVars, Hashed
  <2>2. StoredOK' /\ FileKept' /\ VisibleToSomebody'
    BY <1>1, <1>2, <1>4, MovesOn DEF docVars, histVars, PCs, Goto
  <2> QED  BY <2>1, <2>2 DEF Inv
<1> QED  BY <1>3, <1>4 DEF Find

LEMMA StoreStep ==
  ASSUME Inv, NEW t \in Threads, Store(t)
  PROVE  Inv'
<1> USE DEF Store, Goto, memoryVars, histVars
<1>1. content[t] \in Contents
  BY DEF Inv, Types, ThreadsOK
<1>2. Types'
  BY <1>1 DEF Inv, Types, TypeOK, ThreadsOK, Hashed
<1>3. StoredOK' /\ FileKept'
  BY DEF Inv, Types, TypeOK, StoredOK, FileKept
<1>4. VisibleToSomebody'
  BY StaysVisible DEF Inv, Types, TypeOK
<1> QED  BY <1>2, <1>3, <1>4 DEF Inv

LEMMA InsertStep ==
  ASSUME Inv, NEW t \in Threads, Insert(t)
  PROVE  Inv'
<1> USE DEF Goto, memoryVars, histVars
<1>1. content[t] \in Contents /\ pc[t] = "insert" /\ content[t] \in stored \cup cut
  BY DEF Insert, Inv, Types, ThreadsOK, StoredOK
<1>2. UNCHANGED <<granted, stored, erasing, folder, memoryVars, events, content, at, histVars>>
  BY DEF Insert
<1>3. CASE content[t] \in documents
  <2>1. pc' = [pc EXCEPT ![t] = "lost"] /\ UNCHANGED documents
    BY <1>3 DEF Insert
  <2>2. Types'
    BY <1>1, <1>2, <2>1 DEF Inv, Types, TypeOK, ThreadsOK, Hashed
  <2>3. StoredOK' /\ FileKept' /\ VisibleToSomebody'
    BY <1>1, <1>2, <2>1, MovesOn DEF PCs
  <2> QED  BY <2>2, <2>3 DEF Inv
<1>4. CASE content[t] \notin documents
  <2>1. pc' = [pc EXCEPT ![t] = "grant"] /\ documents' = documents \cup {content[t]}
    BY <1>4 DEF Insert
  <2>2. Types'
    BY <1>1, <1>2, <2>1 DEF Inv, Types, TypeOK, ThreadsOK, Hashed
  <2>3. StoredOK' /\ FileKept'
    BY <1>1, <1>2, <2>1 DEF Inv, Types, TypeOK, StoredOK, FileKept
  <2>4. pc'[t] = "grant" /\ \A s \in Threads : pc[s] = "grant" => pc'[s] = "grant"
    BY <2>1 DEF Inv, Types, TypeOK
  <2>5. VisibleToSomebody'
    BY <1>2, <2>1, <2>4 DEF Inv, VisibleToSomebody
  <2> QED  BY <2>2, <2>3, <2>5 DEF Inv
<1> QED  BY <1>3, <1>4

LEMMA LostStep ==
  ASSUME Inv, NEW t \in Threads, Lost(t)
  PROVE  Inv'
<1>1. UNCHANGED <<docVars, folder, seen, handled, failures, events, histVars>>
  BY DEF Lost
<1>2. pc[t] = "lost" /\ Answer(t)
  BY DEF Lost
<1>3. /\ announced' \subseteq Contents
      /\ at' = at \/ (t = watcher /\ at' \in Visits /\ at'.sha \in Contents)
  <2>1. CASE Announce(t)
    BY <1>2, <2>1, AnnounceTypes DEF Inv
  <2>2. CASE UNCHANGED <<announced, at>>
    BY <2>2 DEF Inv, Types, TypeOK
  <2> QED  BY <2>1, <2>2 DEF Lost
<1>4. Types'
  <2>1. pc' \in [Threads -> PCs] /\ content' \in [Threads -> Contents \cup {NoContent}]
    BY <1>2, AnswerTypes DEF Inv
  <2>2. TypeOK'
    BY <1>1, <1>3, <2>1 DEF Inv, Types, TypeOK, docVars, histVars, PCs
  <2>3. ThreadsOK'
    BY <1>2, <1>3, AnswerThreads DEF Inv
  <2> QED  BY <2>2, <2>3 DEF Types
<1>5. StoredOK' /\ FileKept' /\ VisibleToSomebody'
  BY <1>1, <1>2, AnswerTypes, MovesOn DEF docVars, histVars, PCs, Inv
<1> QED  BY <1>4, <1>5 DEF Inv

LEMMA GrantStep ==
  ASSUME Inv, NEW t \in Threads, Grant(t)
  PROVE  Inv'
<1> USE DEF memoryVars, histVars
<1>1. /\ pc[t] = "grant" /\ content[t] \in Contents /\ Answer(t)
      /\ granted' = granted \cup {content[t]}
      /\ UNCHANGED <<documents, stored, erasing, folder, memoryVars, events, at, histVars>>
  BY DEF Grant, Inv, Types, TypeOK, ThreadsOK
<1>2. Types'
  <2>1. pc' \in [Threads -> PCs] /\ content' \in [Threads -> Contents \cup {NoContent}]
    BY <1>1, AnswerTypes DEF Inv
  <2>2. TypeOK'
    BY <1>1, <2>1 DEF Inv, Types, TypeOK, PCs
  <2>3. ThreadsOK'
    BY <1>1, AnswerThreads DEF Inv
  <2> QED  BY <2>2, <2>3 DEF Types
<1>3. StoredOK' /\ FileKept'
  BY <1>1, AnswerTypes DEF Inv, StoredOK, FileKept
<1>4. VisibleToSomebody'
  BY <1>1, AnswerTypes, StaysVisible DEF Inv
<1> QED  BY <1>2, <1>3, <1>4 DEF Inv

\* What is written of the file the watcher is at.
LEMMA TellTypes ==
  ASSUME Types, pc[watcher] # "idle"
  PROVE  /\ Here \in Versions /\ (Tell => told' \subseteq Contents)
         /\ silent \cup {Here} \subseteq Versions /\ events \cup {Here} \subseteq Versions
<1>1. at \in Visits /\ (at.dup => at.sha \in Contents)
  BY DEF Types, ThreadsOK
<1>2. Here \in Versions
  BY <1>1 DEF Here, Visits, Versions
<1>3. Tell => told' \subseteq Contents
  BY <1>1 DEF Tell, Types, TypeOK
<1> QED  BY <1>2, <1>3 DEF Types, TypeOK, Versions

LEMMA GrantFailsStep ==
  ASSUME Inv, NEW t \in Threads, GrantFails(t)
  PROVE  Inv'
<1> USE DEF docVars, memoryVars
<1>1. /\ pc[t] = "grant" /\ content[t] \in Contents
      /\ pc' = [pc EXCEPT ![t] = "idle"] /\ content' = [content EXCEPT ![t] = NoContent]
      /\ UNCHANGED <<docVars, folder, memoryVars, events, cut>>
  BY DEF GrantFails, Silently, Goto, Holds, Inv, Types, ThreadsOK
<1>2. \/ content[t] \notin documents /\ orphaned' = orphaned
      \/ content[t] \in documents /\ orphaned' = orphaned \cup {content[t]}
  BY DEF GrantFails
<1>3. \/ t # watcher /\ UNCHANGED <<silent, told, at>>
      \/ t = watcher /\ silent' \subseteq Versions /\ told' \subseteq Contents /\ at' = Nowhere
  BY <1>1, TellTypes DEF GrantFails, Silently, Inv
<1>4. /\ pc'[t] = "idle" /\ \A s \in Threads \ {t} : pc'[s] = pc[s] /\ content'[s] = content[s]
      /\ pc' \in [Threads -> PCs] /\ content' \in [Threads -> Contents \cup {NoContent}]
  BY <1>1 DEF Inv, Types, TypeOK, PCs
<1>5. Types'
  BY <1>1, <1>2, <1>3, <1>4 DEF Inv, Types, TypeOK, ThreadsOK, PCs, Versions, Hashed
<1>6. StoredOK' /\ FileKept'
  BY <1>1, <1>4 DEF Inv, StoredOK, FileKept
<1>7. VisibleToSomebody'
  BY <1>1, <1>2, <1>4, StaysVisible DEF Inv
<1> QED  BY <1>5, <1>6, <1>7 DEF Inv

LEMMA IngestStep ==
  ASSUME Inv, NEW t \in Threads, ingest(t)
  PROVE  Inv'
  BY FindStep, StoreStep, InsertStep, LostStep, GrantStep, GrantFailsStep DEF ingest

-----------------------------------------------------------------------------
(* The watcher, the deletion and the world. *)

LEMMA NothingRead ==
  /\ 0 \in 0..MaxVersions
  /\ \A f \in Files : NoFailures[f] \in [version : 0..MaxVersions, reads : 0..READ_ATTEMPTS]
<1>1. MaxVersions \in Nat
  BY ArrivalAssumption
<1> QED  BY <1>1 DEF NoFailures, READ_ATTEMPTS

\* The watcher looks at a file.
LEMMA VisitStep ==
  ASSUME Inv, NEW f \in Files, Visit(f)
  PROVE  Inv'
<1>1. UNCHANGED <<docVars, folder, announced, events, content, histVars, boundVars>>
  BY DEF Visit
<1>2. /\ pc[watcher] = "idle"
      /\ \/ UNCHANGED <<pc, at>>
         \/ pc' = [pc EXCEPT ![watcher] = "hash"] /\ at' = File(f, folder[f].version)
  BY DEF Visit, Goto
<1>3. folder[f].version \in 0..MaxVersions
  BY DEF Inv, Types, TypeOK
<1>5. /\ seen' \in [Files -> 0..MaxVersions] /\ handled' \in [Files -> 0..MaxVersions]
      /\ failures' \in [Files -> [version : 0..MaxVersions, reads : 0..READ_ATTEMPTS]]
  BY <1>3, NothingRead DEF Visit, Inv, Types, TypeOK
<1>6. TypeOK'
  BY <1>1, <1>2, <1>5 DEF Inv, Types, TypeOK, docVars, histVars
<1>7. ThreadsOK'
  <2>1. CASE UNCHANGED <<pc, at>>
    BY <1>1, <2>1 DEF Inv, Types, ThreadsOK
  <2>2. CASE pc' = [pc EXCEPT ![watcher] = "hash"] /\ at' = File(f, folder[f].version)
    <3>1. pc'[watcher] = "hash" /\ \A t \in Threads \ {watcher} : pc'[t] = pc[t]
      BY <2>2, WatcherIsThread DEF Inv, Types, TypeOK
    <3>2. at' \in Visits /\ ~at'.dup
      BY <1>3, <2>2 DEF Visits, File
    <3>3. content' = content
      BY <1>1
    <3>4. \A t \in Threads : pc'[t] \in {"find", "store", "insert", "lost", "grant", "known"} =>
                               content'[t] \in Contents
      BY <3>1, <3>3 DEF Inv, Types, ThreadsOK
    <3> QED  BY <3>1, <3>2, <3>4 DEF ThreadsOK, Hashed
  <2> QED  BY <1>2, <2>1, <2>2
<1>8. StoredOK' /\ FileKept' /\ VisibleToSomebody'
  <2>1. CASE UNCHANGED pc
    BY <1>1, <2>1 DEF docVars, histVars, Inv, StoredOK, FileKept, VisibleToSomebody
  <2>2. CASE pc' = [pc EXCEPT ![watcher] = "hash"]
    BY <1>1, <1>2, <2>2, WatcherIsThread, MovesOn DEF docVars, histVars, PCs
  <2> QED  BY <1>2, <2>1, <2>2
<1> QED  BY <1>6, <1>7, <1>8 DEF Inv, Types

\* A step of the watcher that is none of an upload's.
LEMMA WatcherStep ==
  ASSUME Inv, NEW l \in PCs \ {"insert", "lost", "grant", "store"},
         pc[watcher] \notin {"idle", "grant"},
         pc' = [pc EXCEPT ![watcher] = l], NEW c \in Contents \cup {NoContent},
         \/ content' = content
         \/ content' = [content EXCEPT ![watcher] = c],
         l \in {"known", "find"} => c \in Contents /\ content' = [content EXCEPT ![watcher] = c],
         l = "idle" \/ (at' \in Visits /\ (l \in Hashed \/ at'.dup => at'.sha \in Contents)),
         UNCHANGED <<docVars, folder, orphaned, cut>>,
         seen' \in [Files -> 0..MaxVersions], handled' \in [Files -> 0..MaxVersions],
         failures' \in [Files -> [version : 0..MaxVersions, reads : 0..READ_ATTEMPTS]],
         announced' \subseteq Contents, events' \subseteq Versions, silent' \subseteq Versions,
         told' \subseteq Contents
  PROVE  Inv'
<1>1. /\ pc' \in [Threads -> PCs] /\ content' \in [Threads -> Contents \cup {NoContent}]
      /\ pc'[watcher] = l
      /\ \A s \in Threads \ {watcher} : pc'[s] = pc[s] /\ content'[s] = content[s]
      /\ l \in {"known", "find"} => content'[watcher] \in Contents
  BY WatcherIsThread DEF Inv, Types, TypeOK, PCs
<1>2. TypeOK'
  BY <1>1 DEF Inv, Types, TypeOK, docVars, PCs, Versions
<1>3. ThreadsOK'
  BY <1>1 DEF Inv, Types, ThreadsOK, Hashed
<1>4. StoredOK' /\ FileKept' /\ VisibleToSomebody'
  BY WatcherIsThread, MovesOn DEF docVars
<1> QED  BY <1>2, <1>3, <1>4 DEF Inv, Types

LEMMA HashStep ==
  ASSUME Inv, Hash
  PROVE  Inv'
<1>1. at.file \in Files /\ at.version \in 0..MaxVersions
  BY DEF Hash, Inv, Types, ThreadsOK, Visits
<1>2. folder[at.file].content \in Contents
  BY <1>1 DEF Hash, Inv, Types, TypeOK
<1>3. /\ handled' \in [Files -> 0..MaxVersions]
      /\ failures' \in [Files -> [version : 0..MaxVersions, reads : 0..READ_ATTEMPTS]]
  BY <1>1, NothingRead DEF Hash, Inv, Types, TypeOK
<1>4. "known" \in PCs \ {"insert", "lost", "grant", "store"}
  BY DEF PCs
<1>5. /\ seen' \in [Files -> 0..MaxVersions] /\ announced' \subseteq Contents
      /\ events' \subseteq Versions /\ silent' \subseteq Versions /\ told' \subseteq Contents
  BY DEF Hash, Inv, Types, TypeOK, Versions, histVars
<1>6. /\ pc[watcher] = "hash" /\ pc' = [pc EXCEPT ![watcher] = "known"]
      /\ content' = [content EXCEPT ![watcher] = folder[at.file].content]
      /\ UNCHANGED <<docVars, folder, orphaned, cut>>
  BY DEF Hash, Goto, Holds, histVars
<1>7. at' \in Visits /\ at'.sha \in Contents
  BY <1>2 DEF Hash, Inv, Types, ThreadsOK, Visits
<1> QED  BY <1>2, <1>3, <1>4, <1>5, <1>6, <1>7, WatcherStep

LEMMA HashFailsStep ==
  ASSUME Inv, HashFails
  PROVE  Inv'
<1> DEFINE f == at.file
           reads == IF failures[f].version = at.version THEN failures[f].reads + 1 ELSE 1
<1>1. f \in Files /\ at.version \in 0..MaxVersions
  BY DEF HashFails, Inv, Types, ThreadsOK, Visits
<1>2. reads < READ_ATTEMPTS => reads \in 0..READ_ATTEMPTS
  <2>1. failures[f] \in [version : 0..MaxVersions, reads : 0..READ_ATTEMPTS]
    BY <1>1 DEF Inv, Types, TypeOK
  <2>2. failures[f].reads \in 0..READ_ATTEMPTS
    BY <2>1
  <2>3. reads \in Nat
    BY <2>2 DEF READ_ATTEMPTS
  <2> HIDE DEF reads
  <2> QED  BY <2>3 DEF READ_ATTEMPTS
<1>3. /\ handled' \in [Files -> 0..MaxVersions]
      /\ failures' \in [Files -> [version : 0..MaxVersions, reads : 0..READ_ATTEMPTS]]
  <2>1. CASE reads < READ_ATTEMPTS
    <3>1. failures' = [failures EXCEPT ![f] = [version |-> at.version, reads |-> reads]]
      BY <2>1 DEF HashFails
    <3>2. [version |-> at.version, reads |-> reads]
            \in [version : 0..MaxVersions, reads : 0..READ_ATTEMPTS]
      BY <1>1, <1>2, <2>1
    <3>3. UNCHANGED handled
      BY <2>1 DEF HashFails
    <3> HIDE DEF f, reads
    <3> QED  BY <3>1, <3>2, <3>3 DEF Inv, Types, TypeOK
  <2>2. CASE ~(reads < READ_ATTEMPTS)
    BY <1>1, <2>2, NothingRead DEF HashFails, Inv, Types, TypeOK
  <2> QED  BY <2>1, <2>2
<1>4. PICK l \in {"idle", "event"} :
        pc' = [pc EXCEPT ![watcher] = l] /\ (UNCHANGED at \/ l = "idle")
  BY DEF HashFails, Goto
<1>5. l \in PCs \ {"insert", "lost", "grant", "store"} /\ l \notin {"known", "find"}
  BY DEF PCs
<1>6. /\ seen' \in [Files -> 0..MaxVersions] /\ announced' \subseteq Contents
      /\ events' \subseteq Versions /\ silent' \subseteq Versions /\ told' \subseteq Contents
  BY DEF HashFails, Inv, Types, TypeOK, Versions, histVars
<1>7. pc[watcher] = "hash" /\ content' = content /\ UNCHANGED <<docVars, folder, orphaned, cut>>
  BY DEF HashFails, histVars
<1>8. l = "idle" \/ (at' \in Visits /\ (l \in Hashed \/ at'.dup => at'.sha \in Contents))
  BY <1>4, <1>7 DEF Inv, Types, ThreadsOK, Hashed
<1> QED  BY <1>3, <1>4, <1>5, <1>6, <1>7, <1>8, WatcherStep

LEMMA KnownStep ==
  ASSUME Inv, Known
  PROVE  Inv'
<1>1. pc[watcher] = "known" /\ content[watcher] \in Contents
  BY WatcherIsThread DEF Known, Inv, Types, ThreadsOK
<1>2. PICK l \in {"idle", "event", "read"} :
        /\ pc' = [pc EXCEPT ![watcher] = l]
        /\ \/ l = "idle" /\ UNCHANGED announced
           \/ l = "event" /\ Announce(watcher)
           \/ UNCHANGED <<announced, at>>
        /\ content' = content \/ content' = [content EXCEPT ![watcher] = NoContent]
  BY DEF Known, Goto, Holds
<1>3. l \in PCs \ {"insert", "lost", "grant", "store"} /\ l \notin {"known", "find"}
  BY DEF PCs
<1>4. at \in Visits /\ at.sha \in Contents
  BY <1>1 DEF Inv, Types, ThreadsOK, Hashed
<1>5. announced' \subseteq Contents /\ (l = "idle" \/ (at' \in Visits /\ at'.sha \in Contents))
  <2>1. CASE Announce(watcher)
    BY <1>1, <1>4, <2>1, WatcherIsThread, AnnounceTypes DEF Inv
  <2>2. CASE UNCHANGED announced /\ (l = "idle" \/ UNCHANGED at)
    BY <1>4, <2>2 DEF Inv, Types, TypeOK
  <2> QED  BY <1>2, <2>1, <2>2
<1>6. /\ events' \subseteq Versions /\ silent' \subseteq Versions /\ told' \subseteq Contents
      /\ seen' \in [Files -> 0..MaxVersions] /\ handled' \in [Files -> 0..MaxVersions]
      /\ failures' \in [Files -> [version : 0..MaxVersions, reads : 0..READ_ATTEMPTS]]
  BY DEF Known, Inv, Types, TypeOK, Versions, histVars
<1>7. UNCHANGED <<docVars, folder, orphaned, cut>>
  BY DEF Known, histVars
<1> QED  BY <1>1, <1>2, <1>3, <1>5, <1>6, <1>7, WatcherStep

LEMMA ReadStep ==
  ASSUME Inv, Read
  PROVE  Inv'
<1>1. at \in Visits /\ at.sha \in Contents /\ at.file \in Files
  BY DEF Read, Inv, Types, ThreadsOK, Visits, Hashed
<1>2. folder[at.file].content \in Contents
  BY <1>1 DEF Read, Inv, Types, TypeOK
<1>3. "find" \in PCs \ {"insert", "lost", "grant", "store"}
  BY DEF PCs
<1>4. /\ announced' \subseteq Contents /\ events' \subseteq Versions /\ silent' \subseteq Versions
      /\ told' \subseteq Contents
      /\ seen' \in [Files -> 0..MaxVersions] /\ handled' \in [Files -> 0..MaxVersions]
      /\ failures' \in [Files -> [version : 0..MaxVersions, reads : 0..READ_ATTEMPTS]]
  BY DEF Read, Inv, Types, TypeOK, Versions, memoryVars, histVars
<1>5. /\ pc[watcher] = "read" /\ pc' = [pc EXCEPT ![watcher] = "find"]
      /\ content' = [content EXCEPT ![watcher] = folder[at.file].content]
      /\ UNCHANGED <<docVars, folder, orphaned, cut, at>>
  BY DEF Read, Goto, Holds, histVars
<1> QED  BY <1>1, <1>2, <1>3, <1>4, <1>5, WatcherStep

\* A refusal, and the event of what was decided, or none.
LEMMA EventStep ==
  ASSUME Inv, OwnerFails \/ Refuse \/ Event \/ EventFails
  PROVE  Inv'
<1>1. at \in Visits /\ (at.dup => at.sha \in Contents) /\ pc[watcher] \notin {"idle", "grant"}
  BY DEF OwnerFails, Refuse, Event, EventFails, Inv, Types, ThreadsOK
<1>2. PICK l \in {"idle", "event"} :
        /\ pc' = [pc EXCEPT ![watcher] = l] /\ (UNCHANGED at \/ l = "idle")
        /\ content' = content \/ content' = [content EXCEPT ![watcher] = NoContent]
  BY DEF OwnerFails, Refuse, Event, EventFails, Silently, Goto, Holds
<1>3. l \in PCs \ {"insert", "lost", "grant", "store"} /\ l \notin {"known", "find"}
  BY DEF PCs
<1>4. l = "idle" \/ (at' \in Visits /\ (l \in Hashed \/ at'.dup => at'.sha \in Contents))
  BY <1>1, <1>2 DEF Hashed
<1>5. /\ announced' \subseteq Contents
      /\ seen' \in [Files -> 0..MaxVersions] /\ handled' \in [Files -> 0..MaxVersions]
      /\ failures' \in [Files -> [version : 0..MaxVersions, reads : 0..READ_ATTEMPTS]]
  BY DEF OwnerFails, Refuse, Event, EventFails, Inv, Types, TypeOK, memoryVars
<1>6. events \subseteq Versions /\ silent \subseteq Versions /\ told \subseteq Contents
  BY DEF Inv, Types, TypeOK, Versions
<1>7. /\ Here \in Versions /\ (Tell => told' \subseteq Contents)
      /\ silent \cup {Here} \subseteq Versions /\ events \cup {Here} \subseteq Versions
  BY <1>1, TellTypes DEF Inv
<1>8. events' \subseteq Versions /\ silent' \subseteq Versions /\ told' \subseteq Contents
  <2>1. CASE OwnerFails \/ EventFails
    <3>1. events' = events /\ silent' = silent \cup {Here} /\ Tell
      BY <2>1 DEF OwnerFails, EventFails, Silently
    <3> QED  BY <1>6, <1>7, <3>1
  <2>2. CASE Event
    <3>1. events' = events \cup {Here} /\ silent' = silent /\ Tell
      BY <2>2 DEF Event
    <3> QED  BY <1>6, <1>7, <3>1
  <2>3. CASE Refuse
    BY <1>6, <2>3 DEF Refuse, histVars
  <2> QED  BY <2>1, <2>2, <2>3
<1>9. UNCHANGED <<docVars, folder, orphaned, cut>>
  BY DEF OwnerFails, Refuse, Event, EventFails, histVars
<1> QED  BY <1>1, <1>2, <1>3, <1>4, <1>5, <1>8, <1>9, WatcherStep

LEMMA UploadStep ==
  ASSUME Inv, NEW t \in Uploads, NEW c \in Contents, upload_document(t, c)
  PROVE  Inv'
<1>1. /\ t \in Threads /\ t # watcher /\ pc[t] = "idle"
      /\ pc' = [pc EXCEPT ![t] = "find"] /\ content' = [content EXCEPT ![t] = c]
      /\ UNCHANGED <<docVars, folder, memoryVars, events, at, histVars>>
  BY ArrivalAssumption, WatcherIsThread DEF upload_document, Goto, Holds
<1>2. Types'
  BY <1>1 DEF Inv, Types, TypeOK, ThreadsOK, docVars, memoryVars, histVars
<1>3. StoredOK' /\ FileKept' /\ VisibleToSomebody'
  BY <1>1, MovesOn DEF docVars, histVars, PCs
<1> QED  BY <1>2, <1>3 DEF Inv

\* The row goes, and with it everything that is said of the document.
LEMMA DeleteStep ==
  ASSUME Inv, NEW c \in Contents, delete_document(c) \/ Erase(c)
  PROVE  Inv'
<1> USE DEF delete_document, Erase, Storing, memoryVars, placeVars
<1>1. Types'
  BY DEF Inv, Types, TypeOK, ThreadsOK
<1>2. StoredOK'
  BY DEF Inv, StoredOK
<1>3. FileKept'
  BY DEF Inv, FileKept
<1>4. VisibleToSomebody'
  BY StaysVisible DEF Inv
<1> QED  BY <1>1, <1>2, <1>3, <1>4 DEF Inv

LEMMA ChangeStep ==
  ASSUME Inv, NEW f \in Files,
         BeginCopy(f) \/ TakeAway(f) \/ \E c \in Contents : EndCopy(f, c)
  PROVE  Inv'
<1>1. PICK n \in [content : Contents \cup {NoContent}, version : 0..MaxVersions, writing : BOOLEAN] :
        Change(f, n)
  <2>1. folder[f].version \in 0..MaxVersions /\ MaxVersions \in Nat
    BY ArrivalAssumption DEF Inv, Types, TypeOK
  <2>2. folder[f].version < MaxVersions => folder[f].version + 1 \in 0..MaxVersions
    BY <2>1
  <2> QED  BY <2>1, <2>2, ArrivalAssumption DEF BeginCopy, TakeAway, EndCopy
<1>2. /\ UNCHANGED <<docVars, memoryVars, events, placeVars, histVars>>
      /\ folder' \in [Files -> [content : Contents \cup {NoContent}, version : 0..MaxVersions,
                                writing : BOOLEAN]]
  BY <1>1 DEF Change, Inv, Types, TypeOK
<1>3. Types'
  BY <1>2 DEF Inv, Types, TypeOK, ThreadsOK, docVars, memoryVars, placeVars, histVars
<1>4. StoredOK' /\ FileKept' /\ VisibleToSomebody'
  BY <1>2 DEF Inv, StoredOK, FileKept, VisibleToSomebody, docVars, placeVars, histVars
<1> QED  BY <1>3, <1>4 DEF Inv

LEMMA CrashStep ==
  ASSUME Inv, Crash
  PROVE  Inv'
<1>1. \A t \in Threads : pc'[t] = "idle"
  BY DEF Crash, Idle
<1>2. Types'
  <2>1. pc' \in [Threads -> PCs] /\ content' \in [Threads -> Contents \cup {NoContent}]
    BY DEF Crash, Idle, Empty, PCs
  <2>2. /\ seen' \in [Files -> 0..MaxVersions] /\ handled' \in [Files -> 0..MaxVersions]
        /\ failures' \in [Files -> [version : 0..MaxVersions, reads : 0..READ_ATTEMPTS]]
    BY NothingRead DEF Crash, Unread, NoFailures
  <2>3. TypeOK'
    BY <2>1, <2>2 DEF Crash, Inv, Types, TypeOK, PCs
  <2>4. ThreadsOK'
    BY <1>1, WatcherIsThread DEF ThreadsOK, Hashed
  <2> QED  BY <2>3, <2>4 DEF Types
<1>3. StoredOK' /\ FileKept'
  BY <1>1 DEF Crash, Inv, StoredOK, FileKept
<1>4. VisibleToSomebody'
  BY DEF Crash, Inv, VisibleToSomebody
<1> QED  BY <1>2, <1>3, <1>4 DEF Inv

LEMMA InvHolds == Spec => []Inv
<1>1. Init => Inv
  <2> SUFFICES ASSUME Init  PROVE Inv
    OBVIOUS
  <2>1. \A t \in Threads : pc[t] = "idle"
    BY DEF Init, Idle
  <2>2. /\ pc \in [Threads -> PCs] /\ content \in [Threads -> Contents \cup {NoContent}]
        /\ seen \in [Files -> 0..MaxVersions] /\ handled \in [Files -> 0..MaxVersions]
        /\ failures \in [Files -> [version : 0..MaxVersions, reads : 0..READ_ATTEMPTS]]
        /\ folder \in [Files -> [content : Contents \cup {NoContent}, version : 0..MaxVersions,
                                 writing : BOOLEAN]]
    BY NothingRead DEF Init, Idle, Empty, Unread, NoFailures, PCs
  <2>3. TypeOK
    BY <2>2, ArrivalAssumption DEF Init, TypeOK, PCs
  <2>4. ThreadsOK /\ StoredOK
    BY <2>1, WatcherIsThread DEF ThreadsOK, StoredOK, Hashed
  <2>5. FileKept /\ VisibleToSomebody
    BY DEF Init, FileKept, VisibleToSomebody
  <2> QED  BY <2>3, <2>4, <2>5 DEF Inv, Types
<1>2. Inv /\ [Next]_vars => Inv'
  <2> SUFFICES ASSUME Inv, [Next]_vars  PROVE Inv'
    OBVIOUS
  <2>1. CASE Scan
    BY <2>1, VisitStep, HashStep, HashFailsStep, KnownStep, ReadStep, EventStep, IngestStep,
       WatcherIsThread DEF Scan
  <2>2. ASSUME NEW t \in Uploads, ingest(t) \/ \E c \in Contents : upload_document(t, c)
        PROVE  Inv'
    BY <2>2, IngestStep, UploadStep, WatcherIsThread
  <2>3. ASSUME NEW c \in Contents, delete_document(c) \/ Erase(c)  PROVE Inv'
    BY <2>3, DeleteStep
  <2>4. ASSUME NEW f \in Files, BeginCopy(f) \/ TakeAway(f) \/ \E c \in Contents : EndCopy(f, c)
        PROVE  Inv'
    BY <2>4, ChangeStep
  <2>5. CASE Crash
    BY <2>5, CrashStep
  <2>6. CASE UNCHANGED vars
    BY <2>6 DEF vars, docVars, memoryVars, placeVars, histVars, Inv, Types, TypeOK, ThreadsOK,
           StoredOK, FileKept, VisibleToSomebody
  <2> QED  BY <2>1, <2>2, <2>3, <2>4, <2>5, <2>6 DEF Next
<1> QED  BY <1>1, <1>2, PTL DEF Spec

\* Every variable keeps its type, and no grant is missed of a document that is gone.
THEOREM TypesHold == Spec => []TypeOK
<1>1. Inv => TypeOK
  BY DEF Inv, Types
<1> QED  BY <1>1, InvHolds, PTL

\* upload.ingest, delete_document: however many uploads and deletions meet, and
\* wherever the server dies, a document has its stored file, unless a deletion
\* took it from an upload that had found it.
THEOREM FilesAreKept == Spec => []FileKept
<1>1. Inv => FileKept
  BY DEF Inv
<1> QED  BY <1>1, InvHolds, PTL

\* upload_document: however uploads of one content meet, a document whose upload
\* is over has its grants, unless the upload died, or failed, at the grant.
THEOREM DocumentsAreVisible == Spec => []VisibleToSomebody
<1>1. Inv => VisibleToSomebody
  BY DEF Inv
<1> QED  BY <1>1, InvHolds, PTL

=============================================================================
