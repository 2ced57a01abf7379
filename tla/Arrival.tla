------------------------------- MODULE Arrival -------------------------------
(***************************************************************************)
(* How a document comes in, and goes: upload.ingest under the upload route *)
(* and under the watched folder (watcher.py), and the route that deletes.  *)
(*                                                                         *)
(* A document is its content: its id and the name of its stored file come  *)
(* from its hash.  A thread is an upload request or the watcher; a step is *)
(* one read or move of a file or one transaction.  A file in the folder is *)
(* what is in it and a version, which is its size and time.  The server    *)
(* may die between any two steps: what is in memory is lost.  The role a   *)
(* subfolder gives, images and their page files are left out.              *)
(***************************************************************************)
EXTENDS Naturals, FiniteSets

CONSTANTS
  Contents, Partial,      \* Partial: of a file that is still being written
  Corpus,                 \* documents there from the start
  Uploads, watcher,       \* threads
  Files,                  \* names in the watched folder
  NoContent, NoFile,
  MaxVersions, MaxUploads, MaxDeletes, MaxCrashes, MaxFails   \* bounds

ASSUME ArrivalAssumption ==
  /\ Partial \in Contents /\ Corpus \subseteq Contents /\ NoContent \notin Contents
  /\ watcher \notin Uploads /\ NoFile \notin Files
  /\ {MaxVersions, MaxUploads, MaxDeletes, MaxCrashes, MaxFails} \subseteq Nat

Threads == Uploads \cup {watcher}
READ_ATTEMPTS == 3

VARIABLES
  documents, granted, stored,   \* rows and their grants; files in the store
  erasing,                      \* documents deleted whose file is still to go
  folder,                       \* content, version, writing: of a file
  seen, handled, failures,      \* the watcher's memory: versions, reads failed, ...
  announced,                    \* ... and duplicates it has reported
  events,                       \* watch_events: of which file and version
  pc, content, at,              \* a thread's place and content, the watcher's file
  silent, told, orphaned, cut,  \* history: versions whose event was not written
                                \* and hashes reported as a duplicate's since the
                                \* start, documents whose grant was not, and those whose
                                \* file a deletion took from a new upload
  uploads, deletes, crashes, fails

docVars    == <<documents, granted, stored, erasing>>
memoryVars == <<seen, handled, failures, announced>>
placeVars  == <<pc, content, at>>
histVars   == <<silent, told, orphaned, cut>>
boundVars  == <<uploads, deletes, crashes, fails>>
vars == <<docVars, folder, memoryVars, events, placeVars, histVars, boundVars>>

\* What the watcher has of a file: its version and, once known, the hash that it
\* reports and whether it reports a duplicate.
File(f, v) == [file |-> f, version |-> v, sha |-> NoContent, dup |-> FALSE]
Nowhere == File(NoFile, 0)
Idle == [t \in Threads |-> "idle"]
Empty == [t \in Threads |-> NoContent]
Unread == [f \in Files |-> 0]
NoFailures == [f \in Files |-> [version |-> 0, reads |-> 0]]

Init ==
  /\ documents = Corpus /\ granted = Corpus /\ stored = Corpus /\ erasing = {}
  /\ folder = [f \in Files |-> [content |-> NoContent, version |-> 0, writing |-> FALSE]]
  /\ seen = Unread /\ handled = Unread /\ failures = NoFailures /\ announced = {}
  /\ events = {}
  /\ pc = Idle /\ content = Empty /\ at = Nowhere
  /\ silent = {} /\ told = {} /\ orphaned = {} /\ cut = {}
  /\ uploads = 0 /\ deletes = 0 /\ crashes = 0 /\ fails = 0

Goto(t, l) == pc' = [pc EXCEPT ![t] = l]
Holds(t, c) == content' = [content EXCEPT ![t] = c]

\* A thread has nothing more to do; the watcher has its event to write.
Answer(t) ==
  IF t = watcher THEN Goto(t, "event") /\ UNCHANGED content
                 ELSE Goto(t, "idle") /\ Holds(t, NoContent)

-----------------------------------------------------------------------------
(* upload.ingest, once the bytes are in a temporary file and valid. *)

\* upload_document: a file is sent.
upload_document(t, c) ==
  /\ t \in Uploads /\ pc[t] = "idle" /\ uploads < MaxUploads
  /\ uploads' = uploads + 1
  /\ Goto(t, "find") /\ Holds(t, c)
  /\ UNCHANGED <<docVars, folder, memoryVars, events, at, histVars, deletes, crashes, fails>>

\* The watcher has met a duplicate: of what it has just read, and it remembers
\* the hash it took before.
Announce(t) ==
  IF t = watcher THEN /\ announced' = announced \cup {at.sha}
                      /\ at' = [at EXCEPT !.dup = TRUE]
                 ELSE UNCHANGED <<announced, at>>

\* find_by_hash: one with this content is a duplicate.
Find(t) ==
  /\ pc[t] = "find"
  /\ IF content[t] \in documents
       THEN Answer(t) /\ Announce(t)
       ELSE Goto(t, "store") /\ UNCHANGED <<content, announced, at>>
  /\ UNCHANGED <<docVars, folder, seen, handled, failures, events, histVars, boundVars>>

\* The file is moved to its place, unless one is there.
Store(t) ==
  /\ pc[t] = "store"
  /\ stored' = stored \cup {content[t]}
  /\ Goto(t, "insert")
  /\ UNCHANGED <<documents, granted, erasing, folder, memoryVars, events, content, at,
                 histVars, boundVars>>

\* mutant: one that lost the race removes the file it stored
Insert_CleansUp(t) ==
  /\ pc[t] = "insert"
  /\ IF content[t] \in documents
       THEN Goto(t, "lost") /\ stored' = stored \ {content[t]} /\ UNCHANGED documents
       ELSE Goto(t, "grant") /\ documents' = documents \cup {content[t]} /\ UNCHANGED stored
  /\ UNCHANGED <<granted, erasing, folder, memoryVars, events, content, at, histVars, boundVars>>

\* mutant: one that lost the race takes the row for its own
Insert_OrIgnore(t) ==
  /\ pc[t] = "insert"
  /\ documents' = documents \cup {content[t]}
  /\ Answer(t)
  /\ UNCHANGED <<granted, stored, erasing, folder, memoryVars, events, at, histVars, boundVars>>

\* The document and its job are inserted in one transaction; the hash is unique.
Insert(t) ==
  /\ pc[t] = "insert"
  /\ IF content[t] \in documents
       THEN Goto(t, "lost") /\ UNCHANGED documents
       ELSE Goto(t, "grant") /\ documents' = documents \cup {content[t]}
  /\ UNCHANGED <<granted, stored, erasing, folder, memoryVars, events, content, at,
                 histVars, boundVars>>

\* IntegrityError: the race is lost to a duplicate, or to one deleted since,
\* which is an error.
Lost(t) ==
  /\ pc[t] = "lost"
  /\ IF content[t] \in documents THEN Announce(t) ELSE UNCHANGED <<announced, at>>
  /\ Answer(t)
  /\ UNCHANGED <<docVars, folder, seen, handled, failures, events, histVars, boundVars>>

\* The version the watcher is at, and the hash it reports if it is a duplicate's.
Here == [file |-> at.file, version |-> at.version]
Tell == told' = IF at.dup THEN told \cup {at.sha} ELSE told

\* A step of the watcher outside its handlers raises: no event is written.
Silently(t) ==
  /\ Goto(t, "idle") /\ Holds(t, NoContent)
  /\ IF t = watcher THEN silent' = silent \cup {Here} /\ Tell /\ at' = Nowhere
                    ELSE UNCHANGED <<silent, told, at>>

\* grant_on_upload: who may read a new document, ...
Grant(t) ==
  /\ pc[t] = "grant" /\ content[t] \in documents
  /\ granted' = granted \cup {content[t]}
  /\ Answer(t)
  /\ UNCHANGED <<documents, stored, erasing, folder, memoryVars, events, at, histVars, boundVars>>

\* ... unless it is deleted by then, or the write fails.
GrantFails(t) ==
  /\ pc[t] = "grant"
  /\ \/ content[t] \notin documents /\ UNCHANGED <<orphaned, fails>>
     \/ /\ content[t] \in documents /\ fails < MaxFails
        /\ fails' = fails + 1
        /\ orphaned' = orphaned \cup {content[t]}
  /\ Silently(t)
  /\ UNCHANGED <<docVars, folder, memoryVars, events, cut, uploads, deletes, crashes>>

-----------------------------------------------------------------------------
(* delete_document. *)

\* A thread has stored the file of this document, and not yet its row.
Storing(c) == \E t \in Threads : pc[t] = "insert" /\ content[t] = c

\* The row goes, with its grants, ...
delete_document(c) ==
  /\ c \in documents /\ deletes < MaxDeletes
  /\ deletes' = deletes + 1
  /\ documents' = documents \ {c} /\ granted' = granted \ {c}
  /\ orphaned' = orphaned \ {c}
  /\ cut' = IF Storing(c) THEN cut ELSE cut \ {c}
  /\ erasing' = erasing \cup {c}
  /\ UNCHANGED <<stored, folder, memoryVars, events, placeVars, silent, told, uploads, crashes, fails>>

\* ... and then the stored file.
Erase(c) ==
  /\ c \in erasing
  /\ erasing' = erasing \ {c} /\ stored' = stored \ {c}
  /\ cut' = IF c \in documents \/ Storing(c) THEN cut \cup {c} ELSE cut
  /\ UNCHANGED <<documents, granted, folder, memoryVars, events, placeVars, silent, told, orphaned,
                 boundVars>>

-----------------------------------------------------------------------------
(* FolderWatcher.scan_once and _handle. *)

\* mutant: a file is decided about whatever becomes of the decision
Visit_HandledAtOnce(f) ==
  /\ pc[watcher] = "idle"
  /\ LET v == folder[f].version IN
     /\ seen' = [seen EXCEPT ![f] = v] /\ handled' = [handled EXCEPT ![f] = v]
     /\ IF folder[f].content # NoContent /\ handled[f] # v /\ seen[f] = v
          THEN Goto(watcher, "hash") /\ at' = File(f, v)
          ELSE UNCHANGED <<pc, at>>
  /\ UNCHANGED <<docVars, folder, failures, announced, events, content, histVars, boundVars>>

\* A scan comes to a file: one that is new or has changed since the last scan
\* is left for the next, and of one that is gone nothing is kept.
Visit(f) ==
  LET v == folder[f].version IN
  /\ pc[watcher] = "idle"
  /\ IF folder[f].content = NoContent
       THEN /\ seen' = [seen EXCEPT ![f] = 0] /\ handled' = [handled EXCEPT ![f] = 0]
            /\ failures' = [failures EXCEPT ![f] = NoFailures[f]]
            /\ UNCHANGED <<pc, at>>
       ELSE /\ seen' = [seen EXCEPT ![f] = v]
            /\ IF handled[f] # v /\ seen[f] = v
                 THEN Goto(watcher, "hash") /\ at' = File(f, v)
                 ELSE UNCHANGED <<pc, at>>
            /\ UNCHANGED <<handled, failures>>
  /\ UNCHANGED <<docVars, folder, announced, events, content, histVars, boundVars>>

\* The file is read and hashed: from here on it is decided about.
Hash ==
  LET f == at.file
      c == folder[f].content IN
  /\ pc[watcher] = "hash" /\ c # NoContent
  /\ failures' = [failures EXCEPT ![f] = NoFailures[f]]
  /\ handled' = [handled EXCEPT ![f] = at.version]
  /\ at' = [at EXCEPT !.sha = c]
  /\ Holds(watcher, c) /\ Goto(watcher, "known")
  /\ UNCHANGED <<docVars, folder, seen, announced, events, histVars, boundVars>>

\* It cannot be read, or is gone: tried again, and given up at the third time.
HashFails ==
  LET f == at.file
      reads == IF failures[f].version = at.version THEN failures[f].reads + 1 ELSE 1 IN
  /\ pc[watcher] = "hash"
  /\ IF reads < READ_ATTEMPTS
       THEN /\ failures' = [failures EXCEPT ![f] = [version |-> at.version, reads |-> reads]]
            /\ Goto(watcher, "idle") /\ at' = Nowhere /\ UNCHANGED handled
       ELSE /\ failures' = [failures EXCEPT ![f] = NoFailures[f]]
            /\ handled' = [handled EXCEPT ![f] = at.version]
            /\ Goto(watcher, "event") /\ UNCHANGED at
  /\ UNCHANGED <<docVars, folder, seen, announced, events, content, histVars, boundVars>>

\* A duplicate is reported once, whatever its name; else the owner is looked up.
Known ==
  LET c == content[watcher] IN
  /\ pc[watcher] = "known"
  /\ IF c \in documents
       THEN IF c \in announced
              THEN /\ Goto(watcher, "idle") /\ Holds(watcher, NoContent) /\ at' = Nowhere
                   /\ UNCHANGED announced
              ELSE Goto(watcher, "event") /\ Announce(watcher) /\ UNCHANGED content
       ELSE Goto(watcher, "read") /\ UNCHANGED <<announced, content, at>>
  /\ UNCHANGED <<docVars, folder, seen, handled, failures, events, histVars, boundVars>>

\* resolve_owner raises: outside every handler, and the file is decided about.
OwnerFails ==
  /\ pc[watcher] = "read" /\ fails < MaxFails
  /\ fails' = fails + 1
  /\ Silently(watcher)
  /\ UNCHANGED <<docVars, folder, memoryVars, events, orphaned, cut, uploads, deletes, crashes>>

\* It is read once more, into the store, whatever is in it by now.
Read ==
  LET c == folder[at.file].content IN
  /\ pc[watcher] = "read" /\ c # NoContent
  /\ Holds(watcher, c) /\ Goto(watcher, "find")
  /\ UNCHANGED <<docVars, folder, memoryVars, events, at, histVars, boundVars>>

\* Refused: no owner, not a PDF, the file gone, or the database failing.
Refuse ==
  /\ pc[watcher] \in {"known", "read", "find"}
  /\ fails < MaxFails \/ (pc[watcher] = "read" /\ folder[at.file].content = NoContent)
  /\ fails' = IF fails < MaxFails THEN fails + 1 ELSE fails
  /\ Goto(watcher, "event")
  /\ UNCHANGED <<docVars, folder, memoryVars, events, content, at, histVars, uploads, deletes,
                 crashes>>

\* record_event: what was decided is reported, ...
Event ==
  /\ pc[watcher] = "event"
  /\ events' = events \cup {Here} /\ Tell
  /\ Goto(watcher, "idle") /\ Holds(watcher, NoContent) /\ at' = Nowhere
  /\ UNCHANGED <<docVars, folder, memoryVars, silent, orphaned, cut, boundVars>>

\* ... unless that fails.
EventFails ==
  /\ pc[watcher] = "event" /\ fails < MaxFails
  /\ fails' = fails + 1
  /\ Silently(watcher)
  /\ UNCHANGED <<docVars, folder, memoryVars, events, orphaned, cut, uploads, deletes, crashes>>

-----------------------------------------------------------------------------
(* The world. *)

\* Somebody begins to copy a file into the folder, ends, or removes it.
Change(f, new) ==
  /\ folder' = [folder EXCEPT ![f] = new]
  /\ UNCHANGED <<docVars, memoryVars, events, placeVars, histVars, boundVars>>

BeginCopy(f) ==
  /\ folder[f].version < MaxVersions /\ ~folder[f].writing
  /\ Change(f, [content |-> Partial, version |-> folder[f].version + 1, writing |-> TRUE])

EndCopy(f, c) ==
  /\ folder[f].writing /\ folder[f].version < MaxVersions
  /\ Change(f, [content |-> c, version |-> folder[f].version + 1, writing |-> FALSE])

TakeAway(f) ==
  /\ folder[f].content # NoContent
  /\ Change(f, [content |-> NoContent, version |-> folder[f].version, writing |-> FALSE])

\* The server dies, and is started again.
Crash ==
  /\ crashes < MaxCrashes
  /\ crashes' = crashes + 1
  /\ orphaned' = orphaned \cup
       {c \in documents : \E t \in Threads : pc[t] = "grant" /\ content[t] = c}
  /\ pc' = Idle /\ content' = Empty /\ at' = Nowhere
  /\ seen' = Unread /\ handled' = Unread /\ failures' = NoFailures /\ announced' = {}
  /\ erasing' = {} /\ silent' = {} /\ told' = {}
  /\ UNCHANGED <<documents, granted, stored, folder, events, cut, uploads, deletes, fails>>

ingest(t) == Find(t) \/ Store(t) \/ Insert(t) \/ Lost(t) \/ Grant(t) \/ GrantFails(t)

Scan ==
  \/ \E f \in Files : Visit(f)
  \/ Hash \/ HashFails \/ Known \/ OwnerFails \/ Read \/ Refuse \/ Event \/ EventFails
  \/ ingest(watcher)

Next ==
  \/ \E t \in Uploads : ingest(t) \/ \E c \in Contents : upload_document(t, c)
  \/ Scan
  \/ \E c \in Contents : delete_document(c) \/ Erase(c)
  \/ \E f \in Files : BeginCopy(f) \/ TakeAway(f) \/ \E c \in Contents \ {Partial} : EndCopy(f, c)
  \/ Crash

\* FolderWatcher._run: the next scan always comes, whatever one runs into.
Spec == Init /\ [][Next]_vars /\ WF_vars(Scan)

-----------------------------------------------------------------------------
(* Correctness. *)

TypeOK ==
  /\ documents \subseteq Contents /\ granted \subseteq Contents
  /\ stored \subseteq Contents /\ erasing \subseteq Contents
  /\ folder \in [Files -> [content : Contents \cup {NoContent}, version : 0..MaxVersions,
                           writing : BOOLEAN]]
  /\ seen \in [Files -> 0..MaxVersions] /\ handled \in [Files -> 0..MaxVersions]
  /\ failures \in [Files -> [version : 0..MaxVersions, reads : 0..READ_ATTEMPTS]]
  /\ announced \subseteq Contents
  /\ events \subseteq [file : Files, version : 0..MaxVersions]
  /\ pc \in [Threads -> {"idle", "find", "store", "insert", "lost", "grant", "hash", "known",
                         "read", "event"}]
  /\ content \in [Threads -> Contents \cup {NoContent}]
  /\ silent \subseteq [file : Files, version : 0..MaxVersions] /\ told \subseteq Contents
  /\ orphaned \subseteq documents /\ cut \subseteq Contents

\* upload.ingest, delete_document: a document's stored file is there, whatever
\* uploads and deletions meet and wherever the server dies, unless a deletion
\* removed it after an upload had found it.
FileKept == documents \subseteq stored \cup cut

\* upload_document, "no document is left visible to nobody": a document whose
\* upload is over may be read by somebody, unless the upload died at its grant.
VisibleToSomebody ==
  \A c \in documents \ (granted \cup orphaned) :
    \E t \in Threads : pc[t] = "grant" /\ content[t] = c

\* watcher, "a silent refusal": in the end each file left in the folder has been
\* decided about, and that was reported, or its hash was, as a duplicate's, under
\* this name or another.  A step outside the handlers may have raised instead
\* (silent); and a report of a duplicate names the hash of the first read: one of a
\* file that changed before the second, and was a duplicate then, passes for it.
Reported(f) ==
  /\ handled[f] = folder[f].version
  /\ \/ [file |-> f, version |-> folder[f].version] \in events \cup silent
     \/ folder[f].content \in announced \cap told

EveryDropReported ==
  \A f \in Files : <>[](folder[f].content # NoContent /\ pc[watcher] = "idle" => Reported(f))

=============================================================================
