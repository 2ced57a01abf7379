--------------------------- MODULE DocumentStates ---------------------------
(* The vocabulary of backend/app/states.py: the status a document row holds,
   the sets the rest of the code derives from it, and the transitions that
   file calls legal.  Pure definitions, no state.                           *)

QUEUED                == "queued"
EXTRACTING            == "extracting"
CHUNKING              == "chunking"
INDEXING_KEYWORD      == "indexing_keyword"
PARTIALLY_SEARCHABLE  == "partially_searchable"
READY                 == "ready"
NO_SEARCHABLE_CONTENT == "no_searchable_content"
STORED_NOT_INDEXED    == "stored_not_indexed"
FAILED                == "failed"

ALL_STATES ==
  {QUEUED, EXTRACTING, CHUNKING, INDEXING_KEYWORD, PARTIALLY_SEARCHABLE,
   READY, NO_SEARCHABLE_CONTENT, STORED_NOT_INDEXED, FAILED}

\* No further work happens in these.
TERMINAL_STATES ==
  {READY, NO_SEARCHABLE_CONTENT, STORED_NOT_INDEXED, FAILED}

\* A question may be answered from these.
ANSWERABLE_STATES == {PARTIALLY_SEARCHABLE, READY}

NOT_SEARCHABLE_STATES == TERMINAL_STATES \ ANSWERABLE_STATES

LEGAL_TRANSITIONS ==
  [ s \in ALL_STATES |->
      CASE s = QUEUED                -> {EXTRACTING, FAILED}
        [] s = EXTRACTING            -> {EXTRACTING, CHUNKING, FAILED}
        [] s = CHUNKING              -> {INDEXING_KEYWORD, FAILED}
        [] s = INDEXING_KEYWORD      -> {PARTIALLY_SEARCHABLE,
                                         NO_SEARCHABLE_CONTENT, FAILED}
        [] s = PARTIALLY_SEARCHABLE  -> {PARTIALLY_SEARCHABLE, CHUNKING, READY,
                                         NO_SEARCHABLE_CONTENT, FAILED}
        [] s = READY                 -> {CHUNKING, FAILED}
        [] s = NO_SEARCHABLE_CONTENT -> {CHUNKING, EXTRACTING, FAILED}
        [] s = STORED_NOT_INDEXED    -> {}
        [] s = FAILED                -> {QUEUED, EXTRACTING, CHUNKING, FAILED} ]

\* A status no row of this build's vocabulary (a retired one) may go nowhere
\* by this table; the worker moves it on without consulting the table.
can_transition(current, nxt) ==
  current \in ALL_STATES /\ nxt \in LEGAL_TRANSITIONS[current]

=============================================================================
