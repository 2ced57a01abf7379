----------------------------- MODULE CrsNumbers -----------------------------
(***************************************************************************)
(* The permanent numbers of review comments (crs_numbers.py, and in        *)
(* main.py the two writes that use it and the sheet they compose).         *)
(*                                                                         *)
(* A review of a document raises comments, each with a key: its subject.   *)
(* When the review finishes its drafts are numbered; when an engineer      *)
(* decides one, the run's comments are minted: confirmed ones issued,      *)
(* rejected ones withdrawn.  The next review, of this document or of its   *)
(* next revision, finds the same keys under the same numbers.              *)
(*                                                                         *)
(* A writer is a request or worker thread inside one of those two writes;  *)
(* a step is one statement or transaction on the database.  Of a comment's *)
(* words only what tells two wordings apart is kept.                       *)
(***************************************************************************)
EXTENDS Naturals, FiniteSets

CONSTANTS
  Documents, Runs,
  DocOf,          \* the document a run reviews
  Numbers,        \* document numbers; a document may have none
  Keys, Words,
  NoNumber, NoWords, NoRun, NoKey, NoScope,
  Writers,
  MaxSeq,         \* bound on the numbers of a sequence
  MaxWrites,      \* bound on the engineers' writes
  MaxActs,        \* bound on what others do to the register and the documents
  MaxFails        \* bound on writes that end in an exception

\* The sequence of a document number, or a document's own.
Scopes == Numbers \cup Documents

ASSUME CrsAssumption ==
  /\ DocOf \in [Runs -> Documents]
  /\ MaxSeq \in Nat /\ MaxWrites \in Nat /\ MaxActs \in Nat /\ MaxFails \in Nat
  /\ NoScope \notin Scopes /\ NoWords \notin Words /\ NoNumber \notin Numbers
  /\ NoRun \notin Runs /\ NoKey \notin Keys

OPEN == "Open"
CLOSED == "Closed"
WITHDRAWN == "Withdrawn"
STATUSES == {OPEN, CLOSED}

VARIABLES
  docno,      \* document_classification.document_number
  fixed,      \* crs_document_scope
  number,     \* crs_comment_numbers: number[scope][key], seq 0 for no row
  decision,   \* decision[run][key]: of the finding behind the key
  words,      \* words[run][key]: what it says
  pc, job,    \* where a writer is, and what it works on
  late,       \* history: documents whose number was edited, and comments that
              \* were answered or closed, between a writer's look and its write
  approved,   \* history: approved[key], words confirmed and not rejected since
  writes, acts, fails

docVars   == <<docno, fixed>>
runVars   == <<decision, words, approved>>
boundVars == <<writes, acts, fails>>
vars      == <<docVars, number, runVars, pc, job, late, boundVars>>

NoComment == [seq |-> 0, status |-> OPEN, issued |-> FALSE, replied |-> FALSE,
              says |-> NoWords, doc |-> NoScope]

Decisions == {"absent", "draft", "confirmed", "rejected"}
Nothing   == [decision |-> [k \in Keys |-> "absent"], words |-> [k \in Keys |-> NoWords]]

\* A writer's work: the run it writes for, which of the two writes it is, the
\* findings it has read, the sequence it numbers in, the keys to number, to
\* refresh and to withdraw, and the key it is at.
NoJob == [run |-> NoRun, mint |-> FALSE, found |-> Nothing, scope |-> NoScope,
          todo |-> {}, snaps |-> {}, out |-> {}, key |-> NoKey]

Init ==
  /\ docno \in [Documents -> Numbers \cup {NoNumber}]
  /\ fixed = [d \in Documents |-> NoScope]
  /\ number = [s \in Scopes |-> [k \in Keys |-> NoComment]]
  /\ decision = [r \in Runs |-> Nothing.decision]
  /\ words = [r \in Runs |-> Nothing.words]
  /\ pc = [w \in Writers |-> "idle"] /\ job = [w \in Writers |-> NoJob]
  /\ late = {} /\ approved = [k \in Keys |-> {}]
  /\ writes = 0 /\ acts = 0 /\ fails = 0

-----------------------------------------------------------------------------
(* Reading the register. *)

scope_for(d) == IF docno[d] = NoNumber THEN d ELSE docno[d]

\* mutant: the sequence the document number gives now
scope_of_document_Current(d) == scope_for(d)

\* The sequence the document was fixed to, else the one its number gives now.
scope_of_document(d) == IF fixed[d] = NoScope THEN scope_for(d) ELSE fixed[d]

\* carry_confirmation: an issued number carries its confirmation onto a draft
\* whose words are those it keeps.
Carried(s, k, said) ==
  LET c == number[s][k] IN
  /\ c.seq # 0 /\ c.status # WITHDRAWN /\ c.issued
  /\ c.says \in {NoWords, said}

\* _crs_content: the rows of a run's sheet, and those of them that are an
\* engineer's.
Rows(found) == {k \in Keys : found.decision[k] \in {"draft", "confirmed"}}
Theirs(s, found) ==
  {k \in Rows(found) : found.decision[k] = "confirmed" \/ Carried(s, k, found.words[k])}

Findings(r) == [decision |-> decision[r], words |-> words[r]]

\* open_elsewhere: an open issued comment that the sheet does not produce.
CarriedForward(s, k, found) ==
  /\ number[s][k].seq # 0 /\ number[s][k].status = OPEN /\ number[s][k].issued
  /\ k \notin Rows(found)

\* What the contractor's copy of a run says under a key.
Copy(r, k) ==
  LET s == scope_of_document(DocOf[r])
      found == Findings(r) IN
  IF k \in Theirs(s, found) THEN {found.words[k]}
  ELSE IF CarriedForward(s, k, found) THEN {number[s][k].says}
  ELSE {}

-----------------------------------------------------------------------------
(* The writes that begin one. *)

Goto(w, l) == pc' = [pc EXCEPT ![w] = l]

Begin(w, r, isMint) ==
  /\ pc[w] = "idle"
  /\ Goto(w, "find")
  /\ job' = [job EXCEPT ![w] = [NoJob EXCEPT !.run = r, !.mint = isMint]]

\* A review finishes: its findings are stored, all undecided, and its rows are
\* to be numbered.
Finish(w, r) ==
  /\ \A k \in Keys : decision[r][k] = "absent"
  /\ \E raised \in (SUBSET Keys) \ {{}}, said \in [Keys -> Words] :
       /\ decision' = [decision EXCEPT ![r] =
                         [k \in Keys |-> IF k \in raised THEN "draft" ELSE "absent"]]
       /\ words' = [words EXCEPT ![r] =
                      [k \in Keys |-> IF k \in raised THEN said[k] ELSE NoWords]]
  /\ Begin(w, r, FALSE)
  /\ UNCHANGED <<docVars, number, late, approved, boundVars>>

\* An engineer confirms a comment, with these words or as it stands, ...
Confirm(w, r, k, said) ==
  /\ writes < MaxWrites /\ decision[r][k] # "absent"
  /\ decision' = [decision EXCEPT ![r][k] = "confirmed"]
  /\ words' = [words EXCEPT ![r][k] = said]
  /\ approved' = [approved EXCEPT ![k] = @ \cup {said}]
  /\ writes' = writes + 1
  /\ Begin(w, r, TRUE)
  /\ UNCHANGED <<docVars, number, late, acts, fails>>

\* ... or rejects it, ...
Reject(w, r, k) ==
  /\ writes < MaxWrites /\ decision[r][k] # "absent"
  /\ decision' = [decision EXCEPT ![r][k] = "rejected"]
  /\ approved' = [approved EXCEPT ![k] = {}]
  /\ writes' = writes + 1
  /\ Begin(w, r, TRUE)
  /\ UNCHANGED <<docVars, number, words, late, acts, fails>>

\* ... or records the final code of the run.
RecordCode(w, r) ==
  /\ writes < MaxWrites /\ decision[r] # Nothing.decision
  /\ writes' = writes + 1
  /\ Begin(w, r, TRUE)
  /\ UNCHANGED <<docVars, number, runVars, late, acts, fails>>

-----------------------------------------------------------------------------
(* number_crs_rows and _mint_crs_numbers. *)

\* The findings of the run are read, ...
Find(w) ==
  /\ pc[w] = "find"
  /\ job' = [job EXCEPT ![w].found = Findings(job[w].run)]
  /\ Goto(w, "look")
  /\ UNCHANGED <<docVars, number, runVars, late, boundVars>>

\* ... then the numbers its rows have.  A mint takes the comments that are an
\* engineer's, and refreshes the words of those confirmed in this run; the
\* numbering of a finished review takes all the others.
Look(w) ==
  LET found  == job[w].found
      theirs == Theirs(scope_of_document(DocOf[job[w].run]), found)
      drafts == Rows(found) \ theirs
      decided(x) == {k \in Keys : found.decision[k] = x} IN
  /\ pc[w] = "look"
  /\ job' = [job EXCEPT
       ![w].todo  = IF job[w].mint THEN theirs ELSE drafts,
       ![w].snaps = IF job[w].mint THEN decided("confirmed") ELSE drafts,
       ![w].out   = IF job[w].mint THEN decided("rejected") ELSE {}]
  /\ Goto(w, "scope")
  /\ UNCHANGED <<docVars, number, runVars, late, boundVars>>

\* The next thing to do for the key at hand, whose comment is c, or for the
\* next one.  A number, once given or issued, stays so: what finds nothing to
\* do is left out.
After(j) == IF j.todo # {} THEN "reopen" ELSE IF j.out # {} THEN "withdraw" ELSE "idle"
ToSnap(j) == IF j.key \in j.snaps THEN "snap" ELSE After(j)

\* mutant: the number a draft was given is not made the engineer's
ToIssue_NewOnly(j, c) == ToSnap(j)

ToIssue(j, c) == IF j.mint /\ ~c.issued THEN "issue" ELSE ToSnap(j)

ToClaim(j, c) == IF c.seq = 0 THEN "claim" ELSE ToIssue(j, c)

\* A write that is over leaves nothing.
Go(w, next, j) ==
  /\ Goto(w, next)
  /\ job' = [job EXCEPT ![w] = IF next = "idle" THEN NoJob ELSE j]

\* The sequence is read once more, for the write.
Scope(w) ==
  LET read == [job[w] EXCEPT !.scope = scope_of_document(DocOf[job[w].run])] IN
  /\ pc[w] = "scope"
  /\ Go(w, IF read.todo # {} THEN "fix" ELSE After(read), read)
  /\ UNCHANGED <<docVars, number, runVars, late, boundVars>>

\* The document is fixed to the sequence, unless it already is to one.
Fix(w) ==
  LET d == DocOf[job[w].run] IN
  /\ pc[w] = "fix"
  /\ fixed' = [fixed EXCEPT ![d] = IF @ = NoScope THEN job[w].scope ELSE @]
  /\ Goto(w, "reopen")
  /\ UNCHANGED <<docno, number, runVars, job, late, boundVars>>

\* Key by key: a withdrawn number is open again, ...
Reopen(w) ==
  /\ pc[w] = "reopen"
  /\ \E k \in job[w].todo :
       LET s == job[w].scope
           j == [job[w] EXCEPT !.key = k, !.todo = @ \ {k}] IN
       /\ number' = [number EXCEPT ![s][k].status = IF @ = WITHDRAWN THEN OPEN ELSE @]
       /\ Go(w, ToClaim(j, number[s][k]), j)
  /\ UNCHANGED <<docVars, runVars, late, boundVars>>

\* mutant: a withdrawn number is free again
NextSeq_InUse(s, n) ==
  n = 1 + Cardinality({j \in Keys : number[s][j].seq # 0 /\ number[s][j].status # WITHDRAWN})

\* The number after the highest one ever given.
NextSeq(s, n) ==
  /\ \A j \in Keys : number[s][j].seq < n
  /\ n = 1 \/ \E j \in Keys : number[s][j].seq = n - 1

\* ... a key without one gets the next number of the sequence, ...
Claim(w) ==
  LET j == job[w]
      d == DocOf[j.run] IN
  /\ pc[w] = "claim"
  /\ IF number[j.scope][j.key].seq = 0
       THEN \E n \in 1..MaxSeq :
              LET c == [NoComment EXCEPT !.seq = n, !.issued = j.mint, !.doc = d] IN
              /\ NextSeq(j.scope, n)
              /\ number' = [number EXCEPT ![j.scope][j.key] = c]
              /\ Go(w, ToSnap(j), j)
       ELSE /\ Go(w, ToIssue(j, number[j.scope][j.key]), j)
            /\ UNCHANGED number
  /\ UNCHANGED <<docVars, runVars, late, boundVars>>

\* ... an engineer's number is issued, ...
Issue(w) ==
  LET j == job[w] IN
  /\ pc[w] = "issue"
  /\ number' = [number EXCEPT ![j.scope][j.key].issued = TRUE]
  /\ Go(w, ToSnap(j), j)
  /\ UNCHANGED <<docVars, runVars, late, boundVars>>

\* ... and the words it keeps are refreshed.
Snap(w) ==
  LET j == job[w] IN
  /\ pc[w] = "snap"
  /\ number' = [number EXCEPT ![j.scope][j.key].says = j.found.words[j.key]]
  /\ Go(w, After(j), j)
  /\ UNCHANGED <<docVars, runVars, late, boundVars>>

\* mutant: an answered comment is withdrawn as well
Withdrawable_Answered(c) == c.seq # 0 /\ c.status = OPEN

Withdrawable(c) == c.seq # 0 /\ c.status = OPEN /\ ~c.replied

\* withdraw looks at a key, outside any transaction until it finds one to
\* withdraw, ...
WithdrawLook(w) ==
  /\ pc[w] = "withdraw"
  /\ \E k \in job[w].out :
       LET left == [job[w] EXCEPT !.out = @ \ {k}, !.key = k] IN
       Go(w, IF Withdrawable(number[job[w].scope][k]) THEN "write" ELSE After(left), left)
  /\ UNCHANGED <<docVars, number, runVars, late, boundVars>>

\* ... and withdraws it, and in the same transaction the rest.
WithdrawWrite(w) ==
  LET s == job[w].scope IN
  /\ pc[w] = "write"
  /\ number' = [number EXCEPT ![s] = [k \in Keys |->
                  IF k = job[w].key \/ (k \in job[w].out /\ Withdrawable(number[s][k]))
                    THEN [number[s][k] EXCEPT !.status = WITHDRAWN] ELSE number[s][k]]]
  /\ Go(w, "idle", NoJob)
  /\ UNCHANGED <<docVars, runVars, late, boundVars>>

\* A statement raises: the write is given up, what the engineer saved is not.
Fail(w) ==
  /\ fails < MaxFails /\ pc[w] # "idle"
  /\ fails' = fails + 1
  /\ Go(w, "idle", NoJob)
  /\ UNCHANGED <<docVars, number, runVars, late, writes, acts>>

-----------------------------------------------------------------------------
(* The other writes. *)

Act == acts < MaxActs /\ acts' = acts + 1

\* A rejection has looked at the comment and is about to withdraw it.
Pending(s, k) == \E w \in Writers : pc[w] = "write" /\ job[w].scope = s /\ job[w].key = k

Update(s, k, c) ==
  /\ Act
  /\ number[s][k].seq # 0
  /\ number' = [number EXCEPT ![s][k] = c]
  /\ late' = IF Pending(s, k) THEN late \cup {<<s, k>>} ELSE late
  /\ UNCHANGED <<docVars, runVars, pc, job, writes, fails>>

\* The reviewer closes a comment or opens it again.
set_status(s, k, status) == Update(s, k, [number[s][k] EXCEPT !.status = status])

\* The contractor's reply is recorded.
set_response(s, k) == Update(s, k, [number[s][k] EXCEPT !.replied = TRUE])

\* The classification of a document gets another document number.
EditNumber(d) ==
  /\ Act
  /\ \E n \in (Numbers \cup {NoNumber}) \ {docno[d]} : docno' = [docno EXCEPT ![d] = n]
  /\ late' = IF \E w \in Writers : pc[w] = "fix" /\ DocOf[job[w].run] = d
               THEN late \cup {d} ELSE late
  /\ UNCHANGED <<fixed, number, runVars, pc, job, writes, fails>>

Write(w) ==
  \/ Find(w) \/ Look(w) \/ Scope(w) \/ Fix(w)
  \/ Reopen(w) \/ Claim(w) \/ Issue(w) \/ Snap(w)
  \/ WithdrawLook(w) \/ WithdrawWrite(w)

Next ==
  \/ \E w \in Writers :
       \/ \E r \in Runs :
            \/ Finish(w, r) \/ RecordCode(w, r)
            \/ \E k \in Keys : Reject(w, r, k) \/ \E said \in Words : Confirm(w, r, k, said)
       \/ Write(w) \/ Fail(w)
  \/ \E s \in Scopes, k \in Keys :
       set_response(s, k) \/ \E status \in STATUSES : set_status(s, k, status)
  \/ \E d \in Documents : EditNumber(d)

Spec == Init /\ [][Next]_vars

-----------------------------------------------------------------------------
Comments ==
  [seq : 0..MaxSeq, status : {OPEN, CLOSED, WITHDRAWN}, issued : BOOLEAN, replied : BOOLEAN,
   says : Words \cup {NoWords}, doc : Documents \cup {NoScope}]

Reading == [decision : [Keys -> Decisions], words : [Keys -> Words \cup {NoWords}]]

Jobs ==
  [run : Runs \cup {NoRun}, mint : BOOLEAN, found : Reading, scope : Scopes \cup {NoScope},
   todo : SUBSET Keys, snaps : SUBSET Keys, out : SUBSET Keys, key : Keys \cup {NoKey}]

\* A comment has a number only in a document that is fixed to a sequence.
TypeOK ==
  /\ docno \in [Documents -> Numbers \cup {NoNumber}]
  /\ fixed \in [Documents -> Scopes \cup {NoScope}]
  /\ number \in [Scopes -> [Keys -> Comments]]
  /\ decision \in [Runs -> [Keys -> Decisions]]
  /\ words \in [Runs -> [Keys -> Words \cup {NoWords}]]
  /\ pc \in [Writers -> {"idle", "find", "look", "scope", "fix", "reopen", "claim", "issue",
                         "snap", "withdraw", "write"}]
  /\ job \in [Writers -> Jobs]
  /\ late \subseteq Documents \cup (Scopes \X Keys) /\ approved \in [Keys -> SUBSET Words]
  /\ \A s \in Scopes, k \in Keys :
       number[s][k].seq # 0 => /\ number[s][k].doc \in Documents
                               /\ fixed[number[s][k].doc] # NoScope

-----------------------------------------------------------------------------
(* Correctness. *)

Register == INSTANCE CommentRegister WITH
  given  <- [s \in Scopes |-> [k \in Keys |-> number[s][k].seq]],
  issued <- [s \in Scopes |-> {k \in Keys : number[s][k].issued}]

\* assign: whoever writes at once, and wherever a write is given up, a comment
\* keeps the number it was given, no number is given twice or skipped, and what
\* is issued stays issued.
RegisterKept == Register!Spec

\* crs_document_scope: the comments of a document are numbered in the sequence
\* it is fixed to, whatever becomes of its number, unless the number was edited
\* between a writer's last look at it and its fixing.
OneSequence ==
  \A s \in Scopes, k \in Keys :
    LET d == number[s][k].doc IN
    number[s][k].seq # 0 => s = fixed[d] \/ d \in late

\* withdraw, assign: an answered or closed comment is never made to disappear,
\* and a closed one only opens again by the reviewer's hand, unless the answer
\* came while a rejection that had already looked was about to write.
SettledKept ==
  [][\A s \in Scopes, k \in Keys :
       LET c == number[s][k]
           new == number'[s][k].status IN
       /\ c.status = CLOSED \/ (c.status = OPEN /\ c.replied)
            => new # WITHDRAWN \/ <<s, k>> \in late
       /\ c.status = CLOSED /\ new = OPEN => pc' = pc]_vars

\* _mint_crs_numbers: once the writes are over, a comment an engineer has
\* confirmed is issued in its document's sequence, unless a write raised.
ConfirmedIsIssued ==
  (\A w \in Writers : pc[w] = "idle") /\ fails = 0 =>
    \A r \in Runs, k \in Keys :
      LET d == DocOf[r] IN
      decision[r][k] = "confirmed" =>
        d \in late \/ (fixed[d] # NoScope /\ number[fixed[d]][k].issued)

\* crs_carry, crs_numbers.WITHDRAWN: the contractor's copy says nothing but what
\* an engineer has confirmed and nobody has rejected since.
IssuedIsConfirmed ==
  (\A w \in Writers : pc[w] = "idle") =>
    \A r \in Runs, k \in Keys : decision[r] # Nothing.decision => Copy(r, k) \subseteq approved[k]

=============================================================================
