--------------------------- MODULE CrsNumbersProofs ---------------------------
(***************************************************************************)
(* Proofs about the permanent numbers of review comments, for any          *)
(* documents, reviews, comments and writers.                               *)
(*                                                                         *)
(* Two parts hold each other up: what the register and the documents say   *)
(* (CommentsOK), and what a writer between two steps may rely on           *)
(* (WritersOK).  A number is given only to a document that is fixed, in    *)
(* the sequence it is fixed to, and is then there for ever.                *)
(***************************************************************************)
EXTENDS CrsNumbers, TLAPS

PCs == {"idle", "find", "look", "scope", "fix", "reopen", "claim", "issue", "snap",
        "withdraw", "write"}

Types ==
  /\ docno \in [Documents -> Numbers \cup {NoNumber}]
  /\ fixed \in [Documents -> Scopes \cup {NoScope}]
  /\ number \in [Scopes -> [Keys -> Comments]]
  /\ decision \in [Runs -> [Keys -> Decisions]]
  /\ words \in [Runs -> [Keys -> Words \cup {NoWords}]]
  /\ pc \in [Writers -> PCs] /\ job \in [Writers -> Jobs]
  /\ late \subseteq Documents \cup (Scopes \X Keys) /\ approved \in [Keys -> SUBSET Words]

\* The document a writer numbers.
Of(w) == DocOf[job[w].run]

\* A comment has nothing before its number, and its document's sequence with it.
CommentsOK ==
  \A s \in Scopes, k \in Keys :
    LET c == number[s][k] IN
    /\ c.seq = 0 => c.status = OPEN /\ ~c.issued /\ ~c.replied
    /\ c.seq # 0 => /\ c.doc \in Documents /\ fixed[c.doc] # NoScope
                    /\ s = fixed[c.doc] \/ c.doc \in late

\* What a writer has looked up, and where that may have changed since.
WriterOK(w) ==
  LET j == job[w]
      c == number[j.scope][j.key] IN
  /\ pc[w] # "idle" => j.run \in Runs
  /\ pc[w] \notin {"idle", "find", "look", "scope"} => j.scope \in Scopes
  /\ pc[w] \in {"claim", "issue", "snap", "write"} => j.key \in Keys
  /\ pc[w] = "fix" => Of(w) \in late \/ j.scope = scope_of_document(Of(w))
  /\ pc[w] \in {"reopen", "claim", "issue", "snap"} =>
       fixed[Of(w)] # NoScope /\ (j.scope = fixed[Of(w)] \/ Of(w) \in late)
  /\ pc[w] \in {"issue", "snap", "write"} => c.seq # 0
  /\ pc[w] \in {"withdraw", "write"} => j.todo = {}
  /\ pc[w] = "write" => <<j.scope, j.key>> \in late \/ (c.status # CLOSED /\ ~c.replied)

WritersOK == \A w \in Writers : WriterOK(w)

Inv == Types /\ CommentsOK /\ WritersOK

-----------------------------------------------------------------------------
(* The register. *)

\* What a writer at work relies on: what a comment is, and what the others
\* have looked up, changes only as WriterOK allows.
Kept ==
  /\ late \subseteq late'
  /\ \A d \in Documents : fixed[d] # NoScope => fixed'[d] = fixed[d]
  /\ \A s \in Scopes, k \in Keys : number[s][k].seq # 0 => number'[s][k].seq = number[s][k].seq
  /\ \A d \in Documents :
       (\E w \in Writers : pc[w] = "fix" /\ Of(w) = d) =>
         d \in late' \/ scope_of_document(d)' = scope_of_document(d)
  /\ \A s \in Scopes, k \in Keys :
       LET c == number[s][k]
           n == number'[s][k] IN
       Pending(s, k) /\ c.seq # 0 /\ c.status # CLOSED /\ ~c.replied =>
         <<s, k>> \in late' \/ (n.status # CLOSED /\ ~n.replied)

RegisterTypes ==
  /\ docno \in [Documents -> Numbers \cup {NoNumber}]
  /\ fixed \in [Documents -> Scopes \cup {NoScope}]
  /\ number \in [Scopes -> [Keys -> Comments]]
  /\ late \subseteq Documents \cup (Scopes \X Keys)

\* One comment of the register becomes c.
LEMMA OneComment ==
  ASSUME number \in [Scopes -> [Keys -> Comments]], NEW s \in Scopes, NEW k \in Keys,
         NEW c \in Comments, number' = [number EXCEPT ![s][k] = c]
  PROVE  /\ number' \in [Scopes -> [Keys -> Comments]]
         /\ number'[s][k] = c
         /\ \A t \in Scopes, j \in Keys : t # s \/ j # k => number'[t][j] = number[t][j]
  OBVIOUS

LEMMA SameRegister ==
  ASSUME Inv, UNCHANGED <<docVars, number, late>>
  PROVE  RegisterTypes' /\ CommentsOK' /\ Kept
<1>1. RegisterTypes'
  BY DEF Inv, Types, RegisterTypes, docVars
<1>2. CommentsOK'
  BY DEF Inv, CommentsOK, docVars
<1>3. Kept
  BY DEF Kept, docVars, scope_of_document, scope_for
<1> QED  BY <1>1, <1>2, <1>3

LEMMA FixStep ==
  ASSUME Inv, NEW w \in Writers, Fix(w)
  PROVE  RegisterTypes' /\ CommentsOK' /\ Kept
<1>1. Of(w) \in Documents /\ job[w].scope \in Scopes
  BY CrsAssumption DEF Fix, Inv, WritersOK, WriterOK, Of
<1>2. /\ fixed' = [fixed EXCEPT ![Of(w)] = IF @ = NoScope THEN job[w].scope ELSE @]
      /\ UNCHANGED <<docno, number, late, job>>
  BY DEF Fix, Of
<1>3. RegisterTypes'
  BY <1>1, <1>2 DEF Inv, Types, RegisterTypes
<1>4. \A d \in Documents : fixed[d] # NoScope => fixed'[d] = fixed[d]
  BY <1>2 DEF Inv, Types
<1>5. CommentsOK'
  BY <1>2, <1>4 DEF Inv, CommentsOK
<1>6. ASSUME NEW d \in Documents, d \notin late
      PROVE  scope_of_document(d)' = scope_of_document(d)
  <2>1. CASE d # Of(w) \/ fixed[d] # NoScope
    BY <1>1, <1>2, <2>1 DEF scope_of_document, scope_for, Inv, Types
  <2>2. CASE d = Of(w) /\ fixed[d] = NoScope
    <3>1. job[w].scope = scope_of_document(d)
      BY <1>6, <2>2 DEF Fix, Inv, WritersOK, WriterOK
    <3>2. fixed'[d] = job[w].scope
      BY <1>2, <2>2 DEF Inv, Types
    <3>3. fixed'[d] # NoScope
      BY <1>1, <3>2, CrsAssumption
    <3> QED  BY <3>1, <3>2, <3>3 DEF scope_of_document
  <2> QED  BY <2>1, <2>2
<1> QED  BY <1>2, <1>3, <1>4, <1>5, <1>6 DEF Kept

\* A step that changes one comment, which has a number or gets one.
LEMMA CommentStep ==
  ASSUME Inv, UNCHANGED <<docno, fixed>>, late \subseteq late', RegisterTypes',
         NEW s \in Scopes, NEW k \in Keys, NEW c \in Comments,
         number' = [number EXCEPT ![s][k] = c],
         number[s][k].seq # 0 => c.seq = number[s][k].seq /\ c.doc = number[s][k].doc,
         number[s][k].seq = 0 /\ c.seq # 0 =>
           /\ c.doc \in Documents /\ fixed[c.doc] # NoScope
           /\ s = fixed[c.doc] \/ c.doc \in late,
         c.seq = 0 => c.status = OPEN /\ ~c.issued /\ ~c.replied,
         \/ <<s, k>> \in late'
         \/ number[s][k].seq = 0
         \/ number[s][k].status # CLOSED /\ ~number[s][k].replied
              => c.status # CLOSED /\ ~c.replied
  PROVE  CommentsOK' /\ Kept
<1>1. /\ number'[s][k] = c
      /\ \A t \in Scopes, j \in Keys : t # s \/ j # k => number'[t][j] = number[t][j]
  BY OneComment DEF Inv, Types
<1>2. CommentsOK'
  <2> SUFFICES ASSUME NEW t \in Scopes, NEW j \in Keys
               PROVE  LET n == number'[t][j] IN
                      /\ n.seq = 0 => n.status = OPEN /\ ~n.issued /\ ~n.replied
                      /\ n.seq # 0 => /\ n.doc \in Documents /\ fixed[n.doc] # NoScope
                                      /\ t = fixed[n.doc] \/ n.doc \in late
    BY DEF CommentsOK
  <2>1. CASE t = s /\ j = k
    BY <1>1, <2>1 DEF Inv, CommentsOK
  <2>2. CASE t # s \/ j # k
    BY <1>1, <2>2 DEF Inv, CommentsOK
  <2> QED  BY <2>1, <2>2
<1>3. \A t \in Scopes, j \in Keys : number[t][j].seq # 0 => number'[t][j].seq = number[t][j].seq
  BY <1>1
<1>4. \A d \in Documents : scope_of_document(d)' = scope_of_document(d)
  BY DEF scope_of_document, scope_for
<1>5. ASSUME NEW t \in Scopes, NEW j \in Keys, number[t][j].seq # 0,
             number[t][j].status # CLOSED, ~number[t][j].replied
      PROVE  <<t, j>> \in late' \/ (number'[t][j].status # CLOSED /\ ~number'[t][j].replied)
  BY <1>1, <1>5
<1> QED  BY <1>2, <1>3, <1>4, <1>5 DEF Kept

LEMMA ReopenStep ==
  ASSUME Inv, NEW w \in Writers, Reopen(w)
  PROVE  RegisterTypes' /\ CommentsOK' /\ Kept
<1>1. PICK k \in job[w].todo :
        number' = [number EXCEPT ![job[w].scope][k].status = IF @ = WITHDRAWN THEN OPEN ELSE @]
  BY DEF Reopen
<1> DEFINE s == job[w].scope
           c == [number[s][k] EXCEPT !.status = IF @ = WITHDRAWN THEN OPEN ELSE @]
<1>2. s \in Scopes /\ k \in Keys
  BY <1>1 DEF Reopen, Inv, WritersOK, WriterOK, Types, Jobs
<1>3. c \in Comments /\ number[s][k] \in Comments
  <2>1. number[s][k] \in Comments
    BY <1>2 DEF Inv, Types
  <2> QED  BY <2>1 DEF Comments
<1>4. number' = [number EXCEPT ![s][k] = c]
  BY <1>1, <1>2 DEF Inv, Types
<1>5. UNCHANGED <<docno, fixed, late>>
  BY DEF Reopen, docVars
<1>6. RegisterTypes'
  BY <1>2, <1>3, <1>4, <1>5, OneComment DEF RegisterTypes, Inv, Types
<1>7. /\ c.seq = number[s][k].seq /\ c.doc = number[s][k].doc /\ c.replied = number[s][k].replied
      /\ c.issued = number[s][k].issued
      /\ c.status = IF number[s][k].status = WITHDRAWN THEN OPEN ELSE number[s][k].status
  BY <1>3 DEF Comments
<1>8. c.seq = 0 => c.status = OPEN /\ ~c.issued /\ ~c.replied
  BY <1>2, <1>7 DEF Inv, CommentsOK, OPEN, WITHDRAWN
<1>9. number[s][k].status # CLOSED /\ ~number[s][k].replied => c.status # CLOSED /\ ~c.replied
  BY <1>7 DEF OPEN, CLOSED
<1> HIDE DEF s, c
<1> QED  BY <1>2, <1>3, <1>4, <1>5, <1>6, <1>7, <1>8, <1>9, CommentStep

LEMMA ClaimStep ==
  ASSUME Inv, NEW w \in Writers, Claim(w)
  PROVE  RegisterTypes' /\ CommentsOK' /\ Kept
<1> DEFINE s == job[w].scope
           k == job[w].key
<1>1. s \in Scopes /\ k \in Keys /\ Of(w) \in Documents
  BY CrsAssumption DEF Claim, Inv, WritersOK, WriterOK, Types, Jobs, Of
<1>2. UNCHANGED <<docno, fixed, late>>
  BY DEF Claim, docVars
<1>3. CASE number[s][k].seq = 0
  <2>1. PICK n \in 1..MaxSeq :
          number' = [number EXCEPT ![s][k] =
                       [NoComment EXCEPT !.seq = n, !.issued = job[w].mint, !.doc = Of(w)]]
    BY <1>3 DEF Claim, Of
  <2> DEFINE c == [NoComment EXCEPT !.seq = n, !.issued = job[w].mint, !.doc = Of(w)]
  <2>2. job[w].mint \in BOOLEAN
    BY DEF Inv, Types, Jobs
  <2>3. c \in Comments /\ c.seq # 0 /\ c.doc = Of(w)
    <3>1. NoComment \in Comments
      BY CrsAssumption DEF NoComment, Comments
    <3>2. n \in 0..MaxSeq /\ n # 0
      BY CrsAssumption
    <3> QED  BY <1>1, <2>2, <3>1, <3>2 DEF Comments
  <2>4. fixed[Of(w)] # NoScope /\ (s = fixed[Of(w)] \/ Of(w) \in late)
    BY DEF Claim, Inv, WritersOK, WriterOK
  <2>5. RegisterTypes'
    BY <1>1, <1>2, <2>1, <2>3, OneComment DEF RegisterTypes, Inv, Types
  <2> HIDE DEF c, s, k
  <2> QED  BY <1>1, <1>2, <1>3, <2>1, <2>3, <2>4, <2>5, CommentStep DEF c
<1>4. CASE number[s][k].seq # 0
  BY <1>2, <1>4, SameRegister DEF Claim, docVars
<1> QED  BY <1>3, <1>4

LEMMA IssueOrSnapStep ==
  ASSUME Inv, NEW w \in Writers, Issue(w) \/ Snap(w)
  PROVE  RegisterTypes' /\ CommentsOK' /\ Kept
<1> DEFINE s == job[w].scope
           k == job[w].key
<1>1. s \in Scopes /\ k \in Keys /\ number[s][k].seq # 0
  BY DEF Issue, Snap, Inv, WritersOK, WriterOK
<1>2. UNCHANGED <<docno, fixed, late>>
  BY DEF Issue, Snap, docVars
<1>3. number[s][k] \in Comments
  BY <1>1 DEF Inv, Types
<1>4. job[w].found.words[k] \in Words \cup {NoWords}
  BY <1>1 DEF Inv, Types, Jobs, Reading
<1>5. PICK c \in {[number[s][k] EXCEPT !.issued = TRUE],
                  [number[s][k] EXCEPT !.says = job[w].found.words[k]]} :
        number' = [number EXCEPT ![s][k] = c]
  BY <1>1, <1>3 DEF Issue, Snap, Inv, Types
<1>6. /\ c \in Comments /\ c.seq = number[s][k].seq /\ c.doc = number[s][k].doc
      /\ c.status = number[s][k].status /\ c.replied = number[s][k].replied
  BY <1>3, <1>4, <1>5 DEF Comments
<1>7. RegisterTypes'
  BY <1>1, <1>2, <1>5, <1>6, OneComment DEF RegisterTypes, Inv, Types
<1> HIDE DEF s, k
<1> QED  BY <1>1, <1>2, <1>5, <1>6, <1>7, CommentStep

LEMMA UpdateStep ==
  ASSUME Inv, NEW s \in Scopes, NEW k \in Keys,
         set_response(s, k) \/ \E status \in STATUSES : set_status(s, k, status)
  PROVE  RegisterTypes' /\ CommentsOK' /\ Kept
<1>1. number[s][k] \in Comments
  BY DEF Inv, Types
<1>2. PICK c \in {[number[s][k] EXCEPT !.replied = TRUE]}
                 \cup {[number[s][k] EXCEPT !.status = x] : x \in STATUSES} : Update(s, k, c)
  BY DEF set_response, set_status
<1>3. c \in Comments /\ c.seq = number[s][k].seq /\ c.doc = number[s][k].doc
  BY <1>1, <1>2 DEF Comments, STATUSES
<1>4. /\ number[s][k].seq # 0 /\ number' = [number EXCEPT ![s][k] = c]
      /\ UNCHANGED <<docno, fixed>>
      /\ late' = IF Pending(s, k) THEN late \cup {<<s, k>>} ELSE late
  BY <1>2 DEF Update, docVars
<1>5. RegisterTypes'
  BY <1>3, <1>4, OneComment DEF RegisterTypes, Inv, Types
<1>6. CASE Pending(s, k)
  BY <1>3, <1>4, <1>5, <1>6, CommentStep
<1>7. CASE ~Pending(s, k)
  <2>1. CommentsOK'
    <3>1. /\ number'[s][k] = c
          /\ \A t \in Scopes, j \in Keys : t # s \/ j # k => number'[t][j] = number[t][j]
      BY <1>3, <1>4, OneComment DEF Inv, Types
    <3> QED  BY <1>3, <1>4, <1>7, <3>1 DEF Inv, CommentsOK
  <2>2. \A t \in Scopes, j \in Keys : Pending(t, j) => number'[t][j] = number[t][j]
    BY <1>3, <1>4, <1>7, OneComment DEF Inv, Types
  <2>3. \A t \in Scopes, j \in Keys : number'[t][j].seq = number[t][j].seq
    BY <1>3, <1>4, OneComment DEF Inv, Types
  <2>4. \A d \in Documents : scope_of_document(d)' = scope_of_document(d)
    BY <1>4 DEF scope_of_document, scope_for
  <2>5. Kept
    BY <1>4, <1>7, <2>2, <2>3, <2>4 DEF Kept
  <2> QED  BY <1>5, <2>1, <2>5
<1> QED  BY <1>6, <1>7

LEMMA WithdrawStep ==
  ASSUME Inv, NEW w \in Writers, WithdrawWrite(w)
  PROVE  RegisterTypes' /\ CommentsOK' /\ Kept
<1> DEFINE s == job[w].scope
           Goes(k) == k = job[w].key \/ (k \in job[w].out /\ Withdrawable(number[s][k]))
<1>1. s \in Scopes /\ job[w].key \in Keys /\ number[s][job[w].key].seq # 0
  BY DEF WithdrawWrite, Inv, WritersOK, WriterOK
<1>2. UNCHANGED <<docno, fixed, late>>
  BY DEF WithdrawWrite, docVars
<1>3. number' = [number EXCEPT ![s] = [k \in Keys |->
                   IF Goes(k) THEN [number[s][k] EXCEPT !.status = WITHDRAWN] ELSE number[s][k]]]
  BY DEF WithdrawWrite
<1>4. \A t \in Scopes, k \in Keys :
        number'[t][k] = IF t = s /\ Goes(k) THEN [number[t][k] EXCEPT !.status = WITHDRAWN]
                                            ELSE number[t][k]
  BY <1>1, <1>3 DEF Inv, Types
<1>5. \A k \in Keys : Goes(k) => number[s][k].seq # 0
  BY <1>1 DEF Withdrawable
<1>6. \A t \in Scopes, k \in Keys : number[t][k] \in Comments
  BY DEF Inv, Types
<1> HIDE DEF Goes, s
<1>7. ASSUME NEW t \in Scopes, NEW k \in Keys
      PROVE  LET c == number[t][k]
                 n == number'[t][k] IN
             /\ n \in Comments /\ n.seq = c.seq /\ n.doc = c.doc
             /\ n.issued = c.issued /\ n.replied = c.replied
             /\ n.status # c.status => n.status = WITHDRAWN /\ c.seq # 0
  <2>1. number[t][k] \in Comments
    BY <1>6
  <2>2. CASE t = s /\ Goes(k)
    <3>1. number'[t][k] = [number[t][k] EXCEPT !.status = WITHDRAWN] /\ number[t][k].seq # 0
      BY <1>4, <1>5, <2>2
    <3> QED  BY <2>1, <3>1 DEF Comments
  <2>3. CASE ~(t = s /\ Goes(k))
    BY <1>4, <2>1, <2>3
  <2> QED  BY <2>2, <2>3
<1>8. number' \in [Scopes -> [Keys -> Comments]]
  <2>1. number' \in [Scopes -> [Keys -> UNION {{number'[t][k] : k \in Keys} : t \in Scopes}]]
    BY <1>1, <1>3, <1>6 DEF Inv, Types
  <2> QED  BY <1>7, <2>1
<1>9. RegisterTypes'
  BY <1>2, <1>8 DEF RegisterTypes, Inv, Types
<1>10. CommentsOK'
  BY <1>2, <1>7 DEF Inv, CommentsOK
<1>11. \A d \in Documents : scope_of_document(d)' = scope_of_document(d)
  BY <1>2 DEF scope_of_document, scope_for
<1>12. Kept
  BY <1>2, <1>7, <1>11 DEF Kept, CLOSED, WITHDRAWN
<1> QED  BY <1>9, <1>10, <1>12

LEMMA EditStep ==
  ASSUME Inv, NEW d \in Documents, EditNumber(d)
  PROVE  RegisterTypes' /\ CommentsOK' /\ Kept
<1>1. PICK n \in Numbers \cup {NoNumber} : docno' = [docno EXCEPT ![d] = n]
  BY DEF EditNumber
<1>2. /\ UNCHANGED <<fixed, number>>
      /\ late' = IF \E w \in Writers : pc[w] = "fix" /\ Of(w) = d THEN late \cup {d} ELSE late
  BY DEF EditNumber, Of
<1>3. RegisterTypes'
  BY <1>1, <1>2 DEF RegisterTypes, Inv, Types
<1>4. CommentsOK'
  BY <1>2 DEF Inv, CommentsOK
<1>5. \A e \in Documents : e # d => scope_of_document(e)' = scope_of_document(e)
  BY <1>1, <1>2 DEF scope_of_document, scope_for, Inv, Types
<1>6. Kept
  BY <1>2, <1>5 DEF Kept
<1> QED  BY <1>3, <1>4, <1>6

-----------------------------------------------------------------------------
(* The writers. *)

WriterTypes == pc \in [Writers -> PCs] /\ job \in [Writers -> Jobs]

\* A writer that takes no step has what it had.
LEMMA OtherWriter ==
  ASSUME Inv, RegisterTypes', CommentsOK', Kept, NEW w \in Writers,
         pc'[w] = pc[w], job'[w] = job[w]
  PROVE  WriterOK(w)'
<1> DEFINE s == job[w].scope
           k == job[w].key
<1>1. WriterOK(w)
  BY DEF Inv, WritersOK
<1>2. pc[w] # "idle" => Of(w) \in Documents
  BY <1>1, CrsAssumption DEF WriterOK, Of
<1>3. Of(w)' = Of(w)
  BY DEF Of
<1>4. pc[w] = "fix" => Of(w) \in late' \/ s = scope_of_document(Of(w))'
  <2>1. ASSUME NEW d \in Documents, pc[w] = "fix", d = Of(w), d \notin late'
        PROVE  s = scope_of_document(d)'
    <3>1. s = scope_of_document(d)
      BY <1>1, <2>1 DEF WriterOK, Kept
    <3>2. scope_of_document(d)' = scope_of_document(d)
      BY <2>1 DEF Kept
    <3> QED  BY <3>1, <3>2
  <2> QED  BY <1>2, <1>3, <2>1
<1>5. pc[w] \in {"reopen", "claim", "issue", "snap"} =>
        fixed'[Of(w)] # NoScope /\ (s = fixed'[Of(w)] \/ Of(w) \in late')
  BY <1>1, <1>2 DEF WriterOK, Kept
<1>6. pc[w] \in {"issue", "snap", "write"} => number'[s][k].seq # 0
  BY <1>1 DEF WriterOK, Kept
<1>7. pc[w] = "write" =>
        <<s, k>> \in late' \/ (number'[s][k].status # CLOSED /\ ~number'[s][k].replied)
  <2> SUFFICES ASSUME pc[w] = "write", <<s, k>> \notin late'
               PROVE  number'[s][k].status # CLOSED /\ ~number'[s][k].replied
    OBVIOUS
  <2>1. <<s, k>> \notin late
    BY DEF Kept
  <2>2. s \in Scopes /\ k \in Keys /\ Pending(s, k)
    BY <1>1 DEF WriterOK, Pending
  <2>3. number[s][k].seq # 0 /\ number[s][k].status # CLOSED /\ ~number[s][k].replied
    BY <1>1, <2>1 DEF WriterOK
  <2> QED  BY <2>2, <2>3 DEF Kept
<1> QED
  BY <1>1, <1>3, <1>4, <1>5, <1>6, <1>7 DEF WriterOK

LEMMA GoType ==
  ASSUME WriterTypes, NEW w \in Writers, NEW next \in PCs, NEW j \in Jobs, Go(w, next, j)
  PROVE  /\ WriterTypes'
         /\ pc'[w] = next /\ (next # "idle" => job'[w] = j)
         /\ \A v \in Writers \ {w} : pc'[v] = pc[v] /\ job'[v] = job[v]
<1>1. NoJob \in Jobs
  BY DEF NoJob, Jobs, Nothing, Reading, Decisions
<1> QED  BY <1>1 DEF WriterTypes, Go, Goto, PCs

\* A writer that goes from one comment to what comes next.
LEMMA NextPlace ==
  ASSUME Inv, RegisterTypes', CommentsOK', Kept, NEW w \in Writers,
         pc[w] \in {"reopen", "claim", "issue", "snap"},
         NEW j \in Jobs, j.run = job[w].run, j.scope = job[w].scope, j.key \in Keys,
         NEW next, Go(w, next, j), NEW c,
         next \in {ToClaim(j, c), ToIssue(j, c), ToSnap(j), After(j)},
         next \in {"issue", "snap"} => number'[j.scope][j.key].seq # 0
  PROVE  WriterTypes' /\ WritersOK'
<1>1. WriterTypes
  BY DEF Inv, Types, WriterTypes
<1>2. /\ next \in {"claim", "issue", "snap", "reopen", "withdraw", "idle"}
      /\ next = "withdraw" => j.todo = {}
  BY DEF ToClaim, ToIssue, ToSnap, After
<1>3. next \in PCs
  BY <1>2 DEF PCs
<1>4. /\ WriterTypes'
      /\ pc'[w] = next /\ (next # "idle" => job'[w] = j)
      /\ \A v \in Writers \ {w} : pc'[v] = pc[v] /\ job'[v] = job[v]
  BY <1>1, <1>3, GoType
<1>5. WriterOK(w)'
  <2>1. WriterOK(w)
    BY DEF Inv, WritersOK
  <2>2. Of(w) \in Documents
    BY <2>1, CrsAssumption DEF WriterOK, Of
  <2>3. fixed'[Of(w)] # NoScope /\ (j.scope = fixed'[Of(w)] \/ Of(w) \in late')
    BY <2>1, <2>2 DEF WriterOK, Kept
  <2>4. next # "idle" => Of(w)' = Of(w)
    BY <1>4 DEF Of
  <2> QED  BY <1>2, <1>4, <2>1, <2>3, <2>4 DEF WriterOK
<1> QED  BY <1>4, <1>5, OtherWriter DEF WritersOK

\* A step that leaves the register alone and takes one writer to a sound place.
LEMMA OneWriter ==
  ASSUME Inv, RegisterTypes', CommentsOK', Kept, NEW w \in Writers,
         NEW l \in PCs, NEW j \in Jobs,
         pc' = [pc EXCEPT ![w] = l], job' = [job EXCEPT ![w] = j],
         WriterOK(w)'
  PROVE  WriterTypes' /\ WritersOK'
<1>1. WriterTypes'
  BY DEF Inv, Types, WriterTypes
<1>2. \A v \in Writers \ {w} : pc'[v] = pc[v] /\ job'[v] = job[v]
  BY DEF Inv, Types
<1> QED  BY <1>1, <1>2, OtherWriter DEF WritersOK

LEMMA BeginWriter ==
  ASSUME Inv, RegisterTypes', CommentsOK', Kept,
         NEW w \in Writers, NEW r \in Runs, NEW isMint \in BOOLEAN, Begin(w, r, isMint)
  PROVE  WriterTypes' /\ WritersOK'
<1> DEFINE j == [NoJob EXCEPT !.run = r, !.mint = isMint]
<1>1. NoJob \in Jobs
  BY DEF NoJob, Jobs, Nothing, Reading, Decisions
<1>2. j \in Jobs /\ j.run = r
  BY <1>1 DEF Jobs
<1>3. pc' = [pc EXCEPT ![w] = "find"] /\ job' = [job EXCEPT ![w] = j]
  BY DEF Begin, Goto
<1>4. pc'[w] = "find" /\ job'[w] = j
  BY <1>3 DEF Inv, Types
<1> HIDE DEF j
<1>5. WriterOK(w)'
  BY <1>2, <1>4 DEF WriterOK
<1>6. "find" \in PCs
  BY DEF PCs
<1> QED  BY <1>2, <1>3, <1>5, <1>6, OneWriter

LEMMA IdleWriter ==
  ASSUME Inv, RegisterTypes', CommentsOK', Kept, NEW w \in Writers, NEW j, Go(w, "idle", j)
  PROVE  WriterTypes' /\ WritersOK'
<1>1. NoJob \in Jobs
  BY DEF NoJob, Jobs, Nothing, Reading, Decisions
<1>2. pc' = [pc EXCEPT ![w] = "idle"] /\ job' = [job EXCEPT ![w] = NoJob]
  BY DEF Go, Goto
<1>3. pc'[w] = "idle"
  BY <1>2 DEF Inv, Types
<1>4. WriterOK(w)'
  BY <1>3 DEF WriterOK
<1>5. "idle" \in PCs
  BY DEF PCs
<1> QED  BY <1>1, <1>2, <1>4, <1>5, OneWriter

LEMMA FindWriter ==
  ASSUME Inv, RegisterTypes', CommentsOK', Kept, NEW w \in Writers, Find(w)
  PROVE  WriterTypes' /\ WritersOK'
<1> DEFINE j == [job[w] EXCEPT !.found = Findings(job[w].run)]
<1>1. job[w].run \in Runs
  BY DEF Find, Inv, WritersOK, WriterOK
<1>2. job[w] \in Jobs
  BY DEF Inv, Types
<1>3. Findings(job[w].run) \in Reading
  BY <1>1 DEF Findings, Reading, Inv, Types
<1>4. j \in Jobs /\ j.run \in Runs
  BY <1>1, <1>2, <1>3 DEF Jobs
<1>5. pc' = [pc EXCEPT ![w] = "look"] /\ job' = [job EXCEPT ![w] = j]
  BY DEF Find, Goto, Inv, Types
<1>6. pc'[w] = "look" /\ job'[w] = j
  BY <1>5 DEF Inv, Types
<1> HIDE DEF j
<1>7. WriterOK(w)'
  BY <1>4, <1>6 DEF WriterOK
<1>8. "look" \in PCs
  BY DEF PCs
<1> QED  BY <1>4, <1>5, <1>7, <1>8, OneWriter

LEMMA LookWriter ==
  ASSUME Inv, RegisterTypes', CommentsOK', Kept, NEW w \in Writers, Look(w)
  PROVE  WriterTypes' /\ WritersOK'
<1>1. PICK a \in SUBSET Keys, b \in SUBSET Keys, c \in SUBSET Keys :
        job' = [job EXCEPT ![w].todo = a, ![w].snaps = b, ![w].out = c]
  BY DEF Look, Theirs, Rows
<1> DEFINE j == [job[w] EXCEPT !.todo = a, !.snaps = b, !.out = c]
<1>2. job[w] \in Jobs /\ job[w].run \in Runs
  BY DEF Look, Inv, Types, WritersOK, WriterOK
<1>3. j \in Jobs /\ j.run \in Runs
  BY <1>2 DEF Jobs
<1>4. pc' = [pc EXCEPT ![w] = "scope"] /\ job' = [job EXCEPT ![w] = j]
  BY <1>1 DEF Look, Goto, Inv, Types
<1>5. pc'[w] = "scope" /\ job'[w] = j
  BY <1>4 DEF Inv, Types
<1> HIDE DEF j
<1>6. WriterOK(w)'
  BY <1>3, <1>5 DEF WriterOK
<1>7. "scope" \in PCs
  BY DEF PCs
<1> QED  BY <1>3, <1>4, <1>6, <1>7, OneWriter

LEMMA ScopeWriter ==
  ASSUME Inv, RegisterTypes', CommentsOK', Kept, NEW w \in Writers, Scope(w)
  PROVE  WriterTypes' /\ WritersOK'
<1> DEFINE s == scope_of_document(Of(w))
           j == [job[w] EXCEPT !.scope = s]
           next == IF j.todo # {} THEN "fix" ELSE After(j)
<1>1. job[w] \in Jobs /\ job[w].run \in Runs /\ Of(w) \in Documents
  BY CrsAssumption DEF Scope, Inv, Types, WritersOK, WriterOK, Of
<1>2. s \in Scopes
  BY <1>1 DEF scope_of_document, scope_for, Inv, Types, Scopes
<1>3. j \in Jobs /\ j.scope = s /\ j.run = job[w].run
  BY <1>1, <1>2 DEF Jobs
<1>4. Go(w, next, j) /\ UNCHANGED <<docVars>>
  BY DEF Scope, Of
<1>5. next \in {"fix", "withdraw", "idle"} /\ (next = "withdraw" => j.todo = {})
  BY DEF After
<1>6. CASE next = "idle"
  BY <1>4, <1>6, IdleWriter
<1>7. CASE next # "idle"
  <2>1. pc' = [pc EXCEPT ![w] = next] /\ job' = [job EXCEPT ![w] = j]
    BY <1>4, <1>7 DEF Go, Goto
  <2>2. pc'[w] = next /\ job'[w] = j
    BY <2>1 DEF Inv, Types
  <2>3. Of(w)' = Of(w)
    BY <1>3, <2>2 DEF Of
  <2>4. \A d \in Documents : scope_of_document(d)' = scope_of_document(d)
    BY <1>4 DEF docVars, scope_of_document, scope_for
  <2>5. scope_of_document(Of(w))' = s
    BY <1>1, <1>4, <2>3 DEF docVars, scope_of_document, scope_for
  <2> HIDE DEF j, next, s
  <2>6. WriterOK(w)'
    BY <1>1, <1>2, <1>3, <1>5, <1>7, <2>2, <2>5 DEF WriterOK
  <2>7. next \in PCs
    BY <1>5 DEF PCs
  <2> QED  BY <1>3, <2>1, <2>6, <2>7, OneWriter
<1> QED  BY <1>6, <1>7

LEMMA FixWriter ==
  ASSUME Inv, RegisterTypes', CommentsOK', Kept, NEW w \in Writers, Fix(w)
  PROVE  WriterTypes' /\ WritersOK'
<1> DEFINE d == Of(w)
<1>1. /\ job[w] \in Jobs /\ job[w].run \in Runs /\ d \in Documents /\ job[w].scope \in Scopes
      /\ d \in late \/ job[w].scope = scope_of_document(d)
  BY CrsAssumption DEF Fix, Inv, Types, WritersOK, WriterOK, Of
<1>2. /\ fixed' = [fixed EXCEPT ![d] = IF @ = NoScope THEN job[w].scope ELSE @]
      /\ UNCHANGED <<job, late>>
  BY DEF Fix, Of
<1>3. fixed'[d] # NoScope /\ (job[w].scope = fixed'[d] \/ d \in late')
  BY <1>1, <1>2, CrsAssumption DEF scope_of_document, Inv, Types
<1>4. pc' = [pc EXCEPT ![w] = "reopen"] /\ job' = [job EXCEPT ![w] = job[w]]
  BY <1>2 DEF Fix, Goto, Inv, Types
<1>5. pc'[w] = "reopen" /\ job'[w] = job[w] /\ Of(w)' = d
  BY <1>2, <1>4 DEF Inv, Types, Of
<1> HIDE DEF d
<1>6. WriterOK(w)'
  BY <1>1, <1>3, <1>5 DEF WriterOK
<1>7. "reopen" \in PCs
  BY DEF PCs
<1> QED  BY <1>1, <1>4, <1>6, <1>7, OneWriter

LEMMA WithdrawLookWriter ==
  ASSUME Inv, RegisterTypes', CommentsOK', Kept, NEW w \in Writers, WithdrawLook(w)
  PROVE  WriterTypes' /\ WritersOK'
<1>1. PICK k \in job[w].out :
        LET left == [job[w] EXCEPT !.out = @ \ {k}, !.key = k] IN
        Go(w, IF Withdrawable(number[job[w].scope][k]) THEN "write" ELSE After(left), left)
  BY DEF WithdrawLook
<1> DEFINE j == [job[w] EXCEPT !.out = @ \ {k}, !.key = k]
           next == IF Withdrawable(number[job[w].scope][k]) THEN "write" ELSE After(j)
<1>2. /\ job[w] \in Jobs /\ job[w].run \in Runs /\ job[w].scope \in Scopes /\ job[w].todo = {}
      /\ UNCHANGED number
  BY DEF WithdrawLook, Inv, Types, WritersOK, WriterOK
<1>3. k \in Keys
  BY <1>1, <1>2 DEF Jobs
<1>4. /\ j \in Jobs /\ j.scope = job[w].scope /\ j.run = job[w].run /\ j.key = k /\ j.todo = {}
  BY <1>2, <1>3 DEF Jobs
<1>5. next \in {"write", "withdraw", "idle"}
  BY <1>4 DEF After
<1>6. Go(w, next, j)
  BY <1>1
<1>7. CASE next = "idle"
  BY <1>6, <1>7, IdleWriter
<1>8. CASE next # "idle"
  <2>1. pc' = [pc EXCEPT ![w] = next] /\ job' = [job EXCEPT ![w] = j]
    BY <1>6, <1>8 DEF Go, Goto
  <2>2. pc'[w] = next /\ job'[w] = j
    BY <2>1 DEF Inv, Types
  <2>3. next = "write" => Withdrawable(number[job[w].scope][k])
    BY DEF After
  <2> HIDE DEF j, next
  <2>4. WriterOK(w)'
    BY <1>2, <1>3, <1>4, <1>5, <1>8, <2>2, <2>3 DEF WriterOK, Withdrawable, OPEN, CLOSED
  <2>5. next \in PCs
    BY <1>5 DEF PCs
  <2> QED  BY <1>4, <2>1, <2>4, <2>5, OneWriter
<1> QED  BY <1>7, <1>8

LEMMA ReopenWriter ==
  ASSUME Inv, RegisterTypes', CommentsOK', Kept, NEW w \in Writers, Reopen(w)
  PROVE  WriterTypes' /\ WritersOK'
<1>1. PICK k \in job[w].todo :
        LET j == [job[w] EXCEPT !.key = k, !.todo = @ \ {k}] IN
        Go(w, ToClaim(j, number[job[w].scope][k]), j)
  BY DEF Reopen
<1> DEFINE j == [job[w] EXCEPT !.key = k, !.todo = @ \ {k}]
           c == number[job[w].scope][k]
<1>2. job[w] \in Jobs /\ job[w].scope \in Scopes
  BY DEF Reopen, Inv, Types, WritersOK, WriterOK
<1>3. k \in Keys
  BY <1>1, <1>2 DEF Jobs
<1>4. j \in Jobs /\ j.scope = job[w].scope /\ j.run = job[w].run /\ j.key = k
  BY <1>2, <1>3 DEF Jobs
<1>5. Go(w, ToClaim(j, c), j)
  BY <1>1
<1>6. ToClaim(j, c) \in {"issue", "snap"} => c.seq # 0
  BY DEF ToClaim
<1>7. ToClaim(j, c) \in {"issue", "snap"} => number'[j.scope][j.key].seq # 0
  BY <1>2, <1>3, <1>4, <1>6 DEF Kept
<1>8. pc[w] = "reopen"
  BY DEF Reopen
<1> HIDE DEF j, c
<1> QED  BY <1>3, <1>4, <1>5, <1>7, <1>8, NextPlace

LEMMA ClaimWriter ==
  ASSUME Inv, RegisterTypes', CommentsOK', Kept, NEW w \in Writers, Claim(w)
  PROVE  WriterTypes' /\ WritersOK'
<1> DEFINE j == job[w]
           c == number[j.scope][j.key]
<1>1. j \in Jobs /\ j.scope \in Scopes /\ j.key \in Keys /\ pc[w] = "claim"
  BY DEF Claim, Inv, Types, WritersOK, WriterOK
<1>2. CASE c.seq = 0
  <2>1. PICK n \in 1..MaxSeq :
          /\ number' = [number EXCEPT ![j.scope][j.key] =
                          [NoComment EXCEPT !.seq = n, !.issued = j.mint, !.doc = DocOf[j.run]]]
          /\ Go(w, ToSnap(j), j)
    BY <1>2 DEF Claim
  <2>2. number'[j.scope][j.key].seq = n
    BY <1>1, <2>1 DEF Inv, Types, NoComment
  <2>3. n # 0
    BY CrsAssumption
  <2> HIDE DEF j
  <2> QED  BY <1>1, <2>1, <2>2, <2>3, NextPlace DEF j
<1>3. CASE c.seq # 0
  <2>1. Go(w, ToIssue(j, c), j) /\ UNCHANGED number
    BY <1>3 DEF Claim
  <2> QED  BY <1>1, <1>3, <2>1, NextPlace
<1> QED  BY <1>2, <1>3

LEMMA IssueOrSnapWriter ==
  ASSUME Inv, RegisterTypes', CommentsOK', Kept, NEW w \in Writers, Issue(w) \/ Snap(w)
  PROVE  WriterTypes' /\ WritersOK'
<1> DEFINE j == job[w]
<1>1. /\ j \in Jobs /\ j.scope \in Scopes /\ j.key \in Keys /\ pc[w] \in {"issue", "snap"}
      /\ number[j.scope][j.key].seq # 0
  BY DEF Issue, Snap, Inv, Types, WritersOK, WriterOK
<1>2. PICK next \in {ToSnap(j), After(j)} : Go(w, next, j)
  BY DEF Issue, Snap
<1>3. number'[j.scope][j.key].seq # 0
  BY <1>1 DEF Kept
<1> QED  BY <1>1, <1>2, <1>3, NextPlace

-----------------------------------------------------------------------------
(* Every step, and the properties. *)

FindingTypes ==
  /\ decision \in [Runs -> [Keys -> Decisions]]
  /\ words \in [Runs -> [Keys -> Words \cup {NoWords}]]
  /\ approved \in [Keys -> SUBSET Words]

LEMMA FindingStep ==
  ASSUME FindingTypes, [Next]_vars
  PROVE  FindingTypes'
<1> USE DEF FindingTypes
<1>1. ASSUME NEW w \in Writers, NEW r \in Runs, Finish(w, r)
      PROVE  FindingTypes'
  <2>1. PICK raised \in SUBSET Keys, said \in [Keys -> Words] :
          /\ decision' = [decision EXCEPT ![r] =
                            [k \in Keys |-> IF k \in raised THEN "draft" ELSE "absent"]]
          /\ words' = [words EXCEPT ![r] =
                         [k \in Keys |-> IF k \in raised THEN said[k] ELSE NoWords]]
    BY <1>1 DEF Finish
  <2>2. UNCHANGED approved
    BY <1>1 DEF Finish
  <2> QED  BY <2>1, <2>2 DEF Decisions
<1>2. ASSUME NEW w \in Writers, NEW r \in Runs, NEW k \in Keys, NEW said \in Words,
             Confirm(w, r, k, said)
      PROVE  FindingTypes'
  <2>1. decision' \in [Runs -> [Keys -> Decisions]]
    BY <1>2 DEF Confirm, Decisions
  <2>2. words' \in [Runs -> [Keys -> Words \cup {NoWords}]]
    BY <1>2 DEF Confirm
  <2>3. approved' \in [Keys -> SUBSET Words]
    BY <1>2 DEF Confirm
  <2> QED  BY <2>1, <2>2, <2>3
<1>3. ASSUME NEW w \in Writers, NEW r \in Runs, NEW k \in Keys, Reject(w, r, k)
      PROVE  FindingTypes'
  BY <1>3 DEF Reject, Decisions
<1>4. CASE UNCHANGED runVars
  BY <1>4 DEF runVars
<1>5. ASSUME NEW w \in Writers, Write(w) \/ Fail(w) \/ \E r \in Runs : RecordCode(w, r)
      PROVE  UNCHANGED runVars
  BY <1>5 DEF Write, Fail, RecordCode, Find, Look, Scope, Fix, Reopen, Claim, Issue, Snap,
       WithdrawLook, WithdrawWrite
<1>6. ASSUME NEW s \in Scopes, NEW k \in Keys,
             set_response(s, k) \/ \E status \in STATUSES : set_status(s, k, status)
      PROVE  UNCHANGED runVars
  BY <1>6 DEF set_response, set_status, Update
<1>7. ASSUME NEW d \in Documents, EditNumber(d)
      PROVE  UNCHANGED runVars
  BY <1>7 DEF EditNumber
<1> QED
  BY <1>1, <1>2, <1>3, <1>4, <1>5, <1>6, <1>7 DEF Next, vars

\* Where nobody's place changes, everybody's is as sound as it was.
LEMMA NoWriter ==
  ASSUME Inv, RegisterTypes', CommentsOK', Kept, UNCHANGED <<pc, job>>
  PROVE  WriterTypes' /\ WritersOK'
<1>1. WriterTypes'
  BY DEF Inv, Types, WriterTypes
<1> QED  BY <1>1, OtherWriter DEF WritersOK

LEMMA InvStep ==
  ASSUME Inv, [Next]_vars
  PROVE  Inv' /\ Kept
<1>1. FindingTypes'
  BY FindingStep DEF Inv, Types, FindingTypes
<1>2. SUFFICES RegisterTypes' /\ CommentsOK' /\ Kept /\ WriterTypes' /\ WritersOK'
  BY <1>1 DEF Inv, Types, RegisterTypes, WriterTypes, FindingTypes
<1>3. ASSUME NEW w \in Writers, NEW r \in Runs, NEW isMint \in BOOLEAN, Begin(w, r, isMint),
             UNCHANGED <<docVars, number, late>>
      PROVE  RegisterTypes' /\ CommentsOK' /\ Kept /\ WriterTypes' /\ WritersOK'
  BY <1>3, SameRegister, BeginWriter
<1>4. ASSUME NEW w \in Writers, NEW r \in Runs,
             \/ Finish(w, r) \/ RecordCode(w, r)
             \/ \E k \in Keys : Reject(w, r, k) \/ \E said \in Words : Confirm(w, r, k, said)
      PROVE  /\ Begin(w, r, TRUE) \/ Begin(w, r, FALSE)
             /\ UNCHANGED <<docVars, number, late>>
  BY <1>4 DEF Finish, RecordCode, Reject, Confirm
<1>5. ASSUME NEW w \in Writers, Write(w)
      PROVE  RegisterTypes' /\ CommentsOK' /\ Kept /\ WriterTypes' /\ WritersOK'
  <2>1. CASE Find(w)
    BY <2>1, SameRegister, FindWriter DEF Find, runVars
  <2>2. CASE Look(w)
    BY <2>2, SameRegister, LookWriter DEF Look
  <2>3. CASE Scope(w)
    BY <2>3, SameRegister, ScopeWriter DEF Scope
  <2>4. CASE Fix(w)
    BY <2>4, FixStep, FixWriter
  <2>5. CASE Reopen(w)
    BY <2>5, ReopenStep, ReopenWriter
  <2>6. CASE Claim(w)
    BY <2>6, ClaimStep, ClaimWriter
  <2>7. CASE Issue(w) \/ Snap(w)
    BY <2>7, IssueOrSnapStep, IssueOrSnapWriter
  <2>8. CASE WithdrawLook(w)
    BY <2>8, SameRegister, WithdrawLookWriter DEF WithdrawLook
  <2>9. CASE WithdrawWrite(w)
    <3>1. Go(w, "idle", NoJob)
      BY <2>9 DEF WithdrawWrite
    <3> QED  BY <2>9, <3>1, WithdrawStep, IdleWriter
  <2> QED
    BY <1>5, <2>1, <2>2, <2>3, <2>4, <2>5, <2>6, <2>7, <2>8, <2>9 DEF Write
<1>6. ASSUME NEW w \in Writers, Fail(w)
      PROVE  RegisterTypes' /\ CommentsOK' /\ Kept /\ WriterTypes' /\ WritersOK'
  BY <1>6, SameRegister, IdleWriter DEF Fail
<1>7. ASSUME NEW s \in Scopes, NEW k \in Keys,
             set_response(s, k) \/ \E status \in STATUSES : set_status(s, k, status)
      PROVE  RegisterTypes' /\ CommentsOK' /\ Kept /\ WriterTypes' /\ WritersOK'
  <2>1. UNCHANGED <<pc, job>>
    BY <1>7 DEF set_response, set_status, Update
  <2> QED  BY <1>7, <2>1, UpdateStep, NoWriter
<1>8. ASSUME NEW d \in Documents, EditNumber(d)
      PROVE  RegisterTypes' /\ CommentsOK' /\ Kept /\ WriterTypes' /\ WritersOK'
  <2>1. UNCHANGED <<pc, job>>
    BY <1>8 DEF EditNumber
  <2> QED  BY <1>8, <2>1, EditStep, NoWriter
<1>9. CASE UNCHANGED vars
  BY <1>9, SameRegister, NoWriter DEF vars
<1> QED
  BY <1>3, <1>4, <1>5, <1>6, <1>7, <1>8, <1>9 DEF Next

LEMMA InvHolds == Spec => []Inv
<1>1. Init => Inv
  <2> SUFFICES ASSUME Init  PROVE Inv
    OBVIOUS
  <2>1. NoJob \in Jobs /\ NoComment \in Comments /\ Nothing \in Reading
    BY CrsAssumption DEF NoJob, Jobs, Nothing, Reading, Decisions, NoComment, Comments
  <2>2. Types
    BY <2>1 DEF Init, Types, PCs, Reading
  <2>3. \A s \in Scopes, k \in Keys : number[s][k] = NoComment
    BY DEF Init
  <2>4. CommentsOK
    BY <2>3 DEF CommentsOK, NoComment
  <2>5. WritersOK
    BY DEF Init, WritersOK, WriterOK
  <2> QED  BY <2>2, <2>4, <2>5 DEF Inv
<1>2. Inv /\ [Next]_vars => Inv'
  BY InvStep
<1> QED  BY <1>1, <1>2, PTL DEF Spec

\* Every variable keeps its type, and whatever has a number is in a document
\* that is fixed to a sequence.
THEOREM TypesHold == Spec => []TypeOK
<1>1. Inv => TypeOK
  BY DEF Inv, Types, PCs, CommentsOK, TypeOK
<1> QED  BY <1>1, InvHolds, PTL

\* crs_document_scope: however many reviews and revisions are numbered at once,
\* a document's comments are numbered in one sequence, unless its number was
\* edited at the one moment before it is fixed.
THEOREM NumberedInOneSequence == Spec => []OneSequence
<1>1. Inv => OneSequence
  BY DEF Inv, CommentsOK, OneSequence
<1> QED  BY <1>1, InvHolds, PTL

\* withdraw, assign: of any comments and writers, none makes an answered or a
\* closed comment disappear, unless its answer came after the look that found
\* none; and only the reviewer opens a closed one.
THEOREM SettledStaysSettled == Spec => SettledKept
<1> DEFINE SettledStep ==
      \A s \in Scopes, k \in Keys :
        LET c == number[s][k]
            new == number'[s][k].status IN
        /\ c.status = CLOSED \/ (c.status = OPEN /\ c.replied)
             => new # WITHDRAWN \/ <<s, k>> \in late
        /\ c.status = CLOSED /\ new = OPEN => pc' = pc
<1>1. Inv /\ [Next]_vars => [SettledStep]_vars
  <2> SUFFICES ASSUME Inv, [Next]_vars, NEW s \in Scopes, NEW k \in Keys
               PROVE  LET c == number[s][k]
                          new == number'[s][k].status IN
                      /\ c.status = CLOSED \/ (c.status = OPEN /\ c.replied)
                           => new # WITHDRAWN \/ <<s, k>> \in late
                      /\ c.status = CLOSED /\ new = OPEN => pc' = pc
    OBVIOUS
  <2> DEFINE c == number[s][k]
             n == number'[s][k]
             Goal == /\ c.status = CLOSED \/ (c.status = OPEN /\ c.replied)
                          => n.status # WITHDRAWN \/ <<s, k>> \in late
                     /\ c.status = CLOSED /\ n.status = OPEN => pc' = pc
  <2>type. c \in Comments /\ number \in [Scopes -> [Keys -> Comments]]
    BY DEF Inv, Types
  <2>1. CASE n.status = c.status
    BY <2>1 DEF OPEN, CLOSED, WITHDRAWN
  <2>2. ASSUME NEW w \in Writers, Reopen(w)
        PROVE  Goal
    <3>1. PICK i \in job[w].todo :
            number' = [number EXCEPT ![job[w].scope][i].status = IF @ = WITHDRAWN THEN OPEN ELSE @]
      BY <2>2 DEF Reopen
    <3>2. n.status = c.status \/ (c.status = WITHDRAWN /\ n.status = OPEN)
      BY <2>type, <3>1 DEF Comments
    <3> QED  BY <2>1, <3>2 DEF OPEN, CLOSED, WITHDRAWN
  <2>3. ASSUME NEW w \in Writers, Claim(w)
        PROVE  Goal
    <3> DEFINE t == job[w].scope
               i == job[w].key
    <3>1. CASE number[t][i].seq = 0
      <4>1. PICK m \in 1..MaxSeq :
              number' = [number EXCEPT ![t][i] =
                           [NoComment EXCEPT !.seq = m, !.issued = job[w].mint,
                                             !.doc = DocOf[job[w].run]]]
        BY <2>3, <3>1 DEF Claim
      <4>2. t \in Scopes /\ i \in Keys
        BY <2>3 DEF Claim, Inv, WritersOK, WriterOK
      <4>3. number[t][i].status = OPEN
        BY <3>1, <4>2 DEF Inv, CommentsOK
      <4>4. number'[t][i].status = OPEN
        BY <2>type, <4>1, <4>2 DEF NoComment
      <4>5. n.status = c.status
        BY <2>type, <4>1, <4>2, <4>3, <4>4
      <4> QED  BY <2>1, <4>5
    <3>2. CASE number[t][i].seq # 0
      BY <2>1, <2>3, <3>2 DEF Claim
    <3> QED  BY <3>1, <3>2
  <2>4. ASSUME NEW w \in Writers, Issue(w) \/ Snap(w)
        PROVE  Goal
    <3> DEFINE t == job[w].scope
               i == job[w].key
    <3>1. PICK x \in {[number[t][i] EXCEPT !.issued = TRUE],
                      [number[t][i] EXCEPT !.says = job[w].found.words[i]]} :
            number' = [number EXCEPT ![t][i] = x]
      BY <2>type, <2>4 DEF Issue, Snap
    <3>2. t \in Scopes /\ i \in Keys
      BY <2>4 DEF Issue, Snap, Inv, WritersOK, WriterOK
    <3>3. x.status = number[t][i].status
      <4>1. number[t][i] \in Comments
        BY <2>type, <3>2
      <4> HIDE DEF t, i
      <4> QED  BY <3>1, <4>1 DEF Comments
    <3>4. n.status = c.status
      BY <2>type, <3>1, <3>2, <3>3
    <3> QED  BY <2>1, <3>4
  <2>5. ASSUME NEW w \in Writers, WithdrawWrite(w)
        PROVE  Goal
    <3> DEFINE t == job[w].scope
    <3>1. /\ t \in Scopes /\ job[w].key \in Keys
          /\ \/ <<t, job[w].key>> \in late
             \/ number[t][job[w].key].status # CLOSED /\ ~number[t][job[w].key].replied
      BY <2>5 DEF WithdrawWrite, Inv, WritersOK, WriterOK
    <3>2. number' = [number EXCEPT ![t] = [j \in Keys |->
                       IF j = job[w].key \/ (j \in job[w].out /\ Withdrawable(number[t][j]))
                         THEN [number[t][j] EXCEPT !.status = WITHDRAWN] ELSE number[t][j]]]
      BY <2>5 DEF WithdrawWrite
    <3>3. \/ n = c
          \/ /\ n = [c EXCEPT !.status = WITHDRAWN] /\ s = t
             /\ k = job[w].key \/ Withdrawable(c)
      BY <2>type, <3>1, <3>2
    <3>4. n.status = c.status \/ n.status = WITHDRAWN
      BY <2>type, <3>3 DEF Comments
    <3>5. CASE n = c
      BY <2>1, <3>5
    <3>6. CASE n # c
      BY <3>1, <3>3, <3>4, <3>6 DEF Withdrawable, OPEN, CLOSED, WITHDRAWN
    <3> QED  BY <3>5, <3>6
  <2>6. ASSUME NEW t \in Scopes, NEW i \in Keys,
               set_response(t, i) \/ \E status \in STATUSES : set_status(t, i, status)
        PROVE  Goal
    <3>1. PICK x \in {[number[t][i] EXCEPT !.replied = TRUE]}
                     \cup {[number[t][i] EXCEPT !.status = y] : y \in STATUSES} : Update(t, i, x)
      BY <2>6 DEF set_response, set_status
    <3>2. number' = [number EXCEPT ![t][i] = x] /\ pc' = pc
      BY <3>1 DEF Update
    <3>3. n.status = c.status \/ n.status \in STATUSES
      BY <2>type, <3>1, <3>2 DEF Comments
    <3> QED  BY <2>1, <3>2, <3>3 DEF STATUSES, OPEN, CLOSED, WITHDRAWN
  <2>7. CASE UNCHANGED number
    BY <2>1, <2>7
  <2>8. ASSUME NEW w \in Writers,
               \/ Find(w) \/ Look(w) \/ Scope(w) \/ Fix(w) \/ WithdrawLook(w) \/ Fail(w)
               \/ \E r \in Runs :
                    \/ Finish(w, r) \/ RecordCode(w, r)
                    \/ \E j \in Keys : Reject(w, r, j) \/ \E said \in Words : Confirm(w, r, j, said)
        PROVE  UNCHANGED number
    BY <2>8 DEF Find, Look, Scope, Fix, WithdrawLook, Fail, Finish, RecordCode, Reject, Confirm
  <2>9. ASSUME NEW d \in Documents, EditNumber(d)
        PROVE  UNCHANGED number
    BY <2>9 DEF EditNumber
  <2> QED
    BY <2>2, <2>3, <2>4, <2>5, <2>6, <2>7, <2>8, <2>9 DEF Next, Write, vars
<1> QED  BY <1>1, InvHolds, PTL DEF Spec, SettledKept

-----------------------------------------------------------------------------
(* The promise of the register: CrsNumbers implements CommentRegister. *)

Given == [s \in Scopes |-> [k \in Keys |-> number[s][k].seq]]
Issued == [s \in Scopes |-> {k \in Keys : number[s][k].issued}]

\* A step that changes neither a number nor what is issued.
LEMMA Stutters ==
  ASSUME \A s \in Scopes, k \in Keys : /\ number'[s][k].seq = number[s][k].seq
                                       /\ number'[s][k].issued = number[s][k].issued
  PROVE  UNCHANGED <<Given, Issued>>
  BY DEF Given, Issued

\* A number that is there is issued.
LEMMA IssuesNumber ==
  ASSUME Inv, NEW w \in Writers, Issue(w)
  PROVE  \E s \in Scopes, k \in Keys :
           /\ Given[s][k] # 0
           /\ Issued' = [Issued EXCEPT ![s] = @ \cup {k}]
           /\ UNCHANGED Given
<1> DEFINE s == job[w].scope
           k == job[w].key
<1>1. s \in Scopes /\ k \in Keys /\ number[s][k].seq # 0
  BY DEF Issue, Inv, WritersOK, WriterOK
<1>2. number' = [number EXCEPT ![s][k].issued = TRUE]
  BY DEF Issue
<1>3. number \in [Scopes -> [Keys -> Comments]]
  BY DEF Inv, Types
<1> HIDE DEF s, k
<1>4. \A t \in Scopes, j \in Keys :
        number'[t][j] = IF t = s /\ j = k THEN [number[t][j] EXCEPT !.issued = TRUE]
                                          ELSE number[t][j]
  BY <1>1, <1>2, <1>3
<1>5. \A t \in Scopes, j \in Keys :
        /\ number'[t][j].seq = number[t][j].seq
        /\ number'[t][j].issued = IF t = s /\ j = k THEN TRUE ELSE number[t][j].issued
  <2> SUFFICES ASSUME NEW t \in Scopes, NEW j \in Keys
               PROVE  /\ number'[t][j].seq = number[t][j].seq
                      /\ number'[t][j].issued = IF t = s /\ j = k THEN TRUE ELSE number[t][j].issued
    OBVIOUS
  <2>1. number[t][j] \in Comments
    BY <1>3
  <2>2. CASE t = s /\ j = k
    <3>1. number'[t][j] = [number[t][j] EXCEPT !.issued = TRUE]
      BY <1>4, <2>2
    <3> QED  BY <2>1, <2>2, <3>1 DEF Comments
  <2>3. CASE ~(t = s /\ j = k)
    <3>1. number'[t][j] = number[t][j]
      BY <1>4, <2>3
    <3> QED  BY <2>3, <3>1
  <2> QED  BY <2>2, <2>3
<1>6. UNCHANGED Given
  BY <1>5 DEF Given
<1>7. Issued' = [Issued EXCEPT ![s] = @ \cup {k}]
  BY <1>1, <1>5 DEF Issued
<1>8. Given[s][k] # 0
  BY <1>1 DEF Given
<1> QED  BY <1>1, <1>6, <1>7, <1>8

\* A comment without a number is given the next one, or nothing happens.
LEMMA GivesNumber ==
  ASSUME Inv, NEW w \in Writers, Claim(w)
  PROVE  \/ UNCHANGED <<Given, Issued>>
         \/ \E s \in Scopes, k \in Keys, n \in 1..MaxSeq :
              /\ Given[s][k] = 0
              /\ \A j \in Keys : Given[s][j] < n
              /\ n = 1 \/ \E j \in Keys : Given[s][j] = n - 1
              /\ Given' = [Given EXCEPT ![s][k] = n]
              /\ \/ UNCHANGED Issued
                 \/ Issued' = [Issued EXCEPT ![s] = @ \cup {k}]
<1> DEFINE s == job[w].scope
           k == job[w].key
<1>1. s \in Scopes /\ k \in Keys
  BY DEF Claim, Inv, WritersOK, WriterOK
<1>2. number \in [Scopes -> [Keys -> Comments]] /\ job[w].mint \in BOOLEAN
  BY DEF Inv, Types, Jobs
<1>3. CASE number[s][k].seq # 0
  BY <1>3 DEF Claim, Given, Issued
<1>4. CASE number[s][k].seq = 0
  <2>1. PICK n \in 1..MaxSeq :
          /\ NextSeq(s, n)
          /\ number' = [number EXCEPT ![s][k] =
                          [NoComment EXCEPT !.seq = n, !.issued = job[w].mint,
                                            !.doc = DocOf[job[w].run]]]
    BY <1>4 DEF Claim
  <2> DEFINE c == [NoComment EXCEPT !.seq = n, !.issued = job[w].mint, !.doc = DocOf[job[w].run]]
  <2>2. c.seq = n /\ c.issued = job[w].mint
    BY DEF NoComment
  <2>3. ~number[s][k].issued
    BY <1>1, <1>4 DEF Inv, CommentsOK
  <2> HIDE DEF s, k, c
  <2>4. \A t \in Scopes, j \in Keys :
          number'[t][j] = IF t = s /\ j = k THEN c ELSE number[t][j]
    BY <1>1, <1>2, <2>1 DEF c
  <2>seq. \A t \in Scopes, j \in Keys :
            number'[t][j].seq = IF t = s /\ j = k THEN n ELSE number[t][j].seq
    BY <2>2, <2>4
  <2>issued. \A t \in Scopes, j \in Keys :
               number'[t][j].issued = IF t = s /\ j = k THEN job[w].mint ELSE number[t][j].issued
    BY <2>2, <2>4
  <2>5. Given' = [Given EXCEPT ![s][k] = n]
    <3>1. Given'[s] = [Given[s] EXCEPT ![k] = n]
      BY <1>1, <2>seq DEF Given
    <3>2. \A t \in Scopes : t # s => Given'[t] = Given[t]
      BY <2>seq DEF Given
    <3> QED  BY <1>1, <3>1, <3>2 DEF Given
  <2>6. \/ UNCHANGED Issued
        \/ Issued' = [Issued EXCEPT ![s] = @ \cup {k}]
    <3>1. CASE job[w].mint
      BY <1>1, <2>issued, <3>1 DEF Issued
    <3>2. CASE ~job[w].mint
      BY <1>1, <1>2, <2>issued, <2>3, <3>2 DEF Issued
    <3> QED  BY <3>1, <3>2
  <2>7. /\ \A j \in Keys : Given[s][j] < n
        /\ n = 1 \/ \E j \in Keys : Given[s][j] = n - 1
    BY <1>1, <2>1 DEF NextSeq, Given
  <2>8. Given[s][k] = 0
    BY <1>1, <1>4 DEF Given, s, k
  <2> QED  BY <1>1, <2>5, <2>6, <2>7, <2>8
<1> QED  BY <1>3, <1>4

\* No other step gives, takes back or issues anything.
LEMMA OtherStep ==
  ASSUME Inv, [Next]_vars,
         \A w \in Writers : ~Claim(w) /\ ~Issue(w)
  PROVE  UNCHANGED <<Given, Issued>>
<1>type. number \in [Scopes -> [Keys -> Comments]]
  BY DEF Inv, Types
<1>1. CASE UNCHANGED number
  BY <1>1, Stutters
<1>2. ASSUME NEW s \in Scopes, NEW k \in Keys, NEW c,
             number' = [number EXCEPT ![s][k] = c],
             c.seq = number[s][k].seq, c.issued = number[s][k].issued
      PROVE  UNCHANGED <<Given, Issued>>
  BY <1>type, <1>2, Stutters
<1>3. ASSUME NEW w \in Writers, Reopen(w)
      PROVE  UNCHANGED <<Given, Issued>>
  <2>1. PICK k \in job[w].todo :
          number' = [number EXCEPT ![job[w].scope][k].status = IF @ = WITHDRAWN THEN OPEN ELSE @]
    BY <1>3 DEF Reopen
  <2> DEFINE s == job[w].scope
             c == [number[s][k] EXCEPT !.status = IF @ = WITHDRAWN THEN OPEN ELSE @]
  <2>2. s \in Scopes /\ k \in Keys
    BY <1>3, <2>1 DEF Reopen, Inv, WritersOK, WriterOK, Types, Jobs
  <2>3. number[s][k] \in Comments /\ number' = [number EXCEPT ![s][k] = c]
    BY <1>type, <2>1, <2>2
  <2>4. c.seq = number[s][k].seq /\ c.issued = number[s][k].issued
    BY <2>3 DEF Comments
  <2> QED  BY <1>2, <2>2, <2>3, <2>4
<1>4. ASSUME NEW w \in Writers, Snap(w)
      PROVE  UNCHANGED <<Given, Issued>>
  <2> DEFINE s == job[w].scope
             k == job[w].key
             c == [number[s][k] EXCEPT !.says = job[w].found.words[k]]
  <2>1. s \in Scopes /\ k \in Keys
    BY <1>4 DEF Snap, Inv, WritersOK, WriterOK
  <2>2. number[s][k] \in Comments /\ number' = [number EXCEPT ![s][k] = c]
    BY <1>4, <1>type, <2>1 DEF Snap
  <2>3. c.seq = number[s][k].seq /\ c.issued = number[s][k].issued
    BY <2>2 DEF Comments
  <2> QED  BY <1>2, <2>1, <2>2, <2>3
<1>5. ASSUME NEW s \in Scopes, NEW k \in Keys,
             set_response(s, k) \/ \E status \in STATUSES : set_status(s, k, status)
      PROVE  UNCHANGED <<Given, Issued>>
  <2>1. PICK c \in {[number[s][k] EXCEPT !.replied = TRUE]}
                   \cup {[number[s][k] EXCEPT !.status = x] : x \in STATUSES} : Update(s, k, c)
    BY <1>5 DEF set_response, set_status
  <2>2. number[s][k] \in Comments
    BY <1>type
  <2>3. c.seq = number[s][k].seq /\ c.issued = number[s][k].issued
    BY <2>1, <2>2 DEF Comments
  <2>4. number' = [number EXCEPT ![s][k] = c]
    BY <2>1 DEF Update
  <2> QED  BY <1>2, <2>3, <2>4
<1>6. ASSUME NEW w \in Writers, WithdrawWrite(w)
      PROVE  UNCHANGED <<Given, Issued>>
  <2> DEFINE t == job[w].scope
             Goes(j) == j = job[w].key \/ (j \in job[w].out /\ Withdrawable(number[t][j]))
  <2>1. number' = [number EXCEPT ![t] = [j \in Keys |->
                     IF Goes(j) THEN [number[t][j] EXCEPT !.status = WITHDRAWN] ELSE number[t][j]]]
    BY <1>6 DEF WithdrawWrite
  <2> HIDE DEF t, Goes
  <2>2. ASSUME NEW s \in Scopes, NEW k \in Keys
        PROVE  /\ number'[s][k].seq = number[s][k].seq
               /\ number'[s][k].issued = number[s][k].issued
    <3>1. number[s][k] \in Comments
      BY <1>type
    <3>2. \/ number'[s][k] = number[s][k]
          \/ number'[s][k] = [number[s][k] EXCEPT !.status = WITHDRAWN]
      BY <1>type, <2>1
    <3> QED  BY <3>1, <3>2 DEF Comments
  <2> QED  BY <2>2, Stutters
<1>7. ASSUME NEW w \in Writers,
             \/ Find(w) \/ Look(w) \/ Scope(w) \/ Fix(w) \/ WithdrawLook(w) \/ Fail(w)
             \/ \E r \in Runs :
                  \/ Finish(w, r) \/ RecordCode(w, r)
                  \/ \E j \in Keys : Reject(w, r, j) \/ \E said \in Words : Confirm(w, r, j, said)
      PROVE  UNCHANGED number
  BY <1>7 DEF Find, Look, Scope, Fix, WithdrawLook, Fail, Finish, RecordCode, Reject, Confirm
<1>8. ASSUME NEW d \in Documents, EditNumber(d)
      PROVE  UNCHANGED number
  BY <1>8 DEF EditNumber
<1> QED
  BY <1>1, <1>3, <1>4, <1>5, <1>6, <1>7, <1>8 DEF Next, Write, vars

\* assign: whatever the writers do, the register gives each comment the next
\* number once and for ever, and what is issued stays issued.
THEOREM NumbersImplementRegister == Spec => RegisterKept
<1>1. Init => Register!Init
  BY DEF Init, Register!Init, NoComment
<1>2. Inv /\ [Next]_vars => [Register!Next]_(Register!vars)
  <2> SUFFICES ASSUME Inv, [Next]_vars  PROVE Register!Next \/ UNCHANGED <<Given, Issued>>
    BY DEF Register!vars, Given, Issued
  <2>1. ASSUME NEW w \in Writers, Issue(w)  PROVE Register!Next
    BY <2>1, IssuesNumber DEF Register!Next, Register!Issue, Given, Issued
  <2>2. ASSUME NEW w \in Writers, Claim(w)  PROVE Register!Next \/ UNCHANGED <<Given, Issued>>
    BY <2>2, GivesNumber DEF Register!Next, Register!Give, Register!IsNext, Given, Issued
  <2>3. CASE \A w \in Writers : ~Claim(w) /\ ~Issue(w)
    BY <2>3, OtherStep
  <2> QED  BY <2>1, <2>2, <2>3
<1> QED  BY <1>1, <1>2, InvHolds, PTL DEF Spec, RegisterKept, Register!Spec

-----------------------------------------------------------------------------
(* What an engineer confirmed.  Until it is issued, a writer that has not    *)
(* come to it yet still knows of it.                                         *)

Settled(d, k) == d \in late \/ (fixed[d] # NoScope /\ number[fixed[d]][k].issued)

\* A mint of the run that will issue the comment.
AtWork(w, r, k) ==
  LET j == job[w] IN
  /\ j.run = r /\ j.mint
  /\ \/ pc[w] = "find"
     \/ pc[w] = "look" /\ j.found.decision[k] = "confirmed"
     \/ pc[w] \in {"scope", "fix", "reopen", "claim", "issue", "snap"} /\ k \in j.todo
     \/ pc[w] \in {"claim", "issue"} /\ j.key = k

ConfirmedOK ==
  /\ fails \in Nat
  /\ fails = 0 =>
       \A r \in Runs, k \in Keys :
         decision[r][k] = "confirmed" =>
           Settled(DocOf[r], k) \/ \E w \in Writers : AtWork(w, r, k)

\* What is issued stays so: each step issues one number or none.
LEMMA IssuedStays ==
  ASSUME Inv, [Next]_vars, NEW s \in Scopes, NEW k \in Keys, number[s][k].issued
  PROVE  number'[s][k].issued
<1>1. k \in Issued[s]
  BY DEF Issued
<1>2. \/ UNCHANGED Issued
      \/ \E t \in Scopes, j \in Keys : Issued' = [Issued EXCEPT ![t] = @ \cup {j}]
  BY IssuesNumber, GivesNumber, OtherStep
<1>3. k \in Issued'[s]
  BY <1>1, <1>2 DEF Issued
<1> QED  BY <1>3 DEF Issued

LEMMA SettledStays ==
  ASSUME Inv, [Next]_vars, NEW d \in Documents, NEW k \in Keys, Settled(d, k)
  PROVE  Settled(d, k)'
<1>1. Kept
  BY InvStep
<1>2. CASE d \in late
  BY <1>1, <1>2 DEF Kept, Settled
<1>3. CASE fixed[d] # NoScope /\ number[fixed[d]][k].issued
  <2>1. fixed'[d] = fixed[d] /\ fixed[d] \in Scopes
    BY <1>1, <1>3 DEF Kept, Inv, Types
  <2>2. number'[fixed[d]][k].issued
    BY <1>3, <2>1, IssuedStays
  <2> QED  BY <1>3, <2>1, <2>2 DEF Settled
<1> QED  BY <1>2, <1>3 DEF Settled

\* A comment issued in the sequence a writer looked up is settled.
LEMMA IssuedIsSettled ==
  ASSUME Inv, [Next]_vars, NEW w \in Writers, NEW k \in Keys, NEW d \in Documents, d = Of(w),
         pc[w] \in {"reopen", "claim", "issue", "snap"}, number'[job[w].scope][k].issued
  PROVE  Settled(d, k)'
<1>1. Kept
  BY InvStep
<1>2. fixed[d] # NoScope /\ (job[w].scope = fixed[d] \/ d \in late)
  BY CrsAssumption DEF Inv, WritersOK, WriterOK, Of
<1>3. fixed'[d] = fixed[d] /\ late \subseteq late'
  BY <1>1, <1>2 DEF Kept
<1> QED  BY <1>2, <1>3 DEF Settled

\* A mint comes to what it knows of, or still knows of it.
LEMMA MintWorks ==
  ASSUME Inv, NEW w \in Writers, Write(w), NEW r \in Runs, NEW k \in Keys,
         decision[r][k] = "confirmed", AtWork(w, r, k)
  PROVE  Settled(DocOf[r], k)' \/ AtWork(w, r, k)'
<1> DEFINE j == job[w]
           s == j.scope
<1>1. j \in Jobs /\ j.run = r /\ j.mint /\ Of(w) = DocOf[r] /\ DocOf[r] \in Documents
  BY CrsAssumption DEF Inv, Types, AtWork, Of
<1>2. pc \in [Writers -> PCs] /\ job \in [Writers -> Jobs] /\ number \in [Scopes -> [Keys -> Comments]]
  BY DEF Inv, Types
<1>3. pc[w] \in {"reopen", "claim", "issue", "snap"} => s \in Scopes
  BY DEF Inv, WritersOK, WriterOK
<1>4. pc[w] \in {"claim", "issue", "snap"} => j.key \in Keys
  BY DEF Inv, WritersOK, WriterOK
<1>next. [Next]_vars
  BY DEF Next
<1>5. ASSUME NEW e \in Documents, e = DocOf[r], pc[w] \in {"reopen", "claim", "issue", "snap"},
             number'[s][k].issued
      PROVE  Settled(e, k)'
  BY <1>1, <1>5, <1>next, IssuedIsSettled
<1>6. CASE Find(w)
  <2>1. pc'[w] = "look" /\ job'[w] = [j EXCEPT !.found = Findings(r)]
    BY <1>1, <1>2, <1>6 DEF Find, Goto
  <2>2. job'[w].found.decision[k] = "confirmed" /\ job'[w].run = r /\ job'[w].mint
    BY <1>1, <2>1 DEF Jobs, Findings
  <2> QED  BY <2>1, <2>2 DEF AtWork
<1>7. CASE Look(w)
  <2>1. j.found.decision[k] = "confirmed" /\ pc'[w] = "scope"
    BY <1>2, <1>7 DEF Look, Goto, AtWork
  <2>2. k \in Theirs(scope_of_document(DocOf[r]), j.found)
    BY <2>1 DEF Theirs, Rows
  <2>3. job'[w].todo = Theirs(scope_of_document(DocOf[r]), j.found) /\ job'[w].run = r /\ job'[w].mint
    BY <1>1, <1>2, <1>7 DEF Look, Jobs
  <2> QED  BY <2>1, <2>2, <2>3 DEF AtWork
<1>8. CASE Scope(w)
  <2>1. pc[w] = "scope" /\ k \in j.todo
    BY <1>8 DEF Scope, AtWork
  <2>2. pc'[w] = "fix" /\ job'[w].todo = j.todo /\ job'[w].run = r /\ job'[w].mint
    BY <1>1, <1>2, <1>8, <2>1 DEF Scope, Go, Goto, Jobs
  <2> QED  BY <2>1, <2>2 DEF AtWork
<1>9. CASE Fix(w)
  BY <1>1, <1>2, <1>9 DEF Fix, Goto, AtWork
<1>10. ASSUME NEW i \in Jobs, NEW next, Go(w, next, i), i.run = r, i.mint,
              next \in {"claim", "issue", "snap", "reopen"},
              k \in i.todo \/ (next \in {"claim", "issue"} /\ i.key = k)
       PROVE  AtWork(w, r, k)'
  <2>1. pc'[w] = next /\ job'[w] = i
    BY <1>2, <1>10 DEF Go, Goto
  <2> QED  BY <1>10, <2>1 DEF AtWork
<1>11. CASE Reopen(w)
  <2>1. PICK q \in j.todo :
          LET i == [j EXCEPT !.key = q, !.todo = @ \ {q}] IN
          /\ number' = [number EXCEPT ![s][q].status = IF @ = WITHDRAWN THEN OPEN ELSE @]
          /\ Go(w, ToClaim(i, number[s][q]), i)
    BY <1>11 DEF Reopen
  <2> DEFINE i == [j EXCEPT !.key = q, !.todo = @ \ {q}]
             next == ToClaim(i, number[s][q])
  <2>2. q \in Keys /\ pc[w] = "reopen" /\ k \in j.todo
    BY <1>1, <1>11 DEF Reopen, AtWork, Jobs
  <2>3. i \in Jobs /\ i.run = r /\ i.mint /\ i.key = q /\ i.todo = j.todo \ {q}
    BY <1>1, <2>2 DEF Jobs
  <2>4. Go(w, next, i)
    BY <2>1
  <2>5. CASE k # q
    <3>1. k \in i.todo
      BY <2>2, <2>3, <2>5
    <3>2. next \in {"claim", "issue", "snap", "reopen"}
      BY <3>1 DEF ToClaim, ToIssue, ToSnap, After
    <3> HIDE DEF i, next
    <3> QED  BY <1>10, <2>3, <2>4, <3>1, <3>2
  <2>6. CASE k = q /\ ~number[s][k].issued
    <3>1. next \in {"claim", "issue"}
      BY <2>3, <2>6 DEF ToClaim, ToIssue
    <3> HIDE DEF i, next
    <3> QED  BY <1>10, <2>3, <2>4, <2>6, <3>1
  <2>7. CASE number[s][k].issued
    <3>1. number'[s][k].issued
      BY <1>3, <1>next, <2>2, <2>7, IssuedStays
    <3> QED  BY <1>1, <1>5, <2>2, <3>1
  <2> QED  BY <2>5, <2>6, <2>7
<1>12. CASE Claim(w)
  <2>1. pc[w] = "claim" /\ (k \in j.todo \/ j.key = k)
    BY <1>12 DEF Claim, AtWork
  <2>2. CASE number[s][j.key].seq = 0
    <3>1. PICK n \in 1..MaxSeq :
            /\ number' = [number EXCEPT ![s][j.key] =
                            [NoComment EXCEPT !.seq = n, !.issued = j.mint, !.doc = DocOf[j.run]]]
            /\ Go(w, ToSnap(j), j)
      BY <1>12, <2>2 DEF Claim
    <3>2. CASE j.key = k
      <4>1. number'[s][k].issued
        BY <1>1, <1>2, <1>3, <1>4, <2>1, <3>1, <3>2 DEF NoComment
      <4> QED  BY <1>1, <1>5, <2>1, <4>1
    <3>3. CASE k \in j.todo
      <4>1. ToSnap(j) \in {"snap", "reopen"}
        BY <3>3 DEF ToSnap, After
      <4> QED  BY <1>1, <1>10, <3>1, <3>3, <4>1
    <3> QED  BY <2>1, <3>2, <3>3
  <2>3. CASE number[s][j.key].seq # 0
    <3>1. Go(w, ToIssue(j, number[s][j.key]), j)
      BY <1>12, <2>3 DEF Claim
    <3>2. CASE k \in j.todo
      <4>1. ToIssue(j, number[s][j.key]) \in {"issue", "snap", "reopen"}
        BY <3>2 DEF ToIssue, ToSnap, After
      <4> QED  BY <1>1, <1>10, <3>1, <3>2, <4>1
    <3>3. CASE j.key = k /\ ~number[s][k].issued
      <4>1. ToIssue(j, number[s][j.key]) = "issue"
        BY <1>1, <3>3 DEF ToIssue
      <4> QED  BY <1>1, <1>10, <3>1, <3>3, <4>1
    <3>4. CASE number[s][k].issued
      <4>1. number'[s][k].issued
        BY <1>3, <1>next, <2>1, <3>4, IssuedStays
      <4> QED  BY <1>1, <1>5, <2>1, <4>1
    <3> QED  BY <2>1, <3>2, <3>3, <3>4
  <2> QED  BY <2>2, <2>3
<1>13. CASE Issue(w)
  <2>1. /\ pc[w] = "issue" /\ (k \in j.todo \/ j.key = k)
        /\ number' = [number EXCEPT ![s][j.key].issued = TRUE] /\ Go(w, ToSnap(j), j)
    BY <1>13 DEF Issue, AtWork
  <2>2. CASE j.key = k
    <3>1. number[s][k] \in Comments
      BY <1>2, <1>3, <2>1
    <3>2. number'[s][k].issued
      BY <1>2, <1>3, <2>1, <2>2, <3>1 DEF Comments
    <3> QED  BY <1>1, <1>5, <2>1, <3>2
  <2>3. CASE k \in j.todo
    <3>1. ToSnap(j) \in {"snap", "reopen"}
      BY <2>3 DEF ToSnap, After
    <3> QED  BY <1>1, <1>10, <2>1, <2>3, <3>1
  <2> QED  BY <2>1, <2>2, <2>3
<1>14. CASE Snap(w)
  <2>1. k \in j.todo /\ Go(w, After(j), j)
    BY <1>14 DEF Snap, AtWork
  <2>2. After(j) = "reopen"
    BY <2>1 DEF After
  <2> QED  BY <1>1, <1>10, <2>1, <2>2
<1>15. ~WithdrawLook(w) /\ ~WithdrawWrite(w)
  BY DEF AtWork, WithdrawLook, WithdrawWrite
<1> QED
  BY <1>6, <1>7, <1>8, <1>9, <1>11, <1>12, <1>13, <1>14, <1>15 DEF Write

\* What is confirmed now was so before, or a mint that will see it has begun.
LEMMA ConfirmedBefore ==
  ASSUME Inv, [Next]_vars, NEW r \in Runs, NEW k \in Keys, decision'[r][k] = "confirmed"
  PROVE  decision[r][k] = "confirmed" \/ \E w \in Writers : AtWork(w, r, k)'
<1>1. decision \in [Runs -> [Keys -> Decisions]] /\ pc \in [Writers -> PCs] /\ job \in [Writers -> Jobs]
  BY DEF Inv, Types
<1>2. ASSUME NEW w \in Writers, NEW q \in Runs, Finish(w, q)
      PROVE  decision[r][k] = "confirmed"
  <2>1. PICK raised \in SUBSET Keys :
          decision' = [decision EXCEPT ![q] =
                         [i \in Keys |-> IF i \in raised THEN "draft" ELSE "absent"]]
    BY <1>2 DEF Finish
  <2> QED  BY <1>1, <2>1
<1>3. ASSUME NEW w \in Writers, NEW q \in Runs, NEW i \in Keys, NEW said \in Words,
             Confirm(w, q, i, said)
      PROVE  decision[r][k] = "confirmed" \/ AtWork(w, r, k)'
  <2>1. decision' = [decision EXCEPT ![q][i] = "confirmed"] /\ Begin(w, q, TRUE)
    BY <1>3 DEF Confirm
  <2>2. CASE q = r /\ i = k
    <3>1. pc'[w] = "find" /\ job'[w] = [NoJob EXCEPT !.run = r, !.mint = TRUE]
      BY <1>1, <2>1, <2>2 DEF Begin, Goto
    <3>2. job'[w].run = r /\ job'[w].mint
      BY <3>1 DEF NoJob
    <3> QED  BY <3>1, <3>2 DEF AtWork
  <2>3. CASE ~(q = r /\ i = k)
    BY <1>1, <2>1, <2>3
  <2> QED  BY <2>2, <2>3
<1>4. ASSUME NEW w \in Writers, NEW q \in Runs, NEW i \in Keys, Reject(w, q, i)
      PROVE  decision[r][k] = "confirmed"
  BY <1>1, <1>4 DEF Reject
<1>5. ASSUME NEW w \in Writers, Write(w) \/ Fail(w) \/ \E q \in Runs : RecordCode(w, q)
      PROVE  UNCHANGED decision
  BY <1>5 DEF Write, Fail, RecordCode, Find, Look, Scope, Fix, Reopen, Claim, Issue, Snap,
       WithdrawLook, WithdrawWrite, runVars
<1>6. ASSUME NEW s \in Scopes, NEW i \in Keys,
             set_response(s, i) \/ \E status \in STATUSES : set_status(s, i, status)
      PROVE  UNCHANGED decision
  BY <1>6 DEF set_response, set_status, Update, runVars
<1>7. ASSUME NEW d \in Documents, EditNumber(d)
      PROVE  UNCHANGED decision
  BY <1>7 DEF EditNumber, runVars
<1> QED
  BY <1>2, <1>3, <1>4, <1>5, <1>6, <1>7 DEF Next, vars, runVars

\* Only a failure ends the work of a writer before its time.
LEMMA WorkGoesOn ==
  ASSUME Inv, [Next]_vars, NEW v \in Writers, NEW r \in Runs, NEW k \in Keys,
         decision[r][k] = "confirmed", AtWork(v, r, k)
  PROVE  \/ Settled(DocOf[r], k)' \/ AtWork(v, r, k)'
         \/ fails' = fails + 1
<1>1. pc \in [Writers -> PCs] /\ job \in [Writers -> Jobs] /\ pc[v] # "idle"
  BY DEF Inv, Types, AtWork
<1>2. CASE pc'[v] = pc[v] /\ job'[v] = job[v]
  BY <1>2 DEF AtWork
<1>3. CASE Write(v)
  BY <1>3, MintWorks
<1>4. CASE Fail(v)
  BY <1>4 DEF Fail
<1>5. ASSUME NEW w \in Writers, NEW r0 \in Runs, NEW isMint \in BOOLEAN, Begin(w, r0, isMint)
      PROVE  pc'[v] = pc[v] /\ job'[v] = job[v]
  BY <1>1, <1>5 DEF Begin, Goto
<1>6. ASSUME NEW w \in Writers, w # v, Write(w) \/ Fail(w)
      PROVE  pc'[v] = pc[v] /\ job'[v] = job[v]
  BY <1>1, <1>6 DEF Write, Fail, Find, Look, Scope, Fix, Reopen, Claim, Issue, Snap, WithdrawLook,
     WithdrawWrite, Go, Goto
<1>7. ASSUME NEW s \in Scopes, NEW i \in Keys,
             set_response(s, i) \/ \E status \in STATUSES : set_status(s, i, status)
      PROVE  UNCHANGED <<pc, job>>
  BY <1>7 DEF set_response, set_status, Update
<1>8. ASSUME NEW d \in Documents, EditNumber(d)
      PROVE  UNCHANGED <<pc, job>>
  BY <1>8 DEF EditNumber
<1>9. ASSUME NEW w \in Writers, NEW q \in Runs,
             \/ Finish(w, q) \/ RecordCode(w, q)
             \/ \E i \in Keys : Reject(w, q, i) \/ \E said \in Words : Confirm(w, q, i, said)
      PROVE  Begin(w, q, TRUE) \/ Begin(w, q, FALSE)
  BY <1>9 DEF Finish, RecordCode, Reject, Confirm
<1> QED
  BY <1>2, <1>3, <1>4, <1>5, <1>6, <1>7, <1>8, <1>9 DEF Next, vars

LEMMA FailsStep ==
  ASSUME [Next]_vars
  PROVE  fails' = fails \/ fails' = fails + 1
<1>1. ASSUME NEW w \in Writers, NEW q \in Runs,
             \/ Finish(w, q) \/ RecordCode(w, q)
             \/ \E i \in Keys : Reject(w, q, i) \/ \E said \in Words : Confirm(w, q, i, said)
      PROVE  fails' = fails
  BY <1>1 DEF Finish, RecordCode, Reject, Confirm, boundVars
<1>2. ASSUME NEW w \in Writers, Write(w)
      PROVE  fails' = fails
  BY <1>2 DEF Write, Find, Look, Scope, Fix, Reopen, Claim, Issue, Snap, WithdrawLook,
     WithdrawWrite, boundVars
<1>3. ASSUME NEW w \in Writers, Fail(w)
      PROVE  fails' = fails + 1
  BY <1>3 DEF Fail
<1>4. ASSUME NEW s \in Scopes, NEW i \in Keys,
             set_response(s, i) \/ \E status \in STATUSES : set_status(s, i, status)
      PROVE  fails' = fails
  BY <1>4 DEF set_response, set_status, Update
<1>5. ASSUME NEW d \in Documents, EditNumber(d)
      PROVE  fails' = fails
  BY <1>5 DEF EditNumber
<1> QED  BY <1>1, <1>2, <1>3, <1>4, <1>5 DEF Next, vars, boundVars

LEMMA ConfirmedStep ==
  ASSUME Inv, ConfirmedOK, [Next]_vars
  PROVE  ConfirmedOK'
<1>1. fails' \in Nat /\ (fails' = fails \/ fails' = fails + 1)
  BY FailsStep DEF ConfirmedOK
<1>2. ASSUME fails' = 0, NEW r \in Runs, NEW k \in Keys, decision'[r][k] = "confirmed"
      PROVE  Settled(DocOf[r], k)' \/ \E w \in Writers : AtWork(w, r, k)'
  <2>1. fails = 0 /\ ~(fails' = fails + 1)
    BY <1>1, <1>2 DEF ConfirmedOK
  <2>2. CASE decision[r][k] # "confirmed"
    BY <1>2, <2>2, ConfirmedBefore
  <2>3. CASE decision[r][k] = "confirmed"
    <3>1. DocOf[r] \in Documents
      BY CrsAssumption
    <3>2. CASE Settled(DocOf[r], k)
      <4>1. ASSUME NEW d \in Documents, d = DocOf[r]
            PROVE  Settled(d, k)'
        BY <3>2, <4>1, SettledStays
      <4> QED  BY <3>1, <4>1
    <3>3. CASE \E w \in Writers : AtWork(w, r, k)
      BY <2>1, <2>3, <3>3, WorkGoesOn
    <3> QED  BY <2>1, <2>3, <3>2, <3>3 DEF ConfirmedOK
  <2> QED  BY <2>2, <2>3
<1> QED  BY <1>1, <1>2 DEF ConfirmedOK

\* _mint_crs_numbers: of any reviews, comments and engineers, what is confirmed
\* is issued in its document's sequence once nobody writes, unless a write
\* raised or the document's number was edited at the one moment before it is
\* fixed.
THEOREM ConfirmedGetsIssued == Spec => []ConfirmedIsIssued
<1>1. Init => ConfirmedOK
  BY DEF Init, ConfirmedOK, Nothing
<1>2. Inv /\ ConfirmedOK /\ [Next]_vars => ConfirmedOK'
  BY ConfirmedStep
<1>3. ConfirmedOK => ConfirmedIsIssued
  BY DEF ConfirmedOK, ConfirmedIsIssued, AtWork, Settled
<1> QED  BY <1>1, <1>2, <1>3, InvHolds, PTL DEF Spec

=============================================================================
