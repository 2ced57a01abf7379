-------------------------- MODULE SpendLedgerProofs --------------------------
(***************************************************************************)
(* Proofs about the spend ledger, for any processes, requests, caps and    *)
(* numbers of calls, ticks and deaths: what a torn line stops, that no cap *)
(* is passed, and that the ledger is a budget of SpendBudget.              *)
(*                                                                         *)
(* A check of reserve_all is made once, and its lines are written one by   *)
(* one after it.  So beside what the ledger adds up to there is always     *)
(* what it will add up to when the lines under way are on it (RoomLeft).   *)
(***************************************************************************)
EXTENDS SpendLedger, FiniteSetTheorems, TLAPS

\* A process does not drop holds that another one may still settle.
NoLateRelease == Late => ~ReleasesHolds

-----------------------------------------------------------------------------
(* The invariant. *)

Ids == {l.id : l \in ledger \ Torn}

\* The lines a thread has still to write, up to the i-th.
UpTo(t, i) == {todo[t][j] : j \in 1..i}

Reserving(t) == pc[t] = "append" /\ Head(todo[t]).what = "reserved"

Types ==
  /\ TypeOK /\ IsFiniteSet(ledger)
  /\ \A l \in ledger : l.what \in {"reserved", "settled"} => l.at <= now
  /\ \A l \in ledger \ Torn : l.id <= issued
  /\ \A t \in Threads : pc[t] \in {"append", "settle"} => todo[t] # <<>>
  /\ \A t \in Threads : pc[t] = "reserve" => ask[t] \in Requests

\* A reservation has one line, and one settlement.
LinesOK ==
  \A l, m \in ledger \ Torn : l.id = m.id /\ l.what = m.what => l = m

\* The lines of new reservations are new.
NewLinesOK ==
  \A t \in Threads : Reserving(t) =>
    /\ \A i \in DOMAIN todo[t] :
         LET l == todo[t][i] IN
         /\ l.what = "reserved" /\ l.at <= now
         /\ l.id <= issued /\ l.id \notin Ids /\ bill[l.id] = 0
    /\ \A i, j \in DOMAIN todo[t] : todo[t][i].id = todo[t][j].id => i = j

\* After a torn line there are some only by a thread whose total has lapsed.
TornOK == Lines("torn") # {} => \A t \in Threads : Reserving(t) => caps[t] > total_cap

\* A thread holds what it has reserved and not settled.
HeldOK ==
  /\ \A t \in Threads : pc[t] \in {"idle", "reserve"} => held[t] = {}
  /\ \A t \in Threads : \A id \in held[t] :
       \E l \in Open : /\ l.id = id
                       /\ ~Late => now - l.at < OpenHoldWindow
                       /\ Reserving(t) \/ pc[t] = "send" => bill[id] = 0
  /\ \A t, u \in Threads : t # u => held[t] \cap held[u] = {}

\* What a thread is about to write of a reservation that is over.
SettlingOK ==
  \A t \in Threads : pc[t] = "settle" \/ (pc[t] = "append" /\ ~Reserving(t)) =>
    /\ Len(todo[t]) = 1
    /\ LET l == todo[t][1] IN
       /\ l.what \in {"settled", "released"} /\ l.id \in held[t]
       /\ l.what = "released" => bill[l.id] = 0
       /\ l.what = "settled" =>
            /\ l.at <= now /\ bill[l.id] <= l.usd
            /\ \E h \in Open : /\ h.id = l.id /\ h.step = l.step /\ h.run = l.run
                               /\ l.usd <= h.usd

\* No bill is larger than its hold, or than its settlement.
BillsOK ==
  /\ \A l \in Open \cup Lines("settled") : bill[l.id] <= l.usd
  /\ \A id \in 1..MaxCalls : id \notin Ids => bill[id] = 0

\* What amounts to c[x] for each x of S: as much as there are pairs of an x and
\* a number up to c[x].
Units(c, S) == UNION {{x} \X (1..c[x]) : x \in S}
Sum(c, S) == Cardinality(Units(c, S))

\* What lines of calls amount to, whatever a torn one is charged (UsdIsSum).
price == [l \in Line |-> l.usd]
Amount(S) == Sum(price, S)

\* The lines of a step's cap, of a run's and of a day's.
OfStep(S, step, run) == {l \in S : l.step = step /\ (step \in StandardSteps \/ l.run = run)}
OfRun(S, run) == {l \in S : l.run = run /\ l.step \notin StandardSteps}
OfDay == {l \in Calls : \/ l.what = "reserved" /\ now - l.at < OpenHoldWindow
                        \/ l.what = "settled" /\ Day(l.at) = Day(now)}

\* The lines that were checked together still fit, whatever was written since.
RoomLeft ==
  \A t \in Threads : Reserving(t) =>
    \A i \in DOMAIN todo[t] :
      LET l == todo[t][i] IN
      /\ Amount(OfStep(Calls \cup UpTo(t, i), l.step, l.run)) <= for_step(l.step, l.run)
      /\ is_runs(l.step, l.run) => Amount(OfRun(Calls \cup UpTo(t, i), l.run)) <= RunCap
      /\ Amount(Calls \cup UpTo(t, i)) <= TotalCap
      /\ Amount(OfDay \cup UpTo(t, i)) <= DayCap

\* Every cap but the day's, and the day's.
CapsKept ==
  /\ \A step \in Steps, run \in Runs : Amount(OfStep(Calls, step, run)) <= for_step(step, run)
  /\ \A run \in Runs : run # NoRun => Amount(OfRun(Calls, run)) <= RunCap
  /\ Amount(Calls) <= TotalCap

DayKept == Amount(OfDay) <= DayCap

Core == Types /\ LinesOK /\ NewLinesOK /\ HeldOK /\ SettlingOK /\ BillsOK

-----------------------------------------------------------------------------
(* Sums.                                                                   *)

LEMMA UnitsElement ==
  ASSUME NEW c, NEW S, NEW u
  PROVE  u \in Units(c, S) <=> \E x \in S : u \in {x} \X (1..c[x])
  BY DEF Units

LEMMA SumFinite ==
  ASSUME NEW S, IsFiniteSet(S), NEW c, \A x \in S : c[x] \in Nat
  PROVE  IsFiniteSet(Units(c, S)) /\ Sum(c, S) \in Nat
<1> DEFINE U == {{x} \X (1..c[x]) : x \in S}
           f == [x \in S |-> {x} \X (1..c[x])]
<1>1. f \in Surjection(S, U)
  BY DEF Surjection
<1>2. IsFiniteSet(U)
  BY <1>1, FS_Surjection
<1>3. \A T \in U : IsFiniteSet(T)
  <2>1. SUFFICES ASSUME NEW x \in S  PROVE IsFiniteSet({x} \X (1..c[x]))
    OBVIOUS
  <2>2. c[x] \in Int
    OBVIOUS
  <2>3. IsFiniteSet({x})
    BY FS_Singleton
  <2>4. IsFiniteSet(1..c[x])
    BY <2>2, FS_Interval
  <2>. QED  BY <2>3, <2>4, FS_Product
<1>4. IsFiniteSet(Units(c, S))
  BY <1>2, <1>3, FS_UNION DEF Units
<1>. QED  BY <1>4, FS_CardinalityType DEF Sum

LEMMA SumEmpty ==
  ASSUME NEW c  PROVE Sum(c, {}) = 0
  BY FS_EmptySet DEF Sum, Units

\* A sum depends on nothing but what it is of.
LEMMA SumSame ==
  ASSUME NEW S, NEW c, NEW d, \A x \in S : c[x] = d[x]
  PROVE  Sum(c, S) = Sum(d, S)
<1>1. {{x} \X (1..c[x]) : x \in S} = {{x} \X (1..d[x]) : x \in S}
  OBVIOUS
<1>. QED  BY <1>1 DEF Sum, Units

LEMMA SumMonotonic ==
  ASSUME NEW S, IsFiniteSet(S), NEW T \in SUBSET S, NEW c, NEW d,
         \A x \in S : c[x] \in Nat, \A x \in T : d[x] \in Nat /\ d[x] <= c[x]
  PROVE  IsFiniteSet(T) /\ Sum(d, T) <= Sum(c, S)
<1>1. \A x \in T : 1..d[x] \subseteq 1..c[x]
  OBVIOUS
<1>2. Units(d, T) \subseteq Units(c, S)
  BY <1>1, UnitsElement
<1>3. IsFiniteSet(Units(c, S))
  BY SumFinite
<1>. QED  BY <1>2, <1>3, FS_Subset DEF Sum

LEMMA SumAdd ==
  ASSUME NEW S, IsFiniteSet(S), NEW x, x \notin S, NEW c, \A y \in S \cup {x} : c[y] \in Nat
  PROVE  Sum(c, S \cup {x}) = Sum(c, S) + c[x]
<1> DEFINE X == {x} \X (1..c[x])
<1>1. IsFiniteSet(Units(c, S)) /\ Sum(c, S) \in Nat
  BY SumFinite
<1>2. IsFiniteSet(X) /\ Cardinality(X) = c[x]
  <2>1. IsFiniteSet({x}) /\ Cardinality({x}) = 1
    BY FS_Singleton
  <2>2. IsFiniteSet(1..c[x]) /\ Cardinality(1..c[x]) = c[x]
    BY FS_Interval
  <2>3. IsFiniteSet(X) /\ Cardinality(X) = Cardinality({x}) * Cardinality(1..c[x])
    BY <2>1, <2>2, FS_Product
  <2>. QED  BY <2>1, <2>2, <2>3
<1>3. Units(c, S \cup {x}) = Units(c, S) \cup X
  BY DEF Units
<1>4. Units(c, S) \cap X = {}
  BY UnitsElement
<1>5. Cardinality(Units(c, S) \cup X) = Cardinality(Units(c, S)) + Cardinality(X) - Cardinality({})
  BY <1>1, <1>2, <1>4, FS_Union
<1>6. Cardinality({}) = 0
  BY FS_EmptySet
<1>7. Sum(c, S) = Cardinality(Units(c, S)) /\ Sum(c, S \cup {x}) = Cardinality(Units(c, S) \cup X)
  BY <1>3 DEF Sum
<1>. QED  BY <1>1, <1>2, <1>5, <1>6, <1>7

LEMMA SumRemove ==
  ASSUME NEW S, IsFiniteSet(S), NEW x \in S, NEW c, \A y \in S : c[y] \in Nat
  PROVE  /\ Sum(c, S) = Sum(c, S \ {x}) + c[x]
         /\ IsFiniteSet(S \ {x}) /\ Sum(c, S \ {x}) \in Nat
<1>1. IsFiniteSet(S \ {x})
  BY FS_RemoveElement
<1>2. (S \ {x}) \cup {x} = S
  OBVIOUS
<1>3. Sum(c, (S \ {x}) \cup {x}) = Sum(c, S \ {x}) + c[x]
  BY <1>1, SumAdd
<1>. QED  BY <1>1, <1>2, <1>3, SumFinite

\* One amount is replaced by another that is no larger.
LEMMA SumReplaced ==
  ASSUME NEW S, IsFiniteSet(S), NEW x, NEW y, NEW T \in SUBSET ((S \ {x}) \cup {y}),
         y \in T => x \in S, NEW c, \A z \in S \cup {y} : c[z] \in Nat, x \in S => c[y] <= c[x]
  PROVE  IsFiniteSet(T) /\ Sum(c, T) <= Sum(c, S)
<1>1. CASE y \in T
  <2> DEFINE R == (S \ {x}) \ {y}
  <2>1. IsFiniteSet(S \ {x}) /\ Sum(c, S \ {x}) + c[x] = Sum(c, S) /\ Sum(c, S \ {x}) \in Nat
    BY <1>1, SumRemove
  <2>2. IsFiniteSet(R)
    BY <2>1, FS_RemoveElement
  <2>3. Sum(c, R) <= Sum(c, S \ {x}) /\ Sum(c, R) \in Nat
    BY <2>1, <2>2, SumMonotonic, SumFinite
  <2>4. Sum(c, R \cup {y}) = Sum(c, R) + c[y] /\ IsFiniteSet(R \cup {y})
    <3>1. \A z \in R \cup {y} : c[z] \in Nat
      OBVIOUS
    <3>2. y \notin R
      OBVIOUS
    <3>. QED  BY <2>2, <3>1, <3>2, SumAdd, FS_AddElement
  <2>5. T \subseteq R \cup {y}
    OBVIOUS
  <2>6. IsFiniteSet(T) /\ Sum(c, T) <= Sum(c, R \cup {y})
    BY <2>4, <2>5, SumMonotonic
  <2>7. Sum(c, T) \in Nat
    BY <2>5, <2>6, SumFinite
  <2>. QED  BY <1>1, <2>1, <2>3, <2>4, <2>6, <2>7
<1>2. CASE y \notin T
  <2>1. T \in SUBSET S
    BY <1>2
  <2>. QED  BY <2>1, SumMonotonic
<1>. QED  BY <1>1, <1>2

-----------------------------------------------------------------------------
(* Sums of lines and of bills. *)

LEMMA Price ==
  /\ \A l \in Line : price[l] \in Nat /\ price[l] = l.usd /\ Cost(l) = l.usd
  /\ Line \cap Torn = {} /\ Line \cap Short = {}
  BY DEF price, Line, Cost, Torn, Short

LEMMA UsdIsSum ==
  ASSUME NEW S \in SUBSET Line
  PROVE  Usd(S) = Sum(price, S)
<1>1. \A l \in S : Cost(l) = price[l]
  BY Price
<1>2. {{l} \X (1..Cost(l)) : l \in S} = {{l} \X (1..price[l]) : l \in S}
  BY <1>1
<1>. QED  BY <1>2 DEF Usd, Sum, Units

LEMMA BillsIsSum ==
  ASSUME NEW S  PROVE Bills(S) = Sum(bill, S)
  BY DEF Bills, Sum, Units

-----------------------------------------------------------------------------
(* What the lines are. *)

LEMMA LinesAre ==
  ASSUME Types
  PROVE  /\ Lines("reserved") \subseteq Line /\ Lines("settled") \subseteq Line
         /\ Open \subseteq Lines("reserved") /\ Calls = Open \cup Lines("settled")
         /\ Lines("torn") = ledger \cap Torn /\ Calls \subseteq ledger \ Torn
         /\ entries = Calls \cup Lines("torn") /\ IsFiniteSet(Calls) /\ IsFiniteSet(entries)
<1>1. /\ Lines("reserved") \subseteq Line /\ Lines("settled") \subseteq Line
      /\ Lines("torn") = ledger \cap Torn
  BY DEF Types, TypeOK, Lines, Line, Short, Torn
<1>2. Open \subseteq Lines("reserved")
  BY DEF Open
<1>3. Calls = Open \cup Lines("settled")
  BY <1>2 DEF Calls, entries, Lines
<1>4. Calls \subseteq ledger \ Torn /\ entries = Calls \cup Lines("torn") /\ entries \subseteq ledger
  BY <1>1, <1>2, <1>3 DEF Lines, entries, Line, Torn
<1>5. IsFiniteSet(Calls) /\ IsFiniteSet(entries)
  BY <1>4, FS_Subset DEF Types
<1>. QED  BY <1>1, <1>2, <1>3, <1>4, <1>5

LEMMA Fields ==
  ASSUME Types
  PROVE  /\ \A l \in Line : l.id \in 1..MaxCalls /\ l.usd \in Nat /\ l.at \in 0..MaxTicks
                             /\ l.what \in {"reserved", "settled"}
         /\ now \in 0..MaxTicks /\ issued \in 0..MaxCalls /\ MaxCalls \in Nat /\ MaxTicks \in Nat
         /\ \A id \in 1..MaxCalls : bill[id] \in Nat
  BY LedgerAssumption DEF Types, TypeOK, Line

\* A held reservation is open, and Hold finds its line.
LEMMA HoldIs ==
  ASSUME Types, LinesOK, NEW h \in Open
  PROVE  Hold(h.id) = h
<1>1. h \in Lines("reserved") /\ \A l \in Lines("reserved") : l.id = h.id => l = h
  BY LinesAre DEF LinesOK, Lines, Line, Torn
<1>2. Hold(h.id) \in Lines("reserved") /\ Hold(h.id).id = h.id
  BY <1>1 DEF Hold
<1>. QED  BY <1>1, <1>2

-----------------------------------------------------------------------------
(* Append1, of a new reservation: what it does. *)

New(t) == [Head(todo[t]) EXCEPT !.at = now]

LEMMA WritesNew ==
  ASSUME Core, NEW t \in Threads, Append1(t), Reserving(t)
  PROVE  LET x == todo[t][1] IN
         /\ x \in Line /\ x.what = "reserved" /\ New(t) = [x EXCEPT !.at = now]
         /\ New(t) \in Line /\ New(t).what = "reserved" /\ New(t).id = x.id /\ New(t).at = now
         /\ New(t).usd = x.usd /\ New(t).step = x.step /\ New(t).run = x.run
         /\ New(t).id \notin Ids /\ New(t).id <= issued /\ bill[New(t).id] = 0
         /\ ledger' = ledger \cup {New(t)}
         /\ held' = [held EXCEPT ![t] = @ \cup {New(t).id}]
         /\ todo' = [todo EXCEPT ![t] = Tail(@)]
         /\ pc' = [pc EXCEPT ![t] = IF Len(todo[t]) > 1 THEN "append" ELSE "send"]
         /\ lock' = (IF Len(todo[t]) > 1 THEN lock ELSE NoThread)
         /\ UNCHANGED <<ask, caps, issued, bill, now, crashes>>
<1> DEFINE x == todo[t][1]
<1>1. todo[t] \in Seq(Line \cup Short) /\ todo[t] # <<>> /\ pc[t] = "append"
  BY DEF Core, Types, TypeOK, Append1
<1>2. 1 \in DOMAIN todo[t] /\ Head(todo[t]) = x /\ x \in Line \cup Short
  BY <1>1
<1>3. x.what = "reserved" /\ x \in Line
  BY <1>2 DEF Reserving, Short
<1>4. x.id \notin Ids /\ x.id <= issued /\ bill[x.id] = 0
  BY <1>2 DEF Core, NewLinesOK
<1>5. now \in 0..MaxTicks
  BY DEF Core, Types, TypeOK
<1>6. New(t) = [x EXCEPT !.at = now]
  BY <1>2 DEF New
<1>7. /\ New(t) \in Line /\ New(t).what = "reserved" /\ New(t).id = x.id /\ New(t).at = now
      /\ New(t).usd = x.usd /\ New(t).step = x.step /\ New(t).run = x.run
  BY <1>3, <1>5, <1>6 DEF Line
<1>8. /\ ledger' = ledger \cup {New(t)}
      /\ held' = [held EXCEPT ![t] = @ \cup {New(t).id}]
      /\ todo' = [todo EXCEPT ![t] = Tail(@)]
  BY <1>2, <1>3, <1>7 DEF Append1, New
<1>9. /\ pc' = [pc EXCEPT ![t] = IF Len(todo[t]) > 1 THEN "append" ELSE "send"]
      /\ lock' = (IF Len(todo[t]) > 1 THEN lock ELSE NoThread)
  <2>1. CASE Len(todo[t]) > 1
    <3>1. UNCHANGED <<lock, pc>>
      BY <2>1 DEF Append1
    <3>2. pc \in [Threads -> {"idle", "reserve", "append", "send", "sent", "settle"}]
      BY DEF Core, Types, TypeOK
    <3>3. pc = [pc EXCEPT ![t] = "append"]
      BY <1>1, <3>2
    <3>. QED  BY <2>1, <3>1, <3>3
  <2>2. CASE ~(Len(todo[t]) > 1)
    BY <1>2, <1>3, <1>7, <2>2 DEF Append1, Goto, New
  <2>. QED  BY <2>1, <2>2
<1>10. UNCHANGED <<ask, caps, issued, bill, now, crashes>>
  BY DEF Append1
<1>. QED  BY <1>3, <1>4, <1>6, <1>7, <1>8, <1>9, <1>10

\* ... and what the lines are then.
LEMMA LinesNew ==
  ASSUME Core, NEW t \in Threads, Append1(t), Reserving(t)
  PROVE  /\ Open' = Open \cup {New(t)} /\ Lines("settled")' = Lines("settled")
         /\ Calls' = Calls \cup {New(t)} /\ Lines("torn")' = Lines("torn")
         /\ Ids' = Ids \cup {New(t).id} /\ New(t) \notin Calls
<1> DEFINE l == New(t)
<1>1. l \in Line /\ l.what = "reserved" /\ l.id \notin Ids /\ ledger' = ledger \cup {l}
  BY WritesNew
<1>2. Lines("reserved")' = Lines("reserved") \cup {l} /\ Lines("settled")' = Lines("settled")
      /\ Lines("torn")' = Lines("torn") /\ Lines("released")' = Lines("released")
  BY <1>1 DEF Lines
<1>3. Closed' = Closed /\ Closed \subseteq Ids
  BY <1>2 DEF Closed, Lines, Ids, Core, Types, TypeOK, Line, Short, Torn
<1>4. Open' = Open \cup {l}
  BY <1>1, <1>2, <1>3 DEF Open
<1>5. Calls' = Calls \cup {l}
  BY <1>1, <1>2, <1>4 DEF Calls, entries, Lines
<1>6. Ids' = Ids \cup {l.id}
  BY <1>1 DEF Ids, Line, Torn
<1>7. l \notin Calls
  BY <1>1, LinesAre DEF Ids, Core
<1>. QED  BY <1>2, <1>4, <1>5, <1>6, <1>7

-----------------------------------------------------------------------------
(* A reservation is closed, by its settlement or its release. *)

LEMMA LinesClosed ==
  ASSUME Types, LinesOK, NEW h \in Open, NEW x, x.id = h.id,
         (x \in Line /\ x.what = "settled") \/ x \in Short, ledger' = ledger \cup {x}
  PROVE  /\ Open' = Open \ {h} /\ Ids' = Ids /\ Lines("torn")' = Lines("torn")
         /\ x \notin Lines("settled")
         /\ x \in Line => Lines("settled")' = Lines("settled") \cup {x} /\ Calls' = (Calls \ {h}) \cup {x}
         /\ x \in Short => Lines("settled")' = Lines("settled") /\ Calls' = Calls \ {h}
<1>1. h \in Lines("reserved") /\ h \in Line /\ h.id \notin Closed /\ h \in ledger \ Torn
  BY LinesAre, Price DEF Open, Lines, Line, Torn
<1>2. x.what \in {"settled", "released"} /\ x \notin Torn
  BY DEF Short, Line, Torn
<1>3. Lines("reserved")' = Lines("reserved") /\ Lines("torn")' = Lines("torn")
  BY <1>2 DEF Lines
<1>4. Closed' = Closed \cup {h.id}
  BY <1>2 DEF Closed, Lines
<1>5. Open' = Open \ {h}
  <2>1. \A l \in Open : l.id = h.id => l = h
    BY <1>1, LinesAre, Price DEF LinesOK, Lines, Line, Torn
  <2>. QED  BY <1>3, <1>4, <2>1 DEF Open
<1>6. Ids' = Ids
  BY <1>1, <1>2 DEF Ids
<1>7. x \notin Lines("settled")
  BY <1>1 DEF Closed
<1>8. /\ x \in Line => Lines("settled")' = Lines("settled") \cup {x}
      /\ x \in Short => Lines("settled")' = Lines("settled")
  BY DEF Lines, Line, Short
<1>9. Calls = Open \cup Lines("settled") /\ h \notin Lines("settled")
  BY <1>1, LinesAre DEF Lines
<1>10. Calls' = Open' \cup Lines("settled")'
  BY <1>5, <1>3 DEF Calls, entries, Lines, Open
<1>. QED  BY <1>3, <1>5, <1>6, <1>7, <1>8, <1>9, <1>10

\* Append1, of the end of a reservation.
LEMMA WritesOver ==
  ASSUME Core, NEW t \in Threads, Append1(t), ~Reserving(t)
  PROVE  LET x == todo[t][1] IN
         /\ (x \in Line /\ x.what = "settled") \/ x \in Short
         /\ x.id \in held[t] /\ ledger' = ledger \cup {x}
         /\ \E h \in Open : /\ h.id = x.id
                            /\ x.what = "released" => bill[x.id] = 0
                            /\ x.what = "settled" => /\ x.at <= now /\ bill[x.id] <= x.usd
                                                     /\ h.step = x.step /\ h.run = x.run /\ x.usd <= h.usd
         /\ held' = [held EXCEPT ![t] = @ \ {x.id}]
         /\ pc' = [pc EXCEPT ![t] = IF held[t] = {x.id} THEN "idle" ELSE "sent"]
         /\ lock' = NoThread /\ todo' = [todo EXCEPT ![t] = Tail(@)]
         /\ UNCHANGED <<ask, caps, issued, bill, now, crashes>>
<1> DEFINE x == todo[t][1]
<1>1. todo[t] \in Seq(Line \cup Short) /\ todo[t] # <<>> /\ pc[t] = "append"
  BY DEF Core, Types, TypeOK, Append1
<1>2. 1 \in DOMAIN todo[t] /\ Head(todo[t]) = x /\ x \in Line \cup Short
  BY <1>1
<1>3. /\ Len(todo[t]) = 1
      /\ x.what \in {"settled", "released"} /\ x.id \in held[t]
      /\ x.what = "released" => bill[x.id] = 0
      /\ x.what = "settled" =>
            /\ x.at <= now /\ bill[x.id] <= x.usd
            /\ \E h \in Open : /\ h.id = x.id /\ h.step = x.step /\ h.run = x.run
                               /\ x.usd <= h.usd
  BY <1>1 DEF Core, SettlingOK
<1>4. (x \in Line /\ x.what = "settled") \/ x \in Short
  BY <1>2, <1>3 DEF Line, Short
<1>5. \E h \in Open : /\ h.id = x.id
                      /\ x.what = "released" => bill[x.id] = 0
                      /\ x.what = "settled" => /\ x.at <= now /\ bill[x.id] <= x.usd
                                               /\ h.step = x.step /\ h.run = x.run /\ x.usd <= h.usd
  <2>1. CASE x.what = "settled"
    BY <1>3, <2>1
  <2>2. CASE x.what = "released"
    <3>1. \E h \in Open : h.id = x.id
      BY <1>3 DEF Core, HeldOK
    <3>. QED  BY <1>3, <2>2, <3>1
  <2>. QED  BY <1>3, <2>1, <2>2
<1>6. ledger' = ledger \cup {x} /\ held' = [held EXCEPT ![t] = @ \ {x.id}]
  BY <1>2, <1>3 DEF Append1
<1>7. /\ pc' = [pc EXCEPT ![t] = IF held[t] = {x.id} THEN "idle" ELSE "sent"]
      /\ lock' = NoThread /\ todo' = [todo EXCEPT ![t] = Tail(@)]
  BY <1>2, <1>3 DEF Append1, Goto
<1>8. UNCHANGED <<ask, caps, issued, bill, now, crashes>>
  BY DEF Append1
<1>. QED  BY <1>3, <1>4, <1>5, <1>6, <1>7, <1>8

-----------------------------------------------------------------------------
(* Each action keeps the invariant. *)

LEMMA LinesStay ==
  ASSUME ledger' = ledger
  PROVE  /\ Open' = Open /\ Ids' = Ids /\ Calls' = Calls
         /\ \A what : Lines(what)' = Lines(what)
  BY DEF Open, Ids, Calls, entries, Lines, Closed

LEMMA TotalCapType ==
  total_cap \in Nat /\ total_cap <= TotalCap
  BY LedgerAssumption DEF total_cap

LEMMA AskKeeps ==
  ASSUME Core, NEW t \in Threads, NEW q \in Requests, Ask(t, q)
  PROVE  Core'
<1>1. ledger' = ledger /\ UNCHANGED <<lock, todo, held, issued, bill, now, crashes>>
      /\ pc' = [pc EXCEPT ![t] = "reserve"] /\ pc[t] = "idle" /\ ask' = [ask EXCEPT ![t] = q]
      /\ caps' \in [Threads -> 0..TotalCap]
  BY TotalCapType DEF Ask, Goto, Core, Types, TypeOK
<1>2. Open' = Open /\ Ids' = Ids /\ Lines("settled")' = Lines("settled")
  BY <1>1, LinesStay
<1>3. \A u \in Threads : Reserving(u)' <=> Reserving(u)
  BY <1>1 DEF Reserving, Core, Types, TypeOK
<1>4. Types'
  BY <1>1 DEF Core, Types, TypeOK
<1>5. LinesOK' /\ NewLinesOK' /\ BillsOK'
  BY <1>1, <1>2, <1>3 DEF Core, LinesOK, NewLinesOK, BillsOK
<1>6. HeldOK' /\ SettlingOK'
  BY <1>1, <1>2, <1>3 DEF Core, HeldOK, SettlingOK, Types, TypeOK
<1>. QED  BY <1>4, <1>5, <1>6 DEF Core

\* The lines of a request.
LEMMA RequestLines ==
  ASSUME Types, NEW q \in Requests, issued + Len(q.calls) <= MaxCalls
  PROVE  /\ Len(q.calls) \in Nat \ {0} /\ DOMAIN q.calls = 1..Len(q.calls)
         /\ \A i \in 1..Len(q.calls) :
              /\ Reservation(q, i) \in Line /\ Reservation(q, i).what = "reserved"
              /\ Reservation(q, i).id = issued + i /\ Reservation(q, i).at = now
              /\ Reservation(q, i).step = q.calls[i].step /\ Reservation(q, i).run = q.run
              /\ Reservation(q, i).usd = q.calls[i].worst /\ q.calls[i].worst \in Nat \ {0}
<1>1. /\ q.run \in Runs /\ q.calls # <<>>
      /\ q.calls \in Seq([step : Steps, worst : Nat \ {0}])
  BY LedgerAssumption
<1>2. /\ Len(q.calls) \in Nat \ {0} /\ DOMAIN q.calls = 1..Len(q.calls)
      /\ \A i \in 1..Len(q.calls) : q.calls[i] \in [step : Steps, worst : Nat \ {0}]
  <2> DEFINE c == q.calls
             Call == [step : Steps, worst : Nat \ {0}]
  <2>1. c \in Seq(Call) /\ c # <<>>
    BY <1>1
  <2> HIDE DEF c, Call
  <2>2. Len(c) \in Nat \ {0} /\ DOMAIN c = 1..Len(c) /\ \A i \in 1..Len(c) : c[i] \in Call
    BY <2>1
  <2>. QED  BY <2>2 DEF c, Call
<1>3. issued \in 0..MaxCalls /\ now \in 0..MaxTicks /\ MaxCalls \in Nat
  BY LedgerAssumption DEF Types, TypeOK
<1>4. ASSUME NEW i \in 1..Len(q.calls)
      PROVE  /\ Reservation(q, i) \in Line /\ Reservation(q, i).what = "reserved"
             /\ Reservation(q, i).id = issued + i /\ Reservation(q, i).at = now
             /\ Reservation(q, i).step = q.calls[i].step /\ Reservation(q, i).run = q.run
             /\ Reservation(q, i).usd = q.calls[i].worst /\ q.calls[i].worst \in Nat \ {0}
  <2>1. q.calls[i].step \in Steps /\ q.calls[i].worst \in Nat \ {0}
    BY <1>2
  <2>2. issued + i \in 1..MaxCalls
    BY <1>2, <1>3
  <2>. QED  BY <1>1, <1>3, <2>1, <2>2 DEF Reservation, Line
<1>. QED  BY <1>2, <1>4

LEMMA ReserveKeeps ==
  ASSUME Core, NEW t \in Threads, reserve_all(t)
  PROVE  Core'
<1> DEFINE q == ask[t]
           n == Len(q.calls)
<1>1. /\ pc[t] = "reserve" /\ lock = NoThread /\ issued + n <= MaxCalls
      /\ UNCHANGED <<ledger, held, bill, now, crashes>> /\ q \in Requests
  BY DEF reserve_all, Core, Types
<1>2. Open' = Open /\ Ids' = Ids /\ Lines("settled")' = Lines("settled")
  BY <1>1, LinesStay
<1>3. \A u \in Threads : pc[u] # "append"
  BY <1>1, LedgerAssumption DEF Core, Types, TypeOK
<1>4. CASE Fits(q, caps[t])
  <2>1. /\ lock' = t /\ todo' = [todo EXCEPT ![t] = [i \in 1..n |-> Reservation(q, i)]]
        /\ issued' = issued + n /\ pc' = [pc EXCEPT ![t] = "append"] /\ UNCHANGED <<ask, caps>>
    BY <1>4 DEF reserve_all, Goto
  <2>2. /\ n \in Nat \ {0}
        /\ \A i \in 1..n :
              /\ Reservation(q, i) \in Line /\ Reservation(q, i).what = "reserved"
              /\ Reservation(q, i).id = issued + i /\ Reservation(q, i).at = now
    BY <1>1, RequestLines DEF Core
  <2>3. todo'[t] = [i \in 1..n |-> Reservation(q, i)] /\ todo'[t] \in Seq(Line \cup Short)
    BY <2>1, <2>2 DEF Core, Types, TypeOK
  <2>4. issued \in Nat /\ issued' \in 0..MaxCalls /\ MaxCalls \in Nat
    BY <1>1, <2>1, <2>2, LedgerAssumption DEF Core, Types, TypeOK
  <2>5. Types'
    <3>1. todo' \in [Threads -> Seq(Line \cup Short)] /\ todo'[t] # <<>>
      <4>1. todo \in [Threads -> Seq(Line \cup Short)]
        BY DEF Core, Types, TypeOK
      <4>2. todo' \in [Threads -> Seq(Line \cup Short)]
        BY <2>1, <2>3, <4>1
      <4>3. 1 \in DOMAIN todo'[t]
        BY <2>2, <2>3
      <4>. QED  BY <4>2, <4>3
    <3>2. \A l \in ledger \ Torn : l.id <= issued'
      <4>1. \A l \in ledger \ Torn : l.id \in Nat /\ l.id <= issued
        BY DEF Core, Types, TypeOK, Line, Short
      <4>. QED  BY <2>1, <2>2, <2>4, <4>1
    <3>3. TypeOK'
      BY <1>1, <1>3, <2>1, <2>4, <3>1 DEF Core, Types, TypeOK
    <3>. QED  BY <1>1, <1>3, <2>1, <3>1, <3>2, <3>3 DEF Core, Types, TypeOK
  <2>6. \A u \in Threads : Reserving(u)' => u = t
    BY <1>1, <1>3, <2>1 DEF Reserving, Core, Types, TypeOK
  <2>7. NewLinesOK'
    <3>1. SUFFICES ASSUME Reserving(t)'
                   PROVE  /\ \A i \in DOMAIN todo'[t] :
                               LET l == todo'[t][i] IN
                               /\ l.what = "reserved" /\ l.at <= now'
                               /\ l.id <= issued' /\ l.id \notin Ids' /\ bill'[l.id] = 0
                          /\ \A i, j \in DOMAIN todo'[t] : todo'[t][i].id = todo'[t][j].id => i = j
      BY <2>6 DEF NewLinesOK
    <3>2. \A i \in 1..n : /\ issued + i \notin Ids /\ issued + i \in 1..MaxCalls
                          /\ issued + i <= issued' /\ bill[issued + i] = 0
      <4>1. issued \in Nat /\ n \in Nat /\ issued' = issued + n /\ issued' <= MaxCalls
        BY <1>1, <2>1, <2>2, <2>4
      <4>2. \A i \in 1..n : issued + i \notin Ids
        BY <4>1 DEF Ids, Core, Types
      <4>3. \A i \in 1..n : issued + i \in 1..MaxCalls /\ issued + i <= issued'
        BY <2>4, <4>1
      <4>. QED  BY <4>2, <4>3 DEF Core, BillsOK
    <3>3. now <= now
      BY Fields DEF Core
    <3>. QED  BY <1>1, <1>2, <2>2, <2>3, <2>4, <3>2, <3>3
  <2>8. Reserving(t)'
    BY <2>1, <2>2, <2>3 DEF Reserving, Core, Types, TypeOK
  <2>9. LinesOK' /\ BillsOK'
    BY <1>1, <1>2 DEF Core, LinesOK, BillsOK
  <2>10. HeldOK' /\ SettlingOK'
    BY <1>1, <1>2, <1>3, <2>1, <2>8 DEF Core, HeldOK, SettlingOK, Types, TypeOK, Reserving
  <2>. QED  BY <2>5, <2>7, <2>9, <2>10 DEF Core
<1>5. CASE ~Fits(q, caps[t])
  <2>1. /\ pc' = [pc EXCEPT ![t] = "idle"] /\ ask' = [ask EXCEPT ![t] = Nobody]
        /\ UNCHANGED <<lock, todo, issued>> /\ caps' \in [Threads -> 0..TotalCap]
    <3>1. /\ pc' = [pc EXCEPT ![t] = "idle"] /\ ask' = [ask EXCEPT ![t] = Nobody]
          /\ caps' = [caps EXCEPT ![t] = 0] /\ UNCHANGED <<lock, todo, issued>>
      BY <1>5 DEF reserve_all, Goto
    <3>2. caps \in [Threads -> 0..TotalCap] /\ 0 \in 0..TotalCap
      BY LedgerAssumption DEF Core, Types, TypeOK
    <3>. QED  BY <3>1, <3>2
  <2>2. Types'
    BY <1>1, <2>1 DEF Core, Types, TypeOK
  <2>3. \A u \in Threads : Reserving(u)' <=> Reserving(u)
    BY <1>1, <2>1 DEF Reserving, Core, Types, TypeOK
  <2>4. LinesOK' /\ NewLinesOK' /\ BillsOK'
    BY <1>1, <1>2, <2>1, <2>3 DEF Core, LinesOK, NewLinesOK, BillsOK
  <2>5. HeldOK' /\ SettlingOK'
    BY <1>1, <1>2, <2>1, <2>3 DEF Core, HeldOK, SettlingOK, Types, TypeOK
  <2>. QED  BY <2>2, <2>4, <2>5 DEF Core
<1>. QED  BY <1>4, <1>5

LEMMA Tails ==
  ASSUME NEW R, NEW s \in Seq(R), s # <<>>
  PROVE  /\ Tail(s) \in Seq(R) /\ Len(s) \in Nat \ {0} /\ Len(Tail(s)) = Len(s) - 1
         /\ DOMAIN s = 1..Len(s) /\ DOMAIN Tail(s) = 1..(Len(s) - 1)
         /\ \A i \in 1..(Len(s) - 1) : Tail(s)[i] = s[i + 1] /\ i + 1 \in 1..Len(s)
         /\ 1 \in 1..Len(s) /\ Head(s) = s[1]
  OBVIOUS

\* Only the thread that has the lock writes.
LEMMA OneWriter ==
  ASSUME Types, NEW t \in Threads, pc[t] = "append", NEW u \in Threads, pc[u] = "append"
  PROVE  u = t
  BY LedgerAssumption DEF Types, TypeOK

LEMMA WriteNewKeeps ==
  ASSUME Core, NEW t \in Threads, Append1(t), Reserving(t)
  PROVE  Core'
<1> DEFINE x == todo[t][1]
           l == New(t)
<1>1. /\ x \in Line /\ l \in Line /\ l.what = "reserved" /\ l.id = x.id /\ l.at = now
      /\ l.id \notin Ids /\ l.id <= issued /\ bill[l.id] = 0
      /\ ledger' = ledger \cup {l}
      /\ held' = [held EXCEPT ![t] = @ \cup {l.id}]
      /\ todo' = [todo EXCEPT ![t] = Tail(@)]
      /\ pc' = [pc EXCEPT ![t] = IF Len(todo[t]) > 1 THEN "append" ELSE "send"]
      /\ lock' = (IF Len(todo[t]) > 1 THEN lock ELSE NoThread)
      /\ UNCHANGED <<ask, caps, issued, bill, now, crashes>>
  BY WritesNew
<1>2. /\ Open' = Open \cup {l} /\ Lines("settled")' = Lines("settled") /\ Ids' = Ids \cup {l.id}
  BY LinesNew
<1>3. pc[t] = "append" /\ todo[t] \in Seq(Line \cup Short) /\ todo[t] # <<>>
  BY DEF Append1, Core, Types, TypeOK
<1>4. /\ Tail(todo[t]) \in Seq(Line \cup Short) /\ Len(todo[t]) \in Nat \ {0}
      /\ DOMAIN todo[t] = 1..Len(todo[t]) /\ DOMAIN Tail(todo[t]) = 1..(Len(todo[t]) - 1)
      /\ \A i \in 1..(Len(todo[t]) - 1) : Tail(todo[t])[i] = todo[t][i + 1] /\ i + 1 \in 1..Len(todo[t])
      /\ Len(Tail(todo[t])) = Len(todo[t]) - 1 /\ 1 \in 1..Len(todo[t])
  BY <1>3, Tails
<1>5. todo'[t] = Tail(todo[t]) /\ \A u \in Threads : u # t => todo'[u] = todo[u]
  BY <1>1 DEF Core, Types, TypeOK
<1>6. \A u \in Threads : u # t => pc[u] # "append" /\ pc'[u] = pc[u] /\ held'[u] = held[u]
  BY <1>1, <1>3, OneWriter DEF Core, Types, TypeOK
<1>7. /\ pc'[t] = (IF Len(todo[t]) > 1 THEN "append" ELSE "send")
      /\ held'[t] = held[t] \cup {l.id}
  BY <1>1 DEF Core, Types, TypeOK
<1>8. now \in 0..MaxTicks /\ MaxTicks \in Nat /\ issued \in 0..MaxCalls /\ MaxCalls \in Nat
      /\ l.id \in 1..MaxCalls
  BY <1>1, Fields DEF Core
<1>9. Types'
  <2>1. ledger' \subseteq Line \cup Short \cup Torn /\ IsFiniteSet(ledger')
    BY <1>1, FS_AddElement DEF Core, Types, TypeOK
  <2>2. todo' \in [Threads -> Seq(Line \cup Short)]
    BY <1>1, <1>4 DEF Core, Types, TypeOK
  <2>3. held' \in [Threads -> SUBSET (1..MaxCalls)]
    BY <1>1, <1>8 DEF Core, Types, TypeOK
  <2>4. TypeOK'
    BY <1>1, <1>3, <1>6, <1>7, <2>1, <2>2, <2>3, LedgerAssumption DEF Core, Types, TypeOK
  <2>5. \A k \in ledger' : k.what \in {"reserved", "settled"} => k.at <= now'
    BY <1>1, <1>8 DEF Core, Types
  <2>6. \A k \in ledger' \ Torn : k.id <= issued'
    BY <1>1 DEF Core, Types
  <2>7. \A u \in Threads : pc'[u] \in {"append", "settle"} => todo'[u] # <<>>
    <3>1. ASSUME pc'[t] \in {"append", "settle"}  PROVE todo'[t] # <<>>
      <4>1. 1 \in DOMAIN todo'[t]
        BY <1>4, <1>5, <1>7, <3>1
      <4>. QED  BY <4>1
    <3>2. ASSUME NEW u \in Threads, u # t, pc'[u] \in {"append", "settle"}  PROVE todo'[u] # <<>>
      BY <1>5, <1>6, <3>2 DEF Core, Types
    <3>. QED  BY <3>1, <3>2
  <2>8. \A u \in Threads : pc'[u] = "reserve" => ask'[u] \in Requests
    BY <1>1, <1>6, <1>7 DEF Core, Types
  <2>. QED  BY <2>1, <2>4, <2>5, <2>6, <2>7, <2>8 DEF Types
<1>10. LinesOK'
  BY <1>1 DEF Core, LinesOK, Ids
<1>11. \A i, j \in 1..Len(todo[t]) : /\ todo[t][i].id = todo[t][j].id => i = j
                                     /\ todo[t][i].what = "reserved" /\ todo[t][i].at <= now
                                     /\ todo[t][i].id <= issued /\ todo[t][i].id \notin Ids
                                     /\ bill[todo[t][i].id] = 0
  BY <1>4 DEF Core, NewLinesOK
<1>12. NewLinesOK'
  <2>1. SUFFICES ASSUME NEW i \in 1..(Len(todo[t]) - 1)
                 PROVE  /\ LET k == todo'[t][i] IN
                               /\ k.what = "reserved" /\ k.at <= now'
                               /\ k.id <= issued' /\ k.id \notin Ids' /\ bill'[k.id] = 0
                        /\ \A j \in 1..(Len(todo[t]) - 1) : todo'[t][i].id = todo'[t][j].id => i = j
    <3>1. \A u \in Threads : Reserving(u)' => u = t
      BY <1>6 DEF Reserving
    <3>2. DOMAIN todo'[t] = 1..(Len(todo[t]) - 1)
      BY <1>4, <1>5
    <3>. QED  BY <3>1, <3>2 DEF NewLinesOK
  <2>2. /\ todo'[t][i] = todo[t][i + 1] /\ i + 1 \in 1..Len(todo[t]) /\ i + 1 # 1
        /\ \A j \in 1..(Len(todo[t]) - 1) :
             todo'[t][j] = todo[t][j + 1] /\ j + 1 \in 1..Len(todo[t])
    BY <1>4, <1>5
  <2>3. todo[t][i + 1].id # x.id
    BY <1>4, <1>11, <2>2
  <2>4. \A j \in 1..(Len(todo[t]) - 1) : todo[t][i + 1].id = todo[t][j + 1].id => i + 1 = j + 1
    BY <1>11, <2>2
  <2>. QED  BY <1>1, <1>2, <1>11, <2>2, <2>3, <2>4
<1>13. pc'[t] = "append" => Reserving(t)'
  <2>1. ASSUME pc'[t] = "append"  PROVE Head(todo'[t]) = todo[t][2] /\ 2 \in 1..Len(todo[t])
    <3>1. Len(todo[t]) > 1 /\ todo'[t] \in Seq(Line \cup Short) /\ 1 \in DOMAIN todo'[t]
      BY <1>4, <1>5, <1>7, <2>1
    <3>2. Head(todo'[t]) = todo'[t][1] /\ todo'[t][1] = todo[t][2]
      BY <1>4, <1>5, <3>1
    <3>. QED  BY <1>4, <3>1, <3>2
  <2>. QED  BY <1>11, <2>1 DEF Reserving
<1>14. HeldOK'
  <2>1. ASSUME NEW u \in Threads, NEW id \in held'[u]
        PROVE  \E k \in Open' : /\ k.id = id
                                /\ ~Late => now' - k.at < OpenHoldWindow
                                /\ Reserving(u)' \/ pc'[u] = "send" => bill'[id] = 0
    <3>1. CASE u = t /\ id = l.id
      BY <1>1, <1>2, <1>8, <3>1, LedgerAssumption
    <3>2. CASE ~(u = t /\ id = l.id)
      <4>1. id \in held[u] /\ (Reserving(u)' \/ pc'[u] = "send" => Reserving(u) \/ pc[u] = "send")
        BY <1>5, <1>6, <1>7, <3>2 DEF Reserving
      <4>. QED  BY <1>1, <1>2, <4>1 DEF Core, HeldOK
    <3>. QED  BY <3>1, <3>2
  <2>2. \A u \in Threads : pc'[u] \in {"idle", "reserve"} => held'[u] = {}
    BY <1>6, <1>7 DEF Core, HeldOK
  <2>3. \A u \in Threads : l.id \notin held[u]
    BY <1>1, LinesAre DEF Core, HeldOK, Ids, Open, Lines, Line, Torn
  <2>4. \A u, v \in Threads : u # v => held'[u] \cap held'[v] = {}
    BY <1>6, <1>7, <2>3 DEF Core, HeldOK
  <2>. QED  BY <2>1, <2>2, <2>4 DEF HeldOK
<1>15. SettlingOK'
  <2>1. ASSUME NEW u \in Threads, pc'[u] = "settle" \/ (pc'[u] = "append" /\ ~Reserving(u)')
        PROVE  u # t /\ pc[u] = "settle"
    BY <1>6, <1>7, <1>13, <2>1
  <2>. QED  BY <1>1, <1>2, <1>5, <1>6, <2>1 DEF Core, SettlingOK
<1>16. BillsOK'
  BY <1>1, <1>2, Fields DEF Core, BillsOK
<1>. QED  BY <1>9, <1>10, <1>12, <1>14, <1>15, <1>16 DEF Core

LEMMA WriteOverKeeps ==
  ASSUME Core, NEW t \in Threads, Append1(t), ~Reserving(t)
  PROVE  Core'
<1> DEFINE x == todo[t][1]
<1>1. /\ (x \in Line /\ x.what = "settled") \/ x \in Short
      /\ x.id \in held[t] /\ ledger' = ledger \cup {x}
      /\ held' = [held EXCEPT ![t] = @ \ {x.id}]
      /\ pc' = [pc EXCEPT ![t] = IF held[t] = {x.id} THEN "idle" ELSE "sent"]
      /\ lock' = NoThread /\ todo' = [todo EXCEPT ![t] = Tail(@)]
      /\ UNCHANGED <<ask, caps, issued, bill, now, crashes>>
  BY WritesOver
<1>2. PICK h \in Open : /\ h.id = x.id
                        /\ x.what = "released" => bill[x.id] = 0
                        /\ x.what = "settled" => /\ x.at <= now /\ bill[x.id] <= x.usd
                                                 /\ h.step = x.step /\ h.run = x.run /\ x.usd <= h.usd
  BY WritesOver
<1>3. /\ Open' = Open \ {h} /\ Ids' = Ids /\ x \notin Lines("settled")
      /\ x \in Line => Lines("settled")' = Lines("settled") \cup {x}
      /\ x \in Short => Lines("settled")' = Lines("settled")
  BY <1>1, <1>2, LinesClosed DEF Core
<1>4. pc[t] = "append" /\ todo[t] \in Seq(Line \cup Short) /\ todo[t] # <<>>
  BY DEF Append1, Core, Types, TypeOK
<1>5. Tail(todo[t]) \in Seq(Line \cup Short)
  BY <1>4, Tails
<1>6. \A u \in Threads : /\ pc'[u] # "append"
                         /\ u # t => /\ pc[u] # "append" /\ pc'[u] = pc[u]
                                     /\ held'[u] = held[u] /\ todo'[u] = todo[u]
  BY <1>1, <1>4, OneWriter DEF Core, Types, TypeOK
<1>7. /\ pc'[t] = (IF held[t] = {x.id} THEN "idle" ELSE "sent")
      /\ held'[t] = held[t] \ {x.id}
  BY <1>1 DEF Core, Types, TypeOK
<1>8. h \in ledger \ Torn /\ h.what = "reserved" /\ h.id \notin Closed
  BY LinesAre, Price DEF Core, Open, Lines
<1>9. x.id <= issued /\ x \notin Torn /\ x.what \in {"settled", "released"}
  BY <1>1, <1>2, <1>8 DEF Core, Types, Line, Short, Torn
<1>10. Types'
  <2>1. ledger' \subseteq Line \cup Short \cup Torn /\ IsFiniteSet(ledger')
    BY <1>1, FS_AddElement DEF Core, Types, TypeOK
  <2>2. todo' \in [Threads -> Seq(Line \cup Short)]
    BY <1>1, <1>5 DEF Core, Types, TypeOK
  <2>3. held' \in [Threads -> SUBSET (1..MaxCalls)]
    BY <1>1 DEF Core, Types, TypeOK
  <2>4. TypeOK'
    BY <1>1, <1>6, <2>1, <2>2, <2>3, LedgerAssumption DEF Core, Types, TypeOK
  <2>5. \A k \in ledger' : k.what \in {"reserved", "settled"} => k.at <= now'
    BY <1>1, <1>2, <1>9 DEF Core, Types
  <2>6. \A k \in ledger' \ Torn : k.id <= issued'
    BY <1>1, <1>9 DEF Core, Types
  <2>7. \A u \in Threads : pc'[u] \in {"append", "settle"} => todo'[u] # <<>>
    BY <1>6, <1>7 DEF Core, Types
  <2>8. \A u \in Threads : pc'[u] = "reserve" => ask'[u] \in Requests
    BY <1>1, <1>6, <1>7 DEF Core, Types
  <2>. QED  BY <2>1, <2>4, <2>5, <2>6, <2>7, <2>8 DEF Types
<1>11. LinesOK'
  <2>1. \A l \in ledger \ Torn : l.what = x.what => l.id # x.id
    BY <1>2, <1>8, <1>9 DEF Closed, Lines
  <2>. QED  BY <1>1, <2>1 DEF Core, LinesOK
<1>12. NewLinesOK'
  BY <1>6 DEF NewLinesOK, Reserving
<1>13. \A u \in Threads : \A id \in held'[u] : id \in held[u] /\ id # h.id
  BY <1>1, <1>2, <1>6, <1>7 DEF Core, HeldOK
<1>14. HeldOK'
  <2>1. ASSUME NEW u \in Threads, NEW id \in held'[u]
        PROVE  \E k \in Open' : /\ k.id = id
                                /\ ~Late => now' - k.at < OpenHoldWindow
                                /\ Reserving(u)' \/ pc'[u] = "send" => bill'[id] = 0
    <3>1. Reserving(u)' \/ pc'[u] = "send" => Reserving(u) \/ pc[u] = "send"
      BY <1>6, <1>7 DEF Reserving
    <3>2. PICK k \in Open : /\ k.id = id
                            /\ ~Late => now - k.at < OpenHoldWindow
                            /\ Reserving(u) \/ pc[u] = "send" => bill[id] = 0
      BY <1>13 DEF Core, HeldOK
    <3>3. k \in Open'
      BY <1>3, <1>13, <3>2
    <3>. QED  BY <1>1, <3>1, <3>2, <3>3
  <2>2. \A u \in Threads : pc'[u] \in {"idle", "reserve"} => held'[u] = {}
    BY <1>6, <1>7 DEF Core, HeldOK
  <2>3. \A u, v \in Threads : u # v => held'[u] \cap held'[v] = {}
    BY <1>13 DEF Core, HeldOK
  <2>. QED  BY <2>1, <2>2, <2>3 DEF HeldOK
<1>15. SettlingOK'
  <2>1. ASSUME NEW u \in Threads, pc'[u] = "settle" \/ (pc'[u] = "append" /\ ~Reserving(u)')
        PROVE  u # t /\ pc[u] = "settle" /\ todo'[u] = todo[u] /\ held'[u] = held[u]
    BY <1>6, <1>7, <2>1
  <2>2. ASSUME NEW u \in Threads, u # t, pc[u] = "settle", NEW k \in Open, k.id = todo[u][1].id
        PROVE  k \in Open'
    <3>1. todo[u][1].id \in held[u]
      BY <2>2 DEF Core, SettlingOK
    <3>2. k # h
      BY <1>1, <1>2, <2>2, <3>1 DEF Core, HeldOK
    <3>. QED  BY <1>3, <3>2
  <2>. QED  BY <1>1, <2>1, <2>2 DEF Core, SettlingOK
<1>16. BillsOK'
  BY <1>1, <1>2, <1>3, Fields DEF Core, BillsOK
<1>. QED  BY <1>10, <1>11, <1>12, <1>14, <1>15, <1>16 DEF Core

LEMMA HeldLines ==
  ASSUME Types, LinesOK, NEW h \in Open
  PROVE  /\ h.id \in Ids /\ h.id \in 1..MaxCalls /\ h.usd \in Nat /\ \A l \in Lines("settled") : l.id # h.id
         /\ \A l \in Open : l.id = h.id => l = h
<1>1. h \in Line /\ h \in ledger \ Torn /\ h.id \notin Closed /\ h.what = "reserved"
  BY LinesAre, Price DEF Open, Lines
<1>2. \A l \in Lines("settled") : l.id \in Closed
  BY DEF Closed
<1>3. \A l \in Open : l \in ledger \ Torn /\ l.what = "reserved"
  BY LinesAre, Price DEF Open, Lines
<1>. QED  BY <1>1, <1>2, <1>3 DEF Ids, LinesOK, Line

\* What a call costs is known when it leaves, and within its hold.
LEMMA Sends ==
  ASSUME Core, NEW t \in Threads, Send(t)
  PROVE  /\ bill' \in [1..MaxCalls -> Nat]
         /\ \A id \in (1..MaxCalls) \ held[t] : bill'[id] = bill[id]
         /\ \A h \in Open : h.id \in held[t] => bill[h.id] = 0 /\ bill'[h.id] \in 0..h.usd
<1>1. PICK b \in [held[t] -> {0, 1}] :
        bill' = [id \in 1..MaxCalls |-> IF id \in held[t] THEN b[id] * Worst(id) ELSE bill[id]]
  BY DEF Send
<1>2. pc[t] = "send" /\ held[t] \subseteq 1..MaxCalls /\ bill \in [1..MaxCalls -> Nat]
  BY DEF Send, Core, Types, TypeOK
<1>3. ASSUME NEW h \in Open, h.id \in held[t]
      PROVE  bill[h.id] = 0 /\ bill'[h.id] \in 0..h.usd
  <2>1. Worst(h.id) = h.usd
    BY HoldIs DEF Core, Worst
  <2>2. bill'[h.id] = b[h.id] * h.usd /\ b[h.id] \in {0, 1}
    BY <1>1, <1>2, <1>3, <2>1
  <2>3. h.usd \in Nat
    BY LinesAre, Price DEF Core
  <2>4. bill[h.id] = 0
    BY <1>2, <1>3 DEF Core, HeldOK
  <2>. QED  BY <2>2, <2>3, <2>4
<1>4. \A id \in (1..MaxCalls) \ held[t] : bill'[id] = bill[id]
  BY <1>1
<1>5. ASSUME NEW id \in 1..MaxCalls  PROVE bill'[id] \in Nat
  <2>1. CASE id \in held[t]
    <3>1. PICK h \in Open : h.id = id
      BY <2>1 DEF Core, HeldOK
    <3>2. bill'[h.id] \in 0..h.usd /\ h.usd \in Nat
      BY <1>3, <2>1, <3>1, HeldLines DEF Core
    <3>. QED  BY <3>1, <3>2
  <2>. QED  BY <1>2, <1>4, <2>1
<1>6. bill' = [id \in 1..MaxCalls |-> bill'[id]]
  BY <1>1
<1>. QED  BY <1>3, <1>4, <1>5, <1>6

LEMMA SendKeeps ==
  ASSUME Core, NEW t \in Threads, Send(t)
  PROVE  Core'
<1>1. /\ pc[t] = "send" /\ pc' = [pc EXCEPT ![t] = "sent"]
      /\ UNCHANGED <<ledger, lock, ask, caps, todo, held, issued, now, crashes>>
  BY DEF Send, Goto
<1>2. Open' = Open /\ Ids' = Ids /\ Lines("settled")' = Lines("settled")
  BY <1>1, LinesStay
<1>3. /\ bill' \in [1..MaxCalls -> Nat]
      /\ \A id \in (1..MaxCalls) \ held[t] : bill'[id] = bill[id]
      /\ \A h \in Open : h.id \in held[t] => bill'[h.id] \in 0..h.usd
  BY Sends
<1>4. \A u \in Threads : Reserving(u)' <=> Reserving(u)
  BY <1>1 DEF Reserving, Core, Types, TypeOK
<1>5. \A u \in Threads : pc'[u] = (IF u = t THEN "sent" ELSE pc[u])
  BY <1>1 DEF Core, Types, TypeOK
<1>6. Types'
  BY <1>1, <1>3 DEF Core, Types, TypeOK
<1>7. \A id \in held[t] : id \in Ids
  BY HeldLines DEF Core, HeldOK
<1>8. LinesOK'
  BY <1>1 DEF Core, LinesOK
<1>9. NewLinesOK'
  <2>1. SUFFICES ASSUME NEW u \in Threads, Reserving(u), NEW i \in DOMAIN todo[u]
                 PROVE  bill'[todo[u][i].id] = 0
    BY <1>1, <1>2, <1>4 DEF Core, NewLinesOK
  <2>2. todo[u][i].what = "reserved" /\ todo[u][i].id \notin Ids /\ bill[todo[u][i].id] = 0
    BY <2>1 DEF Core, NewLinesOK
  <2>3. todo[u][i] \in Line \cup Short
    BY DEF Core, Types, TypeOK
  <2>4. todo[u][i].id \in 1..MaxCalls
    BY <2>3 DEF Line, Short
  <2>. QED  BY <1>3, <1>7, <2>2, <2>4
<1>10. \A u \in Threads : u # t => \A id \in held[u] : bill'[id] = bill[id]
  BY <1>3 DEF Core, HeldOK, Types, TypeOK
<1>11. HeldOK'
  <2>1. ASSUME NEW u \in Threads, NEW id \in held[u]
        PROVE  \E k \in Open : /\ k.id = id
                               /\ ~Late => now - k.at < OpenHoldWindow
                               /\ Reserving(u)' \/ pc'[u] = "send" => bill'[id] = 0
    <3>1. Reserving(u)' \/ pc'[u] = "send" => u # t /\ (Reserving(u) \/ pc[u] = "send")
      BY <1>1, <1>4, <1>5 DEF Reserving
    <3>. QED  BY <1>10, <3>1 DEF Core, HeldOK
  <2>. QED  BY <1>1, <1>2, <1>5, <2>1 DEF Core, HeldOK
<1>12. SettlingOK'
  <2>1. ASSUME NEW u \in Threads, pc'[u] = "settle" \/ (pc'[u] = "append" /\ ~Reserving(u)')
        PROVE  u # t /\ (pc[u] = "settle" \/ (pc[u] = "append" /\ ~Reserving(u)))
    BY <1>4, <1>5, <2>1
  <2>2. ASSUME NEW u \in Threads, pc'[u] = "settle" \/ (pc'[u] = "append" /\ ~Reserving(u)')
        PROVE  todo[u][1].id \in held[u] /\ bill'[todo[u][1].id] = bill[todo[u][1].id]
    BY <1>10, <2>1, <2>2 DEF Core, SettlingOK
  <2>. QED  BY <1>1, <1>2, <2>1, <2>2 DEF Core, SettlingOK
<1>13. BillsOK'
  <2>1. \A l \in Open : bill'[l.id] <= l.usd
    BY <1>3, HeldLines DEF Core, BillsOK
  <2>2. \A l \in Lines("settled") : l.id \notin held[t] /\ l.id \in 1..MaxCalls
    BY HeldLines, LinesAre, Fields DEF Core, HeldOK
  <2>. QED  BY <1>2, <1>3, <1>7, <2>1, <2>2 DEF Core, BillsOK
<1>. QED  BY <1>6, <1>8, <1>9, <1>11, <1>12, <1>13 DEF Core

\* What an answer is about to write.
LEMMA Answers ==
  ASSUME Core, NEW t \in Threads, NEW id \in 1..MaxCalls, Answer(t, id)
  PROVE  \E x, h : /\ todo' = [todo EXCEPT ![t] = <<x>>]
                   /\ h \in Open /\ h.id = id /\ x.id = id
                   /\ \/ x \in Short /\ x.what = "released" /\ bill[id] = 0
                      \/ /\ x \in Line /\ x.what = "settled" /\ x.at = now /\ bill[id] <= x.usd
                         /\ h.step = x.step /\ h.run = x.run /\ x.usd <= h.usd
<1>1. pc[t] = "sent" /\ id \in held[t]
  BY DEF Answer
<1>2. PICK h \in Open : h.id = id
  BY <1>1 DEF Core, HeldOK
<1>3. Hold(id) = h /\ h \in Line /\ h.usd \in Nat /\ bill[id] \in Nat /\ bill[id] <= h.usd
  BY <1>2, HoldIs, LinesAre, Price, Fields DEF Core, BillsOK
<1>4. CASE \E usd \in Charges(id) : todo' = [todo EXCEPT ![t] = <<Settlement(id, usd)>>]
  <2>1. PICK usd \in Charges(id) : todo' = [todo EXCEPT ![t] = <<Settlement(id, usd)>>]
    BY <1>4
  <2>2. usd \in Nat /\ bill[id] <= usd /\ usd <= h.usd
    BY <1>3 DEF Charges, Worst
  <2>3. Settlement(id, usd) = [h EXCEPT !.what = "settled", !.usd = usd, !.at = now]
    BY <1>3 DEF Settlement
  <2>4. now \in 0..MaxTicks
    BY DEF Core, Types, TypeOK
  <2> DEFINE x == Settlement(id, usd)
  <2>5. /\ x \in Line /\ x.what = "settled" /\ x.at = now /\ x.usd = usd /\ x.id = id
        /\ x.step = h.step /\ x.run = h.run
    BY <1>2, <1>3, <2>2, <2>3, <2>4 DEF Line
  <2> HIDE DEF x
  <2>6. todo' = [todo EXCEPT ![t] = <<x>>]
    BY <2>1 DEF x
  <2>. QED  BY <1>2, <2>2, <2>5, <2>6
<1>5. CASE bill[id] = 0 /\ todo' = [todo EXCEPT ![t] = <<[what |-> "released", id |-> id]>>]
  <2> DEFINE x == [what |-> "released", id |-> id]
  <2>1. x \in Short /\ x.what = "released" /\ x.id = id
    BY DEF Short
  <2> HIDE DEF x
  <2>2. todo' = [todo EXCEPT ![t] = <<x>>]
    BY <1>5 DEF x
  <2>. QED  BY <1>2, <1>5, <2>1, <2>2
<1>. QED  BY <1>4, <1>5 DEF Answer

LEMMA AnswerKeeps ==
  ASSUME Core, NEW t \in Threads, NEW id \in 1..MaxCalls, Answer(t, id)
  PROVE  Core'
<1>1. /\ pc[t] = "sent" /\ id \in held[t] /\ pc' = [pc EXCEPT ![t] = "settle"]
      /\ UNCHANGED <<ledger, lock, ask, caps, held, issued, bill, now, crashes>>
  BY DEF Answer, Goto
<1>2. Open' = Open /\ Ids' = Ids /\ Lines("settled")' = Lines("settled")
  BY <1>1, LinesStay
<1>3. PICK x, h : /\ todo' = [todo EXCEPT ![t] = <<x>>]
                  /\ h \in Open /\ h.id = id /\ x.id = id
                  /\ \/ x \in Short /\ x.what = "released" /\ bill[id] = 0
                     \/ /\ x \in Line /\ x.what = "settled" /\ x.at = now /\ bill[id] <= x.usd
                        /\ h.step = x.step /\ h.run = x.run /\ x.usd <= h.usd
  BY Answers
<1>4. \A u \in Threads : /\ pc'[u] = (IF u = t THEN "settle" ELSE pc[u])
                         /\ todo'[u] = (IF u = t THEN <<x>> ELSE todo[u])
  BY <1>1, <1>3 DEF Core, Types, TypeOK
<1>5. <<x>> \in Seq(Line \cup Short) /\ <<x>> # <<>> /\ Len(<<x>>) = 1 /\ <<x>>[1] = x
  BY <1>3
<1>6. Types'
  <2>1. todo' \in [Threads -> Seq(Line \cup Short)]
    BY <1>3, <1>5 DEF Core, Types, TypeOK
  <2>2. TypeOK'
    BY <1>1, <2>1 DEF Core, Types, TypeOK
  <2>. QED  BY <1>1, <1>4, <1>5, <2>2 DEF Core, Types
<1>7. \A u \in Threads : Reserving(u)' <=> Reserving(u)
  BY <1>1, <1>4 DEF Reserving
<1>8. LinesOK' /\ BillsOK'
  BY <1>1, <1>2 DEF Core, LinesOK, BillsOK
<1>9. NewLinesOK'
  BY <1>1, <1>2, <1>4, <1>7 DEF Core, NewLinesOK, Reserving
<1>10. HeldOK'
  BY <1>1, <1>2, <1>4, <1>7 DEF Core, HeldOK
<1>11. SettlingOK'
  <2>1. now <= now
    BY Fields DEF Core
  <2>2. ASSUME NEW u \in Threads, u # t, pc'[u] = "settle" \/ (pc'[u] = "append" /\ ~Reserving(u)')
        PROVE  pc[u] = "settle" \/ (pc[u] = "append" /\ ~Reserving(u))
    BY <1>4, <1>7, <2>2
  <2>3. \A u \in Threads : u # t => todo'[u] = todo[u]
    BY <1>4
  <2>4. todo'[t] = <<x>> /\ Len(todo'[t]) = 1 /\ todo'[t][1] = x
    BY <1>4, <1>5
  <2>. QED  BY <1>1, <1>2, <1>3, <2>1, <2>2, <2>3, <2>4 DEF Core, SettlingOK
<1>. QED  BY <1>6, <1>8, <1>9, <1>10, <1>11 DEF Core

LEMMA SettleKeeps ==
  ASSUME Core, NEW t \in Threads, Settle(t)
  PROVE  Core'
<1>1. /\ pc[t] = "settle" /\ lock = NoThread /\ lock' = t /\ pc' = [pc EXCEPT ![t] = "append"]
      /\ UNCHANGED <<ledger, ask, caps, todo, held, issued, bill, now, crashes>>
  BY DEF Settle, Goto
<1>2. Open' = Open /\ Ids' = Ids /\ Lines("settled")' = Lines("settled")
  BY <1>1, LinesStay
<1>3. \A u \in Threads : pc'[u] = (IF u = t THEN "append" ELSE pc[u]) /\ pc[u] # "append"
  BY <1>1, LedgerAssumption DEF Core, Types, TypeOK
<1>4. /\ Len(todo[t]) = 1 /\ todo[t][1].what \in {"settled", "released"}
      /\ todo[t] \in Seq(Line \cup Short)
  BY <1>1 DEF Core, SettlingOK, Types, TypeOK
<1>5. \A u \in Threads : ~Reserving(u)'
  <2>1. Head(todo[t]) = todo[t][1]
    BY <1>4
  <2>. QED  BY <1>1, <1>3, <1>4, <2>1 DEF Reserving
<1>6. Types'
  BY <1>1, <1>3 DEF Core, Types, TypeOK
<1>7. LinesOK' /\ NewLinesOK' /\ BillsOK'
  BY <1>1, <1>2, <1>5 DEF Core, LinesOK, NewLinesOK, BillsOK
<1>8. HeldOK' /\ SettlingOK'
  BY <1>1, <1>2, <1>3, <1>5 DEF Core, HeldOK, SettlingOK
<1>. QED  BY <1>6, <1>7, <1>8 DEF Core

\* A torn line is no line of any call.
LEMMA LinesTorn ==
  ASSUME NEW x \in Torn, ledger' = ledger \cup {x}
  PROVE  /\ Open' = Open /\ Ids' = Ids /\ Calls' = Calls
         /\ Lines("settled")' = Lines("settled") /\ Lines("reserved")' = Lines("reserved")
         /\ ledger' \ Torn = ledger \ Torn
<1>1. x.what = "torn"
  BY DEF Torn
<1>2. /\ Lines("settled")' = Lines("settled") /\ Lines("reserved")' = Lines("reserved")
      /\ Lines("released")' = Lines("released")
  BY <1>1 DEF Lines
<1>3. Open' = Open
  BY <1>2 DEF Open, Closed
<1>4. Calls = Open \cup Lines("settled") /\ Calls' = Open' \cup Lines("settled")'
  BY DEF Calls, entries, Open, Lines
<1>. QED  BY <1>2, <1>3, <1>4 DEF Ids

\* A thread gives up, or dies, and keeps nothing.
LEMMA LeavingKeeps ==
  ASSUME Core, NEW t \in Threads, pc[t] # "idle", pc' = [pc EXCEPT ![t] = "idle"],
         todo' = [todo EXCEPT ![t] = <<>>], held' = [held EXCEPT ![t] = {}],
         ask' = [ask EXCEPT ![t] = Nobody], caps' = [caps EXCEPT ![t] = 0], lock' = (IF lock = t THEN NoThread ELSE lock),
         ledger' = ledger \/ \E x \in Torn : ledger' = ledger \cup {x},
         UNCHANGED <<issued, bill, now>>, crashes' \in 0..MaxCrashes
  PROVE  Core'
<1>1. /\ Open' = Open /\ Ids' = Ids /\ Lines("settled")' = Lines("settled")
      /\ ledger' \ Torn = ledger \ Torn
  BY LinesStay, LinesTorn
<1>2. ledger' \subseteq Line \cup Short \cup Torn /\ IsFiniteSet(ledger')
  <2>1. ledger \subseteq Line \cup Short \cup Torn /\ IsFiniteSet(ledger)
    BY DEF Core, Types, TypeOK
  <2>2. CASE ledger' = ledger
    BY <2>1, <2>2
  <2>3. CASE \E x \in Torn : ledger' = ledger \cup {x}
    BY <2>1, <2>3, FS_AddElement
  <2>. QED  BY <2>2, <2>3
<1>3. \A u \in Threads : /\ pc'[u] = (IF u = t THEN "idle" ELSE pc[u])
                         /\ held'[u] = (IF u = t THEN {} ELSE held[u])
                         /\ u # t => todo'[u] = todo[u] /\ ask'[u] = ask[u]
  BY DEF Core, Types, TypeOK
<1>4. \A u \in Threads : Reserving(u)' <=> u # t /\ Reserving(u)
  BY <1>3 DEF Reserving
<1>5. Types'
  <2>1. <<>> \in Seq(Line \cup Short)
    OBVIOUS
  <2>2. todo' \in [Threads -> Seq(Line \cup Short)]
    BY <2>1 DEF Core, Types, TypeOK
  <2> DEFINE Totals == [Threads -> 0..TotalCap]
  <2>0. caps' \in Totals
    <3>1. caps \in Totals /\ 0 \in 0..TotalCap
      BY LedgerAssumption DEF Core, Types, TypeOK
    <3>. QED  BY <3>1
  <2>3. TypeOK'
    BY <1>2, <1>3, <2>0, <2>2, LedgerAssumption DEF Core, Types, TypeOK
  <2>4. \A l \in ledger' : l.what \in {"reserved", "settled"} => l.at <= now'
    BY DEF Core, Types, Torn
  <2>5. \A l \in ledger' \ Torn : l.id <= issued'
    BY <1>1 DEF Core, Types
  <2>. QED  BY <1>2, <1>3, <2>3, <2>4, <2>5 DEF Core, Types
<1>6. LinesOK' /\ BillsOK' /\ NewLinesOK'
  BY <1>1, <1>3, <1>4 DEF Core, LinesOK, BillsOK, NewLinesOK
<1>7. HeldOK' /\ SettlingOK'
  BY <1>1, <1>3, <1>4 DEF Core, HeldOK, SettlingOK
<1>. QED  BY <1>5, <1>6, <1>7 DEF Core

LEMMA LockTimeoutKeeps ==
  ASSUME Core, NEW t \in Threads, LockTimeout(t)
  PROVE  Core'
<1>1. lock # t
  BY DEF LockTimeout, Core, Types, TypeOK
<1>. QED  BY <1>1, LeavingKeeps DEF LockTimeout, Goto, Core, Types, TypeOK

LEMMA CrashKeeps ==
  ASSUME Core, NEW t \in Threads, Crash(t)
  PROVE  Core'
<1>1. crashes \in 0..MaxCrashes /\ crashes' \in 0..MaxCrashes
  BY LedgerAssumption DEF Crash, Core, Types, TypeOK
<1>2. [what |-> "torn", id |-> crashes] \in Torn
  BY <1>1 DEF Torn
<1>3. ledger' = ledger \/ \E x \in Torn : ledger' = ledger \cup {x}
  BY <1>2 DEF Crash
<1>. QED  BY <1>1, <1>3, LeavingKeeps DEF Crash, Goto

\* A hold that is dropped is nobody's: those that are out are younger.
LEMMA LeftOver ==
  ASSUME Core, NoLateRelease, NEW id \in 1..MaxCalls, ReleaseLeftOver(id)
  PROVE  /\ \E h \in Open : h.id = id
         /\ [what |-> "released", id |-> id] \in Short
         /\ \A t \in Threads : id \notin held[t] /\ pc[t] # "append"
<1>1. PICK h \in Open : h.id = id /\ now - h.at >= OpenHoldWindow
  BY DEF ReleaseLeftOver
<1>2. ~Late
  BY DEF NoLateRelease, ReleaseLeftOver
<1>3. ASSUME NEW t \in Threads  PROVE id \notin held[t] /\ pc[t] # "append"
  <2>1. \A k \in Open : k.id = id => k = h
    BY <1>1, HeldLines DEF Core
  <2>2. now \in Int /\ h.at \in Int /\ OpenHoldWindow \in Int
    BY Fields, LinesAre, LedgerAssumption DEF Core
  <2>3. id \notin held[t]
    BY <1>1, <1>2, <2>1, <2>2 DEF Core, HeldOK
  <2>. QED  BY <2>3, LedgerAssumption DEF ReleaseLeftOver, Core, Types, TypeOK
<1>. QED  BY <1>1, <1>3 DEF Short

LEMMA ReleaseKeeps ==
  ASSUME Core, NoLateRelease, NEW id \in 1..MaxCalls, ReleaseLeftOver(id)
  PROVE  Core'
<1> DEFINE x == [what |-> "released", id |-> id]
<1>1. PICK h \in Open : h.id = id
  BY LeftOver
<1>2. x \in Short /\ x.id = id /\ x.what = "released" /\ x \notin Torn
  BY LeftOver DEF Torn
<1>3. ledger' = ledger \cup {x} /\ UNCHANGED <<lock, pc, ask, caps, todo, held, issued, bill, now, crashes>>
  BY DEF ReleaseLeftOver
<1>4. \A t \in Threads : id \notin held[t] /\ pc[t] # "append"
  BY LeftOver
<1> HIDE DEF x
<1>5. Open' = Open \ {h} /\ Ids' = Ids /\ Lines("settled")' = Lines("settled")
  BY <1>1, <1>2, <1>3, LinesClosed DEF Core
<1>6. h \in ledger \ Torn /\ h.id \notin Closed
  BY LinesAre, Price DEF Core, Open, Lines
<1>7. Types'
  <2>1. ledger' \subseteq Line \cup Short \cup Torn /\ IsFiniteSet(ledger')
    BY <1>2, <1>3, FS_AddElement DEF Core, Types, TypeOK
  <2>2. id <= issued
    BY <1>1, <1>6 DEF Core, Types
  <2>3. TypeOK'
    BY <1>3, <2>1 DEF Core, Types, TypeOK
  <2>. QED  BY <1>2, <1>3, <2>1, <2>2, <2>3 DEF Core, Types
<1>8. LinesOK'
  <2>1. \A l \in ledger \ Torn : l.what = "released" => l.id # id
    BY <1>1, <1>6 DEF Closed, Lines
  <2>. QED  BY <1>2, <1>3, <2>1 DEF Core, LinesOK
<1>9. NewLinesOK'
  BY <1>3, <1>4 DEF NewLinesOK, Reserving
<1>10. \A t \in Threads : Reserving(t)' <=> Reserving(t)
  BY <1>3 DEF Reserving
<1>11. \A t \in Threads : \A k \in Open : k.id \in held[t] => k \in Open'
  BY <1>1, <1>4, <1>5
<1>12. HeldOK' /\ SettlingOK'
  BY <1>3, <1>10, <1>11 DEF Core, HeldOK, SettlingOK
<1>13. BillsOK'
  BY <1>3, <1>5 DEF Core, BillsOK
<1>. QED  BY <1>7, <1>8, <1>9, <1>12, <1>13 DEF Core

LEMMA TickKeeps ==
  ASSUME Core, Tick
  PROVE  Core'
<1>1. /\ now < MaxTicks /\ now' = now + 1
      /\ UNCHANGED <<ledger, lock, pc, ask, caps, todo, held, issued, bill, crashes>>
  BY DEF Tick
<1>2. Open' = Open /\ Ids' = Ids /\ Lines("settled")' = Lines("settled")
  BY <1>1, LinesStay
<1>3. now \in 0..MaxTicks /\ MaxTicks \in Nat /\ now' \in 0..MaxTicks
  BY <1>1, Fields DEF Core
<1>4. \A t \in Threads : Reserving(t)' <=> Reserving(t)
  BY <1>1 DEF Reserving
<1>5. \A k : k \in Line => (k.at <= now => k.at <= now')
  BY <1>1, <1>3, Fields DEF Core
<1>6. \A l \in ledger : l.what \in {"reserved", "settled"} => l \in Line
  BY DEF Core, Types, TypeOK, Line, Short, Torn
<1>7. Types'
  BY <1>1, <1>3, <1>5, <1>6 DEF Core, Types, TypeOK
<1>8. LinesOK' /\ BillsOK'
  BY <1>1, <1>2 DEF Core, LinesOK, BillsOK
<1>9. \A t \in Threads : \A i \in DOMAIN todo[t] :
        todo[t][i].what \in {"reserved", "settled"} => todo[t][i] \in Line
  <2>1. \A t \in Threads : \A i \in DOMAIN todo[t] : todo[t][i] \in Line \cup Short
    BY DEF Core, Types, TypeOK
  <2>. QED  BY <2>1 DEF Short
<1>10. NewLinesOK'
  BY <1>1, <1>2, <1>4, <1>5, <1>9 DEF Core, NewLinesOK
<1>11. SettlingOK'
  <2>1. \A t \in Threads : Len(todo[t]) = 1 => 1 \in DOMAIN todo[t]
    <3>1. \A t \in Threads : todo[t] \in Seq(Line \cup Short)
      BY DEF Core, Types, TypeOK
    <3>. QED  BY <3>1
  <2>. QED  BY <1>1, <1>2, <1>4, <1>5, <1>9, <2>1 DEF Core, SettlingOK
<1>12. HeldOK'
  <2>1. ASSUME NEW t \in Threads, NEW id \in held[t]
        PROVE  \E k \in Open : /\ k.id = id
                               /\ ~Late => now' - k.at < OpenHoldWindow
                               /\ Reserving(t) \/ pc[t] = "send" => bill[id] = 0
    <3>1. PICK k \in Open : /\ k.id = id
                            /\ Reserving(t) \/ pc[t] = "send" => bill[id] = 0
      BY DEF Core, HeldOK
    <3>2. Hold(id) = k
      BY <3>1, HoldIs DEF Core
    <3>3. ~Late => now + 1 - k.at < OpenHoldWindow
      BY <3>2 DEF Tick
    <3>4. k.at \in Int
      BY <3>1, Fields, LinesAre DEF Core
    <3>5. now' - k.at = now + 1 - k.at
      BY <1>1, <1>3, <3>4
    <3>6. ~Late => now' - k.at < OpenHoldWindow
      BY <3>3, <3>5
    <3>. QED  BY <3>1, <3>6
  <2>. QED  BY <1>1, <1>2, <1>4, <2>1 DEF Core, HeldOK
<1>. QED  BY <1>7, <1>8, <1>10, <1>11, <1>12 DEF Core

LEMMA StutterKeeps ==
  ASSUME Core, UNCHANGED vars
  PROVE  Core'
<1>1. Open' = Open /\ Ids' = Ids /\ Lines("settled")' = Lines("settled")
  BY LinesStay DEF vars
<1>2. \A t \in Threads : Reserving(t)' <=> Reserving(t)
  BY DEF Reserving, vars
<1>3. Types' /\ LinesOK' /\ NewLinesOK'
  BY <1>1, <1>2 DEF Core, Types, TypeOK, LinesOK, NewLinesOK, vars
<1>4. HeldOK' /\ SettlingOK' /\ BillsOK'
  BY <1>1, <1>2 DEF Core, HeldOK, SettlingOK, BillsOK, vars
<1>. QED  BY <1>3, <1>4 DEF Core

LEMMA CoreInit ==
  Init => Core
<1> SUFFICES ASSUME Init PROVE Core
  OBVIOUS
<1> USE DEF Init
<1>1. Open = {} /\ Ids = {} /\ Lines("settled") = {}
  BY DEF Open, Ids, Lines
<1>2. \A t \in Threads : pc[t] = "idle" /\ ~Reserving(t)
  BY DEF Reserving
<1>3. TypeOK
  <2>1. <<>> \in Seq(Line \cup Short)
    OBVIOUS
  <2>. QED  BY <2>1, LedgerAssumption DEF TypeOK
<1>4. Types
  BY <1>2, <1>3, FS_EmptySet DEF Types
<1>5. LinesOK /\ NewLinesOK /\ HeldOK /\ SettlingOK /\ BillsOK
  BY <1>1, <1>2 DEF LinesOK, NewLinesOK, HeldOK, SettlingOK, BillsOK
<1>. QED  BY <1>4, <1>5 DEF Core

LEMMA CoreStep ==
  ASSUME NoLateRelease, Core, [Next]_vars
  PROVE  Core'
<1>1. CASE \E t \in Threads : Append1(t)
  BY <1>1, WriteNewKeeps, WriteOverKeeps
<1>2. CASE \E t \in Threads : \E q \in Requests : Ask(t, q)
  BY <1>2, AskKeeps
<1>3. CASE \E t \in Threads : \E id \in 1..MaxCalls : Answer(t, id)
  BY <1>3, AnswerKeeps
<1>4. CASE \E t \in Threads : reserve_all(t)
  BY <1>4, ReserveKeeps
<1>5. CASE \E t \in Threads : Send(t)
  BY <1>5, SendKeeps
<1>6. CASE \E t \in Threads : Settle(t)
  BY <1>6, SettleKeeps
<1>7. CASE \E t \in Threads : LockTimeout(t)
  BY <1>7, LockTimeoutKeeps
<1>8. CASE \E t \in Threads : Crash(t)
  BY <1>8, CrashKeeps
<1>9. CASE \E id \in 1..MaxCalls : ReleaseLeftOver(id)
  BY <1>9, ReleaseKeeps
<1>10. CASE Tick
  BY <1>10, TickKeeps
<1>11. CASE UNCHANGED vars
  BY <1>11, StutterKeeps
<1>. QED  BY <1>1, <1>2, <1>3, <1>4, <1>5, <1>6, <1>7, <1>8, <1>9, <1>10, <1>11 DEF Next

LEMMA CoreHolds ==
  ASSUME NoLateRelease
  PROVE  Spec => []Core
<1>1. Core /\ [Next]_vars => Core'
  BY CoreStep
<1>. QED  BY <1>1, CoreInit, PTL DEF Spec

-----------------------------------------------------------------------------
(* What a torn line stops. *)

cost == [l \in Line \cup Torn |-> Cost(l)]

LEMMA UsdIsCost ==
  ASSUME NEW S \in SUBSET (Line \cup Torn)
  PROVE  Usd(S) = Sum(cost, S) /\ \A l \in S : cost[l] \in Nat
<1>1. \A l \in S : Cost(l) = cost[l] /\ cost[l] \in Nat
  BY Price, TotalCapType DEF cost, Cost, Torn, Line
<1>2. {{l} \X (1..Cost(l)) : l \in S} = {{l} \X (1..cost[l]) : l \in S}
  BY <1>1
<1>. QED  BY <1>1, <1>2 DEF Usd, Sum, Units

\* It is charged the whole total, so no call fits beside it under that total.
LEMMA NothingFits ==
  ASSUME Types, NEW x \in Lines("torn"), NEW q \in Requests, issued + Len(q.calls) <= MaxCalls,
         NEW total \in Nat, Fits(q, total)
  PROVE  total > total_cap
<1> DEFINE r == Reservation(q, 1)
           upTo == {Reservation(q, j) : j \in 1..1}
           S == entries \cup upTo
<1>1. 1 \in DOMAIN q.calls /\ r \in Line /\ r.usd \in Nat \ {0} /\ r.what = "reserved"
  BY RequestLines
<1>2. upTo = {r}
  OBVIOUS
<1> HIDE DEF r, upTo
<1>3. entries \subseteq Line \cup Torn /\ IsFiniteSet(entries) /\ x \in entries /\ x \in Torn
  BY LinesAre
<1>4. S \in SUBSET (Line \cup Torn) /\ IsFiniteSet(S) /\ {x, r} \subseteq S
  BY <1>1, <1>2, <1>3, FS_AddElement
<1>5. Sum(cost, {x, r}) <= Sum(cost, S) /\ Sum(cost, S) = Usd(S)
  <2>1. (\A l \in S : cost[l] \in Nat) /\ Sum(cost, S) = Usd(S)
    BY <1>4, UsdIsCost
  <2>2. {x, r} \in SUBSET S /\ \A l \in {x, r} : cost[l] \in Nat /\ cost[l] <= cost[l]
    BY <1>4, <2>1
  <2>3. Sum(cost, {x, r}) <= Sum(cost, S)
    BY <1>4, <2>1, <2>2, SumMonotonic
  <2>. QED  BY <2>1, <2>3
<1>6. Sum(cost, {x, r}) = total_cap + r.usd
  <2>1. cost[x] = total_cap /\ cost[r] = r.usd
    BY <1>1, <1>3 DEF cost, Cost, Torn
  <2>2. x # r
    BY <1>1, <1>3, Price
  <2>3. IsFiniteSet({}) /\ IsFiniteSet({x}) /\ {} \cup {x} = {x} /\ {x} \cup {r} = {x, r}
    BY FS_EmptySet, FS_Singleton
  <2>4. total_cap \in Nat /\ r.usd \in Nat
    BY <1>1, TotalCapType
  <2>5. Sum(cost, {x}) = total_cap
    <3>1. Sum(cost, {} \cup {x}) = Sum(cost, {}) + cost[x]
      BY <2>1, <2>3, <2>4, SumAdd
    <3>2. Sum(cost, {}) = 0 /\ {} \cup {x} = {x}
      BY SumEmpty
    <3>. QED  BY <2>1, <2>4, <3>1, <3>2
  <2>6. Sum(cost, {x} \cup {r}) = Sum(cost, {x}) + cost[r]
    BY <2>1, <2>2, <2>3, <2>4, SumAdd
  <2>7. {x} \cup {r} = {x, r}
    OBVIOUS
  <2>. QED  BY <2>1, <2>5, <2>6, <2>7
<1>7. Sum(cost, S) \in Nat /\ total_cap \in Nat
  BY <1>4, SumFinite, UsdIsCost, TotalCapType
<1>8. Usd(S) > total_cap
  BY <1>1, <1>5, <1>6, <1>7
<1>9. Usd(S) <= total
  BY <1>1 DEF Fits, upTo
<1>. QED  BY <1>5, <1>7, <1>8, <1>9

\* New reservations are on their way only since reserve_all let them through.
LEMMA NewlyReserving ==
  ASSUME Core, [Next]_vars, NEW u \in Threads, Reserving(u)'
  PROVE  Reserving(u) \/ reserve_all(u)
<1> USE DEF Goto
<1>1. pc'[u] = "append"
  BY DEF Reserving
<1>2. ASSUME NEW t \in Threads, Append1(t)  PROVE Reserving(u)
  <2>1. CASE Reserving(t)
    <3>1. /\ pc' = [pc EXCEPT ![t] = IF Len(todo[t]) > 1 THEN "append" ELSE "send"]
          /\ todo' = [todo EXCEPT ![t] = Tail(@)]
      BY <1>2, <2>1, WritesNew
    <3>2. u # t => pc[u] = "append" /\ todo'[u] = todo[u]
      BY <1>1, <3>1 DEF Core, Types, TypeOK
    <3>. QED  BY <2>1, <3>2 DEF Reserving
  <2>2. CASE ~Reserving(t)
    <3>1. /\ pc' = [pc EXCEPT ![t] = IF held[t] = {todo[t][1].id} THEN "idle" ELSE "sent"]
          /\ todo' = [todo EXCEPT ![t] = Tail(@)]
      BY <1>2, <2>2, WritesOver
    <3>2. pc[u] = "append" /\ todo'[u] = todo[u]
      BY <1>1, <3>1 DEF Core, Types, TypeOK
    <3>. QED  BY <3>2 DEF Reserving
  <2>. QED  BY <2>1, <2>2
<1>3. ASSUME NEW t \in Threads, \E q \in Requests : Ask(t, q)  PROVE Reserving(u)
  <2>1. pc' = [pc EXCEPT ![t] = "reserve"] /\ todo' = todo
    BY <1>3 DEF Ask
  <2>. QED  BY <2>1 DEF Reserving, Core, Types, TypeOK
<1>4. ASSUME NEW t \in Threads, \E id \in 1..MaxCalls : Answer(t, id)  PROVE Reserving(u)
  <2>1. PICK x : pc' = [pc EXCEPT ![t] = "settle"] /\ todo' = [todo EXCEPT ![t] = <<x>>]
    BY <1>4, Answers DEF Answer
  <2>. QED  BY <1>1, <2>1 DEF Reserving, Core, Types, TypeOK
<1>5. ASSUME NEW t \in Threads, reserve_all(t)  PROVE Reserving(u) \/ u = t
  <2>1. ASSUME u # t  PROVE pc[u] = pc'[u] /\ todo'[u] = todo[u]
    BY <1>5, <2>1 DEF reserve_all, Core, Types, TypeOK
  <2>. QED  BY <1>1, <2>1 DEF Reserving
<1>6. ASSUME NEW t \in Threads, Send(t)  PROVE Reserving(u)
  BY <1>6 DEF Send, Reserving, Core, Types, TypeOK
<1>7. ASSUME NEW t \in Threads, Settle(t)  PROVE Reserving(u)
  <2>1. u # t => pc[u] = "append"
    BY <1>1, <1>7 DEF Settle, Core, Types, TypeOK
  <2>2. Head(todo[t]) = todo[t][1] /\ todo[t][1].what # "reserved"
    <3>1. Len(todo[t]) = 1 /\ todo[t] \in Seq(Line \cup Short) /\ todo[t][1].what # "reserved"
      BY <1>7 DEF Core, SettlingOK, Settle, Types, TypeOK
    <3>. QED  BY <3>1
  <2>3. todo' = todo
    BY <1>7 DEF Settle
  <2>. QED  BY <2>1, <2>2, <2>3 DEF Reserving
<1>8. ASSUME NEW t \in Threads, LockTimeout(t) \/ Crash(t)  PROVE Reserving(u)
  <2>1. pc' = [pc EXCEPT ![t] = "idle"] /\ todo' = [todo EXCEPT ![t] = <<>>]
    BY <1>8 DEF LockTimeout, Crash
  <2>. QED  BY <1>1, <2>1 DEF Reserving, Core, Types, TypeOK
<1>9. ASSUME (\E id \in 1..MaxCalls : ReleaseLeftOver(id)) \/ Tick \/ UNCHANGED vars  PROVE Reserving(u)
  BY <1>9 DEF ReleaseLeftOver, Tick, vars, Reserving
<1>. QED  BY <1>2, <1>3, <1>4, <1>5, <1>6, <1>7, <1>8, <1>9 DEF Next

\* Ticks and days.
LEMMA Days ==
  ASSUME NEW a \in Nat, NEW b \in Nat, a <= b
  PROVE  Day(a) <= Day(b) /\ Day(a) \in Nat
<1>1. TicksPerDay \in Nat \ {0}
  BY LedgerAssumption
<1>2. \A m \in Nat : \A d \in Nat \ {0} : m \div d \in Nat /\ d * (m \div d) <= m /\ m < d * ((m \div d) + 1)
  OBVIOUS
<1> DEFINE d == TicksPerDay
           p == a \div d
           r == b \div d
<1>3. p \in Nat /\ r \in Nat /\ d \in Nat /\ d > 0
  BY <1>1, <1>2
<1>4. d * p <= a /\ b < d * (r + 1)
  BY <1>1, <1>2
<1> HIDE DEF d, p, r
<1>5. d * p < d * (r + 1)
  BY <1>3, <1>4
<1>6. p < r + 1
  BY <1>3, <1>5
<1>. QED  BY <1>3, <1>6 DEF p, r, d, Day

\* The total never rises as the clock goes on.
LEMMA TotalCapFalls ==
  ASSUME Types, [Next]_vars
  PROVE  total_cap' <= total_cap
<1>1. now \in Nat /\ (now' = now \/ now' = now + 1)
  BY Fields DEF Next, Ask, reserve_all, Append1, Send, Answer, Settle, LockTimeout, Crash,
                ReleaseLeftOver, Tick, vars
<1>2. Day(now) \in Nat /\ Day(now') \in Nat /\ Day(now) <= Day(now')
  BY <1>1, Days
<1>3. total_cap' = IF Day(now') > RaisedUntil /\ BaselineTotal < TotalCap THEN BaselineTotal ELSE TotalCap
  BY DEF total_cap, Day
<1>. QED  BY <1>2, <1>3, LedgerAssumption DEF total_cap

\* A thread that is reserving keeps the total it came with.
LEMMA CapsStay ==
  ASSUME Core, [Next]_vars, NEW u \in Threads, Reserving(u)'
  PROVE  caps'[u] = caps[u]
<1>1. pc'[u] = "append"
  BY DEF Reserving
<1>2. ASSUME NEW t \in Threads, \E q \in Requests : Ask(t, q)  PROVE caps'[u] = caps[u]
  BY <1>1, <1>2 DEF Ask, Goto, Core, Types, TypeOK
<1>3. ASSUME NEW t \in Threads, reserve_all(t) \/ LockTimeout(t) \/ Crash(t)  PROVE caps'[u] = caps[u]
  BY <1>1, <1>3 DEF reserve_all, LockTimeout, Crash, Goto, Core, Types, TypeOK
<1>. QED  BY <1>2, <1>3 DEF Next, Append1, Send, Answer, Settle, ReleaseLeftOver, Tick, vars

LEMMA TornStep ==
  ASSUME Core, TornOK, [Next]_vars
  PROVE  /\ TornOK'
         /\ Lines("torn") # {} /\ Lines("reserved")' # Lines("reserved") =>
              \E t \in Threads : lock = t /\ pc[t] = "append" /\ caps[t] > total_cap
<1>1. ASSUME NEW u \in Threads, Reserving(u)', Lines("torn") # {}  PROVE caps'[u] > total_cap'
  <2>1. caps[u] \in Nat /\ caps'[u] = caps[u] /\ total_cap' <= total_cap
    <3>1. caps[u] \in 0..TotalCap
      BY DEF Core, Types, TypeOK
    <3>. QED  BY <1>1, <3>1, CapsStay, TotalCapFalls, LedgerAssumption DEF Core
  <2>2. ASSUME reserve_all(u)  PROVE caps[u] > total_cap
    <3>1. ask[u] \in Requests /\ issued + Len(ask[u].calls) <= MaxCalls
      BY <2>2 DEF reserve_all, Core, Types
    <3>2. Fits(ask[u], caps[u])
      <4>1. ~Fits(ask[u], caps[u]) => pc' = [pc EXCEPT ![u] = "idle"]
        BY <2>2 DEF reserve_all, Goto
      <4>. QED  BY <1>1, <4>1 DEF Reserving, Core, Types, TypeOK
    <3>. QED  BY <1>1, <2>1, <3>1, <3>2, NothingFits DEF Core
  <2>3. caps[u] > total_cap
    BY <1>1, <2>2, NewlyReserving DEF TornOK
  <2>4. total_cap \in Nat /\ total_cap' \in Nat
    <3>1. total_cap' = IF Day(now') > RaisedUntil /\ BaselineTotal < TotalCap THEN BaselineTotal ELSE TotalCap
      BY DEF total_cap, Day
    <3>. QED  BY <3>1, TotalCapType, LedgerAssumption
  <2>. QED  BY <2>1, <2>3, <2>4
<1>2. ASSUME Lines("torn") = {}, Lines("torn")' # {}, NEW u \in Threads, Reserving(u)'  PROVE FALSE
  <2>1. ASSUME NEW t \in Threads, Append1(t)  PROVE FALSE
    <3>1. CASE Reserving(t)
      BY <1>2, <2>1, <3>1, LinesNew
    <3>2. CASE ~Reserving(t)
      <4>1. PICK h \in Open : h.id = todo[t][1].id
        BY <2>1, <3>2, WritesOver
      <4>2. /\ (todo[t][1] \in Line /\ todo[t][1].what = "settled") \/ todo[t][1] \in Short
            /\ ledger' = ledger \cup {todo[t][1]}
        BY <2>1, <3>2, WritesOver
      <4>. QED  BY <1>2, <4>1, <4>2, LinesClosed DEF Core
    <3>. QED  BY <3>1, <3>2
  <2>2. ASSUME NEW t \in Threads, Crash(t)  PROVE FALSE
    <3>1. pc[t] = "append" /\ pc' = [pc EXCEPT ![t] = "idle"]
      BY <1>2, <2>2, LinesStay DEF Crash, Goto
    <3>2. pc'[u] = "append" => u # t /\ pc[u] = "append"
      BY <3>1 DEF Core, Types, TypeOK
    <3>. QED  BY <1>2, <3>1, <3>2, OneWriter DEF Core, Reserving
  <2>3. ASSUME NEW id \in 1..MaxCalls, ReleaseLeftOver(id)  PROVE FALSE
    BY <1>2, <2>3 DEF ReleaseLeftOver, Lines
  <2>4. ledger' # ledger
    BY <1>2, LinesStay
  <2>. QED  BY <2>1, <2>2, <2>3, <2>4 DEF Next, Ask, reserve_all, Send, Answer, Settle,
                                          LockTimeout, Tick, vars
<1>3. TornOK'
  BY <1>1, <1>2 DEF TornOK
<1>4. ASSUME Lines("torn") # {}, Lines("reserved")' # Lines("reserved")
      PROVE  \E t \in Threads : lock = t /\ pc[t] = "append" /\ caps[t] > total_cap
  <2>1. ASSUME NEW t \in Threads, Append1(t)
        PROVE  lock = t /\ pc[t] = "append" /\ caps[t] > total_cap
    <3>1. ASSUME ~Reserving(t)  PROVE FALSE
      <4>1. ledger' = ledger \cup {todo[t][1]} /\ todo[t][1].what # "reserved"
        BY <2>1, <3>1, WritesOver DEF Short
      <4>. QED  BY <1>4, <4>1 DEF Lines
    <3>2. pc[t] = "append" /\ lock = t
      BY <2>1 DEF Append1, Core, Types, TypeOK
    <3>. QED  BY <1>4, <3>1, <3>2 DEF TornOK
  <2>2. ASSUME NEW t \in Threads, Crash(t)  PROVE Lines("reserved")' = Lines("reserved")
    BY <2>2 DEF Crash, Lines
  <2>3. ASSUME NEW id \in 1..MaxCalls, ReleaseLeftOver(id)  PROVE Lines("reserved")' = Lines("reserved")
    BY <2>3 DEF ReleaseLeftOver, Lines
  <2>4. ledger' = ledger => Lines("reserved")' = Lines("reserved")
    BY LinesStay
  <2>. QED  BY <1>4, <2>1, <2>2, <2>3, <2>4 DEF Next, Ask, reserve_all, Send, Answer, Settle,
                                          LockTimeout, Tick, vars
<1>. QED  BY <1>3, <1>4

\* claude_spend._lines, entries: a process died while it wrote.  The line it
\* left is charged the whole total, so that no process reserves anything, and
\* nothing is sent, until a person has looked.  reserve_all reads the caps before
\* it takes the lock: only a process that read the raised total on its last day,
\* and was still waiting after midnight, can reserve beside a torn line.
THEOREM TornLineStops ==
  ASSUME NoLateRelease
  PROVE  Spec => TornStops
<1>1. Init => TornOK
  BY DEF Init, TornOK, Lines
<1>2. Core /\ TornOK /\ [Next]_vars => TornOK'
  BY TornStep
<1>3. Core /\ TornOK /\ [Next]_vars =>
        [Lines("torn") # {} /\ Lines("reserved")' # Lines("reserved") =>
           \E t \in Threads : lock = t /\ pc[t] = "append" /\ caps[t] > total_cap]_vars
  BY TornStep
<1>. QED  BY <1>1, <1>2, <1>3, CoreHolds, PTL DEF Spec, TornStops

-----------------------------------------------------------------------------
(* Caps. *)

LEMMA UsdType ==
  ASSUME NEW S \in SUBSET Line, IsFiniteSet(S)
  PROVE  Usd(S) \in Nat /\ Usd(S) = Sum(price, S) /\ \A l \in S : price[l] \in Nat
<1>1. \A l \in S : price[l] \in Nat
  BY Price
<1>. QED  BY <1>1, UsdIsSum, SumFinite

LEMMA AmountType ==
  ASSUME NEW S \in SUBSET Line, IsFiniteSet(S)
  PROVE  Amount(S) \in Nat /\ Usd(S) = Amount(S)
  BY UsdType DEF Amount

\* The lines of calls amount to no more than they do with torn lines beside them.
LEMMA AmountWithin ==
  ASSUME NEW S \in SUBSET (Line \cup Torn), IsFiniteSet(S), NEW T \in SUBSET S, T \in SUBSET Line,
         NEW cap \in Nat, Usd(S) <= cap
  PROVE  Amount(T) <= cap
<1>1. Usd(S) = Sum(cost, S) /\ \A l \in S : cost[l] \in Nat
  BY UsdIsCost
<1>2. \A l \in T : price[l] \in Nat /\ price[l] <= cost[l]
  <2>1. \A l \in T : cost[l] = l.usd /\ price[l] = l.usd /\ l.usd \in Nat
    BY DEF cost, price, Cost, Line
  <2>. QED  BY <2>1
<1>3. IsFiniteSet(T) /\ Sum(price, T) <= Sum(cost, S)
  BY <1>1, <1>2, SumMonotonic
<1>4. Sum(cost, S) \in Nat /\ Amount(T) \in Nat
  BY <1>1, <1>3, SumFinite, AmountType
<1>. QED  BY <1>1, <1>3, <1>4 DEF Amount

LEMMA AmountSubset ==
  ASSUME NEW S \in SUBSET Line, IsFiniteSet(S), NEW T \in SUBSET S
  PROVE  IsFiniteSet(T) /\ Amount(T) <= Amount(S) /\ Amount(T) \in Nat /\ Amount(S) \in Nat
<1>1. \A l \in S : price[l] \in Nat /\ price[l] <= price[l]
  BY UsdType
<1>2. IsFiniteSet(T) /\ Sum(price, T) <= Sum(price, S)
  BY <1>1, SumMonotonic
<1>3. T \in SUBSET Line
  OBVIOUS
<1>. QED  BY <1>2, <1>3, AmountType DEF Amount

\* A line is replaced by one that costs no more, where it counted.
LEMMA AmountReplaced ==
  ASSUME NEW S \in SUBSET Line, IsFiniteSet(S), NEW x, NEW y,
         NEW T \in SUBSET Line, T \subseteq (S \ {x}) \cup {y},
         y \in T => x \in S /\ y.usd <= x.usd
  PROVE  IsFiniteSet(T) /\ Amount(T) <= Amount(S)
<1>1. CASE y \in T
  <2>1. x \in Line /\ y \in Line /\ x \in S
    BY <1>1
  <2>2. price[y] <= price[x] /\ \A z \in S \cup {y} : price[z] \in Nat
    BY <1>1, <2>1, Price
  <2>3. T \in SUBSET ((S \ {x}) \cup {y})
    OBVIOUS
  <2>. QED  BY <2>1, <2>2, <2>3, SumReplaced DEF Amount
<1>2. CASE y \notin T
  <2>1. T \in SUBSET S
    BY <1>2
  <2>. QED  BY <2>1, AmountSubset
<1>. QED  BY <1>1, <1>2

LEMMA ForStep ==
  ASSUME NEW step, NEW run  PROVE for_step(step, run) \in Nat
  BY LedgerAssumption DEF for_step

LEMMA Subsets ==
  /\ \A S, step, run : OfStep(S, step, run) \subseteq S
  /\ \A S, run : OfRun(S, run) \subseteq S
  /\ OfDay \subseteq Calls
  BY DEF OfStep, OfRun, OfDay

LEMMA CallLines ==
  ASSUME Types
  PROVE  Calls \in SUBSET Line /\ IsFiniteSet(Calls) /\ OfDay \in SUBSET Line /\ IsFiniteSet(OfDay)
<1>1. Calls \subseteq Line /\ IsFiniteSet(Calls)
  BY LinesAre
<1>. QED  BY <1>1, Subsets, FS_Subset

\* What a thread is still to reserve.
LEMMA ComingLines ==
  ASSUME Core, NEW t \in Threads, Reserving(t), NEW i \in DOMAIN todo[t]
  PROVE  /\ UpTo(t, i) \in SUBSET Line /\ IsFiniteSet(UpTo(t, i)) /\ UpTo(t, i) \cap Calls = {}
         /\ Calls \cup UpTo(t, i) \in SUBSET Line /\ IsFiniteSet(Calls \cup UpTo(t, i))
         /\ OfDay \cup UpTo(t, i) \in SUBSET Line /\ IsFiniteSet(OfDay \cup UpTo(t, i))
<1>1. DOMAIN todo[t] = 1..Len(todo[t]) /\ Len(todo[t]) \in Nat
      /\ \A j \in DOMAIN todo[t] : todo[t][j] \in Line \cup Short
  <2>1. todo[t] \in Seq(Line \cup Short)
    BY DEF Core, Types, TypeOK
  <2> DEFINE R == Line \cup Short
  <2> HIDE DEF R
  <2>2. todo[t] \in Seq(R)
    BY <2>1 DEF R
  <2>3. DOMAIN todo[t] = 1..Len(todo[t]) /\ Len(todo[t]) \in Nat /\ \A j \in DOMAIN todo[t] : todo[t][j] \in R
    BY <2>2
  <2>. QED  BY <2>3 DEF R
<1>2. i \in Int /\ 1..i \subseteq DOMAIN todo[t]
  BY <1>1
<1>3. \A j \in 1..i : todo[t][j] \in Line /\ todo[t][j].id \notin Ids
  BY <1>1, <1>2 DEF Core, NewLinesOK, Short
<1>4. IsFiniteSet(UpTo(t, i))
  <2> DEFINE f == [j \in 1..i |-> todo[t][j]]
  <2>1. f \in Surjection(1..i, UpTo(t, i))
    BY DEF Surjection, UpTo
  <2>2. 1 \in Int /\ i \in Int
    BY <1>2
  <2>3. IsFiniteSet(1..i)
    BY <2>2, FS_Interval
  <2>. QED  BY <2>1, <2>3, FS_Surjection
<1>5. UpTo(t, i) \subseteq Line
  BY <1>3 DEF UpTo
<1>6. UpTo(t, i) \cap Calls = {}
  BY <1>3, LinesAre DEF UpTo, Ids, Core
<1>7. Calls \in SUBSET Line /\ IsFiniteSet(Calls) /\ OfDay \in SUBSET Line /\ IsFiniteSet(OfDay)
  BY CallLines DEF Core
<1>8. IsFiniteSet(Calls \cup UpTo(t, i)) /\ IsFiniteSet(OfDay \cup UpTo(t, i))
  BY <1>4, <1>7, FS_Union
<1>. QED  BY <1>4, <1>5, <1>6, <1>7, <1>8

\* The check of reserve_all covers all the lines that are to come of it.
LEMMA RoomMade ==
  ASSUME Core, NEW t \in Threads, reserve_all(t), Fits(ask[t], caps[t]), NEW i \in 1..Len(ask[t].calls)
  PROVE  LET upTo == {Reservation(ask[t], j) : j \in 1..i}
             l == Reservation(ask[t], i)
         IN /\ Amount(OfStep(Calls \cup upTo, l.step, l.run)) <= for_step(l.step, l.run)
            /\ is_runs(l.step, l.run) => Amount(OfRun(Calls \cup upTo, l.run)) <= RunCap
            /\ Amount(Calls \cup upTo) <= TotalCap
            /\ Amount(OfDay \cup upTo) <= DayCap
<1> DEFINE q == ask[t]
           upTo == {Reservation(q, j) : j \in 1..i}
           l == Reservation(q, i)
           step == q.calls[i].step
<1>1. q \in Requests /\ issued + Len(q.calls) <= MaxCalls
  BY DEF reserve_all, Core, Types
<1>2. /\ Len(q.calls) \in Nat \ {0} /\ DOMAIN q.calls = 1..Len(q.calls)
      /\ \A j \in 1..Len(q.calls) :
              /\ Reservation(q, j) \in Line
              /\ Reservation(q, j).step = q.calls[j].step /\ Reservation(q, j).run = q.run
  BY <1>1, RequestLines DEF Core
<1>3. entries \in SUBSET (Line \cup Torn) /\ IsFiniteSet(entries) /\ Calls \subseteq entries
  BY LinesAre, CallLines DEF Core, Torn
<1>4. Today \in SUBSET (Line \cup Torn) /\ IsFiniteSet(Today) /\ OfDay \subseteq Today
  <2>1. Today \subseteq entries /\ OfDay \subseteq Today
    BY <1>3 DEF Today, OfDay
  <2>. QED  BY <1>3, <2>1, FS_Subset
<1>5. upTo \in SUBSET Line /\ IsFiniteSet(upTo)
  <2> DEFINE f == [j \in 1..i |-> Reservation(q, j)]
  <2>1. f \in Surjection(1..i, upTo)
    BY DEF Surjection
  <2>2. IsFiniteSet(1..i)
    <3>1. i \in Int /\ 1 \in Int
      BY <1>2
    <3>. QED  BY <3>1, FS_Interval
  <2>3. IsFiniteSet(upTo)
    BY <2>1, <2>2, FS_Surjection
  <2>4. \A j \in 1..i : j \in 1..Len(q.calls)
    BY <1>2
  <2>. QED  BY <1>2, <2>3, <2>4
<1>6. Calls \in SUBSET Line /\ IsFiniteSet(Calls)
  BY CallLines DEF Core
<1> DEFINE sameStep == {m \in upTo : m.step = step}
           onRun == {m \in upTo : m.step \notin StandardSteps}
<1>7. /\ Usd(StepLines(step, q.run) \cup sameStep) <= for_step(step, q.run)
      /\ Usd(entries \cup upTo) <= caps[t]
      /\ is_runs(step, q.run) => Usd(RunLines(q.run) \cup onRun) <= RunCap
      /\ Usd(Today \cup upTo) <= DayCap
  BY <1>2 DEF Fits
<1>8. l.step = step /\ l.run = q.run /\ l \in Line
  BY <1>2
<1> HIDE DEF upTo, l, step, q
<1>9. Amount(OfStep(Calls \cup upTo, step, q.run)) <= for_step(step, q.run)
  <2> DEFINE S == StepLines(step, q.run) \cup sameStep
  <2>1. S \in SUBSET Line /\ IsFiniteSet(S)
    <3>1. S \subseteq Calls \cup upTo
      BY DEF StepLines
    <3>2. IsFiniteSet(Calls \cup upTo)
      BY <1>5, <1>6, FS_Union
    <3>. QED  BY <1>5, <1>6, <3>1, <3>2, FS_Subset
  <2>2. OfStep(Calls \cup upTo, step, q.run) \in SUBSET S
    BY DEF OfStep, StepLines, is_runs
  <2>3. Usd(S) <= for_step(step, q.run)
    BY <1>7
  <2> HIDE DEF S
  <2>4. /\ Amount(OfStep(Calls \cup upTo, step, q.run)) <= Amount(S)
        /\ Amount(S) \in Nat /\ Amount(OfStep(Calls \cup upTo, step, q.run)) \in Nat
    BY <2>1, <2>2, AmountSubset
  <2>5. Usd(S) = Amount(S)
    BY <2>1, AmountType
  <2>. QED  BY <2>3, <2>4, <2>5, ForStep
<1>10. ASSUME is_runs(step, q.run)  PROVE Amount(OfRun(Calls \cup upTo, q.run)) <= RunCap
  <2>1. OfRun(Calls \cup upTo, q.run) \subseteq RunLines(q.run) \cup onRun
    BY DEF OfRun, RunLines
  <2> DEFINE S == RunLines(q.run) \cup onRun
  <2>2. S \in SUBSET Line /\ IsFiniteSet(S)
    <3>1. S \subseteq Calls \cup upTo
      BY DEF RunLines
    <3>2. IsFiniteSet(Calls \cup upTo)
      BY <1>5, <1>6, FS_Union
    <3>. QED  BY <1>5, <1>6, <3>1, <3>2, FS_Subset
  <2>3. Usd(S) <= RunCap
    BY <1>7, <1>10
  <2> HIDE DEF S
  <2>4. Amount(OfRun(Calls \cup upTo, q.run)) <= Amount(S) /\ Amount(OfRun(Calls \cup upTo, q.run)) \in Nat
    BY <2>1, <2>2, AmountSubset DEF S
  <2>. QED  BY <2>2, <2>3, <2>4, AmountType, LedgerAssumption
<1>11. Amount(Calls \cup upTo) <= TotalCap
  <2>1. entries \cup upTo \in SUBSET (Line \cup Torn) /\ IsFiniteSet(entries \cup upTo)
    BY <1>3, <1>5, FS_Union
  <2>2. Calls \cup upTo \in SUBSET (entries \cup upTo) /\ Calls \cup upTo \in SUBSET Line
    BY <1>3, <1>5, <1>6
  <2>3. caps[t] \in 0..TotalCap /\ caps[t] \in Nat
    BY LedgerAssumption DEF Core, Types, TypeOK
  <2>4. Usd(entries \cup upTo) <= caps[t]
    BY <1>7
  <2>5. Amount(Calls \cup upTo) <= caps[t]
    BY <2>1, <2>2, <2>3, <2>4, AmountWithin
  <2>6. Amount(Calls \cup upTo) \in Nat
    BY <1>5, <1>6, <2>2, FS_Union, AmountType
  <2>. QED  BY <2>3, <2>5, <2>6, LedgerAssumption
<1>12. Amount(OfDay \cup upTo) <= DayCap
  <2>1. Today \cup upTo \in SUBSET (Line \cup Torn) /\ IsFiniteSet(Today \cup upTo)
    BY <1>4, <1>5, FS_Union
  <2>2. OfDay \cup upTo \in SUBSET (Today \cup upTo) /\ OfDay \cup upTo \in SUBSET Line
    BY <1>4, <1>5, CallLines DEF Core
  <2>. QED  BY <1>7, <2>1, <2>2, AmountWithin, LedgerAssumption
<1>. QED  BY <1>8, <1>9, <1>10, <1>11, <1>12 DEF upTo, l, q, step

\* A day's lines are fewer as time passes.
LEMMA DayShrinks ==
  ASSUME Types, ledger' = ledger, now' \in {now, now + 1}, now' \in Nat
  PROVE  OfDay' \subseteq OfDay
<1>1. Calls' = Calls /\ Calls \subseteq Line
  BY LinesStay, CallLines
<1>2. ASSUME NEW l \in Calls  PROVE l.at \in Nat /\ now \in Nat /\ l.at <= now /\ OpenHoldWindow \in Nat
  BY <1>2, Fields, LinesAre, LedgerAssumption DEF Types
<1>3. ASSUME NEW l \in Calls, l.what = "reserved", now' - l.at < OpenHoldWindow
      PROVE  now - l.at < OpenHoldWindow
  BY <1>2, <1>3
<1>4. ASSUME NEW l \in Calls, Day(l.at) = Day(now')
      PROVE  Day(l.at) = Day(now)
  <2>1. Day(l.at) <= Day(now) /\ Day(l.at) \in Nat /\ Day(now) \in Nat
    BY <1>2, Days
  <2>2. now <= now' /\ now \in Nat
    BY <1>2
  <2>3. Day(now) <= Day(now') /\ Day(now') \in Nat
    BY <2>2, Days
  <2>. QED  BY <1>4, <2>1, <2>3
<1>5. Day(now)' = Day(now')
  BY DEF Day
<1>6. ASSUME NEW l \in OfDay'  PROVE l \in OfDay
  <2>1. /\ l \in Calls
        /\ \/ l.what = "reserved" /\ now' - l.at < OpenHoldWindow
           \/ l.what = "settled" /\ Day(l.at) = Day(now')
    BY <1>1, <1>5, <1>6 DEF OfDay, Day
  <2>. QED  BY <1>3, <1>4, <2>1 DEF OfDay
<1>. QED  BY <1>6

\* While a thread writes reservations, nothing else is written, but a torn line
\* in their place.
LEMMA WhileReserving ==
  ASSUME Core, [Next]_vars, NEW u \in Threads, Reserving(u), Reserving(u)', ~Append1(u)
  PROVE  ledger' = ledger /\ todo'[u] = todo[u] /\ now' \in {now, now + 1}
<1>1. pc[u] = "append" /\ lock = u /\ lock # NoThread /\ pc'[u] = "append"
  BY LedgerAssumption DEF Reserving, Core, Types, TypeOK
<1>2. ASSUME NEW t \in Threads, Append1(t)  PROVE FALSE
  BY <1>1, <1>2, OneWriter DEF Append1, Core
<1>3. ASSUME NEW t \in Threads, \E q \in Requests : Ask(t, q)
      PROVE  ledger' = ledger /\ todo'[u] = todo[u] /\ now' \in {now, now + 1}
  BY <1>3 DEF Ask
<1>4. ASSUME NEW t \in Threads, \E id \in 1..MaxCalls : Answer(t, id)
      PROVE  ledger' = ledger /\ todo'[u] = todo[u] /\ now' \in {now, now + 1}
  <2>1. PICK x : pc[t] = "sent" /\ todo' = [todo EXCEPT ![t] = <<x>>] /\ UNCHANGED <<ledger, now>>
    BY <1>4, Answers DEF Answer
  <2>. QED  BY <1>1, <2>1 DEF Core, Types, TypeOK
<1>5. ASSUME NEW t \in Threads, reserve_all(t) \/ Settle(t)  PROVE FALSE
  BY <1>1, <1>5 DEF reserve_all, Settle
<1>6. ASSUME NEW t \in Threads, Send(t)
      PROVE  ledger' = ledger /\ todo'[u] = todo[u] /\ now' \in {now, now + 1}
  BY <1>6 DEF Send
<1>7. ASSUME NEW t \in Threads, LockTimeout(t)
      PROVE  ledger' = ledger /\ todo'[u] = todo[u] /\ now' \in {now, now + 1}
  BY <1>1, <1>7 DEF LockTimeout, Core, Types, TypeOK
<1>8. ASSUME NEW t \in Threads, Crash(t)
      PROVE  ledger' = ledger /\ todo'[u] = todo[u] /\ now' \in {now, now + 1}
  <2>1. t # u
    BY <1>1, <1>8 DEF Crash, Goto, Core, Types, TypeOK
  <2>2. pc[t] # "append"
    BY <1>1, <2>1, OneWriter DEF Core
  <2>. QED  BY <1>8, <2>1, <2>2 DEF Crash, Core, Types, TypeOK
<1>9. ASSUME \E id \in 1..MaxCalls : ReleaseLeftOver(id)  PROVE FALSE
  BY <1>1, <1>9 DEF ReleaseLeftOver
<1>10. ASSUME Tick \/ UNCHANGED vars
       PROVE  ledger' = ledger /\ todo'[u] = todo[u] /\ now' \in {now, now + 1}
  BY <1>10 DEF Tick, vars
<1>. QED  BY <1>2, <1>3, <1>4, <1>5, <1>6, <1>7, <1>8, <1>9, <1>10 DEF Next

\* The first line to come is written, dated now: it leaves what is still to come.
LEMMA Shift ==
  ASSUME Core, NEW t \in Threads, Append1(t), Reserving(t)
  PROVE  LET x == todo[t][1]
             y == New(t)
         IN /\ 1 \in DOMAIN todo[t] /\ x \in Line /\ y \in Line /\ y.usd <= x.usd
            /\ y.step = x.step /\ y.run = x.run /\ UpTo(t, 1) = {x} /\ x \notin Calls
            /\ Calls' = Calls \cup {y} /\ OfDay' \subseteq OfDay \cup {y}
            /\ \A i \in DOMAIN todo'[t] :
                 /\ i + 1 \in DOMAIN todo[t] /\ todo'[t][i] = todo[t][i + 1]
                 /\ UpTo(t, i)' \subseteq UpTo(t, i + 1) \ {x} /\ x \in UpTo(t, i + 1)
<1> DEFINE x == todo[t][1]
           y == New(t)
<1>1. /\ x \in Line /\ y \in Line /\ y.usd = x.usd /\ y.step = x.step /\ y.run = x.run /\ y.id = x.id
      /\ y.id \notin Ids /\ todo' = [todo EXCEPT ![t] = Tail(@)] /\ now' = now
  BY WritesNew
<1>2. Calls' = Calls \cup {y}
  BY LinesNew
<1>3. OfDay' \subseteq OfDay \cup {y}
  BY <1>1, <1>2 DEF OfDay
<1>4. todo[t] \in Seq(Line \cup Short) /\ todo[t] # <<>>
  BY DEF Append1, Core, Types, TypeOK
<1>5. /\ Len(todo[t]) \in Nat \ {0}
      /\ DOMAIN todo[t] = 1..Len(todo[t]) /\ DOMAIN Tail(todo[t]) = 1..(Len(todo[t]) - 1)
      /\ \A i \in 1..(Len(todo[t]) - 1) : Tail(todo[t])[i] = todo[t][i + 1] /\ i + 1 \in 1..Len(todo[t])
      /\ 1 \in 1..Len(todo[t])
  BY <1>4, Tails
<1>6. todo'[t] = Tail(todo[t])
  BY <1>1 DEF Core, Types, TypeOK
<1>7. x \notin Calls
  BY <1>1, LinesAre DEF Ids, Core
<1>8. UpTo(t, 1) = {x}
  <2>1. 1..1 = {1}
    OBVIOUS
  <2>. QED  BY <2>1 DEF UpTo
<1>9. ASSUME NEW i \in DOMAIN todo'[t]
      PROVE  /\ i + 1 \in DOMAIN todo[t] /\ todo'[t][i] = todo[t][i + 1]
             /\ UpTo(t, i)' \subseteq UpTo(t, i + 1) \ {x} /\ x \in UpTo(t, i + 1)
  <2>1. i \in 1..(Len(todo[t]) - 1) /\ i + 1 \in DOMAIN todo[t] /\ todo'[t][i] = todo[t][i + 1]
    BY <1>5, <1>6
  <2>2. ASSUME NEW j \in 1..i  PROVE todo'[t][j] \in UpTo(t, i + 1) /\ todo'[t][j] # x
    <3>1. j \in 1..(Len(todo[t]) - 1) /\ j + 1 \in 1..(i + 1) /\ j + 1 # 1
      BY <1>5, <2>1
    <3>2. todo'[t][j] = todo[t][j + 1] /\ j + 1 \in DOMAIN todo[t]
      BY <1>5, <1>6, <3>1
    <3>3. todo[t][j + 1].id # todo[t][1].id
      BY <1>5, <3>1, <3>2 DEF Core, NewLinesOK
    <3>. QED  BY <3>1, <3>2, <3>3 DEF UpTo
  <2>3. x \in UpTo(t, i + 1)
    BY <1>5, <2>1 DEF UpTo
  <2>4. ASSUME NEW k \in UpTo(t, i)'  PROVE k \in UpTo(t, i + 1) \ {x}
    <3>1. PICK j \in 1..i : k = todo'[t][j]
      BY <2>4 DEF UpTo
    <3>. QED  BY <2>2, <3>1
  <2>. QED  BY <2>1, <2>3, <2>4
<1>10. y.usd <= x.usd /\ 1 \in DOMAIN todo[t]
  BY <1>1, <1>5, Price
<1>. QED  BY <1>1, <1>2, <1>3, <1>7, <1>8, <1>9, <1>10

\* One line takes another's place in a set of lines, at no higher price.
LEMMA InPlace ==
  ASSUME NEW S \in SUBSET Line, IsFiniteSet(S), NEW x, NEW y,
         NEW T, T \subseteq (S \ {x}) \cup {y},
         y \in T => x \in S /\ y \in Line /\ y.usd <= x.usd /\ y.step = x.step /\ y.run = x.run
  PROVE  /\ IsFiniteSet(T) /\ Amount(T) <= Amount(S) /\ Amount(T) \in Nat /\ Amount(S) \in Nat
         /\ \A step, run : /\ Amount(OfStep(T, step, run)) <= Amount(OfStep(S, step, run))
                           /\ Amount(OfStep(T, step, run)) \in Nat /\ Amount(OfStep(S, step, run)) \in Nat
         /\ \A run : /\ Amount(OfRun(T, run)) <= Amount(OfRun(S, run))
                     /\ Amount(OfRun(T, run)) \in Nat /\ Amount(OfRun(S, run)) \in Nat
<1>0. T \in SUBSET Line
  OBVIOUS
<1>1. IsFiniteSet(T) /\ Amount(T) <= Amount(S)
  BY <1>0, AmountReplaced
<1>2. ASSUME NEW A \in SUBSET S, NEW B \in SUBSET T, B \subseteq (A \ {x}) \cup {y}, y \in B => x \in A
      PROVE  Amount(B) <= Amount(A) /\ Amount(B) \in Nat /\ Amount(A) \in Nat
  <2>1. IsFiniteSet(A) /\ IsFiniteSet(B) /\ A \in SUBSET Line /\ B \in SUBSET Line
    BY <1>0, <1>1, FS_Subset
  <2>2. y \in B => x \in A /\ y.usd <= x.usd
    BY <1>2
  <2>3. Amount(B) <= Amount(A)
    BY <1>2, <2>1, <2>2, AmountReplaced
  <2>. QED  BY <2>1, <2>3, AmountType
<1>3. ASSUME NEW step, NEW run
      PROVE  /\ Amount(OfStep(T, step, run)) <= Amount(OfStep(S, step, run))
             /\ Amount(OfStep(T, step, run)) \in Nat /\ Amount(OfStep(S, step, run)) \in Nat
  <2>1. /\ OfStep(S, step, run) \in SUBSET S /\ OfStep(T, step, run) \in SUBSET T
        /\ OfStep(T, step, run) \subseteq (OfStep(S, step, run) \ {x}) \cup {y}
        /\ y \in OfStep(T, step, run) => x \in OfStep(S, step, run)
    BY DEF OfStep
  <2>. QED  BY <1>2, <2>1
<1>4. ASSUME NEW run
      PROVE  /\ Amount(OfRun(T, run)) <= Amount(OfRun(S, run))
             /\ Amount(OfRun(T, run)) \in Nat /\ Amount(OfRun(S, run)) \in Nat
  <2>1. /\ OfRun(S, run) \in SUBSET S /\ OfRun(T, run) \in SUBSET T
        /\ OfRun(T, run) \subseteq (OfRun(S, run) \ {x}) \cup {y}
        /\ y \in OfRun(T, run) => x \in OfRun(S, run)
    BY DEF OfRun
  <2>. QED  BY <1>2, <2>1
<1>. QED  BY <1>0, <1>1, <1>3, <1>4, AmountType

\* Room that was left for one set of lines is left for another.
LEMMA RoomStays ==
  ASSUME Core, RoomLeft, NEW u \in Threads, Reserving(u), NEW i \in DOMAIN todo[u],
         NEW x, NEW y, NEW T, NEW D,
         T \subseteq ((Calls \cup UpTo(u, i)) \ {x}) \cup {y},
         D \subseteq ((OfDay \cup UpTo(u, i)) \ {x}) \cup {y},
         y \in T \cup D => x \in UpTo(u, i) /\ y \in Line /\ y.usd <= x.usd /\ y.step = x.step /\ y.run = x.run
  PROVE  LET l == todo[u][i] IN
         /\ Amount(OfStep(T, l.step, l.run)) <= for_step(l.step, l.run)
         /\ is_runs(l.step, l.run) => Amount(OfRun(T, l.run)) <= RunCap
         /\ Amount(T) <= TotalCap
         /\ Amount(D) <= DayCap
<1> DEFINE S == Calls \cup UpTo(u, i)
           R == OfDay \cup UpTo(u, i)
           l == todo[u][i]
<1>1. S \in SUBSET Line /\ IsFiniteSet(S) /\ R \in SUBSET Line /\ IsFiniteSet(R)
  BY ComingLines
<1>2. /\ Amount(OfStep(S, l.step, l.run)) <= for_step(l.step, l.run)
      /\ is_runs(l.step, l.run) => Amount(OfRun(S, l.run)) <= RunCap
      /\ Amount(S) <= TotalCap
      /\ Amount(R) <= DayCap
  BY DEF RoomLeft
<1>3. /\ T \subseteq (S \ {x}) \cup {y} /\ D \subseteq (R \ {x}) \cup {y}
      /\ y \in T => x \in S /\ y \in Line /\ y.usd <= x.usd /\ y.step = x.step /\ y.run = x.run
      /\ y \in D => x \in R /\ y \in Line /\ y.usd <= x.usd /\ y.step = x.step /\ y.run = x.run
  OBVIOUS
<1> HIDE DEF S, R, l
<1>4. /\ Amount(T) <= Amount(S) /\ Amount(T) \in Nat /\ Amount(S) \in Nat
      /\ \A step, run : /\ Amount(OfStep(T, step, run)) <= Amount(OfStep(S, step, run))
                        /\ Amount(OfStep(T, step, run)) \in Nat /\ Amount(OfStep(S, step, run)) \in Nat
      /\ \A run : /\ Amount(OfRun(T, run)) <= Amount(OfRun(S, run))
                  /\ Amount(OfRun(T, run)) \in Nat /\ Amount(OfRun(S, run)) \in Nat
  BY <1>1, <1>3, InPlace
<1>5. Amount(D) <= Amount(R) /\ Amount(D) \in Nat /\ Amount(R) \in Nat
  BY <1>1, <1>3, InPlace
<1>6. Amount(OfStep(T, l.step, l.run)) <= for_step(l.step, l.run)
  BY <1>2, <1>4, ForStep
<1>7. {RunCap, TotalCap, DayCap} \subseteq Nat
  BY LedgerAssumption
<1>8. is_runs(l.step, l.run) => Amount(OfRun(T, l.run)) <= RunCap
  BY <1>2, <1>4, <1>7
<1>9. Amount(T) <= TotalCap /\ Amount(D) <= DayCap
  BY <1>2, <1>4, <1>5, <1>7
<1>. QED  BY <1>6, <1>8, <1>9 DEF l

LEMMA RoomKeeps ==
  ASSUME Core, RoomLeft, [Next]_vars
  PROVE  RoomLeft'
<1> SUFFICES ASSUME NEW u \in Threads, Reserving(u)', NEW i \in DOMAIN todo'[u]
             PROVE  LET l == todo'[u][i]
                        T == Calls' \cup UpTo(u, i)'
                        D == OfDay' \cup UpTo(u, i)'
                    IN /\ Amount(OfStep(T, l.step, l.run)) <= for_step(l.step, l.run)
                       /\ is_runs(l.step, l.run) => Amount(OfRun(T, l.run)) <= RunCap
                       /\ Amount(T) <= TotalCap
                       /\ Amount(D) <= DayCap
  BY DEF RoomLeft, for_step, is_runs
<1> DEFINE l == todo'[u][i]
           T == Calls' \cup UpTo(u, i)'
           D == OfDay' \cup UpTo(u, i)'
<1>1. CASE Reserving(u) /\ Append1(u)
  <2> DEFINE x == todo[u][1]
             y == New(u)
  <2>1. /\ x \in Line /\ y \in Line /\ y.usd <= x.usd
        /\ y.step = x.step /\ y.run = x.run /\ x \notin Calls
        /\ Calls' = Calls \cup {y} /\ OfDay' \subseteq OfDay \cup {y}
        /\ i + 1 \in DOMAIN todo[u] /\ todo'[u][i] = todo[u][i + 1]
        /\ UpTo(u, i)' \subseteq UpTo(u, i + 1) \ {x} /\ x \in UpTo(u, i + 1)
    BY <1>1, Shift
  <2>2. OfDay \subseteq Calls
    BY Subsets
  <2> HIDE DEF x, y
  <2>3. /\ T \subseteq ((Calls \cup UpTo(u, i + 1)) \ {x}) \cup {y}
        /\ D \subseteq ((OfDay \cup UpTo(u, i + 1)) \ {x}) \cup {y}
    BY <2>1, <2>2
  <2> HIDE DEF T, D
  <2>. QED  BY <1>1, <2>1, <2>3, RoomStays DEF T, D
<1>2. CASE Reserving(u) /\ ~Append1(u)
  <2>1. ledger' = ledger /\ todo'[u] = todo[u] /\ now' \in {now, now + 1}
    BY <1>2, WhileReserving
  <2>2. OfDay' \subseteq OfDay /\ Calls' = Calls
    <3>1. now' \in Nat
      BY <2>1, Fields DEF Core
    <3>. QED  BY <2>1, <3>1, DayShrinks, LinesStay DEF Core
  <2>3. UpTo(u, i)' = UpTo(u, i)
    BY <2>1 DEF UpTo
  <2> DEFINE z == [what |-> "torn"]
  <2>4. z \notin Calls \cup UpTo(u, i) \cup OfDay
    <3>1. i \in DOMAIN todo[u]
      BY <2>1
    <3>2. Calls \cup UpTo(u, i) \cup OfDay \subseteq Line
      BY <1>2, <3>1, ComingLines
    <3>. QED  BY <3>2 DEF Line
  <2> HIDE DEF z
  <2>5. /\ T \subseteq ((Calls \cup UpTo(u, i)) \ {z}) \cup {z}
        /\ D \subseteq ((OfDay \cup UpTo(u, i)) \ {z}) \cup {z}
        /\ z \notin T \cup D
    BY <2>2, <2>3, <2>4
  <2> HIDE DEF T, D
  <2>6. i \in DOMAIN todo[u] /\ todo'[u][i] = todo[u][i]
    BY <2>1
  <2>. QED  BY <1>2, <2>5, <2>6, RoomStays DEF T, D
<1>3. CASE reserve_all(u)
  <2> DEFINE q == ask[u]
             n == Len(q.calls)
  <2>1. Fits(q, caps[u])
    <3>1. ~Fits(q, caps[u]) => pc' = [pc EXCEPT ![u] = "idle"]
      BY <1>3 DEF reserve_all, Goto
    <3>. QED  BY <3>1 DEF Reserving, Core, Types, TypeOK
  <2>2. todo' = [todo EXCEPT ![u] = [j \in 1..n |-> Reservation(q, j)]] /\ UNCHANGED <<ledger, now>>
    BY <1>3, <2>1 DEF reserve_all
  <2>3. todo'[u] = [j \in 1..n |-> Reservation(q, j)]
    BY <2>2 DEF Core, Types, TypeOK
  <2>4. i \in 1..n /\ todo'[u][i] = Reservation(q, i) /\ n \in Nat
    <3>1. q \in Requests /\ issued + Len(q.calls) <= MaxCalls
      BY <1>3 DEF reserve_all, Core, Types
    <3>2. n \in Nat
      BY <3>1, RequestLines DEF Core
    <3>. QED  BY <2>3, <3>2
  <2>5. UpTo(u, i)' = {Reservation(q, j) : j \in 1..i}
    <3>1. \A j \in 1..i : todo'[u][j] = Reservation(q, j)
      BY <2>3, <2>4
    <3>. QED  BY <3>1 DEF UpTo
  <2>6. Calls' = Calls /\ OfDay' = OfDay
    BY <2>2, LinesStay DEF OfDay
  <2>. QED  BY <1>3, <2>1, <2>4, <2>5, <2>6, RoomMade
<1>. QED  BY <1>1, <1>2, <1>3, NewlyReserving

\* Every cap but the day's: a line is written where room was left for it, and a
\* settlement costs no more than the hold in whose place it comes.
LEMMA CapsKeep ==
  ASSUME Core, NoLateRelease, RoomLeft, CapsKept, [Next]_vars
  PROVE  CapsKept'
<1>1. Calls \in SUBSET Line /\ IsFiniteSet(Calls)
  BY CallLines DEF Core
<1>2. ASSUME NEW x, NEW y, Calls' \subseteq (Calls \ {x}) \cup {y},
             y \in Calls' => x \in Calls /\ y \in Line /\ y.usd <= x.usd /\ y.step = x.step /\ y.run = x.run
      PROVE  CapsKept'
  <2>1. /\ Amount(Calls') <= Amount(Calls) /\ Amount(Calls') \in Nat /\ Amount(Calls) \in Nat
        /\ \A step, run : /\ Amount(OfStep(Calls', step, run)) <= Amount(OfStep(Calls, step, run))
                          /\ Amount(OfStep(Calls', step, run)) \in Nat
                          /\ Amount(OfStep(Calls, step, run)) \in Nat
        /\ \A run : /\ Amount(OfRun(Calls', run)) <= Amount(OfRun(Calls, run))
                    /\ Amount(OfRun(Calls', run)) \in Nat /\ Amount(OfRun(Calls, run)) \in Nat
    BY <1>1, <1>2, InPlace
  <2>2. /\ \A step \in Steps, run \in Runs : Amount(OfStep(Calls', step, run)) <= for_step(step, run)
        /\ \A run \in Runs : run # NoRun => Amount(OfRun(Calls', run)) <= RunCap
        /\ Amount(Calls') <= TotalCap
    BY <2>1, ForStep, LedgerAssumption DEF CapsKept
  <2>. QED  BY <2>2 DEF CapsKept, for_step
<1>3. CASE Calls' \subseteq Calls
  <2> DEFINE z == [what |-> "torn"]
  <2>1. z \notin Calls
    BY <1>1 DEF Line
  <2> HIDE DEF z
  <2>2. Calls' \subseteq (Calls \ {z}) \cup {z} /\ z \notin Calls'
    BY <1>3, <2>1
  <2>. QED  BY <1>2, <2>2
<1>4. ASSUME NEW t \in Threads, Append1(t)  PROVE CapsKept'
  <2>1. CASE ~Reserving(t)
    <3> DEFINE x == todo[t][1]
    <3>1. /\ (x \in Line /\ x.what = "settled") \/ x \in Short
          /\ ledger' = ledger \cup {x}
      BY <1>4, <2>1, WritesOver
    <3>2. PICK h \in Open : /\ h.id = x.id
                            /\ x.what = "settled" => h.step = x.step /\ h.run = x.run /\ x.usd <= h.usd
      BY <1>4, <2>1, WritesOver
    <3> HIDE DEF x
    <3>3. /\ x \in Line => Calls' = (Calls \ {h}) \cup {x}
          /\ x \in Short => Calls' = Calls \ {h}
      BY <3>1, <3>2, LinesClosed DEF Core
    <3>4. h \in Calls
      BY LinesAre DEF Core
    <3>5. CASE x \in Line
      <4>1. x.what = "settled"
        BY <3>1, <3>5 DEF Short, Line
      <4>. QED  BY <1>2, <3>2, <3>3, <3>4, <3>5, <4>1
    <3>6. CASE x \in Short
      BY <1>3, <3>3, <3>6
    <3>. QED  BY <3>1, <3>5, <3>6
  <2>2. CASE Reserving(t)
    <3> DEFINE x == todo[t][1]
               y == New(t)
    <3>1. /\ 1 \in DOMAIN todo[t] /\ x \in Line /\ y \in Line /\ y.usd <= x.usd
          /\ y.step = x.step /\ y.run = x.run /\ UpTo(t, 1) = {x} /\ x \notin Calls
          /\ Calls' = Calls \cup {y} /\ OfDay' \subseteq OfDay \cup {y}
      BY <1>4, <2>2, Shift
    <3>2. OfDay \subseteq Calls
      BY Subsets
    <3> HIDE DEF y
    <3>3. /\ Amount(OfStep(Calls', x.step, x.run)) <= for_step(x.step, x.run)
          /\ is_runs(x.step, x.run) => Amount(OfRun(Calls', x.run)) <= RunCap
          /\ Amount(Calls') <= TotalCap
      <4> DEFINE T == Calls'
                 D == OfDay'
                 i == 1
      <4>1. /\ T \subseteq ((Calls \cup UpTo(t, i)) \ {x}) \cup {y}
            /\ D \subseteq ((OfDay \cup UpTo(t, i)) \ {x}) \cup {y}
            /\ i \in DOMAIN todo[t] /\ x = todo[t][i]
            /\ x \in UpTo(t, i) /\ y \in Line /\ y.usd <= x.usd /\ y.step = x.step /\ y.run = x.run
        BY <3>1, <3>2
      <4> HIDE DEF x, T, D, i
      <4>2. /\ Amount(OfStep(T, todo[t][i].step, todo[t][i].run)) <= for_step(todo[t][i].step, todo[t][i].run)
            /\ is_runs(todo[t][i].step, todo[t][i].run) => Amount(OfRun(T, todo[t][i].run)) <= RunCap
            /\ Amount(T) <= TotalCap /\ Amount(D) <= DayCap
        BY <2>2, <4>1, RoomStays
      <4>. QED  BY <4>1, <4>2 DEF T
    <3>4. ASSUME NEW step \in Steps, NEW run \in Runs
          PROVE  Amount(OfStep(Calls', step, run)) <= for_step(step, run)
      <4>1. CASE y \in OfStep(Calls', step, run)
        <5>1. OfStep(Calls', step, run) = OfStep(Calls', x.step, x.run)
              /\ for_step(step, run) = for_step(x.step, x.run)
          BY <3>1, <4>1 DEF OfStep, for_step
        <5>. QED  BY <3>3, <5>1
      <4>2. CASE y \notin OfStep(Calls', step, run)
        <5>1. OfStep(Calls', step, run) = OfStep(Calls, step, run)
          BY <3>1, <4>2 DEF OfStep
        <5>. QED  BY <5>1 DEF CapsKept
      <4>. QED  BY <4>1, <4>2
    <3>5. ASSUME NEW run \in Runs, run # NoRun  PROVE Amount(OfRun(Calls', run)) <= RunCap
      <4>1. CASE y \in OfRun(Calls', run)
        <5>1. run = x.run /\ is_runs(x.step, x.run)
          BY <3>1, <3>5, <4>1 DEF OfRun, is_runs
        <5>. QED  BY <3>3, <5>1
      <4>2. CASE y \notin OfRun(Calls', run)
        <5>1. OfRun(Calls', run) = OfRun(Calls, run)
          BY <3>1, <4>2 DEF OfRun
        <5>. QED  BY <3>5, <5>1 DEF CapsKept
      <4>. QED  BY <4>1, <4>2
    <3>. QED  BY <3>3, <3>4, <3>5 DEF CapsKept, for_step
  <2>. QED  BY <2>1, <2>2
<1>5. ASSUME NEW id \in 1..MaxCalls, ReleaseLeftOver(id)  PROVE Calls' \subseteq Calls
  <2>1. PICK h \in Open : h.id = id
    BY <1>5, LeftOver
  <2> DEFINE x == [what |-> "released", id |-> id]
  <2>2. x \in Short /\ x.id = h.id
    BY <1>5, <2>1, LeftOver
  <2>3. ledger' = ledger \cup {x}
    BY <1>5 DEF ReleaseLeftOver
  <2> HIDE DEF x
  <2>4. Calls' = Calls \ {h}
    BY <2>2, <2>3, LinesClosed DEF Core
  <2>. QED  BY <2>4
<1>6. ASSUME NEW t \in Threads, Crash(t)  PROVE Calls' = Calls
  <2>1. [what |-> "torn", id |-> crashes] \in Torn
    BY DEF Torn, Core, Types, TypeOK
  <2>. QED  BY <1>6, <2>1, LinesTorn, LinesStay DEF Crash
<1>7. ledger' = ledger => Calls' \subseteq Calls
  BY LinesStay
<1>. QED  BY <1>3, <1>4, <1>5, <1>6, <1>7 DEF Next, Ask, reserve_all, Send, Answer, Settle,
                                                LockTimeout, Tick, vars

\* The day's cap: a hold is still counted when its settlement takes its place.
LEMMA DayKeeps ==
  ASSUME Core, ~Late, RoomLeft, DayKept, [Next]_vars
  PROVE  DayKept'
<1>1. OfDay \in SUBSET Line /\ IsFiniteSet(OfDay) /\ OfDay \subseteq Calls
  BY CallLines, Subsets DEF Core
<1>2. ASSUME OfDay' \subseteq OfDay  PROVE DayKept'
  <2>1. Amount(OfDay') <= Amount(OfDay) /\ Amount(OfDay') \in Nat /\ Amount(OfDay) \in Nat
    BY <1>1, <1>2, AmountSubset
  <2>. QED  BY <2>1, LedgerAssumption DEF DayKept
<1>3. ASSUME Calls' \subseteq Calls, now' = now  PROVE OfDay' \subseteq OfDay
  BY <1>3 DEF OfDay
<1>4. ASSUME NEW t \in Threads, Append1(t), ~Reserving(t)  PROVE DayKept'
  <2> DEFINE x == todo[t][1]
  <2>1. /\ (x \in Line /\ x.what = "settled") \/ x \in Short
        /\ ledger' = ledger \cup {x} /\ x.id \in held[t] /\ now' = now
    BY <1>4, WritesOver
  <2>2. PICK h \in Open : h.id = x.id /\ (x.what = "settled" => x.usd <= h.usd)
    BY <1>4, WritesOver
  <2> HIDE DEF x
  <2>3. /\ x \in Line => Calls' = (Calls \ {h}) \cup {x}
        /\ x \in Short => Calls' = Calls \ {h}
    BY <2>1, <2>2, LinesClosed DEF Core
  <2>4. h \in OfDay
    <3>1. PICK k \in Open : k.id = x.id /\ now - k.at < OpenHoldWindow
      BY <2>1 DEF Core, HeldOK
    <3>2. k = h
      BY <2>2, <3>1, HeldLines DEF Core
    <3>3. h \in Calls /\ h.what = "reserved"
      BY LinesAre DEF Core, Lines
    <3>. QED  BY <3>1, <3>2, <3>3 DEF OfDay
  <2>5. CASE x \in Line
    <3>1. x.usd <= h.usd
      BY <2>1, <2>2, <2>5 DEF Short, Line
    <3>2. OfDay' \subseteq (OfDay \ {h}) \cup {x} /\ OfDay' \in SUBSET Line
      <4>1. OfDay' \subseteq (OfDay \ {h}) \cup {x}
        BY <2>1, <2>3, <2>5 DEF OfDay
      <4>. QED  BY <1>1, <2>5, <4>1
    <3>3. Amount(OfDay') <= Amount(OfDay) /\ IsFiniteSet(OfDay')
      <4> DEFINE D == OfDay'
      <4>1. D \in SUBSET Line /\ D \subseteq (OfDay \ {h}) \cup {x}
        BY <3>2
      <4> HIDE DEF D
      <4>2. Amount(D) <= Amount(OfDay) /\ IsFiniteSet(D)
        BY <1>1, <2>4, <3>1, <4>1, AmountReplaced
      <4>. QED  BY <4>2 DEF D
    <3>4. Amount(OfDay') \in Nat /\ Amount(OfDay) \in Nat
      BY <1>1, <3>2, <3>3, AmountType
    <3>. QED  BY <3>3, <3>4, LedgerAssumption DEF DayKept
  <2>6. CASE x \in Short
    BY <1>2, <1>3, <2>1, <2>3, <2>6
  <2>. QED  BY <2>1, <2>5, <2>6
<1>5. ASSUME NEW t \in Threads, Append1(t), Reserving(t)  PROVE DayKept'
  <2> DEFINE x == todo[t][1]
             y == New(t)
             T == Calls'
             D == OfDay'
             i == 1
  <2>1. /\ x \in Line /\ y \in Line /\ y.usd <= x.usd
        /\ y.step = x.step /\ y.run = x.run /\ UpTo(t, i) = {x} /\ x \notin Calls
        /\ T = Calls \cup {y} /\ D \subseteq OfDay \cup {y} /\ i \in DOMAIN todo[t]
    BY <1>5, Shift
  <2> HIDE DEF x, y, T, D, i
  <2>2. /\ T \subseteq ((Calls \cup UpTo(t, i)) \ {x}) \cup {y}
        /\ D \subseteq ((OfDay \cup UpTo(t, i)) \ {x}) \cup {y}
        /\ x \in UpTo(t, i)
    BY <1>1, <2>1
  <2>3. /\ Amount(OfStep(T, todo[t][i].step, todo[t][i].run)) <= for_step(todo[t][i].step, todo[t][i].run)
        /\ Amount(T) <= TotalCap /\ Amount(D) <= DayCap
    BY <1>5, <2>1, <2>2, RoomStays
  <2>. QED  BY <2>3 DEF D, DayKept
<1>6. ASSUME NEW id \in 1..MaxCalls, ReleaseLeftOver(id)  PROVE DayKept'
  <2>1. PICK h \in Open : h.id = id
    BY <1>6, LeftOver DEF NoLateRelease
  <2> DEFINE x == [what |-> "released", id |-> id]
  <2>2. x \in Short /\ x.id = h.id
    BY <1>6, <2>1, LeftOver DEF NoLateRelease
  <2>3. ledger' = ledger \cup {x} /\ now' = now
    BY <1>6 DEF ReleaseLeftOver
  <2> HIDE DEF x
  <2>4. Calls' = Calls \ {h}
    BY <2>2, <2>3, LinesClosed DEF Core
  <2>. QED  BY <1>2, <1>3, <2>3, <2>4
<1>7. ASSUME NEW t \in Threads, Crash(t)  PROVE DayKept'
  <2>1. [what |-> "torn", id |-> crashes] \in Torn
    BY DEF Torn, Core, Types, TypeOK
  <2>2. Calls' = Calls /\ now' = now
    BY <1>7, <2>1, LinesTorn, LinesStay DEF Crash
  <2>. QED  BY <1>2, <1>3, <2>2
<1>8. ASSUME ledger' = ledger, now' \in {now, now + 1}  PROVE DayKept'
  <2>1. now' \in Nat
    BY <1>8, Fields DEF Core
  <2>. QED  BY <1>2, <1>8, <2>1, DayShrinks DEF Core
<1>. QED  BY <1>4, <1>5, <1>6, <1>7, <1>8 DEF Next, Ask, reserve_all, Send, Answer, Settle,
                                                LockTimeout, Tick, vars

LEMMA CapsInit ==
  Init => RoomLeft /\ CapsKept /\ DayKept
<1> SUFFICES ASSUME Init PROVE RoomLeft /\ CapsKept /\ DayKept
  OBVIOUS
<1>1. Calls = {} /\ OfDay = {} /\ \A t \in Threads : ~Reserving(t)
  BY DEF Init, Calls, OfDay, entries, Lines, Open, Reserving
<1>2. Amount({}) = 0
  BY SumEmpty DEF Amount
<1>3. \A step, run : OfStep({}, step, run) = {} /\ OfRun({}, run) = {}
  BY DEF OfStep, OfRun
<1>4. \A step, run : 0 <= for_step(step, run)
  BY ForStep
<1>5. 0 <= RunCap /\ 0 <= TotalCap /\ 0 <= DayCap
  BY LedgerAssumption
<1>6. RoomLeft
  BY <1>1 DEF RoomLeft
<1>7. CapsKept
  <2>1. ASSUME NEW step, NEW run  PROVE Amount(OfStep(Calls, step, run)) = 0 /\ Amount(OfRun(Calls, run)) = 0
    BY <1>1, <1>2, <1>3
  <2>. QED  BY <1>1, <1>2, <1>4, <1>5, <2>1 DEF CapsKept
<1>. QED  BY <1>1, <1>2, <1>5, <1>6, <1>7 DEF DayKept

LEMMA CapsHold ==
  ASSUME NoLateRelease
  PROVE  Spec => []CapsKept
<1>1. Core /\ RoomLeft /\ [Next]_vars => RoomLeft'
  BY RoomKeeps
<1>2. Core /\ RoomLeft /\ CapsKept /\ [Next]_vars => CapsKept'
  BY CapsKeep
<1>. QED  BY <1>1, <1>2, CapsInit, CoreHolds, PTL DEF Spec

LEMMA DayHolds ==
  ASSUME ~Late
  PROVE  Spec => []DayKept
<1>1. Core /\ RoomLeft /\ [Next]_vars => RoomLeft'
  BY RoomKeeps
<1>2. Core /\ RoomLeft /\ DayKept /\ [Next]_vars => DayKept'
  BY DayKeeps
<1>3. Spec => []Core
  BY CoreHolds DEF NoLateRelease
<1>. QED  BY <1>1, <1>2, <1>3, CapsInit, PTL DEF Spec

LEMMA CapsAreWithin ==
  ASSUME Core, CapsKept
  PROVE  StepWithinCap /\ RunWithinCap
<1>1. Calls \in SUBSET Line /\ IsFiniteSet(Calls)
  BY CallLines DEF Core
<1>2. \A S \in SUBSET Calls : Usd(S) = Amount(S)
  BY <1>1, AmountType, FS_Subset
<1>3. \A l \in Calls : l.step \in Steps /\ l.run \in Runs
  BY <1>1 DEF Line
<1>4. StepWithinCap
  <2>1. ASSUME NEW l \in Calls
        PROVE  Usd(OfStep(Calls, l.step, l.run)) <= for_step(l.step, l.run)
    BY <1>2, <1>3, Subsets DEF CapsKept
  <2>. QED  BY <2>1 DEF StepWithinCap, OfStep, for_step
<1>5. RunWithinCap
  <2>1. \A l \in Calls : l.run # NoRun => Usd(OfRun(Calls, l.run)) <= RunCap
    BY <1>2, <1>3, Subsets DEF CapsKept
  <2>. QED  BY <2>1 DEF RunWithinCap, RunLines, OfRun
<1>. QED  BY <1>4, <1>5

LEMMA DayIsWithin ==
  ASSUME Core, DayKept
  PROVE  DayWithinCap
<1>1. Usd(OfDay) = Amount(OfDay)
  BY CallLines, AmountType DEF Core
<1>. QED  BY <1>1 DEF DayWithinCap, OfDay, DayKept

\* claude_spend.reserve_all: the caps of each step and of each review run hold,
\* however many processes race, whatever dies, and however late an answer is.
THEOREM StepsAndRunsWithinCap ==
  ASSUME NoLateRelease
  PROVE  Spec => [](StepWithinCap /\ RunWithinCap)
<1>1. Core /\ CapsKept => StepWithinCap /\ RunWithinCap
  BY CapsAreWithin
<1>. QED  BY <1>1, CoreHolds, CapsHold, PTL

\* claude_spend.reserve_all: no cap of a step, a run or a day is passed, when
\* every answer is settled while its hold still counts for the day.
THEOREM NoCapPassed ==
  ASSUME ~Late
  PROVE  Spec => []WithinCaps
<1>1. Core /\ CapsKept /\ DayKept => WithinCaps
  BY CapsAreWithin, DayIsWithin DEF WithinCaps
<1>2. NoLateRelease
  BY DEF NoLateRelease
<1>. QED  BY <1>1, <1>2, CoreHolds, CapsHold, DayHolds, PTL

-----------------------------------------------------------------------------
(* The ledger is a budget. *)

\* Ids, each counted once, are billed no more than their lines.
LEMMA BillsWithin ==
  ASSUME NEW S \in SUBSET Line, IsFiniteSet(S), \A l \in S : bill[l.id] \in Nat /\ bill[l.id] <= l.usd
  PROVE  LET ids == {l.id : l \in S} IN
         IsFiniteSet(ids) /\ Sum(bill, ids) \in Nat /\ Sum(bill, ids) <= Amount(S)
<1> DEFINE ids == {l.id : l \in S}
           d == [l \in S |-> bill[l.id]]
           g == [l \in S |-> l.id]
           f == [u \in Units(d, S) |-> <<u[1].id, u[2]>>]
<1>1. IsFiniteSet(ids)
  <2>1. g \in Surjection(S, ids)
    BY DEF Surjection
  <2>. QED  BY <2>1, FS_Surjection
<1>2. \A id \in ids : bill[id] \in Nat
  OBVIOUS
<1>3. Sum(bill, ids) \in Nat
  BY <1>1, <1>2, SumFinite
<1>4. Sum(d, S) <= Sum(price, S) /\ Sum(price, S) \in Nat /\ Sum(d, S) \in Nat /\ IsFiniteSet(Units(d, S))
  <2>1. \A l \in S : price[l] \in Nat /\ d[l] \in Nat /\ d[l] <= price[l]
    BY Price
  <2>2. S \in SUBSET S
    OBVIOUS
  <2> HIDE DEF d
  <2>. QED  BY <2>1, <2>2, SumMonotonic, SumFinite
<1>5. f \in Surjection(Units(d, S), Units(bill, ids))
  <2>1. ASSUME NEW u \in Units(d, S)  PROVE f[u] \in Units(bill, ids)
    <3>1. PICK l \in S : u \in {l} \X (1..d[l])
      BY UnitsElement
    <3>2. u[1] = l /\ u[2] \in 1..bill[l.id]
      BY <3>1
    <3>3. f[u] \in {l.id} \X (1..bill[l.id]) /\ l.id \in ids
      BY <3>2
    <3>. QED  BY <3>3, UnitsElement
  <2>2. ASSUME NEW w \in Units(bill, ids)  PROVE \E u \in Units(d, S) : f[u] = w
    <3>1. PICK id \in ids : w \in {id} \X (1..bill[id])
      BY UnitsElement
    <3>2. PICK l \in S : l.id = id
      OBVIOUS
    <3>3. w = <<l.id, w[2]>> /\ w[2] \in 1..d[l]
      BY <3>1, <3>2
    <3>4. <<l, w[2]>> \in {l} \X (1..d[l])
      BY <3>3
    <3>5. <<l, w[2]>> \in Units(d, S)
      BY <3>4, UnitsElement
    <3>6. f[<<l, w[2]>>] = w
      BY <3>3, <3>5
    <3>. QED  BY <3>5, <3>6
  <2>3. f \in [Units(d, S) -> Units(bill, ids)]
    BY <2>1
  <2> HIDE DEF f
  <2>. QED  BY <2>2, <2>3 DEF Surjection
<1>6. Cardinality(Units(bill, ids)) <= Cardinality(Units(d, S))
  <2> HIDE DEF f, d, ids
  <2>. QED  BY <1>4, <1>5, FS_Surjection
<1>7. Sum(bill, ids) <= Sum(d, S)
  BY <1>6 DEF Sum
<1>. QED  BY <1>1, <1>3, <1>4, <1>7 DEF Amount

\* What two sets of lines amount to.
LEMMA AmountBoth ==
  ASSUME NEW S \in SUBSET Line, IsFiniteSet(S), NEW T \in SUBSET Line, IsFiniteSet(T), S \cap T = {}
  PROVE  Amount(S \cup T) = Amount(S) + Amount(T)
<1>1. \A l \in S \cup T : price[l] \in Nat
  BY Price
<1>2. IsFiniteSet(Units(price, S)) /\ IsFiniteSet(Units(price, T))
  BY <1>1, SumFinite
<1>3. Units(price, S \cup T) = Units(price, S) \cup Units(price, T)
  BY DEF Units
<1>4. Units(price, S) \cap Units(price, T) = {}
  BY UnitsElement
<1>5. /\ Cardinality(Units(price, S) \cup Units(price, T))
           = Cardinality(Units(price, S)) + Cardinality(Units(price, T)) - Cardinality({})
      /\ Cardinality({}) = 0
  BY <1>2, <1>4, FS_Union, FS_EmptySet
<1>6. Cardinality(Units(price, S)) \in Nat /\ Cardinality(Units(price, T)) \in Nat
  BY <1>2, FS_CardinalityType
<1>7. Cardinality(Units(price, S \cup T)) = Cardinality(Units(price, S)) + Cardinality(Units(price, T))
  <2>1. Cardinality(Units(price, S) \cup Units(price, T))
           = Cardinality(Units(price, S)) + Cardinality(Units(price, T))
    BY <1>5, <1>6
  <2>. QED  BY <1>3, <2>1, Zenon
<1>. QED  BY <1>7 DEF Amount, Sum

SettledIds == {l.id : l \in Lines("settled")}

\* What is on the books, in a state that keeps the caps.
BooksAre ==
  /\ Usd(Open) = Amount(Open) /\ Usd(Lines("settled")) = Amount(Lines("settled"))
  /\ Bills(OpenIds) = Sum(bill, OpenIds) /\ Bills(SettledIds) = Sum(bill, SettledIds)
  /\ Amount(Open) \in Nat /\ Amount(Lines("settled")) \in Nat
  /\ Sum(bill, OpenIds) \in Nat /\ Sum(bill, SettledIds) \in Nat
  /\ Sum(bill, OpenIds) <= Amount(Open)
  /\ Amount(Open) + Amount(Lines("settled")) <= TotalCap

LEMMA Books ==
  Core /\ CapsKept => BooksAre
<1> SUFFICES ASSUME Core, CapsKept  PROVE BooksAre
  OBVIOUS
<1>1. /\ Open \in SUBSET Line /\ IsFiniteSet(Open)
      /\ Lines("settled") \in SUBSET Line /\ IsFiniteSet(Lines("settled"))
      /\ Calls = Open \cup Lines("settled") /\ Open \cap Lines("settled") = {}
  <2>1. /\ Lines("reserved") \subseteq Line /\ Lines("settled") \subseteq Line
        /\ Open \subseteq Lines("reserved") /\ Calls = Open \cup Lines("settled") /\ IsFiniteSet(Calls)
    BY LinesAre DEF Core
  <2>2. Open \cap Lines("settled") = {}
    BY <2>1 DEF Lines
  <2>. QED  BY <2>1, <2>2, FS_Subset
<1>2. \A l \in Open \cup Lines("settled") : bill[l.id] \in Nat /\ bill[l.id] <= l.usd
  BY <1>1, Fields DEF Core, BillsOK
<1>3. Sum(bill, OpenIds) \in Nat /\ Sum(bill, OpenIds) <= Amount(Open)
  BY <1>1, <1>2, BillsWithin DEF OpenIds
<1>4. Sum(bill, SettledIds) \in Nat
  BY <1>1, <1>2, BillsWithin DEF SettledIds
<1>5. Amount(Open) + Amount(Lines("settled")) <= TotalCap
  BY <1>1, AmountBoth DEF CapsKept
<1>. QED  BY <1>1, <1>3, <1>4, <1>5, AmountType, BillsIsSum DEF BooksAre

LEMMA BooksNext ==
  Core' /\ CapsKept' => BooksAre'
  BY Books, PTL

\* A step that changes no line of a call, and no bill, changes nothing there.
LEMMA SameBooks ==
  ASSUME Core, CapsKept, Core', CapsKept',
         Open' = Open, Lines("settled")' = Lines("settled"), bill' = bill
  PROVE  UNCHANGED Budget!vars
<1>1. BooksAre /\ BooksAre'
  BY Books, BooksNext
<1>3. OpenIds' = OpenIds /\ SettledIds' = SettledIds
  BY DEF OpenIds, SettledIds
<1>. QED  BY <1>1, <1>3 DEF Budget!vars, SettledIds, BooksAre

\* A new reservation is set aside.
LEMMA NewIsReserve ==
  ASSUME Core, CapsKept, Core', CapsKept', NEW t \in Threads, Append1(t), Reserving(t)
  PROVE  \E w \in 0..TotalCap : Budget!Reserve(w)
<1> DEFINE y == New(t)
<1>1. /\ y \in Line /\ y.id \notin Ids /\ bill[y.id] = 0 /\ bill' = bill /\ y.usd \in Nat
  BY WritesNew, Price
<1>2. Open' = Open \cup {y} /\ Lines("settled")' = Lines("settled") /\ y \notin Calls
  BY LinesNew
<1>3. /\ Open \in SUBSET Line /\ IsFiniteSet(Open) /\ y \notin Open /\ Open \subseteq ledger \ Torn
  BY <1>2, LinesAre, FS_Subset DEF Core
<1>4. BooksAre /\ BooksAre'
  BY Books, BooksNext
<1> HIDE DEF y
<1>5. Amount(Open') = Amount(Open) + y.usd
  <2>1. \A l \in Open \cup {y} : price[l] \in Nat
    BY <1>1, <1>3, Price
  <2>2. Sum(price, Open \cup {y}) = Sum(price, Open) + price[y] /\ price[y] = y.usd
    BY <1>1, <1>3, <2>1, SumAdd, Price
  <2>. QED  BY <1>2, <2>2 DEF Amount
<1>6. OpenIds' = OpenIds \cup {y.id} /\ SettledIds' = SettledIds /\ y.id \notin OpenIds
  BY <1>1, <1>2, <1>3 DEF OpenIds, SettledIds, Ids
<1>7. Sum(bill, OpenIds') = Sum(bill, OpenIds)
  <2>1. IsFiniteSet(OpenIds) /\ \A id \in OpenIds \cup {y.id} : bill[id] \in Nat
    <3>1. \A l \in Open : l.id \in 1..MaxCalls
      BY <1>3, Fields DEF Core
    <3>2. OpenIds \subseteq 1..MaxCalls
      BY <3>1 DEF OpenIds
    <3>3. 1 \in Int /\ MaxCalls \in Int
      BY LedgerAssumption
    <3>4. IsFiniteSet(1..MaxCalls)
      BY <3>3, FS_Interval
    <3>. QED  BY <1>1, <3>2, <3>4, FS_Subset, Fields DEF Core
  <2>2. Sum(bill, OpenIds \cup {y.id}) = Sum(bill, OpenIds) + bill[y.id]
    BY <1>6, <2>1, SumAdd
  <2>. QED  BY <1>1, <1>4, <1>6, <2>2 DEF BooksAre
<1>8. y.usd \in 0..TotalCap /\ Usd(Open) + Usd(Lines("settled")) + y.usd <= TotalCap
  <2>1. Amount(Open') + Amount(Lines("settled")') <= TotalCap
    BY <1>4 DEF BooksAre
  <2>2. Amount(Open) + y.usd + Amount(Lines("settled")) <= TotalCap
    BY <1>2, <1>5, <2>1
  <2>3. /\ Amount(Open) \in Nat /\ Amount(Lines("settled")) \in Nat /\ TotalCap \in Nat
        /\ Usd(Open) = Amount(Open) /\ Usd(Lines("settled")) = Amount(Lines("settled"))
    BY <1>4, LedgerAssumption DEF BooksAre
  <2>. QED  BY <1>1, <2>2, <2>3
<1>9. /\ Usd(Open)' = Usd(Open) + y.usd /\ Usd(Lines("settled"))' = Usd(Lines("settled"))
      /\ Bills(OpenIds)' = Bills(OpenIds) /\ Bills(SettledIds)' = Bills(SettledIds)
  BY <1>1, <1>2, <1>4, <1>5, <1>6, <1>7 DEF BooksAre
<1>10. Budget!Reserve(y.usd)
  BY <1>8, <1>9 DEF Budget!Reserve, SettledIds
<1>. QED  BY <1>8, <1>10

\* A request that leaves is what it will be billed, within what is set aside.
LEMMA SendIsSend ==
  ASSUME Core, CapsKept, Core', CapsKept', NEW t \in Threads, Send(t)
  PROVE  \E b \in 0..TotalCap : Budget!Send(b)
<1>1. /\ bill' \in [1..MaxCalls -> Nat] /\ ledger' = ledger
      /\ \A id \in (1..MaxCalls) \ held[t] : bill'[id] = bill[id]
      /\ \A h \in Open : h.id \in held[t] => bill[h.id] = 0 /\ bill'[h.id] \in 0..h.usd
  BY Sends DEF Send
<1>2. Open' = Open /\ Lines("settled")' = Lines("settled")
  BY <1>1, LinesStay
<1>3. BooksAre /\ BooksAre'
  BY Books, BooksNext
<1>4. OpenIds' = OpenIds /\ SettledIds' = SettledIds
  BY <1>2 DEF OpenIds, SettledIds
<1>5. OpenIds \subseteq 1..MaxCalls /\ SettledIds \subseteq 1..MaxCalls
  BY LinesAre, Fields DEF OpenIds, SettledIds, Core
<1>6. IsFiniteSet(OpenIds)
  <2>1. 1 \in Int /\ MaxCalls \in Int
    BY LedgerAssumption
  <2>2. IsFiniteSet(1..MaxCalls)
    BY <2>1, FS_Interval
  <2>. QED  BY <1>5, <2>2, FS_Subset
<1>7. Sum(bill, OpenIds) <= Sum(bill', OpenIds)
  <2>1. \A id \in OpenIds : bill[id] \in Nat /\ bill'[id] \in Nat /\ bill[id] <= bill'[id]
    <3>1. ASSUME NEW h \in Open  PROVE bill[h.id] <= bill'[h.id]
      <4>1. h.id \in 1..MaxCalls /\ bill[h.id] \in Nat
        BY HeldLines, Fields DEF Core
      <4>2. CASE h.id \in held[t]
        <5>1. bill[h.id] = 0 /\ bill'[h.id] \in 0..h.usd
          BY <1>1, <4>2
        <5>. QED  BY <5>1
      <4>3. CASE h.id \notin held[t]
        BY <1>1, <4>1, <4>3
      <4>. QED  BY <4>2, <4>3
    <3>. QED  BY <1>1, <1>5, <3>1, Fields DEF OpenIds, Core
  <2>2. OpenIds \in SUBSET OpenIds
    OBVIOUS
  <2>. QED  BY <1>6, <2>1, <2>2, SumMonotonic
<1>8. Sum(bill', SettledIds) = Sum(bill, SettledIds)
  <2>1. ASSUME NEW id \in SettledIds  PROVE bill'[id] = bill[id]
    <3>1. PICK l \in Lines("settled") : l.id = id
      BY DEF SettledIds
    <3>2. id \notin held[t]
      BY <3>1, HeldLines DEF Core, HeldOK
    <3>. QED  BY <1>1, <1>5, <3>2
  <2>. QED  BY <2>1, SumSame
<1> DEFINE b == Bills(OpenIds)' - Bills(OpenIds)
<1>9. /\ Bills(OpenIds)' = Sum(bill', OpenIds) /\ Bills(OpenIds) = Sum(bill, OpenIds)
      /\ Bills(SettledIds)' = Bills(SettledIds)
      /\ Usd(Open)' = Usd(Open) /\ Usd(Lines("settled"))' = Usd(Lines("settled"))
      /\ Sum(bill', OpenIds) \in Nat /\ Sum(bill', OpenIds) <= Amount(Open)
  BY <1>2, <1>3, <1>4, <1>8 DEF BooksAre
<1>10. /\ b \in 0..TotalCap /\ Bills(OpenIds) + b <= Usd(Open)
       /\ Bills(OpenIds)' = Bills(OpenIds) + b
  BY <1>3, <1>7, <1>9, LedgerAssumption DEF BooksAre
<1>11. Budget!Send(b)
  BY <1>9, <1>10 DEF Budget!Send, SettledIds
<1>. QED  BY <1>10, <1>11

\* A hold that is closed leaves the open part, and its bill leaves what is due.
LEMMA Closing ==
  ASSUME Core, NEW h \in Open, Open' = Open \ {h}, bill' = bill
  PROVE  /\ Amount(Open) = Amount(Open') + h.usd /\ h.usd \in Nat
         /\ Sum(bill, OpenIds) = Sum(bill', OpenIds') + bill[h.id] /\ bill[h.id] \in Nat
         /\ bill[h.id] <= h.usd
<1>1. Open \in SUBSET Line /\ IsFiniteSet(Open)
  BY LinesAre, FS_Subset DEF Core
<1>2. \A l \in Open : price[l] \in Nat /\ price[l] = l.usd
  BY <1>1, Price
<1>3. Sum(price, Open) = Sum(price, Open \ {h}) + price[h]
  BY <1>1, <1>2, SumRemove
<1>4. OpenIds' = OpenIds \ {h.id} /\ h.id \in OpenIds
  <2>1. \A l \in Open : l.id = h.id => l = h
    BY HeldLines DEF Core
  <2>. QED  BY <2>1 DEF OpenIds
<1>5. OpenIds \subseteq 1..MaxCalls
  BY <1>1, Fields DEF OpenIds, Core
<1>6. IsFiniteSet(OpenIds)
  <2>1. 1 \in Int /\ MaxCalls \in Int
    BY LedgerAssumption
  <2>2. IsFiniteSet(1..MaxCalls)
    BY <2>1, FS_Interval
  <2>. QED  BY <1>5, <2>2, FS_Subset
<1>7. \A id \in OpenIds : bill[id] \in Nat
  BY <1>5, Fields DEF Core
<1>8. Sum(bill, OpenIds) = Sum(bill, OpenIds \ {h.id}) + bill[h.id]
  BY <1>4, <1>6, <1>7, SumRemove
<1>9. bill[h.id] <= h.usd
  BY DEF Core, BillsOK
<1>. QED  BY <1>2, <1>3, <1>4, <1>7, <1>8, <1>9 DEF Amount

\* A settlement is charged, no less than its bill and no more than its hold.
LEMMA SettledIsSettle ==
  ASSUME Core, CapsKept, Core', CapsKept', NEW h \in Open, NEW x \in Line, x.id = h.id,
         x.what = "settled", bill[x.id] <= x.usd, x.usd <= h.usd,
         ledger' = ledger \cup {x}, bill' = bill
  PROVE  \E w, c, b \in 0..TotalCap : Budget!Settle(w, c, b)
<1>1. /\ Open' = Open \ {h} /\ x \notin Lines("settled")
      /\ Lines("settled")' = Lines("settled") \cup {x}
  BY LinesClosed DEF Core
<1>2. BooksAre /\ BooksAre'
  BY Books, BooksNext
<1>3. /\ Amount(Open) = Amount(Open') + h.usd /\ h.usd \in Nat
      /\ Sum(bill, OpenIds) = Sum(bill', OpenIds') + bill[h.id] /\ bill[h.id] \in Nat
      /\ bill[h.id] <= h.usd
  BY <1>1, Closing
<1>4. Lines("settled") \in SUBSET Line /\ IsFiniteSet(Lines("settled"))
  <2>1. Lines("settled") \subseteq Calls /\ IsFiniteSet(Calls) /\ Lines("settled") \subseteq Line
    BY LinesAre DEF Core
  <2>. QED  BY <2>1, FS_Subset
<1>5. Amount(Lines("settled")') = Amount(Lines("settled")) + x.usd /\ x.usd \in Nat
  <2>1. \A l \in Lines("settled") \cup {x} : price[l] \in Nat /\ price[l] = l.usd
    BY <1>4, Price
  <2>2. Sum(price, Lines("settled") \cup {x}) = Sum(price, Lines("settled")) + price[x]
    BY <1>1, <1>4, <2>1, SumAdd
  <2>. QED  BY <1>1, <2>1, <2>2 DEF Amount
<1>6. SettledIds' = SettledIds \cup {x.id} /\ x.id \notin SettledIds
  BY <1>1, HeldLines DEF SettledIds, Core
<1>7. IsFiniteSet(SettledIds) /\ \A id \in SettledIds \cup {x.id} : bill[id] \in Nat
  <2>1. SettledIds \subseteq 1..MaxCalls /\ x.id \in 1..MaxCalls
    BY <1>4, Fields DEF SettledIds, Core
  <2>2. 1 \in Int /\ MaxCalls \in Int
    BY LedgerAssumption
  <2>3. IsFiniteSet(1..MaxCalls)
    BY <2>2, FS_Interval
  <2>. QED  BY <2>1, <2>3, FS_Subset, Fields DEF Core
<1>8. Sum(bill', SettledIds') = Sum(bill, SettledIds) + bill[x.id]
  BY <1>6, <1>7, SumAdd
<1> DEFINE w == h.usd
           c == x.usd
           b == bill[x.id]
<1>9. /\ Usd(Open)' = Amount(Open') /\ Usd(Lines("settled"))' = Amount(Lines("settled")')
      /\ Bills(OpenIds)' = Sum(bill', OpenIds') /\ Bills(SettledIds)' = Sum(bill', SettledIds')
      /\ Amount(Open') \in Nat /\ Sum(bill', OpenIds') \in Nat /\ Sum(bill', OpenIds') <= Amount(Open')
  BY <1>2 DEF BooksAre
<1>10. /\ Usd(Open) = Amount(Open) /\ Usd(Lines("settled")) = Amount(Lines("settled"))
       /\ Bills(OpenIds) = Sum(bill, OpenIds) /\ Bills(SettledIds) = Sum(bill, SettledIds)
       /\ Amount(Lines("settled")) \in Nat /\ Amount(Open) + Amount(Lines("settled")) <= TotalCap
       /\ Sum(bill, SettledIds) \in Nat /\ TotalCap \in Nat
  BY <1>2, LedgerAssumption DEF BooksAre
<1>11. w \in 0..TotalCap /\ c \in 0..TotalCap /\ b \in 0..TotalCap
  BY <1>3, <1>5, <1>9, <1>10
<1>12. /\ b <= c /\ c <= w /\ w <= Usd(Open) /\ b <= Bills(OpenIds)
       /\ Bills(OpenIds) - b <= Usd(Open) - w
       /\ Usd(Open)' = Usd(Open) - w /\ Bills(OpenIds)' = Bills(OpenIds) - b
  BY <1>3, <1>9, <1>10
<1>13. /\ Usd(Lines("settled"))' = Usd(Lines("settled")) + c
       /\ Bills(SettledIds)' = Bills(SettledIds) + b
  BY <1>5, <1>8, <1>9, <1>10
<1>14. Budget!Settle(w, c, b)
  BY <1>12, <1>13 DEF Budget!Settle, SettledIds
<1>. QED  BY <1>11, <1>14

\* A hold that is released is written off.
LEMMA ReleasedIsWriteOff ==
  ASSUME Core, CapsKept, Core', CapsKept', NEW h \in Open, NEW x \in Short, x.id = h.id,
         ledger' = ledger \cup {x}, bill' = bill
  PROVE  \E w, b \in 0..TotalCap : Budget!WriteOff(w, b)
<1>1. Open' = Open \ {h} /\ Lines("settled")' = Lines("settled")
  BY LinesClosed DEF Core
<1>2. BooksAre /\ BooksAre'
  BY Books, BooksNext
<1>3. /\ Amount(Open) = Amount(Open') + h.usd /\ h.usd \in Nat
      /\ Sum(bill, OpenIds) = Sum(bill', OpenIds') + bill[h.id] /\ bill[h.id] \in Nat
      /\ bill[h.id] <= h.usd
  BY <1>1, Closing
<1>4. SettledIds' = SettledIds
  BY <1>1 DEF SettledIds
<1> DEFINE w == h.usd
           b == bill[h.id]
<1>5. /\ Usd(Open)' = Amount(Open') /\ Usd(Lines("settled"))' = Amount(Lines("settled")')
      /\ Bills(OpenIds)' = Sum(bill', OpenIds') /\ Bills(SettledIds)' = Sum(bill', SettledIds')
      /\ Amount(Open') \in Nat /\ Sum(bill', OpenIds') \in Nat /\ Sum(bill', OpenIds') <= Amount(Open')
  BY <1>2 DEF BooksAre
<1>6. /\ Usd(Open) = Amount(Open) /\ Usd(Lines("settled")) = Amount(Lines("settled"))
      /\ Bills(OpenIds) = Sum(bill, OpenIds) /\ Bills(SettledIds) = Sum(bill, SettledIds)
      /\ Amount(Lines("settled")) \in Nat /\ Amount(Open) + Amount(Lines("settled")) <= TotalCap
      /\ TotalCap \in Nat
  BY <1>2, LedgerAssumption DEF BooksAre
<1>7. w \in 0..TotalCap /\ b \in 0..TotalCap
  BY <1>3, <1>5, <1>6
<1>8. /\ w <= Usd(Open) /\ b <= Bills(OpenIds) /\ Bills(OpenIds) - b <= Usd(Open) - w
      /\ Usd(Open)' = Usd(Open) - w /\ Bills(OpenIds)' = Bills(OpenIds) - b
  BY <1>3, <1>5, <1>6
<1>9. Usd(Lines("settled"))' = Usd(Lines("settled")) /\ Bills(SettledIds)' = Bills(SettledIds)
  BY <1>1, <1>4, <1>5, <1>6
<1>10. Budget!WriteOff(w, b)
  BY <1>8, <1>9 DEF Budget!WriteOff, SettledIds
<1>. QED  BY <1>7, <1>10

LEMMA BudgetStep ==
  ASSUME NoLateRelease, Core, CapsKept, Core', CapsKept', [Next]_vars
  PROVE  [Budget!Next]_Budget!vars
<1>1. ASSUME NEW t \in Threads, Append1(t), Reserving(t)  PROVE Budget!Next
  BY <1>1, NewIsReserve DEF Budget!Next
<1>2. ASSUME NEW t \in Threads, Append1(t), ~Reserving(t)  PROVE Budget!Next
  <2> DEFINE x == todo[t][1]
  <2>1. /\ (x \in Line /\ x.what = "settled") \/ x \in Short
        /\ ledger' = ledger \cup {x} /\ bill' = bill
    BY <1>2, WritesOver
  <2>2. PICK h \in Open : /\ h.id = x.id
                          /\ x.what = "settled" => bill[x.id] <= x.usd /\ x.usd <= h.usd
    BY <1>2, WritesOver
  <2> HIDE DEF x
  <2>3. CASE x \in Line /\ x.what = "settled"
    <3>1. \E w, c, b \in 0..TotalCap : Budget!Settle(w, c, b)
      BY <2>1, <2>2, <2>3, SettledIsSettle
    <3>. QED  BY <3>1 DEF Budget!Next
  <2>4. CASE x \in Short
    <3>1. \E w, b \in 0..TotalCap : Budget!WriteOff(w, b)
      BY <2>1, <2>2, <2>4, ReleasedIsWriteOff
    <3>. QED  BY <3>1 DEF Budget!Next
  <2>. QED  BY <2>1, <2>3, <2>4
<1>3. ASSUME NEW t \in Threads, Send(t)  PROVE Budget!Next
  BY <1>3, SendIsSend DEF Budget!Next
<1>4. ASSUME NEW id \in 1..MaxCalls, ReleaseLeftOver(id)  PROVE Budget!Next
  <2>1. PICK h \in Open : h.id = id
    BY <1>4, LeftOver
  <2> DEFINE x == [what |-> "released", id |-> id]
  <2>2. x \in Short /\ x.id = h.id
    BY <1>4, <2>1, LeftOver
  <2>3. ledger' = ledger \cup {x} /\ bill' = bill
    BY <1>4 DEF ReleaseLeftOver
  <2> HIDE DEF x
  <2>4. \E w, b \in 0..TotalCap : Budget!WriteOff(w, b)
    BY <2>2, <2>3, ReleasedIsWriteOff
  <2>. QED  BY <2>4 DEF Budget!Next
<1>5. ASSUME NEW t \in Threads, Crash(t)  PROVE UNCHANGED Budget!vars
  <2>1. [what |-> "torn", id |-> crashes] \in Torn
    BY DEF Torn, Core, Types, TypeOK
  <2>2. Open' = Open /\ Lines("settled")' = Lines("settled") /\ bill' = bill
    BY <1>5, <2>1, LinesTorn, LinesStay DEF Crash
  <2>. QED  BY <2>2, SameBooks
<1>6. ASSUME ledger' = ledger, bill' = bill  PROVE UNCHANGED Budget!vars
  BY <1>6, LinesStay, SameBooks
<1>. QED  BY <1>1, <1>2, <1>3, <1>4, <1>5, <1>6 DEF Next, Ask, reserve_all, Answer, Settle,
                                                     LockTimeout, Tick, vars

LEMMA BudgetInit ==
  Init => Budget!Init
<1> SUFFICES ASSUME Init PROVE Budget!Init
  OBVIOUS
<1>1. Open = {} /\ Lines("settled") = {} /\ OpenIds = {}
  BY DEF Init, Open, Lines, OpenIds
<1>2. Usd({}) = 0 /\ Bills({}) = 0
  BY FS_EmptySet DEF Usd, Bills
<1>3. {l.id : l \in Lines("settled")} = {}
  BY <1>1
<1>. QED  BY <1>1, <1>2, <1>3 DEF Budget!Init

\* claude_spend.reserve_all, settle, settle_failure, release and the dropping
\* of holds nobody came back for: every line written is a step of a budget, for
\* any processes and requests, and a process that dies takes none.
THEOREM LedgerIsBudget ==
  ASSUME NoLateRelease
  PROVE  Spec => BudgetKept
<1>1. Core /\ CapsKept /\ Core' /\ CapsKept' /\ [Next]_vars => [Budget!Next]_Budget!vars
  BY BudgetStep
<1>. QED  BY <1>1, BudgetInit, CoreHolds, CapsHold, PTL DEF Spec, BudgetKept, Budget!Spec

-----------------------------------------------------------------------------
(* What a budget promises, SpendBudget's invariants, from its steps alone. *)

Figures ==
  /\ Usd(Open) \in Nat /\ Usd(Lines("settled")) \in Nat
  /\ Bills(OpenIds) \in Nat /\ Bills(SettledIds) \in Nat

Promise == Figures /\ Budget!WithinCap /\ Budget!Covered

LEMMA PromiseStep ==
  Promise /\ [Budget!Next]_Budget!vars => Promise'
<1> SUFFICES ASSUME Promise, [Budget!Next]_Budget!vars PROVE Promise'
  OBVIOUS
<1> USE DEF Promise, Figures, Budget!WithinCap, Budget!Covered, SettledIds
<1>0. TotalCap \in Nat /\ \A w \in 0..TotalCap : w \in Nat
  BY LedgerAssumption
<1>1. CASE \E w \in 0..TotalCap : Budget!Reserve(w)
  BY <1>0, <1>1 DEF Budget!Reserve
<1>2. CASE \E b \in 0..TotalCap : Budget!Send(b)
  BY <1>0, <1>2 DEF Budget!Send
<1>3. CASE \E w, c, b \in 0..TotalCap : Budget!Settle(w, c, b)
  <2>1. PICK w, c, b \in 0..TotalCap : Budget!Settle(w, c, b)
    BY <1>3
  <2>2. Figures'
    BY <1>0, <2>1 DEF Budget!Settle
  <2>3. Budget!WithinCap'
    BY <1>0, <2>1 DEF Budget!Settle
  <2>4. Budget!Covered'
    BY <1>0, <2>1 DEF Budget!Settle
  <2>. QED  BY <2>2, <2>3, <2>4
<1>4. CASE \E w, b \in 0..TotalCap : Budget!WriteOff(w, b)
  <2>1. PICK w, b \in 0..TotalCap : Budget!WriteOff(w, b)
    BY <1>4
  <2>. QED  BY <1>0, <2>1 DEF Budget!WriteOff
<1>5. CASE UNCHANGED Budget!vars
  BY <1>5 DEF Budget!vars
<1>. QED  BY <1>1, <1>2, <1>3, <1>4, <1>5 DEF Budget!Next

LEMMA BudgetPromise ==
  Budget!Spec => []Promise
<1>1. Budget!Init => Promise
  BY LedgerAssumption
  DEF Budget!Init, Promise, Figures, Budget!WithinCap, Budget!Covered, SettledIds
<1>. QED  BY <1>1, PromiseStep, PTL DEF Budget!Spec

\* claude_spend.reserve_all: what is settled and what is held together never
\* pass the total cap.
THEOREM NeverOverCap ==
  ASSUME NoLateRelease
  PROVE  Spec => []Budget!WithinCap
<1>1. Promise => Budget!WithinCap
  BY DEF Promise
<1>. QED  BY <1>1, BudgetPromise, LedgerIsBudget, PTL DEF BudgetKept

\* claude_spend.settle, settle_failure: what the API bills is never more than
\* what the ledger shows for it.
THEOREM NeverUnderBill ==
  ASSUME NoLateRelease
  PROVE  Spec => []Budget!Covered
<1>1. Promise => Budget!Covered
  BY DEF Promise
<1>. QED  BY <1>1, BudgetPromise, LedgerIsBudget, PTL DEF BudgetKept

\* The variables keep their types, in every state.
THEOREM LedgerTyped ==
  ASSUME NoLateRelease
  PROVE  Spec => []TypeOK
<1>1. Core => TypeOK
  BY DEF Core, Types
<1>. QED  BY <1>1, CoreHolds, PTL
=============================================================================
