----------------------------- MODULE SpendLedger -----------------------------
(***************************************************************************)
(* The spend ledger of backend/app/claude_spend.py: a local file of lines, *)
(* appended to under a lock, from which every cap on the Claude lane is    *)
(* read.  A request reserves the worst case of each of its calls before it *)
(* is sent and settles, or releases, each one afterwards.                  *)
(*                                                                         *)
(* A thread stands for a process using the ledger through this module; the *)
(* steps between two steps of one thread are those of the others.  USD are *)
(* small whole numbers.  The clock counts ticks, TicksPerDay to a UTC day. *)
(***************************************************************************)
EXTENDS Integers, Sequences, FiniteSets

CONSTANTS
  Threads, NoThread,
  Requests,        \* what a thread may ask for: [run, calls], calls a sequence
                   \* of [step, worst]
  NoRun,           \* a request made outside a review run
  StandardSteps,   \* standards_convert:<standard>
  StepCap, StandardCap, ReviewCap, RunCap, DayCap,
  TotalCap,        \* the raised total, ...
  BaselineTotal,   \* ... the total after it lapses,
  RaisedUntil,     \* and the last day it is raised
  TicksPerDay,
  OpenHoldWindow,  \* ticks an open hold counts for against the day
  Late,            \* may a call be settled later than that?
  ReleasesHolds,   \* does compile_budget release the holds of dead processes?
  MaxCalls,        \* bound on reservations
  MaxTicks,        \* bound on the clock
  MaxCrashes       \* bound on deaths of a process

REVIEW_STEP == "clause_review"

Runs  == {q.run : q \in Requests}
Steps == UNION {{q.calls[i].step : i \in DOMAIN q.calls} : q \in Requests}

ASSUME LedgerAssumption ==
  /\ Requests \subseteq [run : Runs, calls : Seq([step : Steps, worst : Nat \ {0}]) \ {<<>>}]
  /\ {StepCap, StandardCap, ReviewCap, RunCap, DayCap, TotalCap, BaselineTotal} \subseteq Nat
  /\ {MaxCalls, MaxTicks, MaxCrashes} \subseteq Nat
  /\ {OpenHoldWindow, TicksPerDay} \subseteq Nat \ {0} /\ RaisedUntil \in Int
  /\ BaselineTotal <= TotalCap
  /\ Late \in BOOLEAN /\ ReleasesHolds \in BOOLEAN /\ NoThread \notin Threads

VARIABLES
  ledger,    \* the lines of the file, whose order nothing reads
  lock,      \* the thread in _ledger_lock
  pc, ask,   \* where a thread is, and its request
  caps,      \* the total it compares with, read before it waits for the lock
  todo,      \* the lines it is appending
  held,      \* its reservations out for an answer
  issued,    \* reservation ids given out
  bill,      \* what the API bills for each reservation: unknown to the program
  now, crashes

vars == <<ledger, lock, pc, ask, caps, todo, held, issued, bill, now, crashes>>

-----------------------------------------------------------------------------
(* Reading the ledger. *)

Day(tick) == tick \div TicksPerDay

total_cap ==
  IF Day(now) > RaisedUntil /\ BaselineTotal < TotalCap THEN BaselineTotal ELSE TotalCap

Lines(what) == {l \in ledger : l.what = what}
Closed == {l.id : l \in Lines("settled") \cup Lines("released")}
Open   == {l \in Lines("reserved") : l.id \notin Closed}

\* mutant: a torn line is skipped, as if nothing had been spent
entries_SkipTorn == Lines("settled") \cup Open

\* The ledger as calls: a settled reservation shows as its settlement only, a
\* released one not at all, an open one at its worst case.  A torn line counts.
entries == Lines("settled") \cup Open \cup Lines("torn")

\* The lines a person can read.
Calls == entries \ Lines("torn")

\* A torn line is charged the whole total, whatever it was.
Cost(l) == IF l.what = "torn" THEN total_cap ELSE l.usd

\* What some lines add up to, counted dollar by dollar.
Usd(S) == Cardinality(UNION {{l} \X (1..Cost(l)) : l \in S})

is_runs(step, run) == run # NoRun /\ step \notin StandardSteps

\* cap_key, by_cap: inside a run, that run's own lines of the step; outside
\* one, or for a standard, every line of the step.
StepLines(step, run) ==
  {l \in Calls : l.step = step /\ (is_runs(step, run) => l.run = run)}

RunLines(run) == {l \in Calls : l.run = run /\ l.step \notin StandardSteps}

\* mutant: a hold counts on the day it was placed and on no other
Today_SameDayOnly == {l \in entries : l.what # "torn" => Day(l.at) = Day(now)}

\* charged_today: settled today, or open and young enough to become a cost.
Today ==
  {l \in entries :
     \/ l.what = "torn"
     \/ l.what = "reserved" /\ now - l.at < OpenHoldWindow
     \/ l.what = "settled" /\ Day(l.at) = Day(now)}

for_step(step, run) ==
  IF step \in StandardSteps THEN StandardCap
  ELSE IF step = REVIEW_STEP /\ run # NoRun THEN ReviewCap ELSE StepCap

\* The line of a request's i-th call.
Reservation(q, i) ==
  [what |-> "reserved", id |-> issued + i, step |-> q.calls[i].step, run |-> q.run,
   usd |-> q.calls[i].worst, at |-> now]

\* Each call of the request is checked on top of the ledger and of the calls
\* of the request before it; the total as the thread read it.
Fits(q, total) ==
  \A i \in DOMAIN q.calls :
    LET step == q.calls[i].step
        upTo == {Reservation(q, j) : j \in 1..i}
        sameStep == {l \in upTo : l.step = step}
        onRun == {l \in upTo : l.step \notin StandardSteps}
    IN /\ Usd(StepLines(step, q.run) \cup sameStep) <= for_step(step, q.run)
       /\ Usd(entries \cup upTo) <= total
       /\ is_runs(step, q.run) => Usd(RunLines(q.run) \cup onRun) <= RunCap
       /\ Usd(Today \cup upTo) <= DayCap

-----------------------------------------------------------------------------
Nobody == [run |-> NoRun, calls |-> <<>>]

Init ==
  /\ ledger = {} /\ lock = NoThread
  /\ pc = [t \in Threads |-> "idle"]
  /\ ask = [t \in Threads |-> Nobody]
  /\ caps = [t \in Threads |-> 0]
  /\ todo = [t \in Threads |-> <<>>]
  /\ held = [t \in Threads |-> {}]
  /\ issued = 0
  /\ bill = [id \in 1..MaxCalls |-> 0]
  /\ now = 0 /\ crashes = 0

Goto(t, l) == pc' = [pc EXCEPT ![t] = l]

\* A thread is about to make a request: its calls will want a reservation.
\* It takes the caps as they are on this day, and then waits for the lock.
Ask(t, q) ==
  /\ pc[t] = "idle"
  /\ issued + Len(q.calls) <= MaxCalls
  /\ ask' = [ask EXCEPT ![t] = q]
  /\ caps' = [caps EXCEPT ![t] = total_cap]
  /\ Goto(t, "reserve")
  /\ UNCHANGED <<ledger, lock, todo, held, issued, bill, now, crashes>>

\* reserve_all under the lock: all calls fit together and each gets a line,
\* or nothing is held and the request is refused.
reserve_all(t) ==
  LET q == ask[t]
      n == Len(q.calls) IN
  /\ pc[t] = "reserve" /\ lock = NoThread
  /\ issued + n <= MaxCalls
  /\ IF Fits(q, caps[t])
       THEN /\ lock' = t
            /\ todo' = [todo EXCEPT ![t] = [i \in 1..n |-> Reservation(q, i)]]
            /\ issued' = issued + n
            /\ Goto(t, "append")
            /\ UNCHANGED <<ask, caps>>
       ELSE /\ Goto(t, "idle")
            /\ ask' = [ask EXCEPT ![t] = Nobody]
            /\ caps' = [caps EXCEPT ![t] = 0]
            /\ UNCHANGED <<lock, todo, issued>>
  /\ UNCHANGED <<ledger, held, bill, now, crashes>>

\* One line at a time reaches the file, a reservation dated as it is written;
\* the lock goes with the last one.
Append1(t) ==
  LET first == Head(todo[t])
      line == IF first.what = "reserved" THEN [first EXCEPT !.at = now] ELSE first IN
  /\ pc[t] = "append" /\ todo[t] # <<>>
  /\ ledger' = ledger \cup {line}
  /\ todo' = [todo EXCEPT ![t] = Tail(@)]
  /\ held' = [held EXCEPT ![t] =
                IF line.what = "reserved" THEN @ \cup {line.id} ELSE @ \ {line.id}]
  /\ IF Len(todo[t]) > 1
       THEN UNCHANGED <<lock, pc>>
       ELSE /\ lock' = NoThread
            /\ Goto(t, IF line.what = "reserved" THEN "send"
                       ELSE IF held[t] = {line.id} THEN "idle" ELSE "sent")
  /\ UNCHANGED <<ask, caps, issued, bill, now, crashes>>

Hold(id)  == CHOOSE l \in Lines("reserved") : l.id = id
Worst(id) == Hold(id).usd

\* The request leaves.  What the API will bill for a call is between nothing
\* and its worst case.
Send(t) ==
  /\ pc[t] = "send"
  /\ \E b \in [held[t] -> {0, 1}] :
       bill' = [id \in 1..MaxCalls |-> IF id \in held[t] THEN b[id] * Worst(id)
                                                         ELSE bill[id]]
  /\ Goto(t, "sent")
  /\ UNCHANGED <<ledger, lock, ask, caps, todo, held, issued, now, crashes>>

Settlement(id, usd) == [Hold(id) EXCEPT !.what = "settled", !.usd = usd, !.at = now]

\* mutant: a reply that does not say what it used was free (#459)
Charges_FreeReply(id) == {bill[id], 0}

\* What a settlement may say: the usage the API reported, or, when it reported
\* none or the call failed and may have been billed, the worst case.
Charges(id) == {bill[id], Worst(id)}

\* One call of a request is over: settled, or released when the failure proves
\* that the API did no billable work.
Answer(t, id) ==
  /\ pc[t] = "sent" /\ id \in held[t]
  /\ \/ \E usd \in Charges(id) :
          todo' = [todo EXCEPT ![t] = <<Settlement(id, usd)>>]
     \/ /\ bill[id] = 0
        /\ todo' = [todo EXCEPT ![t] = <<[what |-> "released", id |-> id]>>]
  /\ Goto(t, "settle")
  /\ UNCHANGED <<ledger, lock, ask, caps, held, issued, bill, now, crashes>>

\* settle, release: the line waits for the lock.
Settle(t) ==
  /\ pc[t] = "settle" /\ lock = NoThread
  /\ lock' = t
  /\ Goto(t, "append")
  /\ UNCHANGED <<ledger, ask, caps, todo, held, issued, bill, now, crashes>>

\* Where the wait for the lock is limited, it may run out: a reservation is
\* refused, a settlement is given up and its hold stays.
LockTimeout(t) ==
  /\ pc[t] \in {"reserve", "settle"} /\ lock # NoThread
  /\ Goto(t, "idle")
  /\ todo' = [todo EXCEPT ![t] = <<>>]
  /\ held' = [held EXCEPT ![t] = {}]
  /\ ask' = [ask EXCEPT ![t] = Nobody]
  /\ caps' = [caps EXCEPT ![t] = 0]
  /\ UNCHANGED <<ledger, lock, issued, bill, now, crashes>>

\* A process dies: the operating system frees its lock, its holds stay in the
\* file, and the line it was writing may be torn.
Crash(t) ==
  /\ crashes < MaxCrashes /\ pc[t] # "idle"
  /\ crashes' = crashes + 1
  /\ \/ UNCHANGED ledger
     \/ pc[t] = "append" /\ ledger' = ledger \cup {[what |-> "torn", id |-> crashes]}
  /\ lock' = IF lock = t THEN NoThread ELSE lock
  /\ Goto(t, "idle")
  /\ todo' = [todo EXCEPT ![t] = <<>>]
  /\ held' = [held EXCEPT ![t] = {}]
  /\ ask' = [ask EXCEPT ![t] = Nobody]
  /\ caps' = [caps EXCEPT ![t] = 0]
  /\ UNCHANGED <<issued, bill, now>>

\* compile_budget.release_left_over_holds: an open hold on a standard's step
\* that is a batch window old is dropped.  (It leaves alone the holds of
\* batches on file; the requests here are direct calls.)
ReleaseLeftOver(id) ==
  /\ ReleasesHolds
  /\ lock = NoThread
  /\ \E l \in Open : l.id = id /\ l.step \in StandardSteps /\ now - l.at >= OpenHoldWindow
  /\ ledger' = ledger \cup {[what |-> "released", id |-> id]}
  /\ UNCHANGED <<lock, pc, ask, caps, todo, held, issued, bill, now, crashes>>

\* Unless Late, an answer is in, and its line written, before its hold is
\* older than the window.
Tick ==
  /\ now < MaxTicks
  /\ Late \/ \A t \in Threads : \A id \in held[t] : now + 1 - Hold(id).at < OpenHoldWindow
  /\ now' = now + 1
  /\ UNCHANGED <<ledger, lock, pc, ask, caps, todo, held, issued, bill, crashes>>

Next ==
  \/ \E t \in Threads :
       \/ \E q \in Requests : Ask(t, q)
       \/ reserve_all(t) \/ Append1(t) \/ Send(t) \/ Settle(t)
       \/ \E id \in 1..MaxCalls : Answer(t, id)
       \/ LockTimeout(t) \/ Crash(t)
  \/ \E id \in 1..MaxCalls : ReleaseLeftOver(id)
  \/ Tick

Spec == Init /\ [][Next]_vars

-----------------------------------------------------------------------------
Line  == [what : {"reserved", "settled"}, id : 1..MaxCalls, step : Steps, run : Runs,
          usd : Nat, at : 0..MaxTicks]
Short == [what : {"released"}, id : 1..MaxCalls]
Torn  == [what : {"torn"}, id : 0..MaxCrashes]

TypeOK ==
  /\ ledger \subseteq Line \cup Short \cup Torn
  /\ todo \in [Threads -> Seq(Line \cup Short)]
  /\ lock \in Threads \cup {NoThread}
  /\ pc \in [Threads -> {"idle", "reserve", "append", "send", "sent", "settle"}]
  /\ ask \in [Threads -> Requests \cup {Nobody}]
  /\ caps \in [Threads -> 0..TotalCap]
  /\ held \in [Threads -> SUBSET (1..MaxCalls)]
  /\ issued \in 0..MaxCalls
  /\ bill \in [1..MaxCalls -> Nat]
  /\ now \in 0..MaxTicks /\ crashes \in 0..MaxCrashes
  /\ \A t \in Threads : pc[t] = "append" <=> lock = t

-----------------------------------------------------------------------------
(* Correctness. *)

OpenIds  == {l.id : l \in Open}
Bills(S) == Cardinality(UNION {{id} \X (1..bill[id]) : id \in S})

Budget == INSTANCE SpendBudget WITH
  Cap     <- TotalCap,
  open    <- Usd(Open),
  settled <- Usd(Lines("settled")),
  due     <- Bills(OpenIds),
  billed  <- Bills({l.id : l \in Lines("settled")})

\* The ledger is a budget: whoever appends to it, and wherever a process dies,
\* its lines never add up to more than the total, nor those of a call to less
\* than its bill, unless its hold was left over and dropped.
BudgetKept == Budget!Spec

\* A step's cap holds for each review run on its own, and for a standard, or
\* the calls made outside a run, however many requests race.
StepWithinCap ==
  \A l \in Calls :
    LET own == {m \in Calls : /\ m.step = l.step
                              /\ l.step \in StandardSteps \/ m.run = l.run}
    IN Usd(own) <= (IF l.step \in StandardSteps THEN StandardCap
                    ELSE IF l.step = REVIEW_STEP /\ l.run # NoRun THEN ReviewCap
                    ELSE StepCap)

\* A review run never charges more than its own cap over its steps, apart from
\* the standards it converts.
RunWithinCap == \A l \in Calls : l.run # NoRun => Usd(RunLines(l.run)) <= RunCap

\* A UTC day never shows more than the day's cap: what was settled in it and
\* what is out and may still be, together.
DayWithinCap ==
  Usd({l \in Calls : \/ l.what = "reserved" /\ now - l.at < OpenHoldWindow
                     \/ l.what = "settled" /\ Day(l.at) = Day(now)}) <= DayCap

\* However many requests race, and whatever day it is: no cap of claude_spend
\* below the total is ever passed.
WithinCaps == StepWithinCap /\ RunWithinCap /\ DayWithinCap

\* After a torn line nothing more is held, so nothing is sent, until a person
\* has looked at the ledger: except by a request that read the raised total on
\* its last day and gets the lock after midnight, when the torn line is charged
\* the total that has lapsed and the request is compared with the other.
TornStops ==
  [][Lines("torn") # {} /\ Lines("reserved")' # Lines("reserved") =>
       \E t \in Threads : lock = t /\ pc[t] = "append" /\ caps[t] > total_cap]_vars

=============================================================================
