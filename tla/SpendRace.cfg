\* Two processes race for the last dollars of a step, a run, a day and the
\* total, over midnights and the day the raised total lapses; one may die, and
\* the holds it leaves behind are dropped.
CONSTANTS
  Threads = {t1, t2}
  NoThread = NoThread
  Requests <- MCMixed
  NoRun = "none"
  StandardSteps = {"standard"}
  StepCap = 1
  StandardCap = 2
  ReviewCap = 4
  RunCap = 3
  DayCap = 3
  TotalCap = 5
  BaselineTotal = 2
  RaisedUntil = 0
  TicksPerDay = 2
  OpenHoldWindow = 2
  Late = FALSE
  ReleasesHolds = TRUE
  MaxCalls = 3
  MaxTicks = 2
  MaxCrashes = 1
SPECIFICATION Spec
SYMMETRY MCSymmetry
INVARIANTS
  WithinCaps
PROPERTIES
  BudgetKept
  TornStops
\* Every call made, the bounds used up: the system rests.
CHECK_DEADLOCK FALSE
