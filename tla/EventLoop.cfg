SPECIFICATION Spec
CONSTANTS
  Fetch = {f1, f2}
  NotifyCap = 1
  MaxTimers = 2
  Capacity = 1
  Budgets <- MCBudgets
INVARIANT LoopEndsDone
PROPERTIES
  CloseTerminates
  GoroutinesEnd
  TimeoutRuns
  IntervalRuns
  EveryFetchAnswered
