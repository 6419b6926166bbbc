SPECIFICATION Spec
CONSTANTS
  Pools = {p1}
  Topics = {p1}
  Workers = {w1, w2}
  Paused = {2}
  MaxVersion = 2
  MaxFaults = 1
  MaxCopies = 1
  MaxTasks = 2
  None = None
  MaxAttempts = 2
  MaxWaits = 1
  RingSize = 1
  Scenarios = {{"requests", "moves", "refreshes"},
               {"requests", "refreshes", "expiry"},
               {"requests", "cycles", "commits"},
               {"requests", "pages", "signal"},
               {"refreshes", "signal"},
               {"moves", "refreshes", "client"}}
CHECK_DEADLOCK FALSE
INVARIANTS ToldThenServed NoUpdateLost
PROPERTIES ShutdownEnds StaleListsHeal
