SPECIFICATION FairSpec
CONSTANTS
  Pools = {p1}
  Registered = {}
  Workers = {w1, w2}
  MaxRetries = 1
  MaxVersion = 0
  MaxFaults = 2
  NoTask = NoTask
PROPERTIES ShutdownCompletes
