SPECIFICATION FairSpec
CONSTANTS
  Pools = {p1}
  Registered = {p1}
  Workers = {w1, w2}
  MaxRetries = 1
  MaxVersion = 1
  MaxFaults = 1
  NoTask = NoTask
INVARIANTS TypeOK NoTaskAbandoned
PROPERTIES HotPathOrder Converges
