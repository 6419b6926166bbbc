SPECIFICATION FairSpec
CONSTANTS
  Pools = {p1}
  Traffic = {"PoolStateUpdate", "PoolTickDataUpdate", "SwapEventLog"}
  MaxFaults = 2
  MaxAttempts = 3
  MaxMsgs = 2
  MaxDoubts = 1
  ReplayLimit = 2
  NoMsg = NoMsg
  NoReplay = NoReplay
INVARIANTS TypeOK SingleCustody AtMostOncePlusDoubt LossBound
PROPERTIES KeepsPromise RowsRegressOnlyByReplay QueueDrains ShutdownStopsWriter ReplayEnds
