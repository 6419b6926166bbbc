SPECIFICATION Spec
CONSTANTS
  Pools = {p1}
  Traffic = {"PoolStateUpdate", "SwapEventLog"}
  MaxFaults = 2
  MaxAttempts = 3
  MaxMsgs = 2
  MaxDoubts = 1
  ReplayLimit = 2
  NoMsg = NoMsg
  NoReplay = NoReplay
PROPERTIES TerminalFailureReachesDlq
