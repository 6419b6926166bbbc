SPECIFICATION Spec
CONSTANTS
  Sui = Sui
  X = X
  Y = Y
  Z = Z
  Requests <- MCRequests
  Plans <- MCPlans
  Wallets <- MCWallets
  Estimates = {0, 7, 25}
  Scale = 10
  GasBudget = 7
  Exact = 8
  MaxError = 1
  U64Max = 20
  BadSlippage = BadSlippage
CHECK_DEADLOCK FALSE
INVARIANTS ResultsConsumedOnce InputCovered MinimumEnforced
