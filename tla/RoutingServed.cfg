SPECIFICATION Spec
CONSTANTS
  A = A
  B = B
  C = C
  D = D
  F = F
  Catalogs <- MCCatalogs
  Queries <- MCQueries
  GasCosts = {0, 1, 2}
  Threshold = 2
  MaxHops = 3
  SplitHops = 3
  HopCost = 1
  FeeScale = 10
  MaxWeight = 2
  Exact = 5
  MaxError = 1
  TickMin <- MCTickMin
  TickMax = 2
  TurbosMin <- MCTurbosMin
  TurbosMax <- MCTurbosMax
  Nets <- MCNets
  Liquidities = {0, 1, 2}
  SwapAmounts = {0, 1, 4, 20}
  NoTick = NoTick
CHECK_DEADLOCK FALSE
INVARIANTS RouteServed
