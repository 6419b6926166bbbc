SPECIFICATION Spec
CONSTANTS
  NumEndpoints = 2
  Items = {1, 2, 3, 4, 5}
  PageSize = 2
  MaxChanges = 1
  IndexBits <- MCIndexBits
  NetBits <- MCNetBits
  Current <- MCCurrent
  Spacing = 2
  Window = 3
  MaxTickPages = 2
  SignBit = 16
  MaxEvents = 3
  EventPage = 1
  MaxScanPages = 2
  MaxFaults = 1
CHECK_DEADLOCK FALSE
INVARIANTS OneEndpointIsEnough CoinsComplete TicksExact NothingPassedOver
PROPERTIES EventsRead
