SPECIFICATION Spec
CONSTANTS
  NumDexes = 1
  NumPositions = 2
  Unrecognized = {}
  PageSize = 1
  MaxPages = 1
  RetryLimit = 1
  Named = {1}
  MaxFaults = 1
PROPERTIES RetryClearsFailure
