SPECIFICATION FairSpec
CONSTANTS
  NumDexes = 2
  NumPositions = 2
  Unrecognized = {1}
  PageSize = 1
  MaxPages = 2
  RetryLimit = 1
  Named = {1}
  MaxFaults = 1
INVARIANTS TypeOK NothingSkipped RefreshFollowsCommit
PROPERTIES EveryPoolServed
