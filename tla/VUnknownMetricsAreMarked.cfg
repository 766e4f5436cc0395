SPECIFICATION AdaptiveSpec
CONSTANTS
  Offered <- MCOffered
  Requests <- MCRequests
  Attempts <- MCAttempts
  Alphabetical <- MCAlphabetical
  Weights <- MCWeights
  Metadata <- MCMetadata
  StaleAfter = 1
  MaxAttempts = 3
  MaxTime = 2
CHECK_DEADLOCK FALSE
INVARIANTS UnknownMetricsAreMarked
