SPECIFICATION ExecutorSpec
CONSTANTS
  AttemptLimits = {1}
  MaxTokens = 5
  MaxCost = 2
  MaxToolCalls = 2
  Unreported = Unreported
CHECK_DEADLOCK FALSE
INVARIANTS CompletedOnce
