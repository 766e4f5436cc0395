SPECIFICATION ExecutorSpec
CONSTANTS
  AttemptLimits = {0, 1, 3}
  MaxTokens = 5
  MaxCost = 2
  MaxToolCalls = 2
  Unreported = Unreported
CHECK_DEADLOCK FALSE
INVARIANTS RetriesFollowTheErrorKind ToolsStayWithinBudget RequestsAreAnswered CompletionComesLast
PROPERTIES ExecutionsReturn
