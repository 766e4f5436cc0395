SPECIFICATION DispatchSpec
CONSTANTS
  inside = inside
  guarded = guarded
  Paths = {inside, guarded}
  AttemptLimits = {2}
  MaxTokens = 5
  MaxCost = 2
  MaxToolCalls = 1
  Unreported = Unreported
  Tickets <- MCTickets
  Configurations <- MCConfigurations
  PlannedChanges <- MCPlannedChanges
  Policy <- MCPolicy
CHECK_DEADLOCK FALSE
INVARIANTS TargetIsHonoured RoutesFitTheTicket FallbackIsBounded VerdictIsOnTheLastAttempt
PROPERTIES DispatchesEnd
