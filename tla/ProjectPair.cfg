SPECIFICATION ProjectSafety
CONSTANTS
  t1 = t1
  t2 = t2
  inside = inside
  Tickets = {t1, t2}
  Paths = {inside}
  Runtimes = {r1, r2}
  None = None
  NoCap = NoCap
  Torn = Torn
  TornWrites = FALSE
  TicketCaps = {2}
  MaxFailures = 1
  MaxResumes = 1
  MaxReopens = 0
  DependsOn <- MCDependsOn
  Priority <- MCPriority
  IdOrder <- MCIdOrder
  Policy <- MCPolicy
  LineDelta <- MCLineDelta
  InitialBoards <- MCReadyBoards
CHECK_DEADLOCK FALSE
SYMMETRY RuntimeSymmetry
INVARIANTS CompletedWereReviewed NoTicketIsRetried
PROPERTIES SessionSafety
