SPECIFICATION ProjectSafety
CONSTANTS
  t1 = t1
  t2 = t2
  inside = inside
  Tickets = {t1, t2}
  Paths = {inside}
  Runtimes = {r1}
  None = None
  NoCap = NoCap
  Torn = Torn
  TornWrites = FALSE
  TicketCaps = {NoCap}
  MaxFailures = 2
  MaxResumes = 1
  MaxReopens = 0
  DependsOn <- MCDependsOn
  Priority <- MCPriority
  IdOrder <- MCIdOrder
  Policy <- MCPolicy
  LineDelta <- MCLineDelta
  InitialBoards <- MCReadyBoards
CHECK_DEADLOCK FALSE
INVARIANTS InterruptedWorkIsKept
