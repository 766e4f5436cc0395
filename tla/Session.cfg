SPECIFICATION SessionSafety
CONSTANTS
  t1 = t1
  t2 = t2
  inside = inside
  guarded = guarded
  Tickets = {t1, t2}
  Paths = {inside, guarded}
  Runtimes = {r1, r2}
  None = None
  MaxReopens = 1
  DependsOn <- MCDependsOn
  Priority <- MCPriority
  IdOrder <- MCIdOrder
  Policy <- MCPolicy
  LineDelta <- MCLineDelta
  InitialBoards <- MCInitialBoards
SYMMETRY RuntimeSymmetry
INVARIANTS SessionInvariant ExclusiveSessions
PROPERTIES MutationUnderClaim ReviewNeedsEvidence ImplementsWorkflow
