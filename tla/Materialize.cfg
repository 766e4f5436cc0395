SPECIFICATION MaterializationSpec
CONSTANTS
  a = a
  b = b
  c = c
  d = d
  Words = {a, b, c, d}
  LF = LF
  Paths <- MCPaths
  Names <- MCNames
  Target <- MCTarget
  Ancestors <- MCAncestors
  Structured = {"config"}
  InitialFiles <- MCInitialFiles
  Responses <- MCResponses
CHECK_DEADLOCK FALSE
INVARIANTS DiffIsReported DeltasBoundTheDiff
PROPERTIES ImplementsChangeSet
