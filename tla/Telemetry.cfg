SPECIFICATION TelemetrySpec
CONSTANTS
  Ticketed <- MCTicketed
  Autonomous <- MCAutonomous
CHECK_DEADLOCK FALSE
INVARIANTS SummariesAreBacked ReportsAreComplete
PROPERTIES ReportsOnlyGrow
