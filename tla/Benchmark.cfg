SPECIFICATION BenchmarkSpec
CONSTANTS
  Manifests <- MCManifests
  Setups <- MCSetups
  HostedOutcomes <- MCHostedOutcomes
  LocalOutcomes <- MCLocalOutcomes
  Qualities <- MCQualities
  Unknown = Unknown
CHECK_DEADLOCK FALSE
INVARIANTS RankingFollowsThePolicy ToollessBenchmarksComplete
