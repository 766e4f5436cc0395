-------------------------- MODULE MCLocalTelemetry --------------------------
(* Two ticketed runs, which are alike, and an autonomous one that may      *)
(* write all three artifacts.                                              *)
EXTENDS LocalTelemetry, TLC

MCTicketed == {"ticketed-1", "ticketed-2"}
MCAutonomous == {"autonomous-1"}
=============================================================================
