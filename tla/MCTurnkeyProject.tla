-------------------------- MODULE MCTurnkeyProject --------------------------
(* Small instances of TurnkeyProject: the second ticket is more urgent and *)
(* depends on the first; one path keeps the workspace small, since what is *)
(* written where is checked with AutonomousTicket.                         *)
EXTENDS TurnkeyProject, TLC

CONSTANTS t1, t2, inside

MCDependsOn == [t \in Tickets |-> IF t = t2 THEN <<t1>> ELSE << >>]
MCPriority  == [t \in Tickets |-> IF t = t2 THEN "p0" ELSE "p1"]
MCIdOrder   == [t \in Tickets |-> IF t = t1 THEN 1 ELSE 2]

\* A secret in the output calls for review; everything else is allowed.
MCPolicy ==
  [allowed |-> {inside}, protected |-> {}, secretNames |-> {},
   maxFiles |-> 2, maxDelta |-> 10, allowBinary |-> FALSE,
   reviewProtected |-> TRUE, reviewSecret |-> TRUE, reviewViolation |-> FALSE]
MCLineDelta == [p \in Paths |-> 3]

MCReadyBoards == {[t \in Tickets |-> "ready"]}

RuntimeSymmetry == Permutations(Runtimes)
=============================================================================
