------------------------- MODULE MCAutonomousTicket -------------------------
(* Small instances of AutonomousTicket: two tickets, the second depending  *)
(* on the first, and two paths, one inside and one outside the policy.     *)
EXTENDS AutonomousTicket, TLC

CONSTANTS t1, t2, inside, guarded

MCDependsOn == [t \in Tickets |-> IF t = t2 THEN <<t1>> ELSE << >>]
MCPriority  == [t \in Tickets |-> IF t = t2 THEN "p0" ELSE "p2"]
MCIdOrder   == [t \in Tickets |-> IF t = t1 THEN 1 ELSE 2]

MCPolicy ==
  [allowed |-> {inside}, protected |-> {guarded}, secretNames |-> {},
   maxFiles |-> 2, maxDelta |-> 10, allowBinary |-> FALSE,
   reviewProtected |-> TRUE, reviewSecret |-> FALSE, reviewViolation |-> FALSE]
MCLineDelta == [p \in Paths |-> 3]

\* Both tickets ready; the dependency already done; the dependency archived.
MCInitialBoards ==
  {[t \in Tickets |-> "ready"],
   [t \in Tickets |-> IF t = t1 THEN "done" ELSE "ready"],
   [t \in Tickets |-> IF t = t1 THEN "absent" ELSE "ready"]}

\* Runtimes are interchangeable: no operator names one.
RuntimeSymmetry == Permutations(Runtimes)
=============================================================================
