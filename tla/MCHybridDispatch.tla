-------------------------- MODULE MCHybridDispatch --------------------------
(* Small instances of HybridDispatch: tickets on both sides of each rule   *)
(* of the routing policy, and configurations in which all, one or none of  *)
(* the hosted profiles is affordable.                                      *)
EXTENDS HybridDispatch

CONSTANTS inside, guarded

MCTickets ==
  [workType : {"code", "docs"}, priority : {"p1"}, platform : {"absent", "ios"},
   complexity : {"absent"}, effort : {"s", "l"}, target : Field(Targets) \ {"invalid"},
   tools : {"none", "extended"}, schema : {"1"}]

MCConfiguration(ceiling) ==
  [maxCost |-> ceiling,
   cost |-> [f \in Families |-> CASE f = "local" -> 0 [] f = "economy" -> 1
                                  [] f = "balanced" -> 2 [] OTHER -> 4],
   provider |-> [f \in Families |-> IF f = "local" THEN "local" ELSE "openrouter"]]

\* The loader takes any provider for any profile: the cheapest hosted profile is
\* served locally, or the local one hosted.
MCMisconfigured ==
  {[MCConfiguration(1) EXCEPT !.provider["economy"] = "local"],
   [MCConfiguration(1) EXCEPT !.provider["local"] = "openrouter"]}
MCConfigurations == {MCConfiguration(c) : c \in {0, 1, 4}} \cup MCMisconfigured

MCPolicy ==
  [allowed |-> {inside}, protected |-> {guarded}, secretNames |-> {},
   maxFiles |-> 2, maxDelta |-> 10, allowBinary |-> FALSE,
   reviewProtected |-> TRUE, reviewSecret |-> FALSE, reviewViolation |-> FALSE]
MCPlannedChanges ==
  {[p \in touched |-> [delta |-> 3, binary |-> FALSE]] : touched \in {{}, {inside}, {guarded}}}
=============================================================================
