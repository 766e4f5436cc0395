----------------------------- MODULE MCBenchmark -----------------------------
(* Small instances of Benchmark: up to three candidates, hosted, local and *)
(* wrongly paired, for workloads with and without tools; a cost and a      *)
(* quality score equal what stands in for a missing one.                   *)
EXTENDS Benchmark

MCEntry(id, tools, writes, wellFormed) ==
  [id |-> id, tools |-> tools, writes |-> writes, wellFormed |-> wellFormed]
MCManifests ==
  {<< >>, <<MCEntry("docs", "none", FALSE, FALSE)>>,
   <<MCEntry("docs", "none", FALSE, TRUE), MCEntry("docs", "standard", FALSE, TRUE)>>,
   <<MCEntry("docs", "none", FALSE, TRUE), MCEntry("spec", "standard", FALSE, TRUE),
     MCEntry("code", "extended", TRUE, TRUE)>>}

MCCandidate(id, provider, executor, tools, selected) ==
  [id |-> id, provider |-> provider, executor |-> executor, tools |-> tools, selected |-> selected]
MCHosted(id, tools) == MCCandidate(id, "openrouter", "openrouter", tools, TRUE)
MCLocal(id, tools)  == MCCandidate(id, "local", "local", tools, TRUE)
MCLists ==
  UNION {{<<MCHosted(1, t), MCHosted(2, t), MCLocal(3, t)>>, <<MCLocal(2, t), MCLocal(1, t)>>,
          <<MCHosted(2, t), MCCandidate(1, "local", "openrouter", t, TRUE)>>,
          <<MCHosted(1, t), MCHosted(1, t)>>, <<MCHosted(1, t), MCLocal(2, ~t)>>,
          <<MCCandidate(1, "openrouter", "openrouter", t, FALSE)>>,
          <<MCCandidate(1, Absent, "openrouter", t, TRUE)>>} : t \in BOOLEAN} \cup {<< >>}
MCSetups == [tools : BOOLEAN, candidates : MCLists]

MCOutcome(result, latency, retries, cost) ==
  [result |-> result, latency |-> latency, retries |-> retries, cost |-> cost]
MCHostedOutcomes ==
  {MCOutcome("succeeded", l, r, c) : l \in 1 .. 2, r \in {0, 1}, c \in {Unknown, 1}} \cup
  {MCOutcome("succeeded", 1, 0, Missing), MCOutcome("failed", Unknown, 1, Unknown),
   MCOutcome("failed", 1, 0, 2)}
MCLocalOutcomes ==
  {MCOutcome("succeeded", l, 0, Unknown) : l \in 1 .. 2} \cup
  {MCOutcome("failed", Unknown, 0, Unknown)}
MCQualities == {Unknown, -1, 0, 2}
=============================================================================
