------------------------------ MODULE Benchmark ------------------------------
(***************************************************************************)
(* Benchmarking mode (src/higgs_agent/benchmarking): a workload of a       *)
(* manifest is run by one executor after the other, nothing is stored, and *)
(* a report ranks what came back.  The executors are those of              *)
(* ProviderExecutor and HybridDispatch, here with the outcome of a call.   *)
(***************************************************************************)
EXTENDS Integers, Sequences, SequencesExt, FiniteSetsExt

CONSTANTS
  Manifests,        \* the manifests that may be loaded: sequences of entries
  Setups,           \* [tools, candidates] a caller may run a workload with
  HostedOutcomes,   \* what a hosted call may come to
  LocalOutcomes,    \* and a local one
  Qualities,        \* the quality a reviewer may see in a result, or Unknown
  Unknown           \* a metric that was not reported

Absent  == "absent"  \* a provider or a model that is None
Missing == 999999999 \* what an unreported latency or cost counts as

\* The id of a candidate is its place among all ids, ordered as texts.
Candidates ==
  [id : Nat, provider : STRING, executor : {"openrouter", "local"},
   tools : BOOLEAN, selected : BOOLEAN]
Metrics == {Unknown} \cup Int
CallOutcomes ==
  [result : {"succeeded", "skipped", "failed", "blocked"}, latency : Metrics, retries : Nat,
   cost : Metrics]

ASSUME BenchmarkAssumption ==
  /\ Setups \subseteq [tools : BOOLEAN, candidates : Seq(Candidates)]
  /\ HostedOutcomes \subseteq CallOutcomes /\ LocalOutcomes \subseteq CallOutcomes
  /\ Qualities \subseteq Metrics
  /\ Unknown \notin Int

VARIABLES stage, manifest, workload, setup, results, report

benchmarkVars == <<stage, manifest, workload, setup, results, report>>

NoWorkload == [id |-> Absent]

Init ==
  /\ stage = "loading" /\ manifest \in Manifests
  /\ workload = NoWorkload /\ setup \in Setups
  /\ results = << >> /\ report = << >>

(***************************************************************************)
(* The manifest: every entry must be well formed, and the ids, stripped of *)
(* white space, must differ.                                               *)
(***************************************************************************)
IsManifest(entries) ==
  /\ entries # << >>
  /\ \A i \in DOMAIN entries : entries[i].wellFormed
  /\ IsInjective([i \in DOMAIN entries |-> entries[i].id])

\* load_benchmark_workload_manifest, and the caller's choice of a workload
LoadManifest ==
  /\ stage = "loading" /\ IsManifest(manifest)
  /\ \E i \in DOMAIN manifest : workload' = manifest[i]
  /\ stage' = "loaded"
  /\ UNCHANGED <<manifest, setup, results, report>>

\* BenchmarkManifestError
RefuseManifest ==
  /\ stage = "loading" /\ ~IsManifest(manifest)
  /\ stage' = "refused"
  /\ UNCHANGED <<manifest, workload, setup, results, report>>

(***************************************************************************)
(* The harness.                                                            *)
(***************************************************************************)
UsesTools == workload.tools # "none"

\* _validate_candidates
CandidatesAreValid ==
  LET candidates == setup.candidates IN
  /\ candidates # << >>
  /\ IsInjective([i \in DOMAIN candidates |-> candidates[i].id])
  /\ \A i \in DOMAIN candidates :
       /\ candidates[i].selected /\ candidates[i].provider # Absent
       /\ candidates[i].tools = UsesTools

\* Mutant: tools may be configured for a workload without tools.
IsAcceptedWithAnyTools == ~workload.writes /\ CandidatesAreValid

\* _validate_workload, _validate_config, _validate_candidates
IsAccepted ==
  /\ ~workload.writes
  /\ setup.tools => UsesTools
  /\ CandidatesAreValid

StartBenchmark ==
  /\ stage = "loaded" /\ IsAccepted
  /\ stage' = "running"
  /\ UNCHANGED <<manifest, workload, setup, results, report>>

\* BenchmarkHarnessError
RejectBenchmark ==
  /\ stage = "loaded" /\ ~IsAccepted
  /\ stage' = "refused"
  /\ UNCHANGED <<manifest, workload, setup, results, report>>

Candidate  == setup.candidates[Len(results) + 1]
IsRunning  == stage = "running" /\ Len(results) < Len(setup.candidates)
IsPaired(candidate) == candidate.provider = candidate.executor

\* Tool definitions that the executor does not take: the hosted one without leave
\* to call tools, the local one always.
RefusesTools(candidate) ==
  IsPaired(candidate) /\ setup.tools /\ (candidate.executor = "local" \/ ~UsesTools)

BlockedOutcome == [result |-> "blocked", latency |-> Unknown, retries |-> 0, cost |-> Unknown]

\* OpenRouterExecutor.execute and LocalModelExecutor.execute of one candidate; a
\* route of another provider is blocked.
Outcomes(candidate) ==
  IF ~IsPaired(candidate) THEN {BlockedOutcome}
  ELSE IF RefusesTools(candidate) THEN {}
  ELSE IF candidate.executor = "local" THEN LocalOutcomes ELSE HostedOutcomes

ExecuteCandidate ==
  /\ IsRunning
  /\ \E outcome \in Outcomes(Candidate) :
       results' = Append(results, [id |-> Candidate.id, outcome |-> outcome])
  /\ UNCHANGED <<stage, manifest, workload, setup, report>>

\* Tools that are refused, a hosted response body that is no JSON object, or an
\* invoker that raises while a hosted response calls a tool: the exception takes
\* the results of the earlier candidates with it.
ExecutorRaises ==
  /\ IsRunning
  /\ \/ RefusesTools(Candidate)
     \/ IsPaired(Candidate) /\ Candidate.executor = "openrouter"
  /\ stage' = "raised"
  /\ UNCHANGED <<manifest, workload, setup, results, report>>

HarnessReturns ==
  /\ stage = "running" /\ Len(results) = Len(setup.candidates)
  /\ stage' = "measured"
  /\ UNCHANGED <<manifest, workload, setup, results, report>>

(***************************************************************************)
(* The report.                                                             *)
(***************************************************************************)
\* _final_result_rank
ResultRanks == [succeeded |-> 4, skipped |-> 3, failed |-> 2, blocked |-> 1]
ResultRank(result) == IF result \in DOMAIN ResultRanks THEN ResultRanks[result] ELSE 0

OrElse(metric, standIn) == IF metric = Unknown THEN standIn ELSE metric

\* Mutant: a latency that was not measured is a latency of zero.
TieKeyCountingFromZero(line) ==
  <<-ResultRank(line.result), -OrElse(line.quality, -1), OrElse(line.latency, 0),
    line.retries, OrElse(line.cost, Missing)>>

\* _tie_key
TieKey(line) ==
  <<-ResultRank(line.result), -OrElse(line.quality, -1), OrElse(line.latency, Missing),
    line.retries, OrElse(line.cost, Missing)>>

\* _ranking_key compares tuples, and candidate ids last.
RankingKey(line) == Append(TieKey(line), line.id)
Precedes(x, y) ==
  LET k == RankingKey(x)  l == RankingKey(y) IN
  \E n \in DOMAIN k : k[n] < l[n] /\ \A m \in 1 .. n - 1 : k[m] = l[m]

\* _candidate_report
CandidateReport(result, quality) ==
  [id |-> result.id, result |-> result.outcome.result, quality |-> quality,
   latency |-> result.outcome.latency, retries |-> result.outcome.retries,
   cost |-> result.outcome.cost,
   notes |-> {note \in {"latency_unavailable", "cost_unavailable", "quality_signals_missing",
                        "non_success_result"} :
                \/ note = "latency_unavailable" /\ result.outcome.latency = Unknown
                \/ note = "cost_unavailable" /\ result.outcome.cost = Unknown
                \/ note = "quality_signals_missing" /\ quality = Unknown
                \/ note = "non_success_result" /\ result.outcome.result # "succeeded"}]

Lines(quality) == {CandidateReport(results[i], quality[i]) : i \in DOMAIN results}
Ranking(lines) ==
  CHOOSE s \in SetToSeqs(lines) : \A m, n \in DOMAIN s : m < n => Precedes(s[m], s[n])

\* tied_with_previous looks one position back.
ReportOn(ranked) ==
  [n \in DOMAIN ranked |->
     [line |-> ranked[n], tied |-> n > 1 /\ TieKey(ranked[n]) = TieKey(ranked[n - 1])]]

\* build_benchmark_report
BuildReport ==
  /\ stage = "measured"
  /\ \E quality \in [DOMAIN results -> Qualities] : report' = ReportOn(Ranking(Lines(quality)))
  /\ stage' = "reported"
  /\ UNCHANGED <<manifest, workload, setup, results>>

Next ==
  \/ LoadManifest \/ RefuseManifest \/ StartBenchmark \/ RejectBenchmark
  \/ ExecuteCandidate \/ ExecutorRaises \/ HarnessReturns \/ BuildReport

BenchmarkSpec == Init /\ [][Next]_benchmarkVars

(***************************************************************************)
(* Properties.                                                             *)
(***************************************************************************)
\* The published policy: what decides, and which of two values is the better one.
Criteria == <<"result", "quality", "latency", "retries", "cost">>
ResultOrder == <<"succeeded", "skipped", "failed", "blocked">>
IsBetter(criterion, a, b) ==
  \/ /\ criterion = "result"
     /\ \E i, j \in DOMAIN ResultOrder : ResultOrder[i] = a /\ ResultOrder[j] = b /\ i < j
  \/ criterion = "quality" /\ a # Unknown /\ (b = Unknown \/ a > b)
  \/ /\ criterion \in {"latency", "retries", "cost"}
     /\ a # Unknown /\ (b = Unknown \/ a < b)

\* What stands in for a metric that is missing is worse than those measured.
StandInsAreWorse(line) ==
  /\ line.quality # Unknown => line.quality > -1
  /\ line.latency # Unknown => line.latency < Missing
  /\ line.cost # Unknown => line.cost < Missing

(* The ranking is the published policy, and nothing hides behind it, where *)
(* the measurements stay clear of the numbers that stand in for missing    *)
(* ones: of two candidates the one ahead is better in the first criterion  *)
(* in which they differ, a metric that is missing never beats a measured   *)
(* one, and candidates are marked as tied exactly when no visible input    *)
(* tells them apart.                                                       *)
RankingFollowsThePolicy ==
  \A i, j \in DOMAIN report :
    LET x == report[i].line  y == report[j].line
        differ == {c \in DOMAIN Criteria : x[Criteria[c]] # y[Criteria[c]]}
    IN  i < j /\ StandInsAreWorse(x) /\ StandInsAreWorse(y) =>
          IF differ = {} THEN \A m \in i + 1 .. j : report[m].tied
                 ELSE /\ IsBetter(Criteria[Min(differ)], x[Criteria[Min(differ)]],
                                  y[Criteria[Min(differ)]])
                      /\ \E m \in i + 1 .. j : ~report[m].tied

(* What was accepted without tools is not refused by an executor later:    *)
(* only a hosted candidate, whose provider sends something other than an   *)
(* object, can stop the benchmark.  If none does, every declared candidate,*)
(* and no other, has its result and its place in the report.               *)
ToollessBenchmarksComplete ==
  /\ stage = "raised" /\ ~UsesTools =>
       Candidate.executor = "openrouter" /\ ~RefusesTools(Candidate)
  /\ stage \in {"measured", "reported"} =>
       [i \in DOMAIN results |-> results[i].id]
         = [i \in DOMAIN setup.candidates |-> setup.candidates[i].id]
  /\ stage = "reported" =>
       /\ Len(report) = Len(results)
       /\ {report[n].line.id : n \in DOMAIN report} = {results[i].id : i \in DOMAIN results}
=============================================================================
