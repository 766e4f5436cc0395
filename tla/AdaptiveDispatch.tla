-------------------------- MODULE AdaptiveDispatch --------------------------
(***************************************************************************)
(* Choosing among eligible routes by what their attempts showed: telemetry *)
(* snapshots (src/higgs_agent/adaptive/telemetry.py), taken from the log   *)
(* or from a report of AttemptAnalytics, and the score of a candidate      *)
(* (src/higgs_agent/adaptive/scoring.py).  The log and the clock are the   *)
(* state; snapshots and rankings are functions of them.                    *)
(***************************************************************************)
EXTENDS AttemptAnalytics, Routing

CONSTANTS
  Offered,        \* the RouteDecisions to be ranked
  Requests,       \* the semantics of the tickets to be routed
  Attempts,       \* what an attempt may turn out to be; its dates come from the clock
  Alphabetical,   \* <<provider, model>> of the candidates, ordered as texts
  Weights,        \* AdaptiveScoringWeights, in hundredths
  StaleAfter, MaxAttempts, MaxTime

VARIABLES log, now

adaptiveVars == <<log, now>>

RouteOf(candidate) == <<candidate.provider, candidate.model>>

ASSUME AdaptiveAssumption ==
  /\ \A c, d \in Offered : RouteOf(c) = RouteOf(d) => c = d
  /\ \A c \in Offered : RouteOf(c) \in {Alphabetical[i] : i \in DOMAIN Alphabetical}
  /\ StaleAfter \in Nat /\ MaxAttempts \in Nat /\ MaxTime \in Nat

\* Attempts are summaries but for their dates; str(None) names the group of what is
\* missing, and no other group has its name.
ASSUME NamesAssumption ==
  /\ \A a \in Attempts :
       /\ "None" \notin {a.provider, a.model, a.result, a.error}
       /\ a.retries \in Nat /\ {a.duration, a.cost} \subseteq Nat \cup {Unknown}
  /\ \A t \in DOMAIN Metadata : "None" \notin {Metadata[t].type, Metadata[t].priority}

Init == log = << >> /\ now = 0

(***************************************************************************)
(* Telemetry.  An average is a sum and the number of values in it; with no *)
(* value the code has None.                                                *)
(***************************************************************************)
NoAverage == [sum |-> 0, n |-> 0]
NameOf(value) == IF value = Absent THEN "unknown" ELSE value
NameGaps(route) == {gap \in {"provider_missing", "model_missing"} :
                      route[IF gap = "provider_missing" THEN 1 ELSE 2] = "unknown"}

\* _freshness_state, of an entry that was last observed at seen
IsFresh(seen, time) == time - seen <= StaleAfter
AgeGaps(seen, time) == IF IsFresh(seen, time) THEN {} ELSE {"stale_telemetry"}

SummaryRoute(summary) == <<NameOf(summary.provider), NameOf(summary.model)>>

\* _average_numeric_values and _average_precise_cost: a metric is averaged over
\* the attempts that have it, and missing ones are marked; a cost must be complete.
MetricGaps(metric, known, rows) ==
  IF known = {} THEN {metric \o "_unavailable"}
  ELSE IF known # rows THEN {metric \o "_partial"} ELSE {}

\* _attempt_group_entry
AttemptEntry(attempts, route, time) ==
  LET rows  == {i \in DOMAIN attempts : SummaryRoute(attempts[i]) = route}
      timed == {i \in rows : attempts[i].duration # Unknown}
      paid  == {i \in rows : attempts[i].cost # Unknown}
      seen  == Max({attempts[i].ended : i \in rows})
  IN  [attempts |-> Cardinality(rows),
       results  |-> [r \in Results |-> Cardinality({i \in rows : attempts[i].result = r})],
       retries  |-> SumFunction([i \in rows |-> attempts[i].retries]),
       duration |-> [sum |-> SumFunction([i \in timed |-> attempts[i].duration]),
                     n   |-> Cardinality(timed)],
       cost     |-> IF paid # rows THEN NoAverage
                    ELSE [sum |-> SumFunction([i \in paid |-> attempts[i].cost]),
                          n   |-> Cardinality(paid)],
       seen     |-> seen,
       fresh    |-> IsFresh(seen, time),
       gaps     |-> NameGaps(route) \cup MetricGaps("duration_ms", timed, rows)
                      \cup MetricGaps("cost_usd", paid, rows) \cup AgeGaps(seen, time)]

\* build_adaptive_snapshot_from_attempt_summaries
SnapshotOfAttempts(attempts, time) ==
  [route \in {SummaryRoute(attempts[i]) : i \in DOMAIN attempts} |->
     AttemptEntry(attempts, route, time)]

Dimension(record, d) ==
  IF d \in DOMAIN record.dimensions THEN record.dimensions[d] ELSE "unknown"
RecordRoute(record) == <<Dimension(record, "provider"), Dimension(record, "model")>>

\* Mutant: the counts are those of one record, not added up over all of a route.
AggregateEntryOfOne(records, route, time) ==
  LET mine  == {r \in records : RecordRoute(r) = route}
      one   == CHOOSE r \in mine : \A other \in mine : other.end <= r.end
      seen  == one.end
  IN  [attempts |-> one.attempts, results |-> one.results, retries |-> one.retries,
       duration |-> [sum |-> one.duration, n |-> one.attempts],
       cost     |-> IF route[1] = "local" THEN NoAverage ELSE [sum |-> one.cost, n |-> one.attempts],
       seen     |-> seen, fresh |-> IsFresh(seen, time),
       gaps     |-> NameGaps(route) \cup AgeGaps(seen, time)]

\* _aggregate_group_entry, of records that count at least one attempt each
AggregateEntry(records, route, time) ==
  LET mine  == {r \in records : RecordRoute(r) = route}
      total == SumFunction([r \in mine |-> r.attempts])
      seen  == Max({r.end : r \in mine})
  IN  [attempts |-> total,
       results  |-> [res \in Results |-> SumFunction([r \in mine |-> r.results[res]])],
       retries  |-> SumFunction([r \in mine |-> r.retries]),
       duration |-> [sum |-> SumFunction([r \in mine |-> r.duration]), n |-> total],
       cost     |-> IF route[1] = "local" THEN NoAverage
                    ELSE [sum |-> SumFunction([r \in mine |-> r.cost]), n |-> total],
       seen     |-> seen,
       fresh    |-> IsFresh(seen, time),
       gaps     |-> NameGaps(route) \cup AgeGaps(seen, time) \cup
                      (IF route[1] = "local" THEN {"cost_precision_unknown_from_aggregate"} ELSE {})]

\* build_adaptive_snapshot_from_aggregate_records
SnapshotOfRecords(records, time) ==
  [route \in {RecordRoute(r) : r \in records} |-> AggregateEntry(records, route, time)]

(***************************************************************************)
(* Scores, in parts of Scale; the code rounds to six digits.               *)
(***************************************************************************)
Scale == 10000
Share(part, whole) == (Scale * part) \div whole
Positive(n) == IF n < 0 THEN 0 ELSE n

\* _candidate_exclusion_reason
IsEligible(sem, candidate) ==
  /\ candidate.selected /\ Absent \notin {candidate.provider, candidate.model}
  /\ sem.target = "hosted" => candidate.provider # "local"
  /\ sem.target = "local"  => candidate.provider = "local"

\* Mutant: the age of the telemetry is not looked at.
UsesDefaultsUntried(route, snapshot) == route \notin DOMAIN snapshot

\* _should_use_deterministic_defaults
UsesDefaults(route, snapshot) == route \notin DOMAIN snapshot \/ ~snapshot[route].fresh

\* max_known_latency, over the whole snapshot; no entry may have one.
Slowest(snapshot) ==
  LET timed == {snapshot[r].duration : r \in {r \in DOMAIN snapshot : snapshot[r].duration.n > 0}}
  IN  IF timed = {} THEN NoAverage
      ELSE CHOOSE a \in timed : \A b \in timed : b.sum * a.n <= a.sum * b.n

\* Mutant: slower routes get the higher signal.
LatencySignalSwapped(average, slowest) ==
  IF average.n = 0 THEN Scale \div 2
  ELSE IF slowest.sum = 0 THEN Scale
  ELSE Share(average.sum * slowest.n, average.n * slowest.sum)

\* _latency_signal
LatencySignal(average, slowest) ==
  IF average.n = 0 THEN Scale \div 2
  ELSE IF slowest.sum = 0 THEN Scale
  ELSE Positive(Scale - Share(average.sum * slowest.n, average.n * slowest.sum))

MaxKnownCost == Max({0} \cup {c.cost : c \in Offered})

\* _cost_signal: what attempts did cost, or else the estimate of the profile.
CostSignal(candidate, average) ==
  LET known == IF average.n > 0 THEN average ELSE [sum |-> candidate.cost, n |-> 1] IN
  IF MaxKnownCost = 0 THEN Scale
  ELSE Positive(Scale - Share(known.sum, known.n * MaxKnownCost))

\* _capability_fit, in hundredths
CapabilityFit(sem, candidate) ==
  CASE candidate.provider = "local" ->
         IF sem.target = "local" THEN 100
         ELSE IF sem.tools = "none" /\ sem.workType \in {"docs", "chore", "spec"} THEN 90 ELSE 30
    [] candidate.provider # "local" /\ candidate.family = "deep" ->
         IF sem.workType \in {"code", "refactor"} \/ sem.complexity = "high" THEN 100 ELSE 50
    [] candidate.provider # "local" /\ candidate.family = "balanced" ->
         IF sem.platform \in {"ios", "macos"} \/ sem.workType \in {"spec", "tests"} THEN 95 ELSE 75
    [] candidate.provider # "local" /\ candidate.family = "economy" ->
         IF sem.workType \in {"docs", "chore"} /\ sem.complexity # "high" THEN 100 ELSE 45

\* _retry_rate
RetrySignal(entry) ==
  LET rate == Share(entry.retries, entry.attempts) IN IF rate > Scale THEN Scale ELSE rate

\* The signals of a route without telemetry, or with stale telemetry, and of others.
DefaultSignals(candidate) ==
  [success |-> Scale \div 2, failure |-> 0, retry |-> 0, latency |-> Scale \div 2,
   cost |-> CostSignal(candidate, NoAverage)]
TelemetrySignals(candidate, entry, slowest) ==
  [success |-> Share(entry.results["succeeded"], entry.attempts),
   failure |-> Share(entry.results["failed"], entry.attempts),
   retry   |-> RetrySignal(entry),
   latency |-> LatencySignal(entry.duration, slowest),
   cost    |-> CostSignal(candidate, entry.cost)]

\* _score_candidate
Score(sem, candidate, snapshot) ==
  LET route   == RouteOf(candidate)
      signals == IF UsesDefaults(route, snapshot) THEN DefaultSignals(candidate)
                 ELSE TelemetrySignals(candidate, snapshot[route], Slowest(snapshot))
  IN  Weights.success * signals.success - Weights.failure * signals.failure
        - Weights.retry * signals.retry + Weights.latency * signals.latency
        + Weights.cost * signals.cost
        + Weights.fit * ((CapabilityFit(sem, candidate) * Scale) \div 100)

Position(route) == CHOOSE i \in DOMAIN Alphabetical : Alphabetical[i] = route

\* tie_break_key: the score, then the estimate, then the names.
RanksBefore(sem, c, d, snapshot) ==
  LET cScore == Score(sem, c, snapshot)  dScore == Score(sem, d, snapshot) IN
  \/ cScore > dScore
  \/ cScore = dScore /\ c.cost < d.cost
  \/ cScore = dScore /\ c.cost = d.cost /\ Position(RouteOf(c)) < Position(RouteOf(d))

\* select_adaptive_route; a caller that offers no eligible candidate gets an
\* AdaptiveScoringError.
Best(sem, snapshot) ==
  LET eligible == {c \in Offered : IsEligible(sem, c)} IN
  {c \in eligible : \A d \in eligible \ {c} : RanksBefore(sem, c, d, snapshot)}
SelectedRoute(sem, snapshot) == RouteOf(CHOOSE c \in Best(sem, snapshot) : TRUE)

(***************************************************************************)
(* Attempts are recorded as they end, and time passes.                     *)
(***************************************************************************)
Dated(attempt) ==
  [ticket |-> attempt.ticket, provider |-> attempt.provider, model |-> attempt.model,
   result |-> attempt.result, error |-> attempt.error, retries |-> attempt.retries,
   duration |-> attempt.duration, cost |-> attempt.cost,
   started |-> Positive(now - attempt.span), ended |-> now]

RecordAttempt ==
  /\ Len(log) < MaxAttempts
  /\ \E attempt \in Attempts : log' = Append(log, Dated(attempt))
  /\ UNCHANGED now

Wait == now < MaxTime /\ now' = now + 1 /\ UNCHANGED log

Next == RecordAttempt \/ Wait

AdaptiveSpec == Init /\ [][Next]_adaptiveVars

(***************************************************************************)
(* Properties.                                                             *)
(***************************************************************************)
ByRoute == {{"provider", "model"} \cup more : more \in SUBSET {"result", "priority", "error"}}
IsNamed(route) == "unknown" \notin {route[1], route[2]}

(* A snapshot says the same of a route whether it is taken from the log or *)
(* from a report, however much finer than by route the report is grouped:  *)
(* each attempt counts once, the latest one sets the age, and averages     *)
(* agree wherever every attempt reported the metric.                       *)
SourcesAgree ==
  \A groupBy \in ByRoute :
    LET direct == SnapshotOfAttempts(log, now)
        report == SnapshotOfRecords(Aggregate(log, groupBy, NoFilter), now)
    IN  \A route \in {r \in DOMAIN direct : IsNamed(r)} :
          LET a == direct[route]  b == report[route] IN
          /\ route \in DOMAIN report
          /\ <<a.attempts, a.results, a.retries, a.seen, a.fresh>>
               = <<b.attempts, b.results, b.retries, b.seen, b.fresh>>
          /\ a.duration.n = a.attempts => a.duration = b.duration
          /\ a.cost.n = a.attempts /\ route[1] # "local" => a.cost = b.cost

(* Demanding a value and grouping by its dimension tell the same story:    *)
(* for every dimension a filter knows, a report filtered to one value is   *)
(* that value's record of the grouped one, in every window, also for what  *)
(* the metadata of tickets adds to a row.                                  *)
FiltersPickGroups ==
  \A d \in Filterable, from, to \in {Unknown} \cup 0 .. now :
    LET filter(values) == [values |-> values, from |-> from, to |-> to]
        grouped == Aggregate(log, {d}, filter([e \in {} |-> Absent]))
    IN  \A v \in {Row(log[i])[d] : i \in DOMAIN log} \ {Absent} :
          Aggregate(log, {}, filter([e \in {d} |-> v]))
            = {[r EXCEPT !.dimensions = [e \in {} |-> Absent]] :
                 r \in {r \in grouped : r.dimensions[d] = v}}

(* Evidence never counts against its sense.  A success without retries, no *)
(* slower and no dearer than its route has been on average, cannot cost    *)
(* the route its selection; a failure that is no faster and no cheaper     *)
(* cannot win it one.  Both change what every other route's latency is     *)
(* measured by.                                                            *)
LastAttempt == log'[Len(log')]
NoWorse(value, average) == value # Unknown /\ average.n > 0 /\ value * average.n <= average.sum
NoBetter(value, average) == average.n > 0 /\ value * average.n >= average.sum

IsGoodNews(entry) ==
  /\ LastAttempt.result = "succeeded" /\ LastAttempt.retries = 0
  /\ NoWorse(LastAttempt.duration, entry.duration) /\ NoWorse(LastAttempt.cost, entry.cost)
IsBadNews(entry) ==
  /\ LastAttempt.result = "failed"
  /\ LastAttempt.duration = Unknown \/ NoBetter(LastAttempt.duration, entry.duration)
  /\ IF LastAttempt.cost = Unknown THEN entry.cost.n = 0 ELSE NoBetter(LastAttempt.cost, entry.cost)

EvidenceMovesTheRanking ==
  [][\A sem \in Requests :
       LET before == SnapshotOfAttempts(log, now)
           after  == SnapshotOfAttempts(log', now')
           route  == SummaryRoute(LastAttempt)
       IN  log' # log /\ route \in DOMAIN before /\ before[route].fresh =>
             /\ IsGoodNews(before[route]) /\ SelectedRoute(sem, before) = route
                  => SelectedRoute(sem, after) = route
             /\ IsBadNews(before[route]) /\ SelectedRoute(sem, before) # route
                  => SelectedRoute(sem, after) # route]_adaptiveVars

(* Once everything known is stale, tickets are routed as if nothing was.   *)
StaleIsForgotten ==
  \A sem \in Requests :
    LET snapshot == SnapshotOfAttempts(log, now) IN
    (\A route \in DOMAIN snapshot : ~snapshot[route].fresh)
      => SelectedRoute(sem, snapshot) = SelectedRoute(sem, [r \in {} |-> NoAverage])

(* "distinguish between precise metrics and partial or unavailable         *)
(* values" (docs/phase-4-adaptive-dispatch.md), of snapshots from reports. *)
UnknownMetricsAreMarked ==
  LET direct == SnapshotOfAttempts(log, now)
      report == SnapshotOfRecords(Aggregate(log, {"provider", "model"}, NoFilter), now)
  IN  \A route \in {r \in DOMAIN direct : IsNamed(r)} :
        report[route].duration.n > 0 =>
          \/ "duration_ms_unavailable" \notin direct[route].gaps
          \/ "duration_ms_unavailable" \in report[route].gaps
=============================================================================
