-------------------------- MODULE AttemptAnalytics --------------------------
(***************************************************************************)
(* Reports over the log of attempt summaries, the file                     *)
(* attempt-summaries.ndjson: src/higgs_agent/analytics/reporting.py as     *)
(* operators.  Numbers are whole; dates are positions of a clock.          *)
(***************************************************************************)
EXTENDS Integers, Sequences, FiniteSetsExt, Functions

CONSTANT Metadata    \* build_ticket_metadata_index: ticket -> [type, priority]

Absent  == "absent"   \* a text a summary does not have
Unknown == -1         \* a number a summary does not have

Results    == {"succeeded", "failed", "blocked", "skipped"}
Dimensions == {"provider", "model", "result", "error", "type", "priority"}
Filterable == Dimensions \ {"error"}   \* the texts an AnalyticsFilter can demand

\* An attempt summary, with the fields a report or a snapshot is made of; duration
\* is duration_ms or else usage.latency_ms, which AttemptSummaryBuilder makes equal.
AttemptSummaries ==
  [ticket : STRING, provider : STRING, model : STRING, result : Results, error : STRING,
   retries : Nat, duration : Nat \cup {Unknown},
   cost : Nat \cup {Unknown}, started : Nat, ended : Nat]

OrZero(value) == IF value = Unknown THEN 0 ELSE value

\* _enrich_summary: what is not known of an attempt is counted as nothing.
Row(summary) ==
  LET known == summary.ticket \in DOMAIN Metadata IN
  [ticket   |-> summary.ticket,   provider |-> summary.provider,
   model    |-> summary.model,    result   |-> summary.result,   error |-> summary.error,
   type     |-> IF known THEN Metadata[summary.ticket].type ELSE Absent,
   priority |-> IF known THEN Metadata[summary.ticket].priority ELSE "p2",
   retries  |-> summary.retries,  duration |-> OrZero(summary.duration),
   cost     |-> OrZero(summary.cost), started |-> summary.started, ended |-> summary.ended]

(***************************************************************************)
(* An AnalyticsFilter is the values it demands and a window; Unknown is no *)
(* bound.                                                                  *)
(***************************************************************************)
NoFilter == [values |-> [d \in {} |-> Absent], from |-> Unknown, to |-> Unknown]

\* Mutant: a demanded value that is found ends the test, before the window.
MatchesEarly(row, filter) ==
  IF DOMAIN filter.values # {}
  THEN \A d \in DOMAIN filter.values : row[d] = filter.values[d]
  ELSE /\ filter.from # Unknown => row.started >= filter.from
       /\ filter.to # Unknown => row.ended <= filter.to

\* _matches_filter: a window takes attempts that lie in it from start to end.
Matches(row, filter) ==
  /\ \A d \in DOMAIN filter.values : row[d] = filter.values[d]
  /\ filter.from # Unknown => row.started >= filter.from
  /\ filter.to # Unknown => row.ended <= filter.to

FilteredRows(log, filter) == {i \in DOMAIN log : Matches(Row(log[i]), filter)}

\* str(None) is a group like any other.
Text(value) == IF value = Absent THEN "None" ELSE value
GroupKey(row, groupBy) == [d \in groupBy |-> Text(row[d])]

Total(log, rows, field) == SumFunction([i \in rows |-> Row(log[i])[field]])

\* _build_aggregate_record of the rows of one group
AggregateRecord(log, rows, key, filter) ==
  [dimensions |-> key,
   attempts   |-> Cardinality(rows),
   tickets    |-> Cardinality({log[i].ticket : i \in rows}),
   results    |-> [r \in Results |-> Cardinality({i \in rows : log[i].result = r})],
   retries    |-> Total(log, rows, "retries"),
   duration   |-> Total(log, rows, "duration"),
   cost       |-> Total(log, rows, "cost"),
   end        |-> IF filter.to # Unknown THEN filter.to ELSE Max({log[i].ended : i \in rows})]

\* aggregate_attempt_summaries
Aggregate(log, groupBy, filter) ==
  LET rows == FilteredRows(log, filter)
      key(i) == GroupKey(Row(log[i]), groupBy)
  IN  {AggregateRecord(log, {i \in rows : key(i) = k}, k, filter) : k \in {key(i) : i \in rows}}
=============================================================================
