------------------------ MODULE AdaptiveDispatch_proofs ------------------------
(***************************************************************************)
(* Theorems about reports and rankings, for any candidates, attempts and   *)
(* weights.                                                                *)
(***************************************************************************)
EXTENDS AdaptiveDispatch, CollectionTheorems, TLAPS

(***************************************************************************)
(* The log.                                                                *)
(***************************************************************************)
DatedAt(attempt, time) ==
  [ticket |-> attempt.ticket, provider |-> attempt.provider, model |-> attempt.model,
   result |-> attempt.result, error |-> attempt.error, retries |-> attempt.retries,
   duration |-> attempt.duration, cost |-> attempt.cost,
   started |-> Positive(time - attempt.span), ended |-> time]
Logged == {DatedAt(attempt, time) : attempt \in Attempts, time \in Nat}

AdaptiveInvariant == log \in Seq(Logged) /\ now \in Nat

(* The log holds attempts as they ended (AttemptSummaryBuilder.build).     *)
THEOREM AdaptiveInvariance == AdaptiveSpec => []AdaptiveInvariant
PROOF
<1>1. Init => AdaptiveInvariant
  BY DEF Init, AdaptiveInvariant
<1>2. AdaptiveInvariant /\ [Next]_adaptiveVars => AdaptiveInvariant'
  <2> SUFFICES ASSUME AdaptiveInvariant, [Next]_adaptiveVars PROVE AdaptiveInvariant'
    OBVIOUS
  <2> USE DEF AdaptiveInvariant
  <2>1. CASE RecordAttempt
    <3>1. PICK attempt \in Attempts : log' = Append(log, Dated(attempt))
      BY <2>1 DEF RecordAttempt
    <3>2. Dated(attempt) = DatedAt(attempt, now)
      BY DEF Dated, DatedAt
    <3>3. DatedAt(attempt, now) \in Logged
      BY DEF Logged
    <3> QED
      BY <2>1, <3>1, <3>2, <3>3 DEF RecordAttempt
  <2>2. CASE Wait
    BY <2>2 DEF Wait
  <2>3. CASE UNCHANGED adaptiveVars
    BY <2>3 DEF adaptiveVars
  <2> QED
    BY <2>1, <2>2, <2>3 DEF Next
<1> QED
  BY <1>1, <1>2, PTL DEF AdaptiveSpec

(***************************************************************************)
(* Filters and groups.                                                     *)
(***************************************************************************)
\* The text of a value tells it from every other one.
LEMMA TextsDiffer ==
  ASSUME AdaptiveInvariant, NEW i \in DOMAIN log, NEW d \in Dimensions
  PROVE  Row(log[i])[d] # "None"
PROOF
<1>1. PICK attempt \in Attempts, time \in Nat : log[i] = DatedAt(attempt, time)
  <2>1. log[i] \in Logged
    BY DEF AdaptiveInvariant
  <2> QED
    BY <2>1 DEF Logged
<1>2. /\ log[i].provider = attempt.provider /\ log[i].model = attempt.model
      /\ log[i].result = attempt.result /\ log[i].error = attempt.error
      /\ log[i].ticket = attempt.ticket
  BY <1>1 DEF DatedAt
<1>3. "None" \notin {log[i].provider, log[i].model, log[i].result, log[i].error}
  BY <1>2, NamesAssumption
<1>4. /\ Row(log[i]).type # "None" /\ Row(log[i]).priority # "None"
      /\ Row(log[i]).provider = log[i].provider /\ Row(log[i]).model = log[i].model
      /\ Row(log[i]).result = log[i].result /\ Row(log[i]).error = log[i].error
  BY NamesAssumption DEF Row, Absent
<1> QED
  BY <1>3, <1>4 DEF Dimensions

Windowed(values, from, to) == [values |-> values, from |-> from, to |-> to]
NoValues == [e \in {} |-> Absent]
Valued(d, v, from, to) == Windowed([e \in {d} |-> v], from, to)
Unvalued(from, to)     == Windowed(NoValues, from, to)
GroupOf(d, k, from, to) ==
  {i \in FilteredRows(log, Unvalued(from, to)) : GroupKey(Row(log[i]), {d}) = k}
RecordOf(d, v, from, to) ==
  {[r EXCEPT !.dimensions = NoValues] :
     r \in {r \in Aggregate(log, {d}, Unvalued(from, to)) : r.dimensions[d] = v}}

\* The rows of a window with a value are the group of that value in the window.
LEMMA GroupOfValue ==
  ASSUME AdaptiveInvariant, NEW d \in Dimensions, NEW from, NEW to, NEW v, v # Absent, v # "None",
         NEW j \in DOMAIN log, Text(Row(log[j])[d]) = v
  PROVE  /\ Row(log[j])[d] = v
         /\ FilteredRows(log, Valued(d, v, from, to))
              = GroupOf(d, GroupKey(Row(log[j]), {d}), from, to)
PROOF
<1>1. \A i \in DOMAIN log : Text(Row(log[i])[d]) = v <=> Row(log[i])[d] = v
  BY DEF Text
<1>2. \A i \in DOMAIN log :
        GroupKey(Row(log[i]), {d}) = GroupKey(Row(log[j]), {d}) <=> Text(Row(log[i])[d]) = v
  BY DEF GroupKey
<1>3. \A i \in DOMAIN log :
        Matches(Row(log[i]), Valued(d, v, from, to))
          <=> Row(log[i])[d] = v /\ Matches(Row(log[i]), Unvalued(from, to))
  BY DEF Matches, Windowed, NoValues, Valued, Unvalued
<1> QED
  BY <1>1, <1>2, <1>3 DEF FilteredRows, GroupOf

\* What a record says, apart from the name of its group, is said by its rows.
LEMMA RecordsOfRows ==
  ASSUME NEW rows, NEW k, NEW l, NEW f, NEW g, f.to = g.to
  PROVE  AggregateRecord(log, rows, l, g)
           = [AggregateRecord(log, rows, k, f) EXCEPT !.dimensions = l]
PROOF
<1> DEFINE attempts == Cardinality(rows)
           tickets  == Cardinality({log[i].ticket : i \in rows})
           results  == [r \in Results |-> Cardinality({i \in rows : log[i].result = r})]
           retries  == Total(log, rows, "retries")
           duration == Total(log, rows, "duration")
           cost     == Total(log, rows, "cost")
           end(to)  == IF to # Unknown THEN to ELSE Max({log[i].ended : i \in rows})
           Record(key, to) ==
             [dimensions |-> key, attempts |-> attempts, tickets |-> tickets, results |-> results,
              retries |-> retries, duration |-> duration, cost |-> cost, end |-> end(to)]
<1>1. /\ AggregateRecord(log, rows, k, f) = Record(k, f.to)
      /\ AggregateRecord(log, rows, l, g) = Record(l, f.to)
  BY Zenon DEF AggregateRecord
<1> HIDE DEF attempts, tickets, results, retries, duration, cost, end
<1>2. Record(l, f.to) = [Record(k, f.to) EXCEPT !.dimensions = l]
  OBVIOUS
<1> HIDE DEF Record
<1> QED
  BY <1>1, <1>2

\* The filtered report has the one record of its value, if there is any row.
LEMMA FilteredReport ==
  ASSUME AdaptiveInvariant, NEW d \in Dimensions, NEW from, NEW to,
         NEW v, v # Absent, v # "None"
  PROVE  Aggregate(log, {}, Valued(d, v, from, to)) = RecordOf(d, v, from, to)
PROOF
<1> DEFINE f == Unvalued(from, to)
           g == Valued(d, v, from, to)
           rows == FilteredRows(log, f)
           picked == FilteredRows(log, g)
           Group(k) == GroupOf(d, k, from, to)
           Found == RecordOf(d, v, from, to)
<1>1. f.to = to /\ g.to = to
  BY DEF Windowed, Valued, Unvalued
<1>2. \A i : GroupKey(Row(log[i]), {}) = NoValues
  BY DEF GroupKey, NoValues
<1>3. rows \subseteq DOMAIN log /\ picked \subseteq DOMAIN log
  BY DEF FilteredRows
<1>4. \A j \in rows : Text(Row(log[j])[d]) = v =>
        picked = Group(GroupKey(Row(log[j]), {d})) /\ j \in picked
  <2> TAKE j \in rows
  <2> HAVE Text(Row(log[j])[d]) = v
  <2>1. picked = Group(GroupKey(Row(log[j]), {d}))
    <3>1. j \in DOMAIN log
      BY <1>3
    <3> QED
      BY <3>1, GroupOfValue
  <2> QED
    BY <2>1 DEF GroupOf
<1>5. \A j \in picked : j \in rows /\ Text(Row(log[j])[d]) = v
  BY DEF FilteredRows, Matches, Windowed, NoValues, Text, Valued, Unvalued
<1>6. \A j : GroupKey(Row(log[j]), {d})[d] = Text(Row(log[j])[d])
  BY DEF GroupKey
<1>7. Aggregate(log, {d}, f)
        = {AggregateRecord(log, Group(k), k, f) : k \in {GroupKey(Row(log[i]), {d}) : i \in rows}}
  BY DEF Aggregate, GroupOf
<1>8. Aggregate(log, {}, g)
        = {AggregateRecord(log, {i \in picked : GroupKey(Row(log[i]), {}) = k}, k, g) :
             k \in {GroupKey(Row(log[i]), {}) : i \in picked}}
  BY DEF Aggregate
<1>9. Aggregate(log, {}, g)
        = IF picked = {} THEN {} ELSE {AggregateRecord(log, picked, NoValues, g)}
  <2>1. CASE picked = {}
    BY <1>8, <2>1
  <2>2. CASE picked # {}
    <3>1. {GroupKey(Row(log[i]), {}) : i \in picked} = {NoValues}
      BY <1>2, <2>2
    <3>2. {i \in picked : GroupKey(Row(log[i]), {}) = NoValues} = picked
      BY <1>2
    <3> HIDE DEF picked, g
    <3> QED
      BY <1>8, <2>2, <3>1, <3>2
  <2> QED
    BY <2>1, <2>2
<1>10. \A rowSet, k : AggregateRecord(log, rowSet, k, f).dimensions = k
  BY DEF AggregateRecord
<1> HIDE DEF f, g, rows, picked, Found
<1>11. ASSUME picked = {} PROVE Found = {}
  <2> SUFFICES ASSUME NEW r \in Aggregate(log, {d}, f), r.dimensions[d] = v PROVE FALSE
    BY DEF f, RecordOf, Found
  <2>1. PICK j \in rows : r = AggregateRecord(log, Group(GroupKey(Row(log[j]), {d})),
                                              GroupKey(Row(log[j]), {d}), f)
    BY <1>7
  <2>2. Text(Row(log[j])[d]) = v
    BY <1>6, <1>10, <2>1
  <2> QED
    BY <1>4, <1>11, <2>2
<1>12. ASSUME picked # {} PROVE Found = {AggregateRecord(log, picked, NoValues, g)}
  <2>1. PICK j \in picked : TRUE
    BY <1>12
  <2> DEFINE k == GroupKey(Row(log[j]), {d})
             mine == AggregateRecord(log, picked, k, f)
  <2>2. j \in rows /\ Text(Row(log[j])[d]) = v /\ picked = Group(k)
    BY <1>4, <1>5
  <2>3. mine \in Aggregate(log, {d}, f) /\ mine.dimensions[d] = v
    BY <1>6, <1>7, <1>10, <2>2
  <2>4. [mine EXCEPT !.dimensions = NoValues] = AggregateRecord(log, picked, NoValues, g)
    BY <1>1, RecordsOfRows
  <2>5. ASSUME NEW r \in Aggregate(log, {d}, f), r.dimensions[d] = v PROVE r = mine
    <3>1. PICK i \in rows : r = AggregateRecord(log, Group(GroupKey(Row(log[i]), {d})),
                                                GroupKey(Row(log[i]), {d}), f)
      BY <1>7
    <3>2. Text(Row(log[i])[d]) = v
      BY <1>6, <1>10, <2>5, <3>1
    <3>3. picked = Group(GroupKey(Row(log[i]), {d})) /\ i \in picked
      BY <1>4, <3>2
    <3>4. GroupKey(Row(log[i]), {d}) = k
      BY <3>3 DEF GroupOf
    <3> QED
      BY <3>1, <3>3, <3>4
  <2> HIDE DEF mine
  <2> QED
    BY <2>3, <2>4, <2>5 DEF Found, f, RecordOf
<1>13. Aggregate(log, {}, g) = Found
  BY <1>9, <1>11, <1>12
<1> QED
  BY <1>13 DEF g, Found

(* FiltersPickGroups: for any log, window and dimension a filter knows, a  *)
(* report filtered to one value is that value's record of the grouped one  *)
(* (aggregate_attempt_summaries).                                          *)
THEOREM FilterSafety == AdaptiveSpec => []FiltersPickGroups
PROOF
<1>1. AdaptiveInvariant => FiltersPickGroups
  <2> SUFFICES ASSUME AdaptiveInvariant PROVE FiltersPickGroups
    OBVIOUS
  <2>1. \A d \in Dimensions : \A v \in {Row(log[i])[d] : i \in DOMAIN log} : v # "None"
    BY TextsDiffer
  <2>2. \A d \in Dimensions, from, to \in {Unknown} \cup 0 .. now :
          \A v \in {Row(log[i])[d] : i \in DOMAIN log} \ {Absent} :
            Aggregate(log, {}, Valued(d, v, from, to)) = RecordOf(d, v, from, to)
    BY <2>1, FilteredReport
  <2> QED
    BY <2>2 DEF FiltersPickGroups, Filterable, Valued, RecordOf, Unvalued, Windowed, NoValues
<1> QED
  BY <1>1, AdaptiveInvariance, PTL

(***************************************************************************)
(* Stale telemetry.                                                        *)
(***************************************************************************)
(* StaleIsForgotten: whatever stale telemetry says, a ticket is routed as  *)
(* if nothing was known (_should_use_deterministic_defaults).              *)
THEOREM StaleSafety == AdaptiveSpec => []StaleIsForgotten
PROOF
<1>1. StaleIsForgotten
  <2> SUFFICES ASSUME NEW sem \in Requests, NEW snapshot,
                      snapshot = SnapshotOfAttempts(log, now),
                      \A route \in DOMAIN snapshot : ~snapshot[route].fresh
               PROVE  SelectedRoute(sem, snapshot) = SelectedRoute(sem, [r \in {} |-> NoAverage])
    BY DEF StaleIsForgotten
  <2> DEFINE nothing == [r \in {} |-> NoAverage]
  <2>1. \A c : UsesDefaults(RouteOf(c), snapshot) /\ UsesDefaults(RouteOf(c), nothing)
    BY DEF UsesDefaults
  <2> HIDE DEF nothing
  <2>2. \A c : Score(sem, c, snapshot) = Score(sem, c, nothing)
    BY <2>1 DEF Score
  <2>3. \A c, d : RanksBefore(sem, c, d, snapshot) <=> RanksBefore(sem, c, d, nothing)
    BY <2>2 DEF RanksBefore
  <2>4. Best(sem, snapshot) = Best(sem, nothing)
    BY <2>3 DEF Best
  <2>5. SelectedRoute(sem, snapshot) = SelectedRoute(sem, nothing)
    BY <2>4, Zenon DEF SelectedRoute
  <2> QED
    BY <2>5 DEF nothing
<1> QED
  BY <1>1, PTL
(***************************************************************************)
(* Sources.  The rows of a route are cut into blocks by a finer grouping,  *)
(* one for each record of the report that has the route.                   *)
(***************************************************************************)
RowsOf(route) == {i \in DOMAIN log : SummaryRoute(log[i]) = route}
Key(i, groupBy) == GroupKey(Row(log[i]), groupBy)
Block(r, groupBy) == {i \in DOMAIN log : Key(i, groupBy) = r.dimensions}
Report(groupBy) == Aggregate(log, groupBy, NoFilter)
Mine(route, groupBy) == {r \in Report(groupBy) : RecordRoute(r) = route}
RecordAt(i, groupBy) ==
  AggregateRecord(log, {j \in DOMAIN log : Key(j, groupBy) = Key(i, groupBy)}, Key(i, groupBy), NoFilter)

LEMMA LoggedValues ==
  ASSUME AdaptiveInvariant, NEW i \in DOMAIN log
  PROVE  /\ log[i].retries \in Nat /\ log[i].ended \in Nat
         /\ log[i].duration \in Nat \cup {Unknown} /\ log[i].cost \in Nat \cup {Unknown}
         /\ log[i].provider # "None" /\ log[i].model # "None"
PROOF
<1>1. PICK attempt \in Attempts, time \in Nat : log[i] = DatedAt(attempt, time)
  <2>1. log[i] \in Logged
    BY DEF AdaptiveInvariant
  <2> QED
    BY <2>1 DEF Logged
<1> QED
  BY <1>1, NamesAssumption DEF DatedAt

LEMMA LogIsFinite ==
  ASSUME AdaptiveInvariant
  PROVE  IsFiniteSet(DOMAIN log)
PROOF
<1>1. DOMAIN log = 1 .. Len(log) /\ Len(log) \in Nat
  BY DEF AdaptiveInvariant
<1> QED
  BY <1>1, FS_Interval

\* A report without a filter has the record of each attempt's group.
LEMMA ReportOfAll ==
  ASSUME NEW groupBy
  PROVE  Report(groupBy) = {RecordAt(i, groupBy) : i \in DOMAIN log}
PROOF
<1>1. \A i : Matches(Row(log[i]), NoFilter)
  BY DEF Matches, NoFilter
<1>2. FilteredRows(log, NoFilter) = DOMAIN log
  BY <1>1 DEF FilteredRows
<1>3. Report(groupBy)
        = {AggregateRecord(log, {j \in DOMAIN log : Key(j, groupBy) = k}, k, NoFilter) :
             k \in {Key(i, groupBy) : i \in DOMAIN log}}
  BY <1>2 DEF Aggregate, Report, Key
<1> QED
  BY <1>3 DEF RecordAt

\* The names of a report and of a snapshot tell the same routes apart.
LEMMA NamesOfRoutes ==
  ASSUME AdaptiveInvariant, NEW groupBy, {"provider", "model"} \subseteq groupBy,
         NEW route \in {SummaryRoute(log[i]) : i \in DOMAIN log}, IsNamed(route),
         NEW i \in DOMAIN log
  PROVE  RecordRoute(RecordAt(i, groupBy)) = route <=> SummaryRoute(log[i]) = route
PROOF
<1>1. PICK j \in DOMAIN log : route = SummaryRoute(log[j])
  OBVIOUS
<1>2. RecordAt(i, groupBy).dimensions = Key(i, groupBy)
  BY DEF RecordAt, AggregateRecord
<1>3. RecordRoute(RecordAt(i, groupBy)) = <<Text(log[i].provider), Text(log[i].model)>>
  BY <1>2 DEF RecordRoute, Dimension, Key, GroupKey, Row
<1>4. /\ \A value : NameOf(value) # "unknown" => NameOf(value) = value
      /\ \A value, other : NameOf(value) # "unknown" /\ NameOf(value) # "None"
           => (Text(other) = NameOf(value) <=> NameOf(other) = NameOf(value))
  BY DEF NameOf, Text, Absent
<1>5. /\ NameOf(log[j].provider) # "unknown" /\ NameOf(log[j].model) # "unknown"
      /\ route = <<NameOf(log[j].provider), NameOf(log[j].model)>>
  BY <1>1 DEF IsNamed, SummaryRoute
<1>6. NameOf(log[j].provider) # "None" /\ NameOf(log[j].model) # "None"
  BY <1>4, <1>5, LoggedValues
<1> QED
  BY <1>3, <1>4, <1>5, <1>6 DEF SummaryRoute

IsCut(route, groupBy) ==
  /\ IsFiniteSet(RowsOf(route)) /\ RowsOf(route) # {} /\ RowsOf(route) \subseteq DOMAIN log
  /\ IsFiniteSet(Mine(route, groupBy)) /\ Mine(route, groupBy) # {}
  /\ \A r \in Mine(route, groupBy) :
       /\ Block(r, groupBy) \subseteq RowsOf(route) /\ Block(r, groupBy) # {}
       /\ r = AggregateRecord(log, Block(r, groupBy), r.dimensions, NoFilter)
  /\ \A r, s \in Mine(route, groupBy) : r # s => Block(r, groupBy) \cap Block(s, groupBy) = {}
  /\ UNION {Block(r, groupBy) : r \in Mine(route, groupBy)} = RowsOf(route)

LEMMA ReportBlocks ==
  ASSUME AdaptiveInvariant, NEW groupBy, {"provider", "model"} \subseteq groupBy,
         NEW route \in {SummaryRoute(log[i]) : i \in DOMAIN log}, IsNamed(route)
  PROVE  IsCut(route, groupBy)
PROOF
<1> DEFINE rows == RowsOf(route)
           mine == Mine(route, groupBy)
           At(i) == RecordAt(i, groupBy)
<1>1. \A i \in DOMAIN log : RecordRoute(At(i)) = route <=> i \in rows
  BY NamesOfRoutes DEF RowsOf
<1>2. mine = {At(i) : i \in rows}
  <2>1. rows \subseteq DOMAIN log
    BY DEF RowsOf
  <2> HIDE DEF rows, At
  <2>2. Report(groupBy) = {At(i) : i \in DOMAIN log}
    BY ReportOfAll DEF At
  <2> QED
    BY <1>1, <2>1, <2>2 DEF Mine
<1>3. \A i : At(i).dimensions = Key(i, groupBy)
  BY DEF RecordAt, AggregateRecord
<1>4. \A i : Block(At(i), groupBy) = {j \in DOMAIN log : Key(j, groupBy) = Key(i, groupBy)}
  BY <1>3 DEF Block
<1>5. \A i : At(i) = AggregateRecord(log, Block(At(i), groupBy), At(i).dimensions, NoFilter)
  BY <1>3, <1>4, Zenon DEF RecordAt
<1>6. \A i, j \in DOMAIN log : Key(i, groupBy) = Key(j, groupBy) => At(i) = At(j)
  BY DEF RecordAt
<1>7. rows # {} /\ rows \subseteq DOMAIN log
  BY DEF RowsOf
<1>8. IsFiniteSet(rows)
  BY <1>7, LogIsFinite, FS_Subset
<1>9. IsFiniteSet(mine) /\ mine # {}
  <2> DEFINE f == [i \in rows |-> At(i)]
  <2>1. mine = {f[i] : i \in rows}
    BY <1>2
  <2> HIDE DEF f, rows, mine
  <2> QED
    BY <1>7, <1>8, <2>1, FiniteValues
<1> HIDE DEF rows, mine, At
<1>10. \A i \in rows : Block(At(i), groupBy) \subseteq rows /\ i \in Block(At(i), groupBy)
  <2> SUFFICES ASSUME NEW i \in rows, NEW j \in Block(At(i), groupBy) PROVE j \in rows
    BY <1>4, <1>7
  <2>1. j \in DOMAIN log /\ Key(j, groupBy) = Key(i, groupBy)
    BY <1>4
  <2> QED
    BY <1>1, <1>6, <1>7, <2>1
<1>11. \A r, s \in mine : r # s => Block(r, groupBy) \cap Block(s, groupBy) = {}
  <2> SUFFICES ASSUME NEW i \in rows, NEW j \in rows, At(i) # At(j),
                      NEW k \in Block(At(i), groupBy), k \in Block(At(j), groupBy)
               PROVE  FALSE
    BY <1>2
  <2>1. Key(k, groupBy) = Key(i, groupBy) /\ Key(k, groupBy) = Key(j, groupBy)
    BY <1>4
  <2> QED
    BY <1>6, <1>7, <2>1
<1>12. UNION {Block(r, groupBy) : r \in mine} = rows
  BY <1>2, <1>10
<1>13. \A r \in mine :
         /\ Block(r, groupBy) \subseteq rows /\ Block(r, groupBy) # {}
         /\ r = AggregateRecord(log, Block(r, groupBy), r.dimensions, NoFilter)
  BY <1>2, <1>5, <1>10
<1> QED
  BY <1>7, <1>8, <1>9, <1>11, <1>12, <1>13 DEF IsCut, rows, mine
LEMMA SumFunctionIsSum ==
  ASSUME NEW f
  PROVE  SumFunction(f) = SumOf(f, DOMAIN f)
PROOF
BY Zenon DEF SumFunction, SumFunctionOnSet, FoldFunctionOnSet, SumOf, MapThenSumSet

LEMMA SumOver ==
  ASSUME NEW S, IsFiniteSet(S), NEW f, NEW g, DOMAIN g = S, \A i \in S : g[i] = f[i]
  PROVE  SumFunction(g) = SumOf(f, S)
PROOF
BY SumFunctionIsSum, SumsOfEquals

\* What the blocks of some of the rows of a route count adds up to their count.
LEMMA BlocksAddUp ==
  ASSUME NEW route, NEW groupBy, IsCut(route, groupBy),
         NEW W \in SUBSET RowsOf(route), NEW f, \A i \in W : f[i] \in Int,
         NEW F, DOMAIN F = Mine(route, groupBy),
         \A r \in Mine(route, groupBy) : F[r] = SumOf(f, Block(r, groupBy) \cap W)
  PROVE  SumFunction(F) = SumOf(f, W)
PROOF
<1> DEFINE mine == Mine(route, groupBy)
           part == [r \in mine |-> Block(r, groupBy) \cap W]
<1>1. Summable(f, W)
  BY FS_Subset DEF Summable, IsCut
<1>2. part \in [mine -> SUBSET W]
  OBVIOUS
<1>3. \A r, s \in mine : r # s => part[r] \cap part[s] = {}
  BY DEF IsCut
<1>4. \A r \in mine : F[r] = SumOf(f, part[r])
  OBVIOUS
<1>5. UNION {part[r] : r \in mine} = W
  <2>1. UNION {Block(r, groupBy) : r \in mine} = RowsOf(route)
    BY DEF IsCut
  <2> HIDE DEF mine
  <2>2. \A r \in mine : part[r] = Block(r, groupBy) \cap W
    OBVIOUS
  <2> HIDE DEF part
  <2> QED
    BY <2>1, <2>2
<1>6. IsFiniteSet(mine)
  BY DEF IsCut
<1> HIDE DEF part
<1>7. SumOf(F, mine) = SumOf(f, W)
  <2> HIDE DEF mine
  <2>1. SumOf(F, mine) = SumOf(f, UNION {part[r] : r \in mine})
    BY <1>1, <1>2, <1>3, <1>4, <1>6, SumOfBlocks
  <2> QED
    BY <1>5, <2>1
<1> QED
  BY <1>7, SumFunctionIsSum

\* The sizes of the blocks of some of the rows of a route add up to their number.
LEMMA SizesAddUp ==
  ASSUME NEW route, NEW groupBy, IsCut(route, groupBy), NEW W \in SUBSET RowsOf(route),
         NEW F, DOMAIN F = Mine(route, groupBy),
         \A r \in Mine(route, groupBy) : F[r] = Cardinality(Block(r, groupBy) \cap W)
  PROVE  SumFunction(F) = Cardinality(W)
PROOF
<1> DEFINE ones == [i \in W |-> 1]
<1>1. IsFiniteSet(W) /\ \A T \in SUBSET W : IsFiniteSet(T)
  BY FS_Subset DEF IsCut
<1>2. \A i \in W : ones[i] = 1
  OBVIOUS
<1> HIDE DEF ones
<1>3. \A T \in SUBSET W : SumOf(ones, T) = Cardinality(T)
  BY <1>1, <1>2, SizeIsASum
<1>4. \A r \in Mine(route, groupBy) : F[r] = SumOf(ones, Block(r, groupBy) \cap W)
  BY <1>3
<1>5. SumFunction(F) = SumOf(ones, W)
  BY <1>2, <1>4, BlocksAddUp
<1> QED
  BY <1>3, <1>5

\* The totals of a field, when it is known of every attempt of the route.
LEMMA TotalsAddUp ==
  ASSUME NEW route, NEW groupBy, IsCut(route, groupBy),
         NEW field, NEW f, DOMAIN f = RowsOf(route),
         \A i \in RowsOf(route) : f[i] \in Int /\ Row(log[i])[field] = f[i],
         NEW F, DOMAIN F = Mine(route, groupBy),
         \A r \in Mine(route, groupBy) : F[r] = Total(log, Block(r, groupBy), field)
  PROVE  SumFunction(f) = SumFunction(F)
PROOF
<1> DEFINE rows == RowsOf(route)
           Values(r) == [i \in Block(r, groupBy) |-> Row(log[i])[field]]
<1>1. \A r \in Mine(route, groupBy) :
        /\ Block(r, groupBy) \subseteq rows /\ IsFiniteSet(Block(r, groupBy))
        /\ Block(r, groupBy) \cap rows = Block(r, groupBy)
  <2> TAKE r \in Mine(route, groupBy)
  <2>1. Block(r, groupBy) \subseteq rows /\ IsFiniteSet(rows)
    BY DEF IsCut
  <2>2. IsFiniteSet(Block(r, groupBy))
    BY <2>1, FS_Subset
  <2> QED
    BY <2>1, <2>2
<1>2. \A r \in Mine(route, groupBy) : F[r] = SumFunction(Values(r))
  BY DEF Total
<1>3. \A r \in Mine(route, groupBy) :
        SumFunction(Values(r)) = SumOf(f, Block(r, groupBy) \cap rows)
  <2> TAKE r \in Mine(route, groupBy)
  <2>1. DOMAIN Values(r) = Block(r, groupBy) /\ \A i \in Block(r, groupBy) : Values(r)[i] = f[i]
    BY <1>1
  <2> HIDE DEF Values
  <2> QED
    BY <1>1, <2>1, SumOver
<1>4. SumFunction(F) = SumOf(f, rows)
  <2> HIDE DEF Values
  <2> QED
    BY <1>2, <1>3, BlocksAddUp
<1> QED
  BY <1>4, SumFunctionIsSum

\* The last attempt of a route is the last of the last ones of its blocks.
LEMMA EndsAddUp ==
  ASSUME AdaptiveInvariant, NEW route, NEW groupBy, IsCut(route, groupBy)
  PROVE  Max({r.end : r \in Mine(route, groupBy)}) = Max({log[i].ended : i \in RowsOf(route)})
PROOF
<1> DEFINE mine == Mine(route, groupBy)
           block == [r \in mine |-> Block(r, groupBy)]
           f == [i \in RowsOf(route) |-> log[i].ended]
           F == [r \in mine |-> r.end]
<1>1. \A i \in RowsOf(route) : f[i] = log[i].ended /\ f[i] \in Int
  BY LoggedValues DEF IsCut
<1>2. \A r \in mine : r.end = Max({log[i].ended : i \in Block(r, groupBy)})
  <2> TAKE r \in mine
  <2>1. r = AggregateRecord(log, Block(r, groupBy), r.dimensions, NoFilter)
    BY DEF IsCut
  <2>2. AggregateRecord(log, Block(r, groupBy), r.dimensions, NoFilter).end
          = Max({log[i].ended : i \in Block(r, groupBy)})
    BY DEF AggregateRecord, NoFilter, Unknown
  <2> QED
    BY <2>1, <2>2
<1>3. /\ block \in [mine -> SUBSET RowsOf(route)]
      /\ \A r \in mine : block[r] # {} /\ block[r] = Block(r, groupBy)
      /\ mine # {}
  BY DEF IsCut
<1>4. UNION {block[r] : r \in mine} = RowsOf(route)
  <2>1. UNION {Block(r, groupBy) : r \in mine} = RowsOf(route)
    BY DEF IsCut
  <2> HIDE DEF mine, block
  <2> QED
    BY <1>3, <2>1
<1>5. \A r \in mine : F[r] = r.end
  OBVIOUS
<1> HIDE DEF mine, block, f, F
<1>6. \A r \in mine : {log[i].ended : i \in block[r]} = {f[i] : i \in block[r]}
  BY <1>1, <1>3
<1>7. \A r \in mine : F[r] = Largest(f, block[r])
  BY <1>2, <1>3, <1>5, <1>6 DEF Largest
<1>8. Largest(F, mine) = Largest(f, RowsOf(route))
  <2>1. IsFiniteSet(RowsOf(route)) /\ RowsOf(route) # {}
    BY DEF IsCut
  <2>2. \A i \in RowsOf(route) : f[i] \in Int
    BY <1>1
  <2>3. Covers(block, mine, RowsOf(route)) /\ mine # {}
    BY <1>3, <1>4 DEF Covers
  <2> QED
    BY <1>7, <2>1, <2>2, <2>3, LargestOfParts
<1>9. {F[r] : r \in mine} = {r.end : r \in mine}
  BY <1>5
<1>10. {f[i] : i \in RowsOf(route)} = {log[i].ended : i \in RowsOf(route)}
  BY <1>1
<1> QED
  BY <1>8, <1>9, <1>10 DEF mine, Largest
\* What an entry says, in terms of the rows of the route and of its records.
Timed(route) == {i \in RowsOf(route) : log[i].duration # Unknown}
Paid(route)  == {i \in RowsOf(route) : log[i].cost # Unknown}

CountsRows(a, route) ==
  /\ a.attempts = Cardinality(RowsOf(route))
  /\ a.results = [res \in Results |-> Cardinality({i \in RowsOf(route) : log[i].result = res})]
  /\ a.retries = SumFunction([i \in RowsOf(route) |-> log[i].retries])
  /\ a.duration = [sum |-> SumFunction([i \in Timed(route) |-> log[i].duration]),
                   n   |-> Cardinality(Timed(route))]
  /\ a.cost = IF Paid(route) # RowsOf(route) THEN NoAverage
              ELSE [sum |-> SumFunction([i \in Paid(route) |-> log[i].cost]),
                    n   |-> Cardinality(Paid(route))]
  /\ a.seen = Max({log[i].ended : i \in RowsOf(route)})
  /\ a.fresh = IsFresh(a.seen, now)

LEMMA EntryOfAttempts ==
  ASSUME NEW route
  PROVE  CountsRows(AttemptEntry(log, route, now), route)
PROOF
BY Zenon DEF CountsRows, AttemptEntry, RowsOf, Timed, Paid

AddsRecords(b, mine, route) ==
  /\ b.attempts = SumFunction([r \in mine |-> r.attempts])
  /\ b.results = [res \in Results |-> SumFunction([r \in mine |-> r.results[res]])]
  /\ b.retries = SumFunction([r \in mine |-> r.retries])
  /\ b.duration = [sum |-> SumFunction([r \in mine |-> r.duration]), n |-> b.attempts]
  /\ route[1] # "local" =>
       b.cost = [sum |-> SumFunction([r \in mine |-> r.cost]), n |-> b.attempts]
  /\ b.seen = Max({r.end : r \in mine})
  /\ b.fresh = IsFresh(b.seen, now)

LEMMA EntryOfRecords ==
  ASSUME NEW route, NEW groupBy
  PROVE  AddsRecords(AggregateEntry(Report(groupBy), route, now), Mine(route, groupBy), route)
PROOF
BY Zenon DEF AddsRecords, AggregateEntry, Mine

CountsBlock(r, block) ==
  /\ r.attempts = Cardinality(block)
  /\ r.results = [res \in Results |-> Cardinality({i \in block : log[i].result = res})]
  /\ r.retries = Total(log, block, "retries")
  /\ r.duration = Total(log, block, "duration")
  /\ r.cost = Total(log, block, "cost")

LEMMA RecordOfBlock ==
  ASSUME NEW route, NEW groupBy, IsCut(route, groupBy), NEW r \in Mine(route, groupBy)
  PROVE  CountsBlock(r, Block(r, groupBy))
PROOF
<1>1. r = AggregateRecord(log, Block(r, groupBy), r.dimensions, NoFilter)
  BY DEF IsCut
<1>2. CountsBlock(AggregateRecord(log, Block(r, groupBy), r.dimensions, NoFilter), Block(r, groupBy))
  BY Zenon DEF CountsBlock, AggregateRecord
<1> QED
  BY <1>1, <1>2, Zenon

LEMMA EntriesAgree ==
  ASSUME AdaptiveInvariant, NEW groupBy, NEW route, IsCut(route, groupBy),
         NEW a, a = AttemptEntry(log, route, now),
         NEW b, b = AggregateEntry(Report(groupBy), route, now)
  PROVE  /\ <<a.attempts, a.results, a.retries, a.seen, a.fresh>>
              = <<b.attempts, b.results, b.retries, b.seen, b.fresh>>
         /\ a.duration.n = a.attempts => a.duration = b.duration
         /\ a.cost.n = a.attempts /\ route[1] # "local" => a.cost = b.cost
PROOF
<1> DEFINE rows == RowsOf(route)
           mine == Mine(route, groupBy)
           Having(res) == {i \in rows : log[i].result = res}
<1>entries. CountsRows(a, route) /\ AddsRecords(b, mine, route)
  BY EntryOfAttempts, EntryOfRecords
<1>records. \A r \in mine : CountsBlock(r, Block(r, groupBy))
  BY RecordOfBlock
<1>0. /\ IsFiniteSet(rows) /\ rows # {} /\ rows \subseteq DOMAIN log
      /\ \A r \in mine : Block(r, groupBy) \subseteq rows
  BY DEF IsCut
<1>1. SumFunction([r \in mine |-> r.attempts]) = Cardinality(rows)
  <2>1. \A r \in mine : r.attempts = Cardinality(Block(r, groupBy) \cap rows)
    <3> TAKE r \in mine
    <3>1. Block(r, groupBy) \cap rows = Block(r, groupBy)
      BY <1>0
    <3> QED
      BY <3>1, <1>records DEF CountsBlock
  <2> DEFINE F == [r \in mine |-> r.attempts]
  <2>2. DOMAIN F = mine /\ \A r \in mine : F[r] = Cardinality(Block(r, groupBy) \cap rows)
    BY <2>1
  <2> HIDE DEF F
  <2>3. SumFunction(F) = Cardinality(rows)
    BY <2>2, SizesAddUp
  <2> QED
    BY <2>3 DEF F
<1>2. \A res \in Results : SumFunction([r \in mine |-> r.results[res]]) = Cardinality(Having(res))
  <2> TAKE res \in Results
  <2> DEFINE F == [r \in mine |-> r.results[res]]
  <2>1. \A r \in mine : F[r] = Cardinality(Block(r, groupBy) \cap Having(res))
    <3> TAKE r \in mine
    <3>1. Block(r, groupBy) \cap Having(res) = {i \in Block(r, groupBy) : log[i].result = res}
      BY <1>0
    <3>2. r.results[res] = Cardinality({i \in Block(r, groupBy) : log[i].result = res})
      BY <1>records DEF CountsBlock
    <3> QED
      BY <3>1, <3>2
  <2>2. DOMAIN F = mine /\ Having(res) \in SUBSET rows
    OBVIOUS
  <2> HIDE DEF F, Having
  <2>3. SumFunction(F) = Cardinality(Having(res))
    BY <2>1, <2>2, SizesAddUp
  <2> QED
    BY <2>3 DEF F
<1>3. SumFunction([i \in rows |-> log[i].retries]) = SumFunction([r \in mine |-> r.retries])
  <2> DEFINE f == [i \in rows |-> log[i].retries]
             F == [r \in mine |-> r.retries]
  <2>1. DOMAIN f = rows /\ \A i \in rows : f[i] \in Int /\ Row(log[i])["retries"] = f[i]
    BY <1>0, LoggedValues DEF Row
  <2>2. DOMAIN F = mine /\ \A r \in mine : F[r] = Total(log, Block(r, groupBy), "retries")
    BY <1>records DEF CountsBlock
  <2> HIDE DEF f, F
  <2>3. SumFunction(f) = SumFunction(F)
    BY <2>1, <2>2, TotalsAddUp
  <2> QED
    BY <2>3 DEF f, F
<1>4. (\A i \in rows : log[i].duration # Unknown) =>
        SumFunction([i \in rows |-> log[i].duration]) = SumFunction([r \in mine |-> r.duration])
  <2> HAVE \A i \in rows : log[i].duration # Unknown
  <2> DEFINE f == [i \in rows |-> log[i].duration]
             F == [r \in mine |-> r.duration]
  <2>1. DOMAIN f = rows /\ \A i \in rows : f[i] \in Int /\ Row(log[i])["duration"] = f[i]
    BY <1>0, LoggedValues DEF Row, OrZero
  <2>2. DOMAIN F = mine /\ \A r \in mine : F[r] = Total(log, Block(r, groupBy), "duration")
    BY <1>records DEF CountsBlock
  <2> HIDE DEF f, F
  <2>3. SumFunction(f) = SumFunction(F)
    BY <2>1, <2>2, TotalsAddUp
  <2> QED
    BY <2>3 DEF f, F
<1>5. (\A i \in rows : log[i].cost # Unknown) =>
        SumFunction([i \in rows |-> log[i].cost]) = SumFunction([r \in mine |-> r.cost])
  <2> HAVE \A i \in rows : log[i].cost # Unknown
  <2> DEFINE f == [i \in rows |-> log[i].cost]
             F == [r \in mine |-> r.cost]
  <2>1. DOMAIN f = rows /\ \A i \in rows : f[i] \in Int /\ Row(log[i])["cost"] = f[i]
    BY <1>0, LoggedValues DEF Row, OrZero
  <2>2. DOMAIN F = mine /\ \A r \in mine : F[r] = Total(log, Block(r, groupBy), "cost")
    BY <1>records DEF CountsBlock
  <2> HIDE DEF f, F
  <2>3. SumFunction(f) = SumFunction(F)
    BY <2>1, <2>2, TotalsAddUp
  <2> QED
    BY <2>3 DEF f, F
<1>6. a.attempts = b.attempts /\ b.attempts = Cardinality(rows)
  BY <1>1, <1>entries DEF CountsRows, AddsRecords
<1>7. a.results = b.results
  <2>1. a.results = [res \in Results |-> Cardinality(Having(res))]
    BY <1>entries DEF CountsRows
  <2>2. b.results = [res \in Results |-> SumFunction([r \in mine |-> r.results[res]])]
    BY <1>entries DEF AddsRecords
  <2> HIDE DEF Having, mine
  <2> QED
    BY <1>2, <2>1, <2>2
<1>8. a.retries = b.retries
  BY <1>3, <1>entries DEF CountsRows, AddsRecords
<1>9. a.seen = b.seen /\ a.fresh = b.fresh
  BY EndsAddUp, <1>entries DEF CountsRows, AddsRecords
<1>10. a.duration.n = a.attempts => a.duration = b.duration
  <2> HAVE a.duration.n = a.attempts
  <2>1. Cardinality(Timed(route)) = Cardinality(rows)
    BY <1>6, <1>entries DEF CountsRows
  <2>2. Timed(route) = rows
    <3>1. Timed(route) \in SUBSET rows
      BY DEF Timed
    <3> QED
      BY <1>0, <2>1, <3>1, FS_Subset
  <2>3. \A i \in rows : log[i].duration # Unknown
    BY <2>2 DEF Timed
  <2>4. a.duration = [sum |-> SumFunction([i \in rows |-> log[i].duration]), n |-> Cardinality(rows)]
    BY <2>2, <1>entries DEF CountsRows
  <2>5. b.duration = [sum |-> SumFunction([r \in mine |-> r.duration]), n |-> b.attempts]
    BY <1>entries DEF AddsRecords
  <2> QED
    BY <1>4, <1>6, <2>3, <2>4, <2>5
<1>11. a.cost.n = a.attempts /\ route[1] # "local" => a.cost = b.cost
  <2> HAVE a.cost.n = a.attempts /\ route[1] # "local"
  <2>1. Cardinality(rows) # 0
    BY <1>0, FS_EmptySet
  <2>2. Paid(route) = rows
    BY <1>6, <2>1, <1>entries DEF NoAverage, CountsRows
  <2>3. \A i \in rows : log[i].cost # Unknown
    BY <2>2 DEF Paid
  <2>4. a.cost = [sum |-> SumFunction([i \in rows |-> log[i].cost]), n |-> Cardinality(rows)]
    BY <2>2, <1>entries DEF CountsRows
  <2>5. b.cost = [sum |-> SumFunction([r \in mine |-> r.cost]), n |-> b.attempts]
    BY <1>entries DEF AddsRecords
  <2> QED
    BY <1>5, <1>6, <2>3, <2>4, <2>5
<1> QED
  BY <1>6, <1>7, <1>8, <1>9, <1>10, <1>11

(* SourcesAgree: a snapshot of the log and one of any report of it that    *)
(* tells routes apart say the same of every named route, for any log (     *)
(* build_adaptive_snapshot_from_aggregate_records).                        *)
THEOREM SourcesSafety == AdaptiveSpec => []SourcesAgree
PROOF
<1>1. AdaptiveInvariant => SourcesAgree
  <2> SUFFICES ASSUME AdaptiveInvariant, NEW groupBy \in ByRoute,
                      NEW route \in {SummaryRoute(log[i]) : i \in DOMAIN log}, IsNamed(route)
               PROVE  LET a == SnapshotOfAttempts(log, now)[route]
                          b == SnapshotOfRecords(Report(groupBy), now)[route]
                      IN  /\ route \in DOMAIN SnapshotOfRecords(Report(groupBy), now)
                          /\ <<a.attempts, a.results, a.retries, a.seen, a.fresh>>
                               = <<b.attempts, b.results, b.retries, b.seen, b.fresh>>
                          /\ a.duration.n = a.attempts => a.duration = b.duration
                          /\ a.cost.n = a.attempts /\ route[1] # "local" => a.cost = b.cost
    <3>1. DOMAIN SnapshotOfAttempts(log, now) = {SummaryRoute(log[i]) : i \in DOMAIN log}
      BY DEF SnapshotOfAttempts
    <3> QED
      BY <3>1 DEF SourcesAgree, Report
  <2>1. IsCut(route, groupBy)
    BY ReportBlocks DEF ByRoute
  <2>2. SnapshotOfAttempts(log, now)[route] = AttemptEntry(log, route, now)
    BY DEF SnapshotOfAttempts
  <2>3. route \in {RecordRoute(r) : r \in Report(groupBy)}
    BY <2>1 DEF IsCut, Mine
  <2>4. /\ route \in DOMAIN SnapshotOfRecords(Report(groupBy), now)
        /\ SnapshotOfRecords(Report(groupBy), now)[route]
             = AggregateEntry(Report(groupBy), route, now)
    BY <2>3 DEF SnapshotOfRecords
  <2> QED
    BY <2>1, <2>2, <2>4, EntriesAgree
<1> QED
  BY <1>1, AdaptiveInvariance, PTL
=============================================================================
