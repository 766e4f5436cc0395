---------------------------- MODULE Benchmark_proofs ----------------------------
(***************************************************************************)
(* Theorems about Benchmark, for any manifests, candidates and outcomes.   *)
(***************************************************************************)
EXTENDS Benchmark, CollectionTheorems, SequenceTheorems

(***************************************************************************)
(* Rankings.                                                               *)
(***************************************************************************)
ReportLines ==
  [id : Nat, result : {"succeeded", "skipped", "failed", "blocked"},
   quality : Metrics, latency : Metrics, retries : Nat, cost : Metrics,
   notes : SUBSET {"latency_unavailable", "cost_unavailable", "quality_signals_missing",
                   "non_success_result"}]

Keys == [1 .. 6 -> Int]
IsBelow(k, l) == \E n \in 1 .. 6 : k[n] < l[n] /\ \A m \in 1 .. n - 1 : k[m] = l[m]

LEMMA MissingIsANumber == Missing \in Nat
PROOF
BY SMT DEF Missing

LEMMA KeysAreOrdered ==
  /\ \A k, l \in Keys : k = l \/ IsBelow(k, l) \/ IsBelow(l, k)
  /\ \A k, l, p \in Keys : IsBelow(k, l) /\ IsBelow(l, p) => IsBelow(k, p)
PROOF
<1>1. ASSUME NEW k \in Keys, NEW l \in Keys, k # l
      PROVE  IsBelow(k, l) \/ IsBelow(l, k)
  <2> DEFINE D == {n \in 1 .. 6 : k[n] # l[n]}
  <2>1. D \subseteq Nat /\ D # {}
    BY <1>1 DEF Keys
  <2>2. Min(D) \in D /\ \A n \in D : Min(D) <= n
    <3> HIDE DEF D
    <3> QED
      BY <2>1, LeastOfNaturals
  <2>3. PICK n \in D : \A m \in D : n <= m
    BY <2>2
  <2>4. n \in 1 .. 6 /\ k[n] # l[n] /\ k[n] \in Int /\ l[n] \in Int
    BY DEF Keys
  <2>5. \A m \in 1 .. n - 1 : k[m] = l[m]
    <3> SUFFICES ASSUME NEW m \in 1 .. n - 1, k[m] # l[m] PROVE FALSE
      OBVIOUS
    <3>1. m \in D /\ m < n
      BY <2>4
    <3> QED
      BY <2>3, <2>4, <3>1
  <2>6. k[n] < l[n] \/ l[n] < k[n]
    BY <2>4
  <2> HIDE DEF D
  <2> QED
    BY <2>4, <2>5, <2>6 DEF IsBelow
<1>2. ASSUME NEW k \in Keys, NEW l \in Keys, NEW p \in Keys, IsBelow(k, l), IsBelow(l, p)
      PROVE  IsBelow(k, p)
  <2>1. PICK n \in 1 .. 6 : k[n] < l[n] /\ \A m \in 1 .. n - 1 : k[m] = l[m]
    BY <1>2 DEF IsBelow
  <2>2. PICK o \in 1 .. 6 : l[o] < p[o] /\ \A m \in 1 .. o - 1 : l[m] = p[m]
    BY <1>2 DEF IsBelow
  <2>3. \A m \in 1 .. 6 : k[m] \in Int /\ l[m] \in Int /\ p[m] \in Int
    BY DEF Keys
  <2>4. CASE n < o
    <3>1. k[n] < p[n] /\ \A m \in 1 .. n - 1 : k[m] = p[m]
      BY <2>1, <2>2, <2>4
    <3> QED
      BY <3>1 DEF IsBelow
  <2>5. CASE n = o
    <3>1. k[n] < p[n] /\ \A m \in 1 .. n - 1 : k[m] = p[m]
      BY <2>1, <2>2, <2>3, <2>5
    <3> QED
      BY <3>1 DEF IsBelow
  <2>6. CASE o < n
    <3>1. k[o] < p[o] /\ \A m \in 1 .. o - 1 : k[m] = p[m]
      BY <2>1, <2>2, <2>6
    <3> QED
      BY <3>1 DEF IsBelow
  <2> QED
    BY <2>4, <2>5, <2>6
<1> QED
  BY <1>1, <1>2

LEMMA SequencesAreFunctions ==
  ASSUME NEW S, NEW t \in Seq(S)
  PROVE  t \in [1 .. Len(t) -> S] /\ DOMAIN t = 1 .. Len(t)
PROOF
OBVIOUS

LEMMA SixAreKeys ==
  ASSUME NEW t \in Seq(Int), Len(t) = 6
  PROVE  t \in Keys /\ DOMAIN t = 1 .. 6
PROOF
<1>1. t \in [1 .. Len(t) -> Int] /\ DOMAIN t = 1 .. Len(t)
  BY SequencesAreFunctions
<1> QED
  BY <1>1, Zenon DEF Keys

LEMMA AppendFacts ==
  \A S : \A s \in Seq(S) : \A f \in S :
    /\ Append(s, f) \in Seq(S) /\ Len(Append(s, f)) = Len(s) + 1
    /\ \A i \in 1 .. Len(s) : Append(s, f)[i] = s[i]
    /\ Append(s, f)[Len(s) + 1] = f
PROOF
BY AppendProperties

LEMMA AppendToFive ==
  ASSUME NEW s \in Seq(Int), Len(s) = 5, NEW f \in Int
  PROVE  /\ Append(s, f) \in Keys /\ DOMAIN Append(s, f) = 1 .. 6
         /\ \A i \in 1 .. 5 : Append(s, f)[i] = s[i]
         /\ Append(s, f)[6] = f
PROOF
<1>1. /\ Append(s, f) \in Seq(Int) /\ Len(Append(s, f)) = Len(s) + 1
      /\ \A i \in 1 .. Len(s) : Append(s, f)[i] = s[i]
      /\ Append(s, f)[Len(s) + 1] = f
  BY AppendFacts
<1>2. Len(s) + 1 = 6 /\ 1 .. Len(s) = 1 .. 5
  OBVIOUS
<1>3. Append(s, f)[6] = f
  BY <1>1, <1>2, Zenon
<1>4. Append(s, f) \in Keys /\ DOMAIN Append(s, f) = 1 .. 6
  BY <1>1, <1>2, SixAreKeys, Zenon
<1>5. \A i \in 1 .. 5 : Append(s, f)[i] = s[i]
  BY <1>1, <1>2, Zenon
<1> QED
  BY <1>3, <1>4, <1>5

\* A metric or what stands in for it is a number.
LEMMA StandIns ==
  ASSUME NEW metric \in Metrics, NEW standIn \in Int
  PROVE  OrElse(metric, standIn) \in Int
PROOF
BY DEF OrElse, Metrics

\* The ranking key of a line, its parts and their order.
LEMMA RankingKeys ==
  ASSUME NEW x \in ReportLines
  PROVE  /\ RankingKey(x) \in Keys /\ DOMAIN RankingKey(x) = 1 .. 6
         /\ RankingKey(x)[1] = -ResultRank(x.result)
         /\ RankingKey(x)[2] = -OrElse(x.quality, -1)
         /\ RankingKey(x)[3] = OrElse(x.latency, Missing)
         /\ RankingKey(x)[4] = x.retries
         /\ RankingKey(x)[5] = OrElse(x.cost, Missing)
         /\ RankingKey(x)[6] = x.id
PROOF
<1>1. /\ ResultRank(x.result) \in Int /\ x.quality \in Metrics /\ x.latency \in Metrics
      /\ x.retries \in Int /\ x.cost \in Metrics /\ x.id \in Int
  BY DEF ReportLines, ResultRank, ResultRanks
<1> DEFINE rank == -ResultRank(x.result)  quality == -OrElse(x.quality, -1)
           late == OrElse(x.latency, Missing)  retries == x.retries
           dear == OrElse(x.cost, Missing)  id == x.id
<1>2. rank \in Int /\ quality \in Int /\ late \in Int /\ retries \in Int /\ dear \in Int
      /\ id \in Int
  <2>1. OrElse(x.quality, -1) \in Int
    BY <1>1, StandIns
  <2>2. late \in Int /\ dear \in Int
    <3>1. Missing \in Int
      BY MissingIsANumber
    <3> QED
      BY <1>1, <3>1, StandIns
  <2> HIDE DEF late, dear
  <2> QED
    BY <1>1, <2>1, <2>2
<1>3. TieKey(x) = <<rank, quality, late, retries, dear>>
  BY DEF TieKey
<1>4. RankingKey(x) = Append(TieKey(x), id)
  BY DEF RankingKey
<1> HIDE DEF late, dear, rank, quality, retries, id
<1>5. TieKey(x) \in Seq(Int) /\ Len(TieKey(x)) = 5
  BY <1>2, <1>3
<1>6. /\ TieKey(x)[1] = rank /\ TieKey(x)[2] = quality /\ TieKey(x)[3] = late
      /\ TieKey(x)[4] = retries /\ TieKey(x)[5] = dear
  BY <1>3
<1>7. /\ RankingKey(x) \in Keys /\ DOMAIN RankingKey(x) = 1 .. 6
      /\ \A i \in 1 .. 5 : RankingKey(x)[i] = TieKey(x)[i]
      /\ RankingKey(x)[6] = id
  BY <1>2, <1>4, <1>5, AppendToFive
<1> QED
  BY <1>6, <1>7 DEF late, dear, rank, quality, retries, id

LEMMA PrecedesIsBelow ==
  ASSUME NEW x \in ReportLines, NEW y \in ReportLines
  PROVE  Precedes(x, y) <=> IsBelow(RankingKey(x), RankingKey(y))
PROOF
BY RankingKeys DEF Precedes, IsBelow

\* Two candidates are tied when the first five parts of their keys agree.
LEMMA TiesAreKeys ==
  ASSUME NEW x \in ReportLines, NEW y \in ReportLines
  PROVE  TieKey(x) = TieKey(y) <=> \A c \in 1 .. 5 : RankingKey(x)[c] = RankingKey(y)[c]
PROOF
BY RankingKeys DEF TieKey

\* What the policy does not tell apart, the keys do not.
LEMMA EqualsHaveEqualKeys ==
  ASSUME NEW x \in ReportLines, NEW y \in ReportLines, NEW c \in 1 .. 5,
         x[Criteria[c]] = y[Criteria[c]]
  PROVE  RankingKey(x)[c] = RankingKey(y)[c]
PROOF
<1>1. /\ c = 1 => x.result = y.result
      /\ c = 2 => x.quality = y.quality
      /\ c = 3 => x.latency = y.latency
      /\ c = 4 => x.retries = y.retries
      /\ c = 5 => x.cost = y.cost
  BY DEF Criteria
<1>2. c \in {1, 2, 3, 4, 5}
  OBVIOUS
<1>3. CASE c = 1
  BY <1>1, <1>3, RankingKeys, Zenon
<1>4. CASE c = 2
  BY <1>1, <1>4, RankingKeys, Zenon
<1>5. CASE c = 3
  BY <1>1, <1>5, RankingKeys, Zenon
<1>6. CASE c = 4
  BY <1>1, <1>6, RankingKeys, Zenon
<1>7. CASE c = 5
  BY <1>1, <1>7, RankingKeys, Zenon
<1> QED
  BY <1>2, <1>3, <1>4, <1>5, <1>6, <1>7

\* A metric whose stand-in is worse than what was measured is compared as it should.
LEMMA ComparedAsMeasured ==
  /\ \A a, b \in Metrics, standIn \in Int :
       (a # Unknown => a < standIn) /\ (b # Unknown => b < standIn) =>
         /\ OrElse(a, standIn) = OrElse(b, standIn) => a = b
         /\ OrElse(a, standIn) < OrElse(b, standIn) => a # Unknown /\ (b = Unknown \/ a < b)
  /\ \A a, b \in Metrics :
       (a # Unknown => a > -1) /\ (b # Unknown => b > -1) =>
         /\ -OrElse(a, -1) = -OrElse(b, -1) => a = b
         /\ -OrElse(a, -1) < -OrElse(b, -1) => a # Unknown /\ (b = Unknown \/ a > b)
PROOF
<1>1. ASSUME NEW a \in Metrics, NEW b \in Metrics, NEW standIn \in Int,
             a # Unknown => a < standIn, b # Unknown => b < standIn
      PROVE  /\ OrElse(a, standIn) = OrElse(b, standIn) => a = b
             /\ OrElse(a, standIn) < OrElse(b, standIn) => a # Unknown /\ (b = Unknown \/ a < b)
  <2>1. CASE a = Unknown
    BY <1>1, <2>1 DEF OrElse, Metrics
  <2>2. CASE a # Unknown /\ b = Unknown
    BY <1>1, <2>2 DEF OrElse, Metrics
  <2>3. CASE a # Unknown /\ b # Unknown
    BY <2>3 DEF OrElse
  <2> QED
    BY <2>1, <2>2, <2>3
<1>2. ASSUME NEW a \in Metrics, NEW b \in Metrics, a # Unknown => a > -1, b # Unknown => b > -1
      PROVE  /\ -OrElse(a, -1) = -OrElse(b, -1) => a = b
             /\ -OrElse(a, -1) < -OrElse(b, -1) => a # Unknown /\ (b = Unknown \/ a > b)
  BY <1>2 DEF OrElse, Metrics
<1> QED
  BY <1>1, <1>2

\* Each part of the key agrees with its criterion of the policy, where the stand-ins
\* are worse than what was measured.
LEMMA KeysFollowThePolicy ==
  ASSUME NEW x \in ReportLines, NEW y \in ReportLines, NEW c \in 1 .. 5,
         StandInsAreWorse(x), StandInsAreWorse(y)
  PROVE  /\ RankingKey(x)[c] = RankingKey(y)[c] => x[Criteria[c]] = y[Criteria[c]]
         /\ RankingKey(x)[c] < RankingKey(y)[c]
              => IsBetter(Criteria[c], x[Criteria[c]], y[Criteria[c]])
PROOF
<1>1. CASE c = 1
  <2>1. Criteria[c] = "result"
    BY <1>1 DEF Criteria
  <2>2. /\ x.result \in {"succeeded", "skipped", "failed", "blocked"}
        /\ y.result \in {"succeeded", "skipped", "failed", "blocked"}
    BY DEF ReportLines
  <2>3. RankingKey(x)[1] = -ResultRank(x.result) /\ RankingKey(y)[1] = -ResultRank(y.result)
    BY RankingKeys
  <2>4. -ResultRank(x.result) = -ResultRank(y.result) => x.result = y.result
    BY <2>2 DEF ResultRank, ResultRanks
  <2>5. -ResultRank(x.result) < -ResultRank(y.result) => IsBetter("result", x.result, y.result)
    BY <2>2 DEF ResultRank, ResultRanks, IsBetter, ResultOrder
  <2> QED
    BY <1>1, <2>1, <2>3, <2>4, <2>5
<1>2. CASE c = 2
  <2>1. Criteria[c] = "quality"
    BY <1>2 DEF Criteria
  <2>2. x.quality \in Metrics /\ y.quality \in Metrics
    BY DEF ReportLines
  <2>3. /\ RankingKey(x)[2] = -OrElse(x.quality, -1)
        /\ RankingKey(y)[2] = -OrElse(y.quality, -1)
    BY RankingKeys
  <2>4. (x.quality # Unknown => x.quality > -1) /\ (y.quality # Unknown => y.quality > -1)
    BY DEF StandInsAreWorse
  <2>5. /\ -OrElse(x.quality, -1) = -OrElse(y.quality, -1) => x.quality = y.quality
        /\ -OrElse(x.quality, -1) < -OrElse(y.quality, -1) =>
             x.quality # Unknown /\ (y.quality = Unknown \/ x.quality > y.quality)
    BY <2>2, <2>4, ComparedAsMeasured, Zenon
  <2> QED
    BY <1>2, <2>1, <2>3, <2>5, Zenon DEF IsBetter
<1>3. CASE c = 3
  <2>1. Criteria[c] = "latency"
    BY <1>3 DEF Criteria
  <2>2. x.latency \in Metrics /\ y.latency \in Metrics /\ Missing \in Int
    BY MissingIsANumber DEF ReportLines
  <2>3. /\ RankingKey(x)[3] = OrElse(x.latency, Missing)
        /\ RankingKey(y)[3] = OrElse(y.latency, Missing)
    BY RankingKeys
  <2>4. (x.latency # Unknown => x.latency < Missing) /\ (y.latency # Unknown => y.latency < Missing)
    BY DEF StandInsAreWorse
  <2>5. /\ OrElse(x.latency, Missing) = OrElse(y.latency, Missing) => x.latency = y.latency
        /\ OrElse(x.latency, Missing) < OrElse(y.latency, Missing) =>
             x.latency # Unknown /\ (y.latency = Unknown \/ x.latency < y.latency)
    BY <2>2, <2>4, ComparedAsMeasured, Zenon
  <2> QED
    BY <1>3, <2>1, <2>3, <2>5, Zenon DEF IsBetter
<1>4. CASE c = 4
  <2>1. Criteria[c] = "retries"
    BY <1>4 DEF Criteria
  <2>2. x.retries \in Nat /\ y.retries \in Nat
    BY DEF ReportLines
  <2>3. RankingKey(x)[4] = x.retries /\ RankingKey(y)[4] = y.retries
    BY RankingKeys
  <2>4. x.retries # Unknown
    BY <2>2, BenchmarkAssumption
  <2> QED
    BY <1>4, <2>1, <2>3, <2>4 DEF IsBetter
<1>5. CASE c = 5
  <2>1. Criteria[c] = "cost"
    BY <1>5 DEF Criteria
  <2>2. x.cost \in Metrics /\ y.cost \in Metrics /\ Missing \in Int
    BY MissingIsANumber DEF ReportLines
  <2>3. /\ RankingKey(x)[5] = OrElse(x.cost, Missing)
        /\ RankingKey(y)[5] = OrElse(y.cost, Missing)
    BY RankingKeys
  <2>4. (x.cost # Unknown => x.cost < Missing) /\ (y.cost # Unknown => y.cost < Missing)
    BY DEF StandInsAreWorse
  <2>5. /\ OrElse(x.cost, Missing) = OrElse(y.cost, Missing) => x.cost = y.cost
        /\ OrElse(x.cost, Missing) < OrElse(y.cost, Missing) =>
             x.cost # Unknown /\ (y.cost = Unknown \/ x.cost < y.cost)
    BY <2>2, <2>4, ComparedAsMeasured, Zenon
  <2> QED
    BY <1>5, <2>1, <2>3, <2>5, Zenon DEF IsBetter
<1> QED
  BY <1>1, <1>2, <1>3, <1>4, <1>5

\* A key between two keys that agree in their first five parts agrees with them.
LEMMA KeysBetween ==
  ASSUME NEW k \in Keys, NEW l \in Keys, NEW p \in Keys,
         k = l \/ IsBelow(k, l), l = p \/ IsBelow(l, p), \A c \in 1 .. 5 : k[c] = p[c]
  PROVE  \A c \in 1 .. 5 : k[c] = l[c]
PROOF
<1>1. CASE k = l \/ l = p
  BY <1>1
<1>2. CASE IsBelow(k, l) /\ IsBelow(l, p)
  <2>1. PICK n \in 1 .. 6 : k[n] < l[n] /\ \A m \in 1 .. n - 1 : k[m] = l[m]
    BY <1>2 DEF IsBelow
  <2>2. PICK o \in 1 .. 6 : l[o] < p[o] /\ \A m \in 1 .. o - 1 : l[m] = p[m]
    BY <1>2 DEF IsBelow
  <2>3. \A m \in 1 .. 6 : k[m] \in Int /\ l[m] \in Int /\ p[m] \in Int
    BY DEF Keys
  <2>4. n = 6
    <3> SUFFICES ASSUME n \in 1 .. 5 PROVE FALSE
      OBVIOUS
    <3>1. CASE o < n
      BY <2>1, <2>2, <2>3, <3>1
    <3>2. CASE n <= o
      <4>1. k[n] < p[n]
        BY <2>1, <2>2, <2>3, <3>2
      <4> QED
        BY <2>3, <4>1
    <3> QED
      BY <3>1, <3>2
  <2> QED
    BY <2>1, <2>4
<1> QED
  BY <1>1, <1>2

(***************************************************************************)
(* The invariant: a benchmark that runs was accepted, its results are      *)
(* those of the first candidates, and a report is the ranking of the       *)
(* results under the qualities a reviewer saw.                             *)
(***************************************************************************)
Results == [id : Nat, outcome : CallOutcomes]

ResultsMeasureCandidates ==
  /\ setup \in Setups /\ results \in Seq(Results)
  /\ Len(results) <= Len(setup.candidates)
  /\ \A i \in DOMAIN results : results[i].id = setup.candidates[i].id

RunsAreAccepted ==
  /\ stage \in {"running", "measured", "reported", "raised"} => IsAccepted
  /\ stage \in {"measured", "reported"} => Len(results) = Len(setup.candidates)
  /\ stage = "raised" =>
       /\ IsPaired(Candidate)
       /\ ~UsesTools => Candidate.executor = "openrouter" /\ ~RefusesTools(Candidate)

ReportIsARanking ==
  /\ stage # "reported" => report = << >>
  /\ stage = "reported" =>
       \E quality \in [DOMAIN results -> Qualities] : report = ReportOn(Ranking(Lines(quality)))

BenchmarkInvariant == ResultsMeasureCandidates /\ RunsAreAccepted /\ ReportIsARanking

LEMMA IntervalSize == \A n \in Nat : IsFiniteSet(1 .. n) /\ Cardinality(1 .. n) = n
PROOF
BY FS_Interval

LEMMA BijectionSize ==
  \A S, T : \A f \in Bijection(S, T) :
    IsFiniteSet(S) => IsFiniteSet(T) /\ Cardinality(T) = Cardinality(S)
PROOF
<1> SUFFICES ASSUME NEW S, NEW T, NEW f \in Bijection(S, T), IsFiniteSet(S)
             PROVE  IsFiniteSet(T) /\ Cardinality(T) = Cardinality(S)
  OBVIOUS
<1> QED
  BY FS_Bijection DEF ExistsBijection

LEMMA SetupTypes ==
  ASSUME setup \in Setups
  PROVE  setup.candidates \in Seq(Candidates)
PROOF
BY BenchmarkAssumption

\* The lines of a report: one for each result, told apart by their ids.
LEMMA LinesOfResults ==
  ASSUME ResultsMeasureCandidates, IsAccepted,
         NEW quality \in [DOMAIN results -> Qualities]
  PROVE  /\ Lines(quality) \subseteq ReportLines
         /\ IsFiniteSet(Lines(quality)) /\ Cardinality(Lines(quality)) = Len(results)
         /\ \A x, y \in Lines(quality) : x.id = y.id => x = y
         /\ {x.id : x \in Lines(quality)} = {results[i].id : i \in DOMAIN results}
PROOF
<1> DEFINE n == Len(results)
           lines == [i \in 1 .. n |-> CandidateReport(results[i], quality[i])]
<1>1. n \in Nat /\ DOMAIN results = 1 .. n /\ \A i \in 1 .. n : results[i] \in Results
  BY DEF ResultsMeasureCandidates
<1>2. Len(setup.candidates) \in Nat /\ DOMAIN setup.candidates = 1 .. Len(setup.candidates)
  BY SetupTypes DEF ResultsMeasureCandidates
<1>3. \A i, j \in 1 .. n : results[i].id = results[j].id => i = j
  <2> DEFINE ids == [i \in DOMAIN setup.candidates |-> setup.candidates[i].id]
  <2>1. \A i, j \in DOMAIN setup.candidates : ids[i] = ids[j] => i = j
    BY DEF IsAccepted, CandidatesAreValid, IsInjective
  <2>2. \A i \in 1 .. n : i \in DOMAIN setup.candidates /\ results[i].id = setup.candidates[i].id
    BY <1>1, <1>2 DEF ResultsMeasureCandidates
  <2> QED
    BY <2>1, <2>2
<1>4. ASSUME NEW i \in 1 .. n
      PROVE  CandidateReport(results[i], quality[i]) \in ReportLines
             /\ CandidateReport(results[i], quality[i]).id = results[i].id
  <2>1. quality[i] \in Metrics
    BY <1>1, BenchmarkAssumption
  <2>2. results[i].id \in Nat /\ results[i].outcome \in CallOutcomes
    BY <1>1 DEF Results
  <2>3. /\ results[i].outcome.result \in {"succeeded", "skipped", "failed", "blocked"}
        /\ results[i].outcome.latency \in Metrics /\ results[i].outcome.retries \in Nat
        /\ results[i].outcome.cost \in Metrics
    BY <2>2 DEF CallOutcomes
  <2>4. CandidateReport(results[i], quality[i]).notes
          \in SUBSET {"latency_unavailable", "cost_unavailable", "quality_signals_missing",
                      "non_success_result"}
    BY DEF CandidateReport
  <2> QED
    BY <2>1, <2>2, <2>3, <2>4 DEF CandidateReport, ReportLines
<1>5. Lines(quality) = {lines[i] : i \in 1 .. n}
  BY <1>1 DEF Lines
<1>6. \A i \in 1 .. n : lines[i] \in ReportLines /\ lines[i].id = results[i].id
  BY <1>4
<1> HIDE DEF lines
<1>7. lines \in Bijection(1 .. n, Lines(quality))
  <2>1. lines \in [1 .. n -> Lines(quality)]
    <3>1. lines = [i \in 1 .. n |-> lines[i]]
      BY DEF lines
    <3> QED
      BY <1>5, <3>1
  <2>2. \A i, j \in 1 .. n : lines[i] = lines[j] => i = j
    BY <1>3, <1>6
  <2>3. \A x \in Lines(quality) : \E i \in 1 .. n : lines[i] = x
    BY <1>5
  <2> QED
    BY <2>1, <2>2, <2>3 DEF Bijection, Injection, Surjection, IsInjective
<1>8. IsFiniteSet(1 .. n) /\ Cardinality(1 .. n) = n
  BY <1>1, IntervalSize, Zenon
<1>9. IsFiniteSet(Lines(quality)) /\ Cardinality(Lines(quality)) = n
  BY <1>7, <1>8, BijectionSize, Zenon
<1>10. \A x, y \in Lines(quality) : x.id = y.id => x = y
  BY <1>3, <1>5, <1>6
<1>11. {x.id : x \in Lines(quality)} = {results[i].id : i \in DOMAIN results}
  <2>1. {x.id : x \in Lines(quality)} = {lines[i].id : i \in 1 .. n}
    BY <1>5
  <2>2. {lines[i].id : i \in 1 .. n} = {results[i].id : i \in 1 .. n}
    BY <1>6
  <2> QED
    BY <1>1, <2>1, <2>2
<1>12. Lines(quality) \subseteq ReportLines
  BY <1>5, <1>6
<1> QED
  BY <1>9, <1>10, <1>11, <1>12, Zenon

\* A ranking orders all lines, each once, by their keys.
LEMMA RankingSorts ==
  ASSUME NEW L, L \subseteq ReportLines, IsFiniteSet(L), \A x, y \in L : x.id = y.id => x = y
  PROVE  /\ Ranking(L) \in SetToSeqs(L)
         /\ \A m, n \in DOMAIN Ranking(L) : m < n => Precedes(Ranking(L)[m], Ranking(L)[n])
PROOF
<1> DEFINE R == {pair \in L \X L : Precedes(pair[1], pair[2])}
<1>1. \A x, y \in L : <<x, y>> \in R <=> Precedes(x, y)
  OBVIOUS
<1>2. \A x, y \in L : x # y => Precedes(x, y) \/ Precedes(y, x)
  <2> TAKE x, y \in L
  <2> HAVE x # y
  <2>1. x \in ReportLines /\ y \in ReportLines /\ x.id # y.id
    OBVIOUS
  <2>2. RankingKey(x) \in Keys /\ RankingKey(y) \in Keys /\ RankingKey(x) # RankingKey(y)
    BY <2>1, RankingKeys
  <2> QED
    BY <2>1, <2>2, KeysAreOrdered, PrecedesIsBelow
<1>3. \A x, y, z \in L : Precedes(x, y) /\ Precedes(y, z) => Precedes(x, z)
  <2> TAKE x, y, z \in L
  <2>1. x \in ReportLines /\ y \in ReportLines /\ z \in ReportLines
    OBVIOUS
  <2>2. RankingKey(x) \in Keys /\ RankingKey(y) \in Keys /\ RankingKey(z) \in Keys
    BY <2>1, RankingKeys
  <2> QED
    BY <2>1, <2>2, KeysAreOrdered, PrecedesIsBelow
<1> HIDE DEF R
<1>4. IsTotalOn(R, L)
  BY <1>1, <1>2, <1>3 DEF IsTotalOn
<1>5. PICK s \in SetToSeqs(L) : \A m, n \in DOMAIN s : m < n => <<s[m], s[n]>> \in R
  BY <1>4, SortExists
<1>6. \A m \in DOMAIN s : s[m] \in L
  BY <1>5, OrderedElements
<1>7. \A m, n \in DOMAIN s : m < n => Precedes(s[m], s[n])
  BY <1>1, <1>5, <1>6
<1> QED
  BY <1>7 DEF Ranking

(***************************************************************************)
(* Invariance.                                                             *)
(***************************************************************************)
(* What every benchmark keeps, whatever its manifest and its candidates    *)
(* (run_benchmark_workload, build_benchmark_report).                       *)
THEOREM BenchmarkInvariance == BenchmarkSpec => []BenchmarkInvariant
PROOF
<1>1. Init => BenchmarkInvariant
  <2> SUFFICES ASSUME Init PROVE BenchmarkInvariant
    OBVIOUS
  <2>1. ResultsMeasureCandidates
    BY SetupTypes DEF Init, ResultsMeasureCandidates
  <2> QED
    BY <2>1 DEF Init, BenchmarkInvariant, RunsAreAccepted, ReportIsARanking
<1>2. BenchmarkInvariant /\ [Next]_benchmarkVars => BenchmarkInvariant'
  <2> SUFFICES ASSUME BenchmarkInvariant, [Next]_benchmarkVars PROVE BenchmarkInvariant'
    OBVIOUS
  <2> USE DEF BenchmarkInvariant
  <2>1. CASE LoadManifest \/ RefuseManifest
    <3>1. ResultsMeasureCandidates'
      BY <2>1 DEF LoadManifest, RefuseManifest, ResultsMeasureCandidates
    <3>2. RunsAreAccepted' /\ ReportIsARanking'
      BY <2>1 DEF LoadManifest, RefuseManifest, RunsAreAccepted, ReportIsARanking
    <3> QED
      BY <3>1, <3>2
  <2>2. CASE StartBenchmark \/ RejectBenchmark
    <3>1. ResultsMeasureCandidates'
      BY <2>2 DEF StartBenchmark, RejectBenchmark, ResultsMeasureCandidates
    <3>2. IsAccepted' <=> IsAccepted
      BY <2>2 DEF StartBenchmark, RejectBenchmark, IsAccepted, CandidatesAreValid, UsesTools
    <3>3. RunsAreAccepted' /\ ReportIsARanking'
      BY <2>2, <3>2 DEF StartBenchmark, RejectBenchmark, RunsAreAccepted, ReportIsARanking
    <3> QED
      BY <3>1, <3>3
  <2>3. CASE ExecuteCandidate
    <3>1. PICK outcome \in Outcomes(Candidate) :
            results' = Append(results, [id |-> Candidate.id, outcome |-> outcome])
      BY <2>3 DEF ExecuteCandidate
    <3>2. stage = "running" /\ Len(results) < Len(setup.candidates) /\ stage' = stage
          /\ UNCHANGED <<manifest, workload, setup, report>>
      BY <2>3 DEF ExecuteCandidate, IsRunning
    <3>3. outcome \in CallOutcomes
      <4>1. BlockedOutcome \in CallOutcomes
        BY MissingIsANumber DEF BlockedOutcome, CallOutcomes, Metrics
      <4> QED
        BY <3>1, <4>1, BenchmarkAssumption DEF Outcomes
    <3>4. Len(results) \in Nat /\ Len(setup.candidates) \in Nat
          /\ DOMAIN setup.candidates = 1 .. Len(setup.candidates)
      BY SetupTypes DEF ResultsMeasureCandidates
    <3>5. Len(results) + 1 \in DOMAIN setup.candidates
      BY <3>2, <3>4
    <3>6. Candidate \in Candidates
      BY <3>5, SetupTypes DEF Candidate, ResultsMeasureCandidates
    <3> DEFINE new == [id |-> Candidate.id, outcome |-> outcome]
    <3>7. new \in Results /\ new.id = Candidate.id
      BY <3>3, <3>6 DEF Candidates, Results
    <3> HIDE DEF new
    <3>8. /\ results' \in Seq(Results) /\ Len(results') = Len(results) + 1
          /\ \A i \in 1 .. Len(results) : results'[i] = results[i]
          /\ results'[Len(results) + 1] = new
      <4>1. results' = Append(results, new) /\ results \in Seq(Results)
        BY <3>1 DEF new, ResultsMeasureCandidates
      <4>2. /\ Append(results, new) \in Seq(Results)
            /\ Len(Append(results, new)) = Len(results) + 1
            /\ \A i \in 1 .. Len(results) : Append(results, new)[i] = results[i]
            /\ Append(results, new)[Len(results) + 1] = new
        BY <3>7, <4>1, AppendFacts
      <4> QED
        BY <4>1, <4>2
    <3>9. ResultsMeasureCandidates'
      <4>1. setup' \in Setups /\ Len(results') <= Len(setup'.candidates)
        BY <3>2, <3>4, <3>8 DEF ResultsMeasureCandidates
      <4>2. ASSUME NEW i \in DOMAIN results' PROVE results'[i].id = setup'.candidates[i].id
        <5>1. i \in 1 .. Len(results) + 1
          BY <3>8
        <5>2. CASE i \in 1 .. Len(results)
          BY <3>2, <3>8, <5>2 DEF ResultsMeasureCandidates
        <5>3. CASE i = Len(results) + 1
          BY <3>2, <3>7, <3>8, <5>3 DEF Candidate
        <5> QED
          BY <3>4, <5>1, <5>2, <5>3
      <4> QED
        BY <3>8, <4>1, <4>2 DEF ResultsMeasureCandidates
    <3>10. IsAccepted' <=> IsAccepted
      BY <3>2 DEF IsAccepted, CandidatesAreValid, UsesTools
    <3>11. RunsAreAccepted' /\ ReportIsARanking'
      BY <3>2, <3>10 DEF RunsAreAccepted, ReportIsARanking
    <3> QED
      BY <3>9, <3>11
  <2>4. CASE ExecutorRaises
    <3>1. stage = "running" /\ stage' = "raised"
          /\ UNCHANGED <<manifest, workload, setup, results, report>>
      BY <2>4 DEF ExecutorRaises, IsRunning
    <3>2. IsAccepted' /\ IsAccepted
      BY <3>1 DEF IsAccepted, CandidatesAreValid, UsesTools, RunsAreAccepted
    <3>3. /\ IsPaired(Candidate)
          /\ ~UsesTools => Candidate.executor = "openrouter" /\ ~RefusesTools(Candidate)
      BY <2>4, <3>2 DEF ExecutorRaises, RefusesTools, IsAccepted
    <3>4. Candidate' = Candidate /\ (UsesTools' <=> UsesTools)
      BY <3>1 DEF Candidate, UsesTools
    <3>5. /\ IsPaired(Candidate)' <=> IsPaired(Candidate)
          /\ RefusesTools(Candidate)' <=> RefusesTools(Candidate)
      BY <3>1, <3>4 DEF IsPaired, RefusesTools
    <3>6. RunsAreAccepted'
      BY <3>1, <3>2, <3>3, <3>4, <3>5 DEF RunsAreAccepted
    <3> QED
      BY <3>1, <3>6 DEF ResultsMeasureCandidates, ReportIsARanking
  <2>5. CASE HarnessReturns
    <3>1. IsAccepted' <=> IsAccepted
      BY <2>5 DEF HarnessReturns, IsAccepted, CandidatesAreValid, UsesTools
    <3> QED
      BY <2>5, <3>1
         DEF HarnessReturns, ResultsMeasureCandidates, RunsAreAccepted, ReportIsARanking
  <2>6. CASE BuildReport
    <3>1. stage = "measured" /\ stage' = "reported"
          /\ UNCHANGED <<manifest, workload, setup, results>>
      BY <2>6 DEF BuildReport
    <3>2. PICK quality \in [DOMAIN results -> Qualities] :
            report' = ReportOn(Ranking(Lines(quality)))
      BY <2>6 DEF BuildReport
    <3>3. Lines(quality)' = Lines(quality)
      BY <3>1 DEF Lines
    <3>4. ReportIsARanking'
      <4>1. quality \in [DOMAIN results' -> Qualities]
            /\ report' = ReportOn(Ranking(Lines(quality)'))
        BY <3>1, <3>2, <3>3
      <4> QED
        BY <3>1, <4>1 DEF ReportIsARanking
    <3>5. IsAccepted' <=> IsAccepted
      BY <3>1 DEF IsAccepted, CandidatesAreValid, UsesTools
    <3> QED
      BY <3>1, <3>4, <3>5 DEF ResultsMeasureCandidates, RunsAreAccepted
  <2>7. CASE UNCHANGED benchmarkVars
    <3>1. UNCHANGED <<stage, manifest, workload, setup, results, report>>
      BY <2>7 DEF benchmarkVars
    <3>2. IsAccepted' <=> IsAccepted
      BY <3>1 DEF IsAccepted, CandidatesAreValid, UsesTools
    <3>3. ReportIsARanking'
      BY <3>1 DEF ReportIsARanking, Lines
    <3> QED
      BY <3>1, <3>2, <3>3 DEF ResultsMeasureCandidates, RunsAreAccepted, UsesTools, Candidate,
                                   IsPaired, RefusesTools
  <2> QED
    BY <2>1, <2>2, <2>3, <2>4, <2>5, <2>6, <2>7 DEF Next
<1> QED
  BY <1>1, <1>2, PTL DEF BenchmarkSpec

\* A report that was made: the ranked lines, with the marks of ties.
LEMMA ReportsRank ==
  ASSUME BenchmarkInvariant, stage = "reported"
  PROVE  \E s \in Seq(ReportLines) :
           /\ report = ReportOn(s) /\ DOMAIN s = 1 .. Len(s) /\ Len(s) = Len(results)
           /\ {s[n].id : n \in DOMAIN s} = {results[i].id : i \in DOMAIN results}
           /\ \A m, n \in DOMAIN s : m < n => Precedes(s[m], s[n])
PROOF
<1>1. ResultsMeasureCandidates /\ IsAccepted
  BY DEF BenchmarkInvariant, RunsAreAccepted
<1>2. PICK quality \in [DOMAIN results -> Qualities] : report = ReportOn(Ranking(Lines(quality)))
  BY DEF BenchmarkInvariant, ReportIsARanking
<1> DEFINE L == Lines(quality)
           s == Ranking(L)
<1>3. /\ L \subseteq ReportLines /\ IsFiniteSet(L) /\ Cardinality(L) = Len(results)
      /\ \A x, y \in L : x.id = y.id => x = y
      /\ {x.id : x \in L} = {results[i].id : i \in DOMAIN results}
  BY <1>1, LinesOfResults
<1> HIDE DEF L
<1>4. s \in SetToSeqs(L) /\ \A m, n \in DOMAIN s : m < n => Precedes(s[m], s[n])
  BY <1>3, RankingSorts
<1>5. report = ReportOn(s)
  BY <1>2 DEF L
<1> HIDE DEF s
<1>6. /\ s \in Seq(L) /\ Len(s) = Cardinality(L) /\ DOMAIN s = 1 .. Len(s)
      /\ \A x \in L : \E i \in DOMAIN s : s[i] = x
  BY <1>3, <1>4, OrderedElements
<1>7. \A i \in DOMAIN s : s[i] \in L
  BY <1>6
<1>8. {s[n].id : n \in DOMAIN s} = {x.id : x \in L}
  BY <1>6, <1>7
<1>9. s \in Seq(ReportLines)
  BY <1>3, <1>6
<1> QED
  BY <1>3, <1>4, <1>5, <1>6, <1>8, <1>9

(***************************************************************************)
(* Safety.                                                                 *)
(***************************************************************************)
\* Of two lines in the order of a ranking, the policy prefers the first.
LEMMA FirstDifferenceDecides ==
  ASSUME NEW x \in ReportLines, NEW y \in ReportLines, Precedes(x, y),
         StandInsAreWorse(x), StandInsAreWorse(y),
         NEW D, D = {c \in DOMAIN Criteria : x[Criteria[c]] # y[Criteria[c]]}, D # {}
  PROVE  /\ Min(D) \in 1 .. 5 /\ RankingKey(x)[Min(D)] # RankingKey(y)[Min(D)]
         /\ IsBetter(Criteria[Min(D)], x[Criteria[Min(D)]], y[Criteria[Min(D)]])
PROOF
<1>1. DOMAIN Criteria = 1 .. 5
  BY DEF Criteria
<1>2. D \subseteq Nat /\ D \subseteq 1 .. 5
  BY <1>1
<1>3. PICK c \in D : c = Min(D) /\ \A d \in D : c <= d
  BY <1>2, LeastOfNaturals
<1>4. c \in 1 .. 5 /\ x[Criteria[c]] # y[Criteria[c]]
  BY <1>1
<1>5. PICK n \in 1 .. 6 : /\ RankingKey(x)[n] < RankingKey(y)[n]
                          /\ \A m \in 1 .. n - 1 : RankingKey(x)[m] = RankingKey(y)[m]
  BY PrecedesIsBelow DEF IsBelow
<1>6. RankingKey(x)[c] # RankingKey(y)[c]
  BY <1>4, KeysFollowThePolicy
<1>7. ~(c < n)
  BY <1>4, <1>5, <1>6
<1>8. ~(n < c)
  <2> SUFFICES ASSUME n < c PROVE FALSE
    OBVIOUS
  <2>1. n \in 1 .. 5 /\ n \notin D
    BY <1>3, <1>4
  <2>2. x[Criteria[n]] = y[Criteria[n]]
    BY <1>1, <2>1
  <2>3. RankingKey(x)[n] = RankingKey(y)[n]
    BY <2>1, <2>2, EqualsHaveEqualKeys
  <2>4. RankingKey(x)[n] \in Int
    BY RankingKeys DEF Keys
  <2> QED
    BY <1>5, <2>3, <2>4
<1>9. n = c
  BY <1>4, <1>7, <1>8
<1>10. IsBetter(Criteria[c], x[Criteria[c]], y[Criteria[c]])
  BY <1>4, <1>5, <1>9, KeysFollowThePolicy
<1> QED
  BY <1>3, <1>4, <1>6, <1>10

\* If all marks between two lines say tied, the two are tied.
LEMMA TiesChain ==
  ASSUME NEW s \in Seq(ReportLines), NEW i \in DOMAIN s, NEW j \in DOMAIN s, i < j,
         \A m \in i + 1 .. j : TieKey(s[m]) = TieKey(s[m - 1])
  PROVE  TieKey(s[i]) = TieKey(s[j])
PROOF
<1>1. i \in Nat /\ j \in Nat /\ Len(s) \in Nat /\ DOMAIN s = 1 .. Len(s)
  OBVIOUS
<1> DEFINE W == {m \in i + 1 .. j : TieKey(s[m]) # TieKey(s[i])}
<1>2. SUFFICES ASSUME TieKey(s[i]) # TieKey(s[j]) PROVE FALSE
  OBVIOUS
<1>3. W \subseteq Nat /\ W # {}
  <2>1. j \in W
    BY <1>1, <1>2
  <2> QED
    BY <1>1, <2>1
<1>4. PICK m \in W : \A w \in W : m <= w
  <2> HIDE DEF W
  <2> QED
    BY <1>3, LeastOfNaturals
<1>5. m \in i + 1 .. j /\ TieKey(s[m]) # TieKey(s[i])
  OBVIOUS
<1>6. CASE m = i + 1
  <2>1. m - 1 = i
    BY <1>1, <1>6
  <2> QED
    BY <1>5, <2>1
<1>7. CASE m # i + 1
  <2>1. m - 1 \in i + 1 .. j /\ ~(m <= m - 1)
    BY <1>1, <1>5, <1>7
  <2>2. TieKey(s[m - 1]) = TieKey(s[i])
    BY <1>4, <2>1
  <2> QED
    BY <1>5, <2>2
<1> QED
  BY <1>6, <1>7

\* Lines between two tied lines are tied with both.
LEMMA TiesFill ==
  ASSUME NEW s \in Seq(ReportLines), \A m, n \in DOMAIN s : m < n => Precedes(s[m], s[n]),
         NEW i \in DOMAIN s, NEW j \in DOMAIN s, TieKey(s[i]) = TieKey(s[j]),
         NEW m \in DOMAIN s, i <= m, m <= j
  PROVE  TieKey(s[m]) = TieKey(s[i])
PROOF
<1>1. /\ s[i] \in ReportLines /\ s[j] \in ReportLines /\ s[m] \in ReportLines
      /\ i \in Nat /\ j \in Nat /\ m \in Nat
  OBVIOUS
<1> DEFINE k == RankingKey(s[i])  l == RankingKey(s[m])  p == RankingKey(s[j])
<1>2. k \in Keys /\ l \in Keys /\ p \in Keys
  BY <1>1, RankingKeys
<1>3. i = m \/ Precedes(s[i], s[m])
  BY <1>1
<1>4. m = j \/ Precedes(s[m], s[j])
  BY <1>1
<1>5. k = l \/ IsBelow(k, l)
  BY <1>1, <1>3, PrecedesIsBelow
<1>6. l = p \/ IsBelow(l, p)
  BY <1>1, <1>4, PrecedesIsBelow
<1>7. \A c \in 1 .. 5 : k[c] = p[c]
  BY <1>1, TiesAreKeys
<1>8. \A c \in 1 .. 5 : k[c] = l[c]
  <2> HIDE DEF k, l, p
  <2> QED
    BY <1>2, <1>5, <1>6, <1>7, KeysBetween
<1> QED
  BY <1>1, <1>8, TiesAreKeys

\* The two sides of the policy for one report.
LEMMA RankedReports ==
  ASSUME NEW s \in Seq(ReportLines), \A m, n \in DOMAIN s : m < n => Precedes(s[m], s[n]),
         NEW i \in DOMAIN s, NEW j \in DOMAIN s, i < j,
         NEW D, D = {c \in DOMAIN Criteria : s[i][Criteria[c]] # s[j][Criteria[c]]}
  PROVE  /\ D = {} => \A m \in i + 1 .. j : ReportOn(s)[m].tied
         /\ D # {} /\ StandInsAreWorse(s[i]) /\ StandInsAreWorse(s[j]) =>
              /\ IsBetter(Criteria[Min(D)], s[i][Criteria[Min(D)]], s[j][Criteria[Min(D)]])
              /\ \E m \in i + 1 .. j : ~ReportOn(s)[m].tied
PROOF
<1>1. /\ i \in Nat /\ j \in Nat /\ i > 0 /\ Len(s) \in Nat /\ DOMAIN s = 1 .. Len(s)
      /\ s[i] \in ReportLines /\ s[j] \in ReportLines
  OBVIOUS
<1>2. ASSUME NEW m \in i + 1 .. j
      PROVE  /\ m \in DOMAIN s /\ m - 1 \in DOMAIN s /\ m > 1 /\ i <= m - 1 /\ m <= j
             /\ m - 1 <= j /\ i <= m
             /\ ReportOn(s)[m].tied <=> TieKey(s[m]) = TieKey(s[m - 1])
  <2>1. m \in DOMAIN s /\ m - 1 \in DOMAIN s /\ m > 1 /\ i <= m - 1 /\ m <= j
        /\ m - 1 <= j /\ i <= m
    BY <1>1
  <2> QED
    BY <2>1 DEF ReportOn
<1>3. DOMAIN Criteria = 1 .. 5
  BY DEF Criteria
<1>4. ASSUME D = {} PROVE \A m \in i + 1 .. j : ReportOn(s)[m].tied
  <2>1. \A c \in 1 .. 5 : s[i][Criteria[c]] = s[j][Criteria[c]]
    BY <1>3, <1>4
  <2>2. \A c \in 1 .. 5 : RankingKey(s[i])[c] = RankingKey(s[j])[c]
    BY <1>1, <2>1, EqualsHaveEqualKeys
  <2>3. TieKey(s[i]) = TieKey(s[j])
    BY <1>1, <2>2, TiesAreKeys
  <2> TAKE m \in i + 1 .. j
  <2>4. TieKey(s[m]) = TieKey(s[i]) /\ TieKey(s[m - 1]) = TieKey(s[i])
    BY <1>2, <2>3, TiesFill
  <2> QED
    BY <1>2, <2>4
<1>5. ASSUME D # {}, StandInsAreWorse(s[i]), StandInsAreWorse(s[j])
      PROVE  /\ IsBetter(Criteria[Min(D)], s[i][Criteria[Min(D)]], s[j][Criteria[Min(D)]])
             /\ \E m \in i + 1 .. j : ~ReportOn(s)[m].tied
  <2>1. /\ Min(D) \in 1 .. 5 /\ RankingKey(s[i])[Min(D)] # RankingKey(s[j])[Min(D)]
        /\ IsBetter(Criteria[Min(D)], s[i][Criteria[Min(D)]], s[j][Criteria[Min(D)]])
    BY <1>1, <1>5, FirstDifferenceDecides
  <2>2. TieKey(s[i]) # TieKey(s[j])
    BY <1>1, <2>1, TiesAreKeys
  <2>3. \E m \in i + 1 .. j : ~ReportOn(s)[m].tied
    BY <1>2, <2>2, TiesChain
  <2> QED
    BY <2>1, <2>3
<1> QED
  BY <1>4, <1>5

(* RankingFollowsThePolicy: for any whole-number measurements of any number*)
(* of results, the report of _ranking_key and _tie_key orders and ties any *)
(* two of them as the published policy does if both stay clear of the      *)
(* numbers that stand in for missing metrics.                              *)
THEOREM RankingSafety == BenchmarkSpec => []RankingFollowsThePolicy
PROOF
<1>1. BenchmarkInvariant => RankingFollowsThePolicy
  <2> SUFFICES ASSUME BenchmarkInvariant PROVE RankingFollowsThePolicy
    OBVIOUS
  <2>1. CASE stage # "reported"
    <3>1. report = << >>
      BY <2>1 DEF BenchmarkInvariant, ReportIsARanking
    <3> QED
      BY <3>1 DEF RankingFollowsThePolicy
  <2>2. CASE stage = "reported"
    <3>1. PICK s \in Seq(ReportLines) :
            /\ report = ReportOn(s)
            /\ \A m, n \in DOMAIN s : m < n => Precedes(s[m], s[n])
      BY <2>2, ReportsRank
    <3>2. DOMAIN report = DOMAIN s /\ \A n \in DOMAIN s : report[n].line = s[n]
      BY <3>1 DEF ReportOn
    <3>3. ASSUME NEW i \in DOMAIN s, NEW j \in DOMAIN s, i < j,
                 StandInsAreWorse(report[i].line), StandInsAreWorse(report[j].line),
                 NEW D, D = {c \in DOMAIN Criteria : report[i].line[Criteria[c]]
                                                     # report[j].line[Criteria[c]]}
          PROVE  IF D = {} THEN \A m \in i + 1 .. j : report[m].tied
                 ELSE /\ IsBetter(Criteria[Min(D)], report[i].line[Criteria[Min(D)]],
                                  report[j].line[Criteria[Min(D)]])
                      /\ \E m \in i + 1 .. j : ~report[m].tied
      <4>1. report[i].line = s[i] /\ report[j].line = s[j]
        BY <3>2, <3>3
      <4>2. D = {c \in DOMAIN Criteria : s[i][Criteria[c]] # s[j][Criteria[c]]}
        BY <3>3, <4>1
      <4>3. /\ D = {} => \A m \in i + 1 .. j : ReportOn(s)[m].tied
            /\ D # {} /\ StandInsAreWorse(s[i]) /\ StandInsAreWorse(s[j]) =>
                 /\ IsBetter(Criteria[Min(D)], s[i][Criteria[Min(D)]], s[j][Criteria[Min(D)]])
                 /\ \E m \in i + 1 .. j : ~ReportOn(s)[m].tied
        BY <3>1, <3>3, <4>2, RankedReports
      <4> QED
        BY <3>1, <3>3, <4>1, <4>3
    <3> QED
      BY <3>2, <3>3, Zenon DEF RankingFollowsThePolicy
  <2> QED
    BY <2>1, <2>2
<1> QED
  BY <1>1, BenchmarkInvariance, PTL

(* ToollessBenchmarksComplete: whatever the candidates, what was accepted  *)
(* without tools is never refused by an executor, so that only a hosted    *)
(* response that is no object stops it; and where none does, no result is  *)
(* lost or invented on its way into the report (_validate_candidates).     *)
THEOREM CompletenessSafety == BenchmarkSpec => []ToollessBenchmarksComplete
PROOF
<1>1. BenchmarkInvariant => ToollessBenchmarksComplete
  <2> SUFFICES ASSUME BenchmarkInvariant PROVE ToollessBenchmarksComplete
    OBVIOUS
  <2>1. stage = "raised" /\ ~UsesTools =>
          Candidate.executor = "openrouter" /\ ~RefusesTools(Candidate)
    BY DEF BenchmarkInvariant, RunsAreAccepted
  <2>2. ASSUME stage \in {"measured", "reported"}
        PROVE  [i \in DOMAIN results |-> results[i].id]
                 = [i \in DOMAIN setup.candidates |-> setup.candidates[i].id]
    <3>1. Len(results) = Len(setup.candidates)
      BY <2>2 DEF BenchmarkInvariant, RunsAreAccepted
    <3>2. DOMAIN results = 1 .. Len(results)
          /\ DOMAIN setup.candidates = 1 .. Len(setup.candidates)
      BY SetupTypes DEF BenchmarkInvariant, ResultsMeasureCandidates
    <3>3. \A i \in DOMAIN results : results[i].id = setup.candidates[i].id
      BY DEF BenchmarkInvariant, ResultsMeasureCandidates
    <3> QED
      BY <3>1, <3>2, <3>3, Zenon
  <2>3. ASSUME stage = "reported"
        PROVE  /\ Len(report) = Len(results)
               /\ {report[n].line.id : n \in DOMAIN report}
                    = {results[i].id : i \in DOMAIN results}
    <3>1. PICK s \in Seq(ReportLines) :
            /\ report = ReportOn(s) /\ DOMAIN s = 1 .. Len(s) /\ Len(s) = Len(results)
            /\ {s[n].id : n \in DOMAIN s} = {results[i].id : i \in DOMAIN results}
      BY <2>3, ReportsRank
    <3>2. DOMAIN report = DOMAIN s /\ \A n \in DOMAIN s : report[n].line = s[n]
      BY <3>1 DEF ReportOn
    <3>3. Len(report) = Len(s)
      <4>1. Len(s) \in Nat
        OBVIOUS
      <4> QED
        BY <3>1, <3>2, <4>1
    <3>4. {report[n].line.id : n \in DOMAIN report} = {s[n].id : n \in DOMAIN s}
      BY <3>2
    <3> QED
      BY <3>1, <3>3, <3>4
  <2> QED
    BY <2>1, <2>2, <2>3 DEF ToollessBenchmarksComplete
<1> QED
  BY <1>1, BenchmarkInvariance, PTL
=============================================================================
