--------------------------- MODULE CollectionTheorems ---------------------------
(***************************************************************************)
(* Lemmas about least elements, sorted sequences and sums that the proofs  *)
(* about logs, rankings, plans and reports share.  An order is a set of    *)
(* pairs; induction is by a smallest counterexample, since every set of    *)
(* finite sets that is not empty has a member no other is a part of.       *)
(***************************************************************************)
EXTENDS Integers, Sequences, SequencesExt, FiniteSetsExt, FiniteSetTheorems, TLAPS

LEMMA SmallestSet ==
  ASSUME NEW S, NEW T \in SUBSET FiniteSubsetsOf(S), T # {}
  PROVE  \E X \in T : \A Y \in T : Y \subseteq X => Y = X
PROOF
<1>1. PICK X \in T : \A Y \in T : ~(<<Y, X>> \in StrictSubsetOrdering(S))
  BY FS_StrictSubsetOrderingWellFounded, WFMin
<1>2. \A Y \in T : Y \subseteq X => Y = X
  BY <1>1 DEF StrictSubsetOrdering, FiniteSubsetsOf
<1> QED
  BY <1>2

\* A set of natural numbers that is not empty has a least element.
LEMMA LeastOfNaturals ==
  ASSUME NEW S, S \subseteq Nat, S # {}
  PROVE  Min(S) \in S /\ \A j \in S : Min(S) <= j
PROOF
<1> DEFINE Below(n) == 0 .. n - 1
           T == {Below(n) : n \in S}
<1>1. \A n \in S : Below(n) \in SUBSET Nat /\ IsFiniteSet(Below(n))
  <2> TAKE n \in S
  <2>1. 0 \in Int /\ n - 1 \in Int
    OBVIOUS
  <2>2. IsFiniteSet(0 .. n - 1)
    BY <2>1, FS_Interval
  <2> QED
    BY <2>1, <2>2
<1>2. T \in SUBSET FiniteSubsetsOf(Nat) /\ T # {}
  BY <1>1 DEF FiniteSubsetsOf
<1>3. PICK X \in T : \A Y \in T : Y \subseteq X => Y = X
  <2> HIDE DEF T
  <2> QED
    BY <1>2, SmallestSet
<1>4. PICK m \in S : X = Below(m)
  OBVIOUS
<1>5. \A j \in S : m <= j
  <2> SUFFICES ASSUME NEW j \in S, j < m PROVE FALSE
    OBVIOUS
  <2>1. Below(j) \in T /\ Below(j) \subseteq Below(m)
    OBVIOUS
  <2>2. j \in Below(m) /\ j \notin Below(j)
    OBVIOUS
  <2> QED
    BY <1>3, <1>4, <2>1, <2>2
<1> QED
  BY <1>4, <1>5 DEF Min

IsTotalOn(R, S) ==
  /\ \A x, y \in S : x # y => (<<x, y>> \in R \/ <<y, x>> \in R)
  /\ \A x, y, z \in S : <<x, y>> \in R /\ <<y, z>> \in R => <<x, z>> \in R

LEMMA GreatestElement ==
  ASSUME NEW S, IsFiniteSet(S), S # {}, NEW R, IsTotalOn(R, S)
  PROVE  \E m \in S : \A x \in S \ {m} : <<x, m>> \in R
PROOF
<1> DEFINE HasOne(X) == \E m \in X : \A x \in X \ {m} : <<x, m>> \in R
           T == {X \in SUBSET S : X # {} /\ ~HasOne(X)}
<1>1. SUFFICES ASSUME T # {} PROVE FALSE
  OBVIOUS
<1>2. T \in SUBSET FiniteSubsetsOf(S)
  BY FS_Subset DEF FiniteSubsetsOf
<1>3. PICK X \in T : \A Y \in T : Y \subseteq X => Y = X
  <2> HIDE DEF T
  <2> QED
    BY <1>1, <1>2, SmallestSet
<1>4. PICK y \in X : TRUE
  OBVIOUS
<1>5. X \ {y} # {}
  OBVIOUS
<1>6. HasOne(X \ {y})
  <2>1. X \ {y} \notin T
    BY <1>3
  <2> QED
    BY <2>1, <1>5
<1>7. PICK m \in X \ {y} : \A x \in X \ {y} : x # m => <<x, m>> \in R
  BY <1>6
<1>8. CASE <<y, m>> \in R
  <2>1. \A x \in X \ {m} : <<x, m>> \in R
    BY <1>7, <1>8
  <2> QED
    BY <2>1
<1>9. CASE <<m, y>> \in R
  <2>1. \A x \in X \ {y} : <<x, y>> \in R
    BY <1>7, <1>9 DEF IsTotalOn
  <2> QED
    BY <2>1
<1> QED
  BY <1>8, <1>9, <1>7 DEF IsTotalOn

(***************************************************************************)
(* Sequences of the elements of a set.                                     *)
(***************************************************************************)
\* SetToSeqs orders all elements of a finite set, each once.
LEMMA OrderedElements ==
  ASSUME NEW S, IsFiniteSet(S), NEW s \in SetToSeqs(S)
  PROVE  /\ Cardinality(S) \in Nat
         /\ s \in Seq(S) /\ s \in [1 .. Cardinality(S) -> S]
         /\ DOMAIN s = 1 .. Cardinality(S) /\ Len(s) = Cardinality(S)
         /\ \A i, j \in DOMAIN s : s[i] = s[j] => i = j
         /\ \A x \in S : \E i \in DOMAIN s : s[i] = x
PROOF
<1>1. Cardinality(S) \in Nat
  BY FS_CardinalityType
<1>2. s \in [1 .. Cardinality(S) -> S] /\ \A i, j \in DOMAIN s : s[i] = s[j] => i = j
  BY DEF SetToSeqs
<1>3. s \in Seq(S) /\ DOMAIN s = 1 .. Cardinality(S) /\ Len(s) = Cardinality(S)
  BY <1>1, <1>2
<1>4. s \in Injection(1 .. Cardinality(S), S)
  BY <1>2 DEF Injection, IsInjective
<1>5. IsFiniteSet(1 .. Cardinality(S)) /\ Cardinality(1 .. Cardinality(S)) = Cardinality(S)
  BY <1>1, FS_Interval
<1>6. s \in Surjection(1 .. Cardinality(S), S)
  BY <1>4, <1>5, FS_Injection
<1> QED
  BY <1>1, <1>2, <1>3, <1>6 DEF Surjection

\* A finite set can be sorted by a total order.
LEMMA SortExists ==
  ASSUME NEW S, IsFiniteSet(S), NEW R, IsTotalOn(R, S)
  PROVE  \E s \in SetToSeqs(S) : \A i, j \in DOMAIN s : i < j => <<s[i], s[j]>> \in R
PROOF
<1> DEFINE Sorts(s, X) == s \in SetToSeqs(X) /\ \A i, j \in DOMAIN s : i < j => <<s[i], s[j]>> \in R
           T == {X \in SUBSET S : ~\E s \in SetToSeqs(X) : Sorts(s, X)}
<1>1. SUFFICES ASSUME T # {} PROVE FALSE
  BY DEF SetToSeqs
<1>2. T \in SUBSET FiniteSubsetsOf(S)
  BY FS_Subset DEF FiniteSubsetsOf
<1>3. PICK X \in T : \A Y \in T : Y \subseteq X => Y = X
  <2> HIDE DEF T
  <2> QED
    BY <1>1, <1>2, SmallestSet
<1>4. IsFiniteSet(X) /\ X \subseteq S
  BY FS_Subset
<1>5. CASE X = {}
  <2> DEFINE e == [i \in 1 .. 0 |-> i]
  <2>1. Cardinality(X) = 0
    BY <1>5, FS_EmptySet
  <2>2. e \in SetToSeqs(X) /\ DOMAIN e = {}
    BY <1>5, <2>1 DEF SetToSeqs
  <2>3. Sorts(e, X)
    BY <2>2
  <2> QED
    BY <2>2, <2>3
<1>6. CASE X # {}
  <2>1. PICK m \in X : \A x \in X \ {m} : <<x, m>> \in R
    <3>1. IsTotalOn(R, X)
      BY <1>4 DEF IsTotalOn
    <3> QED
      BY <1>4, <1>6, <3>1, GreatestElement
  <2> DEFINE Y == X \ {m}  n == Cardinality(Y)
  <2>2. IsFiniteSet(Y) /\ n \in Nat /\ Cardinality(X) = n + 1
    <3>1. IsFiniteSet(X \ {m}) /\ Cardinality(X \ {m}) = Cardinality(X) - 1
      BY <1>4, FS_RemoveElement
    <3>2. Cardinality(X) \in Nat /\ Cardinality(X \ {m}) \in Nat
      BY <1>4, <3>1, FS_CardinalityType
    <3> QED
      BY <3>1, <3>2
  <2>3. PICK s \in SetToSeqs(Y) : Sorts(s, Y)
    BY <1>3, <1>4
  <2> DEFINE t == [i \in 1 .. n + 1 |-> IF i <= n THEN s[i] ELSE m]
  <2>4. /\ s \in [1 .. n -> Y]
        /\ \A i, j \in 1 .. n : i # j => s[i] # s[j]
        /\ \A i, j \in 1 .. n : i < j => <<s[i], s[j]>> \in R
    <3>1. DOMAIN s = 1 .. n
      BY DEF SetToSeqs
    <3> QED
      BY <2>3, <3>1 DEF SetToSeqs
  <2> HIDE DEF Y, n
  <2>5. /\ t \in [1 .. n + 1 -> X]
        /\ \A i, j \in 1 .. n + 1 : i # j => t[i] # t[j]
    BY <2>2, <2>4 DEF Y
  <2>6. \A i, j \in 1 .. n + 1 : i < j => <<t[i], t[j]>> \in R
    <3> TAKE i, j \in 1 .. n + 1
    <3> HAVE i < j
    <3>1. i \in 1 .. n /\ t[i] = s[i] /\ s[i] \in Y
      BY <2>2, <2>4
    <3>2. CASE j = n + 1
      <4>1. t[j] = m
        BY <2>2, <3>2
      <4> QED
        BY <2>1, <3>1, <4>1 DEF Y
    <3>3. CASE j \in 1 .. n
      <4>1. t[j] = s[j]
        BY <2>2, <3>3
      <4> QED
        BY <2>4, <3>1, <3>3, <4>1
    <3> QED
      BY <2>2, <3>2, <3>3
  <2>7. t \in SetToSeqs(X) /\ DOMAIN t = 1 .. n + 1
    BY <2>2, <2>5 DEF SetToSeqs
  <2> HIDE DEF t
  <2>8. Sorts(t, X)
    BY <2>6, <2>7
  <2> QED
    BY <2>7, <2>8
<1> QED
  BY <1>5, <1>6

\* Sorted numbers up to a bound begin the sequence of all of them.
LEMMA SortedPrefix ==
  ASSUME NEW S \in SUBSET Nat, IsFiniteSet(S), NEW n \in Nat,
         NEW s \in SetToSeqs(S), \A i, j \in DOMAIN s : i < j => s[i] < s[j],
         NEW t \in SetToSeqs({i \in S : i <= n}), \A i, j \in DOMAIN t : i < j => t[i] < t[j]
  PROVE  /\ DOMAIN t \subseteq DOMAIN s /\ Len(t) <= Len(s)
         /\ \A k \in DOMAIN t : t[k] = s[k]
PROOF
<1> DEFINE T == {i \in S : i <= n}
           a == Cardinality(S)
           b == Cardinality(T)
<1>1. IsFiniteSet(T) /\ T \subseteq S /\ b <= a
  BY FS_Subset
<1>2. /\ a \in Nat /\ s \in [1 .. a -> S]
      /\ DOMAIN s = 1 .. a /\ Len(s) = a
      /\ \A x \in S : \E i \in DOMAIN s : s[i] = x
  BY OrderedElements
<1>3. /\ b \in Nat /\ t \in [1 .. b -> T]
      /\ DOMAIN t = 1 .. b /\ Len(t) = b
      /\ \A x \in T : \E i \in DOMAIN t : t[i] = x
  BY <1>1, OrderedElements
<1> HIDE DEF T, a, b
<1>4. DOMAIN t \subseteq DOMAIN s /\ Len(t) <= Len(s)
  BY <1>1, <1>2, <1>3
<1>5. ASSUME NEW k \in DOMAIN t, t[k] # s[k], \A j \in DOMAIN t : j < k => t[j] = s[j]
      PROVE  FALSE
  <2>1. k \in Nat /\ k \in DOMAIN s /\ t[k] \in T /\ t[k] \in Nat /\ s[k] \in S /\ s[k] \in Nat
    <3>1. k \in 1 .. b /\ k \in 1 .. a
      BY <1>2, <1>3, <1>4
    <3>2. t[k] \in T /\ s[k] \in S
      BY <1>2, <1>3, <3>1
    <3>3. k \in Nat /\ k \in DOMAIN s
      BY <1>2, <3>1
    <3>4. t[k] \in Nat /\ s[k] \in Nat
      BY <1>1, <3>2
    <3> QED
      BY <3>2, <3>3, <3>4
  <2>2. PICK j \in DOMAIN s : s[j] = t[k]
    BY <1>1, <1>2, <2>1
  <2>3. j > k
    <3>1. j # k
      BY <1>5, <2>2
    <3>2. ~(j < k)
      <4> SUFFICES ASSUME j < k PROVE FALSE
        OBVIOUS
      <4>1. j \in DOMAIN t
        BY <1>2, <1>3, <2>1
      <4>2. t[j] = s[j] /\ t[j] < t[k]
        BY <1>5, <4>1
      <4> QED
        BY <2>1, <2>2, <4>2
    <3> QED
      BY <1>2, <2>1, <3>1, <3>2
  <2>4. s[k] \in T
    <3>1. t[k] <= n /\ s[k] < s[j]
      BY <2>1, <2>3 DEF T
    <3> QED
      BY <2>1, <2>2, <3>1 DEF T
  <2>5. PICK m \in DOMAIN t : t[m] = s[k]
    BY <1>3, <2>4
  <2>6. m \in Nat /\ m # k
    BY <1>3, <1>5, <2>5
  <2>7. CASE m < k
    <3>1. m \in DOMAIN s /\ s[m] = t[m] /\ s[m] < s[k]
      BY <1>4, <1>5, <2>1, <2>7
    <3> QED
      BY <2>1, <2>5, <3>1
  <2>8. CASE m > k
    <3>1. t[k] < t[m] /\ s[k] < s[j]
      BY <2>1, <2>3, <2>8
    <3> QED
      BY <2>1, <2>2, <2>5, <3>1
  <2> QED
    BY <2>1, <2>6, <2>7, <2>8
<1> DEFINE D == {k \in DOMAIN t : t[k] # s[k]}
<1>6. D = {}
  <2> SUFFICES ASSUME D # {} PROVE FALSE
    OBVIOUS
  <2>1. D \subseteq Nat
    BY <1>3
  <2>2. Min(D) \in D /\ \A j \in D : Min(D) <= j
    <3> HIDE DEF D
    <3> QED
      BY <2>1, LeastOfNaturals
  <2>3. Min(D) \in DOMAIN t /\ t[Min(D)] # s[Min(D)]
    BY <2>2
  <2>4. \A j \in DOMAIN t : j < Min(D) => t[j] = s[j]
    <3> SUFFICES ASSUME NEW j \in DOMAIN t, j < Min(D), t[j] # s[j] PROVE FALSE
      OBVIOUS
    <3>1. j \in D /\ j \in Nat
      BY <1>3
    <3>2. Min(D) <= j /\ Min(D) \in Nat
      BY <2>1, <2>2, <3>1
    <3> HIDE DEF D
    <3> QED
      BY <3>1, <3>2
  <2> QED
    BY <1>5, <2>3, <2>4
<1> QED
  BY <1>4, <1>6

(***************************************************************************)
(* Sums over finite sets.                                                  *)
(***************************************************************************)
SumOf(f, S) == MapThenSumSet(LAMBDA i : f[i], S)

Pick(s) == CHOOSE x \in s : TRUE
\* g sums f over every part of S, element by element.
SumsParts(g, f, S) ==
  g = [s \in SUBSET S |-> IF s = {} THEN 0 ELSE f[Pick(s)] + g[s \ {Pick(s)}]]

LEMMA SumOfIsChosen ==
  ASSUME NEW f, NEW S
  PROVE  SumOf(f, S) = (CHOOSE g : SumsParts(g, f, S))[S]
PROOF
BY Zenon DEF SumOf, MapThenSumSet, MapThenFoldSet, SumsParts, Pick

LEMMA SumsUnfold ==
  ASSUME NEW f, NEW S, NEW g, SumsParts(g, f, S), NEW s \in SUBSET S
  PROVE  g[s] = IF s = {} THEN 0 ELSE f[Pick(s)] + g[s \ {Pick(s)}]
PROOF
BY DEF SumsParts

LEMMA PickIsIn ==
  ASSUME NEW s, s # {}
  PROVE  Pick(s) \in s /\ s \ {Pick(s)} \subseteq s /\ s \ {Pick(s)} # s
PROOF
<1>1. Pick(s) \in s
  BY DEF Pick
<1> QED
  BY <1>1

LEMMA SumsAgree ==
  ASSUME NEW f, NEW S, NEW g, SumsParts(g, f, S), NEW T, NEW h, SumsParts(h, f, T),
         NEW s \in SUBSET S, s \subseteq T, IsFiniteSet(s)
  PROVE  g[s] = h[s]
PROOF
<1> DEFINE Bad == {X \in SUBSET s : g[X] # h[X]}
<1>1. SUFFICES ASSUME Bad # {} PROVE FALSE
  OBVIOUS
<1>2. Bad \in SUBSET FiniteSubsetsOf(s)
  BY FS_Subset DEF FiniteSubsetsOf
<1>3. PICK X \in Bad : \A Y \in Bad : Y \subseteq X => Y = X
  <2> HIDE DEF Bad
  <2> QED
    BY <1>1, <1>2, SmallestSet
<1>4. X \in SUBSET S /\ X \in SUBSET T
  OBVIOUS
<1>5. X # {}
  BY <1>4, SumsUnfold
<1> DEFINE Y == X \ {Pick(X)}
<1>6. Y \subseteq X /\ Y # X
  BY <1>5, PickIsIn
<1>7. g[Y] = h[Y]
  BY <1>3, <1>6
<1>8. g[X] = f[Pick(X)] + g[Y] /\ h[X] = f[Pick(X)] + h[Y]
  BY <1>4, <1>5, SumsUnfold
<1> QED
  BY <1>7, <1>8

LEMMA SumsExist ==
  ASSUME NEW f, NEW S, IsFiniteSet(S)
  PROVE  \E g : SumsParts(g, f, S)
PROOF
<1> DEFINE Bad == {X \in SUBSET S : ~\E g : SumsParts(g, f, X)}
<1>1. SUFFICES ASSUME Bad # {} PROVE FALSE
  OBVIOUS
<1>2. Bad \in SUBSET FiniteSubsetsOf(S)
  BY FS_Subset DEF FiniteSubsetsOf
<1>3. PICK X \in Bad : \A Y \in Bad : Y \subseteq X => Y = X
  <2> HIDE DEF Bad
  <2> QED
    BY <1>1, <1>2, SmallestSet
<1> DEFINE G(s) == CHOOSE g : SumsParts(g, f, s)
           Rest(s) == s \ {Pick(s)}
           all == [s \in SUBSET X |-> IF s = {} THEN 0 ELSE f[Pick(s)] + G(Rest(s))[Rest(s)]]
<1>4. \A s \in SUBSET X : s # X => SumsParts(G(s), f, s)
  BY <1>3
<1>5. \A s \in SUBSET X : s # {} => Rest(s) \in SUBSET X /\ Rest(s) # X /\ IsFiniteSet(Rest(s))
  BY PickIsIn, FS_Subset
<1>6. \A s \in SUBSET X : s # X => G(s)[s] = all[s]
  <2> SUFFICES ASSUME NEW s \in SUBSET X, s # X PROVE G(s)[s] = all[s]
    OBVIOUS
  <2>1. SumsParts(G(s), f, s) /\ s \in SUBSET s
    BY <1>4
  <2> HIDE DEF G
  <2>2. G(s)[s] = IF s = {} THEN 0 ELSE f[Pick(s)] + G(s)[Rest(s)]
    BY <2>1, SumsUnfold
  <2>3. s # {} => G(s)[Rest(s)] = G(Rest(s))[Rest(s)]
    <3> SUFFICES ASSUME s # {} PROVE G(s)[Rest(s)] = G(Rest(s))[Rest(s)]
      OBVIOUS
    <3>1. SumsParts(G(Rest(s)), f, Rest(s)) /\ IsFiniteSet(Rest(s))
      BY <1>4, <1>5
    <3>2. Rest(s) \in SUBSET s
      OBVIOUS
    <3> HIDE DEF Rest
    <3> QED
      BY <2>1, <3>1, <3>2, SumsAgree
  <2> QED
    BY <2>2, <2>3
<1>7. \A s \in SUBSET X : s # {} => G(Rest(s))[Rest(s)] = all[Rest(s)]
  BY <1>5, <1>6
<1>8. SumsParts(all, f, X)
  <2>1. all = [s \in SUBSET X |-> IF s = {} THEN 0 ELSE f[Pick(s)] + all[Rest(s)]]
    <3>1. all = [s \in SUBSET X |-> IF s = {} THEN 0 ELSE f[Pick(s)] + G(Rest(s))[Rest(s)]]
      OBVIOUS
    <3> HIDE DEF all, G, Rest
    <3> QED
      BY <1>7, <3>1
  <2> HIDE DEF all
  <2> QED
    BY <2>1 DEF SumsParts
<1> QED
  BY <1>8

LEMMA SumUnfolds ==
  ASSUME NEW f, NEW S, IsFiniteSet(S)
  PROVE  SumOf(f, S) = IF S = {} THEN 0 ELSE f[Pick(S)] + SumOf(f, S \ {Pick(S)})
PROOF
<1> DEFINE G(s) == CHOOSE g : SumsParts(g, f, s)
           T == S \ {Pick(S)}
<1>1. SumsParts(G(S), f, S)
  BY SumsExist
<1>2. IsFiniteSet(T) /\ T \subseteq S
  BY FS_Subset
<1>3. SumsParts(G(T), f, T)
  BY <1>2, SumsExist
<1>4. SumOf(f, S) = G(S)[S] /\ SumOf(f, T) = G(T)[T]
  BY SumOfIsChosen
<1> HIDE DEF G
<1>5. G(S)[S] = IF S = {} THEN 0 ELSE f[Pick(S)] + G(S)[T]
  BY <1>1, SumsUnfold
<1>6. G(S)[T] = G(T)[T]
  BY <1>1, <1>2, <1>3, SumsAgree
<1> QED
  BY <1>4, <1>5, <1>6

Summable(f, S) == IsFiniteSet(S) /\ \A i \in S : f[i] \in Int

\* A statement about finite sets holds if it holds of a set whenever it holds of its
\* proper parts; here for the two facts that need it.
LEMMA SumIsInt ==
  ASSUME NEW f, NEW S, Summable(f, S)
  PROVE  SumOf(f, S) \in Int
PROOF
<1> DEFINE Bad == {X \in SUBSET S : SumOf(f, X) \notin Int}
<1>1. SUFFICES ASSUME Bad # {} PROVE FALSE
  OBVIOUS
<1>2. Bad \in SUBSET FiniteSubsetsOf(S)
  BY FS_Subset DEF FiniteSubsetsOf, Summable
<1>3. PICK X \in Bad : \A Y \in Bad : Y \subseteq X => Y = X
  <2> HIDE DEF Bad
  <2> QED
    BY <1>1, <1>2, SmallestSet
<1>4. IsFiniteSet(X) /\ X \in SUBSET S
  BY <1>2 DEF FiniteSubsetsOf
<1>5. SumOf(f, X) = IF X = {} THEN 0 ELSE f[Pick(X)] + SumOf(f, X \ {Pick(X)})
  BY <1>4, SumUnfolds
<1>6. X # {}
  BY <1>5
<1>7. Pick(X) \in X /\ X \ {Pick(X)} \subseteq X /\ X \ {Pick(X)} # X
  BY <1>6, PickIsIn
<1>8. SumOf(f, X \ {Pick(X)}) \in Int
  BY <1>3, <1>4, <1>7
<1>9. f[Pick(X)] \in Int
  BY <1>4, <1>7 DEF Summable
<1> QED
  BY <1>5, <1>6, <1>8, <1>9

LEMMA SummableParts ==
  ASSUME NEW f, NEW S, Summable(f, S), NEW T \in SUBSET S
  PROVE  Summable(f, T)
PROOF
BY FS_Subset DEF Summable

LEMMA SumOfNone ==
  ASSUME NEW f
  PROVE  SumOf(f, {}) = 0
PROOF
<1>1. IsFiniteSet({})
  BY FS_EmptySet
<1> QED
  BY <1>1, SumUnfolds

\* Any element may be added first.
LEMMA SumRemove ==
  ASSUME NEW f, NEW S, Summable(f, S), NEW z \in S
  PROVE  SumOf(f, S) = f[z] + SumOf(f, S \ {z})
PROOF
<1> DEFINE Bad == {X \in SUBSET S : \E x \in X : SumOf(f, X) # f[x] + SumOf(f, X \ {x})}
<1>1. SUFFICES ASSUME Bad # {} PROVE FALSE
  OBVIOUS
<1>2. Bad \in SUBSET FiniteSubsetsOf(S)
  BY FS_Subset DEF FiniteSubsetsOf, Summable
<1>3. PICK X \in Bad : \A Y \in Bad : Y \subseteq X => Y = X
  <2> HIDE DEF Bad
  <2> QED
    BY <1>1, <1>2, SmallestSet
<1>4. PICK x \in X : SumOf(f, X) # f[x] + SumOf(f, X \ {x})
  OBVIOUS
<1> DEFINE y == Pick(X)
           Z == X \ {x, y}
<1>5. IsFiniteSet(X) /\ X \in SUBSET S
  BY <1>2 DEF FiniteSubsetsOf
<1>6. y \in X /\ SumOf(f, X) = f[y] + SumOf(f, X \ {y})
  BY <1>5, SumUnfolds, PickIsIn
<1> HIDE DEF y
<1>7. y # x
  BY <1>4, <1>6
<1>8. SumOf(f, X \ {y}) = f[x] + SumOf(f, Z)
  <2>1. X \ {y} \in SUBSET S /\ X \ {y} # X /\ x \in X \ {y} /\ (X \ {y}) \ {x} = Z
    BY <1>5, <1>6, <1>7
  <2>2. X \ {y} \notin Bad
    BY <1>3, <2>1
  <2> QED
    BY <2>1, <2>2
<1>9. SumOf(f, X \ {x}) = f[y] + SumOf(f, Z)
  <2>1. X \ {x} \in SUBSET S /\ X \ {x} # X /\ y \in X \ {x} /\ (X \ {x}) \ {y} = Z
    BY <1>5, <1>6, <1>7
  <2>2. X \ {x} \notin Bad
    BY <1>3, <2>1
  <2> QED
    BY <2>1, <2>2
<1>10. f[x] \in Int /\ f[y] \in Int /\ SumOf(f, Z) \in Int
  <2>1. Summable(f, Z)
    BY <1>5, SummableParts
  <2>2. SumOf(f, Z) \in Int
    BY <2>1, SumIsInt
  <2> QED
    BY <1>5, <1>6, <2>2 DEF Summable
<1> QED
  BY <1>4, <1>6, <1>8, <1>9, <1>10

\* Only the values on the set count.
LEMMA SumsOfEquals ==
  ASSUME NEW S, IsFiniteSet(S), NEW f, NEW g, \A i \in S : f[i] = g[i]
  PROVE  SumOf(f, S) = SumOf(g, S)
PROOF
<1> DEFINE Bad == {X \in SUBSET S : SumOf(f, X) # SumOf(g, X)}
<1>1. SUFFICES ASSUME Bad # {} PROVE FALSE
  OBVIOUS
<1>2. Bad \in SUBSET FiniteSubsetsOf(S)
  BY FS_Subset DEF FiniteSubsetsOf
<1>3. PICK X \in Bad : \A Y \in Bad : Y \subseteq X => Y = X
  <2> HIDE DEF Bad
  <2> QED
    BY <1>1, <1>2, SmallestSet
<1>4. IsFiniteSet(X) /\ X \in SUBSET S
  BY <1>2 DEF FiniteSubsetsOf
<1> DEFINE y == Pick(X)  Z == X \ {y}
<1>5. /\ SumOf(f, X) = IF X = {} THEN 0 ELSE f[y] + SumOf(f, Z)
      /\ SumOf(g, X) = IF X = {} THEN 0 ELSE g[y] + SumOf(g, Z)
  BY <1>4, SumUnfolds
<1>6. X # {}
  BY <1>5
<1>7. y \in S /\ Z \in SUBSET S /\ Z \subseteq X /\ Z # X
  BY <1>4, <1>6, PickIsIn
<1>8. SumOf(f, Z) = SumOf(g, Z)
  BY <1>3, <1>7
<1> QED
  BY <1>5, <1>6, <1>7, <1>8

\* The sum over two sets that share nothing.
LEMMA SumOfTwo ==
  ASSUME NEW f, NEW S, NEW T, Summable(f, S), Summable(f, T), S \cap T = {}
  PROVE  Summable(f, S \cup T) /\ SumOf(f, S \cup T) = SumOf(f, S) + SumOf(f, T)
PROOF
<1>0. Summable(f, S \cup T)
  BY FS_Union DEF Summable
<1> DEFINE Bad == {X \in SUBSET S : SumOf(f, X \cup T) # SumOf(f, X) + SumOf(f, T)}
<1>1. SUFFICES ASSUME Bad # {} PROVE FALSE
  BY <1>0
<1>2. Bad \in SUBSET FiniteSubsetsOf(S)
  BY FS_Subset DEF FiniteSubsetsOf, Summable
<1>3. PICK X \in Bad : \A Y \in Bad : Y \subseteq X => Y = X
  <2> HIDE DEF Bad
  <2> QED
    BY <1>1, <1>2, SmallestSet
<1>4. X \in SUBSET S /\ SumOf(f, X \cup T) # SumOf(f, X) + SumOf(f, T)
  OBVIOUS
<1>5. Summable(f, X) /\ Summable(f, X \cup T)
  BY <1>0, <1>4, SummableParts
<1>6. SumOf(f, T) \in Int
  BY SumIsInt
<1>7. X # {}
  <2> SUFFICES ASSUME X = {} PROVE FALSE
    OBVIOUS
  <2>1. SumOf(f, X) = 0 /\ X \cup T = T
    BY SumOfNone
  <2> QED
    BY <1>4, <1>6, <2>1
<1>8. PICK y \in X : TRUE
  BY <1>7
<1> DEFINE Z == X \ {y}
<1>9. SumOf(f, X) = f[y] + SumOf(f, Z)
  BY <1>5, SumRemove
<1>10. SumOf(f, X \cup T) = f[y] + SumOf(f, Z \cup T)
  <2>1. y \in X \cup T /\ (X \cup T) \ {y} = Z \cup T
    BY <1>4
  <2> QED
    BY <1>5, <2>1, SumRemove
<1>11. SumOf(f, Z \cup T) = SumOf(f, Z) + SumOf(f, T)
  <2>1. Z \in SUBSET S /\ Z # X /\ Z \subseteq X
    BY <1>4
  <2> QED
    BY <1>3, <2>1
<1>12. f[y] \in Int /\ SumOf(f, Z) \in Int
  <2>1. Summable(f, Z)
    BY <1>4, SummableParts
  <2> QED
    BY <1>4, <2>1, SumIsInt DEF Summable
<1> QED
  BY <1>4, <1>6, <1>9, <1>10, <1>11, <1>12

(* The blocks of a partition: summed one by one they give the whole.       *)
LEMMA SumOfBlocks ==
  ASSUME NEW f, NEW S, Summable(f, S),
         NEW B, IsFiniteSet(B), NEW block \in [B -> SUBSET S],
         \A b, c \in B : b # c => block[b] \cap block[c] = {},
         NEW F, \A b \in B : F[b] = SumOf(f, block[b])
  PROVE  SumOf(F, B) = SumOf(f, UNION {block[b] : b \in B})
PROOF
<1> DEFINE All(C) == UNION {block[b] : b \in C}
           Bad == {C \in SUBSET B : SumOf(F, C) # SumOf(f, All(C))}
<1>1. SUFFICES ASSUME Bad # {} PROVE FALSE
  OBVIOUS
<1>2. Bad \in SUBSET FiniteSubsetsOf(B)
  BY FS_Subset DEF FiniteSubsetsOf
<1>3. PICK C \in Bad : \A D \in Bad : D \subseteq C => D = C
  <2> HIDE DEF Bad
  <2> QED
    BY <1>1, <1>2, SmallestSet
<1>4. C \in SUBSET B /\ SumOf(F, C) # SumOf(f, All(C))
  OBVIOUS
<1>5. Summable(F, B)
  <2> SUFFICES ASSUME NEW b \in B PROVE F[b] \in Int
    BY DEF Summable
  <2>1. Summable(f, block[b])
    BY SummableParts
  <2> QED
    BY <2>1, SumIsInt
<1>6. C # {}
  <2> SUFFICES ASSUME C = {} PROVE FALSE
    OBVIOUS
  <2>1. SumOf(F, C) = 0 /\ All(C) = {}
    BY SumOfNone
  <2>2. SumOf(f, All(C)) = 0
    BY <2>1, SumOfNone
  <2> QED
    BY <1>4, <2>1, <2>2
<1>7. PICK c \in C : TRUE
  BY <1>6
<1> DEFINE D == C \ {c}
<1>8. SumOf(F, C) = F[c] + SumOf(F, D)
  <2>1. Summable(F, C)
    BY <1>4, <1>5, SummableParts
  <2> QED
    BY <2>1, SumRemove
<1>9. SumOf(F, D) = SumOf(f, All(D))
  <2>1. D \in SUBSET B /\ D # C /\ D \subseteq C
    BY <1>4
  <2> QED
    BY <1>3, <2>1
<1>10. All(C) = block[c] \cup All(D) /\ block[c] \cap All(D) = {}
       /\ block[c] \in SUBSET S /\ All(D) \in SUBSET S
  <2>1. \A b \in C : block[b] \subseteq S
    BY <1>4
  <2> QED
    BY <1>4, <2>1
<1>11. SumOf(f, All(C)) = SumOf(f, block[c]) + SumOf(f, All(D))
  <2>1. Summable(f, block[c]) /\ Summable(f, All(D))
    BY <1>10, SummableParts
  <2> HIDE DEF All, D
  <2>2. SumOf(f, block[c] \cup All(D)) = SumOf(f, block[c]) + SumOf(f, All(D))
    BY <1>10, <2>1, SumOfTwo
  <2> QED
    BY <1>10, <2>2
<1>12. F[c] = SumOf(f, block[c])
  BY <1>4
<1> QED
  BY <1>4, <1>8, <1>9, <1>11, <1>12

\* The size of a set counts one for each element.
LEMMA SizeIsASum ==
  ASSUME NEW f, NEW S, IsFiniteSet(S), \A i \in S : f[i] = 1
  PROVE  SumOf(f, S) = Cardinality(S)
PROOF
<1> DEFINE Bad == {X \in SUBSET S : SumOf(f, X) # Cardinality(X)}
<1>1. SUFFICES ASSUME Bad # {} PROVE FALSE
  OBVIOUS
<1>2. Bad \in SUBSET FiniteSubsetsOf(S)
  BY FS_Subset DEF FiniteSubsetsOf
<1>3. PICK X \in Bad : \A Y \in Bad : Y \subseteq X => Y = X
  <2> HIDE DEF Bad
  <2> QED
    BY <1>1, <1>2, SmallestSet
<1>4. X \in SUBSET S /\ SumOf(f, X) # Cardinality(X) /\ IsFiniteSet(X)
  BY FS_Subset
<1>5. X # {}
  <2> SUFFICES ASSUME X = {} PROVE FALSE
    OBVIOUS
  <2>1. SumOf(f, X) = 0 /\ Cardinality(X) = 0
    BY SumOfNone, FS_EmptySet
  <2> QED
    BY <1>4, <2>1
<1>6. PICK y \in X : TRUE
  BY <1>5
<1> DEFINE Z == X \ {y}
<1>7. SumOf(f, X) = f[y] + SumOf(f, Z)
  <2>1. Summable(f, X)
    BY <1>4 DEF Summable
  <2> QED
    BY <2>1, SumRemove
<1>8. SumOf(f, Z) = Cardinality(Z)
  BY <1>3, <1>4
<1>9. Cardinality(X) \in Nat /\ Cardinality(Z) = Cardinality(X) - 1
  BY <1>4, FS_RemoveElement, FS_CardinalityType
<1> QED
  BY <1>4, <1>7, <1>8, <1>9
(* The largest number of a finite set, and of the parts that make it up.   *)
LEMMA LargestOfNumbers ==
  ASSUME NEW S, IsFiniteSet(S), S # {}, S \subseteq Int
  PROVE  Max(S) \in S /\ \A x \in S : Max(S) >= x
PROOF
<1> DEFINE R == {p \in S \X S : p[1] <= p[2]}
<1>1. IsTotalOn(R, S)
  BY DEF IsTotalOn
<1>2. \A x, y : <<x, y>> \in R => x <= y
  OBVIOUS
<1>3. PICK m \in S : \A x \in S \ {m} : <<x, m>> \in R
  <2> HIDE DEF R
  <2> QED
    BY <1>1, GreatestElement
<1> HIDE DEF R
<1>4. \A x \in S : m >= x
  <2> SUFFICES ASSUME NEW x \in S PROVE m >= x
    OBVIOUS
  <2>1. m \in Int /\ x \in Int
    OBVIOUS
  <2>2. x # m => x <= m
    BY <1>2, <1>3
  <2> QED
    BY <2>1, <2>2
<1> QED
  BY <1>4 DEF Max

\* The values a function takes on a finite set are finitely many.
LEMMA FiniteValues ==
  ASSUME NEW S, IsFiniteSet(S), NEW f
  PROVE  IsFiniteSet({f[i] : i \in S})
PROOF
<1> DEFINE T == {f[i] : i \in S}
           g == [i \in S |-> f[i]]
<1>1. g \in Surjection(S, T)
  BY DEF Surjection
<1> QED
  BY <1>1, FS_Surjection

Largest(f, S) == Max({f[i] : i \in S})
Covers(block, B, S) ==
  /\ block \in [B -> SUBSET S] /\ \A b \in B : block[b] # {}
  /\ UNION {block[b] : b \in B} = S

LEMMA LargestOfParts ==
  ASSUME NEW S, IsFiniteSet(S), S # {}, NEW f, \A i \in S : f[i] \in Int,
         NEW B, B # {}, NEW block, Covers(block, B, S),
         NEW F, \A b \in B : F[b] = Largest(f, block[b])
  PROVE  Largest(F, B) = Largest(f, S)
PROOF
<1> USE DEF Covers
<1> DEFINE All == {f[i] : i \in S}
           Part(b) == {f[i] : i \in block[b]}
           Maxima == {F[b] : b \in B}
<1>1. /\ Max(All) \in All
      /\ \A x \in All : Max(All) >= x
  <2>1. IsFiniteSet(All) /\ All # {} /\ All \subseteq Int
    BY FiniteValues
  <2> HIDE DEF All
  <2> QED
    BY <2>1, LargestOfNumbers
<1>2. \A b \in B : F[b] \in Part(b) /\ \A x \in Part(b) : F[b] >= x
  <2> SUFFICES ASSUME NEW b \in B PROVE Max(Part(b)) \in Part(b) /\ \A x \in Part(b) : Max(Part(b)) >= x
    BY DEF Largest
  <2>1. IsFiniteSet(block[b])
    BY FS_Subset
  <2>2. IsFiniteSet(Part(b)) /\ Part(b) # {} /\ Part(b) \subseteq Int
    BY <2>1, FiniteValues
  <2> HIDE DEF Part
  <2> QED
    BY <2>2, LargestOfNumbers
<1>3. \A b \in B : Part(b) \subseteq All
  OBVIOUS
<1>4. PICK i \in S : Max(All) = f[i]
  BY <1>1
<1>5. PICK b \in B : i \in block[b]
  OBVIOUS
<1>6. Max(All) \in Part(b) /\ Max(All) \in Int
  BY <1>4, <1>5
<1>7. All \subseteq Int
  OBVIOUS
<1> HIDE DEF All, Part
<1>8. F[b] = Max(All)
  <2>1. F[b] >= Max(All) /\ F[b] \in All
    BY <1>2, <1>3, <1>6
  <2>2. Max(All) >= F[b]
    BY <1>1, <2>1
  <2> QED
    BY <1>6, <1>7, <2>1, <2>2
<1>9. \A x \in Maxima : x \in Int /\ Max(All) >= x
  BY <1>1, <1>2, <1>3, <1>7
<1>10. Max(All) \in Maxima
  BY <1>8
<1> HIDE DEF Maxima
<1>11. Max(Maxima) = Max(All)
  <2> DEFINE m == Max(All)
  <2>1. m \in Maxima /\ m \in Int /\ \A x \in Maxima : x \in Int /\ m >= x
    BY <1>6, <1>9, <1>10
  <2> HIDE DEF m
  <2>2. \A n \in Maxima : (\A x \in Maxima : n >= x) => n = m
    BY <2>1
  <2>3. \A x \in Maxima : m >= x
    BY <2>1
  <2>4. Max(Maxima) = m
    BY <2>1, <2>2, <2>3 DEF Max
  <2> QED
    BY <2>4 DEF m
<1> QED
  BY <1>11 DEF All, Maxima, Largest
=============================================================================
