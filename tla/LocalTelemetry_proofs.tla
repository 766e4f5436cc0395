------------------------ MODULE LocalTelemetry_proofs ------------------------
(***************************************************************************)
(* Theorems about LocalTelemetry, for any number of runs that write, die   *)
(* and append side by side.                                                *)
(***************************************************************************)
EXTENDS LocalTelemetry, CollectionTheorems

LEMMA AppendFacts ==
  ASSUME NEW S, NEW s \in Seq(S), NEW e \in S
  PROVE  /\ Append(s, e) \in Seq(S)
         /\ \A i \in DOMAIN Append(s, e) :
              (i \in DOMAIN s /\ Append(s, e)[i] = s[i]) \/ Append(s, e)[i] = e
PROOF
OBVIOUS

LEMMA NextArtifactIsToDo ==
  ASSUME NEW r \in Runs, todo[r] \in SUBSET Artifacts, todo[r] # {}
  PROVE  NextArtifact(r) \in todo[r]
PROOF
<1>1. \A a \in Artifacts : Rank(a) \in 1..3
  BY DEF Artifacts, Rank
<1>2. \E a \in todo[r] : \A b \in todo[r] : Rank(a) <= Rank(b)
  <2>1. CASE \E a \in todo[r] : Rank(a) = 1
    BY <1>1, <2>1
  <2>2. CASE ~(\E a \in todo[r] : Rank(a) = 1) /\ \E a \in todo[r] : Rank(a) = 2
    BY <1>1, <2>2
  <2>3. CASE \A a \in todo[r] : Rank(a) \notin {1, 2}
    BY <1>1, <2>3
  <2> QED
    BY <2>1, <2>2, <2>3
<1> QED
  BY <1>2 DEF NextArtifact

TelemetryInvariant == TelemetryTypeOK /\ WritesAreOrdered /\ SummariesAreBacked

LEMMA TelemetryInit == Init => TelemetryInvariant
PROOF
<1> SUFFICES ASSUME Init PROVE TelemetryInvariant
  OBVIOUS
<1>1. TelemetryTypeOK
  BY DEF Init, TelemetryTypeOK, Stages, NoFiles, NoEvents, FileStates
<1>2. WritesAreOrdered
  BY DEF Init, WritesAreOrdered, IsOrdered
<1>3. SummariesAreBacked
  BY DEF Init, SummariesAreBacked
<1> QED
  BY <1>1, <1>2, <1>3 DEF TelemetryInvariant

LEMMA CallsKeepInvariant ==
  ASSUME TelemetryInvariant, NEW r \in Runs,
         Dispatch(r) \/ Raise(r) \/ Return(r) \/ DieBetweenWrites(r)
  PROVE  TelemetryInvariant'
PROOF
<1> USE DEF TelemetryInvariant
<1>1. TelemetryTypeOK'
  <2>1. CASE Dispatch(r) \/ Raise(r) \/ DieBetweenWrites(r)
    BY <2>1 DEF Dispatch, Raise, DieBetweenWrites, unchangedFiles, TelemetryTypeOK, Stages
  <2>2. CASE Return(r)
    BY <2>2 DEF Return, Outcomes, TelemetryTypeOK, Stages
  <2> QED
    BY <2>1, <2>2
<1>2. UNCHANGED <<files, events, log, refs>>
  BY DEF Dispatch, Raise, Return, DieBetweenWrites, unchangedFiles
<1>3. SummariesAreBacked'
  BY <1>2 DEF SummariesAreBacked
<1>4. WritesAreOrdered'
  <2> SUFFICES ASSUME NEW q \in Runs PROVE IsOrdered(q)'
    BY DEF WritesAreOrdered
  <2>1. IsOrdered(q)
    BY DEF WritesAreOrdered
  <2>2. CASE q # r
    <3>1. stage'[q] = stage[q] /\ todo'[q] = todo[q]
      BY <2>2 DEF Dispatch, Raise, Return, DieBetweenWrites, unchangedFiles, TelemetryTypeOK
    <3> QED
      BY <1>2, <2>1, <3>1 DEF IsOrdered
  <2>3. CASE q = r /\ (Dispatch(r) \/ Raise(r))
    <3>1. stage[q] \in {"idle", "executing"} /\ todo'[q] = todo[q]
      BY <2>3 DEF Dispatch, Raise, unchangedFiles
    <3>2. stage'[q] \in {"executing", "raised"}
      BY <2>3 DEF Dispatch, Raise, TelemetryTypeOK
    <3>3. \A i \in DOMAIN log : log[i].run # q
      BY <2>1, <3>1 DEF IsOrdered
    <3> QED
      BY <1>2, <2>1, <3>1, <3>2, <3>3 DEF IsOrdered
  <2>4. CASE q = r /\ Return(r)
    <3>1. stage[q] = "executing" /\ stage'[q] = "persisting"
      BY <2>4 DEF Return, TelemetryTypeOK
    <3>2. \A i \in DOMAIN log : log[i].run # q
      BY <2>1, <3>1 DEF IsOrdered
    <3> QED
      BY <1>2, <2>1, <3>1, <3>2 DEF IsOrdered
  <2>5. CASE q = r /\ DieBetweenWrites(r)
    <3>1. stage'[q] = "died" /\ todo'[q] = todo[q]
      BY <2>5 DEF DieBetweenWrites, unchangedFiles, TelemetryTypeOK
    <3> QED
      BY <1>2, <2>1, <3>1 DEF IsOrdered
  <2> QED
    BY <2>2, <2>3, <2>4, <2>5
<1> QED
  BY <1>1, <1>3, <1>4

\* Nothing that a call still writes to is in the log.
LEMMA WritesKeepInvariant ==
  ASSUME TelemetryInvariant, NEW r \in Runs,
         WriteArtifact(r) \/ WriteEvents(r) \/ DieInArtifact(r) \/ DieInEvents(r)
  PROVE  TelemetryInvariant'
PROOF
<1> USE DEF TelemetryInvariant
<1> PICK a : a = NextArtifact(r)
  OBVIOUS
<1>1. stage[r] = "persisting" /\ log' = log
  BY DEF WriteArtifact, WriteEvents, DieInArtifact, DieInEvents
<1>2. \A i \in DOMAIN log : log[i].run # r /\ log[i].run \in Runs
  <2>1. IsOrdered(r) /\ log \in Seq(Pieces)
    BY DEF WritesAreOrdered, TelemetryTypeOK
  <2>2. \A i \in DOMAIN log : log[i] \in Pieces
    BY <2>1
  <2>3. \A i \in DOMAIN log : log[i].run \in Runs
    BY <2>2 DEF Pieces
  <2> QED
    BY <1>1, <2>1, <2>3 DEF IsOrdered
<1>3. todo[r] # {} => a \in todo[r] /\ a \in Artifacts
  BY NextArtifactIsToDo DEF TelemetryTypeOK
<1> HIDE DEF NextArtifact
<1>4. TelemetryTypeOK'
  <2>1. CASE WriteArtifact(r)
    BY <1>3, <2>1 DEF WriteArtifact, TelemetryTypeOK, FileStates
  <2>2. CASE WriteEvents(r)
    BY <2>2 DEF WriteEvents, TelemetryTypeOK, FileStates, Stages
  <2>3. CASE DieInArtifact(r)
    BY <1>3, <2>3 DEF DieInArtifact, TelemetryTypeOK, FileStates, Stages
  <2>4. CASE DieInEvents(r)
    BY <2>4 DEF DieInEvents, TelemetryTypeOK, FileStates, Stages
  <2> QED
    BY <2>1, <2>2, <2>3, <2>4
<1>5. \A q \in Runs : q # r =>
         /\ stage'[q] = stage[q] /\ todo'[q] = todo[q] /\ refs'[q] = refs[q]
         /\ files'[q] = files[q] /\ events'[q] = events[q]
  BY DEF WriteArtifact, WriteEvents, DieInArtifact, DieInEvents, TelemetryTypeOK
<1>6. SummariesAreBacked'
  BY <1>1, <1>2, <1>5 DEF SummariesAreBacked
<1>7. WritesAreOrdered'
  <2> SUFFICES ASSUME NEW q \in Runs PROVE IsOrdered(q)'
    BY DEF WritesAreOrdered
  <2>1. IsOrdered(q)
    BY DEF WritesAreOrdered
  <2>2. CASE q # r
    BY <1>1, <1>5, <2>1, <2>2 DEF IsOrdered
  <2>3. CASE q = r /\ WriteArtifact(r)
    <3>1. /\ stage'[q] = stage[q]
          /\ refs'[q] = refs[q] \cup {a} /\ todo'[q] = todo[q] \ {a}
          /\ \A b \in Artifacts : files'[q][b] = IF b = a THEN "whole" ELSE files[q][b]
      BY <1>3, <2>3 DEF WriteArtifact, TelemetryTypeOK
    <3>2. refs[q] \subseteq Artifacts /\ a \in Artifacts
      BY <1>3, <2>3 DEF TelemetryTypeOK, WriteArtifact
    <3>3. todo[q] \cap refs[q] = {}
      BY <2>1 DEF IsOrdered
    <3>4. (todo[q] \ {a}) \cap (refs[q] \cup {a}) = {}
      BY <3>3
    <3>5. todo'[q] \cap refs'[q] = {}
      BY ONLY <3>1, <3>4
    <3>6. \A b \in refs'[q] : files'[q][b] = "whole"
      BY <2>1, <3>1, <3>2 DEF IsOrdered
    <3> QED
      BY <1>1, <1>2, <2>3, <3>1, <3>5, <3>6 DEF IsOrdered
  <2>4. CASE q = r /\ WriteEvents(r)
    <3>1. /\ stage'[q] = "recorded" /\ refs'[q] = refs[q] /\ todo'[q] = todo[q]
          /\ files'[q] = files[q]
          /\ events'[q] = [state |-> "whole", recorded |-> refs[q]]
      BY <2>4 DEF WriteEvents, TelemetryTypeOK
    <3> QED
      BY <1>1, <1>2, <2>1, <2>4, <3>1 DEF IsOrdered
  <2>5. CASE q = r /\ DieInArtifact(r)
    <3>1. /\ stage'[q] = "died" /\ refs'[q] = refs[q] /\ todo'[q] = todo[q]
          /\ \A b \in Artifacts : b # a => files'[q][b] = files[q][b]
      BY <1>3, <2>5 DEF DieInArtifact, TelemetryTypeOK
    <3>2. refs[q] \subseteq Artifacts /\ a \in todo[q]
      BY <1>3, <2>5 DEF TelemetryTypeOK, DieInArtifact
    <3> QED
      BY <1>1, <2>1, <3>1, <3>2 DEF IsOrdered
  <2>6. CASE q = r /\ DieInEvents(r)
    <3>1. /\ stage'[q] = "died" /\ refs'[q] = refs[q] /\ todo'[q] = todo[q]
          /\ files'[q] = files[q]
      BY <2>6 DEF DieInEvents, TelemetryTypeOK
    <3> QED
      BY <1>1, <2>1, <3>1 DEF IsOrdered
  <2> QED
    BY <2>2, <2>3, <2>4, <2>5, <2>6
<1> QED
  BY <1>4, <1>6, <1>7

\* A piece is appended only when the events it refers to are complete.
LEMMA AppendsKeepInvariant ==
  ASSUME TelemetryInvariant, NEW r \in Runs,
         AppendSummary(r) \/ AppendHead(r) \/ AppendTail(r) \/ DieInAppend(r)
  PROVE  TelemetryInvariant'
PROOF
<1> USE DEF TelemetryInvariant
<1>1. /\ stage[r] \in {"recorded", "appending"}
      /\ UNCHANGED <<todo, refs, files, events>>
  BY DEF AppendSummary, AppendHead, AppendTail, DieInAppend
<1>2. PICK part \in {"torn", "bare", "whole", "head", "tail"} :
        log' = Append(log, Piece(r, part))
  BY DEF AppendSummary, AppendHead, AppendTail, DieInAppend
<1>3. PICK next \in {"appending", "returned", "died"} : stage' = [stage EXCEPT ![r] = next]
  BY DEF AppendSummary, AppendHead, AppendTail, DieInAppend
<1> PICK piece : piece = Piece(r, part)
  OBVIOUS
<1>4. piece \in Pieces /\ piece.run = r /\ piece.refs = refs[r]
  BY DEF Piece, Pieces, TelemetryTypeOK
<1>5. /\ log' \in Seq(Pieces)
      /\ \A i \in DOMAIN log' : (i \in DOMAIN log /\ log'[i] = log[i]) \/ log'[i] = piece
  BY <1>2, <1>4, AppendFacts DEF TelemetryTypeOK
<1>6. TelemetryTypeOK'
  BY <1>1, <1>3, <1>5 DEF TelemetryTypeOK, Stages
<1>7. IsOrdered(r)
  BY DEF WritesAreOrdered
<1>8. SummariesAreBacked'
  <2> SUFFICES ASSUME NEW i \in DOMAIN log'
               PROVE  /\ events[log'[i].run] = [state |-> "whole", recorded |-> log'[i].refs]
                      /\ \A b \in log'[i].refs : files[log'[i].run][b] = "whole"
    BY <1>1 DEF SummariesAreBacked
  <2>1. CASE i \in DOMAIN log /\ log'[i] = log[i]
    BY <2>1 DEF SummariesAreBacked
  <2>2. CASE log'[i] = piece
    BY <1>1, <1>4, <1>7, <2>2 DEF IsOrdered
  <2> QED
    BY <1>5, <2>1, <2>2
<1>9. WritesAreOrdered'
  <2> SUFFICES ASSUME NEW q \in Runs PROVE IsOrdered(q)'
    BY DEF WritesAreOrdered
  <2>1. IsOrdered(q)
    BY DEF WritesAreOrdered
  <2>2. stage'[q] = IF q = r THEN next ELSE stage[q]
    BY <1>3 DEF TelemetryTypeOK
  <2>3. \A i \in DOMAIN log' :
          log'[i].run = q => stage'[q] \in {"appending", "returned", "died"}
    BY <1>4, <1>5, <2>1, <2>2 DEF IsOrdered
  <2>4. stage'[q] \in {"recorded", "appending"} =>
          events[q] = [state |-> "whole", recorded |-> refs[q]]
    BY <1>1, <1>7, <2>1, <2>2 DEF IsOrdered
  <2>5. stage'[q] \in {"idle", "executing"} => refs[q] = {}
    BY <2>1, <2>2 DEF IsOrdered
  <2> QED
    BY <1>1, <2>1, <2>3, <2>4, <2>5 DEF IsOrdered
<1> QED
  BY <1>6, <1>8, <1>9

(* The order of the writes is an invariant, with the types of the files,   *)
(* whoever dies where.                                                     *)
THEOREM TelemetryInvariance == TelemetrySpec => []TelemetryInvariant
PROOF
<1>1. TelemetryInvariant /\ [Next]_telemetryVars => TelemetryInvariant'
  <2> SUFFICES ASSUME TelemetryInvariant, [Next]_telemetryVars PROVE TelemetryInvariant'
    OBVIOUS
  <2>1. CASE \E r \in Runs : Dispatch(r) \/ Raise(r) \/ Return(r) \/ DieBetweenWrites(r)
    BY <2>1, CallsKeepInvariant
  <2>2. CASE \E r \in Runs :
               WriteArtifact(r) \/ WriteEvents(r) \/ DieInArtifact(r) \/ DieInEvents(r)
    BY <2>2, WritesKeepInvariant
  <2>3. CASE \E r \in Runs :
               AppendSummary(r) \/ AppendHead(r) \/ AppendTail(r) \/ DieInAppend(r)
    BY <2>3, AppendsKeepInvariant
  <2>4. CASE UNCHANGED <<stage, todo, refs, files, events, log>>
    BY <2>4 DEF TelemetryInvariant, TelemetryTypeOK, WritesAreOrdered, IsOrdered,
                SummariesAreBacked
  <2> QED
    BY <2>1, <2>2, <2>3, <2>4 DEF Next, Persist, Report, telemetryVars
<1> QED
  BY TelemetryInit, <1>1, PTL DEF TelemetrySpec

(* A summary in the log, even a torn one, is backed by complete events and *)
(* whole artifacts, for any number of processes that crash between any two *)
(* writes of persist_dispatch_outcome.                                     *)
THEOREM BackedSummaries == TelemetrySpec => []SummariesAreBacked
PROOF
BY TelemetryInvariance, PTL DEF TelemetryInvariant

(***************************************************************************)
(* Reports.  Each call appends one line, in one piece or as head and tail. *)
(***************************************************************************)
LinesAreAppended ==
  /\ \A i, j \in DOMAIN log :
       i < j /\ log[i].run = log[j].run => log[i].part = "head" /\ log[j].part = "tail"
  /\ \A i \in DOMAIN log : stage[log[i].run] = "appending" => log[i].part = "head"
  /\ \A r \in Runs : stage[r] = "returned" =>
       \E i \in DOMAIN log : log[i].run = r /\ EndsLine(log[i])

\* What was reported last is what a beginning of the log says.
Past(n) == SubSeq(log, 1, n)
ReportIsPast ==
  report # << >> => \E n \in DOMAIN log : CanBeLoaded(Past(n)) /\ report = Loaded(Past(n))

ReportInvariant == TelemetryInvariant /\ LinesAreAppended /\ ReportIsPast

(***************************************************************************)
(* Lines.                                                                  *)
(***************************************************************************)
\* A line goes on to the first piece that ends one, or to the end of the log.
LEMMA LineExtent ==
  ASSUME NEW p \in Seq(Pieces), NEW i \in DOMAIN p
  PROVE  \E last \in i .. Len(p) :
           /\ LineFrom(p, i) = SubSeq(p, i, last)
           /\ last = Len(p) \/ EndsLine(p[last])
           /\ \A j \in i .. last - 1 : ~EndsLine(p[j])
PROOF
<1> DEFINE Ends == {j \in i .. Len(p) : j = Len(p) \/ EndsLine(p[j])}
<1>1. i \in 1 .. Len(p) /\ Len(p) \in Nat
  OBVIOUS
<1>2. Ends \subseteq Nat /\ Len(p) \in Ends
  BY <1>1
<1>3. Min(Ends) \in Ends /\ \A j \in Ends : Min(Ends) <= j
  <2> HIDE DEF Ends
  <2> QED
    BY <1>2, LeastOfNaturals
<1>4. PICK last \in Ends : last = Min(Ends)
  BY <1>3
<1>5. \A j \in i .. last - 1 : ~EndsLine(p[j])
  <2> SUFFICES ASSUME NEW j \in i .. last - 1, EndsLine(p[j]) PROVE FALSE
    OBVIOUS
  <2>1. last \in i .. Len(p)
    OBVIOUS
  <2>2. j \in i .. Len(p) /\ j < last
    BY <1>1, <2>1
  <2>3. j \in Ends
    BY <2>2
  <2>4. last <= j
    BY <1>3, <1>4, <2>3
  <2> QED
    BY <1>1, <2>1, <2>2, <2>4
<1>6. LineFrom(p, i) = SubSeq(p, i, last)
  BY <1>4 DEF LineFrom
<1> QED
  BY <1>5, <1>6

\* A piece that ends a line is the last one of a line that starts somewhere.
LEMMA StartOfSomeLine ==
  ASSUME NEW p \in Seq(Pieces), NEW i \in DOMAIN p
  PROVE  \E s \in LineStarts(p) : s <= i /\ \A j \in s .. i - 1 : ~EndsLine(p[j])
PROOF
<1> DEFINE Gaps == {g \in 0 .. i - 1 : i - g \in LineStarts(p)}
<1>1. i \in 1 .. Len(p) /\ Len(p) \in Nat /\ DOMAIN p = 1 .. Len(p)
  OBVIOUS
<1>2. Gaps \subseteq Nat /\ i - 1 \in Gaps
  BY <1>1 DEF LineStarts
<1>3. Min(Gaps) \in Gaps /\ \A g \in Gaps : Min(Gaps) <= g
  <2> HIDE DEF Gaps
  <2> QED
    BY <1>2, LeastOfNaturals
<1>4. PICK g \in Gaps : \A h \in Gaps : g <= h
  BY <1>3
<1> DEFINE s == i - g
<1>5. s \in LineStarts(p) /\ s \in 1 .. i
  BY <1>1, <1>4
<1>6. \A j \in s .. i - 1 : ~EndsLine(p[j])
  <2> SUFFICES ASSUME NEW j \in s .. i - 1, EndsLine(p[j]) PROVE FALSE
    OBVIOUS
  <2>1. j \in 1 .. i - 1 /\ j + 1 \in DOMAIN p /\ (j + 1) - 1 = j
    BY <1>1, <1>5
  <2>2. j + 1 \in LineStarts(p)
    BY <2>1 DEF LineStarts
  <2>3. i - (j + 1) \in Gaps
    <3>1. i - (j + 1) \in 0 .. i - 1 /\ i - (i - (j + 1)) = j + 1
      BY <1>1, <2>1
    <3> QED
      BY <2>2, <3>1
  <2>4. g \in Nat /\ g <= i - (j + 1)
    BY <1>4, <2>3
  <2> QED
    BY <1>1, <2>1, <2>4
<1> HIDE DEF s
<1> QED
  BY <1>1, <1>5, <1>6

\* A piece that ends a line is the last one of a line that starts somewhere.
LEMMA EndOfSomeLine ==
  ASSUME NEW p \in Seq(Pieces), NEW i \in DOMAIN p, EndsLine(p[i])
  PROVE  \E s \in LineStarts(p) : s <= i /\ LineFrom(p, s) = SubSeq(p, s, i)
PROOF
<1>1. PICK s \in LineStarts(p) : s <= i /\ \A j \in s .. i - 1 : ~EndsLine(p[j])
  BY StartOfSomeLine
<1>2. s \in DOMAIN p /\ s \in Nat /\ i \in Nat /\ Len(p) \in Nat /\ i <= Len(p)
  BY DEF LineStarts
<1>3. PICK last \in s .. Len(p) :
         /\ LineFrom(p, s) = SubSeq(p, s, last)
         /\ last = Len(p) \/ EndsLine(p[last])
         /\ \A j \in s .. last - 1 : ~EndsLine(p[j])
  BY <1>2, LineExtent
<1>4. last \in Nat /\ s <= last /\ last <= Len(p)
  BY <1>2, <1>3
<1>5. ~(last < i)
  <2> SUFFICES ASSUME last < i PROVE FALSE
    OBVIOUS
  <2>1. last \in s .. i - 1 /\ last # Len(p)
    BY <1>2, <1>4
  <2> QED
    BY <1>1, <1>3, <2>1
<1>6. ~(i < last)
  <2> SUFFICES ASSUME i < last PROVE FALSE
    OBVIOUS
  <2>1. i \in s .. last - 1
    BY <1>1, <1>2, <1>4
  <2> QED
    BY <1>3, <2>1
<1>7. last = i
  BY <1>2, <1>4, <1>5, <1>6
<1> QED
  BY <1>1, <1>3, <1>7

\* A record begins with the piece its line starts with, and all of it is of
\* one run.
LEMMA RecordParts ==
  ASSUME NEW p \in Seq(Pieces), NEW s \in DOMAIN p, NEW e \in s .. Len(p),
         IsRecord(SubSeq(p, s, e))
  PROVE  p[s].part \in {"whole", "bare", "head"} /\ p[e].run = p[s].run
PROOF
<1> DEFINE line == SubSeq(p, s, e)
<1>1. s \in 1 .. Len(p) /\ Len(p) \in Nat /\ e \in Nat /\ e <= Len(p) /\ s <= e
  OBVIOUS
<1>2. Len(line) = e - s + 1 /\ line[1] = p[s]
  BY <1>1
<1>3. CASE Len(line) = 1
  <2>1. e = s
    BY <1>1, <1>2, <1>3
  <2> QED
    BY <1>2, <1>3, <2>1 DEF IsRecord
<1>4. CASE Len(line) = 2
  <2>1. e = s + 1
    BY <1>1, <1>2, <1>4
  <2>2. line[2] = p[e]
    <3>1. 2 \in 1 .. (e - s) + 1
      BY <1>1, <2>1
    <3>2. line[2] = p[s + 2 - 1]
      BY <1>1, <3>1
    <3> QED
      BY <1>1, <2>1, <3>2
  <2> QED
    BY <1>2, <1>4, <2>2 DEF IsRecord
<1> QED
  BY <1>3, <1>4 DEF IsRecord

(***************************************************************************)
(* What a report lists.                                                    *)
(***************************************************************************)
LEMMA InOrderSorts ==
  ASSUME NEW S \in SUBSET Nat, IsFiniteSet(S)
  PROVE  /\ InOrder(S) \in SetToSeqs(S)
         /\ \A i, j \in DOMAIN InOrder(S) : i < j => InOrder(S)[i] < InOrder(S)[j]
PROOF
<1> DEFINE Smaller == {pair \in Nat \X Nat : pair[1] < pair[2]}
<1>1. IsTotalOn(Smaller, S)
  BY DEF IsTotalOn
<1>2. PICK s \in SetToSeqs(S) : \A i, j \in DOMAIN s : i < j => <<s[i], s[j]>> \in Smaller
  <2> HIDE DEF Smaller
  <2> QED
    BY <1>1, SortExists
<1>3. \A i, j \in DOMAIN s : i < j => s[i] < s[j]
  BY <1>2
<1> QED
  BY <1>3 DEF InOrder

\* The order of the records in a report.
LEMMA LoadedInOrder ==
  ASSUME NEW p \in Seq(Pieces)
  PROVE  /\ RecordStarts(p) \in SUBSET Nat /\ IsFiniteSet(RecordStarts(p))
         /\ InOrder(RecordStarts(p)) \in SetToSeqs(RecordStarts(p))
         /\ \A i, j \in DOMAIN InOrder(RecordStarts(p)) :
              i < j => InOrder(RecordStarts(p))[i] < InOrder(RecordStarts(p))[j]
PROOF
<1>1. RecordStarts(p) \subseteq 1 .. Len(p) /\ Len(p) \in Nat
  BY DEF RecordStarts, LineStarts
<1>2. IsFiniteSet(1 .. Len(p))
  BY <1>1, FS_Interval
<1>3. IsFiniteSet(RecordStarts(p)) /\ RecordStarts(p) \in SUBSET Nat
  BY <1>1, <1>2, FS_Subset
<1> QED
  BY <1>3, InOrderSorts

LEMMA LoadedIsSequence ==
  ASSUME NEW p \in Seq(Pieces)
  PROVE  Loaded(p) \in Seq(Runs)
PROOF
<1> DEFINE starts == InOrder(RecordStarts(p))
<1>1. starts \in Seq(RecordStarts(p))
  BY LoadedInOrder, OrderedElements
<1>2. \A s \in RecordStarts(p) : p[s] \in Pieces
  BY DEF RecordStarts, LineStarts
<1>3. \A s \in RecordStarts(p) : p[s].run \in Runs
  BY <1>2 DEF Pieces
<1> HIDE DEF starts
<1>4. [k \in DOMAIN starts |-> p[starts[k]].run] \in Seq(Runs)
  BY <1>1, <1>3
<1> QED
  BY <1>4 DEF Loaded, starts

\* Of a log that can be loaded and a beginning of it that could be loaded, the
\* records of the beginning are the first ones of the whole.
LEMMA ReportsOfPrefixes ==
  ASSUME NEW p \in Seq(Pieces), NEW n \in DOMAIN p,
         CanBeLoaded(p), CanBeLoaded(SubSeq(p, 1, n))
  PROVE  IsPrefix(Loaded(SubSeq(p, 1, n)), Loaded(p))
PROOF
<1> DEFINE q == SubSeq(p, 1, n)
           all   == InOrder(RecordStarts(p))
           first == InOrder(RecordStarts(q))
<1>1. n \in 1 .. Len(p) /\ n \in Nat /\ Len(p) \in Nat /\ DOMAIN p = 1 .. Len(p)
  OBVIOUS
<1>2. /\ q \in Seq(Pieces) /\ DOMAIN q = 1 .. n
      /\ \A i \in 1 .. n : q[i] = p[i]
  BY <1>1
<1>3. LineStarts(q) = {i \in LineStarts(p) : i <= n}
  <2>1. ASSUME NEW i \in 1 .. n
        PROVE  i \in LineStarts(q) <=> i \in LineStarts(p)
    <3>1. CASE i = 1
      BY <1>1, <1>2, <3>1 DEF LineStarts
    <3>2. CASE i # 1
      <4>1. i - 1 \in 1 .. n /\ i \in DOMAIN p /\ i \in DOMAIN q
        BY <1>1, <1>2, <3>2
      <4>2. q[i - 1] = p[i - 1]
        BY <1>2, <4>1
      <4> QED
        BY <3>2, <4>1, <4>2 DEF LineStarts
    <3> QED
      BY <3>1, <3>2
  <2>2. LineStarts(q) \subseteq 1 .. n /\ LineStarts(p) \subseteq 1 .. Len(p)
    BY <1>1, <1>2 DEF LineStarts
  <2>3. \A i \in LineStarts(p) : i <= n => i \in 1 .. n
    BY <1>1, <2>2
  <2>4. \A i \in 1 .. n : i <= n
    BY <1>1
  <2> HIDE DEF q
  <2> QED
    BY <2>1, <2>2, <2>3, <2>4
<1>4. RecordStarts(q) = {i \in RecordStarts(p) : i <= n}
  BY <1>3 DEF CanBeLoaded
<1> HIDE DEF q
<1>5. /\ RecordStarts(p) \in SUBSET Nat /\ IsFiniteSet(RecordStarts(p))
      /\ all \in SetToSeqs(RecordStarts(p))
      /\ \A i, j \in DOMAIN all : i < j => all[i] < all[j]
  BY LoadedInOrder
<1>6. /\ RecordStarts(q) \in SUBSET Nat /\ IsFiniteSet(RecordStarts(q))
      /\ first \in SetToSeqs(RecordStarts(q))
      /\ \A i, j \in DOMAIN first : i < j => first[i] < first[j]
  BY <1>2, LoadedInOrder
<1>7. /\ first \in Seq(RecordStarts(q)) /\ all \in Seq(RecordStarts(p))
      /\ DOMAIN first = 1 .. Len(first) /\ DOMAIN all = 1 .. Len(all)
      /\ Len(first) \in Nat /\ Len(all) \in Nat
  BY <1>5, <1>6, OrderedElements
<1> HIDE DEF all, first
<1>8. /\ DOMAIN first \subseteq DOMAIN all /\ Len(first) <= Len(all)
      /\ \A k \in DOMAIN first : first[k] = all[k]
  BY <1>1, <1>4, <1>5, <1>6, SortedPrefix
<1> DEFINE lq == [k \in 1 .. Len(first) |-> q[first[k]].run]
           lp == [k \in 1 .. Len(all) |-> p[all[k]].run]
<1>9. Loaded(q) = lq /\ Loaded(p) = lp
  BY <1>7 DEF Loaded, all, first
<1>10. \A k \in 1 .. Len(first) : lq[k] = lp[k]
  <2> TAKE k \in 1 .. Len(first)
  <2>1. first[k] \in 1 .. n /\ first[k] = all[k] /\ k \in 1 .. Len(all)
    <3>1. first[k] \in RecordStarts(q) /\ k \in DOMAIN first
      BY <1>7
    <3>2. first[k] \in DOMAIN q
      BY <3>1 DEF RecordStarts, LineStarts
    <3> QED
      BY <1>2, <1>7, <1>8, <3>1, <3>2
  <2>2. q[first[k]] = p[all[k]]
    BY <1>2, <2>1
  <2> QED
    BY <2>1, <2>2
<1>11. Len(lq) = Len(first) /\ Len(lp) = Len(all)
  BY <1>7
<1>12. SubSeq(lq, 1, Len(first)) = SubSeq(lp, 1, Len(first))
  <2>1. SubSeq(lq, 1, Len(first)) = [k \in 1 .. Len(first) |-> lq[k]]
    BY <1>7, <1>11
  <2>2. SubSeq(lp, 1, Len(first)) = [k \in 1 .. Len(first) |-> lp[k]]
    BY <1>7, <1>8, <1>11
  <2> HIDE DEF lq, lp
  <2> QED
    BY <1>10, <2>1, <2>2
<1>13. IsPrefix(lq, lp)
  <2> HIDE DEF lq, lp
  <2> QED
    BY <1>8, <1>11, <1>12 DEF IsPrefix
<1> QED
  BY <1>9, <1>13 DEF q

\* No run has two records, and the record that ends with a run's piece is its own.
LEMMA RecordsOfRuns ==
  ASSUME TelemetryTypeOK, LinesAreAppended, CanBeLoaded(log)
  PROVE  /\ \A s, t \in RecordStarts(log) : log[s].run = log[t].run => s = t
         /\ \A i \in DOMAIN log :
              EndsLine(log[i]) => \E s \in RecordStarts(log) : log[s].run = log[i].run
PROOF
<1>1. log \in Seq(Pieces) /\ DOMAIN log = 1 .. Len(log) /\ Len(log) \in Nat
  BY DEF TelemetryTypeOK
<1>2. RecordStarts(log) = LineStarts(log) /\ RecordStarts(log) \subseteq DOMAIN log
  BY DEF CanBeLoaded, RecordStarts, LineStarts
<1>3. \A s \in RecordStarts(log) : log[s].part # "tail"
  <2> TAKE s \in RecordStarts(log)
  <2>1. s \in DOMAIN log /\ IsRecord(LineFrom(log, s))
    BY <1>2 DEF RecordStarts
  <2>2. PICK last \in s .. Len(log) : LineFrom(log, s) = SubSeq(log, s, last)
    BY <1>1, <2>1, LineExtent
  <2> QED
    BY <1>1, <2>1, <2>2, RecordParts
<1>4. ASSUME NEW s \in RecordStarts(log), NEW t \in RecordStarts(log), log[s].run = log[t].run
      PROVE  s = t
  <2>1. s \in Nat /\ t \in Nat /\ s \in DOMAIN log /\ t \in DOMAIN log
    BY <1>1, <1>2
  <2>2. ~(s < t) /\ ~(t < s)
    BY <1>3, <1>4, <2>1 DEF LinesAreAppended
  <2> QED
    BY <2>1, <2>2
<1>5. ASSUME NEW i \in DOMAIN log, EndsLine(log[i])
      PROVE  \E s \in RecordStarts(log) : log[s].run = log[i].run
  <2>1. PICK s \in LineStarts(log) : s <= i /\ LineFrom(log, s) = SubSeq(log, s, i)
    BY <1>1, <1>5, EndOfSomeLine
  <2>2. s \in RecordStarts(log) /\ s \in DOMAIN log /\ IsRecord(SubSeq(log, s, i))
    BY <1>2, <2>1 DEF RecordStarts
  <2>3. i \in s .. Len(log)
    BY <1>1, <2>1, <2>2
  <2>4. log[i].run = log[s].run
    BY <1>1, <2>2, <2>3, RecordParts
  <2> QED
    BY <2>2, <2>4
<1> QED
  BY <1>4, <1>5

LEMMA InvariantImpliesComplete == ReportInvariant => ReportsAreComplete
PROOF
<1> SUFFICES ASSUME ReportInvariant, CanBeLoaded(log)
             PROVE  /\ IsInjective(Loaded(log))
                    /\ \A r \in Runs : stage[r] = "returned" => r \in ToSet(Loaded(log))
  BY DEF ReportsAreComplete
<1> DEFINE starts == InOrder(RecordStarts(log))
<1>1. log \in Seq(Pieces) /\ TelemetryTypeOK /\ LinesAreAppended
  BY DEF ReportInvariant, TelemetryInvariant, TelemetryTypeOK
<1>2. starts \in SetToSeqs(RecordStarts(log)) /\ IsFiniteSet(RecordStarts(log))
  BY <1>1, LoadedInOrder
<1> HIDE DEF starts
<1>3. /\ \A k \in DOMAIN starts : starts[k] \in RecordStarts(log)
      /\ \A k, l \in DOMAIN starts : starts[k] = starts[l] => k = l
      /\ \A s \in RecordStarts(log) : \E k \in DOMAIN starts : starts[k] = s
  <2>1. starts \in [DOMAIN starts -> RecordStarts(log)]
    BY <1>2, OrderedElements
  <2> QED
    BY <1>2, <2>1, OrderedElements
<1>4. /\ DOMAIN Loaded(log) = DOMAIN starts
      /\ \A k \in DOMAIN starts : Loaded(log)[k] = log[starts[k]].run
  BY DEF Loaded, starts
<1>5. /\ \A s, t \in RecordStarts(log) : log[s].run = log[t].run => s = t
      /\ \A i \in DOMAIN log :
           EndsLine(log[i]) => \E s \in RecordStarts(log) : log[s].run = log[i].run
  BY <1>1, RecordsOfRuns
<1>6. IsInjective(Loaded(log))
  BY <1>3, <1>4, <1>5 DEF IsInjective
<1>7. ASSUME NEW r \in Runs, stage[r] = "returned"
      PROVE  r \in ToSet(Loaded(log))
  <2>1. PICK i \in DOMAIN log : log[i].run = r /\ EndsLine(log[i])
    BY <1>1, <1>7 DEF LinesAreAppended
  <2>2. PICK s \in RecordStarts(log) : log[s].run = r
    BY <1>5, <2>1
  <2>3. PICK k \in DOMAIN starts : starts[k] = s
    BY <1>3
  <2>4. k \in DOMAIN Loaded(log) /\ Loaded(log)[k] = r
    BY <1>4, <2>2, <2>3
  <2> QED
    BY <2>4 DEF ToSet
<1> QED
  BY <1>6, <1>7

(***************************************************************************)
(* The invariant of reports.                                               *)
(***************************************************************************)
LEMMA PiecesHaveRuns ==
  ASSUME TelemetryTypeOK, NEW i \in DOMAIN log
  PROVE  log[i].run \in Runs
PROOF
<1>1. log[i] \in Pieces
  BY DEF TelemetryTypeOK
<1> QED
  BY <1>1 DEF Pieces

\* Steps that append nothing, and neither begin nor end an append.
LEMMA LinesAreKept ==
  ASSUME TelemetryTypeOK, LinesAreAppended, log' = log,
         \A q \in Runs : stage'[q] \in {"appending", "returned"} => stage'[q] = stage[q]
  PROVE  LinesAreAppended'
PROOF
<1>1. \A i \in DOMAIN log : log[i].run \in Runs
  BY PiecesHaveRuns
<1> QED
  BY <1>1 DEF LinesAreAppended, EndsLine

LEMMA AppendedLines ==
  ASSUME TelemetryInvariant, LinesAreAppended, NEW r \in Runs,
         AppendSummary(r) \/ AppendHead(r) \/ AppendTail(r) \/ DieInAppend(r)
  PROVE  LinesAreAppended'
PROOF
<1>1. TelemetryTypeOK /\ IsOrdered(r) /\ log \in Seq(Pieces)
  BY DEF TelemetryInvariant, WritesAreOrdered, TelemetryTypeOK
<1>2. PICK part \in {"torn", "bare", "whole", "head", "tail"},
           next \in {"appending", "returned", "died"} :
        /\ log' = Append(log, Piece(r, part)) /\ stage' = [stage EXCEPT ![r] = next]
        /\ next = "appending" => part = "head"
        /\ next = "returned" => part \in {"whole", "tail"}
        /\ IF part = "tail" THEN stage[r] = "appending" ELSE stage[r] = "recorded"
  <2>1. CASE AppendSummary(r)
    BY <2>1 DEF AppendSummary
  <2>2. CASE AppendHead(r)
    BY <2>2 DEF AppendHead
  <2>3. CASE AppendTail(r)
    BY <2>3 DEF AppendTail
  <2>4. CASE DieInAppend(r)
    BY <2>4 DEF DieInAppend
  <2> QED
    BY <2>1, <2>2, <2>3, <2>4
<1> DEFINE piece == Piece(r, part)  last == Len(log) + 1
<1>3. piece \in Pieces /\ piece.run = r /\ piece.part = part
  BY <1>1, <1>2 DEF Piece, Pieces, TelemetryTypeOK
<1> HIDE DEF piece
<1>4. /\ Len(log) \in Nat /\ DOMAIN log = 1 .. Len(log) /\ DOMAIN log' = 1 .. last
      /\ \A i \in 1 .. Len(log) : log'[i] = log[i]
      /\ log'[last] = piece
  BY <1>1, <1>2, <1>3 DEF piece
<1>5. \A q \in Runs : stage'[q] = IF q = r THEN next ELSE stage[q]
  BY <1>1, <1>2 DEF TelemetryTypeOK
<1>6. \A i \in 1 .. Len(log) : log[i].run \in Runs
  BY <1>1, <1>4, PiecesHaveRuns
\* What the run appended before is nothing, or the head of this tail.
<1>7. \A i \in 1 .. Len(log) : log[i].run = r => log[i].part = "head" /\ part = "tail"
  <2>1. CASE stage[r] = "recorded"
    BY <1>1, <1>4, <2>1 DEF IsOrdered
  <2>2. CASE stage[r] = "appending"
    BY <1>2, <1>4, <2>2 DEF LinesAreAppended
  <2> QED
    BY <1>2, <2>1, <2>2
<1>8. ASSUME NEW i \in DOMAIN log', NEW j \in DOMAIN log', i < j, log'[i].run = log'[j].run
      PROVE  log'[i].part = "head" /\ log'[j].part = "tail"
  <2>1. i \in 1 .. Len(log)
    BY <1>4, <1>8
  <2>2. CASE j = last
    BY <1>3, <1>4, <1>7, <1>8, <2>1, <2>2
  <2>3. CASE j \in 1 .. Len(log)
    BY <1>4, <1>8, <2>1, <2>3 DEF LinesAreAppended
  <2> QED
    BY <1>4, <2>2, <2>3
<1>9. ASSUME NEW i \in DOMAIN log', stage'[log'[i].run] = "appending"
      PROVE  log'[i].part = "head"
  <2>1. CASE i = last
    BY <1>2, <1>3, <1>4, <1>5, <1>9, <2>1
  <2>2. CASE i \in 1 .. Len(log) /\ log[i].run = r
    BY <1>4, <1>7, <2>2
  <2>3. CASE i \in 1 .. Len(log) /\ log[i].run # r
    BY <1>4, <1>5, <1>6, <1>9, <2>3 DEF LinesAreAppended
  <2> QED
    BY <1>4, <2>1, <2>2, <2>3
<1>10. ASSUME NEW q \in Runs, stage'[q] = "returned"
       PROVE  \E i \in DOMAIN log' : log'[i].run = q /\ log'[i].part \in {"whole", "tail"}
  <2>1. CASE q = r
    <3>1. last \in DOMAIN log' /\ log'[last].run = r /\ log'[last].part \in {"whole", "tail"}
      BY <1>2, <1>3, <1>4, <1>5, <1>10, <2>1
    <3> QED
      BY <2>1, <3>1
  <2>2. CASE q # r
    <3>1. PICK i \in DOMAIN log : log[i].run = q /\ EndsLine(log[i])
      BY <1>5, <1>10, <2>2 DEF LinesAreAppended
    <3>2. i \in DOMAIN log' /\ log'[i] = log[i]
      BY <1>4
    <3> QED
      BY <3>1, <3>2 DEF EndsLine
  <2> QED
    BY <2>1, <2>2
<1> QED
  BY <1>8, <1>9, <1>10 DEF LinesAreAppended, EndsLine

LEMMA ReportInit == Init => ReportInvariant
PROOF
<1> SUFFICES ASSUME Init PROVE ReportInvariant
  OBVIOUS
<1>1. LinesAreAppended /\ ReportIsPast
  BY DEF Init, LinesAreAppended, ReportIsPast
<1> QED
  BY <1>1, TelemetryInit DEF ReportInvariant

\* The log only grows, and so does not forget what a report was made from.
LEMMA ReportIsPastStep ==
  ASSUME TelemetryTypeOK, TelemetryTypeOK', ReportIsPast, [Next]_telemetryVars
  PROVE  ReportIsPast'
PROOF
<1>1. log \in Seq(Pieces) /\ log' \in Seq(Pieces)
  BY DEF TelemetryTypeOK
<1>2. CASE report' = report /\ log' = log
  BY <1>2 DEF ReportIsPast, Past
<1>3. CASE report' = report /\ \E piece : log' = Append(log, piece)
  <2> SUFFICES ASSUME report # << >>
               PROVE  \E n \in DOMAIN log' :
                         CanBeLoaded(SubSeq(log', 1, n)) /\ report = Loaded(SubSeq(log', 1, n))
    BY <1>3 DEF ReportIsPast, Past
  <2>1. PICK n \in DOMAIN log :
               CanBeLoaded(SubSeq(log, 1, n)) /\ report = Loaded(SubSeq(log, 1, n))
    BY DEF ReportIsPast, Past
  <2>2. n \in DOMAIN log' /\ SubSeq(log', 1, n) = SubSeq(log, 1, n)
    <3>1. PICK piece : log' = Append(log, piece)
      BY <1>3
    <3>2. /\ Len(log) \in Nat /\ n \in 1 .. Len(log) /\ DOMAIN log' = 1 .. Len(log) + 1
          /\ Len(log') = Len(log) + 1
          /\ \A i \in 1 .. Len(log) : log'[i] = log[i]
      BY <1>1, <3>1
    <3>3. /\ SubSeq(log', 1, n) = [i \in 1 .. n |-> log'[i]]
          /\ SubSeq(log, 1, n) = [i \in 1 .. n |-> log[i]]
      BY <1>1, <3>2
    <3>4. \A i \in 1 .. n : log'[i] = log[i]
      BY <3>2
    <3> QED
      BY <3>2, <3>3, <3>4
  <2> QED
    BY <2>1, <2>2
<1>4. CASE Report
  <2>1. log' = log /\ CanBeLoaded(log) /\ report' = Loaded(log)
    BY <1>4 DEF Report
  <2>2. log # << >> /\ Len(log) \in DOMAIN log /\ SubSeq(log, 1, Len(log)) = log
    BY <1>1, <2>1 DEF CanBeLoaded
  <2> QED
    BY <2>1, <2>2 DEF ReportIsPast, Past
<1>5. \/ report' = report /\ log' = log
      \/ report' = report /\ \E piece : log' = Append(log, piece)
      \/ Report
  BY DEF Next, Persist, Dispatch, Raise, Return, WriteArtifact, WriteEvents, AppendSummary,
         AppendHead, AppendTail, DieBetweenWrites, DieInArtifact, DieInEvents, DieInAppend,
         unchangedFiles, telemetryVars
<1> QED
  BY <1>2, <1>3, <1>4, <1>5

LEMMA LinesAreAppendedStep ==
  ASSUME TelemetryInvariant, LinesAreAppended, [Next]_telemetryVars
  PROVE  LinesAreAppended'
PROOF
<1>1. TelemetryTypeOK
  BY DEF TelemetryInvariant
<1>2. ASSUME NEW r \in Runs,
             AppendSummary(r) \/ AppendHead(r) \/ AppendTail(r) \/ DieInAppend(r)
      PROVE  LinesAreAppended'
  BY <1>2, AppendedLines
<1>3. ASSUME NEW r \in Runs, NEW next \in Stages \ {"appending", "returned"},
             log' = log, stage' = [stage EXCEPT ![r] = next]
      PROVE  LinesAreAppended'
  <2>1. \A q \in Runs : stage'[q] \in {"appending", "returned"} => stage'[q] = stage[q]
    BY <1>1, <1>3 DEF TelemetryTypeOK
  <2> QED
    BY <1>1, <1>3, <2>1, LinesAreKept
<1>4. CASE log' = log /\ stage' = stage
  BY <1>1, <1>4, LinesAreKept
<1>5. \/ log' = log /\ stage' = stage
      \/ \E r \in Runs : AppendSummary(r) \/ AppendHead(r) \/ AppendTail(r) \/ DieInAppend(r)
      \/ \E r \in Runs, next \in Stages \ {"appending", "returned"} :
            log' = log /\ stage' = [stage EXCEPT ![r] = next]
  BY DEF Next, Persist, Dispatch, Raise, Return, WriteArtifact, WriteEvents, Report,
         DieBetweenWrites, DieInArtifact, DieInEvents, unchangedFiles, telemetryVars, Stages
<1> QED
  BY <1>2, <1>3, <1>4, <1>5

(* The inductive invariant of reports: each call appends one line and      *)
(* nothing else, and the last report shows a beginning of the log.         *)
THEOREM ReportInvariance == TelemetrySpec => []ReportInvariant
PROOF
<1>1. ReportInvariant /\ TelemetryInvariant' /\ [Next]_telemetryVars => ReportInvariant'
  <2> SUFFICES ASSUME ReportInvariant, TelemetryInvariant', [Next]_telemetryVars
               PROVE  LinesAreAppended' /\ ReportIsPast'
    BY DEF ReportInvariant
  <2>1. /\ TelemetryInvariant /\ LinesAreAppended /\ ReportIsPast
        /\ TelemetryTypeOK /\ TelemetryTypeOK'
    BY DEF ReportInvariant, TelemetryInvariant
  <2> QED
    BY <2>1, LinesAreAppendedStep, ReportIsPastStep
<1> QED
  BY ReportInit, TelemetryInvariance, <1>1, PTL DEF TelemetrySpec

(* A report that succeeds lists every attempt that was returned to its     *)
(* caller, and none twice, for any number of processes whose lines may     *)
(* have come in two pieces and between those of others (reporting.py:74).  *)
THEOREM ReportSafety == TelemetrySpec => []ReportsAreComplete
PROOF
BY ReportInvariance, InvariantImpliesComplete, PTL

(* Every report that succeeds begins with all that the one before it       *)
(* listed, whatever was appended or torn in between.                       *)
THEOREM ReportGrowth == TelemetrySpec => ReportsOnlyGrow
PROOF
<1>1. ReportInvariant /\ [Next]_telemetryVars => [IsPrefix(report, report')]_report
  <2> SUFFICES ASSUME ReportInvariant, [Next]_telemetryVars, report' # report
               PROVE  IsPrefix(report, report')
    OBVIOUS
  <2>1. Report
    BY DEF Next, Persist, Dispatch, Raise, Return, WriteArtifact, WriteEvents, AppendSummary,
           AppendHead, AppendTail, DieBetweenWrites, DieInArtifact, DieInEvents, DieInAppend,
           unchangedFiles, telemetryVars
  <2>2. log \in Seq(Pieces) /\ CanBeLoaded(log) /\ report' = Loaded(log)
    BY <2>1 DEF Report, ReportInvariant, TelemetryInvariant, TelemetryTypeOK
  <2>3. CASE report = << >>
    <3>1. Loaded(log) \in Seq(Runs)
      BY <2>2, LoadedIsSequence
    <3> QED
      BY <2>2, <2>3, <3>1 DEF IsPrefix
  <2>4. CASE report # << >>
    <3>1. PICK n \in DOMAIN log :
                 CanBeLoaded(SubSeq(log, 1, n)) /\ report = Loaded(SubSeq(log, 1, n))
      BY <2>4 DEF ReportInvariant, ReportIsPast, Past
    <3> QED
      BY <2>2, <3>1, ReportsOfPrefixes
  <2> QED
    BY <2>3, <2>4
<1> QED
  BY ReportInvariance, <1>1, PTL DEF TelemetrySpec, ReportsOnlyGrow
=============================================================================
