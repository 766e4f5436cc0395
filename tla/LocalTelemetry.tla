--------------------------- MODULE LocalTelemetry ---------------------------
(***************************************************************************)
(* What an attempt leaves under .higgs/local (src/higgs_agent/runtime.py,  *)
(* persist_dispatch_outcome): a directory of its own with its artifacts    *)
(* and its event stream, and one line in the log of attempt summaries,     *)
(* which all processes of a repository append to and which analytics reads *)
(* (load_attempt_summaries).  AutonomousTicket takes persisting as one     *)
(* step; here it is the sequence of writes it is, with processes that die, *)
(* or whose disk is full, between and inside them.                         *)
(*                                                                         *)
(* The runs are calls of run_ticketed_project and of run_autonomous_ticket *)
(* with run ids of their own.  A ticketed run does not claim its ticket,   *)
(* so two of them may well dispatch the same one: which ticket it is makes *)
(* no difference to the files and is left out.                             *)
(***************************************************************************)
EXTENDS Naturals, Sequences, SequencesExt, FiniteSetsExt

CONSTANTS
  Ticketed,    \* the run ids of run_ticketed_project
  Autonomous   \* and those of run_autonomous_ticket

ASSUME RunsAssumption == Ticketed \cap Autonomous = {}

Runs == Ticketed \cup Autonomous

Artifacts == {"output", "review-handoff", "materialization-plan"}

\* What a file holds: nothing was written, a part was, or all of it.
FileStates == {"absent", "torn", "whole"}

\* A piece one write left in the log: a line without its end ("torn"), a
\* record without its line feed ("bare"), a line ("whole"), or a long line
\* in two buffers ("head", "tail").
Pieces ==
  [run : Runs, part : {"torn", "bare", "whole", "head", "tail"},
   refs : SUBSET Artifacts]

VARIABLES
  stage,      \* where each run is
  todo,       \* the artifacts it still has to write
  refs,       \* those it wrote: artifact_refs
  files,      \* the artifacts on disk
  events,     \* events.ndjson: its state, and what artifact.recorded names
  log,        \* attempt-summaries.ndjson
  report      \* the attempts of the last analytics report, in order

telemetryVars == <<stage, todo, refs, files, events, log, report>>

NoFiles == [a \in Artifacts |-> "absent"]
NoEvents == [state |-> "absent", recorded |-> {}]

Init ==
  /\ stage = [r \in Runs |-> "idle"]
  /\ todo = [r \in Runs |-> {}] /\ refs = [r \in Runs |-> {}]
  /\ files = [r \in Runs |-> NoFiles] /\ events = [r \in Runs |-> NoEvents]
  /\ log = << >> /\ report = << >>

unchangedFiles == UNCHANGED <<todo, refs, files, events, log, report>>

(***************************************************************************)
(* The run up to its outcome.  Reading the requirements, the scan and the  *)
(* dispatch may raise, and then nothing at all is recorded.                *)
(***************************************************************************)
Dispatch(r) ==
  /\ stage[r] = "idle" /\ stage' = [stage EXCEPT ![r] = "executing"]
  /\ unchangedFiles

\* No ready ticket, unreadable input, or an exception out of the dispatch
Raise(r) ==
  /\ stage[r] \in {"idle", "executing"}
  /\ stage' = [stage EXCEPT ![r] = "raised"]
  /\ unchangedFiles

\* A text, a hand-off when the gate asks for review, and the plan when an
\* autonomous run applied one.
Outcomes(r) ==
  {wanted \in SUBSET Artifacts :
     "materialization-plan" \in wanted => r \in Autonomous /\ "output" \in wanted}

Return(r) ==
  /\ stage[r] = "executing"
  /\ \E wanted \in Outcomes(r) : todo' = [todo EXCEPT ![r] = wanted]
  /\ stage' = [stage EXCEPT ![r] = "persisting"]
  /\ UNCHANGED <<refs, files, events, log, report>>

(***************************************************************************)
(* persist_dispatch_outcome: artifacts, events, summary, in this order.    *)
(***************************************************************************)
Rank(a) == CASE a = "output" -> 1 [] a = "review-handoff" -> 2 [] OTHER -> 3
NextArtifact(r) == CHOOSE a \in todo[r] : \A b \in todo[r] : Rank(a) <= Rank(b)

\* _write_text_artifact
WriteArtifact(r) ==
  /\ stage[r] = "persisting" /\ todo[r] # {}
  /\ LET a == NextArtifact(r) IN
       /\ files' = [files EXCEPT ![r][a] = "whole"]
       /\ refs' = [refs EXCEPT ![r] = @ \cup {a}]
       /\ todo' = [todo EXCEPT ![r] = @ \ {a}]
  /\ UNCHANGED <<stage, events, log, report>>

\* _write_ndjson: with artifact.recorded as the last event if there are any
WriteEvents(r) ==
  /\ stage[r] = "persisting" /\ todo[r] = {}
  /\ events' = [events EXCEPT ![r] = [state |-> "whole", recorded |-> refs[r]]]
  /\ stage' = [stage EXCEPT ![r] = "recorded"]
  /\ UNCHANGED <<todo, refs, files, log, report>>

Piece(r, part) == [run |-> r, part |-> part, refs |-> refs[r]]

\* Mutant: the summary is appended while the events are still to be written.
AppendSummaryFirst(r) ==
  /\ stage[r] \in {"persisting", "recorded"} /\ todo[r] = {}
  /\ log' = Append(log, Piece(r, "whole"))
  /\ stage' = [stage EXCEPT ![r] = "returned"]
  /\ UNCHANGED <<todo, refs, files, events, report>>

\* Mutant: the log is rewritten with what was read when the run began.
AppendSummaryOverwriting(r) ==
  /\ stage[r] = "recorded"
  /\ log' = <<Piece(r, "whole")>>
  /\ stage' = [stage EXCEPT ![r] = "returned"]
  /\ UNCHANGED <<todo, refs, files, events, report>>

\* _append_ndjson_line: a line that fits the buffer is one write
AppendSummary(r) ==
  /\ stage[r] = "recorded"
  /\ log' = Append(log, Piece(r, "whole"))
  /\ stage' = [stage EXCEPT ![r] = "returned"]
  /\ UNCHANGED <<todo, refs, files, events, report>>

\* and one that does not, for an error that lists many paths, is two
AppendHead(r) ==
  /\ stage[r] = "recorded"
  /\ log' = Append(log, Piece(r, "head"))
  /\ stage' = [stage EXCEPT ![r] = "appending"]
  /\ UNCHANGED <<todo, refs, files, events, report>>

AppendTail(r) ==
  /\ stage[r] = "appending"
  /\ log' = Append(log, Piece(r, "tail"))
  /\ stage' = [stage EXCEPT ![r] = "returned"]
  /\ UNCHANGED <<todo, refs, files, events, report>>

(***************************************************************************)
(* The process dies, or its write fails and the OSError ends the call: the *)
(* file it is at is untouched, empty or in part written.                   *)
(***************************************************************************)
DieBetweenWrites(r) ==
  /\ stage[r] \in {"persisting", "recorded", "appending"}
  /\ stage' = [stage EXCEPT ![r] = "died"]
  /\ unchangedFiles

DieInArtifact(r) ==
  /\ stage[r] = "persisting" /\ todo[r] # {}
  /\ files' = [files EXCEPT ![r][NextArtifact(r)] = "torn"]
  /\ stage' = [stage EXCEPT ![r] = "died"]
  /\ UNCHANGED <<todo, refs, events, log, report>>

DieInEvents(r) ==
  /\ stage[r] = "persisting" /\ todo[r] = {}
  /\ events' = [events EXCEPT ![r].state = "torn"]
  /\ stage' = [stage EXCEPT ![r] = "died"]
  /\ UNCHANGED <<todo, refs, files, log, report>>

DieInAppend(r) ==
  /\ stage[r] = "recorded"
  /\ \E part \in {"torn", "bare"} : log' = Append(log, Piece(r, part))
  /\ stage' = [stage EXCEPT ![r] = "died"]
  /\ UNCHANGED <<todo, refs, files, events, report>>

(***************************************************************************)
(* load_attempt_summaries: every line must be a record, or the whole log   *)
(* is refused.  A piece without its line feed is glued to what comes next. *)
(***************************************************************************)
EndsLine(piece) == piece.part \in {"whole", "tail"}

LineStarts(pieces) == {i \in DOMAIN pieces : i = 1 \/ EndsLine(pieces[i - 1])}

LineFrom(pieces, i) ==
  LET last == Min({j \in i..Len(pieces) : j = Len(pieces) \/ EndsLine(pieces[j])})
  IN  SubSeq(pieces, i, last)

IsRecord(line) ==
  \/ Len(line) = 1 /\ line[1].part \in {"whole", "bare"}
  \/ /\ Len(line) = 2 /\ line[1].run = line[2].run
     /\ line[1].part = "head" /\ line[2].part = "tail"

RecordStarts(pieces) == {i \in LineStarts(pieces) : IsRecord(LineFrom(pieces, i))}

\* Mutant: lines that do not parse are skipped.
CanBeLoadedInPart(pieces) == pieces # << >>

CanBeLoaded(pieces) == pieces # << >> /\ RecordStarts(pieces) = LineStarts(pieces)

InOrder(S) ==
  CHOOSE s \in SetToSeqs(S) : \A i, j \in DOMAIN s : i < j => s[i] < s[j]

Loaded(pieces) ==
  LET starts == InOrder(RecordStarts(pieces))
  IN  [k \in DOMAIN starts |-> pieces[starts[k]].run]

\* higgs-agent analytics report; one that fails leaves nothing behind
Report ==
  /\ CanBeLoaded(log) /\ report' = Loaded(log)
  /\ UNCHANGED <<stage, todo, refs, files, events, log>>

Persist(r) ==
  \/ WriteArtifact(r) \/ WriteEvents(r)
  \/ AppendSummary(r) \/ AppendHead(r) \/ AppendTail(r)

Next ==
  \/ \E r \in Runs :
       \/ Dispatch(r) \/ Raise(r) \/ Return(r) \/ Persist(r)
       \/ DieBetweenWrites(r) \/ DieInArtifact(r) \/ DieInEvents(r) \/ DieInAppend(r)
  \/ Report

TelemetrySpec == Init /\ [][Next]_telemetryVars

(***************************************************************************)
(* Properties.                                                             *)
(***************************************************************************)

Stages == {"idle", "executing", "persisting", "recorded", "appending",
           "returned", "raised", "died"}

\* The locals of every call and its files have their types.
TelemetryTypeOK ==
  /\ stage \in [Runs -> Stages]
  /\ todo \in [Runs -> SUBSET Artifacts] /\ refs \in [Runs -> SUBSET Artifacts]
  /\ files \in [Runs -> [Artifacts -> FileStates]]
  /\ events \in [Runs -> [state : FileStates, recorded : SUBSET Artifacts]]
  /\ log \in Seq(Pieces)

\* Whatever of a summary is in the log, however little, what it stands for
\* is on disk: its events, complete and naming the same artifacts, and each
\* artifact it refers to, whole.  This is what the order of the writes in
\* persist_dispatch_outcome (runtime.py:731-790) is for.
SummariesAreBacked ==
  \A i \in DOMAIN log :
    LET r == log[i].run IN
    /\ events[r] = [state |-> "whole", recorded |-> log[i].refs]
    /\ \A a \in log[i].refs : files[r][a] = "whole"

\* Why it is inductive: what a call lists it has written and will not touch
\* again, its events are complete once it goes on to the log, and before that
\* the log knows nothing of it.
IsOrdered(r) ==
  /\ stage[r] \in {"idle", "executing"} => refs[r] = {}
  /\ todo[r] \cap refs[r] = {}
  /\ \A a \in refs[r] : files[r][a] = "whole"
  /\ stage[r] \in {"recorded", "appending"} =>
       events[r] = [state |-> "whole", recorded |-> refs[r]]
  /\ \A i \in DOMAIN log :
       log[i].run = r => stage[r] \in {"appending", "returned", "died"}

WritesAreOrdered == \A r \in Runs : IsOrdered(r)

\* A report may fail, because a line is torn or two long ones interleaved,
\* but it never leaves out an attempt that was returned to its caller, nor
\* counts one twice (reporting.py:74-88 raises rather than skips).
ReportsAreComplete ==
  CanBeLoaded(log) =>
    LET runs == Loaded(log) IN
    /\ IsInjective(runs)
    /\ \A r \in Runs : stage[r] = "returned" => r \in ToSet(runs)

\* What a report showed, every later one shows in the same place: the log is
\* only appended to, and a record without its line feed that was counted
\* once is never dropped from a report that succeeds.
ReportsOnlyGrow == [][IsPrefix(report, report')]_report
=============================================================================
