------------------------ MODULE TurnkeyProject_proofs ------------------------
(***************************************************************************)
(* Theorems about TurnkeyProject, for any number of project runs, any caps *)
(* and any number of crashes and resumes.  A run is a client of            *)
(* AutonomousTicket, so every theorem about sessions holds of it; and what *)
(* survives of it on disk is a prefix of what was done, and counted right. *)
(***************************************************************************)
EXTENDS TurnkeyProject, AutonomousTicket_proofs, FiniteSetTheorems, SequenceTheorems

(***************************************************************************)
(* A project run works through sessions.                                   *)
(***************************************************************************)
LEMMA ProjectStepIsSessionStep == [ProjectNext]_vars => [Next]_sessionVars
PROOF
<1> SUFFICES ASSUME [ProjectNext]_vars PROVE [Next]_sessionVars
  OBVIOUS
<1>1. ASSUME NEW r \in Runtimes, ProjectStep(r)
      PROVE  [Next]_sessionVars
  <2>1. CASE CallTicket(r)
    BY <2>1 DEF CallTicket, Next
  <2>2. CASE InCall(r)
    BY <2>2 DEF InCall, Next
  <2>3. CASE RecordRuntimeFailure(r) \/ FindNothingReady(r) \/ RecordAccepted(r) \/ RecordStop(r)
    <3>1. Finish(r)
      BY <2>3 DEF RecordRuntimeFailure, FindNothingReady, RecordAccepted, RecordStop
    <3> QED
      BY <3>1 DEF Next
  <2>4. CASE StopAtLimit(r) \/ SaveFinalCheckpoint(r) \/ SaveSummary(r) \/ WriteBundle(r)
    BY <2>4 DEF StopAtLimit, SaveFinalCheckpoint, SaveSummary, WriteBundle
  <2> QED
    BY <1>1, <2>1, <2>2, <2>3, <2>4 DEF ProjectStep
<1>2. ASSUME NEW r \in Runtimes, StartProject(r) \/ ResumeProject(r) \/ TearFirstSave(r)
      PROVE  [Next]_sessionVars
  BY <1>2 DEF StartProject, ResumeProject, TearFirstSave
<1>3. ASSUME NEW r \in Runtimes, AbortProject(r)
      PROVE  [Next]_sessionVars
  BY <1>3 DEF AbortProject, Next
<1>4. CASE OperatorStep
  BY <1>4 DEF Next
<1>5. CASE UNCHANGED vars
  BY <1>5 DEF vars
<1> QED
  BY <1>1, <1>2, <1>3, <1>4, <1>5 DEF ProjectNext

(* Project runs only ever do what sessions do: the claims, reports and     *)
(* writes of a run, interrupted and resumed or not, are those of calls of  *)
(* run_autonomous_ticket.                                                  *)
THEOREM ProjectRefinement == ProjectSafety => SessionSafety
PROOF
<1>1. ProjectInit => Init
  BY DEF ProjectInit
<1> QED
  BY <1>1, ProjectStepIsSessionStep, PTL DEF ProjectSafety, SessionSafety

(* Project runs keep the promises of the ticket workflow.                  *)
THEOREM ProjectWorkflow == ProjectSafety => ImplementsWorkflow
PROOF
BY ProjectRefinement, WorkflowRefinement

(***************************************************************************)
(* Types.                                                                  *)
(***************************************************************************)
LEMMA ClosedType ==
  ASSUME NEW l \in Ledgers, NEW status \in RunStatuses, NEW terminal \in TerminalConditions
  PROVE  /\ Closed(l, status, terminal) \in Ledgers
         /\ Closed(l, status, terminal).attempted = l.attempted
PROOF
BY DEF Closed, Ledgers

LEMMA WithAttemptType ==
  ASSUME NEW l \in Ledgers, NEW a \in AttemptRecords
  PROVE  /\ WithAttempt(l, a) \in Ledgers
         /\ WithAttempt(l, a).attempted = Append(l.attempted, a)
         /\ WithAttempt(l, a).completed = l.completed
PROOF
BY DEF WithAttempt, Ledgers

LEMMA NewLedgerType == NewLedger \in Ledgers /\ NewLedger.attempted = << >>
PROOF
BY DEF NewLedger, Ledgers, RunStatuses, TerminalConditions

LEMMA AttemptTypes ==
  ASSUME TypeOK, NEW r \in Runtimes
  PROVE  /\ ReturnedAttempt(r) \in AttemptRecords
         /\ AttemptRecord(None, "rejected", "runtime_error") \in AttemptRecords
PROOF
BY DEF ReturnedAttempt, AttemptRecord, AttemptRecords, TypeOK, Sessions, Decisions

LEMMA TerminalConditionType ==
  ASSUME NEW decision, NEW reason
  PROVE  TerminalCondition(decision, reason) \in TerminalConditions
PROOF
BY DEF TerminalCondition, TerminalConditions

LEMMA AcceptedType ==
  ASSUME NEW l \in Ledgers, NEW a \in AttemptRecords, NEW t \in Tickets
  PROVE  LET accepted == [WithAttempt(l, a) EXCEPT
                            !.completed = Append(@, t), !.failures = 0]
         IN  accepted \in Ledgers /\ accepted.attempted = Append(l.attempted, a)
PROOF
<1> DEFINE w == WithAttempt(l, a)
<1>1. w \in Ledgers /\ w.attempted = Append(l.attempted, a)
  BY WithAttemptType
<1> HIDE DEF w
<1>2. [w EXCEPT !.completed = Append(@, t), !.failures = 0] \in Ledgers
  <2> DEFINE completed == Append(w.completed, t)
  <2>1. completed \in Seq(Tickets)
    BY <1>1 DEF Ledgers
  <2> HIDE DEF completed
  <2>2. [w EXCEPT !.completed = completed, !.failures = 0] \in Ledgers
    BY <1>1, <2>1 DEF Ledgers
  <2> QED
    BY <2>2 DEF completed
<1>3. [w EXCEPT !.completed = Append(@, t), !.failures = 0].attempted = w.attempted
  BY <1>1 DEF Ledgers
<1> QED
  BY <1>1, <1>2, <1>3 DEF w

LEMMA FailedType ==
  ASSUME NEW l \in Ledgers, NEW a \in AttemptRecords
  PROVE  LET failed == [WithAttempt(l, a) EXCEPT !.retries = @ + 1, !.failures = @ + 1]
         IN  failed \in Ledgers /\ failed.attempted = Append(l.attempted, a)
PROOF
<1> DEFINE w == WithAttempt(l, a)
<1>1. w \in Ledgers /\ w.attempted = Append(l.attempted, a)
  BY WithAttemptType
<1> HIDE DEF w
<1>2. [w EXCEPT !.retries = @ + 1, !.failures = @ + 1] \in Ledgers
  <2> DEFINE retries  == w.retries + 1
             failures == w.failures + 1
  <2>1. retries \in Nat /\ failures \in Nat
    BY <1>1 DEF Ledgers
  <2> HIDE DEF retries, failures
  <2>2. [w EXCEPT !.retries = retries, !.failures = failures] \in Ledgers
    BY <1>1, <2>1 DEF Ledgers
  <2> QED
    BY <1>1, <2>2 DEF retries, failures, Ledgers
<1>3. [w EXCEPT !.retries = @ + 1, !.failures = @ + 1].attempted = w.attempted
  BY <1>1 DEF Ledgers
<1> QED
  BY <1>1, <1>2, <1>3 DEF w

\* A review bundle sorts the tickets of the board, whatever the board holds.
LEMMA ReviewBundleType ==
  ASSUME NEW l \in Ledgers
  PROVE  ReviewBundle(l) \in Bundles /\ ReviewBundle(l).attempted = l.attempted
PROOF
<1>1. ToSet(l.completed) \subseteq Tickets
  BY DEF ToSet, Ledgers
<1>2. \A a \in ToSet(l.attempted) : a.ticket # None => a.ticket \in Tickets
  <2>1. l.attempted \in Seq(AttemptRecords)
    BY DEF Ledgers
  <2>2. ToSet(l.attempted) \subseteq AttemptRecords
    BY <2>1 DEF ToSet
  <2> QED
    BY <2>2 DEF AttemptRecords
<1>3. DependencyBlocked(board) \subseteq Tickets /\ Indexed(board) \subseteq Tickets
  BY DEF DependencyBlocked, Indexed
<1>4. /\ l.status \in RunStatuses /\ l.terminal \in TerminalConditions
      /\ l.attempted \in Seq(AttemptRecords)
  BY DEF Ledgers
<1> QED
  BY <1>1, <1>2, <1>3, <1>4 DEF ReviewBundle, Bundles

\* A call in progress does not become idle by itself.
LEMMA CallStepStaysBusy ==
  ASSUME TypeOK, NEW r \in Runtimes, CallStep(r)
  PROVE  pc'[r] # "idle" /\ pc[r] # "idle"
PROOF
<1> USE DEF Goto, TypeOK
<1>1. CASE NoneReady(r) \/ SelectTicket(r) \/ ClaimTicket(r) \/ MuonTicketsFails(r)
  BY <1>1 DEF NoneReady, SelectTicket, ClaimTicket, MuonTicketsFails
<1>2. CASE Execute(r)
  BY <1>2 DEF Execute
<1>3. CASE ParsePlan(r) \/ PlanIsInvalid(r) \/ ApplyFails(r)
  BY <1>3 DEF ParsePlan, PlanIsInvalid, ApplyFails, MarkExecutionFailed
<1>4. CASE \E p \in Paths : ApplyChange(r, p) \/ SkipChange(r, p)
  BY <1>4 DEF ApplyChange, SkipChange
<1>5. CASE PlanApplied(r) \/ Validate(r)
  BY <1>5 DEF PlanApplied, Validate
<1>6. CASE RejectFailedExecution(r) \/ EvaluateWriteRequest(r)
  BY <1>6 DEF RejectFailedExecution, EvaluateWriteRequest
<1>7. CASE CommentTicket(r) \/ SetNeedsReview(r) \/ PersistOutcome(r)
  BY <1>7 DEF CommentTicket, SetNeedsReview, PersistOutcome
<1> QED
  BY <1>1, <1>2, <1>3, <1>4, <1>5, <1>6, <1>7 DEF CallStep

LEMMA ProjectTypeOKInit == ProjectInit => ProjectTypeOK
PROOF
BY NewLedgerType, ProjectAssumption DEF ProjectInit, ProjectTypeOK, ProjectSteps, Init

LEMMA ProjectTypeOKStep ==
  ASSUME TypeOK, ProjectTypeOK, [ProjectNext]_vars
  PROVE  ProjectTypeOK'
PROOF
<1> USE DEF ProjectTypeOK, Enter, SaveCheckpoint
<1>1. "off" \in ProjectSteps /\ "loop" \in ProjectSteps /\ "call" \in ProjectSteps
      /\ "save_checkpoint" \in ProjectSteps /\ "save_summary" \in ProjectSteps
      /\ "write_bundle" \in ProjectSteps
  BY DEF ProjectSteps
<1>2. /\ {"running", "succeeded", "blocked", "stopped"} \subseteq RunStatuses
      /\ {"max_ticket_limit_reached", "repeated_failures_exceeded",
          "blocked_dependency_graph", "no_ready_ticket"} \subseteq TerminalConditions
  BY DEF RunStatuses, TerminalConditions
<1>3. ASSUME NEW r \in Runtimes, Finish(r)
      PROVE  pc'[r] = "idle" /\ \A q \in Runtimes \ {r} : pc'[q] = pc[q]
  BY <1>3 DEF Finish, Goto, TypeOK
<1>4. ASSUME NEW r \in Runtimes, Start(r)
      PROVE  pc'[r] # "idle" /\ \A q \in Runtimes \ {r} : pc'[q] = pc[q]
  BY <1>4 DEF Start, Goto, TypeOK
<1>5. ASSUME NEW r \in Runtimes, Abort(r)
      PROVE  pc'[r] = "idle" /\ \A q \in Runtimes \ {r} : pc'[q] = pc[q]
  BY <1>5 DEF Abort, Goto, TypeOK
<1>6. ASSUME NEW r \in Runtimes, ProjectStep(r)
      PROVE  ProjectTypeOK'
  <2>1. CASE StopAtLimit(r)
    <3>1. Closed(ledger[r], "stopped", "max_ticket_limit_reached") \in Ledgers
      BY <1>2, ClosedType
    <3> QED
      BY <1>1, <2>1, <3>1 DEF StopAtLimit, sessionVars
  <2>2. CASE CallTicket(r)
    BY <1>1, <1>4, <2>2 DEF CallTicket
  <2>3. CASE InCall(r)
    <3>1. pc'[r] # "idle" /\ pc[r] # "idle"
      BY <2>3, CallStepStaysBusy DEF InCall
    <3>2. \A q \in Runtimes \ {r} : pc'[q] = pc[q]
      BY <2>3, OthersAreKept DEF InCall, OthersKept
    <3> QED
      BY <2>3, <3>1, <3>2 DEF InCall, projectVars
  <2>4. CASE RecordRuntimeFailure(r)
    <3> DEFINE attempt == AttemptRecord(None, "rejected", "runtime_error")
               failed  == [WithAttempt(ledger[r], attempt) EXCEPT
                             !.retries = @ + 1, !.failures = @ + 1]
    <3>1. attempt \in AttemptRecords
      BY AttemptTypes
    <3>2. failed \in Ledgers
      BY <3>1, FailedType
    <3>3. Closed(failed, "blocked", "repeated_failures_exceeded") \in Ledgers
      BY <1>2, <3>2, ClosedType
    <3>4. /\ checkpoint' = [checkpoint EXCEPT ![r] = failed]
          /\ \E l \in {failed, Closed(failed, "blocked", "repeated_failures_exceeded")} :
               ledger' = [ledger EXCEPT ![r] = l]
          /\ \E s \in {"save_checkpoint", "loop"} : step' = [step EXCEPT ![r] = s]
          /\ Finish(r) /\ UNCHANGED <<cap, summary, bundle, resumes>>
      BY <2>4 DEF RecordRuntimeFailure
    <3> HIDE DEF failed
    <3> QED
      BY <1>1, <1>3, <3>2, <3>3, <3>4
  <2>5. CASE FindNothingReady(r)
    <3>1. /\ Closed(ledger[r], "blocked", "blocked_dependency_graph") \in Ledgers
          /\ Closed(ledger[r], "succeeded", "no_ready_ticket") \in Ledgers
      BY <1>2, ClosedType
    <3>2. \E l \in {Closed(ledger[r], "blocked", "blocked_dependency_graph"),
                    Closed(ledger[r], "succeeded", "no_ready_ticket")} :
            ledger' = [ledger EXCEPT ![r] = l]
      BY <2>5 DEF FindNothingReady
    <3>3. /\ Finish(r) /\ step' = [step EXCEPT ![r] = "save_checkpoint"]
          /\ UNCHANGED <<cap, checkpoint, summary, bundle, resumes>>
      BY <2>5 DEF FindNothingReady
    <3> QED
      BY <1>1, <1>3, <3>1, <3>2, <3>3
  <2>6. CASE RecordAccepted(r)
    <3> DEFINE accepted == [WithAttempt(ledger[r], ReturnedAttempt(r)) EXCEPT
                              !.completed = Append(@, session[r].ticket), !.failures = 0]
    <3>1. session[r].ticket \in Tickets
      BY <2>6 DEF RecordAccepted, TypeOK, TicketSteps
    <3>2. accepted \in Ledgers
      BY <3>1, AttemptTypes, AcceptedType
    <3>3. /\ ledger' = [ledger EXCEPT ![r] = accepted]
          /\ checkpoint' = [checkpoint EXCEPT ![r] = accepted]
          /\ step' = [step EXCEPT ![r] = "loop"]
          /\ Finish(r) /\ UNCHANGED <<cap, summary, bundle, resumes>>
      BY <2>6 DEF RecordAccepted
    <3> HIDE DEF accepted
    <3> QED
      BY <1>1, <1>3, <3>2, <3>3
  <2>7. CASE RecordStop(r)
    <3> DEFINE attempted == WithAttempt(ledger[r], ReturnedAttempt(r))
               terminal  == TerminalCondition(session[r].decision, session[r].reason)
    <3>1. attempted \in Ledgers
      BY AttemptTypes, WithAttemptType
    <3>2. Closed(attempted, "blocked", terminal) \in Ledgers
      BY <1>2, <3>1, ClosedType, TerminalConditionType
    <3>3. /\ ledger' = [ledger EXCEPT ![r] = Closed(attempted, "blocked", terminal)]
          /\ step' = [step EXCEPT ![r] = "save_checkpoint"]
          /\ Finish(r) /\ UNCHANGED <<cap, checkpoint, summary, bundle, resumes>>
      BY <2>7 DEF RecordStop
    <3> HIDE DEF attempted, terminal
    <3> QED
      BY <1>1, <1>3, <3>2, <3>3
  <2>8. CASE SaveFinalCheckpoint(r)
    BY <1>1, <2>8 DEF SaveFinalCheckpoint, sessionVars
  <2>9. CASE SaveSummary(r)
    BY <1>1, <2>9 DEF SaveSummary, sessionVars
  <2>10. CASE WriteBundle(r)
    <3>1. ReviewBundle(ledger[r]) \in Bundles
      BY ReviewBundleType
    <3> QED
      BY <1>1, <2>10, <3>1, NewLedgerType DEF WriteBundle, sessionVars
  <2> QED
    BY <1>6, <2>1, <2>2, <2>3, <2>4, <2>5, <2>6, <2>7, <2>8, <2>9, <2>10 DEF ProjectStep
<1>7. ASSUME NEW r \in Runtimes, StartProject(r)
      PROVE  ProjectTypeOK'
  BY <1>1, <1>7, NewLedgerType DEF StartProject, sessionVars
<1>8. ASSUME NEW r \in Runtimes, ResumeProject(r)
      PROVE  ProjectTypeOK'
  <2>1. checkpoint[r] \in Ledgers
    BY <1>8 DEF ResumeProject
  <2>2. resumes' \in 0 .. MaxResumes
    BY <1>8, ProjectAssumption DEF ResumeProject
  <2> QED
    BY <1>1, <1>8, <2>1, <2>2 DEF ResumeProject, sessionVars
<1>9. ASSUME NEW r \in Runtimes, TearFirstSave(r)
      PROVE  ProjectTypeOK'
  BY <1>9 DEF TearFirstSave, sessionVars
<1>10. ASSUME NEW r \in Runtimes, AbortProject(r)
       PROVE  ProjectTypeOK'
  <2>1. pc'[r] = "idle" /\ \A q \in Runtimes \ {r} : pc'[q] = pc[q]
    BY <1>5, <1>10 DEF AbortProject, sessionVars
  <2>2. /\ checkpoint' \in [Runtimes -> Ledgers \cup {None, Torn}]
        /\ summary' \in [Runtimes -> Ledgers \cup {None, Torn}]
        /\ bundle' \in [Runtimes -> Bundles \cup {None, Torn}]
    BY <1>10 DEF AbortProject, TearCheckpoint, TearSummary, TearBundle
  <2> QED
    BY <1>1, <1>10, <2>1, <2>2, NewLedgerType DEF AbortProject
<1>11. CASE OperatorStep /\ UNCHANGED projectVars
  BY <1>11 DEF OperatorStep, Approve, Archive, Reopen, SetStatus, projectVars
<1>12. CASE UNCHANGED vars
  BY <1>12 DEF vars, sessionVars, projectVars
<1> QED
  BY <1>6, <1>7, <1>8, <1>9, <1>10, <1>11, <1>12 DEF ProjectNext

(* The files and the memory of every run keep the shape the code gives     *)
(* them, and a run waits for its call exactly while the call goes on.      *)
THEOREM ProjectTypeSafety == ProjectSafety => []ProjectTypeOK
PROOF
<1>1. TypeOK /\ ProjectTypeOK /\ [ProjectNext]_vars => ProjectTypeOK'
  BY ProjectTypeOKStep
<1>2. ProjectSafety => []TypeOK
  BY ProjectRefinement, TypeSafety
<1> QED
  BY ProjectTypeOKInit, <1>1, <1>2, PTL DEF ProjectSafety

(***************************************************************************)
(* Attempts and telemetry.                                                 *)
(***************************************************************************)

\* Telemetry is only ever appended to.
LEMMA TelemetryGrows == [Next]_sessionVars => telemetry \subseteq telemetry'
PROOF
<1> SUFFICES ASSUME [Next]_sessionVars PROVE telemetry \subseteq telemetry'
  OBVIOUS
<1>1. ASSUME NEW r \in Runtimes, Start(r) \/ CallStep(r) \/ Abort(r) \/ Finish(r)
      PROVE  telemetry \subseteq telemetry'
  BY <1>1
  DEF Start, CallStep, Abort, Finish, NoneReady, SelectTicket, ClaimTicket,
      MuonTicketsFails, Execute, ParsePlan, PlanIsInvalid, ApplyChange, SkipChange,
      ApplyFails, PlanApplied, Validate, RejectFailedExecution, EvaluateWriteRequest,
      CommentTicket, SetNeedsReview, PersistOutcome
<1>2. CASE OperatorStep
  BY <1>2 DEF OperatorStep, Approve, Archive, Reopen, SetStatus
<1>3. CASE UNCHANGED sessionVars
  BY <1>3 DEF sessionVars
<1> QED
  BY <1>1, <1>2, <1>3 DEF Next

\* A call returns by persisting its outcome.
LEMMA OnlyPersistOutcomeReturns ==
  ASSUME TypeOK, NEW r \in Runtimes, Start(r) \/ CallStep(r) \/ Abort(r) \/ Finish(r),
         pc'[r] = "returned"
  PROVE  PersistOutcome(r)
PROOF
<1> USE DEF Goto, TypeOK
<1>1. ~Start(r) /\ ~NoneReady(r) /\ ~SelectTicket(r) /\ ~ClaimTicket(r)
  BY DEF Start, NoneReady, SelectTicket, ClaimTicket
<1>2. ~MuonTicketsFails(r) /\ ~Abort(r) /\ ~Finish(r)
  BY DEF MuonTicketsFails, Abort, Finish
<1>3. ~Execute(r)
  BY DEF Execute
<1>4. ~ParsePlan(r) /\ ~PlanIsInvalid(r) /\ ~ApplyFails(r)
  BY DEF ParsePlan, PlanIsInvalid, ApplyFails, MarkExecutionFailed
<1>5. ~\E p \in Paths : ApplyChange(r, p) \/ SkipChange(r, p)
  BY DEF ApplyChange, SkipChange
<1>6. ~PlanApplied(r) /\ ~Validate(r)
  BY DEF PlanApplied, Validate
<1>7. ~RejectFailedExecution(r) /\ ~EvaluateWriteRequest(r)
  BY DEF RejectFailedExecution, EvaluateWriteRequest
<1>8. ~CommentTicket(r) /\ ~SetNeedsReview(r)
  BY DEF CommentTicket, SetNeedsReview
<1> QED
  BY <1>1, <1>2, <1>3, <1>4, <1>5, <1>6, <1>7, <1>8 DEF CallStep

Returned(r) == pc[r] = "returned" => AttemptSummary(r) \in telemetry

\* Nothing takes a persisted outcome back before the caller has it.
LEMMA ReturnedStep ==
  ASSUME TypeOK, [Next]_sessionVars, NEW r \in Runtimes, Returned(r)
  PROVE  Returned(r)'
PROOF
<1> SUFFICES ASSUME pc'[r] = "returned" PROVE AttemptSummary(r)' \in telemetry'
  BY DEF Returned
<1>1. ASSUME pc'[r] = pc[r], session'[r] = session[r]
      PROVE  AttemptSummary(r)' \in telemetry'
  BY <1>1, TelemetryGrows DEF Returned, AttemptSummary
<1>2. ASSUME NEW q \in Runtimes, Start(q) \/ CallStep(q) \/ Abort(q) \/ Finish(q)
      PROVE  AttemptSummary(r)' \in telemetry'
  <2>1. CASE q # r
    BY <1>1, <1>2, <2>1, OthersAreKept DEF OthersKept
  <2>2. CASE q = r
    <3>1. PersistOutcome(r)
      BY <1>2, <2>2, OnlyPersistOutcomeReturns
    <3> QED
      BY <3>1 DEF PersistOutcome, AttemptSummary
  <2> QED
    BY <2>1, <2>2
<1>3. CASE OperatorStep
  BY <1>1, <1>3 DEF OperatorStep, Approve, Archive, Reopen, SetStatus
<1>4. CASE UNCHANGED sessionVars
  BY <1>1, <1>4 DEF sessionVars
<1> QED
  BY <1>2, <1>3, <1>4 DEF Next

\* What is logged stays logged.
LEMMA LoggedKept ==
  ASSUME NEW r, NEW attempts, NEW log, NEW longer, log \subseteq longer,
         Logged(r, attempts, log)
  PROVE  Logged(r, attempts, longer)
PROOF
BY DEF Logged

\* A list grows by an attempt that is logged or needs no log.
LEMMA LoggedAppend ==
  ASSUME NEW r, NEW log, NEW attempts \in Seq(AttemptRecords), NEW a \in AttemptRecords,
         Logged(r, attempts, log),
         \/ a.ticket = None
         \/ \E s \in log : /\ s.runtime = r /\ s.ticket = a.ticket
                           /\ s.decision = a.decision /\ s.reason = a.reason
  PROVE  Logged(r, Append(attempts, a), log)
PROOF
<1>1. ToSet(Append(attempts, a)) \subseteq ToSet(attempts) \cup {a}
  BY DEF ToSet
<1> QED
  BY <1>1 DEF Logged

\* A returned call has logged the attempt its caller will record.
LEMMA ReturnedAttemptLogged ==
  ASSUME TypeOK, NEW r \in Runtimes, pc[r] = "returned", Returned(r),
         NEW attempts \in Seq(AttemptRecords), Logged(r, attempts, telemetry)
  PROVE  Logged(r, Append(attempts, ReturnedAttempt(r)), telemetry)
PROOF
<1>1. \E s \in telemetry : /\ s.runtime = r /\ s.ticket = ReturnedAttempt(r).ticket
                           /\ s.decision = ReturnedAttempt(r).decision
                           /\ s.reason = ReturnedAttempt(r).reason
  BY DEF Returned, AttemptSummary, ReturnedAttempt, AttemptRecord
<1> QED
  BY <1>1, AttemptTypes, LoggedAppend

\* A step of the run r as its lists and the log see it: the list in memory is
\* kept, restarted, reloaded or extended by a logged attempt, and what is saved
\* is a list in memory.
LEMMA ListsStep ==
  ASSUME TypeOK, ProjectTypeOK, TelemetryInvariant, NEW r \in Runtimes,
         \/ StartProject(r) \/ ResumeProject(r) \/ TearFirstSave(r)
         \/ ProjectStep(r) \/ AbortProject(r)
  PROVE  /\ \A q \in Runtimes \ {r} : ledger'[q] = ledger[q] /\ checkpoint'[q] = checkpoint[q]
         /\ Logged(r, ledger'[r].attempted, telemetry)
         /\ Saved(checkpoint'[r]) => Logged(r, checkpoint'[r].attempted, telemetry)
PROOF
<1> USE DEF ProjectTypeOK, SaveCheckpoint
<1>1. /\ Logged(r, ledger[r].attempted, telemetry)
      /\ Saved(checkpoint[r]) => Logged(r, checkpoint[r].attempted, telemetry)
      /\ Logged(r, NewLedger.attempted, telemetry)
  BY NewLedgerType DEF TelemetryInvariant, Logged, ToSet
<1>2. ledger[r] \in Ledgers /\ ledger[r].attempted \in Seq(AttemptRecords)
  BY DEF Ledgers
<1>3. /\ {"blocked", "stopped", "succeeded"} \subseteq RunStatuses
      /\ {"max_ticket_limit_reached", "repeated_failures_exceeded",
          "blocked_dependency_graph", "no_ready_ticket"} \subseteq TerminalConditions
  BY DEF RunStatuses, TerminalConditions
<1>4. CASE StartProject(r) \/ ResumeProject(r)
  BY <1>1, <1>4 DEF StartProject, ResumeProject, Saved
<1>5. CASE TearFirstSave(r)
  BY <1>1, <1>5 DEF TearFirstSave, Saved
<1>6. CASE AbortProject(r)
  BY <1>1, <1>6 DEF AbortProject, TearCheckpoint, TearSummary, TearBundle, Saved
<1>7. CASE StopAtLimit(r)
  <2>1. Closed(ledger[r], "stopped", "max_ticket_limit_reached").attempted = ledger[r].attempted
    BY <1>2, <1>3, ClosedType
  <2> QED
    BY <1>1, <1>7, <2>1 DEF StopAtLimit
<1>8. CASE CallTicket(r) \/ InCall(r)
  BY <1>1, <1>8 DEF CallTicket, InCall, projectVars
<1>9. CASE RecordRuntimeFailure(r)
  <2> DEFINE attempt == AttemptRecord(None, "rejected", "runtime_error")
             failed  == [WithAttempt(ledger[r], attempt) EXCEPT
                           !.retries = @ + 1, !.failures = @ + 1]
             closed  == Closed(failed, "blocked", "repeated_failures_exceeded")
  <2>1. attempt \in AttemptRecords /\ attempt.ticket = None
    BY AttemptTypes DEF AttemptRecord
  <2>2. failed \in Ledgers /\ failed.attempted = Append(ledger[r].attempted, attempt)
    BY <1>2, <2>1, FailedType
  <2>3. closed.attempted = failed.attempted
    BY <1>3, <2>2, ClosedType
  <2>4. Logged(r, failed.attempted, telemetry)
    <3> HIDE DEF attempt, failed
    <3>1. Logged(r, Append(ledger[r].attempted, attempt), telemetry)
      BY <1>1, <1>2, <2>1, LoggedAppend
    <3> QED
      BY <2>2, <3>1
  <2>5. /\ checkpoint' = [checkpoint EXCEPT ![r] = failed]
        /\ \E l \in {failed, closed} : ledger' = [ledger EXCEPT ![r] = l]
    BY <1>9 DEF RecordRuntimeFailure
  <2> HIDE DEF failed, closed
  <2> QED
    BY <2>3, <2>4, <2>5
<1>10. CASE FindNothingReady(r)
  <2> DEFINE blocked == Closed(ledger[r], "blocked", "blocked_dependency_graph")
             empty   == Closed(ledger[r], "succeeded", "no_ready_ticket")
  <2>1. blocked.attempted = ledger[r].attempted /\ empty.attempted = ledger[r].attempted
    BY <1>2, <1>3, ClosedType
  <2>2. \E l \in {blocked, empty} : ledger' = [ledger EXCEPT ![r] = l]
    BY <1>10 DEF FindNothingReady
  <2>3. UNCHANGED checkpoint
    BY <1>10 DEF FindNothingReady
  <2> HIDE DEF blocked, empty
  <2> QED
    BY <1>1, <2>1, <2>2, <2>3
<1>11. CASE RecordAccepted(r) \/ RecordStop(r)
  <2> DEFINE attempts == Append(ledger[r].attempted, ReturnedAttempt(r))
  <2>1. pc[r] = "returned" /\ Returned(r)
    BY <1>11 DEF RecordAccepted, RecordStop, TelemetryInvariant, Returned
  <2>2. Logged(r, attempts, telemetry)
    BY <1>1, <1>2, <2>1, ReturnedAttemptLogged
  <2>3. CASE RecordAccepted(r)
    <3> DEFINE accepted == [WithAttempt(ledger[r], ReturnedAttempt(r)) EXCEPT
                              !.completed = Append(@, session[r].ticket), !.failures = 0]
    <3>1. session[r].ticket \in Tickets
      BY <2>1 DEF TypeOK, TicketSteps
    <3>2. accepted.attempted = attempts
      BY <1>2, <3>1, AttemptTypes, AcceptedType
    <3>3. /\ ledger' = [ledger EXCEPT ![r] = accepted]
          /\ checkpoint' = [checkpoint EXCEPT ![r] = accepted]
      BY <2>3 DEF RecordAccepted
    <3> HIDE DEF accepted, attempts
    <3> QED
      BY <2>2, <3>2, <3>3
  <2>4. CASE RecordStop(r)
    <3> DEFINE attempted == WithAttempt(ledger[r], ReturnedAttempt(r))
               terminal  == TerminalCondition(session[r].decision, session[r].reason)
               closed    == Closed(attempted, "blocked", terminal)
    <3>1. attempted \in Ledgers /\ attempted.attempted = attempts
      BY <1>2, AttemptTypes, WithAttemptType
    <3>2. closed.attempted = attempts
      BY <1>3, <3>1, ClosedType, TerminalConditionType
    <3>3. ledger' = [ledger EXCEPT ![r] = closed] /\ UNCHANGED checkpoint
      BY <2>4 DEF RecordStop
    <3> HIDE DEF closed, attempts
    <3> QED
      BY <1>1, <2>2, <3>2, <3>3
  <2> QED
    BY <1>11, <2>3, <2>4
<1>12. CASE SaveFinalCheckpoint(r)
  BY <1>1, <1>12 DEF SaveFinalCheckpoint
<1>13. CASE SaveSummary(r)
  BY <1>1, <1>13 DEF SaveSummary
<1>14. CASE WriteBundle(r)
  BY <1>1, <1>14 DEF WriteBundle
<1> QED
  BY <1>4, <1>5, <1>6, <1>7, <1>8, <1>9, <1>10, <1>11, <1>12, <1>13, <1>14
  DEF ProjectStep

LEMMA TelemetryInvariantStep ==
  ASSUME TypeOK, ProjectTypeOK, TelemetryInvariant, [ProjectNext]_vars
  PROVE  TelemetryInvariant'
PROOF
<1>1. [Next]_sessionVars
  BY ProjectStepIsSessionStep
<1>2. telemetry \subseteq telemetry'
  BY <1>1, TelemetryGrows
<1>3. ASSUME NEW r \in Runtimes
      PROVE  Returned(r)'
  BY <1>1, ReturnedStep DEF TelemetryInvariant, Returned
<1>4. ASSUME NEW r \in Runtimes
      PROVE  /\ Logged(r, ledger'[r].attempted, telemetry)
             /\ Saved(checkpoint'[r]) => Logged(r, checkpoint'[r].attempted, telemetry)
  <2>1. CASE ledger'[r] = ledger[r] /\ checkpoint'[r] = checkpoint[r]
    BY <2>1 DEF TelemetryInvariant
  <2>2. ASSUME NEW q \in Runtimes,
               \/ StartProject(q) \/ ResumeProject(q) \/ TearFirstSave(q)
               \/ ProjectStep(q) \/ AbortProject(q)
        PROVE  \/ ledger'[r] = ledger[r] /\ checkpoint'[r] = checkpoint[r]
               \/ /\ Logged(r, ledger'[r].attempted, telemetry)
                  /\ Saved(checkpoint'[r]) => Logged(r, checkpoint'[r].attempted, telemetry)
    BY <2>2, ListsStep
  <2>3. CASE UNCHANGED projectVars \/ UNCHANGED vars
    BY <2>1, <2>3 DEF projectVars, vars
  <2> QED
    BY <2>1, <2>2, <2>3 DEF ProjectNext
<1> QED
  BY <1>2, <1>3, <1>4, LoggedKept DEF TelemetryInvariant, Returned, Saved

(* Every ticket attempt that survives in a checkpoint has its summary and  *)
(* its events on disk, for any number of runs, crashes and resumes.        *)
THEOREM TelemetrySafety == ProjectSafety => []AttemptsHaveTelemetry
PROOF
<1>1. ProjectInit => TelemetryInvariant
  BY NewLedgerType
  DEF ProjectInit, Init, TelemetryInvariant, Logged, ToSet, Saved
<1>2. TypeOK /\ ProjectTypeOK /\ TelemetryInvariant /\ [ProjectNext]_vars => TelemetryInvariant'
  BY TelemetryInvariantStep
<1>3. ProjectSafety => []TypeOK
  BY ProjectRefinement, TypeSafety
<1>4. TelemetryInvariant => AttemptsHaveTelemetry
  BY DEF TelemetryInvariant, AttemptsHaveTelemetry
<1> QED
  BY <1>1, <1>2, <1>3, <1>4, ProjectTypeSafety, PTL DEF ProjectSafety

(***************************************************************************)
(* The moves of one run, as its ledger and its files see them.             *)
(***************************************************************************)
RuntimeFailure == AttemptRecord(None, "rejected", "runtime_error")

\* The ledger m is l with another verdict.
VerdictOn(l, m, status, terminal) ==
  /\ m \in Ledgers
  /\ m.attempted = l.attempted /\ m.completed = l.completed
  /\ m.retries = l.retries /\ m.failures = l.failures
  /\ m.status = status /\ m.terminal = terminal

\* The ledger m is l with one more runtime failure.
FailedFrom(l, m) ==
  /\ m \in Ledgers
  /\ m.attempted = Append(l.attempted, RuntimeFailure) /\ m.completed = l.completed
  /\ m.retries = l.retries + 1 /\ m.failures = l.failures + 1

\* The ledger m is l with the accepted ticket attempt a.
AcceptedFrom(l, m, a) ==
  /\ m \in Ledgers
  /\ m.attempted = Append(l.attempted, a) /\ m.completed = Append(l.completed, a.ticket)
  /\ m.retries = l.retries /\ m.failures = 0

\* The ledger m is l with the ticket attempt a and the verdict it calls for.
StoppedFrom(l, m, a) ==
  /\ m \in Ledgers
  /\ m.attempted = Append(l.attempted, a) /\ m.completed = l.completed
  /\ m.retries = l.retries /\ m.failures = l.failures
  /\ m.status = "blocked" /\ m.terminal = TerminalCondition(a.decision, a.reason)

\* A ticket attempt of a call that has returned.
TicketAttempt(r, a) ==
  /\ pc[r] = "returned" /\ a = ReturnedAttempt(r)
  /\ a \in AttemptRecords /\ a.ticket \in Tickets

FinalFilesKept(r) == summary'[r] = summary[r] /\ bundle'[r] = bundle[r]

\* StartProject or ResumeProject.
Opens(r) ==
  /\ step[r] = "off" /\ step'[r] = "loop"
  /\ ledger'[r] = checkpoint'[r]
  /\ \/ checkpoint[r] = None /\ ledger'[r] = NewLedger
     \/ Saved(checkpoint[r]) /\ ledger'[r] = checkpoint[r]
  /\ FinalFilesKept(r)

\* AbortProject or TearFirstSave: at most one file is torn.
Dies(r) ==
  /\ step'[r] = "off"
  /\ ledger'[r] = NewLedger \/ (step[r] = "off" /\ ledger'[r] = ledger[r])
  /\ \/ checkpoint'[r] \in {checkpoint[r], Torn} /\ FinalFilesKept(r)
     \/ /\ step[r] = "save_summary" /\ checkpoint'[r] = checkpoint[r]
        /\ summary'[r] = Torn /\ bundle'[r] = bundle[r]
     \/ /\ step[r] = "write_bundle" /\ checkpoint'[r] = checkpoint[r]
        /\ summary'[r] = summary[r] /\ bundle'[r] = Torn

\* CallTicket or InCall.
Calls(r) ==
  /\ \/ step[r] = "loop" /\ ~AtLimit(r)
     \/ step[r] = "call"
  /\ step'[r] = "call"
  /\ ledger'[r] = ledger[r] /\ checkpoint'[r] = checkpoint[r] /\ cap'[r] = cap[r]
  /\ FinalFilesKept(r)

\* StopAtLimit or FindNothingReady.
Judges(r) ==
  /\ step[r] \in {"loop", "call"} /\ step'[r] = "save_checkpoint"
  /\ \/ VerdictOn(ledger[r], ledger'[r], "stopped", "max_ticket_limit_reached")
     \/ VerdictOn(ledger[r], ledger'[r], "blocked", "blocked_dependency_graph")
     \/ VerdictOn(ledger[r], ledger'[r], "succeeded", "no_ready_ticket")
  /\ checkpoint'[r] = checkpoint[r] /\ cap'[r] = cap[r]
  /\ FinalFilesKept(r)

\* RecordRuntimeFailure.
Fails(r) ==
  /\ step[r] = "call" /\ pc[r] = "raised"
  /\ FailedFrom(ledger[r], checkpoint'[r])
  /\ \/ step'[r] = "loop" /\ ledger'[r] = checkpoint'[r]
     \/ /\ step'[r] = "save_checkpoint" /\ checkpoint'[r].failures >= MaxFailures
        /\ VerdictOn(checkpoint'[r], ledger'[r], "blocked", "repeated_failures_exceeded")
  /\ cap'[r] = cap[r]
  /\ FinalFilesKept(r)

\* RecordAccepted.
Accepts(r) ==
  /\ step[r] = "call" /\ step'[r] = "loop" /\ Finish(r)
  /\ \E a \in AttemptRecords :
       /\ TicketAttempt(r, a) /\ a.decision = "accepted"
       /\ AcceptedFrom(ledger[r], ledger'[r], a)
  /\ ledger'[r] = checkpoint'[r] /\ cap'[r] = cap[r]
  /\ FinalFilesKept(r)

\* RecordStop.
Stops(r) ==
  /\ step[r] = "call" /\ step'[r] = "save_checkpoint" /\ Finish(r)
  /\ \E a \in AttemptRecords :
       /\ TicketAttempt(r, a) /\ a.decision # "accepted"
       /\ StoppedFrom(ledger[r], ledger'[r], a)
  /\ checkpoint'[r] = checkpoint[r] /\ cap'[r] = cap[r]
  /\ FinalFilesKept(r)

\* SaveFinalCheckpoint, SaveSummary or WriteBundle.
Finalizes(r) ==
  /\ cap'[r] = cap[r]
  /\ \/ /\ step[r] = "save_checkpoint" /\ step'[r] = "save_summary"
        /\ ledger'[r] = ledger[r] /\ checkpoint'[r] = ledger[r]
        /\ FinalFilesKept(r)
     \/ /\ step[r] = "save_summary" /\ step'[r] = "write_bundle"
        /\ ledger'[r] = ledger[r] /\ checkpoint'[r] = checkpoint[r]
        /\ summary'[r] = ledger[r] /\ bundle'[r] = bundle[r]
     \/ /\ step[r] = "write_bundle" /\ step'[r] = "off"
        /\ ledger'[r] = NewLedger /\ checkpoint'[r] = checkpoint[r]
        /\ summary'[r] = summary[r] /\ bundle'[r] = ReviewBundle(ledger[r])

RunMove(r) ==
  \/ Opens(r) \/ Dies(r) \/ Calls(r) \/ Judges(r)
  \/ Fails(r) \/ Accepts(r) \/ Stops(r) \/ Finalizes(r)

RunKept(r) ==
  /\ step'[r] = step[r] /\ ledger'[r] = ledger[r] /\ checkpoint'[r] = checkpoint[r]
  /\ summary'[r] = summary[r] /\ bundle'[r] = bundle[r] /\ cap'[r] = cap[r]

(***************************************************************************)
(* The invariants.                                                         *)
(***************************************************************************)
\* A run in progress has a whole checkpoint: of the ledger in memory, but for
\* the verdict and the last attempt that SaveFinalCheckpoint is about to save.
CheckpointIsCurrent(r) ==
  /\ step[r] # "off" => Saved(checkpoint[r])
  /\ step[r] \in {"loop", "call", "save_summary", "write_bundle"} =>
       checkpoint[r] = ledger[r]
  /\ step[r] = "save_checkpoint" =>
       /\ IsPrefix(checkpoint[r].attempted, ledger[r].attempted)
       /\ IsPrefix(checkpoint[r].completed, ledger[r].completed)

SummaryIsCurrent(r) ==
  /\ step[r] = "write_bundle" => summary[r] = ledger[r]
  /\ checkpoint[r] = None => summary[r] = None

FilesInvariant ==
  /\ \A r \in Runtimes : CheckpointIsCurrent(r) /\ SummaryIsCurrent(r)
  /\ FilesNeverRunAhead

\* A call is made below the limit, and leaves at most one attempt to save.
LimitInvariant ==
  \A r \in Runtimes :
    /\ step[r] = "call" => ~AtLimit(r)
    /\ step[r] = "save_checkpoint" /\ cap[r] # NoCap =>
         \/ ledger[r].attempted = checkpoint[r].attempted
         \/ Len(ledger[r].attempted) <= cap[r]

\* The verdict of the ledger l is the one its last attempt calls for.
Explained(l) ==
  /\ l.terminal \in {"review_handoff_required", "validation_failure", "ticket_rejected"} =>
       /\ l.status = "blocked"
       /\ LastAttempt(l).ticket # None
       /\ l.terminal = TerminalCondition(LastAttempt(l).decision, LastAttempt(l).reason)
       /\ LastAttempt(l).decision # "accepted"
  /\ l.terminal = "repeated_failures_exceeded" =>
       l.status = "blocked" /\ LastAttempt(l).ticket = None /\ l.failures >= MaxFailures
  /\ l.status = "succeeded" <=> l.terminal = "no_ready_ticket"
  /\ l.status = "stopped" <=> l.terminal = "max_ticket_limit_reached"

SummaryInvariant ==
  \A r \in Runtimes :
    /\ step[r] \in {"save_checkpoint", "save_summary"} => Explained(ledger[r])
    /\ Saved(summary[r]) => Explained(summary[r])

\* The failure counters of a ledger count its attempts.
Counted(l) ==
  /\ l.retries = Cardinality(RuntimeFailures(l.attempted, DOMAIN l.attempted))
  /\ l.failures = Cardinality(RuntimeFailures(l.attempted, SinceAccepted(l.attempted)))

\* The tickets a ledger lists as completed are those of its accepted attempts.
CompletedWereAccepted(l) ==
  ToSet(l.completed) = {a.ticket : a \in {b \in ToSet(l.attempted) : b.decision = "accepted"}}

LedgerInvariant ==
  \A r \in Runtimes :
    /\ Counted(ledger[r]) /\ CompletedWereAccepted(ledger[r])
    /\ Saved(checkpoint[r]) =>
         Counted(checkpoint[r]) /\ CompletedWereAccepted(checkpoint[r])

(***************************************************************************)
(* The claims behind the attempts.                                         *)
(***************************************************************************)
\* The call of r holds t, or has an outcome about t that r has not recorded.
Taking(r, t) ==
  pc[r] \in WorkingSteps \cup {"persist", "returned"} /\ session[r].ticket = t

\* How many more attempts at t run r may record without an operator's help.
Chances(r, t) ==
  (IF board[t] = "ready" THEN 1 ELSE 0) + (IF Taking(r, t) THEN 1 ELSE 0)

\* The attempts at t.
AttemptsAt(attempts, t) == {i \in DOMAIN attempts : attempts[i].ticket = t}

\* One attempt for the first claim and one for each time it was sent back.
ClaimInvariant ==
  \A r \in Runtimes, t \in Tickets :
    /\ Chances(r, t) <= 1 + reopens
    /\ Cardinality(AttemptsAt(ledger[r].attempted, t)) + Chances(r, t) <= 1 + reopens
    /\ Saved(checkpoint[r]) =>
         Cardinality(AttemptsAt(checkpoint[r].attempted, t)) + Chances(r, t) <= 1 + reopens

HandedOver(t) == board[t] \in {"needs_review", "done", "absent"}

\* An accepted outcome has told the board before it is persisted.
AcceptedWereReported ==
  \A r \in Runtimes : session[r].decision = "accepted" =>
    /\ pc[r] = "comment" => session[r].execution = "succeeded"
    /\ pc[r] \in {"persist", "returned"} /\ reopens = 0 => HandedOver(session[r].ticket)

ReviewInvariant ==
  /\ AcceptedWereReported
  /\ \A r \in Runtimes : reopens = 0 =>
       /\ \A t \in ToSet(ledger[r].completed) : HandedOver(t)
       /\ Saved(checkpoint[r]) => \A t \in ToSet(checkpoint[r].completed) : HandedOver(t)

(***************************************************************************)
(* Every step of a run is one of its moves.                                *)
(***************************************************************************)

\* Closing a ledger changes its verdict and nothing else.
LEMMA ClosedVerdict ==
  ASSUME NEW l \in Ledgers, NEW status \in RunStatuses, NEW terminal \in TerminalConditions
  PROVE  VerdictOn(l, Closed(l, status, terminal), status, terminal)
PROOF
BY DEF VerdictOn, Closed, Ledgers

\* RecordRuntimeFailure counts the failure it records.
LEMMA FailedLedger ==
  ASSUME NEW l \in Ledgers, TypeOK, NEW r \in Runtimes
  PROVE  FailedFrom(l, [WithAttempt(l, RuntimeFailure) EXCEPT
                          !.retries = @ + 1, !.failures = @ + 1])
PROOF
<1> DEFINE w == WithAttempt(l, RuntimeFailure)
           m == [w EXCEPT !.retries = @ + 1, !.failures = @ + 1]
<1>1. RuntimeFailure \in AttemptRecords
  BY AttemptTypes DEF RuntimeFailure
<1>2. m \in Ledgers /\ m.attempted = Append(l.attempted, RuntimeFailure)
  BY <1>1, FailedType
<1>3. /\ w \in Ledgers /\ w.completed = l.completed
      /\ w.retries = l.retries /\ w.failures = l.failures
  <2>1. w \in Ledgers /\ w.completed = l.completed
    BY <1>1, WithAttemptType
  <2> QED
    BY <2>1 DEF WithAttempt, Ledgers
<1>4. /\ m.completed = l.completed
      /\ m.retries = l.retries + 1 /\ m.failures = l.failures + 1
  <2> HIDE DEF w
  <2> QED
    BY <1>3 DEF Ledgers
<1> HIDE DEF m
<1> QED
  BY <1>2, <1>4 DEF FailedFrom, m

\* RecordAccepted lists the ticket of the attempt it records.
LEMMA AcceptedLedger ==
  ASSUME NEW l \in Ledgers, NEW a \in AttemptRecords, a.ticket \in Tickets
  PROVE  AcceptedFrom(l, [WithAttempt(l, a) EXCEPT
                            !.completed = Append(@, a.ticket), !.failures = 0], a)
PROOF
<1> DEFINE w == WithAttempt(l, a)
           m == [w EXCEPT !.completed = Append(@, a.ticket), !.failures = 0]
<1>1. m \in Ledgers /\ m.attempted = Append(l.attempted, a)
  BY AcceptedType
<1>2. w \in Ledgers /\ w.completed = l.completed /\ w.retries = l.retries
  <2>1. w \in Ledgers /\ w.completed = l.completed
    BY WithAttemptType
  <2> QED
    BY <2>1 DEF WithAttempt, Ledgers
<1>3. /\ m.completed = Append(l.completed, a.ticket)
      /\ m.retries = l.retries /\ m.failures = 0
  <2> HIDE DEF w
  <2> QED
    BY <1>2 DEF Ledgers
<1> HIDE DEF m
<1> QED
  BY <1>1, <1>3 DEF AcceptedFrom, m

\* RecordStop closes the ledger with the verdict of the attempt it records.
LEMMA StoppedLedger ==
  ASSUME NEW l \in Ledgers, NEW a \in AttemptRecords
  PROVE  StoppedFrom(l, Closed(WithAttempt(l, a), "blocked",
                               TerminalCondition(a.decision, a.reason)), a)
PROOF
<1> DEFINE w == WithAttempt(l, a)
           t == TerminalCondition(a.decision, a.reason)
           m == Closed(w, "blocked", t)
<1>1. /\ w \in Ledgers /\ w.attempted = Append(l.attempted, a)
      /\ w.completed = l.completed /\ w.retries = l.retries /\ w.failures = l.failures
  <2>1. /\ w \in Ledgers /\ w.attempted = Append(l.attempted, a)
        /\ w.completed = l.completed
    BY WithAttemptType
  <2> QED
    BY <2>1 DEF WithAttempt, Ledgers
<1>2. t \in TerminalConditions /\ "blocked" \in RunStatuses
  BY TerminalConditionType DEF RunStatuses
<1>3. VerdictOn(w, m, "blocked", t)
  <2> HIDE DEF w, t
  <2> QED
    BY <1>1, <1>2, ClosedVerdict
<1> HIDE DEF w, m
<1> QED
  BY <1>1, <1>3 DEF StoppedFrom, VerdictOn, m, w

\* A run only touches its own ledger and files.
LEMMA OtherRunsAreKept ==
  ASSUME ProjectTypeOK, NEW r \in Runtimes,
         \/ StartProject(r) \/ ResumeProject(r) \/ TearFirstSave(r)
         \/ ProjectStep(r) \/ AbortProject(r)
  PROVE  \A q \in Runtimes \ {r} : RunKept(q)
PROOF
<1> USE DEF ProjectTypeOK, SaveCheckpoint, Enter, RunKept
<1>1. CASE StartProject(r) \/ ResumeProject(r) \/ TearFirstSave(r)
  BY <1>1 DEF StartProject, ResumeProject, TearFirstSave
<1>2. CASE AbortProject(r)
  <2>1. \/ UNCHANGED <<checkpoint, summary, bundle>>
        \/ TearCheckpoint(r) \/ TearSummary(r) \/ TearBundle(r)
    BY <1>2 DEF AbortProject
  <2>2. \A q \in Runtimes \ {r} :
          checkpoint'[q] = checkpoint[q] /\ summary'[q] = summary[q] /\ bundle'[q] = bundle[q]
    BY <2>1 DEF TearCheckpoint, TearSummary, TearBundle
  <2>3. \A q \in Runtimes \ {r} :
          step'[q] = step[q] /\ ledger'[q] = ledger[q] /\ cap'[q] = cap[q]
    BY <1>2 DEF AbortProject
  <2> QED
    BY <2>2, <2>3
<1>3. CASE StopAtLimit(r) \/ FindNothingReady(r)
  BY <1>3 DEF StopAtLimit, FindNothingReady
<1>4. CASE CallTicket(r) \/ InCall(r)
  BY <1>4 DEF CallTicket, InCall, projectVars
<1>5. CASE RecordRuntimeFailure(r)
  BY <1>5 DEF RecordRuntimeFailure
<1>6. CASE RecordAccepted(r) \/ RecordStop(r)
  BY <1>6 DEF RecordAccepted, RecordStop
<1>7. CASE SaveFinalCheckpoint(r) \/ SaveSummary(r) \/ WriteBundle(r)
  BY <1>7 DEF SaveFinalCheckpoint, SaveSummary, WriteBundle
<1> QED
  BY <1>1, <1>2, <1>3, <1>4, <1>5, <1>6, <1>7 DEF ProjectStep

\* The actions of a run are its moves.
LEMMA RunMoves ==
  ASSUME TypeOK, ProjectTypeOK, NEW r \in Runtimes,
         \/ StartProject(r) \/ ResumeProject(r) \/ TearFirstSave(r)
         \/ ProjectStep(r) \/ AbortProject(r)
  PROVE  RunMove(r)
PROOF
<1> USE DEF ProjectTypeOK, SaveCheckpoint, Enter, FinalFilesKept
<1>1. ledger[r] \in Ledgers
  OBVIOUS
<1>2. /\ {"blocked", "stopped", "succeeded"} \subseteq RunStatuses
      /\ {"max_ticket_limit_reached", "repeated_failures_exceeded",
          "blocked_dependency_graph", "no_ready_ticket"} \subseteq TerminalConditions
  BY DEF RunStatuses, TerminalConditions
<1>3. CASE StartProject(r)
  <2>1. Opens(r)
    BY <1>3 DEF StartProject, Opens
  <2> QED
    BY <2>1 DEF RunMove
<1>4. CASE ResumeProject(r)
  <2>1. Opens(r)
    BY <1>4 DEF ResumeProject, Opens, Saved
  <2> QED
    BY <2>1 DEF RunMove
<1>5. CASE TearFirstSave(r)
  <2>1. Dies(r)
    BY <1>5 DEF TearFirstSave, Dies
  <2> QED
    BY <2>1 DEF RunMove
<1>6. CASE AbortProject(r)
  <2>1. \/ UNCHANGED <<checkpoint, summary, bundle>>
        \/ TearCheckpoint(r) \/ TearSummary(r) \/ TearBundle(r)
    BY <1>6 DEF AbortProject
  <2>2. step'[r] = "off" /\ ledger'[r] = NewLedger
    BY <1>6 DEF AbortProject
  <2>3. Dies(r)
    BY <2>1, <2>2 DEF TearCheckpoint, TearSummary, TearBundle, Dies
  <2> QED
    BY <2>3 DEF RunMove
<1>7. CASE StopAtLimit(r)
  <2> DEFINE m == Closed(ledger[r], "stopped", "max_ticket_limit_reached")
  <2>1. VerdictOn(ledger[r], m, "stopped", "max_ticket_limit_reached")
    BY <1>1, <1>2, ClosedVerdict
  <2>2. /\ step[r] = "loop" /\ step' = [step EXCEPT ![r] = "save_checkpoint"]
        /\ ledger' = [ledger EXCEPT ![r] = m]
        /\ UNCHANGED <<cap, checkpoint, summary, bundle>>
    BY <1>7 DEF StopAtLimit
  <2> HIDE DEF m
  <2>3. Judges(r)
    BY <2>1, <2>2 DEF Judges
  <2> QED
    BY <2>3 DEF RunMove
<1>8. CASE CallTicket(r) \/ InCall(r)
  <2>1. Calls(r)
    BY <1>8 DEF CallTicket, InCall, projectVars, Calls
  <2> QED
    BY <2>1 DEF RunMove
<1>9. CASE RecordRuntimeFailure(r)
  <2> DEFINE failed == [WithAttempt(ledger[r], RuntimeFailure) EXCEPT
                          !.retries = @ + 1, !.failures = @ + 1]
             closed == Closed(failed, "blocked", "repeated_failures_exceeded")
  <2>1. FailedFrom(ledger[r], failed)
    BY <1>1, FailedLedger
  <2>2. failed \in Ledgers
    <3> HIDE DEF failed
    <3> QED
      BY <2>1 DEF FailedFrom
  <2>3. VerdictOn(failed, closed, "blocked", "repeated_failures_exceeded")
    <3> HIDE DEF failed
    <3> QED
      BY <1>2, <2>2, ClosedVerdict
  <2>4. /\ step[r] = "call" /\ pc[r] = "raised"
        /\ checkpoint' = [checkpoint EXCEPT ![r] = failed]
        /\ \/ /\ ledger' = [ledger EXCEPT ![r] = failed]
              /\ step' = [step EXCEPT ![r] = "loop"]
           \/ /\ failed.failures >= MaxFailures
              /\ ledger' = [ledger EXCEPT ![r] = closed]
              /\ step' = [step EXCEPT ![r] = "save_checkpoint"]
        /\ UNCHANGED <<cap, summary, bundle>>
    BY <1>9 DEF RecordRuntimeFailure, RuntimeFailure
  <2> HIDE DEF failed, closed
  <2>5. Fails(r)
    BY <2>1, <2>3, <2>4 DEF Fails
  <2> QED
    BY <2>5 DEF RunMove
<1>10. CASE FindNothingReady(r)
  <2> DEFINE blocked == Closed(ledger[r], "blocked", "blocked_dependency_graph")
             empty   == Closed(ledger[r], "succeeded", "no_ready_ticket")
  <2>1. /\ VerdictOn(ledger[r], blocked, "blocked", "blocked_dependency_graph")
        /\ VerdictOn(ledger[r], empty, "succeeded", "no_ready_ticket")
    BY <1>1, <1>2, ClosedVerdict
  <2>2. \E m \in {blocked, empty} : ledger' = [ledger EXCEPT ![r] = m]
    BY <1>10 DEF FindNothingReady
  <2>3. /\ step[r] = "call" /\ step' = [step EXCEPT ![r] = "save_checkpoint"]
        /\ UNCHANGED <<cap, checkpoint, summary, bundle>>
    BY <1>10 DEF FindNothingReady
  <2> HIDE DEF blocked, empty
  <2>4. Judges(r)
    BY <2>1, <2>2, <2>3 DEF Judges
  <2> QED
    BY <2>4 DEF RunMove
<1>11. ASSUME pc[r] = "returned"
       PROVE  TicketAttempt(r, ReturnedAttempt(r))
  BY <1>11, AttemptTypes DEF TicketAttempt, TypeOK, TicketSteps, ReturnedAttempt, AttemptRecord
<1>12. /\ ReturnedAttempt(r) \in AttemptRecords
       /\ ReturnedAttempt(r).ticket = session[r].ticket
       /\ ReturnedAttempt(r).decision = session[r].decision
       /\ ReturnedAttempt(r).reason = session[r].reason
  BY AttemptTypes DEF ReturnedAttempt, AttemptRecord
<1>13. CASE RecordAccepted(r)
  <2> DEFINE a        == ReturnedAttempt(r)
             accepted == [WithAttempt(ledger[r], a) EXCEPT
                            !.completed = Append(@, a.ticket), !.failures = 0]
  <2>1. TicketAttempt(r, a) /\ a.decision = "accepted" /\ a.ticket \in Tickets
    BY <1>11, <1>12, <1>13 DEF RecordAccepted, TicketAttempt
  <2>2. AcceptedFrom(ledger[r], accepted, a)
    <3> HIDE DEF a
    <3> QED
      BY <1>1, <2>1, AcceptedLedger DEF TicketAttempt
  <2>3. /\ step[r] = "call" /\ step' = [step EXCEPT ![r] = "loop"] /\ Finish(r)
        /\ ledger' = [ledger EXCEPT ![r] = accepted]
        /\ checkpoint' = [checkpoint EXCEPT ![r] = accepted]
        /\ UNCHANGED <<cap, summary, bundle>>
    BY <1>12, <1>13 DEF RecordAccepted
  <2> HIDE DEF a, accepted
  <2>4. Accepts(r)
    BY <1>12, <2>1, <2>2, <2>3 DEF Accepts, a
  <2> QED
    BY <2>4 DEF RunMove
<1>14. CASE RecordStop(r)
  <2> DEFINE a      == ReturnedAttempt(r)
             closed == Closed(WithAttempt(ledger[r], a), "blocked",
                              TerminalCondition(a.decision, a.reason))
  <2>1. TicketAttempt(r, a) /\ a.decision # "accepted"
    BY <1>11, <1>12, <1>14 DEF RecordStop
  <2>2. StoppedFrom(ledger[r], closed, a)
    BY <1>1, <1>12, StoppedLedger
  <2>3. /\ step[r] = "call" /\ step' = [step EXCEPT ![r] = "save_checkpoint"] /\ Finish(r)
        /\ ledger' = [ledger EXCEPT ![r] = closed]
        /\ UNCHANGED <<cap, checkpoint, summary, bundle>>
    BY <1>12, <1>14 DEF RecordStop
  <2> HIDE DEF a, closed
  <2>4. Stops(r)
    BY <1>12, <2>1, <2>2, <2>3 DEF Stops, a
  <2> QED
    BY <2>4 DEF RunMove
<1>15. CASE SaveFinalCheckpoint(r) \/ SaveSummary(r) \/ WriteBundle(r)
  <2>1. Finalizes(r)
    BY <1>15 DEF SaveFinalCheckpoint, SaveSummary, WriteBundle, Finalizes
  <2> QED
    BY <2>1 DEF RunMove
<1> QED
  BY <1>3, <1>4, <1>5, <1>6, <1>7, <1>8, <1>9, <1>10, <1>13, <1>14, <1>15 DEF ProjectStep

\* So a step of the system is at most one move of one run.
LEMMA EveryRunMovesOrIsKept ==
  ASSUME TypeOK, ProjectTypeOK, [ProjectNext]_vars, NEW r \in Runtimes
  PROVE  RunMove(r) \/ RunKept(r)
PROOF
<1>1. ASSUME NEW q \in Runtimes,
             \/ StartProject(q) \/ ResumeProject(q) \/ TearFirstSave(q)
             \/ ProjectStep(q) \/ AbortProject(q)
      PROVE  RunMove(r) \/ RunKept(r)
  BY <1>1, RunMoves, OtherRunsAreKept
<1>2. CASE UNCHANGED projectVars \/ UNCHANGED vars
  BY <1>2 DEF RunKept, projectVars, vars
<1> QED
  BY <1>1, <1>2 DEF ProjectNext

(***************************************************************************)
(* The files: what is on disk is a prefix of what is in memory.            *)
(***************************************************************************)

\* A prefix agrees with the longer list as far as it goes.
LEMMA PrefixAgrees ==
  ASSUME NEW S, NEW s \in Seq(S), NEW t \in Seq(S)
  PROVE  IsPrefix(s, t) <=> Len(s) <= Len(t) /\ \A i \in 1 .. Len(s) : s[i] = t[i]
PROOF
<1>1. Len(s) \in Nat /\ Len(t) \in Nat
  OBVIOUS
<1>2. SubSeq(s, 1, Len(s)) = s
  BY SubSeqFull
<1>3. ASSUME Len(s) <= Len(t)
      PROVE  SubSeq(s, 1, Len(s)) = SubSeq(t, 1, Len(s))
               <=> \A i \in 1 .. Len(s) : s[i] = t[i]
  <2> DEFINE u == SubSeq(t, 1, Len(s))
  <2>1. \A i \in 1 .. Len(s) : t[i] \in S
    BY <1>1, <1>3
  <2>2. /\ u \in Seq(S)
        /\ Len(u) = IF 1 <= Len(s) THEN Len(s) - 1 + 1 ELSE 0
        /\ \A i \in 1 .. Len(s) - 1 + 1 : u[i] = t[1 + i - 1]
    BY <1>1, <2>1, SubSeqProperties
  <2>3. Len(u) = Len(s) /\ \A i \in 1 .. Len(s) : u[i] = t[i]
    BY <1>1, <2>2
  <2> HIDE DEF u
  <2>4. s = u <=> \A i \in 1 .. Len(s) : s[i] = u[i]
    BY <2>2, <2>3, SeqEqual
  <2> QED
    BY <1>2, <2>3, <2>4 DEF u
<1> QED
  BY <1>3 DEF IsPrefix

\* Every list is a prefix of itself and of the list with one more element.
LEMMA PrefixOfItself ==
  ASSUME NEW S, NEW s \in Seq(S)
  PROVE  IsPrefix(s, s) /\ \A e \in S : IsPrefix(s, Append(s, e))
PROOF
<1>1. IsPrefix(s, s)
  BY PrefixAgrees
<1>2. ASSUME NEW e \in S
      PROVE  IsPrefix(s, Append(s, e))
  <2> DEFINE t == Append(s, e)
  <2>1. /\ t \in Seq(S) /\ Len(t) = Len(s) + 1 /\ Len(s) \in Nat
        /\ \A i \in 1 .. Len(s) : t[i] = s[i]
    OBVIOUS
  <2> HIDE DEF t
  <2>2. IsPrefix(s, t)
    BY <2>1, PrefixAgrees
  <2> QED
    BY <2>2 DEF t
<1> QED
  BY <1>1, <1>2

\* A prefix of a prefix is a prefix.
LEMMA PrefixOfPrefix ==
  ASSUME NEW S, NEW s \in Seq(S), NEW t \in Seq(S), NEW u \in Seq(S),
         IsPrefix(s, t), IsPrefix(t, u)
  PROVE  IsPrefix(s, u)
PROOF
<1>1. Len(s) <= Len(t) /\ \A i \in 1 .. Len(s) : s[i] = t[i]
  BY PrefixAgrees
<1>2. Len(t) <= Len(u) /\ \A i \in 1 .. Len(t) : t[i] = u[i]
  BY PrefixAgrees
<1>3. Len(s) \in Nat /\ Len(t) \in Nat /\ Len(u) \in Nat
  OBVIOUS
<1>4. Len(s) <= Len(u) /\ \A i \in 1 .. Len(s) : s[i] = u[i]
  BY <1>1, <1>2, <1>3
<1> QED
  BY <1>4, PrefixAgrees

\* The lists of a ledger, and of the files that are whole.
LEMMA ListsType ==
  ASSUME ProjectTypeOK, NEW r \in Runtimes
  PROVE  /\ ledger[r] \in Ledgers
         /\ Saved(checkpoint[r]) => checkpoint[r] \in Ledgers
         /\ Saved(summary[r]) => summary[r] \in Ledgers
         /\ Saved(bundle[r]) => bundle[r].attempted \in Seq(AttemptRecords)
         /\ \A l \in Ledgers : /\ l.attempted \in Seq(AttemptRecords)
                               /\ l.completed \in Seq(Tickets)
PROOF
<1>1. \A b \in Bundles : b.attempted \in Seq(AttemptRecords)
  BY DEF Bundles
<1>2. bundle[r] \in Bundles \cup {None, Torn}
  BY DEF ProjectTypeOK
<1>3. \A l \in Ledgers : /\ l.attempted \in Seq(AttemptRecords)
                         /\ l.completed \in Seq(Tickets)
  BY DEF Ledgers
<1>4. /\ ledger[r] \in Ledgers
      /\ checkpoint[r] \in Ledgers \cup {None, Torn}
      /\ summary[r] \in Ledgers \cup {None, Torn}
  BY DEF ProjectTypeOK
<1> QED
  BY <1>1, <1>2, <1>3, <1>4 DEF Saved

\* What a save writes extends what it replaces.
Extends(old, new) ==
  /\ IsPrefix(old.attempted, new.attempted)
  /\ IsPrefix(old.completed, new.completed)

LEMMA ExtendsItself ==
  ASSUME NEW l \in Ledgers
  PROVE  /\ Extends(l, l)
         /\ \A m : \A status, terminal : VerdictOn(l, m, status, terminal) => Extends(l, m)
         /\ \A m : FailedFrom(l, m) => Extends(l, m)
         /\ \A m : \A a \in AttemptRecords :
              \/ AcceptedFrom(l, m, a) /\ a.ticket \in Tickets
              \/ StoppedFrom(l, m, a)
              => Extends(l, m)
PROOF
<1>1. l.attempted \in Seq(AttemptRecords) /\ l.completed \in Seq(Tickets)
  BY DEF Ledgers
<1>2. /\ IsPrefix(l.attempted, l.attempted) /\ IsPrefix(l.completed, l.completed)
      /\ \A a \in AttemptRecords : IsPrefix(l.attempted, Append(l.attempted, a))
      /\ \A t \in Tickets : IsPrefix(l.completed, Append(l.completed, t))
  BY <1>1, PrefixOfItself
<1>3. RuntimeFailure \in AttemptRecords
  BY DEF RuntimeFailure, AttemptRecord, AttemptRecords, Decisions
<1> QED
  BY <1>2, <1>3 DEF Extends, VerdictOn, FailedFrom, AcceptedFrom, StoppedFrom

\* A checkpoint is only replaced by one that extends it.
LEMMA CheckpointExtends ==
  ASSUME ProjectTypeOK, FilesInvariant, NEW r \in Runtimes, RunMove(r) \/ RunKept(r),
         Saved(checkpoint[r]), Saved(checkpoint'[r])
  PROVE  Extends(checkpoint[r], checkpoint'[r])
PROOF
<1>1. /\ ledger[r] \in Ledgers /\ checkpoint[r] \in Ledgers
      /\ CheckpointIsCurrent(r)
  BY ListsType DEF FilesInvariant
<1>2. Extends(checkpoint[r], checkpoint[r])
  BY <1>1, ExtendsItself
<1>3. CASE Opens(r) \/ Dies(r) \/ Calls(r) \/ Judges(r) \/ Stops(r) \/ RunKept(r)
  <2>1. checkpoint'[r] = checkpoint[r]
    BY <1>3 DEF Opens, Dies, Calls, Judges, Stops, RunKept, Saved
  <2> QED
    BY <1>2, <2>1
<1>4. CASE Fails(r)
  <2>1. FailedFrom(ledger[r], checkpoint'[r]) /\ checkpoint[r] = ledger[r]
    BY <1>1, <1>4 DEF Fails, CheckpointIsCurrent
  <2> QED
    BY <1>1, <2>1, ExtendsItself
<1>5. CASE Accepts(r)
  <2>1. /\ checkpoint[r] = ledger[r]
        /\ \E a \in AttemptRecords : AcceptedFrom(ledger[r], checkpoint'[r], a)
                                     /\ a.ticket \in Tickets
    BY <1>1, <1>5 DEF Accepts, TicketAttempt, CheckpointIsCurrent
  <2> QED
    BY <1>1, <2>1, ExtendsItself
<1>6. CASE Finalizes(r)
  <2>1. CASE checkpoint'[r] = checkpoint[r]
    BY <1>2, <2>1
  <2>2. CASE step[r] = "save_checkpoint" /\ checkpoint'[r] = ledger[r]
    BY <1>1, <2>2 DEF CheckpointIsCurrent, Extends
  <2> QED
    BY <1>6, <2>1, <2>2 DEF Finalizes
<1> QED
  BY <1>3, <1>4, <1>5, <1>6 DEF RunMove

\* A move keeps what the run knows of its checkpoint.
LEMMA CheckpointIsCurrentStep ==
  ASSUME ProjectTypeOK, ProjectTypeOK', FilesInvariant,
         NEW r \in Runtimes, RunMove(r) \/ RunKept(r)
  PROVE  CheckpointIsCurrent(r)'
PROOF
<1>1. /\ ledger[r] \in Ledgers /\ ledger'[r] \in Ledgers /\ CheckpointIsCurrent(r)
  BY ListsType DEF FilesInvariant, ProjectTypeOK
<1>2. \A l \in Ledgers : Saved(l)
  BY FilesAssumption DEF Saved
<1>3. CASE Opens(r) \/ Accepts(r)
  BY <1>1, <1>2, <1>3 DEF Opens, Accepts, CheckpointIsCurrent
<1>4. CASE Dies(r)
  BY <1>4 DEF Dies, CheckpointIsCurrent
<1>5. CASE Calls(r) \/ RunKept(r)
  BY <1>1, <1>5 DEF Calls, RunKept, CheckpointIsCurrent
<1>6. CASE Judges(r)
  <2>1. Extends(ledger[r], ledger'[r])
    BY <1>1, <1>6, ExtendsItself DEF Judges
  <2> QED
    BY <1>1, <1>6, <2>1 DEF Judges, CheckpointIsCurrent, Extends
<1>7. CASE Stops(r)
  <2>1. Extends(ledger[r], ledger'[r])
    BY <1>1, <1>7, ExtendsItself DEF Stops
  <2> QED
    BY <1>1, <1>7, <2>1 DEF Stops, CheckpointIsCurrent, Extends
<1>8. CASE Fails(r)
  <2>1. checkpoint'[r] \in Ledgers
    BY <1>8 DEF Fails, FailedFrom
  <2>2. CASE step'[r] = "loop" /\ ledger'[r] = checkpoint'[r]
    BY <1>2, <2>1, <2>2 DEF CheckpointIsCurrent
  <2>3. CASE step'[r] = "save_checkpoint" /\ Extends(checkpoint'[r], ledger'[r])
    BY <1>2, <2>1, <2>3 DEF CheckpointIsCurrent, Extends
  <2> QED
    BY <1>8, <2>1, <2>2, <2>3, ExtendsItself DEF Fails
<1>9. CASE Finalizes(r)
  BY <1>1, <1>2, <1>9 DEF Finalizes, CheckpointIsCurrent
<1> QED
  BY <1>3, <1>4, <1>5, <1>6, <1>7, <1>8, <1>9 DEF RunMove

\* A run that has no checkpoint yet has no summary, and the summary it is about
\* to bundle is its ledger.
LEMMA SummaryIsCurrentStep ==
  ASSUME ProjectTypeOK, FilesInvariant, NEW r \in Runtimes, RunMove(r) \/ RunKept(r)
  PROVE  SummaryIsCurrent(r)'
PROOF
<1>1. /\ ledger[r] \in Ledgers
      /\ CheckpointIsCurrent(r) /\ SummaryIsCurrent(r)
  BY ListsType DEF FilesInvariant
<1>2. /\ Torn # None /\ None \notin Ledgers
      /\ ~Saved(None) /\ ~Saved(Torn)
  BY ProjectAssumption, FilesAssumption DEF Saved
<1>3. CASE Opens(r)
  <2>1. \/ checkpoint'[r] = NewLedger
        \/ checkpoint'[r] = checkpoint[r] /\ Saved(checkpoint[r])
    BY <1>3 DEF Opens
  <2> QED
    BY <1>2, <1>3, <2>1, NewLedgerType DEF Opens, FinalFilesKept, SummaryIsCurrent
<1>4. CASE Dies(r) \/ Calls(r) \/ Judges(r) \/ Stops(r)
  <2>1. CASE Dies(r)
    BY <1>1, <1>2, <2>1 DEF Dies, FinalFilesKept, SummaryIsCurrent, CheckpointIsCurrent
  <2>2. CASE Calls(r) \/ Judges(r) \/ Stops(r)
    BY <1>1, <1>2, <2>2 DEF Calls, Judges, Stops, FinalFilesKept, SummaryIsCurrent
  <2> QED
    BY <1>4, <2>1, <2>2
<1>5. CASE Fails(r)
  BY <1>2, <1>5 DEF Fails, FailedFrom, SummaryIsCurrent
<1>6. CASE Accepts(r)
  BY <1>2, <1>6 DEF Accepts, AcceptedFrom, SummaryIsCurrent
<1>7. CASE Finalizes(r)
  BY <1>1, <1>2, <1>7 DEF Finalizes, FinalFilesKept, SummaryIsCurrent, CheckpointIsCurrent
<1>8. CASE RunKept(r)
  BY <1>1, <1>8 DEF RunKept, SummaryIsCurrent
<1> QED
  BY <1>3, <1>4, <1>5, <1>6, <1>7, <1>8 DEF RunMove

\* What FilesNeverRunAhead says of the files of one run.
FilesInOrder(r) ==
  /\ NeverAhead(summary[r], checkpoint[r])
  /\ NeverAhead(bundle[r], checkpoint[r])
  /\ NeverAhead(bundle[r], summary[r])
  /\ bundle[r] # None => summary[r] # None

LEMMA FilesInOrderStep ==
  ASSUME ProjectTypeOK, ProjectTypeOK', FilesInvariant,
         NEW r \in Runtimes, RunMove(r) \/ RunKept(r)
  PROVE  FilesInOrder(r)'
PROOF
<1>1. /\ CheckpointIsCurrent(r) /\ SummaryIsCurrent(r) /\ FilesInOrder(r)
  BY DEF FilesInvariant, FilesNeverRunAhead, FilesInOrder
<1>2. /\ ledger[r] \in Ledgers
      /\ Saved(checkpoint[r]) => checkpoint[r] \in Ledgers
      /\ Saved(summary[r]) => summary[r] \in Ledgers
      /\ Saved(bundle[r]) => bundle[r].attempted \in Seq(AttemptRecords)
      /\ \A l \in Ledgers : l.attempted \in Seq(AttemptRecords) /\ Saved(l)
  BY ListsType, FilesAssumption DEF Saved
<1>3. ~Saved(None) /\ ~Saved(Torn) /\ Torn # None
  BY ProjectAssumption DEF Saved
<1>4. ASSUME summary[r] # None, Saved(checkpoint'[r])
      PROVE  /\ Saved(checkpoint[r])
             /\ \A list \in Seq(AttemptRecords) :
                  IsPrefix(list, checkpoint[r].attempted)
                    => IsPrefix(list, checkpoint'[r].attempted)
  <2>1. checkpoint[r] # None
    BY <1>1, <1>4 DEF SummaryIsCurrent
  <2>2. checkpoint[r] # Torn
    BY <1>1, <1>3, <1>4, <2>1
    DEF RunMove, RunKept, Opens, Dies, Calls, Judges, Fails, Accepts, Stops, Finalizes,
        CheckpointIsCurrent, Saved
  <2>3. Saved(checkpoint[r])
    BY <2>1, <2>2 DEF Saved
  <2>4. IsPrefix(checkpoint[r].attempted, checkpoint'[r].attempted)
    BY <1>4, <2>3, CheckpointExtends DEF Extends
  <2>5. checkpoint'[r] \in Ledgers
    BY <1>4 DEF ProjectTypeOK, Saved
  <2>6. /\ checkpoint[r].attempted \in Seq(AttemptRecords)
        /\ checkpoint'[r].attempted \in Seq(AttemptRecords)
    BY <1>2, <2>3, <2>5
  <2> QED
    BY <2>3, <2>4, <2>6, PrefixOfPrefix
<1>5. CASE summary'[r] = summary[r] /\ bundle'[r] = bundle[r]
  <2>1. NeverAhead(summary[r], checkpoint'[r])
    <3> SUFFICES ASSUME Saved(summary[r]), Saved(checkpoint'[r])
                 PROVE  IsPrefix(summary[r].attempted, checkpoint'[r].attempted)
      BY DEF NeverAhead
    <3>1. summary[r] # None /\ summary[r].attempted \in Seq(AttemptRecords)
      BY <1>2, <1>3
    <3> QED
      BY <1>1, <1>4, <3>1 DEF FilesInOrder, NeverAhead
  <2>2. NeverAhead(bundle[r], checkpoint'[r])
    <3> SUFFICES ASSUME Saved(bundle[r]), Saved(checkpoint'[r])
                 PROVE  IsPrefix(bundle[r].attempted, checkpoint'[r].attempted)
      BY DEF NeverAhead
    <3>1. summary[r] # None /\ bundle[r].attempted \in Seq(AttemptRecords)
      BY <1>1, <1>2, <1>3 DEF FilesInOrder
    <3> QED
      BY <1>1, <1>4, <3>1 DEF FilesInOrder, NeverAhead
  <2> QED
    BY <1>1, <1>5, <2>1, <2>2 DEF FilesInOrder, NeverAhead, Saved
<1>6. CASE /\ step[r] = "save_summary"
           /\ checkpoint'[r] = checkpoint[r]
           /\ summary'[r] = ledger[r] /\ bundle'[r] = bundle[r]
  <2>1. checkpoint[r] = ledger[r] /\ Saved(checkpoint[r])
    BY <1>1, <1>6 DEF CheckpointIsCurrent
  <2>2. IsPrefix(ledger[r].attempted, ledger[r].attempted)
    BY <1>2, PrefixOfItself
  <2>3. ledger[r] # None
    BY <1>3, <2>1
  <2> QED
    BY <1>1, <1>6, <2>1, <2>2, <2>3 DEF FilesInOrder, NeverAhead, Saved
<1>7. CASE /\ step[r] = "write_bundle"
           /\ checkpoint'[r] = checkpoint[r]
           /\ summary'[r] = summary[r] /\ bundle'[r] = ReviewBundle(ledger[r])
  <2>1. checkpoint[r] = ledger[r] /\ summary[r] = ledger[r]
    BY <1>1, <1>7 DEF CheckpointIsCurrent, SummaryIsCurrent
  <2>2. ReviewBundle(ledger[r]).attempted = ledger[r].attempted
    BY <1>2, ReviewBundleType
  <2>3. IsPrefix(ledger[r].attempted, ledger[r].attempted)
    BY <1>2, PrefixOfItself
  <2>4. ledger[r] # None
    BY <1>2, <1>3
  <2> QED
    BY <1>7, <2>1, <2>2, <2>3, <2>4 DEF FilesInOrder, NeverAhead, Saved
<1>8. CASE /\ step[r] = "save_summary"
           /\ checkpoint'[r] = checkpoint[r]
           /\ summary'[r] = Torn /\ bundle'[r] = bundle[r]
  BY <1>1, <1>3, <1>8 DEF FilesInOrder, NeverAhead, Saved
<1>9. CASE /\ step[r] = "write_bundle"
           /\ checkpoint'[r] = checkpoint[r]
           /\ summary'[r] = summary[r] /\ bundle'[r] = Torn
  <2>1. summary[r] # None
    BY <1>1, <1>2, <1>3, <1>9 DEF SummaryIsCurrent
  <2> QED
    BY <1>1, <1>3, <1>9, <2>1 DEF FilesInOrder, NeverAhead, Saved
<1> QED
  BY <1>5, <1>6, <1>7, <1>8, <1>9
  DEF RunMove, RunKept, Opens, Dies, Calls, Judges, Fails, Accepts, Stops, Finalizes,
      FinalFilesKept

LEMMA FilesInvariantInit == ProjectInit => FilesInvariant
PROOF
BY DEF ProjectInit, FilesInvariant, FilesNeverRunAhead, NeverAhead, CheckpointIsCurrent,
       SummaryIsCurrent, Saved

LEMMA FilesInvariantStep ==
  ASSUME TypeOK, ProjectTypeOK, ProjectTypeOK', FilesInvariant, [ProjectNext]_vars
  PROVE  FilesInvariant'
PROOF
<1>1. ASSUME NEW r \in Runtimes
      PROVE  CheckpointIsCurrent(r)' /\ SummaryIsCurrent(r)' /\ FilesInOrder(r)'
  BY EveryRunMovesOrIsKept, CheckpointIsCurrentStep, SummaryIsCurrentStep, FilesInOrderStep
<1> QED
  BY <1>1 DEF FilesInvariant, FilesNeverRunAhead, FilesInOrder, NeverAhead

(* The types of sessions and runs and the order of the files hold together.*)
LEMMA FilesInvariance ==
  ProjectSafety => [](TypeOK /\ ProjectTypeOK /\ FilesInvariant)
PROOF
<1>1. TypeOK /\ ProjectTypeOK /\ ProjectTypeOK' /\ FilesInvariant /\ [ProjectNext]_vars
        => FilesInvariant'
  BY FilesInvariantStep
<1>2. ProjectSafety => []TypeOK
  BY ProjectRefinement, TypeSafety
<1> QED
  BY FilesInvariantInit, <1>1, <1>2, ProjectTypeSafety, PTL DEF ProjectSafety

(* Whatever dies in between or while a file is written: of the final files *)
(* that parse, none knows of an attempt a file written before it does not. *)
THEOREM FilesSafety == ProjectSafety => []FilesNeverRunAhead
PROOF
<1>1. FilesInvariant => FilesNeverRunAhead
  BY DEF FilesInvariant
<1> QED
  BY <1>1, FilesInvariance, PTL

(* A checkpoint on disk is only ever replaced by one that extends its      *)
(* attempts and its completions, by the run itself and by a resumed one.   *)
THEOREM CheckpointSafety == ProjectSafety => CheckpointsOnlyGrow
PROOF
<1>1. ASSUME TypeOK, ProjectTypeOK, FilesInvariant, [ProjectNext]_vars
      PROVE  \A r \in Runtimes : Saved(checkpoint[r]) /\ Saved(checkpoint'[r]) =>
               /\ IsPrefix(checkpoint[r].attempted, checkpoint'[r].attempted)
               /\ IsPrefix(checkpoint[r].completed, checkpoint'[r].completed)
  BY <1>1, EveryRunMovesOrIsKept, CheckpointExtends DEF Extends
<1>2. TypeOK /\ ProjectTypeOK /\ FilesInvariant /\ [ProjectNext]_vars
        => [\A r \in Runtimes : Saved(checkpoint[r]) /\ Saved(checkpoint'[r]) =>
              /\ IsPrefix(checkpoint[r].attempted, checkpoint'[r].attempted)
              /\ IsPrefix(checkpoint[r].completed, checkpoint'[r].completed)]_vars
  BY <1>1
<1> QED
  BY <1>2, FilesInvariance, PTL DEF ProjectSafety, CheckpointsOnlyGrow

(***************************************************************************)
(* The limit on attempts.                                                  *)
(***************************************************************************)

\* A call below the limit leaves room for the attempt it will record.
LEMMA RoomForOneMore ==
  ASSUME ProjectTypeOK, NEW r \in Runtimes, cap[r] # NoCap, ~AtLimit(r),
         NEW a \in AttemptRecords
  PROVE  Len(Append(ledger[r].attempted, a)) <= cap[r]
PROOF
<1>1. ledger[r].attempted \in Seq(AttemptRecords)
  BY ListsType
<1>2. cap[r] \in Nat
  BY ProjectAssumption DEF ProjectTypeOK
<1>3. Len(ledger[r].attempted) \in Nat /\ Len(ledger[r].attempted) < cap[r]
  BY <1>1, <1>2 DEF AtLimit
<1>4. Len(Append(ledger[r].attempted, a)) = Len(ledger[r].attempted) + 1
  BY <1>1
<1> QED
  BY <1>2, <1>3, <1>4

LEMMA LimitInvariantStep ==
  ASSUME TypeOK, ProjectTypeOK, FilesInvariant, LimitInvariant, [ProjectNext]_vars
  PROVE  LimitInvariant'
PROOF
<1> SUFFICES ASSUME NEW r \in Runtimes
             PROVE  /\ step'[r] = "call" => ~AtLimit(r)'
                    /\ step'[r] = "save_checkpoint" /\ cap'[r] # NoCap =>
                         \/ ledger'[r].attempted = checkpoint'[r].attempted
                         \/ Len(ledger'[r].attempted) <= cap'[r]
  BY DEF LimitInvariant
<1>1. RunMove(r) \/ RunKept(r)
  BY EveryRunMovesOrIsKept
<1>2. /\ CheckpointIsCurrent(r)
      /\ step[r] = "call" => ~AtLimit(r)
  BY DEF FilesInvariant, LimitInvariant
<1>3. CASE Opens(r) \/ Dies(r) \/ Accepts(r) \/ Finalizes(r)
  BY <1>3 DEF Opens, Dies, Accepts, Finalizes
<1>4. CASE Calls(r)
  BY <1>2, <1>4 DEF Calls, AtLimit
<1>5. CASE Judges(r)
  <2>1. ledger'[r].attempted = ledger[r].attempted /\ checkpoint'[r] = ledger[r]
    BY <1>2, <1>5 DEF Judges, VerdictOn, CheckpointIsCurrent
  <2> QED
    BY <1>5, <2>1 DEF Judges
<1>6. CASE Fails(r)
  BY <1>6 DEF Fails, VerdictOn
<1>7. CASE Stops(r)
  <2>1. PICK a \in AttemptRecords : StoppedFrom(ledger[r], ledger'[r], a)
    BY <1>7 DEF Stops
  <2>2. cap[r] # NoCap => Len(Append(ledger[r].attempted, a)) <= cap[r]
    BY <1>2, <1>7, RoomForOneMore DEF Stops
  <2> QED
    BY <1>7, <2>1, <2>2 DEF Stops, StoppedFrom
<1>8. CASE RunKept(r)
  BY <1>2, <1>8 DEF RunKept, LimitInvariant, AtLimit
<1> QED
  BY <1>1, <1>3, <1>4, <1>5, <1>6, <1>7, <1>8 DEF RunMove

\* What is saved under a cap is no new attempt or stays within the cap.
LEMMA SavedWithinCap ==
  ASSUME TypeOK, ProjectTypeOK, FilesInvariant, LimitInvariant, [ProjectNext]_vars,
         NEW r \in Runtimes, Saved(checkpoint[r]), Saved(checkpoint'[r]), cap[r] # NoCap
  PROVE  \/ checkpoint'[r].attempted = checkpoint[r].attempted
         \/ Len(checkpoint'[r].attempted) <= cap[r]
PROOF
<1>1. RunMove(r) \/ RunKept(r)
  BY EveryRunMovesOrIsKept
<1>2. CheckpointIsCurrent(r)
  BY DEF FilesInvariant
<1>3. CASE Opens(r) \/ Dies(r) \/ Calls(r) \/ Judges(r) \/ Stops(r) \/ RunKept(r)
  BY <1>3 DEF Opens, Dies, Calls, Judges, Stops, RunKept, Saved
<1>4. CASE Fails(r)
  <2>1. RuntimeFailure \in AttemptRecords
    BY AttemptTypes DEF RuntimeFailure
  <2> QED
    BY <1>4, <2>1, RoomForOneMore DEF Fails, FailedFrom, LimitInvariant
<1>5. CASE Accepts(r)
  BY <1>5, RoomForOneMore DEF Accepts, AcceptedFrom, LimitInvariant
<1>6. CASE Finalizes(r)
  BY <1>2, <1>6 DEF Finalizes, LimitInvariant
<1> QED
  BY <1>1, <1>3, <1>4, <1>5, <1>6 DEF RunMove

(* No process records an attempt beyond the cap it was given, whatever the *)
(* earlier processes of the run recorded under theirs.                     *)
THEOREM LimitSafety == ProjectSafety => AttemptsAreBounded
PROOF
<1>1. ProjectInit => LimitInvariant
  BY DEF ProjectInit, LimitInvariant
<1>2. TypeOK /\ ProjectTypeOK /\ FilesInvariant /\ LimitInvariant /\ [ProjectNext]_vars
        => LimitInvariant'
  BY LimitInvariantStep
<1>3. TypeOK /\ ProjectTypeOK /\ FilesInvariant /\ LimitInvariant /\ [ProjectNext]_vars
        => [\A r \in Runtimes :
              Saved(checkpoint[r]) /\ Saved(checkpoint'[r]) /\ cap[r] # NoCap =>
                \/ checkpoint'[r].attempted = checkpoint[r].attempted
                \/ Len(checkpoint'[r].attempted) <= cap[r]]_vars
  BY SavedWithinCap
<1> QED
  BY <1>1, <1>2, <1>3, FilesInvariance, PTL DEF ProjectSafety, AttemptsAreBounded

(***************************************************************************)
(* The verdict.                                                            *)
(***************************************************************************)

\* The last attempt of a list is the one just appended.
LEMMA LastAppended ==
  ASSUME NEW l \in Ledgers, NEW a \in AttemptRecords,
         NEW m, m.attempted = Append(l.attempted, a)
  PROVE  LastAttempt(m) = a
PROOF
<1>1. l.attempted \in Seq(AttemptRecords)
  BY DEF Ledgers
<1> QED
  BY <1>1 DEF LastAttempt

\* The verdict of a run that has just ended is explained.
LEMMA NewVerdictIsExplained ==
  ASSUME ProjectTypeOK, NEW r \in Runtimes, Judges(r) \/ Fails(r) \/ Stops(r),
         step'[r] = "save_checkpoint"
  PROVE  Explained(ledger'[r])
PROOF
<1>1. ledger[r] \in Ledgers
  BY ListsType
<1>2. CASE Judges(r)
  BY <1>2 DEF Judges, VerdictOn, Explained
<1>3. CASE Fails(r)
  <2>1. /\ FailedFrom(ledger[r], checkpoint'[r])
        /\ VerdictOn(checkpoint'[r], ledger'[r], "blocked", "repeated_failures_exceeded")
        /\ checkpoint'[r].failures >= MaxFailures
    BY <1>3 DEF Fails
  <2>2. RuntimeFailure \in AttemptRecords /\ RuntimeFailure.ticket = None
    BY DEF RuntimeFailure, AttemptRecord, AttemptRecords, Decisions
  <2>3. LastAttempt(ledger'[r]).ticket = None
    BY <1>1, <2>1, <2>2, LastAppended DEF FailedFrom, VerdictOn
  <2> QED
    BY <2>1, <2>3 DEF VerdictOn, Explained
<1>4. CASE Stops(r)
  <2>1. PICK a \in AttemptRecords :
          /\ TicketAttempt(r, a) /\ a.decision # "accepted"
          /\ StoppedFrom(ledger[r], ledger'[r], a)
    BY <1>4 DEF Stops
  <2>2. LastAttempt(ledger'[r]) = a
    BY <1>1, <2>1, LastAppended DEF StoppedFrom
  <2>3. a.ticket # None
    BY <2>1, SessionAssumption DEF TicketAttempt
  <2>4. TerminalCondition(a.decision, a.reason) \in
          {"review_handoff_required", "validation_failure", "ticket_rejected"}
    BY DEF TerminalCondition
  <2> QED
    BY <2>1, <2>2, <2>3, <2>4 DEF StoppedFrom, Explained
<1> QED
  BY <1>2, <1>3, <1>4

LEMMA SummaryInvariantStep ==
  ASSUME TypeOK, ProjectTypeOK, SummaryInvariant, [ProjectNext]_vars
  PROVE  SummaryInvariant'
PROOF
<1> SUFFICES ASSUME NEW r \in Runtimes
             PROVE  /\ step'[r] \in {"save_checkpoint", "save_summary"} => Explained(ledger'[r])
                    /\ Saved(summary'[r]) => Explained(summary'[r])
  BY DEF SummaryInvariant, Saved, Explained, LastAttempt
<1>1. RunMove(r) \/ RunKept(r)
  BY EveryRunMovesOrIsKept
<1>2. /\ step[r] \in {"save_checkpoint", "save_summary"} => Explained(ledger[r])
      /\ Saved(summary[r]) => Explained(summary[r])
  BY DEF SummaryInvariant
<1>3. CASE Opens(r) \/ Dies(r) \/ Calls(r) \/ Accepts(r)
  BY <1>2, <1>3 DEF Opens, Dies, Calls, Accepts, FinalFilesKept, Saved
<1>4. CASE Judges(r) \/ Fails(r) \/ Stops(r)
  <2>1. /\ step'[r] \in {"loop", "save_checkpoint"}
        /\ summary'[r] = summary[r]
    BY <1>4 DEF Judges, Fails, Stops, FinalFilesKept
  <2> QED
    BY <1>2, <1>4, <2>1, NewVerdictIsExplained
<1>5. CASE Finalizes(r)
  BY <1>2, <1>5 DEF Finalizes, FinalFilesKept
<1>6. CASE RunKept(r)
  BY <1>2, <1>6 DEF RunKept
<1> QED
  BY <1>1, <1>3, <1>4, <1>5, <1>6 DEF RunMove

(* The verdict in every summary is the one its last attempt calls for, also*)
(* when the run was resumed from a checkpoint that carried another.        *)
THEOREM SummarySafety == ProjectSafety => []SummaryIsExplained
PROOF
<1>1. ProjectInit => SummaryInvariant
  BY DEF ProjectInit, SummaryInvariant, Saved
<1>2. TypeOK /\ ProjectTypeOK /\ SummaryInvariant /\ [ProjectNext]_vars => SummaryInvariant'
  BY SummaryInvariantStep
<1>3. SummaryInvariant => SummaryIsExplained
  BY DEF SummaryInvariant, SummaryIsExplained, Explained
<1> QED
  BY <1>1, <1>2, <1>3, FilesInvariance, PTL DEF ProjectSafety

(***************************************************************************)
(* Counting attempts.                                                      *)
(***************************************************************************)

\* One place more, or none.
LEMMA OnePlaceMore ==
  ASSUME NEW n \in Nat, NEW places, places \subseteq 1 .. n, NEW more,
         NEW P \in BOOLEAN, more = IF P THEN places \cup {n + 1} ELSE places
  PROVE  /\ Cardinality(places) \in Nat
         /\ Cardinality(more) = Cardinality(places) + (IF P THEN 1 ELSE 0)
PROOF
<1>1. IsFiniteSet(places)
  <2>1. IsFiniteSet(1 .. n)
    BY FS_Interval
  <2> QED
    BY <2>1, FS_Subset
<1>2. Cardinality(places) \in Nat
  BY <1>1, FS_CardinalityType
<1>3. n + 1 \notin places
  OBVIOUS
<1>4. Cardinality(places \cup {n + 1}) = Cardinality(places) + 1
  BY <1>1, <1>3, FS_AddElement
<1>5. CASE P
  BY <1>2, <1>4, <1>5
<1>6. CASE ~P
  BY <1>2, <1>6
<1> QED
  BY <1>5, <1>6

\* The list with one more attempt.
LEMMA AppendedAttempt ==
  ASSUME NEW s \in Seq(AttemptRecords), NEW a \in AttemptRecords
  PROVE  /\ Len(s) \in Nat /\ DOMAIN s = 1 .. Len(s)
         /\ Len(Append(s, a)) = Len(s) + 1 /\ DOMAIN Append(s, a) = 1 .. Len(s) + 1
         /\ \A i \in 1 .. Len(s) : Append(s, a)[i] = s[i]
         /\ Append(s, a)[Len(s) + 1] = a
         /\ Append(s, a) \in Seq(AttemptRecords)
PROOF
OBVIOUS

\* How the two failure counters follow the list.
CountsFollow(s, a, t) ==
  /\ Cardinality(RuntimeFailures(s, DOMAIN s)) \in Nat
  /\ Cardinality(RuntimeFailures(s, SinceAccepted(s))) \in Nat
  /\ Cardinality(RuntimeFailures(t, DOMAIN t)) =
       Cardinality(RuntimeFailures(s, DOMAIN s)) + (IF a.ticket = None THEN 1 ELSE 0)
  /\ a.decision = "accepted" => Cardinality(RuntimeFailures(t, SinceAccepted(t))) = 0
  /\ a.decision # "accepted" =>
       Cardinality(RuntimeFailures(t, SinceAccepted(t))) =
         Cardinality(RuntimeFailures(s, SinceAccepted(s))) + (IF a.ticket = None THEN 1 ELSE 0)

\* One more runtime failure is one more of each, and an accepted attempt leaves
\* no failure since.
LEMMA FailuresAppended ==
  ASSUME NEW s \in Seq(AttemptRecords), NEW a \in AttemptRecords
  PROVE  CountsFollow(s, a, Append(s, a))
PROOF
<1> DEFINE t == Append(s, a)
           n == Len(s)
           P == a.ticket = None
<1>1. /\ n \in Nat /\ DOMAIN s = 1 .. n
      /\ Len(t) = n + 1 /\ DOMAIN t = 1 .. n + 1
      /\ \A i \in 1 .. n : t[i] = s[i]
      /\ t[n + 1] = a
  BY AppendedAttempt
<1>2. Len(s) = n
  OBVIOUS
<1> HIDE DEF t, n
<1>3. RuntimeFailures(t, DOMAIN t) =
        IF P THEN RuntimeFailures(s, DOMAIN s) \cup {n + 1} ELSE RuntimeFailures(s, DOMAIN s)
  BY <1>1 DEF RuntimeFailures
<1>4. RuntimeFailures(s, DOMAIN s) \subseteq 1 .. n
  BY <1>1 DEF RuntimeFailures
<1>5. SinceAccepted(s) \subseteq 1 .. n
  BY <1>1 DEF SinceAccepted
<1>6. ASSUME a.decision # "accepted"
      PROVE  SinceAccepted(t) = SinceAccepted(s) \cup {n + 1}
  <2>1. ASSUME NEW i \in 1 .. n
        PROVE  i \in SinceAccepted(t) <=> i \in SinceAccepted(s)
    <3>1. \A j \in i .. n : t[j] = s[j]
      BY <1>1
    <3>2. i .. n + 1 = (i .. n) \cup {n + 1}
      BY <1>1
    <3> QED
      BY <1>1, <1>2, <1>6, <3>1, <3>2 DEF SinceAccepted
  <2>2. n + 1 \in SinceAccepted(t)
    <3>1. n + 1 .. n + 1 = {n + 1}
      BY <1>1
    <3> QED
      BY <1>1, <1>6, <3>1 DEF SinceAccepted
  <2>3. SinceAccepted(t) \subseteq 1 .. n + 1
    BY <1>1 DEF SinceAccepted
  <2> QED
    BY <1>1, <1>5, <2>1, <2>2, <2>3
<1>7. ASSUME a.decision = "accepted"
      PROVE  SinceAccepted(t) = {}
  <2>1. \A i \in 1 .. n + 1 : n + 1 \in i .. n + 1
    BY <1>1
  <2> QED
    BY <1>1, <1>7, <2>1 DEF SinceAccepted
<1>8. RuntimeFailures(s, SinceAccepted(s)) \subseteq 1 .. n
  BY <1>5 DEF RuntimeFailures
<1>9. ASSUME a.decision # "accepted"
      PROVE  RuntimeFailures(t, SinceAccepted(t)) =
               IF P THEN RuntimeFailures(s, SinceAccepted(s)) \cup {n + 1}
               ELSE RuntimeFailures(s, SinceAccepted(s))
  BY <1>1, <1>5, <1>6, <1>9 DEF RuntimeFailures
<1>10. /\ Cardinality(RuntimeFailures(s, DOMAIN s)) \in Nat
       /\ Cardinality(RuntimeFailures(t, DOMAIN t)) =
            Cardinality(RuntimeFailures(s, DOMAIN s)) + (IF P THEN 1 ELSE 0)
  <2> HIDE DEF P
  <2> SUFFICES P \in BOOLEAN
    BY <1>1, <1>3, <1>4, OnePlaceMore
  <2> QED
    BY DEF P
<1>11. Cardinality(RuntimeFailures(s, SinceAccepted(s))) \in Nat
  BY <1>1, <1>8, OnePlaceMore
<1>12. ASSUME a.decision # "accepted"
       PROVE  Cardinality(RuntimeFailures(t, SinceAccepted(t))) =
                Cardinality(RuntimeFailures(s, SinceAccepted(s))) + (IF P THEN 1 ELSE 0)
  <2> HIDE DEF P
  <2> SUFFICES P \in BOOLEAN
    BY <1>1, <1>8, <1>9, <1>12, OnePlaceMore
  <2> QED
    BY DEF P
<1>13. ASSUME a.decision = "accepted"
       PROVE  Cardinality(RuntimeFailures(t, SinceAccepted(t))) = 0
  <2>1. RuntimeFailures(t, SinceAccepted(t)) = {}
    BY <1>7, <1>13 DEF RuntimeFailures
  <2> QED
    BY <2>1, FS_EmptySet
<1>14. CountsFollow(s, a, t)
  BY <1>10, <1>11, <1>12, <1>13 DEF CountsFollow
<1> QED
  BY <1>14 DEF t

\* The elements of a list with one more.
LEMMA ToSetAppended ==
  ASSUME NEW S, NEW s \in Seq(S), NEW e \in S
  PROVE  ToSet(Append(s, e)) = ToSet(s) \cup {e}
PROOF
<1> DEFINE t == Append(s, e)
<1>1. /\ Len(s) \in Nat /\ DOMAIN s = 1 .. Len(s) /\ DOMAIN t = 1 .. Len(s) + 1
      /\ \A i \in 1 .. Len(s) : t[i] = s[i]
      /\ t[Len(s) + 1] = e
  OBVIOUS
<1> HIDE DEF t
<1>2. ToSet(t) = ToSet(s) \cup {e}
  BY <1>1 DEF ToSet
<1> QED
  BY <1>2 DEF t

\* What LedgerInvariant says of one ledger.
Sound(l) == Counted(l) /\ CompletedWereAccepted(l)

LEMMA NewLedgerIsSound == Sound(NewLedger)
PROOF
<1>1. /\ NewLedger.attempted = << >> /\ NewLedger.completed = << >>
      /\ NewLedger.retries = 0 /\ NewLedger.failures = 0
  BY DEF NewLedger
<1>2. \A places \in {DOMAIN << >>, SinceAccepted(<< >>)} : RuntimeFailures(<< >>, places) = {}
  BY DEF RuntimeFailures, SinceAccepted
<1>3. ToSet(<< >>) = {}
  BY DEF ToSet
<1> QED
  BY <1>1, <1>2, <1>3, FS_EmptySet DEF Sound, Counted, CompletedWereAccepted

\* Recording an attempt keeps the counters and the completions right.
LEMMA RecordedIsSound ==
  ASSUME NEW l \in Ledgers, Sound(l), NEW m,
         \/ \E status, terminal : VerdictOn(l, m, status, terminal)
         \/ FailedFrom(l, m)
         \/ \E a \in AttemptRecords : /\ a.ticket \in Tickets /\ a.decision = "accepted"
                                      /\ AcceptedFrom(l, m, a)
         \/ \E a \in AttemptRecords : /\ a.ticket \in Tickets /\ a.decision # "accepted"
                                      /\ StoppedFrom(l, m, a)
  PROVE  Sound(m)
PROOF
<1>1. /\ l.attempted \in Seq(AttemptRecords) /\ l.completed \in Seq(Tickets)
      /\ l.retries \in Nat /\ l.failures \in Nat
  BY DEF Ledgers
<1>2. CASE \E status, terminal : VerdictOn(l, m, status, terminal)
  BY <1>2 DEF VerdictOn, Sound, Counted, CompletedWereAccepted
<1>3. ASSUME NEW a \in AttemptRecords
      PROVE  /\ CountsFollow(l.attempted, a, Append(l.attempted, a))
             /\ ToSet(Append(l.attempted, a)) = ToSet(l.attempted) \cup {a}
  BY <1>1, FailuresAppended, ToSetAppended
<1>4. None \notin Tickets
  BY SessionAssumption
<1>5. CASE FailedFrom(l, m)
  <2>1. /\ RuntimeFailure \in AttemptRecords
        /\ RuntimeFailure.ticket = None /\ RuntimeFailure.decision # "accepted"
    BY DEF RuntimeFailure, AttemptRecord, AttemptRecords, Decisions
  <2>2. Counted(m)
    BY <1>1, <1>3, <1>5, <2>1 DEF FailedFrom, CountsFollow, Sound, Counted
  <2>3. CompletedWereAccepted(m)
    BY <1>3, <1>5, <2>1 DEF FailedFrom, Sound, CompletedWereAccepted
  <2> QED
    BY <2>2, <2>3 DEF Sound
<1>6. ASSUME NEW a \in AttemptRecords, a.ticket \in Tickets, a.decision = "accepted",
             AcceptedFrom(l, m, a)
      PROVE  Sound(m)
  <2>1. Counted(m)
    BY <1>1, <1>3, <1>4, <1>6 DEF AcceptedFrom, CountsFollow, Sound, Counted
  <2>2. ToSet(m.completed) = ToSet(l.completed) \cup {a.ticket}
    BY <1>1, <1>6, ToSetAppended DEF AcceptedFrom
  <2>3. CompletedWereAccepted(m)
    BY <1>3, <1>6, <2>2 DEF AcceptedFrom, Sound, CompletedWereAccepted
  <2> QED
    BY <2>1, <2>3 DEF Sound
<1>7. ASSUME NEW a \in AttemptRecords, a.ticket \in Tickets, a.decision # "accepted",
             StoppedFrom(l, m, a)
      PROVE  Sound(m)
  <2>1. Counted(m)
    BY <1>1, <1>3, <1>4, <1>7 DEF StoppedFrom, CountsFollow, Sound, Counted
  <2>2. CompletedWereAccepted(m)
    BY <1>3, <1>7 DEF StoppedFrom, Sound, CompletedWereAccepted
  <2> QED
    BY <2>1, <2>2 DEF Sound
<1> QED
  BY <1>2, <1>5, <1>6, <1>7

LEMMA LedgerInvariantStep ==
  ASSUME TypeOK, ProjectTypeOK, LedgerInvariant, [ProjectNext]_vars
  PROVE  LedgerInvariant'
PROOF
<1> SUFFICES ASSUME NEW r \in Runtimes
             PROVE  /\ Sound(ledger'[r])
                    /\ Saved(checkpoint'[r]) => Sound(checkpoint'[r])
  BY DEF LedgerInvariant, Sound, Counted, CompletedWereAccepted, Saved
<1>1. RunMove(r) \/ RunKept(r)
  BY EveryRunMovesOrIsKept
<1>2. /\ ledger[r] \in Ledgers /\ Sound(ledger[r])
      /\ Saved(checkpoint[r]) => Sound(checkpoint[r])
      /\ Sound(NewLedger)
  BY ListsType, NewLedgerIsSound DEF LedgerInvariant, Sound
<1>3. CASE Opens(r) \/ Dies(r) \/ Calls(r) \/ Finalizes(r) \/ RunKept(r)
  BY <1>2, <1>3 DEF Opens, Dies, Calls, Finalizes, RunKept, Saved
<1>4. CASE Judges(r)
  <2>1. Sound(ledger'[r])
    BY <1>2, <1>4, RecordedIsSound DEF Judges
  <2> QED
    BY <1>2, <1>4, <2>1 DEF Judges
<1>5. CASE Fails(r)
  <2>1. Sound(checkpoint'[r]) /\ checkpoint'[r] \in Ledgers
    BY <1>2, <1>5, RecordedIsSound DEF Fails, FailedFrom
  <2>2. CASE ledger'[r] = checkpoint'[r]
    BY <2>1, <2>2
  <2>3. CASE VerdictOn(checkpoint'[r], ledger'[r], "blocked", "repeated_failures_exceeded")
    BY <2>1, <2>3, RecordedIsSound
  <2> QED
    BY <1>5, <2>1, <2>2, <2>3 DEF Fails
<1>6. CASE Accepts(r)
  <2>1. Sound(ledger'[r])
    BY <1>2, <1>6, RecordedIsSound DEF Accepts, TicketAttempt
  <2> QED
    BY <1>6, <2>1 DEF Accepts
<1>7. CASE Stops(r)
  <2>1. Sound(ledger'[r])
    BY <1>2, <1>7, RecordedIsSound DEF Stops, TicketAttempt
  <2> QED
    BY <1>2, <1>7, <2>1 DEF Stops
<1> QED
  BY <1>1, <1>3, <1>4, <1>5, <1>6, <1>7 DEF RunMove

LEMMA LedgerInvariance == ProjectSafety => []LedgerInvariant
PROOF
<1>1. ProjectInit => LedgerInvariant
  BY NewLedgerIsSound DEF ProjectInit, LedgerInvariant, Sound, Saved
<1>2. TypeOK /\ ProjectTypeOK /\ LedgerInvariant /\ [ProjectNext]_vars => LedgerInvariant'
  BY LedgerInvariantStep
<1> QED
  BY <1>1, <1>2, FilesInvariance, PTL DEF ProjectSafety

(* In memory and on disk, the counters that bound retries count what the   *)
(* attempt list shows, for any number of failures, crashes and resumes.    *)
THEOREM CounterSafety == ProjectSafety => []FailuresAreCounted
PROOF
<1>1. LedgerInvariant => FailuresAreCounted
  BY DEF LedgerInvariant, FailuresAreCounted, Counted
<1> QED
  BY <1>1, LedgerInvariance, PTL

(***************************************************************************)
(* One attempt for each claim.                                             *)
(***************************************************************************)

\* A call comes to hold a ticket only by claiming it.
LEMMA TakingBegins ==
  ASSUME TypeOK, NEW r \in Runtimes, Start(r) \/ CallStep(r) \/ Abort(r) \/ Finish(r),
         NEW t \in Tickets, Taking(r, t)'
  PROVE  Taking(r, t) \/ (ClaimTicket(r) /\ session[r].ticket = t)
PROOF
<1> USE DEF Goto, TypeOK, Taking, WorkingSteps
<1>1. ~Start(r) /\ ~NoneReady(r) /\ ~SelectTicket(r) /\ ~MuonTicketsFails(r)
      /\ ~Abort(r) /\ ~Finish(r)
  <2>1. ~SelectTicket(r)
    BY DEF SelectTicket
  <2>2. ~Start(r) /\ ~NoneReady(r) /\ ~MuonTicketsFails(r)
    BY DEF Start, NoneReady, MuonTicketsFails
  <2>3. ~Abort(r) /\ ~Finish(r)
    BY DEF Abort, Finish
  <2> QED
    BY <2>1, <2>2, <2>3
<1>2. CASE ClaimTicket(r)
  BY <1>2 DEF ClaimTicket
<1>3. CASE Execute(r)
  BY <1>3 DEF Execute
<1>4. CASE ParsePlan(r)
  BY <1>4 DEF ParsePlan
<1>5. CASE PlanIsInvalid(r)
  BY <1>5 DEF PlanIsInvalid, MarkExecutionFailed
<1>6. ASSUME NEW p \in Paths, ApplyChange(r, p) PROVE Taking(r, t)
  <2>1. session'[r].ticket = session[r].ticket
    BY <1>6 DEF ApplyChange, Sessions
  <2> QED
    BY <1>6, <2>1 DEF ApplyChange
<1>7. ASSUME NEW p \in Paths, SkipChange(r, p) PROVE Taking(r, t)
  <2>1. session'[r].ticket = session[r].ticket
    BY <1>7 DEF SkipChange, Sessions
  <2> QED
    BY <1>7, <2>1 DEF SkipChange
<1>8. CASE ApplyFails(r)
  BY <1>8 DEF ApplyFails, MarkExecutionFailed
<1>9. CASE PlanApplied(r)
  BY <1>9 DEF PlanApplied
<1>10. CASE Validate(r)
  BY <1>10 DEF Validate
<1>11. CASE RejectFailedExecution(r)
  BY <1>11 DEF RejectFailedExecution
<1>12. CASE EvaluateWriteRequest(r)
  BY <1>12 DEF EvaluateWriteRequest
<1>13. CASE CommentTicket(r)
  BY <1>13 DEF CommentTicket
<1>14. CASE SetNeedsReview(r)
  BY <1>14 DEF SetNeedsReview
<1>15. CASE PersistOutcome(r)
  BY <1>15 DEF PersistOutcome
<1> QED
  BY <1>1, <1>2, <1>3, <1>4, <1>5, <1>6, <1>7, <1>8, <1>9, <1>10, <1>11,
     <1>12, <1>13, <1>14, <1>15
  DEF CallStep

\* A call only takes tickets off the ready list.
LEMMA CallsReadyNothing ==
  ASSUME TypeOK, NEW r \in Runtimes, Start(r) \/ CallStep(r) \/ Abort(r) \/ Finish(r),
         NEW t \in Tickets
  PROVE  /\ reopens' = reopens
         /\ board'[t] = "ready" => board[t] = "ready"
         /\ ClaimTicket(r) /\ session[r].ticket = t => board'[t] # "ready"
PROOF
<1>1. reopens' = reopens
  BY DEF Start, CallStep, Abort, Finish, NoneReady, SelectTicket, ClaimTicket,
      MuonTicketsFails, Execute, ParsePlan, PlanIsInvalid, ApplyChange, SkipChange,
      ApplyFails, PlanApplied, Validate, RejectFailedExecution, EvaluateWriteRequest,
      CommentTicket, SetNeedsReview, PersistOutcome
<1>2. CASE Quiet(r) \/ SelectTicket(r)
  <2>1. board' = board
    BY <1>2 DEF Quiet, SelectTicket
  <2>2. ~ClaimTicket(r)
    <3>1. ClaimTicket(r) => session[r].ticket \in Tickets /\ board \in Boards
      BY DEF ClaimTicket, TypeOK, TicketSteps
    <3> QED
      BY <2>1, <3>1 DEF ClaimTicket, Boards
  <2> QED
    BY <1>1, <2>1, <2>2
<1>3. CASE ClaimTicket(r)
  BY <1>1, <1>3 DEF ClaimTicket, TypeOK, Boards
<1>4. CASE SetNeedsReview(r)
  <2>1. ~ClaimTicket(r)
    BY <1>4 DEF SetNeedsReview, ClaimTicket
  <2> QED
    BY <1>1, <1>4, <2>1 DEF SetNeedsReview, TypeOK, Boards
<1> QED
  BY <1>2, <1>3, <1>4, QuietOrLoud DEF Loud

\* What operators do to a ticket, and that calls go on meanwhile.
LEMMA OperatorsKeepCalls ==
  ASSUME TypeOK, OperatorStep
  PROVE  /\ UNCHANGED <<pc, session>>
         /\ \/ /\ reopens' = reopens
               /\ \A t \in Tickets : /\ board'[t] = "ready" => board[t] = "ready"
                                     /\ HandedOver(t) => HandedOver(t)'
            \/ reopens' = reopens + 1
PROOF
<1>1. PICK u \in Tickets : Approve(u) \/ Archive(u) \/ Reopen(u)
  BY DEF OperatorStep
<1>2. CASE Approve(u) \/ Archive(u)
  BY <1>2 DEF Approve, Archive, SetStatus, TypeOK, Boards, HandedOver
<1>3. CASE Reopen(u)
  BY <1>3 DEF Reopen, SetStatus
<1> QED
  BY <1>1, <1>2, <1>3

\* A run gains a chance at a ticket only when an operator sends it back.
LEMMA ChancesStep ==
  ASSUME TypeOK, [Next]_sessionVars, NEW r \in Runtimes, NEW t \in Tickets
  PROVE  Chances(r, t)' + reopens <= Chances(r, t) + reopens'
PROOF
<1> USE DEF Chances
<1>1. reopens \in Nat
  BY SessionAssumption DEF TypeOK
<1>2. ASSUME NEW q \in Runtimes, Start(q) \/ CallStep(q) \/ Abort(q) \/ Finish(q)
      PROVE  Chances(r, t)' + reopens <= Chances(r, t) + reopens'
  <2>1. /\ reopens' = reopens
        /\ board'[t] = "ready" => board[t] = "ready"
    BY <1>2, CallsReadyNothing
  <2>2. CASE Taking(r, t)' => Taking(r, t)
    BY <1>1, <2>1, <2>2
  <2>3. CASE ~(Taking(r, t)' => Taking(r, t))
    <3>1. q = r
      BY <1>2, <2>3, OthersAreKept DEF OthersKept, Taking
    <3>2. ClaimTicket(r) /\ session[r].ticket = t
      BY <1>2, <2>3, <3>1, TakingBegins
    <3>3. board'[t] # "ready" /\ board[t] = "ready"
      BY <1>2, <3>1, <3>2, CallsReadyNothing DEF ClaimTicket
    <3> QED
      BY <1>1, <2>1, <2>3, <3>3
  <2> QED
    BY <2>2, <2>3
<1>3. CASE OperatorStep
  <2>1. Taking(r, t)' <=> Taking(r, t)
    BY <1>3, OperatorsKeepCalls DEF Taking
  <2> QED
    BY <1>1, <1>3, <2>1, OperatorsKeepCalls
<1>4. CASE UNCHANGED sessionVars
  BY <1>1, <1>4 DEF sessionVars, Taking
<1> QED
  BY <1>2, <1>3, <1>4 DEF Next

\* The attempts at a ticket, after one more.
LEMMA AttemptsAtAppended ==
  ASSUME NEW s \in Seq(AttemptRecords), NEW a \in AttemptRecords, NEW t
  PROVE  /\ Cardinality(AttemptsAt(s, t)) \in Nat
         /\ Cardinality(AttemptsAt(Append(s, a), t)) =
              Cardinality(AttemptsAt(s, t)) + (IF a.ticket = t THEN 1 ELSE 0)
PROOF
<1> DEFINE u == Append(s, a)
           n == Len(s)
           P == a.ticket = t
<1>1. /\ n \in Nat /\ DOMAIN s = 1 .. n /\ DOMAIN u = 1 .. n + 1
      /\ \A i \in 1 .. n : u[i] = s[i]
      /\ u[n + 1] = a
  BY AppendedAttempt
<1> HIDE DEF u, n
<1>2. /\ AttemptsAt(s, t) \subseteq 1 .. n
      /\ AttemptsAt(u, t) = IF P THEN AttemptsAt(s, t) \cup {n + 1} ELSE AttemptsAt(s, t)
  BY <1>1 DEF AttemptsAt
<1>3. P \in BOOLEAN
  OBVIOUS
<1> HIDE DEF P
<1>4. /\ Cardinality(AttemptsAt(s, t)) \in Nat
      /\ Cardinality(AttemptsAt(u, t)) =
           Cardinality(AttemptsAt(s, t)) + (IF P THEN 1 ELSE 0)
  BY <1>1, <1>2, <1>3, OnePlaceMore
<1> QED
  BY <1>4 DEF u, P

\* What ClaimInvariant says of the list of attempts of one ledger.
WithinClaims(r, t, attempts) ==
  Cardinality(AttemptsAt(attempts, t)) + Chances(r, t) <= 1 + reopens

\* The same of the next state, for a list of this or the next state.
WithinClaimsNext(r, t, attempts) ==
  Cardinality(AttemptsAt(attempts, t)) + Chances(r, t)' <= 1 + reopens'

\* A list that does not grow stays within the claims.
LEMMA WithinClaimsKept ==
  ASSUME TypeOK, [Next]_sessionVars, NEW r \in Runtimes, NEW t \in Tickets,
         NEW s \in Seq(AttemptRecords), WithinClaims(r, t, s)
  PROVE  WithinClaimsNext(r, t, s)
PROOF
<1>1. Chances(r, t)' + reopens <= Chances(r, t) + reopens'
  BY ChancesStep
<1>2. Cardinality(AttemptsAt(s, t)) \in Nat
  <2>1. RuntimeFailure \in AttemptRecords
    BY DEF RuntimeFailure, AttemptRecord, AttemptRecords, Decisions
  <2> QED
    BY <2>1, AttemptsAtAppended
<1>3. reopens \in Nat /\ reopens' \in Nat
  BY TypeOKStep DEF TypeOK
<1>4. Chances(r, t) \in Nat /\ Chances(r, t)' \in Nat
  BY DEF Chances
<1> QED
  BY <1>1, <1>2, <1>3, <1>4 DEF WithinClaims, WithinClaimsNext

\* Recording the attempt of a call uses up the chance that its claim was.
LEMMA WithinClaimsRecorded ==
  ASSUME TypeOK, NEW r \in Runtimes, NEW t \in Tickets,
         NEW s \in Seq(AttemptRecords), WithinClaims(r, t, s),
         NEW a \in AttemptRecords, TicketAttempt(r, a), Finish(r)
  PROVE  WithinClaimsNext(r, t, Append(s, a))
PROOF
<1>1. a.ticket = session[r].ticket /\ pc[r] = "returned"
  BY DEF TicketAttempt, ReturnedAttempt, AttemptRecord
<1>2. /\ board' = board /\ reopens' = reopens
      /\ ~Taking(r, t)'
      /\ Taking(r, t) <=> a.ticket = t
  BY <1>1 DEF Finish, Goto, TypeOK, Taking, WorkingSteps
<1>3. /\ Cardinality(AttemptsAt(s, t)) \in Nat
      /\ Cardinality(AttemptsAt(Append(s, a), t)) =
           Cardinality(AttemptsAt(s, t)) + (IF a.ticket = t THEN 1 ELSE 0)
  BY AttemptsAtAppended
<1>4. reopens \in Nat
  BY DEF TypeOK
<1> QED
  BY <1>2, <1>3, <1>4 DEF WithinClaims, WithinClaimsNext, Chances

LEMMA ClaimInvariantStep ==
  ASSUME TypeOK, ProjectTypeOK, ClaimInvariant, [ProjectNext]_vars
  PROVE  ClaimInvariant'
PROOF
<1> SUFFICES ASSUME NEW r \in Runtimes, NEW t \in Tickets
             PROVE  /\ Chances(r, t)' <= 1 + reopens'
                    /\ WithinClaimsNext(r, t, ledger'[r].attempted)
                    /\ Saved(checkpoint'[r]) =>
                         WithinClaimsNext(r, t, checkpoint'[r].attempted)
  BY DEF ClaimInvariant, WithinClaimsNext, AttemptsAt, Saved
<1>1. [Next]_sessionVars
  BY ProjectStepIsSessionStep
<1>2. RunMove(r) \/ RunKept(r)
  BY EveryRunMovesOrIsKept
<1>3. /\ Chances(r, t) <= 1 + reopens
      /\ WithinClaims(r, t, ledger[r].attempted)
      /\ Saved(checkpoint[r]) => WithinClaims(r, t, checkpoint[r].attempted)
  BY DEF ClaimInvariant, WithinClaims
<1>4. /\ ledger[r].attempted \in Seq(AttemptRecords)
      /\ Saved(checkpoint[r]) => checkpoint[r].attempted \in Seq(AttemptRecords)
  BY ListsType
<1>5. Chances(r, t)' <= 1 + reopens'
  <2>1. Chances(r, t)' + reopens <= Chances(r, t) + reopens'
    BY <1>1, ChancesStep
  <2>2. reopens \in Nat /\ reopens' \in Nat /\ Chances(r, t) \in Nat /\ Chances(r, t)' \in Nat
    BY <1>1, TypeOKStep DEF TypeOK, Chances
  <2> QED
    BY <1>3, <2>1, <2>2
<1>6. WithinClaimsNext(r, t, NewLedger.attempted)
  <2>1. AttemptsAt(NewLedger.attempted, t) = {}
    BY NewLedgerType DEF AttemptsAt
  <2>2. Chances(r, t)' \in Nat
    BY DEF Chances
  <2> QED
    BY <1>5, <2>1, <2>2, FS_EmptySet DEF WithinClaimsNext
<1> DEFINE Lists == {ledger[r].attempted}
                      \cup (IF Saved(checkpoint[r]) THEN {checkpoint[r].attempted} ELSE {})
<1>7. \A s \in Lists : WithinClaimsNext(r, t, s)
  BY <1>1, <1>3, <1>4, WithinClaimsKept
<1>8. CASE Opens(r) \/ Dies(r) \/ Calls(r) \/ Judges(r) \/ Finalizes(r) \/ RunKept(r)
  <2>1. /\ ledger'[r].attempted \in {ledger[r].attempted, NewLedger.attempted}
             \cup (IF Saved(checkpoint[r]) THEN {checkpoint[r].attempted} ELSE {})
        /\ Saved(checkpoint'[r]) =>
             checkpoint'[r].attempted \in {ledger[r].attempted, NewLedger.attempted}
               \cup (IF Saved(checkpoint[r]) THEN {checkpoint[r].attempted} ELSE {})
    BY <1>8 DEF Opens, Dies, Calls, Judges, Finalizes, RunKept, VerdictOn, Saved
  <2> QED
    BY <1>5, <1>6, <1>7, <2>1
<1>9. CASE Fails(r)
  <2>1. /\ RuntimeFailure \in AttemptRecords
        /\ RuntimeFailure.ticket # t
    BY AttemptTypes, SessionAssumption DEF RuntimeFailure, AttemptRecord
  <2> DEFINE s == Append(ledger[r].attempted, RuntimeFailure)
  <2>2. s \in Seq(AttemptRecords) /\ WithinClaims(r, t, s)
    <3>1. Cardinality(AttemptsAt(s, t)) = Cardinality(AttemptsAt(ledger[r].attempted, t))
      BY <1>4, <2>1, AttemptsAtAppended
    <3> QED
      BY <1>3, <1>4, <2>1, <3>1 DEF WithinClaims
  <2> HIDE DEF s
  <2>3. WithinClaimsNext(r, t, s)
    BY <1>1, <2>2, WithinClaimsKept
  <2>4. checkpoint'[r].attempted = s /\ ledger'[r].attempted = s
    BY <1>9 DEF Fails, FailedFrom, VerdictOn, s
  <2> QED
    BY <1>5, <2>3, <2>4
<1>10. CASE Accepts(r) \/ Stops(r)
  <2>1. PICK a \in AttemptRecords :
          /\ TicketAttempt(r, a) /\ Finish(r)
          /\ ledger'[r].attempted = Append(ledger[r].attempted, a)
          /\ checkpoint'[r] \in {checkpoint[r], ledger'[r]}
    BY <1>10 DEF Accepts, Stops, AcceptedFrom, StoppedFrom
  <2>2. WithinClaimsNext(r, t, Append(ledger[r].attempted, a))
    BY <1>3, <1>4, <2>1, WithinClaimsRecorded
  <2> QED
    BY <1>5, <1>7, <2>1, <2>2
<1> QED
  BY <1>2, <1>8, <1>9, <1>10 DEF RunMove

LEMMA ClaimInvariance == ProjectSafety => []ClaimInvariant
PROOF
<1>1. ASSUME ProjectInit
      PROVE  ClaimInvariant
  <2>1. \A t : AttemptsAt(NewLedger.attempted, t) = {}
    BY NewLedgerType DEF AttemptsAt
  <2>2. \A r \in Runtimes, t \in Tickets : ~Taking(r, t)
    BY <1>1 DEF ProjectInit, Init, Taking, WorkingSteps
  <2>3. \A r \in Runtimes, t \in Tickets : Chances(r, t) \in {0, 1}
    BY <2>2 DEF Chances
  <2>4. reopens = 0
    BY <1>1 DEF ProjectInit, Init
  <2>5. \A r \in Runtimes : ledger[r] = NewLedger /\ ~Saved(checkpoint[r])
    BY <1>1 DEF ProjectInit, Saved
  <2>6. \A r \in Runtimes, t \in Tickets :
          Cardinality(AttemptsAt(ledger[r].attempted, t)) = 0
    BY <2>1, <2>5, FS_EmptySet
  <2> QED
    BY <2>3, <2>4, <2>5, <2>6 DEF ClaimInvariant
<1>2. TypeOK /\ ProjectTypeOK /\ ClaimInvariant /\ [ProjectNext]_vars => ClaimInvariant'
  BY ClaimInvariantStep
<1> QED
  BY <1>1, <1>2, FilesInvariance, PTL DEF ProjectSafety

(* However often a run is interrupted and resumed, it records one attempt  *)
(* at a ticket for each time the ticket could be claimed: once, and once   *)
(* more for each time an operator sent a ticket back.                      *)
THEOREM RetrySafety == ProjectSafety => []NoTicketIsRetried
PROOF
<1>1. ASSUME ClaimInvariant, TypeOK, ProjectTypeOK
      PROVE  NoTicketIsRetried
  <2> SUFFICES ASSUME NEW r \in Runtimes, Saved(checkpoint[r]), NEW t \in Tickets
               PROVE  Cardinality(AttemptsAt(checkpoint[r].attempted, t)) <= 1 + reopens
    BY DEF NoTicketIsRetried, AttemptsAt
  <2>1. checkpoint[r].attempted \in Seq(AttemptRecords)
    BY <1>1, ListsType
  <2>2. Cardinality(AttemptsAt(checkpoint[r].attempted, t)) \in Nat
    <3>1. RuntimeFailure \in AttemptRecords
      BY DEF RuntimeFailure, AttemptRecord, AttemptRecords, Decisions
    <3> QED
      BY <2>1, <3>1, AttemptsAtAppended
  <2>3. Chances(r, t) \in Nat /\ reopens \in Nat
    BY <1>1 DEF Chances, TypeOK
  <2>4. Cardinality(AttemptsAt(checkpoint[r].attempted, t)) + Chances(r, t) <= 1 + reopens
    BY <1>1 DEF ClaimInvariant
  <2> QED
    BY <2>2, <2>3, <2>4
<1> QED
  BY <1>1, ClaimInvariance, FilesInvariance, PTL

(***************************************************************************)
(* Completed tickets.                                                      *)
(***************************************************************************)

\* Only operators take a ticket back that was handed over.
LEMMA HandedOverStays ==
  ASSUME TypeOK, [Next]_sessionVars, reopens' = 0
  PROVE  /\ reopens = 0
         /\ \A t \in Tickets : HandedOver(t) => HandedOver(t)'
PROOF
<1>1. reopens \in Nat
  BY DEF TypeOK
<1>2. ASSUME NEW r \in Runtimes, Start(r) \/ CallStep(r) \/ Abort(r) \/ Finish(r)
      PROVE  /\ reopens = 0
             /\ \A t \in Tickets : HandedOver(t) => HandedOver(t)'
  <2>2. reopens' = reopens
    BY <1>2
    DEF Start, CallStep, Abort, Finish, NoneReady, SelectTicket, ClaimTicket,
        MuonTicketsFails, Execute, ParsePlan, PlanIsInvalid, ApplyChange, SkipChange,
        ApplyFails, PlanApplied, Validate, RejectFailedExecution, EvaluateWriteRequest,
        CommentTicket, SetNeedsReview, PersistOutcome
  <2>3. CASE Quiet(r) \/ SelectTicket(r)
    BY <2>2, <2>3 DEF Quiet, SelectTicket, HandedOver
  <2>4. CASE ClaimTicket(r)
    BY <2>2, <2>4 DEF ClaimTicket, HandedOver, TypeOK, Boards
  <2>5. CASE SetNeedsReview(r)
    BY <2>2, <2>5 DEF SetNeedsReview, HandedOver, TypeOK, Boards
  <2> QED
    BY <1>2, <2>3, <2>4, <2>5, QuietOrLoud DEF Loud
<1>3. CASE OperatorStep
  BY <1>1, <1>3, OperatorsKeepCalls
<1>4. CASE UNCHANGED sessionVars
  BY <1>4 DEF sessionVars, HandedOver
<1> QED
  BY <1>2, <1>3, <1>4 DEF Next

\* What AcceptedWereReported says of one call.
Reported(r) ==
  session[r].decision = "accepted" =>
    /\ pc[r] = "comment" => session[r].execution = "succeeded"
    /\ pc[r] \in {"persist", "returned"} /\ reopens = 0 => HandedOver(session[r].ticket)

\* A call persists an accepted verdict only by way of "mt set-status".
LEMMA ReportedByItself ==
  ASSUME TypeOK, NEW r \in Runtimes, Start(r) \/ CallStep(r) \/ Abort(r) \/ Finish(r),
         Reported(r)
  PROVE  Reported(r)'
PROOF
<1> USE DEF Goto, TypeOK, Reported
<1>1. CASE pc'[r] \notin {"comment", "persist", "returned"}
  BY <1>1
<1>2. CASE pc'[r] = "returned"
  <2>1. PersistOutcome(r)
    BY <1>2, OnlyPersistOutcomeReturns
  <2> QED
    BY <2>1 DEF PersistOutcome, HandedOver
<1>3. CASE CommentTicket(r)
  BY <1>3 DEF CommentTicket
<1>4. CASE SetNeedsReview(r)
  <2>1. session[r].ticket \in Tickets /\ session' = session
    BY <1>4 DEF SetNeedsReview, TicketSteps, WorkingSteps
  <2> QED
    BY <1>4, <2>1 DEF SetNeedsReview, HandedOver, Boards
<1>5. CASE RejectFailedExecution(r)
  <2>1. session'[r].decision = "rejected"
    BY <1>5 DEF RejectFailedExecution, Sessions
  <2> QED
    BY <2>1
<1>6. CASE EvaluateWriteRequest(r)
  <2>1. session'[r].execution = session[r].execution
    BY <1>6 DEF EvaluateWriteRequest, Sessions
  <2> QED
    BY <1>6, <2>1 DEF EvaluateWriteRequest
<1>7. CASE Start(r) \/ NoneReady(r) \/ SelectTicket(r) \/ MuonTicketsFails(r)
           \/ Abort(r) \/ Finish(r)
  BY <1>1, <1>7 DEF Start, NoneReady, SelectTicket, MuonTicketsFails, Abort, Finish
<1>8. CASE ClaimTicket(r) \/ PlanApplied(r) \/ Validate(r)
  BY <1>1, <1>8 DEF ClaimTicket, PlanApplied, Validate
<1>9. CASE Execute(r) \/ ParsePlan(r)
  BY <1>1, <1>9 DEF Execute, ParsePlan
<1>10. CASE PlanIsInvalid(r) \/ ApplyFails(r)
  BY <1>1, <1>10 DEF PlanIsInvalid, ApplyFails, MarkExecutionFailed
<1>11. CASE \E p \in Paths : ApplyChange(r, p) \/ SkipChange(r, p)
  BY <1>1, <1>11 DEF ApplyChange, SkipChange
<1>12. CASE PersistOutcome(r)
  BY <1>2, <1>12 DEF PersistOutcome
<1> QED
  BY <1>3, <1>4, <1>5, <1>6, <1>7, <1>8, <1>9, <1>10, <1>11, <1>12 DEF CallStep

LEMMA AcceptedWereReportedStep ==
  ASSUME TypeOK, AcceptedWereReported, [Next]_sessionVars
  PROVE  AcceptedWereReported'
PROOF
<1> SUFFICES ASSUME NEW r \in Runtimes
             PROVE  Reported(r)'
  BY DEF AcceptedWereReported, Reported
<1>1. Reported(r)
  BY DEF AcceptedWereReported, Reported
<1>2. CASE pc'[r] = pc[r] /\ session'[r] = session[r]
  <2>1. pc[r] \in {"persist", "returned"} => session[r].ticket \in Tickets
    BY DEF TypeOK, TicketSteps
  <2>2. ASSUME pc[r] \in {"persist", "returned"}, reopens' = 0, HandedOver(session[r].ticket)
        PROVE  board'[session[r].ticket] \in {"needs_review", "done", "absent"}
    BY <2>1, <2>2, HandedOverStays DEF HandedOver
  <2> QED
    BY <1>1, <1>2, <2>2, HandedOverStays DEF Reported, HandedOver
<1>3. ASSUME NEW q \in Runtimes, Start(q) \/ CallStep(q) \/ Abort(q) \/ Finish(q)
      PROVE  Reported(r)'
  <2>1. CASE q = r
    BY <1>1, <1>3, <2>1, ReportedByItself
  <2>2. CASE q # r
    BY <1>2, <1>3, <2>2, OthersAreKept DEF OthersKept
  <2> QED
    BY <2>1, <2>2
<1>4. CASE OperatorStep
  BY <1>2, <1>4, OperatorsKeepCalls
<1>5. CASE UNCHANGED sessionVars
  BY <1>2, <1>5 DEF sessionVars
<1> QED
  BY <1>3, <1>4, <1>5 DEF Next

\* The tickets of a list have been handed over, as long as nothing was sent back.
ListHandedOver(tickets) == reopens = 0 => \A t \in ToSet(tickets) : HandedOver(t)
ListHandedOverNext(tickets) == reopens' = 0 => \A t \in ToSet(tickets) : HandedOver(t)'

LEMMA ReviewInvariantStep ==
  ASSUME TypeOK, ProjectTypeOK, ReviewInvariant, [ProjectNext]_vars
  PROVE  ReviewInvariant'
PROOF
<1>1. [Next]_sessionVars
  BY ProjectStepIsSessionStep
<1>2. AcceptedWereReported'
  BY <1>1, AcceptedWereReportedStep DEF ReviewInvariant
<1>3. ASSUME NEW r \in Runtimes
      PROVE  /\ ListHandedOverNext(ledger'[r].completed)
             /\ Saved(checkpoint'[r]) => ListHandedOverNext(checkpoint'[r].completed)
  <2>1. RunMove(r) \/ RunKept(r)
    BY EveryRunMovesOrIsKept
  <2>2. /\ ListHandedOver(ledger[r].completed)
        /\ Saved(checkpoint[r]) => ListHandedOver(checkpoint[r].completed)
    BY DEF ReviewInvariant, ListHandedOver
  <2>3. /\ ledger[r].completed \in Seq(Tickets)
        /\ Saved(checkpoint[r]) => checkpoint[r].completed \in Seq(Tickets)
    BY ListsType
  <2>4. \A s \in Seq(Tickets) : ToSet(s) \subseteq Tickets
    BY DEF ToSet
  <2>5. \A s \in Seq(Tickets) : ListHandedOver(s) => ListHandedOverNext(s)
    BY <1>1, <2>4, HandedOverStays DEF ListHandedOver, ListHandedOverNext
  <2>6. ListHandedOverNext(NewLedger.completed)
    BY DEF ListHandedOverNext, NewLedger, ToSet
  <2>7. CASE Opens(r) \/ Dies(r) \/ Calls(r) \/ Finalizes(r) \/ RunKept(r)
    BY <2>2, <2>3, <2>5, <2>6, <2>7 DEF Opens, Dies, Calls, Finalizes, RunKept, Saved
  <2>8. CASE Judges(r) \/ Fails(r) \/ Stops(r)
    BY <2>2, <2>3, <2>5, <2>8
    DEF Judges, Fails, Stops, VerdictOn, FailedFrom, StoppedFrom
  <2>9. CASE Accepts(r)
    <3>1. PICK a \in AttemptRecords :
            /\ TicketAttempt(r, a) /\ a.decision = "accepted"
            /\ AcceptedFrom(ledger[r], ledger'[r], a)
      BY <2>9 DEF Accepts
    <3>2. ToSet(ledger'[r].completed) = ToSet(ledger[r].completed) \cup {a.ticket}
      BY <2>3, <3>1, ToSetAppended DEF AcceptedFrom, TicketAttempt
    <3>3. /\ a.ticket \in Tickets /\ a.ticket = session[r].ticket
          /\ session[r].decision = "accepted" /\ pc[r] = "returned"
      BY <3>1 DEF TicketAttempt, ReturnedAttempt, AttemptRecord
    <3>4. reopens' = 0 => HandedOver(a.ticket)'
      <4>1. reopens = 0 => HandedOver(a.ticket)
        BY <3>3 DEF ReviewInvariant, AcceptedWereReported
      <4> QED
        BY <1>1, <3>3, <4>1, HandedOverStays
    <3>5. ListHandedOverNext(ledger[r].completed)
      BY <2>2, <2>3, <2>5
    <3>6. ListHandedOverNext(ledger'[r].completed)
      BY <3>2, <3>4, <3>5 DEF ListHandedOverNext
    <3> QED
      BY <2>9, <3>6 DEF Accepts
  <2> QED
    BY <2>1, <2>7, <2>8, <2>9 DEF RunMove
<1> QED
  BY <1>2, <1>3 DEF ReviewInvariant, ListHandedOverNext, Saved, HandedOver, ToSet

(* A ticket that a checkpoint lists as completed has been handed to review,*)
(* whatever died in between, unless operators sent tickets back.           *)
THEOREM CompletionsAreReviewed == ProjectSafety => []CompletedWereReviewed
PROOF
<1>1. ProjectInit => ReviewInvariant
  BY DEF ProjectInit, Init, ReviewInvariant, AcceptedWereReported, NewLedger, ToSet, Saved
<1>2. TypeOK /\ ProjectTypeOK /\ ReviewInvariant /\ [ProjectNext]_vars => ReviewInvariant'
  BY ReviewInvariantStep
<1>3. ReviewInvariant => CompletedWereReviewed
  BY DEF ReviewInvariant, CompletedWereReviewed, HandedOver
<1> QED
  BY <1>1, <1>2, <1>3, FilesInvariance, PTL DEF ProjectSafety

(***************************************************************************)
(* The review bundle.                                                      *)
(***************************************************************************)

\* With at most one attempt at each ticket, no ticket is completed and rejected.
LEMMA OneAttemptOneVerdict ==
  ASSUME NEW s \in Seq(AttemptRecords), NEW t, Cardinality(AttemptsAt(s, t)) <= 1,
         NEW a \in ToSet(s), NEW b \in ToSet(s), a.ticket = t, b.ticket = t
  PROVE  a = b
PROOF
<1>1. PICK i \in DOMAIN s : s[i] = a
  BY DEF ToSet
<1>2. PICK j \in DOMAIN s : s[j] = b
  BY DEF ToSet
<1>3. AttemptsAt(s, t) \subseteq 1 .. Len(s) /\ Len(s) \in Nat
  BY DEF AttemptsAt
<1>4. IsFiniteSet(AttemptsAt(s, t))
  <2>1. IsFiniteSet(1 .. Len(s))
    BY <1>3, FS_Interval
  <2> QED
    BY <1>3, <2>1, FS_Subset
<1>5. Cardinality(AttemptsAt(s, t)) \in Nat
  BY <1>4, FS_CardinalityType
<1>6. i \in AttemptsAt(s, t) /\ j \in AttemptsAt(s, t)
  BY <1>1, <1>2 DEF AttemptsAt
<1>7. Cardinality(AttemptsAt(s, t)) # 0
  BY <1>4, <1>6, FS_EmptySet
<1>8. PICK k : AttemptsAt(s, t) = {k}
  <2>1. Cardinality(AttemptsAt(s, t)) = 1
    BY <1>5, <1>7
  <2> QED
    BY <1>4, <2>1, FS_Singleton
<1> QED
  BY <1>1, <1>2, <1>6, <1>8

\* What BundleCoversBoard says of the bundle b.
Covers(b) ==
  /\ Indexed(board) \subseteq b.completed \cup b.blocked \cup b.untouched
  /\ reopens = 0 => b.completed \cap b.blocked = {}
  /\ \A a \in ToSet(b.attempted) : a.ticket # None =>
       a.ticket \in b.completed \cup b.blocked

\* A bundle made of a sound ledger that stays within its claims covers the board.
LEMMA ReviewBundleCovers ==
  ASSUME TypeOK, NEW l \in Ledgers, CompletedWereAccepted(l),
         \A t \in Tickets : Cardinality(AttemptsAt(l.attempted, t)) <= 1 + reopens
  PROVE  Covers(ReviewBundle(l))
PROOF
<1> DEFINE completed == ToSet(l.completed)
           attempts  == {a \in ToSet(l.attempted) : a.ticket # None}
           rejected  == {a.ticket : a \in {b \in attempts : b.decision # "accepted"}}
<1>1. /\ ReviewBundle(l).attempted = l.attempted
      /\ ReviewBundle(l).completed = completed
      /\ ReviewBundle(l).blocked = rejected \cup (DependencyBlocked(board) \ completed)
      /\ ReviewBundle(l).untouched =
           (Indexed(board) \ completed) \ {a.ticket : a \in attempts}
  BY DEF ReviewBundle
<1>2. completed = {a.ticket : a \in {b \in ToSet(l.attempted) : b.decision = "accepted"}}
  BY DEF CompletedWereAccepted
<1>3. \A a \in attempts : a.ticket \in completed \cup rejected
  BY <1>2
<1>4. ASSUME reopens = 0
      PROVE  completed \cap rejected = {}
  <2> SUFFICES ASSUME NEW a \in ToSet(l.attempted), a.decision = "accepted",
                      NEW b \in ToSet(l.attempted), b.decision # "accepted",
                      a.ticket = b.ticket, b.ticket # None
               PROVE  FALSE
    BY <1>2
  <2>1. l.attempted \in Seq(AttemptRecords)
    BY DEF Ledgers
  <2>2. b.ticket \in Tickets
    <3>1. ToSet(l.attempted) \subseteq AttemptRecords
      BY <2>1 DEF ToSet
    <3> QED
      BY <3>1 DEF AttemptRecords
  <2>3. Cardinality(AttemptsAt(l.attempted, b.ticket)) <= 1
    BY <1>4, <2>2
  <2>4. a = b
    BY <2>1, <2>3, OneAttemptOneVerdict
  <2> QED
    BY <2>4
<1> HIDE DEF completed, attempts, rejected
<1>5. Indexed(board) \subseteq completed \cup rejected
                                \cup ((Indexed(board) \ completed) \ {a.ticket : a \in attempts})
  BY <1>3
<1>6. \A a \in ToSet(l.attempted) : a.ticket # None => a.ticket \in completed \cup rejected
  BY <1>3 DEF attempts
<1> QED
  BY <1>1, <1>4, <1>5, <1>6 DEF Covers

LEMMA NewBundleCovers ==
  ASSUME TypeOK, ProjectTypeOK, LedgerInvariant, ClaimInvariant, [ProjectNext]_vars,
         NEW r \in Runtimes, bundle'[r] # bundle[r], Saved(bundle'[r])
  PROVE  Covers(bundle'[r])
PROOF
<1>1. RunMove(r) \/ RunKept(r)
  BY EveryRunMovesOrIsKept
<1>2. bundle'[r] = ReviewBundle(ledger[r])
  BY <1>1 DEF RunMove, RunKept, Opens, Dies, Calls, Judges, Fails, Accepts, Stops,
              Finalizes, FinalFilesKept, Saved
<1>3. ledger[r] \in Ledgers /\ ledger[r].attempted \in Seq(AttemptRecords)
  BY ListsType
<1>4. ASSUME NEW t \in Tickets
      PROVE  Cardinality(AttemptsAt(ledger[r].attempted, t)) <= 1 + reopens
  <2>1. Cardinality(AttemptsAt(ledger[r].attempted, t)) + Chances(r, t) <= 1 + reopens
    BY DEF ClaimInvariant
  <2>2. Cardinality(AttemptsAt(ledger[r].attempted, t)) \in Nat
    <3>1. RuntimeFailure \in AttemptRecords
      BY DEF RuntimeFailure, AttemptRecord, AttemptRecords, Decisions
    <3> QED
      BY <1>3, <3>1, AttemptsAtAppended
  <2>3. Chances(r, t) \in Nat /\ reopens \in Nat
    BY DEF Chances, TypeOK
  <2> QED
    BY <2>1, <2>2, <2>3
<1>5. CompletedWereAccepted(ledger[r])
  BY DEF LedgerInvariant
<1> QED
  BY <1>2, <1>3, <1>4, <1>5, ReviewBundleCovers

(* A review bundle leaves out no ticket of the board and none that was     *)
(* attempted, and lists none as both completed and blocked unless operators*)
(* sent one back: it rests on the ledger and on the claims.                *)
THEOREM BundleSafety == ProjectSafety => BundleCoversBoard
PROOF
<1>1. TypeOK /\ ProjectTypeOK /\ LedgerInvariant /\ ClaimInvariant /\ [ProjectNext]_vars
        => [\A r \in Runtimes : bundle'[r] # bundle[r] /\ Saved(bundle'[r])
             => Covers(bundle'[r])]_vars
  BY NewBundleCovers
<1>2. [\A r \in Runtimes : bundle'[r] # bundle[r] /\ Saved(bundle'[r])
             => Covers(bundle'[r])]_vars
        => [\A r \in Runtimes : bundle'[r] # bundle[r] /\ Saved(bundle'[r]) =>
              LET b == bundle'[r] IN
              /\ Indexed(board) \subseteq b.completed \cup b.blocked \cup b.untouched
              /\ reopens = 0 => b.completed \cap b.blocked = {}
              /\ \A a \in ToSet(b.attempted) : a.ticket # None =>
                   a.ticket \in b.completed \cup b.blocked]_vars
  BY DEF Covers
<1> QED
  BY <1>1, <1>2, FilesInvariance, LedgerInvariance, ClaimInvariance, PTL
  DEF ProjectSafety, BundleCoversBoard
=============================================================================
