-------------------------- MODULE AutonomousTicket --------------------------
(***************************************************************************)
(* One call of run_autonomous_ticket (src/higgs_agent/runtime.py) per      *)
(* runtime process: scan the board, claim a ticket through the MuonTickets *)
(* CLI, execute, write the plan into the workspace, validate, pass the     *)
(* write gate, report to the board, persist telemetry.  Runtimes share the *)
(* board and the workspace and interleave between any two external         *)
(* effects.  Any step may also end the process (a crash, or an exception   *)
(* that run_autonomous_ticket lets through).                               *)
(***************************************************************************)
EXTENDS TicketBoard, WriteGate

CONSTANTS
  Runtimes,       \* processes running higgs-agent on the repository
  Policy,         \* the write policy file
  LineDelta,      \* LineDelta[p]: lines a change of p adds and deletes
  InitialBoards,  \* the boards a repository may start with
  MaxReopens,     \* bound on how often operators send a ticket back
  None            \* no ticket, no runtime, the repository's own content

ASSUME SessionAssumption ==
  /\ Policy \in WritePolicies
  /\ LineDelta \in [Paths -> Nat]
  /\ InitialBoards \subseteq Boards
  /\ MaxReopens \in Nat
  /\ None \notin Tickets \cup Runtimes

VARIABLES
  board,      \* ticket id -> status, kept by MuonTickets
  claimant,   \* ticket id -> the runtime whose claim succeeded last
  workspace,  \* path -> the ticket whose session wrote it last
  pc,         \* runtime -> the next step of its call
  session,    \* runtime -> the locals of run_autonomous_ticket
  telemetry,  \* attempt-summaries.ndjson and the event files, as records
  reopens     \* how often operators have sent a ticket back

sessionVars == <<board, claimant, workspace, pc, session, telemetry, reopens>>

ExecutionStatuses == {"succeeded", "failed", "blocked"}

NoSession ==
  [ticket |-> None, execution |-> "none", failure |-> "none", patching |-> FALSE,
   todo |-> {}, changed |-> {}, passed |-> FALSE, decision |-> "none",
   reason |-> "none"]

\* A call holds a claimed ticket and may write the workspace or the board.
WorkingSteps == {"execute", "plan", "apply", "validate", "gate", "comment", "set_status"}
CallSteps    == {"scan", "claim", "persist"} \cup WorkingSteps
Outcomes     == {"returned", "raised", "no_ready"}
TicketSteps  == {"claim", "persist", "returned"} \cup WorkingSteps
Steps        == {"idle"} \cup CallSteps \cup Outcomes

Working(r) == pc[r] \in WorkingSteps

\* What _with_runtime_validation_events and persist_dispatch_outcome keep of a call.
AttemptSummary(r) ==
  [runtime |-> r, ticket |-> session[r].ticket, final |-> session[r].execution,
   decision |-> session[r].decision, reason |-> session[r].reason]

Init ==
  /\ board \in InitialBoards
  /\ claimant = [t \in Tickets |-> None]
  /\ workspace = [p \in Paths |-> None]
  /\ pc = [r \in Runtimes |-> "idle"]
  /\ session = [r \in Runtimes |-> NoSession]
  /\ telemetry = {}
  /\ reopens = 0

Goto(r, step) == pc' = [pc EXCEPT ![r] = step]

(***************************************************************************)
(* The steps of one call.                                                  *)
(***************************************************************************)

\* The call begins with empty locals.
Start(r) ==
  /\ pc[r] = "idle"
  /\ Goto(r, "scan")
  /\ session' = [session EXCEPT ![r] = NoSession]
  /\ UNCHANGED <<board, claimant, workspace, telemetry, reopens>>

\* select_next_ready_ticket is None: RuntimeConfigError "no ready tickets found".
NoneReady(r) ==
  /\ pc[r] = "scan"
  /\ Eligible(board) = {}
  /\ Goto(r, "no_ready")
  /\ UNCHANGED <<board, claimant, workspace, session, telemetry, reopens>>

\* The ticket is chosen from this scan; the claim below acts on a later board.
SelectTicket(r) ==
  /\ pc[r] = "scan"
  /\ \E t \in Tickets :
       /\ IsNextReady(board, t)
       /\ session' = [session EXCEPT ![r].ticket = t]
  /\ Goto(r, "claim")
  /\ UNCHANGED <<board, claimant, workspace, telemetry, reopens>>

\* Mutant: the exit status of "mt claim" is ignored.
ClaimUnchecked(r) ==
  LET t == session[r].ticket IN
  /\ pc[r] = "claim"
  /\ IF board[t] = "ready"
     THEN /\ board' = [board EXCEPT ![t] = "claimed"]
          /\ claimant' = [claimant EXCEPT ![t] = r]
     ELSE UNCHANGED <<board, claimant>>
  /\ Goto(r, "execute")
  /\ UNCHANGED <<workspace, session, telemetry, reopens>>

\* "mt claim": MuonTickets moves a ready ticket to claimed.
ClaimTicket(r) ==
  LET t == session[r].ticket IN
  /\ pc[r] = "claim"
  /\ board[t] = "ready"
  /\ board' = [board EXCEPT ![t] = "claimed"]
  /\ claimant' = [claimant EXCEPT ![t] = r]
  /\ Goto(r, "execute")
  /\ UNCHANGED <<workspace, session, telemetry, reopens>>

\* Mutant: a failed claim is logged and the call goes on.
MuonTicketsFailureIgnored(r) ==
  /\ pc[r] \in {"claim", "comment", "set_status"}
  /\ Goto(r, IF pc[r] = "claim" THEN "execute" ELSE "raised")
  /\ UNCHANGED <<board, claimant, workspace, session, telemetry, reopens>>

\* An mt command exits non-zero: _run_muontickets_command raises RuntimeConfigError.
\* A claim fails at least when the ticket is no longer ready.
MuonTicketsFails(r) ==
  /\ pc[r] \in {"claim", "comment", "set_status"}
  /\ Goto(r, "raised")
  /\ UNCHANGED <<board, claimant, workspace, session, telemetry, reopens>>

\* classify_ticket, choose_route and OpenRouterExecutor.execute.
Execute(r) ==
  /\ pc[r] = "execute"
  /\ \E status \in ExecutionStatuses :
       /\ session' = [session EXCEPT ![r] = [@ EXCEPT
              !.execution = status,
              !.failure = IF status = "succeeded" THEN "none" ELSE "executor"]]
       /\ Goto(r, IF status = "succeeded" THEN "plan" ELSE "gate")
  /\ UNCHANGED <<board, claimant, workspace, telemetry, reopens>>

\* _mark_execution_failed: changed_files stays empty whatever was written.
MarkExecutionFailed(r) ==
  /\ session' = [session EXCEPT ![r] = [@ EXCEPT
         !.execution = "failed", !.failure = "materialization_failure",
         !.todo = {}, !.changed = {}]]
  /\ Goto(r, "gate")

\* _parse_autonomous_plan returns: the paths to write and to patch.  A plan of
\* directories alone has no path and no patch.
ParsePlan(r) ==
  /\ pc[r] = "plan"
  /\ \E todo \in SUBSET Paths, patching \in BOOLEAN :
       /\ patching => todo # {}
       /\ session' = [session EXCEPT ![r] = [@ EXCEPT !.todo = todo, !.patching = patching]]
  /\ Goto(r, "apply")
  /\ UNCHANGED <<board, claimant, workspace, telemetry, reopens>>

\* The response is no plan, repeats a path, or names one outside the repository.
PlanIsInvalid(r) ==
  /\ pc[r] = "plan"
  /\ MarkExecutionFailed(r)
  /\ UNCHANGED <<board, claimant, workspace, telemetry, reopens>>

\* _apply_autonomous_plan writes or patches one file.
ApplyChange(r, p) ==
  /\ pc[r] = "apply"
  /\ p \in session[r].todo
  /\ workspace' = [workspace EXCEPT ![p] = session[r].ticket]
  /\ session' = [session EXCEPT ![r].todo = @ \ {p}, ![r].changed = @ \cup {p}]
  /\ UNCHANGED <<board, claimant, pc, telemetry, reopens>>

\* Identical content, a missing patch target, or no unique match.
SkipChange(r, p) ==
  /\ pc[r] = "apply"
  /\ p \in session[r].todo
  /\ session' = [session EXCEPT ![r].todo = @ \ {p}]
  /\ UNCHANGED <<board, claimant, workspace, pc, telemetry, reopens>>

\* A plan with patches that changed no file raises at the end.  Paths were checked
\* by the parser, so that half way only an exception of the file system can occur,
\* which run_autonomous_ticket lets through: Abort.
ApplyFails(r) ==
  /\ pc[r] = "apply"
  /\ session[r].todo = {}
  /\ session[r].patching /\ session[r].changed = {}
  /\ MarkExecutionFailed(r)
  /\ UNCHANGED <<board, claimant, workspace, telemetry, reopens>>

PlanApplied(r) ==
  /\ pc[r] = "apply"
  /\ session[r].todo = {}
  /\ session[r].patching => session[r].changed # {}
  /\ Goto(r, "validate")
  /\ UNCHANGED <<board, claimant, workspace, session, telemetry, reopens>>

\* _run_validation_commands runs every command; passed is their conjunction.
Validate(r) ==
  /\ pc[r] = "validate"
  /\ \E passed \in BOOLEAN : session' = [session EXCEPT ![r].passed = passed]
  /\ Goto(r, "gate")
  /\ UNCHANGED <<board, claimant, workspace, telemetry, reopens>>

\* The ValidationInput that _evaluate_autonomous_write_request builds.
WriteRequest(r, secret) ==
  [executor |-> session[r].execution, passed |-> session[r].passed,
   changes |-> [p \in session[r].changed |-> [delta |-> LineDelta[p], binary |-> FALSE]],
   secretInOutput |-> secret, deterministic |-> TRUE]

\* _evaluate_autonomous_write_request of an execution that did not succeed.
RejectFailedExecution(r) ==
  /\ pc[r] = "gate"
  /\ session[r].execution # "succeeded"
  /\ session' = [session EXCEPT ![r] = [@ EXCEPT
         !.decision = "rejected", !.reason = session[r].failure]]
  /\ Goto(r, "comment")
  /\ UNCHANGED <<board, claimant, workspace, telemetry, reopens>>

EvaluateWriteRequest(r) ==
  /\ pc[r] = "gate"
  /\ session[r].execution = "succeeded"
  /\ \E secret \in BOOLEAN :
       LET verdict == Evaluate(WriteRequest(r, secret), Policy) IN
       session' = [session EXCEPT ![r] = [@ EXCEPT
         !.decision = verdict.decision, !.reason = verdict.reason]]
  /\ Goto(r, "comment")
  /\ UNCHANGED <<board, claimant, workspace, telemetry, reopens>>

\* Mutant: the decision is not looked at before set-status.
CommentIgnoringDecision(r) ==
  /\ pc[r] = "comment"
  /\ Goto(r, IF session[r].execution = "succeeded" THEN "set_status" ELSE "persist")
  /\ UNCHANGED <<board, claimant, workspace, session, telemetry, reopens>>

\* Mutant: set-status is forgotten.
CommentOnly(r) ==
  /\ pc[r] = "comment"
  /\ Goto(r, "persist")
  /\ UNCHANGED <<board, claimant, workspace, session, telemetry, reopens>>

\* Mutant: a rejected ticket is quietly made ready again.
CommentAndRelease(r) ==
  LET admitted == session[r].execution = "succeeded" /\ session[r].decision # "rejected" IN
  /\ pc[r] = "comment"
  /\ Goto(r, IF admitted THEN "set_status" ELSE "persist")
  /\ board' = IF admitted THEN board ELSE [board EXCEPT ![session[r].ticket] = "ready"]
  /\ UNCHANGED <<claimant, workspace, session, telemetry, reopens>>

\* "mt comment" succeeds; only an admitted change goes on to "mt set-status".
CommentTicket(r) ==
  /\ pc[r] = "comment"
  /\ Goto(r, IF session[r].execution = "succeeded" /\ session[r].decision # "rejected"
             THEN "set_status" ELSE "persist")
  /\ UNCHANGED <<board, claimant, workspace, session, telemetry, reopens>>

\* Mutant: the ticket is completed without a review.
SetDone(r) ==
  LET t == session[r].ticket IN
  /\ pc[r] = "set_status"
  /\ board[t] = "claimed"
  /\ board' = [board EXCEPT ![t] = "done"]
  /\ Goto(r, "persist")
  /\ UNCHANGED <<claimant, workspace, session, telemetry, reopens>>

\* "mt set-status needs_review" of a claimed ticket.
SetNeedsReview(r) ==
  LET t == session[r].ticket IN
  /\ pc[r] = "set_status"
  /\ board[t] = "claimed"
  /\ board' = [board EXCEPT ![t] = "needs_review"]
  /\ Goto(r, "persist")
  /\ UNCHANGED <<claimant, workspace, session, telemetry, reopens>>

\* Mutant: telemetry is only written for admitted changes.
PersistAdmitted(r) ==
  /\ pc[r] = "persist"
  /\ telemetry' = IF session[r].decision = "rejected" THEN telemetry
                  ELSE telemetry \cup {AttemptSummary(r)}
  /\ Goto(r, "returned")
  /\ UNCHANGED <<board, claimant, workspace, session, reopens>>

\* persist_dispatch_outcome: artifacts, event file, then the summary line.
PersistOutcome(r) ==
  /\ pc[r] = "persist"
  /\ telemetry' = telemetry \cup {AttemptSummary(r)}
  /\ Goto(r, "returned")
  /\ UNCHANGED <<board, claimant, workspace, session, reopens>>

\* The process dies: a crash, or an exception that is not a RuntimeConfigError.
Abort(r) ==
  /\ pc[r] # "idle"
  /\ Goto(r, "idle")
  /\ session' = [session EXCEPT ![r] = NoSession]
  /\ UNCHANGED <<board, claimant, workspace, telemetry, reopens>>

\* The caller of run_autonomous_ticket has its result or its exception.
Finish(r) ==
  /\ pc[r] \in Outcomes
  /\ Goto(r, "idle")
  /\ session' = [session EXCEPT ![r] = NoSession]
  /\ UNCHANGED <<board, claimant, workspace, telemetry, reopens>>

CallStep(r) ==
  \/ NoneReady(r) \/ SelectTicket(r)
  \/ ClaimTicket(r) \/ MuonTicketsFails(r)
  \/ Execute(r)
  \/ ParsePlan(r) \/ PlanIsInvalid(r)
  \/ \E p \in Paths : ApplyChange(r, p) \/ SkipChange(r, p)
  \/ ApplyFails(r) \/ PlanApplied(r)
  \/ Validate(r)
  \/ RejectFailedExecution(r) \/ EvaluateWriteRequest(r)
  \/ CommentTicket(r) \/ SetNeedsReview(r)
  \/ PersistOutcome(r)

(***************************************************************************)
(* The operators, who review through MuonTickets.  A claimed ticket is     *)
(* sent back only once the run that claimed it has let go of it.           *)
(***************************************************************************)
SetStatus(t, status) ==
  /\ board' = [board EXCEPT ![t] = status]
  /\ UNCHANGED <<workspace, pc, session, telemetry>>

Approve(t) == /\ board[t] = "needs_review"
              /\ SetStatus(t, "done")
              /\ UNCHANGED <<claimant, reopens>>

Archive(t) == /\ board[t] = "done"
              /\ SetStatus(t, "absent")
              /\ UNCHANGED <<claimant, reopens>>

Reopen(t) ==
  /\ board[t] \in {"claimed", "needs_review"}
  /\ \A r \in Runtimes : Working(r) => session[r].ticket # t
  /\ reopens < MaxReopens
  /\ reopens' = reopens + 1
  /\ SetStatus(t, "ready")
  /\ claimant' = [claimant EXCEPT ![t] = None]

OperatorStep == \E t \in Tickets : Approve(t) \/ Archive(t) \/ Reopen(t)

Next ==
  \/ \E r \in Runtimes : Start(r) \/ CallStep(r) \/ Abort(r) \/ Finish(r)
  \/ OperatorStep

SessionSafety == Init /\ [][Next]_sessionVars

(***************************************************************************)
(* Properties.                                                             *)
(***************************************************************************)

\* A rejected execution that failed gives the kind of its error as reason.
FailureKinds   == {"none", "executor", "materialization_failure"}
SessionReasons == Reasons \cup FailureKinds

Sessions ==
  [ticket : Tickets \cup {None}, execution : ExecutionStatuses \cup {"none"},
   failure : FailureKinds,
   patching : BOOLEAN, todo : SUBSET Paths, changed : SUBSET Paths,
   passed : BOOLEAN, decision : Decisions \cup {"none"}, reason : SessionReasons]

Summaries ==
  [runtime : Runtimes, ticket : Tickets \cup {None},
   final : ExecutionStatuses \cup {"none"},
   decision : Decisions \cup {"none"}, reason : SessionReasons]

(* Every variable has the type its comment gives, and a call past its scan *)
(* has a ticket in hand.                                                   *)
TypeOK ==
  /\ board \in Boards
  /\ claimant \in [Tickets -> Runtimes \cup {None}]
  /\ workspace \in [Paths -> Tickets \cup {None}]
  /\ pc \in [Runtimes -> Steps]
  /\ session \in [Runtimes -> Sessions]
  /\ telemetry \subseteq Summaries
  /\ reopens \in 0 .. MaxReopens
  /\ \A r \in Runtimes :
       pc[r] \in TicketSteps => session[r].ticket \in Tickets

\* The ticket of a working call is claimed, and by this runtime.
ClaimsAreHeld ==
  \A r \in Runtimes : Working(r) =>
    board[session[r].ticket] = "claimed" /\ claimant[session[r].ticket] = r

DependenciesFinished(t) ==
  \A i \in DOMAIN DependsOn[t] : board[DependsOn[t][i]] \in {"done", "absent"}

\* From its scan on, the dependencies of a call's ticket are finished.
DependenciesStayFinished ==
  \A r \in Runtimes :
    pc[r] \in WorkingSteps \cup {"claim"} => DependenciesFinished(session[r].ticket)

Admissible(r) ==
  /\ session[r].execution = "succeeded" /\ session[r].decision # "rejected"
  /\ session[r].passed /\ session[r].changed # {}
  /\ session[r].decision = "accepted" =>
       session[r].changed \subseteq Policy.allowed \ Policy.protected

\* Past the gate, an execution that was not rejected has its evidence.
VerdictsAreFounded ==
  \A r \in Runtimes :
    /\ pc[r] = "comment" =>
         \/ session[r].execution # "succeeded" \/ session[r].decision = "rejected"
         \/ Admissible(r)
    /\ pc[r] = "set_status" => Admissible(r)

(* The inductive invariant behind the properties below: who works holds    *)
(* the claim, its dependencies are finished for good, and the gate's       *)
(* verdict is still about the evidence it was given when the board is told.*)
SessionInvariant ==
  TypeOK /\ ClaimsAreHeld /\ DependenciesStayFinished /\ VerdictsAreFounded

(* Two runtimes that scanned the same ready ticket never both work on it:  *)
(* the scan is stale by the time of the claim (runtime.py scans, reads the *)
(* requirements and the workspace, then claims), and only "mt claim"       *)
(* decides who goes on.                                                    *)
ExclusiveSessions ==
  \A r, s \in Runtimes :
    Working(r) /\ Working(s) /\ session[r].ticket = session[s].ticket => r = s

(* A ticket is worked on only when every dependency was done, although the *)
(* dependencies are checked at the scan and never again.                   *)
SessionDependenciesMet ==
  \A r \in Runtimes : Working(r) => DependenciesFinished(session[r].ticket)

\* Whoever writes a path writes it for a ticket it has claimed.
WritesUnderClaim ==
  \A p \in Paths : workspace'[p] # workspace[p] =>
    \E r \in Runtimes :
      /\ Working(r) /\ session[r].ticket = workspace'[p]
      /\ board[workspace'[p]] = "claimed" /\ claimant[workspace'[p]] = r

(* The repository is changed only on behalf of a ticket that is claimed by *)
(* the very runtime that writes: a lost claim race or a failed claim stops *)
(* the call before its first write (autonomous-coding-session-contract).   *)
MutationUnderClaim == [][WritesUnderClaim]_sessionVars

\* Whoever hands a ticket over has claimed it and has the gate's evidence.
HandsOverEvidence ==
  \A t \in Tickets : board[t] # "needs_review" /\ board'[t] = "needs_review" =>
    \E r \in Runtimes : session[r].ticket = t /\ claimant[t] = r /\ Admissible(r)

(* A ticket reaches needs_review only by the runtime that claimed it, after*)
(* an execution that succeeded, with passing validation commands, a        *)
(* non-empty change set, and no change outside what the policy lets        *)
(* through without review.                                                 *)
ReviewNeedsEvidence == [][HandsOverEvidence]_sessionVars

(* Each step of the calls and of the operators is a step of the ticket     *)
(* workflow that MuonTickets users are promised.  A ticket is admitted     *)
(* while a runtime is between the gate's verdict and "mt set-status".      *)
Admitted == {session[r].ticket : r \in {q \in Runtimes : pc[q] = "set_status"}}

Workflow == INSTANCE TicketWorkflow
              WITH Workers <- Runtimes, NoWorker <- None, status <- board,
                   worker <- claimant, admitted <- Admitted

ImplementsWorkflow == Workflow!Spec
=============================================================================
