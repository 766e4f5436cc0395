----------------------- MODULE AutonomousTicket_proofs -----------------------
(***************************************************************************)
(* Theorems about AutonomousTicket, for any number of runtimes, tickets    *)
(* and paths, any dependencies and any policy.                             *)
(***************************************************************************)
EXTENDS AutonomousTicket, TLAPS

(***************************************************************************)
(* The write gate.                                                         *)
(***************************************************************************)

\* A set of diagnostics has a first one.
LEMMA FirstExists ==
  ASSUME NEW D, D \subseteq 1 .. 7, D # {}
  PROVE  \E i \in D : \A j \in D : i <= j
PROOF
<1>1. D \subseteq {1, 2, 3, 4, 5, 6, 7}
  OBVIOUS
<1>2. CASE 1 \in D
  BY <1>2
<1>3. CASE 1 \notin D /\ 2 \in D
  BY <1>3
<1>4. CASE 1 \notin D /\ 2 \notin D /\ 3 \in D
  BY <1>4
<1>5. CASE D \subseteq {4, 5, 6, 7}
  <2>1. CASE 4 \in D
    BY <1>5, <2>1
  <2>2. CASE 4 \notin D /\ 5 \in D
    BY <1>5, <2>2
  <2>3. CASE 4 \notin D /\ 5 \notin D /\ 6 \in D
    BY <1>5, <2>3
  <2>4. CASE 4 \notin D /\ 5 \notin D /\ 6 \notin D
    <3>1. D = {7}
      BY <1>5, <2>4
    <3> QED
      BY <3>1
  <2> QED
    BY <2>1, <2>2, <2>3, <2>4
<1> QED
  BY <1>1, <1>2, <1>3, <1>4, <1>5

\* Whatever it is asked, the gate answers with a decision and a reason of its own.
LEMMA VerdictType ==
  ASSUME NEW req, NEW policy
  PROVE  /\ Evaluate(req, policy).decision \in Decisions
         /\ Evaluate(req, policy).reason \in Reasons
PROOF
<1> DEFINE D == Diagnostics(req, policy)
<1>1. ASSUME D # {} PROVE FirstDiagnostic(req, policy) \in Reasons
  <2>1. D \subseteq 1 .. 7
    BY DEF Diagnostics, DiagnosticNames
  <2>2. \E i \in D : \A j \in D : i <= j
    BY <1>1, <2>1, FirstExists
  <2>3. FirstDiagnostic(req, policy) \in {DiagnosticNames[i] : i \in 1 .. 7}
    BY <2>1, <2>2 DEF FirstDiagnostic
  <2> QED
    BY <2>3 DEF Reasons, DiagnosticNames
<1>2. ASSUME SecretSuspect(req, policy) \/ ProtectedHits(req, policy) # {} \/ D # {}
      PROVE  PrimaryReason(req, policy) \in Reasons
  <2>1. {"secret_suspect", "protected_path_touched"} \subseteq Reasons
    BY DEF Reasons
  <2> QED
    BY <1>1, <1>2, <2>1 DEF PrimaryReason
<1>3. RequiresReview(req, policy) =>
        SecretSuspect(req, policy) \/ ProtectedHits(req, policy) # {} \/ D # {}
  BY DEF RequiresReview
<1>4. {"executor_did_not_succeed", "validation_failed", "no_repository_mutation_proposed",
       "write_request_within_policy"} \subseteq Reasons
  BY DEF Reasons
<1> QED
  BY <1>2, <1>3, <1>4 DEF Evaluate, Verdict, Decisions

\* The gate lets through only what succeeded, passed validation and changed
\* something.
LEMMA AdmittedHasEvidence ==
  ASSUME NEW req, NEW policy, Evaluate(req, policy).decision # "rejected"
  PROVE  req.executor = "succeeded" /\ req.passed /\ ChangedPaths(req) # {}
PROOF
BY DEF Evaluate, Verdict

\* The gate accepts without review only what the policy allows.
LEMMA AcceptedIsAllowed ==
  ASSUME NEW req, NEW policy, Evaluate(req, policy).decision = "accepted"
  PROVE  ChangedPaths(req) \subseteq policy.allowed \ policy.protected
PROOF
<1>1. Diagnostics(req, policy) = {}
  BY DEF Evaluate, Verdict
<1>2. ~Diagnosed("disallowed_paths", req, policy) /\ ~Diagnosed("protected_paths", req, policy)
  <2>1. 3 \in DOMAIN DiagnosticNames /\ DiagnosticNames[3] = "disallowed_paths"
    BY DEF DiagnosticNames
  <2>2. 7 \in DOMAIN DiagnosticNames /\ DiagnosticNames[7] = "protected_paths"
    BY DEF DiagnosticNames
  <2> QED
    BY <1>1, <2>1, <2>2 DEF Diagnostics
<1>3. DisallowedHits(req, policy) = {} /\ ProtectedHits(req, policy) = {}
  BY <1>2 DEF Diagnosed
<1> QED
  BY <1>3 DEF DisallowedHits, ProtectedHits

(***************************************************************************)
(* Types.                                                                  *)
(***************************************************************************)

LEMMA TypeOKInit == Init => TypeOK
PROOF
<1> SUFFICES ASSUME Init PROVE TypeOK
  OBVIOUS
<1>1. board \in Boards
  BY SessionAssumption DEF Init
<1>2. NoSession \in Sessions
  BY SessionAssumption DEF NoSession, Sessions, SessionReasons, FailureKinds, ExecutionStatuses
<1> QED
  BY <1>1, <1>2, SessionAssumption
  DEF Init, TypeOK, Steps, CallSteps, WorkingSteps, Outcomes, TicketSteps

\* A call that keeps its ticket may replace its other locals.
LEMMA SessionUpdate ==
  ASSUME TypeOK, NEW r \in Runtimes, pc[r] \in WorkingSteps,
         NEW s \in Sessions, s.ticket = session[r].ticket,
         session' = [session EXCEPT ![r] = s],
         NEW step \in Steps, pc' = [pc EXCEPT ![r] = step],
         workspace' \in [Paths -> Tickets \cup {None}],
         UNCHANGED <<board, claimant, telemetry, reopens>>
  PROVE  TypeOK'
PROOF
<1>1. session' \in [Runtimes -> Sessions]
  BY DEF TypeOK
<1>2. pc' \in [Runtimes -> Steps]
  BY DEF TypeOK
<1>3. session[r].ticket \in Tickets
  BY DEF TypeOK, TicketSteps
<1>4. ASSUME NEW q \in Runtimes, pc'[q] \in TicketSteps
      PROVE  session'[q].ticket \in Tickets
  <2>1. CASE q = r
    BY <1>3, <2>1 DEF TypeOK
  <2>2. CASE q # r
    BY <1>4, <2>2 DEF TypeOK
  <2> QED
    BY <2>1, <2>2
<1> QED
  BY <1>1, <1>2, <1>4 DEF TypeOK

LEMMA TypeOKStep == TypeOK /\ [Next]_sessionVars => TypeOK'
PROOF
<1> SUFFICES ASSUME TypeOK, [Next]_sessionVars
             PROVE  TypeOK'
  OBVIOUS
<1> USE DEF TypeOK, Goto, Steps, CallSteps, WorkingSteps, Outcomes, TicketSteps
<1>1. NoSession \in Sessions
  BY SessionAssumption DEF NoSession, Sessions, SessionReasons, FailureKinds, ExecutionStatuses
<1>2. ASSUME NEW r \in Runtimes, Start(r) \/ CallStep(r) \/ Abort(r) \/ Finish(r)
      PROVE  TypeOK'
  <2>1. CASE Start(r)
    BY <1>1, <2>1 DEF Start
  <2>2. CASE NoneReady(r)
    BY <2>2 DEF NoneReady
  <2>3. CASE SelectTicket(r)
    <3>1. PICK t \in Tickets : session' = [session EXCEPT ![r].ticket = t]
      BY <2>3, Zenon DEF SelectTicket
    <3>2. session' \in [Runtimes -> Sessions] /\ session'[r].ticket = t
      BY <3>1, SMTT(20) DEF Sessions
    <3>3. \A q \in Runtimes \ {r} : pc'[q] = pc[q] /\ session'[q] = session[q]
      BY <2>3, <3>1 DEF SelectTicket
    <3> QED
      BY <2>3, <3>2, <3>3 DEF SelectTicket
  <2>4. CASE ClaimTicket(r)
    BY <2>4 DEF ClaimTicket, Boards, Statuses
  <2>5. CASE MuonTicketsFails(r)
    BY <2>5 DEF MuonTicketsFails
  <2>6. CASE Execute(r)
    <3>1. PICK status \in ExecutionStatuses :
            /\ session' = [session EXCEPT ![r] = [@ EXCEPT
                 !.execution = status,
                 !.failure = IF status = "succeeded" THEN "none" ELSE "executor"]]
            /\ Goto(r, IF status = "succeeded" THEN "plan" ELSE "gate")
      BY <2>6, Zenon DEF Execute
    <3> DEFINE s == [session[r] EXCEPT
                       !.execution = status,
                       !.failure = IF status = "succeeded" THEN "none" ELSE "executor"]
    <3>2. s \in Sessions /\ s.ticket = session[r].ticket
      <4>1. session[r] \in Sessions
        OBVIOUS
      <4>2. (IF status = "succeeded" THEN "none" ELSE "executor") \in FailureKinds
        BY DEF FailureKinds
      <4> HIDE DEF TypeOK
      <4> QED
        BY <4>1, <4>2 DEF Sessions
    <3>3. session' = [session EXCEPT ![r] = s]
      BY <3>1
    <3> HIDE DEF s, TypeOK
    <3> QED
      BY <2>6, <3>1, <3>2, <3>3, SessionUpdate DEF Execute, TypeOK
  <2>7. CASE ParsePlan(r)
    <3>1. PICK todo \in SUBSET Paths, patching \in BOOLEAN :
            session' = [session EXCEPT ![r] = [@ EXCEPT !.todo = todo, !.patching = patching]]
      BY <2>7, Zenon DEF ParsePlan
    <3> DEFINE s == [session[r] EXCEPT !.todo = todo, !.patching = patching]
    <3>2. s \in Sessions /\ s.ticket = session[r].ticket
      BY DEF Sessions
    <3>3. session' = [session EXCEPT ![r] = s]
      BY <3>1
    <3> HIDE DEF s, TypeOK
    <3> QED
      BY <2>7, <3>2, <3>3, SessionUpdate DEF ParsePlan, TypeOK
  <2>8. CASE PlanIsInvalid(r)
    <3> DEFINE s == [session[r] EXCEPT
                       !.execution = "failed", !.failure = "materialization_failure",
                       !.todo = {}, !.changed = {}]
    <3>1. s \in Sessions /\ s.ticket = session[r].ticket
      BY DEF Sessions, ExecutionStatuses, FailureKinds
    <3>2. session' = [session EXCEPT ![r] = s]
      BY <2>8 DEF PlanIsInvalid, MarkExecutionFailed
    <3> HIDE DEF s, TypeOK
    <3> QED
      BY <2>8, <3>1, <3>2, SessionUpdate DEF PlanIsInvalid, MarkExecutionFailed, TypeOK
  <2>9. CASE ApplyFails(r)
    <3> DEFINE s == [session[r] EXCEPT
                       !.execution = "failed", !.failure = "materialization_failure",
                       !.todo = {}, !.changed = {}]
    <3>1. s \in Sessions /\ s.ticket = session[r].ticket
      BY DEF Sessions, ExecutionStatuses, FailureKinds
    <3>2. session' = [session EXCEPT ![r] = s]
      BY <2>9 DEF ApplyFails, MarkExecutionFailed
    <3> HIDE DEF s, TypeOK
    <3> QED
      BY <2>9, <3>1, <3>2, SessionUpdate DEF ApplyFails, MarkExecutionFailed, TypeOK
  <2>10. CASE PlanApplied(r)
    BY <2>10 DEF PlanApplied
  <2>11. CASE Validate(r)
    BY <2>11 DEF Validate, Sessions
  <2>12. CASE RejectFailedExecution(r)
    <3> DEFINE s == [session[r] EXCEPT !.decision = "rejected", !.reason = session[r].failure]
    <3>1. s \in Sessions /\ s.ticket = session[r].ticket
      BY DEF Sessions, Decisions, SessionReasons
    <3>2. session' = [session EXCEPT ![r] = s]
      BY <2>12 DEF RejectFailedExecution
    <3> HIDE DEF s, TypeOK
    <3> QED
      BY <2>12, <3>1, <3>2, SessionUpdate DEF RejectFailedExecution, TypeOK
  <2>13. CASE EvaluateWriteRequest(r)
    <3>1. PICK secret \in BOOLEAN :
            LET verdict == Evaluate(WriteRequest(r, secret), Policy) IN
            session' = [session EXCEPT ![r] = [@ EXCEPT
              !.decision = verdict.decision, !.reason = verdict.reason]]
      BY <2>13, Zenon DEF EvaluateWriteRequest
    <3> DEFINE verdict == Evaluate(WriteRequest(r, secret), Policy)
               s == [session[r] EXCEPT
                       !.decision = verdict.decision, !.reason = verdict.reason]
    <3>2. verdict.decision \in Decisions /\ verdict.reason \in Reasons
      BY VerdictType
    <3>3. session' = [session EXCEPT ![r] = s]
      BY <3>1
    <3> HIDE DEF verdict
    <3>4. s \in Sessions /\ s.ticket = session[r].ticket
      BY <3>2 DEF Sessions, SessionReasons
    <3> HIDE DEF s, TypeOK
    <3> QED
      BY <2>13, <3>3, <3>4, SessionUpdate DEF EvaluateWriteRequest, TypeOK
  <2>14. CASE CommentTicket(r)
    BY <2>14 DEF CommentTicket
  <2>15. CASE SetNeedsReview(r)
    BY <2>15 DEF SetNeedsReview, Boards, Statuses
  <2>16. CASE PersistOutcome(r)
    BY <2>16 DEF PersistOutcome, AttemptSummary, Summaries, Sessions
  <2>17. CASE Abort(r)
    BY <1>1, <2>17 DEF Abort
  <2>18. CASE Finish(r)
    BY <1>1, <2>18 DEF Finish
  <2>19. ASSUME NEW p \in Paths, ApplyChange(r, p)
        PROVE  TypeOK'
    <3> DEFINE s == [session[r] EXCEPT !.todo    = session[r].todo \ {p},
                                       !.changed = session[r].changed \cup {p}]
    <3>1. s \in Sessions /\ s.ticket = session[r].ticket
      BY DEF Sessions
    <3>2. session' = [session EXCEPT ![r] = s]
      BY <2>19 DEF ApplyChange, Sessions
    <3>3. session[r].ticket \in Tickets
      BY <2>19 DEF ApplyChange
    <3>4. workspace' \in [Paths -> Tickets \cup {None}]
      BY <2>19, <3>3 DEF ApplyChange
    <3>5. pc' = [pc EXCEPT ![r] = "apply"]
      BY <2>19 DEF ApplyChange
    <3> HIDE DEF s, TypeOK
    <3> QED
      BY <2>19, <3>1, <3>2, <3>4, <3>5, SessionUpdate DEF ApplyChange, TypeOK
  <2>20. ASSUME NEW p \in Paths, SkipChange(r, p)
        PROVE  TypeOK'
    BY <2>20 DEF SkipChange, Sessions
  <2> QED
    BY <1>2, <2>1, <2>2, <2>3, <2>4, <2>5, <2>6, <2>7, <2>8, <2>9, <2>10, <2>11,
       <2>12, <2>13, <2>14, <2>15, <2>16, <2>17, <2>18, <2>19, <2>20
    DEF CallStep
<1>3. ASSUME NEW t \in Tickets, Approve(t) \/ Archive(t) \/ Reopen(t)
      PROVE  TypeOK'
  BY <1>3, SessionAssumption DEF Approve, Archive, Reopen, SetStatus, Boards, Statuses
<1>4. CASE UNCHANGED sessionVars
  BY <1>4 DEF sessionVars
<1> QED
  BY <1>2, <1>3, <1>4 DEF Next, OperatorStep

(* Every variable keeps its type, and a call past its scan has a ticket.   *)
THEOREM TypeSafety == SessionSafety => []TypeOK
PROOF
<1> QED
  BY TypeOKInit, TypeOKStep, PTL DEF SessionSafety

(***************************************************************************)
(* The shape of a step.                                                    *)
(***************************************************************************)

\* A step of r leaves the other calls alone.
OthersKept(r) ==
  \A q \in Runtimes \ {r} : pc'[q] = pc[q] /\ session'[q] = session[q]

\* A step of r that leaves the board alone and does not begin to work.
Quiet(r) ==
  /\ UNCHANGED <<board, claimant>>
  /\ pc'[r] \in WorkingSteps => pc[r] \in WorkingSteps
  /\ pc'[r] # "claim"
  /\ pc[r] \in WorkingSteps /\ pc'[r] \in WorkingSteps =>
       session'[r].ticket = session[r].ticket

Loud(r) == SelectTicket(r) \/ ClaimTicket(r) \/ SetNeedsReview(r)

LEMMA OthersAreKept ==
  ASSUME TypeOK, NEW r \in Runtimes, Start(r) \/ CallStep(r) \/ Abort(r) \/ Finish(r)
  PROVE  OthersKept(r)
PROOF
<1> USE DEF Goto, OthersKept, TypeOK
<1>1. CASE Execute(r)
  BY <1>1 DEF Execute
<1>2. CASE ParsePlan(r)
  BY <1>2 DEF ParsePlan
<1>3. CASE PlanIsInvalid(r)
  BY <1>3 DEF PlanIsInvalid, MarkExecutionFailed
<1>4. CASE ApplyFails(r)
  BY <1>4 DEF ApplyFails, MarkExecutionFailed
<1>5. CASE PlanApplied(r)
  BY <1>5 DEF PlanApplied
<1>6. CASE Validate(r)
  BY <1>6 DEF Validate
<1>7. CASE RejectFailedExecution(r)
  BY <1>7 DEF RejectFailedExecution
<1>8. CASE EvaluateWriteRequest(r)
  BY <1>8 DEF EvaluateWriteRequest
<1>9. CASE CommentTicket(r)
  BY <1>9 DEF CommentTicket
<1>10. CASE PersistOutcome(r)
  BY <1>10 DEF PersistOutcome
<1>11. CASE Start(r)
  BY <1>11 DEF Start
<1>12. CASE NoneReady(r)
  BY <1>12 DEF NoneReady
<1>13. CASE MuonTicketsFails(r)
  BY <1>13 DEF MuonTicketsFails
<1>14. CASE Abort(r)
  BY <1>14 DEF Abort
<1>15. CASE Finish(r)
  BY <1>15 DEF Finish
<1>16. CASE SelectTicket(r)
  BY <1>16 DEF SelectTicket
<1>17. CASE ClaimTicket(r)
  BY <1>17 DEF ClaimTicket
<1>18. CASE SetNeedsReview(r)
  BY <1>18 DEF SetNeedsReview
<1>19. CASE \E p \in Paths : ApplyChange(r, p) \/ SkipChange(r, p)
  BY <1>19 DEF ApplyChange, SkipChange
<1> QED
  BY <1>1, <1>2, <1>3, <1>4, <1>5, <1>6, <1>7, <1>8, <1>9, <1>10, <1>11,
     <1>12, <1>13, <1>14, <1>15, <1>16, <1>17, <1>18, <1>19
  DEF CallStep

LEMMA QuietOrLoud ==
  ASSUME TypeOK, NEW r \in Runtimes, Start(r) \/ CallStep(r) \/ Abort(r) \/ Finish(r)
  PROVE  Quiet(r) \/ Loud(r)
PROOF
<1> USE DEF Goto, Quiet, TypeOK, WorkingSteps
<1>1. CASE Execute(r)
  BY <1>1 DEF Execute
<1>2. CASE ParsePlan(r)
  BY <1>2 DEF ParsePlan
<1>3. CASE PlanIsInvalid(r)
  BY <1>3 DEF PlanIsInvalid, MarkExecutionFailed
<1>4. CASE ApplyFails(r)
  BY <1>4 DEF ApplyFails, MarkExecutionFailed
<1>5. CASE PlanApplied(r)
  BY <1>5 DEF PlanApplied
<1>6. CASE Validate(r)
  BY <1>6 DEF Validate
<1>7. CASE RejectFailedExecution(r)
  BY <1>7 DEF RejectFailedExecution
<1>8. CASE EvaluateWriteRequest(r)
  BY <1>8 DEF EvaluateWriteRequest
<1>9. CASE CommentTicket(r)
  BY <1>9 DEF CommentTicket
<1>10. CASE PersistOutcome(r)
  BY <1>10 DEF PersistOutcome
<1>11. CASE Start(r)
  BY <1>11 DEF Start
<1>12. CASE NoneReady(r)
  BY <1>12 DEF NoneReady
<1>13. CASE MuonTicketsFails(r)
  BY <1>13 DEF MuonTicketsFails
<1>14. CASE Abort(r)
  BY <1>14 DEF Abort
<1>15. CASE Finish(r)
  BY <1>15 DEF Finish
<1>16. ASSUME NEW p \in Paths, ApplyChange(r, p) PROVE Quiet(r)
  <2>1. session'[r].ticket = session[r].ticket
    BY <1>16 DEF ApplyChange, Sessions
  <2> QED
    BY <1>16, <2>1 DEF ApplyChange
<1>17. ASSUME NEW p \in Paths, SkipChange(r, p) PROVE Quiet(r)
  <2>1. session'[r].ticket = session[r].ticket
    BY <1>17 DEF SkipChange, Sessions
  <2> QED
    BY <1>17, <2>1 DEF SkipChange
<1> QED
  BY <1>1, <1>2, <1>3, <1>4, <1>5, <1>6, <1>7, <1>8, <1>9, <1>10, <1>11,
     <1>12, <1>13, <1>14, <1>15, <1>16, <1>17
  DEF CallStep, Loud

(***************************************************************************)
(* The inductive invariant.                                                *)
(***************************************************************************)
LEMMA ClaimsAreHeldStep ==
  ASSUME TypeOK, ClaimsAreHeld, [Next]_sessionVars
  PROVE  ClaimsAreHeld'
PROOF
<1>1. ASSUME NEW r \in Runtimes, Start(r) \/ CallStep(r) \/ Abort(r) \/ Finish(r)
      PROVE  ClaimsAreHeld'
  <2> SUFFICES ASSUME NEW q \in Runtimes, Working(q)'
               PROVE  /\ board'[session'[q].ticket] = "claimed"
                      /\ claimant'[session'[q].ticket] = q
    BY DEF ClaimsAreHeld
  <2>1. q # r => pc'[q] = pc[q] /\ session'[q] = session[q]
    BY <1>1, OthersAreKept DEF OthersKept
  <2>2. CASE Quiet(r)
    BY <2>1, <2>2 DEF Quiet, ClaimsAreHeld, Working
  <2>3. CASE SelectTicket(r)
    <3>1. q # r
      BY <2>3 DEF SelectTicket, Goto, Working, WorkingSteps, TypeOK
    <3> QED
      BY <2>1, <2>3, <3>1 DEF SelectTicket, ClaimsAreHeld, Working
  <2>4. CASE ClaimTicket(r)
    <3>1. CASE q = r
      BY <2>4, <3>1 DEF ClaimTicket, TypeOK, Boards, TicketSteps
    <3>2. CASE q # r
      <4>1. board[session[q].ticket] = "claimed" /\ claimant[session[q].ticket] = q
        BY <2>1, <3>2 DEF ClaimsAreHeld, Working
      <4>2. session[q].ticket # session[r].ticket
        BY <2>4, <4>1 DEF ClaimTicket
      <4> QED
        BY <2>1, <2>4, <3>2, <4>1, <4>2 DEF ClaimTicket, TypeOK, Boards
    <3> QED
      BY <3>1, <3>2
  <2>5. CASE SetNeedsReview(r)
    <3>1. q # r
      BY <2>5 DEF SetNeedsReview, Goto, Working, WorkingSteps, TypeOK
    <3>2. board[session[q].ticket] = "claimed" /\ claimant[session[q].ticket] = q
      BY <2>1, <3>1 DEF ClaimsAreHeld, Working
    <3>3. claimant[session[r].ticket] = r
      BY <2>5 DEF SetNeedsReview, ClaimsAreHeld, Working, WorkingSteps
    <3> QED
      BY <2>1, <2>5, <3>1, <3>2, <3>3 DEF SetNeedsReview, TypeOK, Boards
  <2> QED
    BY <1>1, <2>2, <2>3, <2>4, <2>5, QuietOrLoud DEF Loud
<1>2. ASSUME NEW t \in Tickets, Approve(t) \/ Archive(t) \/ Reopen(t)
      PROVE  ClaimsAreHeld'
  <2> SUFFICES ASSUME NEW q \in Runtimes, Working(q)'
               PROVE  /\ board'[session'[q].ticket] = "claimed"
                      /\ claimant'[session'[q].ticket] = q
    BY DEF ClaimsAreHeld
  <2>1. Working(q) /\ session'[q] = session[q]
    BY <1>2 DEF Approve, Archive, Reopen, SetStatus, Working
  <2>2. board[session[q].ticket] = "claimed" /\ claimant[session[q].ticket] = q
    BY <2>1 DEF ClaimsAreHeld
  <2>3. session[q].ticket # t
    BY <1>2, <2>1, <2>2 DEF Approve, Archive, Reopen
  <2>4. session[q].ticket \in Tickets
    BY <2>1 DEF TypeOK, Working, TicketSteps
  <2>5. \A u \in Tickets \ {t} : board'[u] = board[u] /\ claimant'[u] = claimant[u]
    BY <1>2 DEF Approve, Archive, Reopen, SetStatus, TypeOK, Boards
  <2> QED
    BY <2>1, <2>2, <2>3, <2>4, <2>5
<1>3. CASE UNCHANGED sessionVars
  BY <1>3 DEF sessionVars, ClaimsAreHeld, Working
<1> QED
  BY <1>1, <1>2, <1>3 DEF Next, OperatorStep

\* No step takes a finished ticket back: it is done, and at most archived.
LEMMA FinishedStaysFinished ==
  ASSUME TypeOK, [Next]_sessionVars, NEW u \in Tickets, board[u] \in {"done", "absent"}
  PROVE  board'[u] \in {"done", "absent"}
PROOF
<1>1. ASSUME NEW r \in Runtimes, Start(r) \/ CallStep(r) \/ Abort(r) \/ Finish(r)
      PROVE  board'[u] \in {"done", "absent"}
  <2>1. CASE Quiet(r)
    BY <2>1 DEF Quiet
  <2>2. CASE Loud(r)
    <3>1. CASE SelectTicket(r)
      BY <3>1 DEF SelectTicket
    <3>2. CASE ClaimTicket(r)
      BY <3>2 DEF ClaimTicket, TypeOK, Boards
    <3>3. CASE SetNeedsReview(r)
      BY <3>3 DEF SetNeedsReview, TypeOK, Boards
    <3> QED
      BY <2>2, <3>1, <3>2, <3>3 DEF Loud
  <2> QED
    BY <1>1, <2>1, <2>2, QuietOrLoud
<1>2. ASSUME NEW t \in Tickets, Approve(t) \/ Archive(t) \/ Reopen(t)
      PROVE  board'[u] \in {"done", "absent"}
  BY <1>2 DEF Approve, Archive, Reopen, SetStatus, TypeOK, Boards
<1>3. CASE UNCHANGED sessionVars
  BY <1>3 DEF sessionVars
<1> QED
  BY <1>1, <1>2, <1>3 DEF Next, OperatorStep

\* Only the gate leads to the report and only the report to the hand-over, and
\* both carry the evidence with them.
LEMMA VerdictsAreFoundedStep ==
  ASSUME TypeOK, VerdictsAreFounded, [Next]_sessionVars
  PROVE  VerdictsAreFounded'
PROOF
<1>1. ASSUME NEW r \in Runtimes, Start(r) \/ CallStep(r) \/ Abort(r) \/ Finish(r)
      PROVE  VerdictsAreFounded'
  <2> DEFINE Reported(q) == pc[q] = "comment" =>
                              \/ session[q].execution # "succeeded"
                              \/ session[q].decision = "rejected"
                              \/ Admissible(q)
             Handed(q)   == pc[q] = "set_status" => Admissible(q)
  <2>1. ASSUME NEW q \in Runtimes, q # r
        PROVE  Reported(q)' /\ Handed(q)'
    <3>1. pc'[q] = pc[q] /\ session'[q] = session[q]
      BY <1>1, <2>1, OthersAreKept DEF OthersKept
    <3> QED
      BY <3>1 DEF VerdictsAreFounded, Admissible
  <2>2. CASE pc'[r] \notin {"comment", "set_status"}
    BY <2>1, <2>2 DEF VerdictsAreFounded
  <2>3. CASE RejectFailedExecution(r)
    <3>1. pc'[r] = "comment"
      BY <2>3 DEF RejectFailedExecution, Goto, TypeOK
    <3>2. session'[r].execution # "succeeded"
      BY <2>3 DEF RejectFailedExecution, TypeOK, Sessions
    <3> QED
      BY <2>1, <3>1, <3>2 DEF VerdictsAreFounded
  <2>4. CASE EvaluateWriteRequest(r)
    <3>1. pc'[r] = "comment"
      BY <2>4 DEF EvaluateWriteRequest, Goto, TypeOK
    <3>2. PICK secret \in BOOLEAN :
            LET verdict == Evaluate(WriteRequest(r, secret), Policy) IN
            session' = [session EXCEPT ![r] = [@ EXCEPT
              !.decision = verdict.decision, !.reason = verdict.reason]]
      BY <2>4, Zenon DEF EvaluateWriteRequest
    <3> DEFINE req     == WriteRequest(r, secret)
               verdict == Evaluate(req, Policy)
    <3>3. /\ session'[r].execution = session[r].execution
          /\ session'[r].passed = session[r].passed
          /\ session'[r].changed = session[r].changed
          /\ session'[r].decision = verdict.decision
      <4> HIDE DEF verdict
      <4>1. session' = [session EXCEPT ![r] = [session[r] EXCEPT
              !.decision = verdict.decision, !.reason = verdict.reason]]
        BY <3>2 DEF verdict
      <4> QED
        BY <4>1 DEF TypeOK, Sessions
    <3>4. /\ req.executor = session[r].execution
          /\ req.passed = session[r].passed
          /\ ChangedPaths(req) = session[r].changed
      BY DEF WriteRequest, ChangedPaths
    <3>5. ASSUME verdict.decision # "rejected"
          PROVE  Admissible(r)'
      <4>1. req.executor = "succeeded" /\ req.passed /\ ChangedPaths(req) # {}
        BY <3>5, AdmittedHasEvidence
      <4>2. verdict.decision = "accepted" =>
              ChangedPaths(req) \subseteq Policy.allowed \ Policy.protected
        BY AcceptedIsAllowed
      <4> HIDE DEF req, verdict
      <4> QED
        BY <3>3, <3>4, <3>5, <4>1, <4>2 DEF Admissible
    <3> HIDE DEF req, verdict
    <3> QED
      BY <2>1, <3>1, <3>3, <3>5 DEF VerdictsAreFounded
  <2>5. CASE CommentTicket(r)
    <3>1. pc'[r] # "comment" /\ session' = session
      BY <2>5 DEF CommentTicket, Goto, TypeOK
    <3>2. pc'[r] = "set_status" => Admissible(r)
      BY <2>5 DEF CommentTicket, Goto, TypeOK, VerdictsAreFounded
    <3> QED
      BY <2>1, <3>1, <3>2 DEF VerdictsAreFounded, Admissible
  <2>6. \/ pc'[r] \notin {"comment", "set_status"}
        \/ RejectFailedExecution(r) \/ EvaluateWriteRequest(r) \/ CommentTicket(r)
    <3> USE DEF Goto, TypeOK
    <3>1. CASE Start(r)
      BY <3>1 DEF Start
    <3>2. CASE NoneReady(r)
      BY <3>2 DEF NoneReady
    <3>3. CASE SelectTicket(r)
      BY <3>3 DEF SelectTicket
    <3>4. CASE ClaimTicket(r)
      BY <3>4 DEF ClaimTicket
    <3>5. CASE MuonTicketsFails(r)
      BY <3>5 DEF MuonTicketsFails
    <3>6. CASE Execute(r)
      BY <3>6 DEF Execute
    <3>7. CASE ParsePlan(r)
      BY <3>7 DEF ParsePlan
    <3>8. CASE PlanIsInvalid(r)
      BY <3>8 DEF PlanIsInvalid, MarkExecutionFailed
    <3>9. CASE ApplyFails(r)
      BY <3>9 DEF ApplyFails, MarkExecutionFailed
    <3>10. CASE PlanApplied(r)
      BY <3>10 DEF PlanApplied
    <3>11. CASE Validate(r)
      BY <3>11 DEF Validate
    <3>12. CASE SetNeedsReview(r)
      BY <3>12 DEF SetNeedsReview
    <3>13. CASE PersistOutcome(r)
      BY <3>13 DEF PersistOutcome
    <3>14. CASE Abort(r)
      BY <3>14 DEF Abort
    <3>15. CASE Finish(r)
      BY <3>15 DEF Finish
    <3>16. CASE \E p \in Paths : ApplyChange(r, p) \/ SkipChange(r, p)
      BY <3>16 DEF ApplyChange, SkipChange
    <3> QED
      BY <1>1, <3>1, <3>2, <3>3, <3>4, <3>5, <3>6, <3>7, <3>8, <3>9, <3>10,
         <3>11, <3>12, <3>13, <3>14, <3>15, <3>16
      DEF CallStep
  <2> QED
    BY <2>2, <2>3, <2>4, <2>5, <2>6
<1>2. CASE OperatorStep
  <2>1. UNCHANGED <<pc, session>>
    BY <1>2 DEF OperatorStep, Approve, Archive, Reopen, SetStatus
  <2> QED
    BY <2>1 DEF VerdictsAreFounded, Admissible
<1>3. CASE UNCHANGED sessionVars
  BY <1>3 DEF sessionVars, VerdictsAreFounded, Admissible
<1> QED
  BY <1>1, <1>2, <1>3 DEF Next

\* The scan chooses a ticket whose dependencies are done, and done stays done.
LEMMA DependenciesStayFinishedStep ==
  ASSUME TypeOK, DependenciesStayFinished, [Next]_sessionVars
  PROVE  DependenciesStayFinished'
PROOF
<1> DEFINE Depending == WorkingSteps \cup {"claim"}
<1>1. ASSUME NEW t \in Tickets, DependenciesFinished(t)
      PROVE  DependenciesFinished(t)'
  <2>1. ASSUME NEW i \in DOMAIN DependsOn[t]
        PROVE  DependsOn[t][i] \in Tickets
    BY BoardAssumption
  <2> QED
    BY <1>1, <2>1, FinishedStaysFinished DEF DependenciesFinished
<1>2. ASSUME NEW q \in Runtimes, pc[q] \in Depending,
             session'[q].ticket = session[q].ticket
      PROVE  DependenciesFinished(session[q].ticket)'
  <2>1. PICK t \in Tickets : t = session[q].ticket
    BY <1>2 DEF TypeOK, TicketSteps
  <2>2. DependenciesFinished(t)
    BY <1>2, <2>1 DEF DependenciesStayFinished
  <2>3. DependenciesFinished(t)'
    BY <1>1, <2>2
  <2> QED
    BY <1>2, <2>1, <2>3 DEF DependenciesFinished
<1>3. ASSUME NEW r \in Runtimes, Start(r) \/ CallStep(r) \/ Abort(r) \/ Finish(r),
             NEW q \in Runtimes, pc'[q] \in Depending
      PROVE  DependenciesFinished(session[q].ticket)'
  <2>1. CASE q # r
    <3>1. pc'[q] = pc[q] /\ session'[q] = session[q]
      BY <1>3, <2>1, OthersAreKept DEF OthersKept
    <3> QED
      BY <1>2, <1>3, <3>1
  <2>2. CASE q = r /\ Quiet(r)
    <3>1. pc[r] \in WorkingSteps /\ session'[r].ticket = session[r].ticket
      BY <1>3, <2>2 DEF Quiet
    <3> QED
      BY <1>2, <2>2, <3>1
  <2>3. CASE q = r /\ SelectTicket(r)
    <3>1. PICK t \in Tickets : /\ IsNextReady(board, t)
                               /\ session' = [session EXCEPT ![r].ticket = t]
      BY <2>3, Zenon DEF SelectTicket
    <3>2. session'[r].ticket = t
      BY <3>1 DEF TypeOK, Sessions
    <3>3. UnmetDependencies(board, t) = {}
      BY <3>1 DEF IsNextReady, Eligible, Reason
    <3>4. DependenciesFinished(t)
      BY <3>3 DEF UnmetDependencies, DependenciesFinished
    <3> QED
      BY <1>1, <2>3, <3>2, <3>4 DEF DependenciesFinished
  <2>4. CASE q = r /\ ClaimTicket(r)
    <3>1. pc[r] = "claim" /\ session' = session
      BY <2>4 DEF ClaimTicket
    <3> QED
      BY <1>2, <2>4, <3>1
  <2>5. CASE q = r /\ SetNeedsReview(r)
    <3>1. pc'[r] = "persist"
      BY <2>5 DEF SetNeedsReview, Goto, TypeOK
    <3> QED
      BY <1>3, <2>5, <3>1 DEF WorkingSteps
  <2> QED
    BY <1>3, <2>1, <2>2, <2>3, <2>4, <2>5, QuietOrLoud DEF Loud
<1>4. ASSUME OperatorStep \/ UNCHANGED sessionVars,
             NEW q \in Runtimes, pc'[q] \in Depending
      PROVE  DependenciesFinished(session[q].ticket)'
  <2>1. UNCHANGED <<pc, session>>
    BY <1>4 DEF OperatorStep, Approve, Archive, Reopen, SetStatus, sessionVars
  <2> QED
    BY <1>2, <1>4, <2>1
<1> QED
  BY <1>3, <1>4 DEF Next, DependenciesStayFinished

LEMMA SessionInvariantInit == Init => SessionInvariant
PROOF
BY TypeOKInit
DEF Init, SessionInvariant, ClaimsAreHeld, DependenciesStayFinished,
    VerdictsAreFounded, Working, WorkingSteps

(* In every state of a session the types hold, a working runtime holds the *)
(* claim, its ticket's dependencies are finished, and a verdict that has   *)
(* been reported is still about the evidence the gate was given.           *)
THEOREM SessionInvariance == SessionSafety => []SessionInvariant
PROOF
<1>1. SessionInvariant /\ [Next]_sessionVars => SessionInvariant'
  BY TypeOKStep, ClaimsAreHeldStep, DependenciesStayFinishedStep, VerdictsAreFoundedStep
  DEF SessionInvariant
<1> QED
  BY SessionInvariantInit, <1>1, PTL DEF SessionSafety

(* However many runtimes share the board, two never work on one ticket.    *)
THEOREM Exclusion == SessionSafety => []ExclusiveSessions
PROOF
<1>1. SessionInvariant => ExclusiveSessions
  BY DEF SessionInvariant, ClaimsAreHeld, ExclusiveSessions
<1> QED
  BY <1>1, SessionInvariance, PTL

(* No runtime works on a ticket with an unfinished dependency.             *)
THEOREM DependenciesMet == SessionSafety => []SessionDependenciesMet
PROOF
<1>1. SessionInvariant => SessionDependenciesMet
  BY DEF SessionInvariant, DependenciesStayFinished, SessionDependenciesMet, Working
<1> QED
  BY <1>1, SessionInvariance, PTL

(***************************************************************************)
(* Action properties.                                                      *)
(***************************************************************************)

\* Only the application of a plan writes the workspace.
LEMMA OnlyApplyChangeWrites ==
  ASSUME [Next]_sessionVars, workspace' # workspace
  PROVE  \E r \in Runtimes, p \in Paths : ApplyChange(r, p)
PROOF
<1>1. ASSUME NEW r \in Runtimes, Start(r) \/ CallStep(r) \/ Abort(r) \/ Finish(r)
      PROVE  \E p \in Paths : ApplyChange(r, p)
  BY <1>1
  DEF Start, CallStep, Abort, Finish, NoneReady, SelectTicket, ClaimTicket,
      MuonTicketsFails, Execute, ParsePlan, PlanIsInvalid, SkipChange, ApplyFails,
      PlanApplied, Validate, RejectFailedExecution, EvaluateWriteRequest,
      CommentTicket, SetNeedsReview, PersistOutcome
<1>2. ~OperatorStep
  BY DEF OperatorStep, Approve, Archive, Reopen, SetStatus
<1>3. ~UNCHANGED sessionVars
  BY DEF sessionVars
<1> QED
  BY <1>1, <1>2, <1>3 DEF Next

(* A path changes only for a ticket that the writing runtime has claimed.  *)
THEOREM MutationSafety == SessionSafety => MutationUnderClaim
PROOF
<1>1. SessionInvariant /\ [Next]_sessionVars => [WritesUnderClaim]_sessionVars
  <2> SUFFICES ASSUME SessionInvariant, [Next]_sessionVars,
                      NEW p \in Paths, workspace'[p] # workspace[p]
               PROVE  \E r \in Runtimes :
                        /\ Working(r) /\ session[r].ticket = workspace'[p]
                        /\ board[workspace'[p]] = "claimed"
                        /\ claimant[workspace'[p]] = r
    BY DEF WritesUnderClaim
  <2>1. PICK r \in Runtimes, q \in Paths : ApplyChange(r, q)
    BY OnlyApplyChangeWrites
  <2>2. workspace'[p] = session[r].ticket
    BY <2>1 DEF ApplyChange, SessionInvariant, TypeOK
  <2>3. Working(r)
    BY <2>1 DEF ApplyChange, Working, WorkingSteps
  <2> QED
    BY <2>2, <2>3 DEF SessionInvariant, ClaimsAreHeld
<1> QED
  BY <1>1, SessionInvariance, PTL DEF SessionSafety, MutationUnderClaim

(* A ticket goes to review only by its claimant, after an execution and a  *)
(* validation that succeeded, with a change set the policy lets through.   *)
THEOREM ReviewSafety == SessionSafety => ReviewNeedsEvidence
PROOF
<1>1. SessionInvariant /\ [Next]_sessionVars => [HandsOverEvidence]_sessionVars
  <2> SUFFICES ASSUME SessionInvariant, [Next]_sessionVars, NEW t \in Tickets,
                      board[t] # "needs_review", board'[t] = "needs_review"
               PROVE  \E r \in Runtimes :
                        session[r].ticket = t /\ claimant[t] = r /\ Admissible(r)
    BY DEF HandsOverEvidence
  <2>1. TypeOK
    BY DEF SessionInvariant
  <2>2. ASSUME NEW r \in Runtimes, Start(r) \/ CallStep(r) \/ Abort(r) \/ Finish(r)
        PROVE  SetNeedsReview(r) /\ session[r].ticket = t
    <3>1. ~Quiet(r)
      BY DEF Quiet
    <3>2. ~SelectTicket(r) /\ ~ClaimTicket(r)
      BY <2>1 DEF SelectTicket, ClaimTicket, TypeOK, Boards
    <3>3. SetNeedsReview(r)
      BY <2>1, <2>2, <3>1, <3>2, QuietOrLoud DEF Loud
    <3> QED
      BY <2>1, <3>3 DEF SetNeedsReview, TypeOK, Boards
  <2>3. ~OperatorStep
    BY <2>1 DEF OperatorStep, Approve, Archive, Reopen, SetStatus, TypeOK, Boards
  <2>4. PICK r \in Runtimes : SetNeedsReview(r) /\ session[r].ticket = t
    BY <2>2, <2>3 DEF Next, sessionVars
  <2>5. claimant[t] = r /\ Admissible(r)
    BY <2>4 DEF SetNeedsReview, SessionInvariant, ClaimsAreHeld, VerdictsAreFounded,
                Working, WorkingSteps
  <2> QED
    BY <2>4, <2>5
<1> QED
  BY <1>1, SessionInvariance, PTL DEF SessionSafety, ReviewNeedsEvidence

(***************************************************************************)
(* The refinement of TicketWorkflow.                                       *)
(***************************************************************************)

\* Only a report that was accepted by the board leads to the hand-over.
LEMMA OnlyCommentTicketAdmits ==
  ASSUME TypeOK, NEW r \in Runtimes, Start(r) \/ CallStep(r) \/ Abort(r) \/ Finish(r),
         pc'[r] = "set_status"
  PROVE  CommentTicket(r)
PROOF
<1> USE DEF Goto, TypeOK
<1>1. ~Start(r) /\ ~NoneReady(r) /\ ~SelectTicket(r) /\ ~ClaimTicket(r)
  BY DEF Start, NoneReady, SelectTicket, ClaimTicket
<1>2. ~MuonTicketsFails(r) /\ ~Abort(r) /\ ~Finish(r)
  BY DEF MuonTicketsFails, Abort, Finish
<1>3. ~Execute(r)
  BY DEF Execute
<1>4. ~ParsePlan(r) /\ ~PlanIsInvalid(r) /\ ~ApplyFails(r)
  BY DEF ParsePlan, PlanIsInvalid, ApplyFails, MarkExecutionFailed
<1>5. ~\E p \in Paths : ApplyChange(r, p) \/ SkipChange(r, p)
  BY DEF ApplyChange, SkipChange
<1>6. ~PlanApplied(r) /\ ~Validate(r)
  BY DEF PlanApplied, Validate
<1>7. ~RejectFailedExecution(r) /\ ~EvaluateWriteRequest(r)
  BY DEF RejectFailedExecution, EvaluateWriteRequest
<1>8. ~SetNeedsReview(r) /\ ~PersistOutcome(r)
  BY DEF SetNeedsReview, PersistOutcome
<1> QED
  BY <1>1, <1>2, <1>3, <1>4, <1>5, <1>6, <1>7, <1>8 DEF CallStep

\* The ticket whose change the gate let through is the ticket of one runtime.
LEMMA AdmittedOnce ==
  ASSUME SessionInvariant, NEW r \in Runtimes, Working(r)
  PROVE  /\ session[r].ticket \in Tickets
         /\ board[session[r].ticket] = "claimed"
         /\ \A q \in Runtimes \ {r} : pc[q] = "set_status" =>
              session[q].ticket # session[r].ticket
BY DEF SessionInvariant, TypeOK, ClaimsAreHeld, Working, WorkingSteps, TicketSteps

\* A step changes the admitted tickets by the ticket of its own call at most.
LEMMA AdmittedStep ==
  ASSUME SessionInvariant, NEW r \in Runtimes, OthersKept(r)
  PROVE  /\ pc[r] # "set_status" /\ pc'[r] # "set_status" => Admitted' = Admitted
         /\ pc[r] = "set_status" /\ pc'[r] # "set_status" =>
              Admitted' = Admitted \ {session[r].ticket}
         /\ pc'[r] = "set_status" /\ session'[r] = session[r] =>
              Admitted' = Admitted \cup {session[r].ticket}
PROOF
<1> DEFINE Rest == {session[q].ticket : q \in {p \in Runtimes \ {r} : pc[p] = "set_status"}}
<1>1. Rest' = Rest
  BY DEF OthersKept
<1>2. Admitted = IF pc[r] = "set_status" THEN Rest \cup {session[r].ticket} ELSE Rest
  BY DEF Admitted
<1>3. Admitted' = IF pc'[r] = "set_status" THEN Rest' \cup {session'[r].ticket} ELSE Rest'
  BY DEF Admitted
<1>4. pc[r] = "set_status" => session[r].ticket \notin Rest
  BY AdmittedOnce DEF Working, WorkingSteps
<1> HIDE DEF Rest
<1> QED
  BY <1>1, <1>2, <1>3, <1>4

LEMMA WorkflowInit == Init => Workflow!Init
PROOF
BY DEF Init, Workflow!Init, Admitted

LEMMA WorkflowStep ==
  ASSUME SessionInvariant, [Next]_sessionVars
  PROVE  [Workflow!Next]_Workflow!workflowVars
PROOF
<1>1. TypeOK
  BY DEF SessionInvariant
<1>2. ASSUME NEW r \in Runtimes, Start(r) \/ CallStep(r) \/ Abort(r) \/ Finish(r)
      PROVE  [Workflow!Next]_Workflow!workflowVars
  <2> DEFINE t == session[r].ticket
  <2>1. OthersKept(r)
    BY <1>1, <1>2, OthersAreKept
  <2>2. CASE Quiet(r)
    <3>1. CASE pc[r] # "set_status" /\ pc'[r] # "set_status"
      BY <2>1, <2>2, <3>1, AdmittedStep DEF Quiet, Workflow!workflowVars
    <3>2. CASE pc'[r] = "set_status"
      <4>1. CommentTicket(r)
        BY <1>1, <1>2, <3>2, OnlyCommentTicketAdmits
      <4>2. pc[r] = "comment" /\ session' = session /\ Working(r)
        BY <4>1 DEF CommentTicket, Working, WorkingSteps
      <4>3. Admitted' = Admitted \cup {t}
        BY <2>1, <3>2, <4>2, AdmittedStep
      <4>4. t \in Tickets /\ board[t] = "claimed" /\ t \notin Admitted
        BY <4>2, AdmittedOnce DEF Admitted
      <4>5. Workflow!Admit(t)
        BY <2>2, <4>3, <4>4 DEF Quiet, Workflow!Admit
      <4> QED
        BY <4>4, <4>5 DEF Workflow!Next
    <3>3. CASE pc[r] = "set_status" /\ pc'[r] # "set_status"
      <4>1. Admitted' = Admitted \ {t}
        BY <2>1, <3>3, AdmittedStep
      <4>2. t \in Tickets /\ t \in Admitted
        BY <1>1, <3>3 DEF TypeOK, WorkingSteps, Admitted, TicketSteps
      <4>3. Workflow!Withdraw(t)
        BY <2>2, <4>1, <4>2 DEF Quiet, Workflow!Withdraw
      <4> QED
        BY <4>2, <4>3 DEF Workflow!Next
    <3> QED
      BY <3>1, <3>2, <3>3
  <2>3. CASE SelectTicket(r)
    <3>1. pc[r] # "set_status" /\ pc'[r] # "set_status"
      BY <1>1, <2>3 DEF SelectTicket, Goto, TypeOK
    <3> QED
      BY <2>1, <2>3, <3>1, AdmittedStep DEF SelectTicket, Workflow!workflowVars
  <2>4. CASE ClaimTicket(r)
    <3>1. pc[r] = "claim" /\ pc'[r] # "set_status"
      BY <1>1, <2>4 DEF ClaimTicket, Goto, TypeOK
    <3>2. Admitted' = Admitted
      BY <2>1, <3>1, AdmittedStep
    <3>3. t \in Tickets /\ DependenciesFinished(t)
      BY <1>1, <3>1 DEF TypeOK, SessionInvariant, DependenciesStayFinished, TicketSteps
    <3>4. Workflow!Claim(t, r)
      BY <2>4, <3>2, <3>3
      DEF ClaimTicket, Workflow!Claim, Workflow!FinishedDependencies, DependenciesFinished
    <3> QED
      BY <3>3, <3>4 DEF Workflow!Next
  <2>5. CASE SetNeedsReview(r)
    <3>1. pc[r] = "set_status" /\ pc'[r] # "set_status"
      BY <1>1, <2>5 DEF SetNeedsReview, Goto, TypeOK
    <3>2. Admitted' = Admitted \ {t}
      BY <2>1, <3>1, AdmittedStep
    <3>3. t \in Tickets /\ t \in Admitted
      BY <1>1, <3>1 DEF TypeOK, WorkingSteps, Admitted, TicketSteps
    <3>4. Workflow!HandToReview(t)
      BY <2>5, <3>2, <3>3 DEF SetNeedsReview, Workflow!HandToReview
    <3> QED
      BY <3>3, <3>4 DEF Workflow!Next
  <2> QED
    BY <1>1, <1>2, <2>2, <2>3, <2>4, <2>5, QuietOrLoud DEF Loud
<1>3. ASSUME NEW t \in Tickets, Approve(t) \/ Archive(t) \/ Reopen(t)
      PROVE  [Workflow!Next]_Workflow!workflowVars
  <2>1. Admitted' = Admitted
    BY <1>3 DEF Approve, Archive, Reopen, SetStatus, Admitted
  <2>2. CASE Approve(t)
    BY <2>1, <2>2 DEF Approve, SetStatus, Workflow!Finish, Workflow!Next
  <2>3. CASE Archive(t)
    BY <2>1, <2>3 DEF Archive, SetStatus, Workflow!Archive, Workflow!Next
  <2>4. CASE Reopen(t)
    <3>1. t \notin Admitted
      BY <2>4 DEF Reopen, Admitted, Working, WorkingSteps
    <3> QED
      BY <2>1, <2>4, <3>1 DEF Reopen, SetStatus, Workflow!SendBack, Workflow!Next
  <2> QED
    BY <1>3, <2>2, <2>3, <2>4
<1>4. CASE UNCHANGED sessionVars
  BY <1>4 DEF sessionVars, Admitted, Workflow!workflowVars
<1> QED
  BY <1>2, <1>3, <1>4 DEF Next, OperatorStep

(* Any number of runtimes and operators, with their crashes and failed     *)
(* commands, keep the promises of the ticket workflow.                     *)
THEOREM WorkflowRefinement == SessionSafety => ImplementsWorkflow
PROOF
<1>1. SessionInvariant /\ [Next]_sessionVars => [Workflow!Next]_Workflow!workflowVars
  BY WorkflowStep
<1> QED
  BY WorkflowInit, <1>1, SessionInvariance, PTL
  DEF SessionSafety, ImplementsWorkflow, Workflow!Spec
=============================================================================
