--------------------------- MODULE TurnkeyProject ---------------------------
(***************************************************************************)
(* run_turnkey_project (src/higgs_agent/runtime.py): one project run per   *)
(* runtime, which calls run_autonomous_ticket until a terminal condition,  *)
(* saves a checkpoint after every attempt that does not end the run, and   *)
(* finishes with three separate files.  The process may die at any step    *)
(* and be resumed from its checkpoint.  Every step here is a step of       *)
(* AutonomousTicket or leaves its variables alone.                         *)
(***************************************************************************)
EXTENDS AutonomousTicket, SequencesExt

CONSTANTS
  TicketCaps,      \* values of --max-tickets an operator may pass
  NoCap,           \* --max-tickets is not given
  MaxFailures,     \* --max-consecutive-failures
  MaxResumes,      \* bound on how often a run is resumed
  Torn,            \* a file cut off by a crash during its write
  TornWrites       \* whether crashes may cut the write of a file

ASSUME ProjectAssumption ==
  /\ TicketCaps \subseteq (Nat \ {0}) \cup {NoCap}
  /\ NoCap \notin Nat
  /\ Torn # None
  /\ MaxFailures \in Nat \ {0}
  /\ MaxResumes \in Nat
  /\ TornWrites \in BOOLEAN

VARIABLES
  step,        \* runtime -> where run_turnkey_project is
  ledger,      \* runtime -> the state dictionary in memory
  cap,         \* runtime -> the max_tickets argument of the process
  checkpoint,  \* runtime -> checkpoint.json: None, Torn or a saved ledger
  summary,     \* runtime -> summary.json: None, Torn or a saved ledger
  bundle,      \* runtime -> review-bundle.json: None, Torn or a review bundle
  resumes      \* how often any run was resumed

projectVars == <<step, ledger, cap, checkpoint, summary, bundle, resumes>>
vars        == <<sessionVars, projectVars>>

\* The state dictionary of a new run.
NewLedger ==
  [status |-> "running", terminal |-> "none", retries |-> 0, failures |-> 0,
   attempted |-> << >>, completed |-> << >>]

ProjectInit ==
  /\ Init
  /\ step = [r \in Runtimes |-> "off"]
  /\ ledger = [r \in Runtimes |-> NewLedger]
  /\ cap = [r \in Runtimes |-> NoCap]
  /\ checkpoint = [r \in Runtimes |-> None]
  /\ summary = [r \in Runtimes |-> None]
  /\ bundle = [r \in Runtimes |-> None]
  /\ resumes = 0

Enter(r, s) == step' = [step EXCEPT ![r] = s]

\* _save_project_run_state of the ledger l.
SaveCheckpoint(r, l) == checkpoint' = [checkpoint EXCEPT ![r] = l]

\* Mutant: a verdict loaded from a checkpoint is kept.
ClosedOnce(l, status, terminal) ==
  IF l.terminal = "none" THEN [l EXCEPT !.status = status, !.terminal = terminal] ELSE l

\* _finalize_project_run sets the verdict, then saves three files in turn.
Closed(l, status, terminal) == [l EXCEPT !.status = status, !.terminal = terminal]

\* An attempt record; ticket None stands for "(runtime)".
AttemptRecord(ticket, decision, reason) ==
  [ticket |-> ticket, decision |-> decision, reason |-> reason]

WithAttempt(l, attempt) == [l EXCEPT !.attempted = Append(@, attempt)]

\* A new run; without --resume an existing checkpoint is refused.
StartProject(r) ==
  /\ step[r] = "off"
  /\ checkpoint[r] = None
  /\ \E c \in TicketCaps : cap' = [cap EXCEPT ![r] = c]
  /\ ledger' = [ledger EXCEPT ![r] = NewLedger]
  /\ SaveCheckpoint(r, NewLedger)
  /\ Enter(r, "loop")
  /\ UNCHANGED <<sessionVars, summary, bundle, resumes>>

\* Mutant: a resumed run starts from an empty ledger.
ResumeAfresh(r) ==
  /\ step[r] = "off"
  /\ checkpoint[r] \notin {None, Torn}
  /\ resumes < MaxResumes
  /\ resumes' = resumes + 1
  /\ \E c \in TicketCaps : cap' = [cap EXCEPT ![r] = c]
  /\ ledger' = [ledger EXCEPT ![r] = NewLedger]
  /\ SaveCheckpoint(r, NewLedger)
  /\ Enter(r, "loop")
  /\ UNCHANGED <<sessionVars, summary, bundle>>

\* --resume: _load_project_run_state keeps status, verdict and counters of the
\* checkpoint; max_tickets comes from the arguments of this process.
ResumeProject(r) ==
  /\ step[r] = "off"
  /\ checkpoint[r] \notin {None, Torn}
  /\ resumes < MaxResumes
  /\ resumes' = resumes + 1
  /\ \E c \in TicketCaps : cap' = [cap EXCEPT ![r] = c]
  /\ ledger' = [ledger EXCEPT ![r] = checkpoint[r]]
  /\ SaveCheckpoint(r, checkpoint[r])
  /\ Enter(r, "loop")
  /\ UNCHANGED <<sessionVars, summary, bundle>>

\* Mutant: one attempt too many.
BeyondLimit(r) == cap[r] # NoCap /\ Len(ledger[r].attempted) > cap[r]

\* The check at the top of the loop.
AtLimit(r) == cap[r] # NoCap /\ Len(ledger[r].attempted) >= cap[r]

StopAtLimit(r) ==
  /\ step[r] = "loop"
  /\ AtLimit(r)
  /\ ledger' = [ledger EXCEPT ![r] = Closed(@, "stopped", "max_ticket_limit_reached")]
  /\ Enter(r, "save_checkpoint")
  /\ UNCHANGED <<sessionVars, cap, checkpoint, summary, bundle, resumes>>

CallTicket(r) ==
  /\ step[r] = "loop"
  /\ ~AtLimit(r)
  /\ Start(r)
  /\ Enter(r, "call")
  /\ UNCHANGED <<ledger, cap, checkpoint, summary, bundle, resumes>>

\* A step of the call in progress.
InCall(r) ==
  /\ step[r] = "call"
  /\ CallStep(r)
  /\ UNCHANGED projectVars

\* Mutant: a runtime failure is retried and counted nowhere.
RetrySilently(r) ==
  /\ step[r] = "call"
  /\ pc[r] = "raised"
  /\ Finish(r)
  /\ Enter(r, "loop")
  /\ UNCHANGED <<ledger, checkpoint, cap, summary, bundle, resumes>>

\* The call raised a RuntimeConfigError other than "no ready tickets found".
RecordRuntimeFailure(r) ==
  LET failed == [WithAttempt(ledger[r], AttemptRecord(None, "rejected", "runtime_error"))
                   EXCEPT !.retries = @ + 1, !.failures = @ + 1]
  IN
  /\ step[r] = "call"
  /\ pc[r] = "raised"
  /\ Finish(r)
  /\ SaveCheckpoint(r, failed)
  /\ IF failed.failures >= MaxFailures
     THEN /\ ledger' = [ledger EXCEPT ![r] =
                          Closed(failed, "blocked", "repeated_failures_exceeded")]
          /\ Enter(r, "save_checkpoint")
     ELSE /\ ledger' = [ledger EXCEPT ![r] = failed]
          /\ Enter(r, "loop")
  /\ UNCHANGED <<cap, summary, bundle, resumes>>

\* The call found nothing ready; _determine_no_ready_terminal_condition scans
\* the board again, which may have changed since.
FindNothingReady(r) ==
  /\ step[r] = "call"
  /\ pc[r] = "no_ready"
  /\ Finish(r)
  /\ ledger' = [ledger EXCEPT ![r] =
       IF DependencyBlocked(board) # {}
       THEN Closed(@, "blocked", "blocked_dependency_graph")
       ELSE Closed(@, "succeeded", "no_ready_ticket")]
  /\ Enter(r, "save_checkpoint")
  /\ UNCHANGED <<cap, checkpoint, summary, bundle, resumes>>

ReturnedAttempt(r) ==
  AttemptRecord(session[r].ticket, session[r].decision, session[r].reason)

\* Mutant: consecutive_failures survives an accepted ticket.
RecordAcceptedKeepingFailures(r) ==
  LET accepted == [WithAttempt(ledger[r], ReturnedAttempt(r))
                     EXCEPT !.completed = Append(@, session[r].ticket)]
  IN
  /\ step[r] = "call"
  /\ pc[r] = "returned"
  /\ session[r].decision = "accepted"
  /\ ledger' = [ledger EXCEPT ![r] = accepted]
  /\ SaveCheckpoint(r, accepted)
  /\ Finish(r)
  /\ Enter(r, "loop")
  /\ UNCHANGED <<cap, summary, bundle, resumes>>

\* The outcome is an accepted ticket: the run goes on.
RecordAccepted(r) ==
  LET accepted == [WithAttempt(ledger[r], ReturnedAttempt(r))
                     EXCEPT !.completed = Append(@, session[r].ticket), !.failures = 0]
  IN
  /\ step[r] = "call"
  /\ pc[r] = "returned"
  /\ session[r].decision = "accepted"
  /\ ledger' = [ledger EXCEPT ![r] = accepted]
  /\ SaveCheckpoint(r, accepted)
  /\ Finish(r)
  /\ Enter(r, "loop")
  /\ UNCHANGED <<cap, summary, bundle, resumes>>

\* _terminal_condition_for_outcome
TerminalCondition(decision, reason) ==
  CASE decision = "handoff_required" -> "review_handoff_required"
    [] decision # "handoff_required" /\ reason = "validation_failed" -> "validation_failure"
    [] OTHER -> "ticket_rejected"

\* Mutant: the last attempt is left out of the checkpoint.
RecordStopUnsaved(r) ==
  /\ step[r] = "call"
  /\ pc[r] = "returned"
  /\ session[r].decision # "accepted"
  /\ ledger' = [ledger EXCEPT ![r] =
       Closed(WithAttempt(@, ReturnedAttempt(r)), "blocked",
              TerminalCondition(session[r].decision, session[r].reason))]
  /\ Finish(r)
  /\ Enter(r, "save_summary")
  /\ UNCHANGED <<cap, checkpoint, summary, bundle, resumes>>

\* Mutant: the run hands its rejected ticket back.
RecordStopReleasing(r) ==
  /\ step[r] = "call"
  /\ pc[r] = "returned"
  /\ session[r].decision # "accepted"
  /\ ledger' = [ledger EXCEPT ![r] =
       Closed(WithAttempt(@, ReturnedAttempt(r)), "blocked",
              TerminalCondition(session[r].decision, session[r].reason))]
  /\ Goto(r, "idle")
  /\ session' = [session EXCEPT ![r] = NoSession]
  /\ board' = [board EXCEPT ![session[r].ticket] = "ready"]
  /\ Enter(r, "save_checkpoint")
  /\ UNCHANGED <<claimant, workspace, telemetry, reopens,
                 cap, checkpoint, summary, bundle, resumes>>

\* Any other decision ends the run.
RecordStop(r) ==
  /\ step[r] = "call"
  /\ pc[r] = "returned"
  /\ session[r].decision # "accepted"
  /\ ledger' = [ledger EXCEPT ![r] =
       Closed(WithAttempt(@, ReturnedAttempt(r)), "blocked",
              TerminalCondition(session[r].decision, session[r].reason))]
  /\ Finish(r)
  /\ Enter(r, "save_checkpoint")
  /\ UNCHANGED <<cap, checkpoint, summary, bundle, resumes>>

SaveFinalCheckpoint(r) ==
  /\ step[r] = "save_checkpoint"
  /\ SaveCheckpoint(r, ledger[r])
  /\ Enter(r, "save_summary")
  /\ UNCHANGED <<sessionVars, ledger, cap, summary, bundle, resumes>>

SaveSummary(r) ==
  /\ step[r] = "save_summary"
  /\ summary' = [summary EXCEPT ![r] = ledger[r]]
  /\ Enter(r, "write_bundle")
  /\ UNCHANGED <<sessionVars, ledger, cap, checkpoint, bundle, resumes>>

\* Mutant: a ticket handed off for review is not listed as blocked.
ReviewBundleOfRejections(l) ==
  LET completed == ToSet(l.completed)
      attempts  == {a \in ToSet(l.attempted) : a.ticket # None}
  IN  [status |-> l.status, terminal |-> l.terminal, attempted |-> l.attempted,
       completed |-> completed,
       blocked   |-> {a.ticket : a \in {b \in attempts : b.decision = "rejected"}}
                       \cup (DependencyBlocked(board) \ completed),
       untouched |-> (Indexed(board) \ completed) \ {a.ticket : a \in attempts}]

\* _write_project_review_bundle of the ledger l, with a fresh scan.
ReviewBundle(l) ==
  LET completed == ToSet(l.completed)
      attempts  == {a \in ToSet(l.attempted) : a.ticket # None}
  IN  [status |-> l.status, terminal |-> l.terminal, attempted |-> l.attempted,
       completed |-> completed,
       blocked   |-> {a.ticket : a \in {b \in attempts : b.decision # "accepted"}}
                       \cup (DependencyBlocked(board) \ completed),
       untouched |-> (Indexed(board) \ completed) \ {a.ticket : a \in attempts}]

WriteBundle(r) ==
  /\ step[r] = "write_bundle"
  /\ bundle' = [bundle EXCEPT ![r] = ReviewBundle(ledger[r])]
  /\ Enter(r, "off")
  /\ ledger' = [ledger EXCEPT ![r] = NewLedger]
  /\ UNCHANGED <<sessionVars, cap, checkpoint, summary, resumes>>

\* Mutant: the run ends while its call is still going.
AbortDetached(r) ==
  /\ step[r] # "off"
  /\ ledger' = [ledger EXCEPT ![r] = NewLedger]
  /\ Enter(r, "off")
  /\ UNCHANGED <<sessionVars, cap, checkpoint, summary, bundle, resumes>>

\* write_text truncates a file before it writes it, so a process that dies
\* during the write of one of its files leaves that one cut off.
TearCheckpoint(r) ==
  /\ \/ step[r] = "save_checkpoint"
     \/ pc[r] = "raised"
     \/ pc[r] = "returned" /\ session[r].decision = "accepted"
  /\ SaveCheckpoint(r, Torn)
  /\ UNCHANGED <<summary, bundle>>

TearSummary(r) ==
  /\ step[r] = "save_summary"
  /\ summary' = [summary EXCEPT ![r] = Torn]
  /\ UNCHANGED <<checkpoint, bundle>>

TearBundle(r) ==
  /\ step[r] = "write_bundle"
  /\ bundle' = [bundle EXCEPT ![r] = Torn]
  /\ UNCHANGED <<checkpoint, summary>>

\* The process dies, inside the call or outside it.
AbortProject(r) ==
  /\ step[r] # "off"
  /\ IF pc[r] = "idle" THEN UNCHANGED sessionVars ELSE Abort(r)
  /\ ledger' = [ledger EXCEPT ![r] = NewLedger]
  /\ Enter(r, "off")
  /\ UNCHANGED <<cap, resumes>>
  /\ \/ UNCHANGED <<checkpoint, summary, bundle>>
     \/ TornWrites /\ (TearCheckpoint(r) \/ TearSummary(r) \/ TearBundle(r))

\* The process dies while it saves the checkpoint of a new or a resumed run.
TearFirstSave(r) ==
  /\ TornWrites
  /\ step[r] = "off"
  /\ checkpoint[r] = None \/ (checkpoint[r] # Torn /\ resumes < MaxResumes)
  /\ checkpoint' = [checkpoint EXCEPT ![r] = Torn]
  /\ UNCHANGED <<sessionVars, step, ledger, cap, summary, bundle, resumes>>

ProjectStep(r) ==
  \/ StopAtLimit(r) \/ CallTicket(r) \/ InCall(r)
  \/ RecordRuntimeFailure(r) \/ FindNothingReady(r)
  \/ RecordAccepted(r) \/ RecordStop(r)
  \/ SaveFinalCheckpoint(r) \/ SaveSummary(r) \/ WriteBundle(r)

ProjectNext ==
  \/ \E r \in Runtimes :
       \/ StartProject(r) \/ ResumeProject(r) \/ TearFirstSave(r)
       \/ ProjectStep(r) \/ AbortProject(r)
  \/ OperatorStep /\ UNCHANGED projectVars

\* A process that runs keeps running until it ends or dies; nobody has to start,
\* resume or review anything.
ProjectSafety == ProjectInit /\ [][ProjectNext]_vars
ProjectSpec   == ProjectSafety /\ \A r \in Runtimes : WF_vars(ProjectStep(r))

(***************************************************************************)
(* Properties.                                                             *)
(***************************************************************************)

RunStatuses    == {"running", "succeeded", "blocked", "stopped"}
TerminalConditions ==
  {"none", "max_ticket_limit_reached", "repeated_failures_exceeded",
   "blocked_dependency_graph", "no_ready_ticket", "review_handoff_required",
   "validation_failure", "ticket_rejected"}
AttemptRecords == [ticket : Tickets \cup {None}, decision : Decisions \cup {"none"},
                   reason : SessionReasons \cup {"runtime_error"}]
Ledgers        == [status : RunStatuses, terminal : TerminalConditions,
                   retries : Nat, failures : Nat,
                   attempted : Seq(AttemptRecords), completed : Seq(Tickets)]

\* A file that is missing or cut off is no ledger.
ASSUME FilesAssumption == None \notin Ledgers /\ Torn \notin Ledgers

Bundles        == [status : RunStatuses, terminal : TerminalConditions,
                   attempted : Seq(AttemptRecords), completed : SUBSET Tickets,
                   blocked : SUBSET Tickets, untouched : SUBSET Tickets]
ProjectSteps   == {"off", "loop", "call", "save_checkpoint", "save_summary", "write_bundle"}

(* The files and the memory of every run have the shape run_turnkey_project*)
(* gives them, and a call is in progress exactly while the run waits for it.*)
ProjectTypeOK ==
  /\ step \in [Runtimes -> ProjectSteps]
  /\ ledger \in [Runtimes -> Ledgers]
  /\ cap \in [Runtimes -> TicketCaps \cup {NoCap}]
  /\ checkpoint \in [Runtimes -> Ledgers \cup {None, Torn}]
  /\ summary \in [Runtimes -> Ledgers \cup {None, Torn}]
  /\ bundle \in [Runtimes -> Bundles \cup {None, Torn}]
  /\ resumes \in 0 .. MaxResumes
  /\ \A r \in Runtimes : step[r] = "call" <=> pc[r] # "idle"

Saved(file) == file \notin {None, Torn}

(* A checkpoint never runs ahead of the board: a ticket it lists as        *)
(* completed has been handed to review, whatever died in between (mt       *)
(* set-status comes before the checkpoint), unless an operator sent it back.*)
CompletedWereReviewed ==
  \A r \in Runtimes : Saved(checkpoint[r]) /\ reopens = 0 =>
    \A t \in ToSet(checkpoint[r].completed) : board[t] \in {"needs_review", "done", "absent"}

\* Each ticket attempt of run r in the list has its summary in the log.
Logged(r, attempts, log) ==
  \A a \in ToSet(attempts) : a.ticket # None =>
    \E s \in log : /\ s.runtime = r /\ s.ticket = a.ticket
                   /\ s.decision = a.decision /\ s.reason = a.reason

(* Every ticket attempt a checkpoint records has its attempt summary and   *)
(* event file on disk with the same verdict, across crashes and resumes.   *)
AttemptsHaveTelemetry ==
  \A r \in Runtimes : Saved(checkpoint[r]) => Logged(r, checkpoint[r].attempted, telemetry)

\* Why it is inductive: the attempts in memory have theirs too, and a call
\* that has returned has persisted its outcome.
TelemetryInvariant ==
  \A r \in Runtimes :
    /\ Saved(checkpoint[r]) => Logged(r, checkpoint[r].attempted, telemetry)
    /\ Logged(r, ledger[r].attempted, telemetry)
    /\ pc[r] = "returned" => AttemptSummary(r) \in telemetry

\* If both files parse, the later one knows of no attempt the earlier does not.
NeverAhead(later, earlier) ==
  Saved(later) /\ Saved(earlier) => IsPrefix(later.attempted, earlier.attempted)

(* The three final files are written one after the other, so a crash can   *)
(* leave an older or a cut off summary or bundle behind. Of those that     *)
(* parse, none knows of an attempt a file written before it does not; and  *)
(* there is no bundle without a summary.                                   *)
FilesNeverRunAhead ==
  \A r \in Runtimes :
    /\ NeverAhead(summary[r], checkpoint[r])
    /\ NeverAhead(bundle[r], checkpoint[r])
    /\ NeverAhead(bundle[r], summary[r])
    /\ bundle[r] # None => summary[r] # None

(* What is durable stays: a later checkpoint of a run extends the attempts *)
(* and the completions of the earlier ones, also when the run is resumed.  *)
CheckpointsOnlyGrow ==
  [][\A r \in Runtimes : Saved(checkpoint[r]) /\ Saved(checkpoint'[r]) =>
       /\ IsPrefix(checkpoint[r].attempted, checkpoint'[r].attempted)
       /\ IsPrefix(checkpoint[r].completed, checkpoint'[r].completed)]_vars

\* The attempts after the last accepted one.
SinceAccepted(attempts) ==
  {i \in DOMAIN attempts : \A j \in i .. Len(attempts) : attempts[j].decision # "accepted"}

RuntimeFailures(attempts, places) == {i \in places : attempts[i].ticket = None}

(* The counters that bound retries count what the attempt list shows:      *)
(* retry_count every runtime failure, consecutive_failures those since the *)
(* last accepted ticket, in memory and on disk, across resumes.            *)
FailuresAreCounted ==
  \A r \in Runtimes : \A l \in {ledger[r], checkpoint[r]} : Saved(l) =>
    /\ l.retries = Cardinality(RuntimeFailures(l.attempted, DOMAIN l.attempted))
    /\ l.failures = Cardinality(RuntimeFailures(l.attempted, SinceAccepted(l.attempted)))

(* A process never records an attempt beyond the limit it was given, also  *)
(* when it resumes a run that was stopped at a smaller or by no limit:     *)
(* runtime failures count, and so do the attempts of earlier processes.    *)
AttemptsAreBounded ==
  [][\A r \in Runtimes :
       Saved(checkpoint[r]) /\ Saved(checkpoint'[r]) /\ cap[r] # NoCap =>
         \/ checkpoint'[r].attempted = checkpoint[r].attempted
         \/ Len(checkpoint'[r].attempted) <= cap[r]]_vars

(* One run never works twice on a ticket nobody sent back: the claim that  *)
(* an attempt leaves on the board keeps it out of every later scan, after  *)
(* a rejection, a crash and a resume alike.                                *)
NoTicketIsRetried ==
  \A r \in Runtimes : Saved(checkpoint[r]) =>
    \A t \in Tickets :
      Cardinality({i \in DOMAIN checkpoint[r].attempted :
                     checkpoint[r].attempted[i].ticket = t}) <= 1 + reopens

LastAttempt(l) == l.attempted[Len(l.attempted)]

(* The verdict in a summary is the one its last attempt calls for, whatever*)
(* verdict the checkpoint of a resumed run still carried.                  *)
SummaryIsExplained ==
  \A r \in Runtimes : Saved(summary[r]) =>
    LET l == summary[r] IN
    /\ l.terminal \in {"review_handoff_required", "validation_failure", "ticket_rejected"} =>
         /\ l.status = "blocked"
         /\ LastAttempt(l).ticket # None
         /\ l.terminal = TerminalCondition(LastAttempt(l).decision, LastAttempt(l).reason)
         /\ LastAttempt(l).decision # "accepted"
    /\ l.terminal = "repeated_failures_exceeded" =>
         l.status = "blocked" /\ LastAttempt(l).ticket = None /\ l.failures >= MaxFailures
    /\ l.status = "succeeded" <=> l.terminal = "no_ready_ticket"
    /\ l.status = "stopped" <=> l.terminal = "max_ticket_limit_reached"

(* A review bundle, made from the attempts of the run and a fresh scan,    *)
(* puts every ticket of the board and every attempted one somewhere, and   *)
(* none under both completed and blocked unless operators sent one back.   *)
BundleCoversBoard ==
  [][\A r \in Runtimes : bundle'[r] # bundle[r] /\ Saved(bundle'[r]) =>
       LET b == bundle'[r] IN
       /\ Indexed(board) \subseteq b.completed \cup b.blocked \cup b.untouched
       /\ reopens = 0 => b.completed \cap b.blocked = {}
       /\ \A a \in ToSet(b.attempted) : a.ticket # None =>
            a.ticket \in b.completed \cup b.blocked]_vars

(* Every run that is started or resumed ends: attempts are finite because  *)
(* each one claims a ticket or counts as a failure.                        *)
RunsEnd == \A r \in Runtimes : step[r] = "loop" ~> step[r] = "off"

(* phase-7-turnkey-project-build.md: interrupted runs can resume without   *)
(* losing workflow state.  A session that died after its claim is in no    *)
(* checkpoint, and the resumed run succeeds without it.                    *)
InterruptedWorkIsKept ==
  \A r \in Runtimes : step[r] = "off" /\ Saved(summary[r]) =>
    (summary[r].status = "succeeded" =>
       \A t \in Tickets : board[t] = "claimed" /\ claimant[t] = r =>
         \E a \in ToSet(summary[r].attempted) : a.ticket = t)
=============================================================================
