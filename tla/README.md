# TLA+ verification of HiggsAgent

HiggsAgent dispatches tickets of a repository to language models, writes what they
propose into the working copy, validates it, passes it through a write gate and hands
the ticket to review through the MuonTickets command line (`mt`). This directory holds
TLA+ modules translated from `src/src/higgs_agent/`, TLC configurations that check them
on small instances, and TLAPS proofs of the results that matter most for every instance.

File names below without a directory are relative to `src/src/higgs_agent/`.

## The system

| Component | State it keeps | Operations | Talks to |
|---|---|---|---|
| Ticket scanner (`tickets/scanner.py`) | none; reads `tickets/T-*.md` | scan, evaluate, select next ready | the board, kept by MuonTickets |
| Autonomous session (`runtime.py`, `run_autonomous_ticket`) | locals of one call | scan, claim, execute, parse and apply a plan, validate, gate, comment, set-status, persist | board (`mt` subprocess), workspace, executor, gate, telemetry files |
| Turnkey project run (`runtime.py`, `run_turnkey_project`) | state dictionary; `checkpoint.json`, `summary.json`, `review-bundle.json` | start, resume, loop, record attempt, finalize | the session, the scanner |
| Write gate (`validation/write_gate.py`) | none | evaluate a write request | policy file |
| Classifier and routing (`routing/`) | none | classify a ticket, choose a route | guardrail file |
| Hosted executor (`providers/hosted/openrouter.py`) | retry count, event stream | request, retry, guardrails, tool calls | provider over HTTP, tool invoker |
| Local executor (`providers/local/stub.py`) | event stream | one generate call | local transport |
| Dispatcher (`application/dispatcher.py`) | result being built | dispatch, fall back to hosted, merge, decide | scanner, routing, executors, gate |
| Ticketed run (`runtime.py`, `run_ticketed_project`) | none | one dispatch, then persist; claims nothing | dispatcher, telemetry files |
| Plan materialization (`runtime.py`, `_parse_autonomous_plan`, `_apply_autonomous_plan`) | the change set, file events | parse, make directories, write, patch, skip, fail | the working copy |
| Local telemetry (`runtime.py`, `persist_dispatch_outcome`) | `.higgs/local/runs/*`, `attempt-summaries.ndjson` | write artifacts and events, append a summary | all processes of a repository share the log |
| Analytics (`analytics/reporting.py`) | none; reads the log and the tickets | load, filter, group, aggregate | the log of attempt summaries |
| Adaptive scoring (`adaptive/`) | none; reads the log or a report | build a snapshot, score, rank | analytics, routing; not yet called by the dispatcher |
| Benchmarking (`benchmarking/`) | results of one benchmark | load a manifest, run candidates, rank | the executors |
| Bootstrap, command line | none | copy files, parse arguments | everything above |

No component runs threads. What is hard comes from outside one process: several
processes on one board and one working copy, processes that die between two effects,
`mt` commands that fail, operators who move tickets at any time, providers that time out
or misreport, and runs that are resumed from files written at different moments.

What makes the components correct:

- a ticket is worked on by one runtime at a time, only with finished dependencies, and
  nothing is written for a ticket that is not claimed by the writer;
- a ticket goes to review only with a verdict that is about what was really changed;
- checkpoint, summary, bundle and telemetry agree, whatever died in between, and a run
  ends;
- retries, tool calls and costs stay within their limits, and event streams and retry
  counts tell what happened;
- the change set the gate judges is the difference a plan made to the texts, whatever it
  repeated or skipped, and its line counts are never too small;
- a line in the telemetry log has its files on disk, and a report misses no attempt that
  came back and counts none twice;
- a snapshot says the same of a route whatever it is made from, the ranking of routes and
  benchmark candidates follows the evidence and the published policy;
- a route suits the ticket and its ceiling also when it is a fallback, and a local
  ticket stays local.

`PROJECT.json` lists the hazards behind these properties, each at its line.

## The modules

| Module | Models | Builds on |
|---|---|---|
| `TicketBoard` | `tickets/scanner.py` as operators on a board | |
| `WriteGate` | `evaluate_write_request` as an operator | |
| `TicketWorkflow` | what users of the board are promised: the abstract specification | `TicketBoard` |
| `AutonomousTicket` | one `run_autonomous_ticket` call per runtime, with operators and crashes | `TicketBoard`, `WriteGate`, instance of `TicketWorkflow` |
| `TurnkeyProject` | one `run_turnkey_project` per runtime, around those calls | `AutonomousTicket` |
| `Routing` | `classify_ticket` and `choose_route` as operators | |
| `ProviderExecutor` | `OpenRouterExecutor.execute` | |
| `HybridDispatch` | `dispatch_next_ready_ticket` after its scan, local and hosted execution, fallback, gate | `ProviderExecutor`, `Routing`, `WriteGate` |
| `ChangeSet` | what the gate, the session and the reviewers are promised about a plan: an abstract specification | |
| `Materialization` | a response parsed and applied to a workspace, entry by entry | instance of `ChangeSet` |
| `LocalTelemetry` | `persist_dispatch_outcome` as its writes, by several processes, and `load_attempt_summaries` | |
| `AttemptAnalytics` | filters, groups and aggregates over the log, as operators | |
| `AdaptiveDispatch` | snapshots from the log or from a report, scores and the selection, as the log grows and time passes | `AttemptAnalytics`, `Routing` |
| `Benchmark` | manifest, harness and ranked report of one benchmark | |
| `AutonomousTicket_proofs`, `TurnkeyProject_proofs`, `HybridDispatch_proofs` (also of `ProviderExecutor`), `Materialization_proofs`, `LocalTelemetry_proofs`, `AdaptiveDispatch_proofs`, `Benchmark_proofs` | theorems and proofs | the component, TLAPS |
| `CollectionTheorems` | lemmas on least elements, sorts, sums, largest values | TLAPS |
| `MC...` | values of the constants for TLC | the component |

How state and actions correspond to the code:

- **TicketBoard.** A board maps ticket ids to statuses. `absent` is an id that
  `scan_ticket_directory` has no record of: archived, malformed or a duplicate.
  `Reason` is `_evaluate_ticket`, with the first unmet dependency of the list deciding;
  `IsNextReady` is the sort by priority and id. A finished dependency that is archived is
  a `missing_dependency` for its dependents, in the model as in the code.
- **WriteGate.** A write request is a function from changed paths to line deltas; what
  `fnmatch` answers is given by sets of paths. `Evaluate` keeps the early returns, the
  seven diagnostics in order, the review switches and the order of reasons.
- **AutonomousTicket.** `pc[r]` is the next effect of runtime `r`, `session[r]` the
  locals of its call. Every action is one external effect: a scan of the board, an `mt`
  command, the execution, one file of the plan, the validation commands, the gate,
  persistence. The scan chooses a ticket on the board it sees; `ClaimTicket` acts on
  the board as it is later. `MuonTicketsFails` is a non-zero exit of `mt`
  (`RuntimeConfigError`); `Abort` is a crash, or any other exception, which
  `run_turnkey_project` does not catch either. `_mark_execution_failed` only follows
  a plan that does not parse or whose patches changed nothing, since the parser has
  already checked every path. Which fuzzy match succeeds is the choice between
  `ApplyChange` and `SkipChange`.
- **TurnkeyProject.** `ledger[r]` is the state dictionary, `checkpoint`, `summary` and
  `bundle` are the three files. Calls are `InCall` steps of `AutonomousTicket`; what comes
  back is recorded by `RecordAccepted`, `RecordStop`, `RecordRuntimeFailure` or
  `FindNothingReady`. Finalizing is three steps, one per file. `write_text` truncates before
  it writes, so when `TornWrites` is set `AbortProject` may leave a `Torn` file of the three
  (`TearCheckpoint`, `TearSummary`, `TearBundle`), and `TearFirstSave` a torn checkpoint of
  a run that has just been started or resumed. A torn summary may so lie beside the whole
  bundle of an earlier process. `ResumeProject` keeps the status and counters of the
  checkpoint and takes the limit from the new arguments, as the code does.
- **ProviderExecutor.** One step per request, answer, guardrail check, tool call and
  result. Usage is unreported, at its limit or over it. Events are types and statuses.
  A body that is JSON but no object is `ParsingRaises`: `_parse_usage` calls `get` on it
  (`providers/hosted/openrouter.py:549`), and `execute` does not catch the error.
- **HybridDispatch.** `phase` is where the dispatcher is. A hosted execution is
  `ProviderExecutor!Next` step by step, a local one is a single step, because nothing
  can be observed in between. `stream` is the merged stream, each event tagged with its
  attempt. The dispatcher starts with the ticket it selected; the scan itself is in
  `TicketBoard`. `Routing` keeps the policy's first fit: the candidates in their order,
  with the dearest moved to the front for a complex ticket (`PromoteDepth`), and the first
  that passes the tool and cost filters. The executor is chosen by the provider of the
  route (`application/dispatcher.py:149`), and a guardrail file may give any profile any
  provider. `TargetIsHonoured` says in either direction what it needs of the file: local
  tickets stay local where the local profile's provider is local, hosted and tool-using
  ones stay hosted where no hosted profile's is. Without that a hosted ticket is executed
  locally.
- **Materialization.** One step per entry of the plan. A name is a path as the response
  spells it, `Target` the path it means: `_normalize_repo_relative_path` drops a leading
  repository directory, after duplicates were looked for by name. A text is a sequence of
  words of one length and of line feeds, as `read_text` returns it; a file with CRLF line
  ends shows them as line feeds, and has line feeds once it was written (`ends`). Line
  counts are those of `splitlines`, in which a final line feed makes no difference. An exact
  patch needs one match or the whole file, one final line feed aside; a fuzzy one may settle
  on any window whose text occurs once, or on none. A patch that repeats an earlier one
  stays in the plan and is passed over where the code has dropped it before.
  `FileSystemFails` is an `OSError` or a `UnicodeDecodeError`, which no caller catches; in
  `FailWhileWriting` the file was truncated before and has some beginning of the new text.
  In `AutonomousTicket` the same plan is a set of changed paths.
- **LocalTelemetry.** `todo` and `refs` are the locals of a call, `files`, `events` and
  `log` what is on disk. The log is a sequence of pieces, each what one `write` left: a
  line, both halves of one longer than the buffer, or what a crash left of one. A line of
  a report ends at a line feed, so a piece without one is glued to its successor. The
  first half of an autonomous run is `AutonomousTicket`, whose `PersistOutcome` is refined
  here; the first half of a ticketed run is `HybridDispatch`.
- **AttemptAnalytics, AdaptiveDispatch.** `log` and `now` are the state; reports and
  snapshots are functions of them. Money and time are whole numbers, an average is a sum
  and a count, scores are in parts of ten thousand.
- **Benchmark.** `stage` follows manifest, harness and report. A call of an executor is
  one step with any of its outcomes; `RefusesTools` and `IsPaired` are the early checks of
  the two executors, and a hosted one may raise on any response (`ExecutorRaises`). Metrics
  and qualities are `Unknown` or any whole numbers: the code does not keep them away from
  -1 and 999999999, which stand for missing ones in its sort key.

**External parts**, modelled from how the code uses them: MuonTickets (a claim succeeds
only for a ready ticket and takes it at once; a failing command changes nothing;
`set-status needs_review` succeeds only for a claimed ticket), operators (approve,
archive, send back; they send a claimed ticket back only when no call works on it), the
provider (anything a response may be), the validation commands (pass or fail; they do
not write files the plan wrote).

## What the runs check

| Run | Instance | Question |
|---|---|---|
| `Session` | 2 runtimes, 2 tickets, 2 paths, 3 boards, 1 reopen, symmetric runtimes; 2.6 M states | `SessionInvariant`, `ExclusiveSessions`, `MutationUnderClaim`, `ReviewNeedsEvidence`, `ImplementsWorkflow` |
| `Project` | 1 run, 2 tickets, limit 1 or none, 2 failures, 1 resume, 1 reopen, torn checkpoints, summaries and bundles, fairness; 0.6 M | `ProjectTypeOK`, `AttemptsHaveTelemetry`, `FilesNeverRunAhead`, `FailuresAreCounted`, `AttemptsAreBounded`, `SummaryIsExplained`, `CheckpointsOnlyGrow`, `BundleCoversBoard`, `RunsEnd` |
| `ProjectPair` | 2 runs, 2 tickets, 1 resume; 0.8 M | `CompletedWereReviewed`, `NoTicketIsRetried`, and that project runs implement `SessionSafety` |
| `Executor` | `max_attempts` 0, 1, 3, 2 tool calls, all inputs; 4 k | `RetriesFollowTheErrorKind`, `ToolsStayWithinBudget`, `RequestsAreAnswered`, `CompletionComesLast`, `ExecutionsReturn` |
| `Dispatch` | all kinds of tickets a rule tells apart, 3 ceilings, 2 configurations whose profiles have the other kind's provider, with and without a local runtime; 0.2 M | `TargetIsHonoured`, `RoutesFitTheTicket`, `FallbackIsBounded`, `VerdictIsOnTheLastAttempt`, `DispatchesEnd` |
| `Materialize` | 3 files of which one has two names, and a directory; 10 workspaces, with CRLF, binary and unterminated files, all plans of up to 2 of 8 writes, 2 of 8 patches and 2 directories, torn writes; 1.4 M | `DiffIsReported`, `DeltasBoundTheDiff`, `ImplementsChangeSet` |
| `Adaptive` | 3 routes and a blocked one, 3 kinds of tickets, logs of up to 3 of 10 attempts, 3 dates; 16 k | `SourcesAgree`, `FiltersPickGroups`, `StaleIsForgotten`, `EvidenceMovesTheRanking` |
| `Benchmark` | 4 manifests, 15 candidate lists of up to 3, with and without tools, outcomes and qualities that are missing, ordinary or equal to a stand-in; 50 k | `RankingFollowsThePolicy`, `ToollessBenchmarksComplete` |
| `Telemetry` | 2 ticketed runs and an autonomous one, crashes in and between all writes; 1.0 M | `SummariesAreBacked`, `ReportsAreComplete`, `ReportsOnlyGrow` |

Why these bounds are enough. Two runtimes are needed for a race and a third adds only
another loser. Two tickets, one depending on the other, with boards on which the dependency
is open, done or archived, give every reason of the scanner, and let a run go on after a
ticket it completed. One path inside and one outside the policy give every verdict the
session can get. Two failures are one that is retried and one that ends the run; one resume
already carries counters, verdict and limits over, and one reopen makes the same ticket be
worked on twice. Three attempts have a first, a middle and a last one. Two entries of a plan
are what can meet on one path, under one name, two names, or as write and patch; texts of up
to four lines have matches that are exact, ambiguous, fuzzy and absent. `difflib` may find
fewer common lines than the longest common subsequence `CommonLines` takes, which
`LineDiffs` leaves open. Three attempts are two on one route, whose averages can then be
partial, and one on a route that is compared with it. Two candidates can tie and a third
separates them. Of three processes two can interleave their halves of a line while a third
appends. Every passing run names a mutant for each of its properties in `PROJECT.json`: a
change of a modelled definition of the kind a plausible bug would make, under which TLC
finds the property violated.

`CHECK_DEADLOCK FALSE` is set where the program really ends: a project run whose resumes
are used up, an execution, a dispatch or a benchmark that has returned, a plan that was
applied; and where a bound ends a log (`Adaptive`, `Telemetry`).

**Symmetry** is used for runtimes in `Session` and `ProjectPair`, which check no
liveness; no operator names a runtime.

**Fairness.** `ProjectSpec` asks that a process that runs takes its next step
(`WF_vars(ProjectStep(r))`): the code is straight-line Python whose subprocesses and
requests end, and a process that does not go on has died (`AbortProject`, which is never
forced). Nobody has to start, resume, review or reopen anything. `ExecutorSpec` and
`DispatchSpec` ask the same of their single process; `urlopen` is called with a timeout.

## Where the code and the documents disagree

The first three are runs that expect a violation, with the trace as evidence; the others
were read in the code while modelling, and the model does what the code does.

| Run | Document | Code |
|---|---|---|
| `VInterruptedWorkIsKept` | phase-7-turnkey-project-build.md:96, resume without losing workflow state | a session that died after its claim is in no checkpoint; the resumed run reports success |
| `VCompletedOnce` | observability-contract.md:66, `execution.completed` exactly once | emitted by `_handle_tool_calls` and again by `_failed_result` |
| `VUnknownMetricsAreMarked` | phase-4-adaptive-dispatch.md:54, precise metrics are told from unavailable ones | a report counts a missing latency as 0 and the snapshot made from it averages over all attempts (`adaptive/telemetry.py:219`) |
| | phase-6-autonomous-ticket-execution.md:105, the actual changed-file set is inferred | a CRLF file rewritten with the text it has changes all its line ends and compares equal (`runtime.py:1236-1239`) |
| | operators/hybrid-execution.md:32, a hosted ticket always uses hosted routing | the provider of the profile decides the executor, and any profile may have provider `local` (`application/dispatcher.py:149`) |
| | operators/benchmarking.md:71, ties mean equivalent visible inputs | a quality of -1 ties with none, a cost of 999999999 with an unreported one (`benchmarking/reporting.py:271-284`) |
| | safety-model.md:36, read-only until the gate passes | the plan is applied, then validated, then the gate is asked (`runtime.py:602-637`) |
| | phase-7-turnkey-project-build.md:55, terminal and resumable can be told apart | a resumed run saves and keeps the terminal verdict of the earlier one while it works |
| | operators/hybrid-execution.md:85, fallback metadata only when it occurred | also set when the fallback route is blocked (`application/dispatcher.py:184`) |
| | observability-contract.md:11, one summary per attempt | a fallback replaces the summary of the local attempt |
| | contributors/benchmarking.md:59, incompatible candidates are rejected before execution | a local candidate of a workload with tools is accepted and raises (`benchmarking/harness.py:106`, `providers/local/stub.py:103`) |
| | operators/turnkey-project.md:90, `ticket_rejected` means the write gate rejected it | it also ends runs whose attempt never reached the gate |
| | phase-7-turnkey-project-build.md:61, the bundle shows what is untouched | so is listed a ticket that was claimed and written for, but whose `mt` report failed |
| | autonomous-coding-session-contract.md:172 | a failed validation leaves `final_result` at `succeeded` in the attempt summary |
| | phase-7-turnkey-project-build.md:53 | a checkpoint cut off by a crash can neither be resumed nor replaced by a new run |

Two consequences no document speaks about: one torn line in `attempt-summaries.ndjson`
makes every later report fail until someone repairs the file, and an `OSError` while a
plan is applied leaves the files written so far, and one that may be cut off, in no change
set (`Break` of `ChangeSet`).

## What is proved

TLAPS checks every step of the eight modules with theorems, for any sets of tickets,
paths, runtimes, runs, routes and candidates, any dependency lists, policies, plans, logs
and bounds. Every invariant and every action property a passing run checks is a theorem,
except `EvidenceMovesTheRanking`.

| Theorem | States |
|---|---|
| **`AutonomousTicket_proofs`** | |
| `TypeSafety` | `SessionSafety => []TypeOK` |
| `SessionInvariance` | `SessionSafety => []SessionInvariant` |
| `Exclusion` | `SessionSafety => []ExclusiveSessions` |
| `DependenciesMet` | `SessionSafety => []SessionDependenciesMet` |
| `MutationSafety` | `SessionSafety => MutationUnderClaim` |
| `ReviewSafety` | `SessionSafety => ReviewNeedsEvidence` |
| `WorkflowRefinement` | `SessionSafety => ImplementsWorkflow` |
| **`TurnkeyProject_proofs`** | |
| `ProjectRefinement` | `ProjectSafety => SessionSafety` |
| `ProjectWorkflow` | `ProjectSafety => ImplementsWorkflow` |
| `ProjectTypeSafety` | `ProjectSafety => []ProjectTypeOK` |
| `TelemetrySafety` | `ProjectSafety => []AttemptsHaveTelemetry` |
| `FilesSafety` | `ProjectSafety => []FilesNeverRunAhead` |
| `CheckpointSafety` | `ProjectSafety => CheckpointsOnlyGrow` |
| `LimitSafety` | `ProjectSafety => AttemptsAreBounded` |
| `SummarySafety` | `ProjectSafety => []SummaryIsExplained` |
| `CounterSafety` | `ProjectSafety => []FailuresAreCounted` |
| `RetrySafety` | `ProjectSafety => []NoTicketIsRetried` |
| `CompletionsAreReviewed` | `ProjectSafety => []CompletedWereReviewed` |
| `BundleSafety` | `ProjectSafety => BundleCoversBoard` |
| **`HybridDispatch_proofs`** | |
| `ExecutorSafety` | `ExecutorSpec => []ExecutorInvariant` |
| `RetriesSafety` | `ExecutorSpec => []RetriesFollowTheErrorKind` |
| `ToolSafety` | `ExecutorSpec => []ToolsStayWithinBudget` |
| `AnswerSafety` | `ExecutorSpec => []RequestsAreAnswered` |
| `CompletionSafety` | `ExecutorSpec => []CompletionComesLast` |
| `DispatchTypes` | `DispatchSpec => []DispatchTypeOK` |
| `TargetSafety` | `DispatchSpec => []TargetIsHonoured` |
| `RouteSafety` | `DispatchSpec => []RoutesFitTheTicket` |
| `FallbackSafety` | `DispatchSpec => []FallbackIsBounded` |
| `VerdictSafety` | `DispatchSpec => []VerdictIsOnTheLastAttempt` |
| **`Materialization_proofs`** | |
| `MatTypeSafety` | `MaterializationSpec => []MatTypeOK` |
| `DiffSafety` | `MaterializationSpec => []DiffIsReported` |
| `DeltaSafety` | `MaterializationSpec => []DeltasBoundTheDiff` |
| `ChangeSetRefinement` | `MaterializationSpec => ImplementsChangeSet` |
| **`LocalTelemetry_proofs`** | |
| `TelemetryInvariance` | `TelemetrySpec => []TelemetryInvariant` |
| `BackedSummaries` | `TelemetrySpec => []SummariesAreBacked` |
| `ReportInvariance` | `TelemetrySpec => []ReportInvariant` |
| `ReportSafety` | `TelemetrySpec => []ReportsAreComplete` |
| `ReportGrowth` | `TelemetrySpec => ReportsOnlyGrow` |
| **`AdaptiveDispatch_proofs`** | |
| `AdaptiveInvariance` | `AdaptiveSpec => []AdaptiveInvariant` |
| `FilterSafety` | `AdaptiveSpec => []FiltersPickGroups` |
| `StaleSafety` | `AdaptiveSpec => []StaleIsForgotten` |
| `SourcesSafety` | `AdaptiveSpec => []SourcesAgree` |
| **`Benchmark_proofs`** | |
| `BenchmarkInvariance` | `BenchmarkSpec => []BenchmarkInvariant` |
| `RankingSafety` | `BenchmarkSpec => []RankingFollowsThePolicy` |
| `CompletenessSafety` | `BenchmarkSpec => []ToollessBenchmarksComplete` |

**Assumptions.** They are the named `ASSUME`s of the components, which TLC evaluates in
every run. Most give the types of the constants. The others are: `IdOrder` of
`BoardAssumption` is injective (ids are file names); `None` is no ticket and no runtime,
`Torn` no ledger, `NoCap` and `Unreported` no numbers; a ticket cap and the failure limit
are positive (`run_turnkey_project` rejects others); no path is its own
ancestor and what is no file has no text; runs are ticketed or autonomous; candidates
differ in their routes, and no name in the log is the word `None`, which stands for a
missing one (`NamesAssumption`); `Unknown` is no number and `LF` no word.

Three theorems state a condition where the code has none. `RankingSafety` is about pairs of
candidates whose measurements are clear of the stand-ins (`StandInsAreWorse`): others may
tie with a missing metric or lose to it. `TargetSafety` is about
profiles with providers of their kind. `CompletenessSafety` is about workloads without
tools, and allows for a hosted candidate that raises. And `FilesSafety` and `BundleSafety`
speak of files that parse, the theorems on plans of texts as `read_text` returns them.

**The session.** None of the properties is inductive alone. `SessionInvariant`
adds to the types: `ClaimsAreHeld` (a call between its claim and its last report has its
ticket claimed by itself: only an operator could take it away, and operators wait for
working calls), `DependenciesStayFinished` (from the scan on: a dependency that is done
can only be archived, never reopened, so the stale scan is harmless) and
`VerdictsAreFounded` (the verdict that reaches `comment` and `set_status` still fits the
change set in `session`). The lemmas `TypeOKStep`, `ClaimsAreHeldStep`,
`DependenciesStayFinishedStep` and `VerdictsAreFoundedStep` show that each action keeps
each conjunct; `OthersAreKept` says once that an action of one runtime leaves the others
alone. `Exclusion` then follows from `ClaimsAreHeld`, because `claimant` is a function;
the two action properties from the invariant and the only actions that change
`workspace` and write `needs_review`.

**Its refinement.** Under `status <- board`, `worker <- claimant` and `admitted <-` the
tickets of runtimes between verdict and `set-status`, a step of a session is a step of
`TicketWorkflow` or leaves its variables alone. Crashes and failed reports withdraw an
admission, which is why `Exclusion` is needed (`AdmittedOnce`): the ticket has no other
admitted holder. A step of `TurnkeyProject` is a step of `AutonomousTicket` or leaves its
variables alone, so that all session theorems hold of project runs.

**The project run.** `RunMove` describes every action by what it does to the ledger and the
files of its run (`Opens`, `Dies`, `Calls`, `Judges`, `Fails`, `Accepts`, `Stops`,
`Finalizes`); one lemma shows that each step is a move of one run and leaves the others'
ledgers and files alone, and the invariants are proved move by move.

- `FilesInvariant`: a run in progress has a whole checkpoint of the ledger in memory, but
  for what `SaveFinalCheckpoint` is about to save; hence the files that parse never run
  ahead and a checkpoint only grows.
- `LimitInvariant`: a call is made below the limit and leaves at most one attempt to save.
- `SummaryInvariant`: between a verdict and its summary the verdict is the one the last
  attempt calls for. It does not hold in the loop of a resumed run, which keeps the old one.
- `LedgerInvariant`: in memory and on disk, counters count the attempts and completions
  are the accepted ones.
- `ClaimInvariant`: for each run and ticket, the attempts recorded, plus one if the call
  under way has taken the ticket, plus one if it is ready, are at most one more than
  the reopens. A claim moves one from the last place to the second, a record to the first,
  and a crash only loses one.
- `ReviewInvariant`: an accepted outcome has told the board before it is recorded, and what
  was handed over stays so unless a ticket was sent back.

**The executor.** `ExecutorInvariant` reads the loop off the event stream. In
`LoopInvariant` a request, a failed response and a scheduled retry belong to each attempt
that was lost; `EndInvariant` says what each way of ending leaves behind; `ToolInvariant`
that tools run after a check that passed and never after one that failed. The lemmas on
`Count` and `Places` say what appending an event does to them.

**The dispatcher.** A hosted execution inside a dispatch keeps `ExecutorInvariant`, which is
why it is proved in the same module. The parts of `DispatchInvariant` are `RouteInvariant`
(the routes taken are what the policy chose, at most two, the second a fallback),
`ExecutionInvariant` (whose execution the executor's variables are), `StreamInvariant` (what
the merged stream holds of each attempt) and `OutcomeInvariant` (what a finished execution
means for the fallback and the gate). That a route fits its ticket is a lemma about
`Routing`: a promoted order has the same families, and the first of the candidates that
pass the filters passes them.

**Plans.** `DiffInvariant` says that no path whose text differs is missing from the report,
but for the one a failing write may leave, and that the report is what the file events name.
A change of a file is recorded in the same step, and directories that are made were nothing
before. The refinement of `ChangeSet` follows, as only files are in its content.
`DeltaSafety` needs more: `CountInvariant` says that the reported deltas balance with the
change since the start and bound its diff. A further change keeps the bound because of a
triangle inequality of common lines, `CommonLinesMeet`: what two texts have in common is at
least what each has in common with a third, less the length of that third. `TablesExist`
shows that the recursive table of `CommonLines` is defined, `TablesAreSteady` that
neighbouring cells differ by at most one, and `TablesMeet` the inequality, cell by cell.

**Project telemetry.** `TelemetryInvariant` adds that the attempts in memory are logged too,
and that a call that has returned has persisted its outcome; telemetry only grows.

**Persistence.** `SummariesAreBacked` is not inductive: an artifact could be torn again
after its summary was appended, or a second summary be appended without events.
`WritesAreOrdered` says why neither happens: what a call lists in `refs` is whole and no
longer in `todo`, its events are complete from `recorded` on, and before `appending` the
log has nothing of it. `LinesAreAppended` adds that a run has at most a head and then a
tail in the log, and a returned one a piece that ends a line; so a log that can be loaded
has the summary of each returned run once. `ReportIsPast` says that a report is what a
beginning of the log loads to, and loading a longer log extends it (lemmas on `LineFrom`).

**Snapshots.** A snapshot from the log adds up the rows of a route; one from a report adds
up its records, each of which has added up a block of rows. `ReportBlocks` shows that the
records of a route cut its rows into blocks (`IsCut`), `SumOfBlocks` that sums over a set
cut into blocks are sums of their sums, and `LargestOfParts` the same of the last date. As
the lemmas hold for any log, `SourcesAgree` needs no invariant but its type.

**Benchmarks.** `BenchmarkInvariant` says that a benchmark that runs was accepted, that its
results measure the first candidates and that a report ranks them under some qualities. The
sort key of a result is a tuple of six numbers; `IsBelow` orders such tuples and is
total, so a sorted sequence exists (`SortExists`) and results that tie are neighbours in it.
`KeysFollowThePolicy` says that of two results clear of the stand-ins the key orders as the
policy does.

**Only model-checked.** The liveness properties (`RunsEnd`, `ExecutionsReturn`,
`DispatchesEnd`) are outside this prover, and so is induction over data: the facts about
sums, sorts and tables above are proved from the least counterexample instead
(`LeastOfNaturals`, `SmallestSet`). `EvidenceMovesTheRanking` is checked by `Adaptive` only:
it compares rounded quotients of products, which is arithmetic the SMT backend seldom
decides, and needs assumptions on the weights that no other result does. For the proofs, the
sorts of the model are a choice among the orderings of a set, and `CommonLines` is a
function on pairs, because the prover does not expand `SortSeq` and functions of two
arguments.

## What is not modelled

- Parsing of tickets, policies, guardrails and responses, and the text of prompts,
  comments and reports: only their outcomes.
- What `difflib` makes of two windows that are neither equal nor unlike: the choice of
  any window the margins allow.
- Tokens, rates and rounding in reports and scores; the sensitive data flag of a report.
- Validation commands that write to the working copy, and several processes with one
  project run id, which overwrite each other's checkpoint.
- That validation evidence is about what is handed over when several runtimes share one
  working copy: each may overwrite what the other has validated. The sessions of
  `AutonomousTicket` do share one, but nothing in the code or its documents promises
  anything about it, and no property does.
- Responses that spell line ends as CRLF, and other characters `splitlines` breaks at.
- The sample project bootstrap: a straight sequence of copies and git commands, each
  skipped when its target exists. What can go wrong there is in git: a submodule whose
  `git submodule add` failed half way leaves a directory the next call takes for a
  finished one (`bootstrap.py:114`), until its board validation fails.
- The command line around the modelled functions, except the analytics command; the test
  support.
- A dependency that is archived when done: what archiving means is MuonTickets' decision;
  the code, and the model, then report its dependents as `missing_dependency` for ever.

## Plan

The core came first: the session, because everything else is about its effects; then the
project run, the executor and the dispatcher; then what a session writes (plans,
telemetry) and what reads it (analytics, adaptive scoring) and benchmarking. What
follows, in order:

1. `EvidenceMovesTheRanking`, from lemmas on quotients and averages: a value no larger than
   an average does not raise it, and a larger signal does not lower a score.
2. Project processes that share a run id, which needs processes and runs as two sets.

## Running

    tlc -workers 2 -config Session.cfg MCAutonomousTicket
    tlc -workers 2 -config Project.cfg MCTurnkeyProject
    tlc -workers 2 -config Executor.cfg ProviderExecutor
    tlc -workers 2 -config Dispatch.cfg MCHybridDispatch
    tlc -workers 2 -config Materialize.cfg MCMaterialization
    tlc -workers 2 -config Adaptive.cfg MCAdaptiveDispatch
    tlc -workers 2 -config Benchmark.cfg MCBenchmark
    tlc -workers 2 -config Telemetry.cfg MCLocalTelemetry
    tlapm CollectionTheorems.tla
    tlapm AutonomousTicket_proofs.tla
    tlapm TurnkeyProject_proofs.tla
    tlapm HybridDispatch_proofs.tla
    tlapm Materialization_proofs.tla
    tlapm LocalTelemetry_proofs.tla
    tlapm AdaptiveDispatch_proofs.tla
    tlapm Benchmark_proofs.tla

`PROJECT.json` names the module and configuration of every run.
