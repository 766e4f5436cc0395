--------------------------- MODULE HybridDispatch ---------------------------
(***************************************************************************)
(* dispatch_next_ready_ticket (src/higgs_agent/application/dispatcher.py)  *)
(* for one ready ticket: classify it, choose a route, execute it locally   *)
(* or hosted, fall back from a failed local execution to a hosted one,     *)
(* and pass the result through the write gate.  A hosted execution is the  *)
(* one of ProviderExecutor, step by step.                                  *)
(***************************************************************************)
EXTENDS ProviderExecutor, Routing, WriteGate

CONSTANTS
  Tickets,         \* the frontmatter a ticket may have
  Configurations,  \* the guardrail configurations
  PlannedChanges,  \* the change sets callers pass
  Policy           \* the write policy

ASSUME DispatchAssumption ==
  /\ Tickets \subseteq Frontmatter
  /\ Configurations \subseteq Guardrails
  /\ Policy \in WritePolicies

VARIABLES
  phase,      \* where the dispatcher is
  ticket,     \* the frontmatter of the selected ticket
  config,     \* the guardrail configuration
  runtime,    \* whether the caller passed a local transport
  routes,     \* the routes taken so far, the fallback route second
  stream,     \* events of the result, each with the attempt it belongs to
  retryCount, \* retry_count of the result and of its summary
  fallback,   \* metadata fallback_triggered
  summaries,  \* attempts that have a summary in the result
  verdict     \* the validation decision

dispatchVars == <<phase, ticket, config, runtime, routes, stream, retryCount,
                  fallback, summaries, verdict>>

NoVerdict == Verdict("none", "none", FALSE)

\* The events of the given attempt.
Tagged(attempt, evs) ==
  [i \in DOMAIN evs |-> [attempt |-> attempt, type |-> evs[i].type, status |-> evs[i].status]]

Sem         == Classify(ticket)
Attempt     == Len(routes)
Route       == routes[Attempt]
ProviderOf(route) == IF route.selected THEN config.provider[route.family] ELSE "none"

DispatchInit ==
  /\ Init /\ ~input.routed /\ ~input.tools /\ ~input.allowTools
  /\ phase = "route"
  /\ ticket \in Tickets /\ config \in Configurations /\ runtime \in BOOLEAN
  /\ routes = << >> /\ stream = << >>
  /\ retryCount = 0 /\ fallback = FALSE /\ summaries = {}
  /\ verdict = NoVerdict

\* classify_ticket raises before anything is executed.
ClassificationFails ==
  /\ phase = "route"
  /\ Unclassifiable(ticket)
  /\ phase' = "raised"
  /\ UNCHANGED <<vars, ticket, config, runtime, routes, stream, retryCount,
                 fallback, summaries, verdict>>

\* execute of the OpenRouterExecutor is called with this route.
BeginHosted(route) ==
  /\ pc' = "created" /\ index' = 0 /\ retries' = 0
  /\ response' = NoResponse /\ error' = NoError /\ events' = << >> /\ result' = "none"
  /\ input' = [input EXCEPT !.routed = ProviderOf(route) = "openrouter", !.tools = FALSE,
                            !.allowTools = Sem.tools # "none"]

\* choose_route and _executor_for_route.
ChooseExecutor ==
  LET route == ChooseRoute(Sem, config, runtime) IN
  /\ phase = "route"
  /\ ~Unclassifiable(ticket)
  /\ routes' = <<route>>
  /\ IF ProviderOf(route) = "local" /\ runtime
     THEN phase' = "local" /\ UNCHANGED vars
     ELSE phase' = "hosted" /\ BeginHosted(route)
  /\ UNCHANGED <<ticket, config, runtime, stream, retryCount, fallback, summaries, verdict>>

\* LocalModelExecutor returns: one generate call, no retry, no guardrail.
LocalReturns(status, evs) ==
  /\ phase = "local"
  /\ stream' = Tagged(1, <<Event("execution.created", "started")>> \o evs)
  /\ result' = status
  /\ summaries' = {1}
  /\ phase' = "executed"
  /\ UNCHANGED <<pc, input, index, retries, response, events, ticket, config, runtime,
                 routes, retryCount, fallback, verdict>>

LocalSucceeds ==
  /\ LocalReturns("succeeded", <<Event("provider.responded", "succeeded"),
                                 Event("execution.completed", "completed")>>)
  /\ error' = NoError

\* A timeout, an exception of the transport, or a payload that is not one.
LocalFails(kind, retryable) ==
  /\ LocalReturns("failed", <<Event("provider.responded", "failed"),
                              Event("execution.completed", "failed")>>)
  /\ error' = Failure(kind, retryable)

HostedStep ==
  /\ phase = "hosted"
  /\ Next
  /\ UNCHANGED dispatchVars

\* The exception of the hosted executor reaches the caller of the dispatcher.
HostedRaises ==
  /\ phase = "hosted"
  /\ result = "raised"
  /\ phase' = "raised"
  /\ UNCHANGED <<vars, ticket, config, runtime, routes, stream, retryCount,
                 fallback, summaries, verdict>>

\* Of a fallback, _execute_hosted_fallback merges events and retry counts and
\* keeps the fallback's own summary.
HostedReturns ==
  /\ phase = "hosted"
  /\ Returned
  /\ stream' = stream \o Tagged(Attempt, events)
  /\ retryCount' = retries + Attempt - 1
  /\ summaries' = {Attempt}
  /\ phase' = "executed"
  /\ UNCHANGED <<vars, ticket, config, runtime, routes, fallback, verdict>>

\* Mutant: any failed execution falls back, a hosted one too.
FallsBackAlways == result = "failed" /\ Attempt < 3

\* _should_fallback_to_hosted; it is asked once, of the first execution.
ShouldFallBack ==
  /\ Attempt = 1 /\ ~fallback
  /\ Sem.target = "auto"
  /\ ProviderOf(Route) = "local"
  /\ result = "failed"

HostedFallback == ChooseRoute(Sem, config, FALSE)

\* Mutant: the fallback is asked for again.
FallBackIsRetried ==
  /\ phase = "executed"
  /\ ShouldFallBack
  /\ ~HostedFallback.selected
  /\ UNCHANGED <<vars, dispatchVars>>

\* The fallback route is blocked: the primary result with fallback metadata.
FallBackIsBlocked ==
  /\ phase = "executed"
  /\ ShouldFallBack
  /\ ~HostedFallback.selected
  /\ fallback' = TRUE
  /\ UNCHANGED <<vars, phase, ticket, config, runtime, routes, stream, retryCount,
                 summaries, verdict>>

FallBack ==
  /\ phase = "executed"
  /\ ShouldFallBack
  /\ HostedFallback.selected
  /\ fallback' = TRUE
  /\ routes' = Append(routes, HostedFallback)
  /\ stream' = stream \o Tagged(1, <<Event("retry.scheduled", "retry_scheduled"),
                                     Event("route.selected", "succeeded")>>)
  /\ BeginHosted(HostedFallback)
  /\ phase' = "hosted"
  /\ UNCHANGED <<ticket, config, runtime, retryCount, summaries, verdict>>

\* Mutant: the gate is told of a success whatever was executed.
DecideOptimistically ==
  /\ phase = "executed"
  /\ ~ShouldFallBack
  /\ \E changes \in PlannedChanges, secret \in BOOLEAN, deterministic \in BOOLEAN :
       verdict' = Evaluate([executor |-> "succeeded", passed |-> TRUE, changes |-> changes,
                            secretInOutput |-> secret, deterministic |-> deterministic], Policy)
  /\ stream' = stream \o Tagged(Attempt, <<Event("validation.completed", "succeeded"),
                                           Event("write_gate.decided", "succeeded")>>)
  /\ phase' = "decided"
  /\ UNCHANGED <<vars, ticket, config, runtime, routes, retryCount, fallback, summaries>>

\* evaluate_write_request on the final result, and _with_validation_events.
Decide ==
  /\ phase = "executed"
  /\ ~ShouldFallBack
  /\ \E changes \in PlannedChanges, secret \in BOOLEAN, deterministic \in BOOLEAN :
       verdict' = Evaluate([executor |-> result, passed |-> TRUE, changes |-> changes,
                            secretInOutput |-> secret, deterministic |-> deterministic], Policy)
  /\ LET status == IF verdict'.decision = "accepted" THEN "succeeded" ELSE "failed"
     IN  stream' = stream \o Tagged(Attempt, <<Event("validation.completed", status),
                                               Event("write_gate.decided", status)>>)
  /\ phase' = "decided"
  /\ UNCHANGED <<vars, ticket, config, runtime, routes, retryCount, fallback, summaries>>

DispatchNext ==
  \/ ClassificationFails \/ ChooseExecutor
  \/ LocalSucceeds
  \/ \E kind \in {"timeout", "provider"}, retryable \in BOOLEAN :
       (kind = "timeout" => retryable) /\ LocalFails(kind, retryable)
  \/ HostedStep \/ HostedRaises \/ HostedReturns
  \/ FallBackIsBlocked \/ FallBack
  \/ Decide

DispatchSpec ==
  /\ DispatchInit /\ [][DispatchNext]_<<vars, dispatchVars>>
  /\ WF_<<vars, dispatchVars>>(DispatchNext)

(***************************************************************************)
(* Properties.                                                             *)
(***************************************************************************)
StreamCount(type) == Cardinality({i \in DOMAIN stream : stream[i].type = type})
HostedAsked == {i \in DOMAIN stream : stream[i].type = "provider.requested"}
Over == phase \in {"decided", "raised"}

(* The dispatcher's locals have their types; a result has as many routes   *)
(* as attempts, and every event belongs to one of them.                    *)
DispatchTypeOK ==
  /\ phase \in {"route", "local", "hosted", "executed", "decided", "raised"}
  /\ ticket \in Tickets /\ config \in Configurations /\ runtime \in BOOLEAN
  /\ \A i \in DOMAIN routes : routes[i].family \in Families \cup {"none"}
  /\ \A i \in DOMAIN stream : stream[i].attempt \in 1 .. Attempt
  /\ retryCount \in Nat /\ fallback \in BOOLEAN /\ summaries \subseteq 1 .. Attempt
  /\ verdict.decision \in Decisions \cup {"none"}
  /\ phase = "decided" <=> verdict # NoVerdict

\* The profiles of these families are configured for local or hosted execution.
ServedLocally(families) == \A f \in families : config.provider[f] = "local"
ServedHosted(families)  == \A f \in families : config.provider[f] # "local"

(* A ticket gets the execution it asked for, as far as each profile is     *)
(* configured with a provider of its kind, which the loader does not check:*)
(* an explicit local ticket is never sent to a hosted model, not even after*)
(* its local execution failed; and a ticket that asks for hosted execution *)
(* or for tools never reaches the local executor.                          *)
TargetIsHonoured ==
  /\ ServedLocally({"local"}) /\ Sem.target = "local" /\ routes # << >> =>
       HostedAsked = {} /\ (phase = "hosted" => pc = "created" \/ result = "blocked")
  /\ ServedHosted(HostedFamilies) /\ phase = "local" =>
       Sem.target # "hosted" /\ Sem.tools = "none" /\ runtime

(* First choice or fallback, a hosted route is within the cost ceiling and *)
(* can serve the ticket's tools; and a route is blocked for its cost only  *)
(* when no hosted profile would do.                                        *)
RoutesFitTheTicket ==
  LET Fits(f) == /\ config.cost[f] <= config.maxCost
                 /\ Sem.tools = "extended" => SupportsExtended(f)
  IN  \A i \in DOMAIN routes :
        /\ routes[i].family \in HostedFamilies => Fits(routes[i].family)
        /\ routes[i].reason = "no_route_within_cost_ceiling" =>
             \A f \in HostedFamilies : ~Fits(f)

(* There is one fallback at most, from a failed local execution of an auto *)
(* ticket to hosted, and it is reported; the provider is never asked more  *)
(* than max_attempts times over both attempts together, and the retry      *)
(* count of the result is the number of retries the merged stream shows.   *)
FallbackIsBounded ==
  /\ Attempt <= 2
  /\ Attempt = 2 =>
       /\ fallback /\ Sem.target = "auto" /\ ProviderOf(routes[1]) = "local"
       /\ (\A f \in HostedFamilies : config.provider[f] # "local") => ProviderOf(routes[2]) # "local"
       /\ \E i \in DOMAIN stream :
            stream[i] = [attempt |-> 1, type |-> "execution.completed", status |-> "failed"]
  /\ Cardinality(HostedAsked) <= MaxAttempts \/ HostedAsked = {}
  /\ phase = "decided" => retryCount = StreamCount("retry.scheduled")

(* The gate judges the execution whose result is returned: a change is let *)
(* through only when the last execution in the stream completed, and the   *)
(* gate's events and the summary belong to that attempt.                   *)
VerdictIsOnTheLastAttempt ==
  phase = "decided" /\ verdict.decision # "rejected" =>
    LET completions == {i \in DOMAIN stream : stream[i].type = "execution.completed"}
        last == CHOOSE i \in completions : \A j \in completions : j <= i
    IN  /\ stream[last].status = "completed" /\ stream[last].attempt = Attempt
        /\ \A i \in last + 1 .. Len(stream) : stream[i].attempt = Attempt
        /\ summaries = {Attempt}

(* The dispatcher returns or raises, whichever executor fails and whether  *)
(* or not a fallback route is affordable.                                  *)
DispatchesEnd == <>Over
=============================================================================
