-------------------------- MODULE ProviderExecutor --------------------------
(***************************************************************************)
(* OpenRouterExecutor.execute (src/higgs_agent/providers/hosted/           *)
(* openrouter.py): one hosted execution with bounded retries, the          *)
(* guardrails on what a response may cost, and the tool calls it may make. *)
(* The provider answers, times out or breaks as it likes.  Every event the *)
(* executor emits is recorded, as a type and a status.                     *)
(***************************************************************************)
EXTENDS Integers, Sequences, FiniteSets, SequencesExt

CONSTANTS
  AttemptLimits,  \* values of limits.max_attempts; the loader accepts any int
  MaxTokens,      \* limits.max_total_tokens
  MaxCost,        \* limits.max_cost_usd, in whole units
  MaxToolCalls,   \* limits.max_tool_calls
  Unreported      \* a usage figure the provider leaves out

ASSUME ExecutorAssumption ==
  /\ AttemptLimits \subseteq Int
  /\ MaxTokens \in Nat /\ MaxCost \in Nat /\ MaxToolCalls \in Nat
  /\ Unreported \notin Nat

VARIABLES
  pc,        \* the next step of execute
  input,     \* limits.max_attempts, and route and tools of the ExecutorInput
  index,     \* attempt_index of the loop
  retries,   \* retry_count
  response,  \* the response being handled
  error,     \* the error a failed result will carry
  events,    \* the events appended so far
  result     \* the status of the returned result

vars == <<pc, input, index, retries, response, error, events, result>>

\* The interesting sides of each limit: within, at and over it.
Tokens    == {Unreported, MaxTokens, MaxTokens + 1}
Costs     == {Unreported, MaxCost, MaxCost + 1}
Responses == [tokens : Tokens, cost : Costs, toolCalls : 0 .. MaxToolCalls + 1]
Inputs    == [maxAttempts : AttemptLimits, routed : BOOLEAN, tools : BOOLEAN,
              allowTools : BOOLEAN, invoker : BOOLEAN]

MaxAttempts == input.maxAttempts

NoResponse == [tokens |-> Unreported, cost |-> Unreported, toolCalls |-> 0]

Failure(kind, retryable) == [kind |-> kind, retryable |-> retryable]
NoError == Failure("none", FALSE)
Errors  == [kind : {"none", "timeout", "provider", "guardrail", "tool", "internal"},
            retryable : BOOLEAN]

\* Of the event types and statuses of the event schema, those execute emits.
EventTypes    == {"execution.created", "execution.completed", "guardrails.checked",
                  "provider.requested", "provider.responded", "retry.scheduled",
                  "tool.call.started", "tool.call.completed"}
EventStatuses == {"started", "succeeded", "failed", "blocked", "completed", "retry_scheduled"}
Events        == [type : EventTypes, status : EventStatuses]

Event(type, status) == [type |-> type, status |-> status]
Emit(s) == events' = events \o s

Init ==
  /\ pc = "created"
  /\ input \in Inputs
  /\ index = 0 /\ retries = 0
  /\ response = NoResponse
  /\ error = NoError
  /\ events = << >>
  /\ result = "none"

\* No selected route, or one for another provider: the result is blocked.
Block ==
  /\ pc = "created"
  /\ ~input.routed
  /\ Emit(<<Event("execution.created", "started"), Event("execution.completed", "blocked")>>)
  /\ result' = "blocked"
  /\ pc' = "done"
  /\ UNCHANGED <<input, index, retries, response, error>>

\* Tool definitions although tool calls are disabled: OpenRouterExecutorError.
RaiseToolsDisabled ==
  /\ pc = "created"
  /\ input.routed
  /\ input.tools /\ ~input.allowTools
  /\ result' = "raised"
  /\ pc' = "done"
  /\ UNCHANGED <<input, index, retries, response, error, events>>

BeginAttempts ==
  /\ pc = "created"
  /\ input.routed
  /\ input.tools => input.allowTools
  /\ Emit(<<Event("execution.created", "started"), Event("guardrails.checked", "started")>>)
  /\ pc' = "attempt"
  /\ UNCHANGED <<input, index, retries, response, error, result>>

Request ==
  /\ pc = "attempt"
  /\ index < MaxAttempts
  /\ Emit(<<Event("provider.requested", "started")>>)
  /\ pc' = "waiting"
  /\ UNCHANGED <<input, index, retries, response, error, result>>

\* Mutant: the loop is started over instead of left.
FallThroughRestarts ==
  /\ pc = "attempt"
  /\ index >= MaxAttempts
  /\ index' = 0
  /\ UNCHANGED <<pc, input, retries, response, error, events, result>>

\* The loop ran out without a request: only when max_attempts is not positive.
FallThrough ==
  /\ pc = "attempt"
  /\ index >= MaxAttempts
  /\ error' = Failure("internal", FALSE)
  /\ pc' = "fail"
  /\ UNCHANGED <<input, index, retries, response, events, result>>

\* A timeout, or any other exception of the transport.
TransportFails(kind) ==
  /\ pc = "waiting"
  /\ error' = Failure(kind, TRUE)
  /\ IF index < MaxAttempts - 1
     THEN /\ retries' = retries + 1
          /\ index' = index + 1
          /\ Emit(<<Event("provider.responded", "failed"),
                    Event("retry.scheduled", "retry_scheduled")>>)
          /\ pc' = "attempt"
     ELSE /\ Emit(<<Event("provider.responded", "failed")>>)
          /\ pc' = "fail"
          /\ UNCHANGED <<retries, index>>
  /\ UNCHANGED <<input, response, result>>

\* Mutant: a response that cannot be parsed is retried like a lost one.
MalformedIsRetried ==
  /\ pc = "waiting"
  /\ error' = Failure("provider", FALSE)
  /\ Emit(<<Event("provider.responded", "failed")>>)
  /\ IF index < MaxAttempts - 1
     THEN pc' = "attempt" /\ index' = index + 1 /\ retries' = retries + 1
     ELSE pc' = "fail" /\ UNCHANGED <<index, retries>>
  /\ UNCHANGED <<input, response, result>>

\* _parse_usage, _parse_tool_calls or _parse_output_text rejects the object.
MalformedResponse ==
  /\ pc = "waiting"
  /\ error' = Failure("provider", FALSE)
  /\ Emit(<<Event("provider.responded", "failed")>>)
  /\ pc' = "fail"
  /\ UNCHANGED <<input, index, retries, response, result>>

\* The body is JSON but no object: _parse_usage raises AttributeError, and execute
\* catches OpenRouterExecutorError only.
ParsingRaises ==
  /\ pc = "waiting"
  /\ result' = "raised"
  /\ pc' = "done"
  /\ UNCHANGED <<input, index, retries, response, error, events>>

Respond ==
  /\ pc = "waiting"
  /\ response' \in Responses
  /\ pc' = "guardrails"
  /\ UNCHANGED <<input, index, retries, error, events, result>>

\* _guardrail_error: a figure the provider does not report exceeds nothing.
Exceeds(figure, limit) == figure # Unreported /\ figure > limit

OverBudget(resp) ==
  \/ Exceeds(resp.tokens, MaxTokens)
  \/ Exceeds(resp.cost, MaxCost)
  \/ resp.toolCalls > MaxToolCalls

GuardrailFails ==
  /\ pc = "guardrails"
  /\ OverBudget(response)
  /\ error' = Failure("guardrail", FALSE)
  /\ Emit(<<Event("guardrails.checked", "failed")>>)
  /\ pc' = "fail"
  /\ UNCHANGED <<input, index, retries, response, result>>

\* Mutant: the tools run although the response asks for too many of them.
GuardrailPassesUnchecked ==
  /\ pc = "guardrails"
  /\ Emit(<<Event("guardrails.checked", "succeeded")>>)
  /\ pc' = "tools"
  /\ UNCHANGED <<input, index, retries, response, error, result>>

GuardrailPasses ==
  /\ pc = "guardrails"
  /\ ~OverBudget(response)
  /\ Emit(<<Event("guardrails.checked", "succeeded")>>)
  /\ pc' = "tools"
  /\ UNCHANGED <<input, index, retries, response, error, result>>

\* _handle_tool_calls when tools are disabled or nobody can run them: it ends
\* the event stream itself and returns the error that _failed_result reports.
ToolCallsRefused ==
  /\ pc = "tools"
  /\ response.toolCalls > 0
  /\ ~input.allowTools \/ ~input.invoker
  /\ error' = Failure(IF input.allowTools THEN "tool" ELSE "guardrail", FALSE)
  /\ Emit(<<Event("execution.completed", "failed")>>)
  /\ pc' = "fail"
  /\ UNCHANGED <<input, index, retries, response, result>>

\* One tool call; its failure is an event and nothing else.
InvokeTool ==
  /\ pc = "tools"
  /\ response.toolCalls > 0
  /\ input.allowTools /\ input.invoker
  /\ \E status \in {"succeeded", "failed"} :
       Emit(<<Event("tool.call.started", "started"), Event("tool.call.completed", status)>>)
  /\ response' = [response EXCEPT !.toolCalls = @ - 1]
  /\ UNCHANGED <<pc, input, index, retries, error, result>>

\* invoke raises, and execute lets the exception through.
InvokerRaises ==
  /\ pc = "tools"
  /\ response.toolCalls > 0
  /\ input.allowTools /\ input.invoker
  /\ Emit(<<Event("tool.call.started", "started")>>)
  /\ result' = "raised"
  /\ pc' = "done"
  /\ UNCHANGED <<input, index, retries, response, error>>

\* Mutant: the response event is left out.
SucceedSilently ==
  /\ pc = "tools"
  /\ response.toolCalls = 0
  /\ Emit(<<Event("execution.completed", "completed")>>)
  /\ result' = "succeeded"
  /\ pc' = "done"
  /\ UNCHANGED <<input, index, retries, response, error>>

\* Mutant: the response is reported after the execution was completed.
SucceedSwapped ==
  /\ pc = "tools"
  /\ response.toolCalls = 0
  /\ Emit(<<Event("execution.completed", "completed"), Event("provider.responded", "succeeded")>>)
  /\ result' = "succeeded"
  /\ pc' = "done"
  /\ UNCHANGED <<input, index, retries, response, error>>

Succeed ==
  /\ pc = "tools"
  /\ response.toolCalls = 0
  /\ Emit(<<Event("provider.responded", "succeeded"), Event("execution.completed", "completed")>>)
  /\ result' = "succeeded"
  /\ pc' = "done"
  /\ UNCHANGED <<input, index, retries, response, error>>

\* _failed_result
FailedResult ==
  /\ pc = "fail"
  /\ Emit(<<Event("execution.completed", "failed")>>)
  /\ result' = "failed"
  /\ pc' = "done"
  /\ UNCHANGED <<input, index, retries, response, error>>

Next ==
  \/ Block \/ RaiseToolsDisabled \/ BeginAttempts
  \/ Request \/ FallThrough
  \/ \E kind \in {"timeout", "provider"} : TransportFails(kind)
  \/ MalformedResponse \/ ParsingRaises \/ Respond
  \/ GuardrailFails \/ GuardrailPasses
  \/ ToolCallsRefused \/ InvokeTool \/ InvokerRaises
  \/ Succeed \/ FailedResult

\* urlopen has a timeout, so every request is answered one way or another.
ExecutorSpec == Init /\ [][Next]_vars /\ WF_vars(Next)

(***************************************************************************)
(* Properties.                                                             *)
(***************************************************************************)

Places(type, status) == {i \in DOMAIN events : events[i] = Event(type, status)}
Count(type, status)  == Cardinality(Places(type, status))

\* execute has returned a result.
Returned == result \in {"succeeded", "failed", "blocked"}

(* The locals of execute have their types; result is set exactly when the  *)
(* call is over.                                                           *)
TypeOK ==
  /\ pc \in {"created", "attempt", "waiting", "guardrails", "tools", "fail", "done"}
  /\ input \in Inputs
  /\ index \in Nat /\ retries \in Nat
  /\ response \in Responses
  /\ error \in Errors
  /\ events \in Seq(Events)
  /\ result \in {"none", "succeeded", "failed", "blocked", "raised"}
  /\ result = "none" <=> pc # "done"

(* The transport is called at most max_attempts times.  A transient failure*)
(* ends the execution only when every attempt is used, an error that is    *)
(* not transient is never tried again, and the retry count in the summary  *)
(* is what the events show, however the attempts ended.                    *)
RetriesFollowTheErrorKind ==
  LET asked == Count("provider.requested", "started") IN
  /\ asked <= (IF MaxAttempts > 0 THEN MaxAttempts ELSE 0)
  /\ retries = Count("retry.scheduled", "retry_scheduled")
  /\ Returned /\ asked > 0 => retries = asked - 1
  /\ result = "failed" /\ error.retryable => asked = MaxAttempts
  /\ pc \in {"attempt", "waiting"} /\ index > 0 => error.retryable
  /\ \A i \in Places("guardrails.checked", "failed"),
        j \in Places("provider.requested", "started") : j < i

(* No tool runs before the response that asked for it passed the           *)
(* guardrails, none runs when tools are off, and never more than allowed   *)
(* in one execution, whatever was retried before.                          *)
ToolsStayWithinBudget ==
  LET started == Places("tool.call.started", "started")
      passed  == Places("guardrails.checked", "succeeded")
  IN  /\ Cardinality(started) <= MaxToolCalls
      /\ started # {} => input.allowTools /\ input.routed
      /\ \A i \in started : \E j \in passed : j < i

(* Every request is answered in the stream by the time the execution is    *)
(* over: by a response event, or by the guardrail or tool error that ended *)
(* it; success is only reported for the response that came last.           *)
RequestsAreAnswered ==
  Returned =>
    LET answered == Count("provider.responded", "failed") + Count("provider.responded", "succeeded")
        refused  == IF error.kind \in {"guardrail", "tool"} /\ result = "failed" THEN 1 ELSE 0
    IN  /\ Count("provider.requested", "started") = answered + refused
        /\ result = "succeeded" =>
             /\ Count("provider.responded", "succeeded") = 1
             /\ ~OverBudget(response)

(* execution.completed ends every stream, whatever came before.            *)
CompletionComesLast ==
  Returned => Last(events).type = "execution.completed"

(* Every execution returns or raises: there is no failure the loop retries *)
(* forever.                                                                *)
ExecutionsReturn == <>(result # "none")

(* observability-contract.md: execution.completed is emitted exactly once. *)
(* A response with tool calls nobody may run ends the stream twice.        *)
CompletedOnce ==
  Returned =>
    Cardinality({i \in DOMAIN events : events[i].type = "execution.completed"}) = 1
=============================================================================
