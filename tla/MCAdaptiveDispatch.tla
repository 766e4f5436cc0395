------------------------- MODULE MCAdaptiveDispatch -------------------------
(* Small instances of AdaptiveDispatch: two hosted routes of equal cost, *)
(* so that little tips the scales, the local one, and one that is blocked. *)
EXTENDS AdaptiveDispatch

MCCandidate(provider, model, family, cost) ==
  [provider |-> provider, model |-> model, family |-> family, cost |-> cost, selected |-> TRUE]
MCOffered ==
  {MCCandidate("openrouter", "gpt", "balanced", 20), MCCandidate("openrouter", "sonnet", "deep", 20),
   MCCandidate("local", "llama", "local", 0),
   [provider |-> "openrouter", model |-> "blocked", family |-> "economy", cost |-> 1,
    selected |-> FALSE]}
MCAlphabetical == <<<<"local", "llama">>, <<"openrouter", "blocked">>,
                    <<"openrouter", "gpt">>, <<"openrouter", "sonnet">>>>

MCSemantics(workType, complexity, tools, target) ==
  [workType |-> workType, platform |-> "agnostic", complexity |-> complexity,
   target |-> target, tools |-> tools]
MCRequests ==
  {MCSemantics("docs", "low", "none", "auto"), MCSemantics("code", "high", "standard", "hosted"),
   MCSemantics("docs", "low", "none", "local")}

MCWeights == [success |-> 35, failure |-> 20, retry |-> 10, latency |-> 15, cost |-> 10, fit |-> 10]
MCMetadata == [t \in {"T1"} |-> [type |-> "docs", priority |-> "p1"]]

MCAttempt(ticket, route, result, error, retries, duration, cost, span) ==
  [ticket |-> ticket, provider |-> route[1], model |-> route[2], result |-> result,
   error |-> error, retries |-> retries, duration |-> duration, cost |-> cost, span |-> span]
MCRoute(model) == <<"openrouter", model>>
MCAttempts ==
  UNION {{MCAttempt("T1", MCRoute(m), "succeeded", Absent, 0, 1, 2, 0),
          MCAttempt("T2", MCRoute(m), "succeeded", Absent, 0, 4, 10, 1),
          MCAttempt("T1", MCRoute(m), "failed", "provider", 1, Unknown, Unknown, 1)} :
         m \in {"gpt", "sonnet"}} \cup
  {MCAttempt("T2", MCRoute("gpt"), "failed", "guardrail", 0, 5, 60, 0),
   MCAttempt("T1", <<"local", "llama">>, "succeeded", Absent, 0, 3, Unknown, 0),
   MCAttempt("T1", <<"local", "llama">>, "failed", "provider", 0, Unknown, Unknown, 0),
   MCAttempt("T2", <<Absent, Absent>>, "blocked", "guardrail", 0, Unknown, Unknown, 0)}
=============================================================================
