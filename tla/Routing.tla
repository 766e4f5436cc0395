------------------------------- MODULE Routing -------------------------------
(***************************************************************************)
(* From a ticket's frontmatter to the route of its execution: the          *)
(* classifier of src/higgs_agent/routing/classifier.py and the policy of   *)
(* src/higgs_agent/routing/policy.py.  A route is the family of the        *)
(* profile it selects; costs are whole units.                              *)
(***************************************************************************)
EXTENDS Integers

WorkTypes    == {"code", "refactor", "spec", "tests", "docs", "chore", "other"}
Platforms    == {"agnostic", "repo", "ios", "macos", "web"}  \* web: all no rule names
Complexities == {"low", "medium", "high"}
Targets      == {"auto", "hosted", "local"}
ToolProfiles == {"none", "standard", "extended"}

Semantics == [workType : WorkTypes, platform : Platforms, complexity : Complexities,
              target : Targets, tools : ToolProfiles]

HostedFamilies == {"economy", "balanced", "deep"}
Families       == HostedFamilies \cup {"local"}
Providers      == {"openrouter", "local"}

\* RouteGuardrails: the ceiling, and what each profile is configured to.
Guardrails == [maxCost : Nat, cost : [Families -> Nat], provider : [Families -> Providers]]

(***************************************************************************)
(* The classifier.  A field is absent, null, or a value; "invalid" stands  *)
(* for every value outside its set.                                        *)
(***************************************************************************)
Field(values) == values \cup {"absent", "null", "invalid"}

Frontmatter ==
  [workType : WorkTypes, priority : Field({"p0", "p1", "p2"}),
   platform : Field(Platforms), complexity : Field(Complexities),
   effort : {"absent", "xs", "s", "m", "l", "xl"},
   target : Field(Targets), tools : Field(ToolProfiles),
   schema : {"absent", "null", "1", "2"}]

\* payload.get(name) is None
Unset(value) == value \in {"absent", "null"}

\* ClassificationInputError.  An explicit null is a default for some fields
\* and an error for the target and the tool profile.
Unclassifiable(fm) ==
  \/ "invalid" \in {fm.priority, fm.platform, fm.complexity, fm.target, fm.tools}
  \/ "null" \in {fm.target, fm.tools}
  \/ fm.schema = "2"

EffortComplexity(effort) ==
  CASE effort \in {"xs", "s"} -> "low"
    [] effort = "l"           -> "high"
    [] OTHER                  -> "medium"

\* classify_ticket of a frontmatter that is not Unclassifiable.
Classify(fm) ==
  [workType   |-> fm.workType,
   platform   |-> IF Unset(fm.platform) THEN "agnostic" ELSE fm.platform,
   complexity |-> IF Unset(fm.complexity) THEN EffortComplexity(fm.effort) ELSE fm.complexity,
   target     |-> IF fm.target = "absent" THEN "auto" ELSE fm.target,
   tools      |-> IF fm.tools = "absent" THEN "standard" ELSE fm.tools]

(***************************************************************************)
(* The routing policy.                                                     *)
(***************************************************************************)
Selected(family) == [selected |-> TRUE, family |-> family, reason |-> "none"]
Blocked(reason)  == [selected |-> FALSE, family |-> "none", reason |-> reason]

\* The order _candidate_routes starts from.
PreferredOrder(sem) ==
  CASE sem.platform \in {"ios", "macos"} -> <<"balanced", "deep", "economy">>
    [] OTHER ->
       CASE sem.workType \in {"code", "refactor"} -> <<"deep", "balanced", "economy">>
         [] sem.workType \in {"spec", "tests"}    -> <<"balanced", "deep", "economy">>
         [] sem.workType \in {"docs", "chore"}    -> <<"economy", "balanced", "deep">>
         [] OTHER                                 -> <<"balanced", "economy", "deep">>

\* _promote_route_depth: the dearest profile, the first of equals, comes first
\* and the others keep their order.
Dearest(order, g) ==
  CHOOSE i \in DOMAIN order :
    \A j \in DOMAIN order :
      \/ g.cost[order[j]] < g.cost[order[i]]
      \/ g.cost[order[j]] = g.cost[order[i]] /\ i <= j

PromoteDepth(order, g) ==
  LET d == Dearest(order, g)
  IN  [i \in DOMAIN order |-> IF i = 1 THEN order[d]
                             ELSE IF i <= d THEN order[i - 1] ELSE order[i]]

Candidates(sem, g) ==
  IF sem.complexity = "high" THEN PromoteDepth(PreferredOrder(sem), g)
  ELSE PreferredOrder(sem)

\* _filter_tool_profile; only these families support extended tools.
SupportsExtended(family) == family \in {"balanced", "deep"}

PassesToolFilter(family, sem) == sem.tools = "extended" => SupportsExtended(family)

\* The first of the candidates at the given places.
FirstOf(order, places) ==
  IF places = {} THEN Blocked("no_route_within_cost_ceiling")
  ELSE Selected(order[CHOOSE i \in places : \A j \in places : i <= j])

\* Mutant: the cost ceiling only orders the candidates.
ChooseHostedDear(sem, g) ==
  LET order == Candidates(sem, g)
  IN  FirstOf(order, {i \in DOMAIN order : PassesToolFilter(order[i], sem)})

\* _choose_hosted_route
ChooseHosted(sem, g) ==
  LET order == Candidates(sem, g)
  IN  FirstOf(order, {i \in DOMAIN order : PassesToolFilter(order[i], sem)
                                           /\ g.cost[order[i]] <= g.maxCost})

\* _auto_local_rationale ends in auto_prefers_local.
AutoPrefersLocal(sem) ==
  /\ sem.tools = "none"
  /\ sem.platform \in {"agnostic", "repo"}
  /\ sem.workType \in {"docs", "chore", "spec"}
  /\ sem.complexity # "high"

\* Mutant: a local ticket without a local runtime goes hosted.
ChooseRouteDowngrading(sem, g, localEnabled) ==
  IF localEnabled /\ (sem.target = "local" \/ (sem.target = "auto" /\ AutoPrefersLocal(sem)))
  THEN Selected("local") ELSE ChooseHosted(sem, g)

\* choose_route
ChooseRoute(sem, g, localEnabled) ==
  CASE sem.target = "local" /\ ~localEnabled ->
         Blocked("local_execution_not_configured")
    [] sem.target = "local" /\ localEnabled /\ sem.tools # "none" ->
         Blocked("local_execution_requires_toolless_route")
    [] sem.target = "local" /\ localEnabled /\ sem.tools = "none" ->
         Selected("local")
    [] sem.target = "auto" /\ localEnabled /\ AutoPrefersLocal(sem) ->
         Selected("local")
    [] OTHER -> ChooseHosted(sem, g)
=============================================================================
