------------------------ MODULE HybridDispatch_proofs ------------------------
(***************************************************************************)
(* Theorems about ProviderExecutor, and about HybridDispatch, which runs   *)
(* it, for all tickets, configurations, limits and providers.  What the    *)
(* loop of a hosted execution has asked, lost and retried can be read off  *)
(* the event stream at every step, and so can what the tools were allowed; *)
(* a dispatch takes the same steps and keeps that invariant as it stands.  *)
(***************************************************************************)
EXTENDS HybridDispatch, FunctionTheorems, FiniteSetTheorems, SequenceTheorems, TLAPS

(***************************************************************************)
(* Counting in an event stream.                                            *)
(***************************************************************************)
\* The positions of an event in a stream.
Where(s, e) == {i \in DOMAIN s : s[i] = e}

\* One more event is one more position of that event, and of no other.
LEMMA WhereAppended ==
  ASSUME NEW s \in Seq(Events), NEW e \in Events, NEW x
  PROVE  /\ s \o <<e>> \in Seq(Events)
         /\ IsFiniteSet(Where(s, x))
         /\ Where(s, x) \subseteq 1 .. Len(s)
         /\ Where(s \o <<e>>, x) = Where(s, x) \cup (IF x = e THEN {Len(s) + 1} ELSE {})
         /\ Cardinality(Where(s, x)) \in Nat
         /\ Cardinality(Where(s \o <<e>>, x)) =
              Cardinality(Where(s, x)) + (IF x = e THEN 1 ELSE 0)
PROOF
<1>1. Where(s, x) \subseteq 1 .. Len(s)
  BY DEF Where
<1>2. IsFiniteSet(Where(s, x)) /\ Cardinality(Where(s, x)) \in Nat
  <2>1. Len(s) \in Int
    OBVIOUS
  <2>2. IsFiniteSet(1 .. Len(s))
    BY <2>1, FS_Interval
  <2>3. IsFiniteSet(Where(s, x))
    BY <1>1, <2>2, FS_Subset
  <2> QED
    BY <2>3, FS_CardinalityType
<1>3. /\ s \o <<e>> \in Seq(Events) /\ Len(s \o <<e>>) = Len(s) + 1
      /\ \A i \in 1 .. Len(s) : (s \o <<e>>)[i] = s[i]
      /\ (s \o <<e>>)[Len(s) + 1] = e
  OBVIOUS
<1>4. Where(s \o <<e>>, x) = Where(s, x) \cup (IF x = e THEN {Len(s) + 1} ELSE {})
  <2> DEFINE t == s \o <<e>>
  <2>1. /\ DOMAIN t = 1 .. Len(s) + 1 /\ DOMAIN s = 1 .. Len(s)
        /\ \A i \in 1 .. Len(s) : t[i] = s[i]
        /\ t[Len(s) + 1] = e
        /\ Len(s) \in Nat
    BY <1>3
  <2> HIDE DEF t
  <2>2. Where(t, x) = Where(s, x) \cup (IF x = e THEN {Len(s) + 1} ELSE {})
    BY <2>1 DEF Where
  <2> QED
    BY <2>2 DEF t
<1>5. Cardinality(Where(s, x) \cup {Len(s) + 1}) = Cardinality(Where(s, x)) + 1
  <2>1. Len(s) + 1 \notin Where(s, x)
    BY <1>1
  <2> QED
    BY <1>2, <2>1, FS_AddElement
<1>6. Cardinality(Where(s \o <<e>>, x)) =
        Cardinality(Where(s, x)) + (IF x = e THEN 1 ELSE 0)
  <2>1. CASE x = e
    BY <1>4, <1>5, <2>1
  <2>2. CASE x # e
    <3>1. Where(s \o <<e>>, x) = Where(s, x)
      BY <1>4, <2>2
    <3> QED
      BY <1>2, <2>2, <3>1
  <2> QED
    BY <2>1, <2>2
<1> QED
  BY <1>1, <1>2, <1>3, <1>4, <1>6

LEMMA PairConcat ==
  ASSUME NEW d \in Events, NEW e \in Events
  PROVE  <<d, e>> = <<d>> \o <<e>>
PROOF
<1> DEFINE u == <<d, e>>
           v == <<d>> \o <<e>>
<1>1. u \in Seq(Events) /\ Len(u) = 2 /\ u[1] = d /\ u[2] = e
  OBVIOUS
<1>2. v \in Seq(Events) /\ Len(v) = 2 /\ v[1] = d /\ v[2] = e
  OBVIOUS
<1> HIDE DEF u, v
<1>3. \A i \in 1 .. Len(u) : u[i] = v[i]
  BY <1>1, <1>2
<1>4. u = v
  BY <1>1, <1>2, <1>3, SeqEqual
<1> QED
  BY <1>4 DEF u, v

\* What an event adds to the count and to the places of the event <<t, s>>.
Tick(type, status, t, s) == IF type = t /\ status = s THEN 1 ELSE 0
Spot(type, status, t, s, n) == IF type = t /\ status = s THEN {n} ELSE {}

LEMMA Named ==
  /\ "provider.requested" \in EventTypes /\ "provider.responded" \in EventTypes
  /\ "retry.scheduled" \in EventTypes /\ "tool.call.started" \in EventTypes
  /\ "guardrails.checked" \in EventTypes
  /\ "started" \in EventStatuses /\ "succeeded" \in EventStatuses
  /\ "failed" \in EventStatuses /\ "retry_scheduled" \in EventStatuses
PROOF
BY DEF EventTypes, EventStatuses

LEMMA EventsEqual ==
  ASSUME NEW type \in EventTypes, NEW status \in EventStatuses, NEW t \in EventTypes, NEW s \in EventStatuses
  PROVE  /\ Event(type, status) \in Events /\ Event(type, status).type = type
         /\ (Event(t, s) = Event(type, status)) <=> (type = t /\ status = s)
PROOF
BY DEF Event, Events

LEMMA PlacesType ==
  ASSUME events \in Seq(Events), NEW t \in EventTypes, NEW s \in EventStatuses
  PROVE  /\ Places(t, s) = Where(events, Event(t, s))
         /\ Places(t, s) \subseteq 1 .. Len(events)
         /\ Count(t, s) \in Nat
         /\ Places(t, s) = {} => Count(t, s) = 0
PROOF
<1>1. Event(t, s) \in Events
  BY EventsEqual
<1>2. Places(t, s) = Where(events, Event(t, s))
  BY DEF Places, Where
<1>3. Places(t, s) \subseteq 1 .. Len(events) /\ IsFiniteSet(Places(t, s))
  <2>1. Where(events, Event(t, s)) \subseteq 1 .. Len(events)
    BY DEF Where
  <2>2. IsFiniteSet(1 .. Len(events))
    BY FS_Interval
  <2> QED
    BY <1>2, <2>1, <2>2, FS_Subset
<1>4. Cardinality(Places(t, s)) \in Nat
  BY <1>3, FS_CardinalityType
<1>5. Places(t, s) = {} => Cardinality(Places(t, s)) = 0
  BY FS_EmptySet
<1> QED
  BY <1>2, <1>3, <1>4, <1>5 DEF Count

\* What Emit does to the places and the count of an event, for one event
\* and for two.
LEMMA EmitOne ==
  ASSUME events \in Seq(Events), NEW type \in EventTypes, NEW status \in EventStatuses,
         Emit(<<Event(type, status)>>), NEW t \in EventTypes, NEW s \in EventStatuses
  PROVE  /\ Places(t, s)' = Places(t, s) \cup Spot(type, status, t, s, Len(events) + 1)
         /\ Count(t, s)' = Count(t, s) + Tick(type, status, t, s)
PROOF
<1> DEFINE e == Event(type, status)
           x == Event(t, s)
<1>1. e \in Events /\ x \in Events /\ ((x = e) <=> (type = t /\ status = s))
  BY EventsEqual
<1>2. /\ Places(t, s) = Where(events, x)
      /\ Places(t, s)' = Where(events \o <<e>>, x)
  BY DEF Places, Where, Emit
<1>3. /\ Count(t, s) = Cardinality(Places(t, s))
      /\ Count(t, s)' = Cardinality(Places(t, s)')
  BY DEF Count
<1> HIDE DEF e, x
<1>4. /\ Where(events \o <<e>>, x) =
           Where(events, x) \cup (IF x = e THEN {Len(events) + 1} ELSE {})
      /\ Cardinality(Where(events \o <<e>>, x)) =
           Cardinality(Where(events, x)) + (IF x = e THEN 1 ELSE 0)
  BY <1>1, WhereAppended
<1>5. CASE type = t /\ status = s
  BY <1>1, <1>2, <1>3, <1>4, <1>5 DEF Spot, Tick
<1>6. CASE ~(type = t /\ status = s)
  BY <1>1, <1>2, <1>3, <1>4, <1>6 DEF Spot, Tick
<1> QED
  BY <1>5, <1>6

LEMMA EmitTwo ==
  ASSUME events \in Seq(Events), NEW type \in EventTypes, NEW status \in EventStatuses,
         NEW type2 \in EventTypes, NEW status2 \in EventStatuses,
         Emit(<<Event(type, status), Event(type2, status2)>>),
         NEW t \in EventTypes, NEW s \in EventStatuses
  PROVE  /\ Places(t, s)' = (Places(t, s)
                               \cup Spot(type, status, t, s, Len(events) + 1))
                               \cup Spot(type2, status2, t, s, Len(events) + 2)
         /\ Count(t, s)' = Count(t, s) + Tick(type, status, t, s)
                                       + Tick(type2, status2, t, s)
PROOF
<1> DEFINE d == Event(type, status)
           e == Event(type2, status2)
           x == Event(t, s)
           half == events \o <<d>>
<1>1. /\ d \in Events /\ e \in Events /\ x \in Events
      /\ (x = d) <=> (type = t /\ status = s)
      /\ (x = e) <=> (type2 = t /\ status2 = s)
  BY EventsEqual
<1>2. /\ Places(t, s) = Where(events, x)
      /\ Places(t, s)' = Where(events', x)
  BY DEF Places, Where
<1>3. /\ Count(t, s) = Cardinality(Places(t, s))
      /\ Count(t, s)' = Cardinality(Places(t, s)')
  BY DEF Count
<1>4. events' = events \o <<d, e>>
  BY DEF Emit
<1> HIDE DEF d, e, x
<1>5. half \in Seq(Events) /\ Len(half) = Len(events) + 1
  BY <1>1
<1>6. events' = half \o <<e>>
  <2>1. <<d>> \in Seq(Events) /\ <<e>> \in Seq(Events)
    BY <1>1
  <2>2. <<d, e>> = <<d>> \o <<e>>
    BY <1>1, PairConcat
  <2> QED
    BY <1>4, <2>1, <2>2, ConcatAssociative
<1>7. /\ Where(half, x) = Where(events, x) \cup (IF x = d THEN {Len(events) + 1} ELSE {})
      /\ Cardinality(Where(half, x)) = Cardinality(Where(events, x)) + (IF x = d THEN 1 ELSE 0)
      /\ Cardinality(Where(events, x)) \in Nat
  BY <1>1, WhereAppended
<1> HIDE DEF half
<1>8. /\ Where(half \o <<e>>, x) = Where(half, x) \cup (IF x = e THEN {Len(half) + 1} ELSE {})
      /\ Cardinality(Where(half \o <<e>>, x)) =
           Cardinality(Where(half, x)) + (IF x = e THEN 1 ELSE 0)
  BY <1>1, <1>5, WhereAppended
<1>9. (IF x = d THEN {Len(events) + 1} ELSE {}) = Spot(type, status, t, s, Len(events) + 1)
      /\ (IF x = e THEN {Len(events) + 2} ELSE {}) = Spot(type2, status2, t, s, Len(events) + 2)
      /\ (IF x = d THEN 1 ELSE 0) = Tick(type, status, t, s)
      /\ (IF x = e THEN 1 ELSE 0) = Tick(type2, status2, t, s)
  BY <1>1 DEF Spot, Tick
<1>10. Len(half) + 1 = Len(events) + 2
  BY <1>5
<1> QED
  BY <1>2, <1>3, <1>6, <1>7, <1>8, <1>9, <1>10

(***************************************************************************)
(* What the proofs call the counts and places of execute's own events.     *)
(***************************************************************************)
Asked    == Count("provider.requested", "started")
Lost     == Count("provider.responded", "failed")
Answered == Count("provider.responded", "succeeded")
Delayed  == Count("retry.scheduled", "retry_scheduled")
Tooled   == Count("tool.call.started", "started")

Asks    == Places("provider.requested", "started")
Refused == Places("guardrails.checked", "failed")
Passed  == Places("guardrails.checked", "succeeded")
Started == Places("tool.call.started", "started")

(***************************************************************************)
(* The inductive invariant.  Between two steps of the loop the stream      *)
(* holds one request per attempt begun, one failed response and one retry  *)
(* per attempt lost; what happens at the end depends on how it ended.      *)
(***************************************************************************)
InLoop == pc \in {"attempt", "waiting", "guardrails", "tools"}

Failed == pc = "fail" \/ result = "failed"

\* An attempt is under way, or was when execute ended.
Attempted == Asked = index + 1 /\ index < MaxAttempts /\ retries = index

LoopInvariant ==
  /\ retries = Delayed
  /\ error.retryable => error.kind \in {"timeout", "provider"}
  /\ pc = "created" =>
       Asked = 0 /\ Lost = 0 /\ index = 0 /\ retries = 0 /\ error = NoError
  /\ InLoop =>
       /\ input.routed /\ (input.tools => input.allowTools)
       /\ retries = index /\ Lost = index
       /\ error.kind \in {"none", "timeout", "provider"}
       /\ index > 0 => index < MaxAttempts /\ error.retryable
       /\ pc = "attempt" => Asked = index
       /\ pc # "attempt" => Attempted
  /\ pc = "tools" => ~OverBudget(response)

EndInvariant ==
  /\ Failed =>
       \/ Asked = 0 /\ retries = 0 /\ Lost = 0 /\ error = Failure("internal", FALSE)
       \/ /\ Attempted
          /\ error.kind \in {"timeout", "provider"} => Lost = Asked
          /\ error.kind \in {"guardrail", "tool"} => Lost = index
          /\ error.kind \in {"timeout", "provider", "guardrail", "tool"}
          /\ error.retryable => Asked = MaxAttempts
  /\ result = "succeeded" =>
       Attempted /\ Lost = index /\ Answered = 1 /\ ~OverBudget(response) /\ ~Failed
  /\ result # "succeeded" => Answered = 0
  /\ result = "blocked" => Asked = 0 /\ Lost = 0 /\ retries = 0 /\ error = NoError
  /\ result = "raised" => Asked = 0 \/ Attempted
  /\ Returned => events # << >> /\ Last(events).type = "execution.completed"

ToolInvariant ==
  /\ pc \in {"created", "attempt", "waiting", "guardrails"} => Started = {}
  /\ pc = "tools" => Tooled + response.toolCalls <= MaxToolCalls /\ Passed # {}
  /\ Tooled <= MaxToolCalls
  /\ Started # {} => input.allowTools /\ input.routed
  /\ \A i \in Started : \E j \in Passed : j < i
  /\ pc \notin {"fail", "done"} => Refused = {}
  /\ \A i \in Refused, j \in Asks : j < i

ExecutorInvariant == TypeOK /\ LoopInvariant /\ EndInvariant /\ ToolInvariant

(***************************************************************************)
(* The counts after a step.                                                *)
(***************************************************************************)
\* The counts are numbers, and a place is a position of the stream.
CountsType ==
  /\ Asked \in Nat /\ Lost \in Nat /\ Answered \in Nat /\ Delayed \in Nat /\ Tooled \in Nat
  /\ Asks \subseteq 1 .. Len(events) /\ Refused \subseteq 1 .. Len(events)
  /\ Passed \subseteq 1 .. Len(events) /\ Started \subseteq 1 .. Len(events)
  /\ Len(events) \in Nat
  /\ Started = {} => Tooled = 0

LEMMA Counts == TypeOK => CountsType
PROOF
<1> SUFFICES ASSUME TypeOK PROVE CountsType
  OBVIOUS
<1>1. events \in Seq(Events) /\ Len(events) \in Nat
  BY DEF TypeOK
<1>2. Asked \in Nat /\ Asks \subseteq 1 .. Len(events)
  BY <1>1, PlacesType, Named DEF Asked, Asks
<1>3. Lost \in Nat /\ Answered \in Nat
  BY <1>1, PlacesType, Named DEF Lost, Answered
<1>4. Delayed \in Nat
  BY <1>1, PlacesType, Named DEF Delayed
<1>5. Tooled \in Nat /\ Started \subseteq 1 .. Len(events) /\ (Started = {} => Tooled = 0)
  BY <1>1, PlacesType, Named DEF Tooled, Started
<1>6. Refused \subseteq 1 .. Len(events) /\ Passed \subseteq 1 .. Len(events)
  BY <1>1, PlacesType, Named DEF Refused, Passed
<1> QED
  BY <1>1, <1>2, <1>3, <1>4, <1>5, <1>6 DEF CountsType

\* A step that emits nothing changes no count.
Unmoved ==
  /\ UNCHANGED events
  /\ Asked' = Asked /\ Lost' = Lost /\ Answered' = Answered /\ Delayed' = Delayed
  /\ Tooled' = Tooled
  /\ Asks' = Asks /\ Refused' = Refused /\ Passed' = Passed /\ Started' = Started

LEMMA Silent == UNCHANGED events => Unmoved
PROOF
BY DEF Unmoved, Asked, Lost, Answered, Delayed, Tooled, Asks, Refused, Passed, Started,
       Count, Places

\* What a step that emits one event does to the stream and its counts.
OneMore(type, status) ==
  /\ events' \in Seq(Events) /\ events' # << >> /\ Last(events').type = type
  /\ Asked' = Asked + Tick(type, status, "provider.requested", "started")
  /\ Lost' = Lost + Tick(type, status, "provider.responded", "failed")
  /\ Answered' = Answered + Tick(type, status, "provider.responded", "succeeded")
  /\ Delayed' = Delayed + Tick(type, status, "retry.scheduled", "retry_scheduled")
  /\ Tooled' = Tooled + Tick(type, status, "tool.call.started", "started")
  /\ Asks' = Asks \cup
          Spot(type, status, "provider.requested", "started", Len(events) + 1)
  /\ Refused' = Refused \cup
          Spot(type, status, "guardrails.checked", "failed", Len(events) + 1)
  /\ Passed' = Passed \cup
          Spot(type, status, "guardrails.checked", "succeeded", Len(events) + 1)
  /\ Started' = Started \cup
          Spot(type, status, "tool.call.started", "started", Len(events) + 1)

LEMMA OneEvent ==
  ASSUME TypeOK, NEW type \in EventTypes, NEW status \in EventStatuses, Emit(<<Event(type, status)>>)
  PROVE  OneMore(type, status)
PROOF
<1>1. events \in Seq(Events)
  BY DEF TypeOK
<1>2. events' \in Seq(Events) /\ events' # << >> /\ Last(events').type = type
  <2> DEFINE e == Event(type, status)
  <2>1. e \in Events /\ e.type = type
    BY EventsEqual
  <2>2. events' = events \o <<e>>
    BY DEF Emit
  <2> HIDE DEF e
  <2>3. events' \in Seq(Events) /\ Len(events') = Len(events) + 1 /\ events'[Len(events')] = e
    BY <1>1, <2>1, <2>2
  <2> QED
    BY <1>1, <2>1, <2>3 DEF Last
<1>3. Asked' = Asked + Tick(type, status, "provider.requested", "started")
  BY <1>1, EmitOne, Named DEF Asked
<1>4. Lost' = Lost + Tick(type, status, "provider.responded", "failed")
  BY <1>1, EmitOne, Named DEF Lost
<1>5. Answered' = Answered + Tick(type, status, "provider.responded", "succeeded")
  BY <1>1, EmitOne, Named DEF Answered
<1>6. Delayed' = Delayed + Tick(type, status, "retry.scheduled", "retry_scheduled")
  BY <1>1, EmitOne, Named DEF Delayed
<1>7. Tooled' = Tooled + Tick(type, status, "tool.call.started", "started")
  BY <1>1, EmitOne, Named DEF Tooled
<1>8. Asks' = Asks \cup
        Spot(type, status, "provider.requested", "started", Len(events) + 1)
  BY <1>1, EmitOne, Named DEF Asks
<1>9. Refused' = Refused \cup
        Spot(type, status, "guardrails.checked", "failed", Len(events) + 1)
  BY <1>1, EmitOne, Named DEF Refused
<1>10. Passed' = Passed \cup
         Spot(type, status, "guardrails.checked", "succeeded", Len(events) + 1)
  BY <1>1, EmitOne, Named DEF Passed
<1>11. Started' = Started \cup
         Spot(type, status, "tool.call.started", "started", Len(events) + 1)
  BY <1>1, EmitOne, Named DEF Started
<1> QED
  BY <1>2, <1>3, <1>4, <1>5, <1>6, <1>7, <1>8, <1>9, <1>10, <1>11 DEF OneMore

\* And a step that emits two.
TwoMore(type, status, type2, status2) ==
  /\ events' \in Seq(Events) /\ events' # << >> /\ Last(events').type = type2
  /\ Asked' = Asked + Tick(type, status, "provider.requested", "started")
                       + Tick(type2, status2, "provider.requested", "started")
  /\ Lost' = Lost + Tick(type, status, "provider.responded", "failed")
                     + Tick(type2, status2, "provider.responded", "failed")
  /\ Answered' = Answered + Tick(type, status, "provider.responded", "succeeded")
                             + Tick(type2, status2, "provider.responded", "succeeded")
  /\ Delayed' = Delayed + Tick(type, status, "retry.scheduled", "retry_scheduled")
                           + Tick(type2, status2, "retry.scheduled", "retry_scheduled")
  /\ Tooled' = Tooled + Tick(type, status, "tool.call.started", "started")
                         + Tick(type2, status2, "tool.call.started", "started")
  /\ Asks' = (Asks \cup
          Spot(type, status, "provider.requested", "started", Len(events) + 1)) \cup
          Spot(type2, status2, "provider.requested", "started", Len(events) + 2)
  /\ Refused' = (Refused \cup
          Spot(type, status, "guardrails.checked", "failed", Len(events) + 1)) \cup
          Spot(type2, status2, "guardrails.checked", "failed", Len(events) + 2)
  /\ Passed' = (Passed \cup
          Spot(type, status, "guardrails.checked", "succeeded", Len(events) + 1)) \cup
          Spot(type2, status2, "guardrails.checked", "succeeded", Len(events) + 2)
  /\ Started' = (Started \cup
          Spot(type, status, "tool.call.started", "started", Len(events) + 1)) \cup
          Spot(type2, status2, "tool.call.started", "started", Len(events) + 2)

LEMMA TwoEvents ==
  ASSUME TypeOK, NEW type \in EventTypes, NEW status \in EventStatuses,
         NEW type2 \in EventTypes, NEW status2 \in EventStatuses,
         Emit(<<Event(type, status), Event(type2, status2)>>)
  PROVE  TwoMore(type, status, type2, status2)
PROOF
<1>1. events \in Seq(Events)
  BY DEF TypeOK
<1>2. events' \in Seq(Events) /\ events' # << >> /\ Last(events').type = type2
  <2> DEFINE d == Event(type, status)
             e == Event(type2, status2)
  <2>1. d \in Events /\ e \in Events /\ e.type = type2
    BY EventsEqual
  <2>2. events' = events \o <<d, e>>
    BY DEF Emit
  <2> HIDE DEF d, e
  <2>3. events' \in Seq(Events) /\ Len(events') = Len(events) + 2 /\ events'[Len(events')] = e
    BY <1>1, <2>1, <2>2
  <2> QED
    BY <1>1, <2>1, <2>3 DEF Last
<1>3. Asked' = Asked + Tick(type, status, "provider.requested", "started")
                     + Tick(type2, status2, "provider.requested", "started")
  BY <1>1, EmitTwo, Named DEF Asked
<1>4. Lost' = Lost + Tick(type, status, "provider.responded", "failed")
                   + Tick(type2, status2, "provider.responded", "failed")
  BY <1>1, EmitTwo, Named DEF Lost
<1>5. Answered' = Answered + Tick(type, status, "provider.responded", "succeeded")
                           + Tick(type2, status2, "provider.responded", "succeeded")
  BY <1>1, EmitTwo, Named DEF Answered
<1>6. Delayed' = Delayed + Tick(type, status, "retry.scheduled", "retry_scheduled")
                         + Tick(type2, status2, "retry.scheduled", "retry_scheduled")
  BY <1>1, EmitTwo, Named DEF Delayed
<1>7. Tooled' = Tooled + Tick(type, status, "tool.call.started", "started")
                       + Tick(type2, status2, "tool.call.started", "started")
  BY <1>1, EmitTwo, Named DEF Tooled
<1>8. Asks' = (Asks \cup
        Spot(type, status, "provider.requested", "started", Len(events) + 1)) \cup
        Spot(type2, status2, "provider.requested", "started", Len(events) + 2)
  BY <1>1, EmitTwo, Named DEF Asks
<1>9. Refused' = (Refused \cup
        Spot(type, status, "guardrails.checked", "failed", Len(events) + 1)) \cup
        Spot(type2, status2, "guardrails.checked", "failed", Len(events) + 2)
  BY <1>1, EmitTwo, Named DEF Refused
<1>10. Passed' = (Passed \cup
         Spot(type, status, "guardrails.checked", "succeeded", Len(events) + 1)) \cup
         Spot(type2, status2, "guardrails.checked", "succeeded", Len(events) + 2)
  BY <1>1, EmitTwo, Named DEF Passed
<1>11. Started' = (Started \cup
         Spot(type, status, "tool.call.started", "started", Len(events) + 1)) \cup
         Spot(type2, status2, "tool.call.started", "started", Len(events) + 2)
  BY <1>1, EmitTwo, Named DEF Started
<1> QED
  BY <1>2, <1>3, <1>4, <1>5, <1>6, <1>7, <1>8, <1>9, <1>10, <1>11 DEF TwoMore

(***************************************************************************)
(* The steps of execute.                                                   *)
(***************************************************************************)
LEMMA Emitted ==
  /\ "execution.created" \in EventTypes /\ "execution.completed" \in EventTypes
  /\ "tool.call.completed" \in EventTypes
  /\ "blocked" \in EventStatuses /\ "completed" \in EventStatuses
PROOF
BY DEF EventTypes, EventStatuses

LEMMA ExecutorInit == Init => ExecutorInvariant
PROOF
<1> SUFFICES ASSUME Init PROVE ExecutorInvariant
  OBVIOUS
<1>1. TypeOK
  <2>1. NoResponse \in Responses
    BY ExecutorAssumption DEF NoResponse, Responses, Tokens, Costs
  <2>2. events \in Seq(Events)
    BY DEF Init
  <2> QED
    BY <2>1, <2>2 DEF Init, TypeOK, NoError, Failure, Errors
<1>2. \A t, s : Places(t, s) = {} /\ Count(t, s) = 0
  BY FS_EmptySet DEF Init, Places, Count
<1>3. /\ Asked = 0 /\ Lost = 0 /\ Answered = 0 /\ Delayed = 0 /\ Tooled = 0
      /\ Asks = {} /\ Refused = {} /\ Passed = {} /\ Started = {}
  BY <1>2 DEF Asked, Lost, Answered, Delayed, Tooled, Asks, Refused, Passed, Started
<1>4. LoopInvariant
  BY <1>3 DEF Init, LoopInvariant, InLoop, NoError, Failure
<1>5. EndInvariant
  BY <1>3 DEF Init, EndInvariant, Failed, Returned
<1>6. ToolInvariant
  BY <1>3, ExecutorAssumption DEF Init, ToolInvariant
<1> QED
  BY <1>1, <1>4, <1>5, <1>6 DEF ExecutorInvariant

LEMMA ExecutorStep == ExecutorInvariant /\ Next => ExecutorInvariant'
PROOF
<1> SUFFICES ASSUME ExecutorInvariant, Next PROVE ExecutorInvariant'
  OBVIOUS
<1>1. /\ TypeOK /\ LoopInvariant /\ EndInvariant /\ ToolInvariant /\ CountsType
      /\ pc # "done" => result = "none"
      /\ index \in Nat /\ MaxAttempts \in Int
      /\ response.toolCalls \in Nat /\ MaxToolCalls \in Nat
  <2>1. TypeOK /\ LoopInvariant /\ EndInvariant /\ ToolInvariant /\ CountsType
    BY Counts DEF ExecutorInvariant
  <2>2. response.toolCalls \in Nat /\ MaxToolCalls \in Nat
    BY <2>1, ExecutorAssumption DEF TypeOK, Responses
  <2>3. MaxAttempts \in Int
    BY <2>1, ExecutorAssumption DEF TypeOK, Inputs, MaxAttempts
  <2> QED
    BY <2>1, <2>2, <2>3 DEF TypeOK
<1> USE DEF CountsType, InLoop, Attempted, Failed, Returned, Failure, NoError, MaxAttempts
<1>2. CASE Block
  <2>1. TwoMore("execution.created", "started", "execution.completed", "blocked")
    BY <1>1, <1>2, TwoEvents, Named, Emitted DEF Block
  <2>2. TypeOK'
    BY <1>1, <1>2, <2>1 DEF Block, TypeOK, Errors, TwoMore
  <2>3. LoopInvariant'
    BY <1>1, <1>2, <2>1 DEF Block, LoopInvariant, TwoMore, Tick
  <2>4. EndInvariant'
    BY <1>1, <1>2, <2>1 DEF Block, LoopInvariant, EndInvariant, TwoMore, Tick
  <2>5. ToolInvariant'
    BY <1>1, <1>2, <2>1 DEF Block, LoopInvariant, ToolInvariant, TwoMore, Tick, Spot
  <2> QED
    BY <2>2, <2>3, <2>4, <2>5 DEF ExecutorInvariant
<1>3. CASE RaiseToolsDisabled
  <2>1. Unmoved
    BY <1>3, Silent DEF RaiseToolsDisabled
  <2>2. TypeOK'
    BY <1>1, <1>3, <2>1 DEF RaiseToolsDisabled, TypeOK, Errors, Unmoved
  <2>3. LoopInvariant'
    BY <1>1, <1>3, <2>1 DEF RaiseToolsDisabled, LoopInvariant, Unmoved
  <2>4. EndInvariant'
    BY <1>1, <1>3, <2>1 DEF RaiseToolsDisabled, LoopInvariant, EndInvariant, Unmoved
  <2>5. ToolInvariant'
    BY <1>1, <1>3, <2>1 DEF RaiseToolsDisabled, LoopInvariant, ToolInvariant, Unmoved
  <2> QED
    BY <2>2, <2>3, <2>4, <2>5 DEF ExecutorInvariant
<1>4. CASE BeginAttempts
  <2>1. TwoMore("execution.created", "started", "guardrails.checked", "started")
    BY <1>1, <1>4, TwoEvents, Named, Emitted DEF BeginAttempts
  <2>2. TypeOK'
    BY <1>1, <1>4, <2>1 DEF BeginAttempts, TypeOK, Errors, TwoMore
  <2>3. LoopInvariant'
    BY <1>1, <1>4, <2>1 DEF BeginAttempts, LoopInvariant, TwoMore, Tick
  <2>4. EndInvariant'
    BY <1>1, <1>4, <2>1 DEF BeginAttempts, LoopInvariant, EndInvariant, TwoMore, Tick
  <2>5. ToolInvariant'
    BY <1>1, <1>4, <2>1 DEF BeginAttempts, LoopInvariant, ToolInvariant, TwoMore, Tick, Spot
  <2> QED
    BY <2>2, <2>3, <2>4, <2>5 DEF ExecutorInvariant
<1>5. CASE Request
  <2>1. OneMore("provider.requested", "started")
    BY <1>1, <1>5, OneEvent, Named, Emitted DEF Request
  <2>2. TypeOK'
    BY <1>1, <1>5, <2>1 DEF Request, TypeOK, Errors, OneMore
  <2>3. LoopInvariant'
    BY <1>1, <1>5, <2>1 DEF Request, LoopInvariant, OneMore, Tick
  <2>4. EndInvariant'
    BY <1>1, <1>5, <2>1 DEF Request, LoopInvariant, EndInvariant, OneMore, Tick
  <2>5. ToolInvariant'
    BY <1>1, <1>5, <2>1 DEF Request, LoopInvariant, ToolInvariant, OneMore, Tick, Spot
  <2> QED
    BY <2>2, <2>3, <2>4, <2>5 DEF ExecutorInvariant
<1>6. CASE FallThrough
  <2>1. Unmoved
    BY <1>6, Silent DEF FallThrough
  <2>2. TypeOK'
    BY <1>1, <1>6, <2>1 DEF FallThrough, TypeOK, Errors, Unmoved
  <2>3. LoopInvariant'
    BY <1>1, <1>6, <2>1 DEF FallThrough, LoopInvariant, Unmoved
  <2>4. EndInvariant'
    BY <1>1, <1>6, <2>1 DEF FallThrough, LoopInvariant, EndInvariant, Unmoved
  <2>5. ToolInvariant'
    BY <1>1, <1>6, <2>1 DEF FallThrough, LoopInvariant, ToolInvariant, Unmoved
  <2> QED
    BY <2>2, <2>3, <2>4, <2>5 DEF ExecutorInvariant
<1>7. ASSUME NEW kind \in {"timeout", "provider"}, TransportFails(kind) PROVE ExecutorInvariant'
  <2>1. CASE index < MaxAttempts - 1
    <3>1. TwoMore("provider.responded", "failed", "retry.scheduled", "retry_scheduled")
      BY <1>1, <1>7, <2>1, TwoEvents, Named, Emitted DEF TransportFails
    <3>2. TypeOK'
      BY <1>1, <1>7, <2>1, <3>1 DEF TransportFails, TypeOK, Errors, TwoMore
    <3>3. LoopInvariant'
      BY <1>1, <1>7, <2>1, <3>1 DEF TransportFails, LoopInvariant, TwoMore, Tick
    <3>4. EndInvariant'
      BY <1>1, <1>7, <2>1, <3>1 DEF TransportFails, LoopInvariant, EndInvariant, TwoMore, Tick
    <3>5. ToolInvariant'
      BY <1>1, <1>7, <2>1, <3>1 DEF TransportFails, LoopInvariant, ToolInvariant, TwoMore, Tick, Spot
    <3> QED
      BY <3>2, <3>3, <3>4, <3>5 DEF ExecutorInvariant
  <2>2. CASE ~(index < MaxAttempts - 1)
    <3>1. OneMore("provider.responded", "failed")
      BY <1>1, <1>7, <2>2, OneEvent, Named, Emitted DEF TransportFails
    <3>2. TypeOK'
      BY <1>1, <1>7, <2>2, <3>1 DEF TransportFails, TypeOK, Errors, OneMore
    <3>3. LoopInvariant'
      BY <1>1, <1>7, <2>2, <3>1 DEF TransportFails, LoopInvariant, OneMore, Tick
    <3>4. EndInvariant'
      <4>1. /\ Asked = index + 1 /\ index + 1 = MaxAttempts
            /\ Lost = index /\ retries = index /\ Answered = 0
        BY <1>1, <1>7, <2>2 DEF TransportFails, LoopInvariant, EndInvariant
      <4>2. /\ Asked' = Asked /\ Lost' = index + 1 /\ Answered' = 0
            /\ error' = [kind |-> kind, retryable |-> TRUE]
            /\ UNCHANGED <<index, retries, input, result>> /\ pc' = "fail"
        BY <1>1, <1>7, <2>2, <3>1, <4>1 DEF TransportFails, OneMore, Tick
      <4> QED
        BY <1>1, <1>7, <4>1, <4>2 DEF TransportFails, EndInvariant
    <3>5. ToolInvariant'
      BY <1>1, <1>7, <2>2, <3>1 DEF TransportFails, LoopInvariant, ToolInvariant, OneMore, Tick, Spot
    <3> QED
      BY <3>2, <3>3, <3>4, <3>5 DEF ExecutorInvariant
  <2> QED
    BY <2>1, <2>2
<1>8. CASE MalformedResponse
  <2>1. OneMore("provider.responded", "failed")
    BY <1>1, <1>8, OneEvent, Named, Emitted DEF MalformedResponse
  <2>2. TypeOK'
    BY <1>1, <1>8, <2>1 DEF MalformedResponse, TypeOK, Errors, OneMore
  <2>3. LoopInvariant'
    BY <1>1, <1>8, <2>1 DEF MalformedResponse, LoopInvariant, OneMore, Tick
  <2>4. EndInvariant'
    BY <1>1, <1>8, <2>1 DEF MalformedResponse, LoopInvariant, EndInvariant, OneMore, Tick
  <2>5. ToolInvariant'
    BY <1>1, <1>8, <2>1 DEF MalformedResponse, LoopInvariant, ToolInvariant, OneMore, Tick, Spot
  <2> QED
    BY <2>2, <2>3, <2>4, <2>5 DEF ExecutorInvariant
<1>9. CASE Respond
  <2>1. Unmoved
    BY <1>9, Silent DEF Respond
  <2>2. TypeOK'
    BY <1>1, <1>9, <2>1 DEF Respond, TypeOK, Errors, Unmoved
  <2>3. LoopInvariant'
    BY <1>1, <1>9, <2>1 DEF Respond, LoopInvariant, Unmoved
  <2>4. EndInvariant'
    BY <1>1, <1>9, <2>1 DEF Respond, LoopInvariant, EndInvariant, Unmoved
  <2>5. ToolInvariant'
    BY <1>1, <1>9, <2>1 DEF Respond, LoopInvariant, ToolInvariant, Unmoved
  <2> QED
    BY <2>2, <2>3, <2>4, <2>5 DEF ExecutorInvariant
<1>10. CASE GuardrailFails
  <2>1. OneMore("guardrails.checked", "failed")
    BY <1>1, <1>10, OneEvent, Named, Emitted DEF GuardrailFails
  <2>2. TypeOK'
    BY <1>1, <1>10, <2>1 DEF GuardrailFails, TypeOK, Errors, OneMore
  <2>3. LoopInvariant'
    BY <1>1, <1>10, <2>1 DEF GuardrailFails, LoopInvariant, OneMore, Tick
  <2>4. EndInvariant'
    BY <1>1, <1>10, <2>1 DEF GuardrailFails, LoopInvariant, EndInvariant, OneMore, Tick
  <2>5. ToolInvariant'
    BY <1>1, <1>10, <2>1 DEF GuardrailFails, LoopInvariant, ToolInvariant, OneMore, Tick, Spot
  <2> QED
    BY <2>2, <2>3, <2>4, <2>5 DEF ExecutorInvariant
<1>11. CASE GuardrailPasses
  <2>1. OneMore("guardrails.checked", "succeeded")
    BY <1>1, <1>11, OneEvent, Named, Emitted DEF GuardrailPasses
  <2>2. TypeOK'
    BY <1>1, <1>11, <2>1 DEF GuardrailPasses, TypeOK, Errors, OneMore
  <2>3. LoopInvariant'
    BY <1>1, <1>11, <2>1 DEF GuardrailPasses, LoopInvariant, OneMore, Tick
  <2>4. EndInvariant'
    BY <1>1, <1>11, <2>1 DEF GuardrailPasses, LoopInvariant, EndInvariant, OneMore, Tick
  <2>5. ToolInvariant'
    BY <1>1, <1>11, <2>1 DEF GuardrailPasses, LoopInvariant, ToolInvariant, OneMore, Tick, Spot,
                                    OverBudget
  <2> QED
    BY <2>2, <2>3, <2>4, <2>5 DEF ExecutorInvariant
<1>12. CASE ToolCallsRefused
  <2>1. OneMore("execution.completed", "failed")
    BY <1>1, <1>12, OneEvent, Named, Emitted DEF ToolCallsRefused
  <2>2. TypeOK'
    BY <1>1, <1>12, <2>1 DEF ToolCallsRefused, TypeOK, Errors, OneMore
  <2>3. LoopInvariant'
    BY <1>1, <1>12, <2>1 DEF ToolCallsRefused, LoopInvariant, OneMore, Tick
  <2>4. EndInvariant'
    BY <1>1, <1>12, <2>1 DEF ToolCallsRefused, LoopInvariant, EndInvariant, OneMore, Tick
  <2>5. ToolInvariant'
    BY <1>1, <1>12, <2>1 DEF ToolCallsRefused, LoopInvariant, ToolInvariant, OneMore, Tick, Spot
  <2> QED
    BY <2>2, <2>3, <2>4, <2>5 DEF ExecutorInvariant
<1>13. CASE InvokeTool
  <2> DEFINE calls == response.toolCalls
  <2>1. PICK status \in {"succeeded", "failed"} :
          Emit(<<Event("tool.call.started", "started"), Event("tool.call.completed", status)>>)
    BY <1>13 DEF InvokeTool
  <2>2. TwoMore("tool.call.started", "started", "tool.call.completed", status)
    BY <1>1, <2>1, TwoEvents, Named, Emitted
  <2>3. /\ response' \in Responses
        /\ response'.tokens = response.tokens /\ response'.cost = response.cost
        /\ response'.toolCalls = calls - 1
        /\ calls > 0
    <3>1. /\ response \in Responses /\ calls > 0
          /\ response' = [response EXCEPT !.toolCalls = @ - 1]
      BY <1>1, <1>13 DEF InvokeTool, TypeOK
    <3>2. calls \in 0 .. MaxToolCalls + 1 /\ MaxToolCalls \in Nat
      BY <3>1, ExecutorAssumption DEF Responses
    <3>3. calls - 1 \in 0 .. MaxToolCalls + 1
      BY <3>1, <3>2
    <3>4. /\ response'.toolCalls = calls - 1
          /\ response'.tokens = response.tokens /\ response'.cost = response.cost
      BY <3>1 DEF Responses
    <3>5. response' \in Responses
      BY <3>1, <3>3 DEF Responses
    <3> QED
      BY <3>1, <3>4, <3>5
  <2>4. TypeOK'
    BY <1>1, <1>13, <2>2, <2>3 DEF InvokeTool, TypeOK, Errors, TwoMore
  <2>5. LoopInvariant'
    BY <1>1, <1>13, <2>2, <2>3 DEF InvokeTool, LoopInvariant, TwoMore, Tick, OverBudget
  <2>6. EndInvariant'
    BY <1>1, <1>13, <2>2, <2>3 DEF InvokeTool, LoopInvariant, EndInvariant, TwoMore, Tick
  <2>7. ToolInvariant'
    <3>1. /\ Tooled' = Tooled + 1 /\ Started' = Started \cup {Len(events) + 1}
          /\ Passed' = Passed /\ Refused' = Refused /\ Asks' = Asks
      BY <1>1, <2>2 DEF TwoMore, Tick, Spot
    <3>2. /\ Tooled + calls <= MaxToolCalls /\ Passed # {} /\ Refused = {}
          /\ calls \in Nat /\ MaxToolCalls \in Nat
      BY <1>1, <1>13, ExecutorAssumption DEF InvokeTool, ToolInvariant, TypeOK, Responses
    <3>3. \A i \in Started' : \E j \in Passed' : j < i
      <4>1. ASSUME NEW i \in Started PROVE \E j \in Passed' : j < i
        BY <1>1, <3>1 DEF ToolInvariant
      <4>2. \E j \in Passed' : j < Len(events) + 1
        <5>1. PICK j \in Passed : TRUE
          BY <3>2
        <5>2. j \in 1 .. Len(events) /\ Len(events) \in Nat
          BY <1>1
        <5> QED
          BY <3>1, <5>1, <5>2
      <4> QED
        BY <3>1, <4>1, <4>2
    <3>4. /\ pc' = "tools" /\ input' = input /\ input.allowTools /\ input.routed
          /\ Tooled' + response'.toolCalls <= MaxToolCalls /\ Tooled' <= MaxToolCalls
      BY <1>1, <1>13, <2>3, <3>1, <3>2 DEF InvokeTool, LoopInvariant, InLoop, CountsType
    <3> HIDE DEF calls
    <3> QED
      BY <3>1, <3>2, <3>3, <3>4 DEF ToolInvariant
  <2> QED
    BY <2>4, <2>5, <2>6, <2>7 DEF ExecutorInvariant
<1>14. CASE InvokerRaises
  <2>1. OneMore("tool.call.started", "started")
    BY <1>1, <1>14, OneEvent, Named, Emitted DEF InvokerRaises
  <2>2. TypeOK'
    BY <1>1, <1>14, <2>1 DEF InvokerRaises, TypeOK, Errors, OneMore
  <2>3. LoopInvariant'
    BY <1>1, <1>14, <2>1 DEF InvokerRaises, LoopInvariant, OneMore, Tick
  <2>4. EndInvariant'
    BY <1>1, <1>14, <2>1 DEF InvokerRaises, LoopInvariant, EndInvariant, OneMore, Tick
  <2>5. ToolInvariant'
    <3>1. /\ Tooled + 1 <= MaxToolCalls /\ input.allowTools /\ input.routed
          /\ Refused = {} /\ Passed # {}
      BY <1>1, <1>14 DEF InvokerRaises, LoopInvariant, ToolInvariant
    <3>2. /\ Tooled' = Tooled + 1 /\ Started' = Started \cup {Len(events) + 1}
          /\ Passed' = Passed /\ Refused' = Refused /\ Asks' = Asks
      BY <1>1, <2>1 DEF OneMore, Tick, Spot
    <3>3. \A i \in Started' : \E j \in Passed' : j < i
      <4>1. ASSUME NEW i \in Started PROVE \E j \in Passed' : j < i
        BY <1>1, <3>2 DEF ToolInvariant
      <4>2. \E j \in Passed' : j < Len(events) + 1
        <5>1. PICK j \in Passed : TRUE
          BY <3>1
        <5>2. j \in 1 .. Len(events) /\ Len(events) \in Nat /\ Passed' = Passed
          BY <1>1, <3>2
        <5> QED
          BY <5>1, <5>2
      <4> QED
        BY <3>2, <4>1, <4>2
    <3> QED
      BY <1>1, <1>14, <3>1, <3>2, <3>3 DEF InvokerRaises, ToolInvariant
  <2> QED
    BY <2>2, <2>3, <2>4, <2>5 DEF ExecutorInvariant
<1>15. CASE Succeed
  <2>1. TwoMore("provider.responded", "succeeded", "execution.completed", "completed")
    BY <1>1, <1>15, TwoEvents, Named, Emitted DEF Succeed
  <2>2. TypeOK'
    BY <1>1, <1>15, <2>1 DEF Succeed, TypeOK, Errors, TwoMore
  <2>3. LoopInvariant'
    BY <1>1, <1>15, <2>1 DEF Succeed, LoopInvariant, TwoMore, Tick
  <2>4. EndInvariant'
    BY <1>1, <1>15, <2>1 DEF Succeed, LoopInvariant, EndInvariant, TwoMore, Tick
  <2>5. ToolInvariant'
    BY <1>1, <1>15, <2>1 DEF Succeed, LoopInvariant, ToolInvariant, TwoMore, Tick, Spot
  <2> QED
    BY <2>2, <2>3, <2>4, <2>5 DEF ExecutorInvariant
<1>16. CASE FailedResult
  <2>1. OneMore("execution.completed", "failed")
    BY <1>1, <1>16, OneEvent, Named, Emitted DEF FailedResult
  <2>2. TypeOK'
    BY <1>1, <1>16, <2>1 DEF FailedResult, TypeOK, Errors, OneMore
  <2>3. LoopInvariant'
    BY <1>1, <1>16, <2>1 DEF FailedResult, LoopInvariant, OneMore, Tick
  <2>4. EndInvariant'
    BY <1>1, <1>16, <2>1 DEF FailedResult, LoopInvariant, EndInvariant, OneMore, Tick
  <2>5. ToolInvariant'
    BY <1>1, <1>16, <2>1 DEF FailedResult, LoopInvariant, ToolInvariant, OneMore, Tick, Spot
  <2> QED
    BY <2>2, <2>3, <2>4, <2>5 DEF ExecutorInvariant
<1>17. CASE ParsingRaises
  <2>1. Unmoved
    BY <1>17, Silent DEF ParsingRaises
  <2>2. TypeOK'
    BY <1>1, <1>17, <2>1 DEF ParsingRaises, TypeOK, Errors, Unmoved
  <2>3. LoopInvariant'
    BY <1>1, <1>17, <2>1 DEF ParsingRaises, LoopInvariant, Unmoved
  <2>4. EndInvariant'
    BY <1>1, <1>17, <2>1 DEF ParsingRaises, LoopInvariant, EndInvariant, Unmoved
  <2>5. ToolInvariant'
    BY <1>1, <1>17, <2>1 DEF ParsingRaises, LoopInvariant, ToolInvariant, Unmoved
  <2> QED
    BY <2>2, <2>3, <2>4, <2>5 DEF ExecutorInvariant
<1> QED
  BY <1>2, <1>3, <1>4, <1>5, <1>6, <1>7, <1>8, <1>9, <1>10, <1>11, <1>12, <1>13, <1>14, <1>15, <1>16,
     <1>17 DEF Next

(***************************************************************************)
(* The theorems.                                                           *)
(***************************************************************************)
LEMMA ExecutorInductive == ExecutorInvariant /\ [Next]_vars => ExecutorInvariant'
PROOF
<1> SUFFICES ASSUME ExecutorInvariant, UNCHANGED vars PROVE ExecutorInvariant'
  BY ExecutorStep
<1>1. Unmoved
  BY Silent DEF vars
<1>2. TypeOK' /\ LoopInvariant'
  BY <1>1 DEF vars, ExecutorInvariant, TypeOK, LoopInvariant, InLoop, Attempted,
              MaxAttempts, OverBudget, Unmoved
<1>3. EndInvariant' /\ ToolInvariant'
  BY <1>1 DEF vars, ExecutorInvariant, EndInvariant, ToolInvariant, Failed, Returned,
              Attempted, MaxAttempts, OverBudget, Unmoved
<1> QED
  BY <1>2, <1>3 DEF ExecutorInvariant

(* The locals of execute keep their types for all limits, and between any  *)
(* two steps the attempts, losses, retries, refusals and tool calls can be *)
(* counted off the event stream.                                           *)
THEOREM ExecutorSafety == ExecutorSpec => []ExecutorInvariant
PROOF
BY ExecutorInit, ExecutorInductive, PTL DEF ExecutorSpec

\* What the counts say of every state.
LEMMA RetriesFollow == ExecutorInvariant => RetriesFollowTheErrorKind
PROOF
<1> SUFFICES ASSUME ExecutorInvariant PROVE RetriesFollowTheErrorKind
  OBVIOUS
<1>1. /\ TypeOK /\ LoopInvariant /\ EndInvariant /\ ToolInvariant /\ CountsType
      /\ index \in Nat /\ retries \in Nat /\ MaxAttempts \in Int
  BY Counts, ExecutorAssumption DEF ExecutorInvariant, TypeOK, Inputs, MaxAttempts
<1>2. Asked <= (IF MaxAttempts > 0 THEN MaxAttempts ELSE 0)
  <2>1. \/ Asked = 0
        \/ Asked = index /\ index < MaxAttempts
        \/ Asked = index + 1 /\ index < MaxAttempts
    <3>1. CASE pc = "created" \/ InLoop
      BY <1>1, <3>1 DEF LoopInvariant, InLoop, Attempted
    <3>2. CASE pc = "fail" \/ result \in {"succeeded", "failed", "blocked", "raised"}
      BY <1>1, <3>2 DEF EndInvariant, Failed, Attempted
    <3> QED
      BY <1>1, <3>1, <3>2 DEF TypeOK, InLoop
  <2>2. Asked \in Nat
    BY <1>1 DEF CountsType
  <2> QED
    BY <1>1, <2>1, <2>2
<1>3. retries = Delayed
  BY <1>1 DEF LoopInvariant
<1>4. Returned /\ Asked > 0 => retries = Asked - 1
  <2>1. ASSUME Returned PROVE Asked = 0 \/ Attempted
    BY <1>1, <2>1 DEF EndInvariant, Returned, Failed
  <2> QED
    BY <1>1, <2>1 DEF Attempted
<1>5. result = "failed" /\ error.retryable => Asked = MaxAttempts
  BY <1>1 DEF EndInvariant, Failed, Failure
<1>6. pc \in {"attempt", "waiting"} /\ index > 0 => error.retryable
  BY <1>1 DEF LoopInvariant, InLoop
<1>7. \A i \in Refused, j \in Asks : j < i
  BY <1>1 DEF ToolInvariant
<1> QED
  BY <1>2, <1>3, <1>4, <1>5, <1>6, <1>7
  DEF RetriesFollowTheErrorKind, Asked, Delayed, Refused, Asks

(* The transport is called at most max_attempts times; only a transient    *)
(* failure is tried again, and only until the attempts are used up; the    *)
(* reported retry count is the one the events show.                        *)
THEOREM RetriesSafety == ExecutorSpec => []RetriesFollowTheErrorKind
PROOF
BY RetriesFollow, ExecutorSafety, PTL

(* No tool runs before the guardrails passed the response that asked for   *)
(* it, none when tools are off, and never more than one execution allows.  *)
THEOREM ToolSafety == ExecutorSpec => []ToolsStayWithinBudget
PROOF
<1>1. ExecutorInvariant => ToolsStayWithinBudget
  BY DEF ExecutorInvariant, ToolInvariant, ToolsStayWithinBudget, Started, Passed, Tooled, Count
<1> QED
  BY <1>1, ExecutorSafety, PTL

(* Every request of an execution that returned is answered in its stream,  *)
(* and success is only reported of a last response within every limit.     *)
THEOREM AnswerSafety == ExecutorSpec => []RequestsAreAnswered
PROOF
<1>1. ExecutorInvariant => RequestsAreAnswered
  <2> SUFFICES ASSUME ExecutorInvariant, Returned PROVE RequestsAreAnswered
    BY DEF RequestsAreAnswered
  <2>1. LoopInvariant /\ EndInvariant /\ CountsType /\ index \in Nat
    BY Counts DEF ExecutorInvariant, TypeOK
  <2> DEFINE refused == IF error.kind \in {"guardrail", "tool"} /\ result = "failed"
                        THEN 1 ELSE 0
  <2>2. Asked = (Lost + Answered) + refused
    <3>1. CASE result = "failed"
      BY <2>1, <3>1 DEF EndInvariant, Failed, Failure, Attempted, CountsType
    <3>2. CASE result = "succeeded"
      BY <2>1, <3>2 DEF EndInvariant, Attempted, CountsType
    <3>3. CASE result = "blocked"
      BY <2>1, <3>3 DEF EndInvariant
    <3> QED
      BY <3>1, <3>2, <3>3 DEF Returned
  <2>3. result = "succeeded" => Answered = 1 /\ ~OverBudget(response)
    BY <2>1 DEF EndInvariant
  <2> QED
    BY <2>2, <2>3 DEF RequestsAreAnswered, Asked, Lost, Answered
<1> QED
  BY <1>1, ExecutorSafety, PTL

(* Whatever came before, execution.completed is the last event of an       *)
(* execution that returned.                                                *)
THEOREM CompletionSafety == ExecutorSpec => []CompletionComesLast
PROOF
<1>1. ExecutorInvariant => CompletionComesLast
  BY DEF ExecutorInvariant, EndInvariant, CompletionComesLast
<1> QED
  BY <1>1, ExecutorSafety, PTL

(***************************************************************************)
(* The inductive invariant.                                                *)
(***************************************************************************)
Routes ==
  [selected : BOOLEAN, family : Families \cup {"none"},
   reason : {"none", "no_route_within_cost_ceiling", "local_execution_not_configured",
             "local_execution_requires_toolless_route"}]

StreamTypes  == EventTypes \cup {"route.selected", "validation.completed", "write_gate.decided"}
StreamEvents == [attempt : {1, 2}, type : StreamTypes, status : EventStatuses]

\* What an execution of ProviderExecutor leaves for the dispatcher to merge.
EventInvariant ==
  /\ \A i \in DOMAIN events :
       /\ events[i].type = "provider.requested" => events[i].status = "started"
       /\ events[i].type = "retry.scheduled" => events[i].status = "retry_scheduled"
  /\ result = "succeeded" => Last(events) = Event("execution.completed", "completed")
  /\ ~input.routed => Asks = {} /\ (pc = "created" \/ (pc = "done" /\ result = "blocked"))

RunsLocally(route) == ProviderOf(route) = "local" /\ runtime

\* The routes taken, and what they were chosen from.
RouteInvariant ==
  /\ routes \in Seq(Routes) /\ Attempt <= 2
  /\ phase = "route" => Attempt = 0
  /\ phase \in {"local", "hosted", "executed", "decided"} => Attempt \in {1, 2}
  /\ phase = "local" => Attempt = 1 /\ RunsLocally(routes[1])
  /\ phase = "hosted" /\ Attempt = 1 => ~RunsLocally(routes[1])
  /\ Attempt > 0 => ~Unclassifiable(ticket) /\ routes[1] = ChooseRoute(Sem, config, runtime)
  /\ Attempt = 2 =>
       /\ routes[2] = HostedFallback /\ HostedFallback.selected
       /\ fallback /\ Sem.target = "auto" /\ ProviderOf(routes[1]) = "local"
  /\ fallback => Attempt > 0

\* Which executor the locals of execute belong to.
ExecutionInvariant ==
  /\ input \in Inputs
  /\ phase \in {"route", "local"} => Init
  /\ phase = "hosted" =>
       /\ ExecutorInvariant /\ EventInvariant
       /\ input.routed <=> ProviderOf(Route) = "openrouter"
  /\ phase = "executed" => Returned

FailedLocally ==
  \E i \in DOMAIN stream :
    stream[i] = [attempt |-> 1, type |-> "execution.completed", status |-> "failed"]

\* The last execution in the stream ended there, and well.
CompletedAt(n) ==
  /\ n \in DOMAIN stream
  /\ stream[n] = [attempt |-> Attempt, type |-> "execution.completed", status |-> "completed"]
  /\ \A i \in n + 1 .. Len(stream) :
       stream[i].type # "execution.completed" /\ stream[i].attempt = Attempt

MayLeave == Sem.target = "local" => config.provider["local"] # "local"

\* What the result's stream holds of the attempts so far.
StreamInvariant ==
  /\ stream \in Seq(StreamEvents)
  /\ \A i \in DOMAIN stream : stream[i].attempt \in 1 .. Attempt
  /\ phase \in {"route", "local", "hosted", "raised"} /\ Attempt <= 1 => stream = << >>
  /\ Attempt = 2 => FailedLocally
  /\ HostedAsked # {} => MayLeave /\ Cardinality(HostedAsked) <= MaxAttempts
  /\ phase \in {"hosted", "raised"} => HostedAsked = {}
  /\ phase = "hosted" => StreamCount("retry.scheduled") = Attempt - 1
  /\ phase \in {"executed", "decided"} =>
       retryCount = StreamCount("retry.scheduled") /\ summaries = {Attempt}

\* What a finished execution means for the fallback and for the gate.
OutcomeInvariant ==
  /\ retryCount \in Nat /\ summaries \subseteq 1 .. Attempt
  /\ phase \in {"route", "local"} => retryCount = 0
  /\ phase = "executed" /\ result = "succeeded" => CompletedAt(Len(stream))
  /\ phase = "executed" /\ Attempt = 1 /\ ProviderOf(Route) = "local" =>
       IF runtime THEN HostedAsked = {} /\ retryCount = 0 /\ (result = "failed" => FailedLocally)
                  ELSE result = "blocked"
  /\ phase = "decided" <=> verdict # NoVerdict
  /\ verdict.decision \in Decisions \cup {"none"}
  /\ phase = "decided" /\ verdict.decision # "rejected" => CompletedAt(Len(stream) - 2)

DispatchInvariant ==
  /\ phase \in {"route", "local", "hosted", "executed", "decided", "raised"}
  /\ ticket \in Tickets /\ config \in Configurations /\ runtime \in BOOLEAN /\ fallback \in BOOLEAN
  /\ RouteInvariant /\ ExecutionInvariant /\ StreamInvariant /\ OutcomeInvariant

(***************************************************************************)
(* The routing policy.                                                     *)
(***************************************************************************)
\* An order of the hosted families, each of them somewhere in it.
CoversFamilies(order) ==
  /\ order \in [1 .. 3 -> HostedFamilies]
  /\ \A f \in HostedFamilies : \E i \in 1 .. 3 : order[i] = f

Fits(sem, g, family) == PassesToolFilter(family, sem) /\ g.cost[family] <= g.maxCost

\* What every route that is chosen for these semantics has in common.
IsRouteFor(route, sem, g, localEnabled) ==
  /\ route \in Routes
  /\ route.selected <=> route.family # "none"
  /\ route.family \in HostedFamilies => Fits(sem, g, route.family)
  /\ route.reason = "no_route_within_cost_ceiling" =>
       \A f \in HostedFamilies : ~Fits(sem, g, f)
  /\ route.family = "local" => localEnabled /\ sem.tools = "none" /\ sem.target # "hosted"
  /\ sem.target = "local" => route.family \in {"none", "local"}

\* Each preferred order names every hosted family.
LEMMA PreferredCovers ==
  ASSUME NEW sem
  PROVE  CoversFamilies(PreferredOrder(sem))
PROOF
<1>1. ASSUME NEW o, o \in {<<"balanced", "deep", "economy">>, <<"deep", "balanced", "economy">>,
                           <<"economy", "balanced", "deep">>, <<"balanced", "economy", "deep">>}
      PROVE  CoversFamilies(o)
  <2>1. /\ o \in [1 .. 3 -> HostedFamilies]
    BY <1>1 DEF HostedFamilies
  <2>2. {o[1], o[2], o[3]} = HostedFamilies
    BY <1>1 DEF HostedFamilies
  <2>3. \A f \in HostedFamilies : \E i \in 1 .. 3 : o[i] = f
    BY <2>2
  <2> QED
    BY <2>1, <2>3 DEF CoversFamilies
<1>2. PreferredOrder(sem) \in
        {<<"balanced", "deep", "economy">>, <<"deep", "balanced", "economy">>,
         <<"economy", "balanced", "deep">>, <<"balanced", "economy", "deep">>}
  BY DEF PreferredOrder
<1> QED
  BY <1>1, <1>2

\* Among three profiles one is dearest, and it is moved to the front of an
\* order that keeps the others.
LEMMA PromotionCovers ==
  ASSUME NEW order, CoversFamilies(order), NEW g \in Guardrails
  PROVE  CoversFamilies(PromoteDepth(order, g))
PROOF
<1> DEFINE cost(i) == g.cost[order[i]]
           d == Dearest(order, g)
           p == PromoteDepth(order, g)
<1>1. /\ order \in [1 .. 3 -> HostedFamilies] /\ DOMAIN order = 1 .. 3
      /\ \A f \in HostedFamilies : \E i \in 1 .. 3 : order[i] = f
  BY DEF CoversFamilies
<1>2. cost(1) \in Nat /\ cost(2) \in Nat /\ cost(3) \in Nat
  BY <1>1 DEF Guardrails, Families
<1>3. d \in 1 .. 3
  <2>1. \E i \in 1 .. 3 : \A j \in 1 .. 3 :
          \/ cost(j) < cost(i)
          \/ cost(j) = cost(i) /\ i <= j
    <3> DEFINE Best(i) == \A j \in {1, 2, 3} : cost(j) < cost(i) \/ (cost(j) = cost(i) /\ i <= j)
    <3>1. Best(1) \/ Best(2) \/ Best(3)
      <4> HIDE DEF cost
      <4> QED
        BY <1>2
    <3>2. 1 .. 3 = {1, 2, 3}
      OBVIOUS
    <3> QED
      BY <3>1, <3>2
  <2> QED
    BY <1>1, <2>1 DEF Dearest
<1>4. p = [i \in 1 .. 3 |-> IF i = 1 THEN order[d]
                            ELSE IF i <= d THEN order[i - 1] ELSE order[i]]
  BY <1>1 DEF PromoteDepth
<1> HIDE DEF d, p
<1>5. p \in [1 .. 3 -> HostedFamilies]
  BY <1>1, <1>3, <1>4
<1>6. \A i \in 1 .. 3 : \E j \in 1 .. 3 : p[j] = order[i]
  <2> TAKE i \in 1 .. 3
  <2>1. CASE i = d
    BY <1>4, <2>1
  <2>2. CASE i < d
    BY <1>3, <1>4, <2>2
  <2>3. CASE i > d
    BY <1>3, <1>4, <2>3
  <2> QED
    BY <1>3, <2>1, <2>2, <2>3
<1>7. \A f \in HostedFamilies : \E i \in 1 .. 3 : p[i] = f
  BY <1>1, <1>6
<1> QED
  BY <1>5, <1>7 DEF CoversFamilies, p

\* A hosted route fits, and none is found only when none does.
LEMMA HostedRoutes ==
  ASSUME NEW sem \in Semantics, NEW g \in Guardrails
  PROVE  LET route == ChooseHosted(sem, g) IN
         /\ route \in Routes /\ (route.selected <=> route.family # "none")
         /\ route.family \in HostedFamilies \cup {"none"}
         /\ route.family \in HostedFamilies => Fits(sem, g, route.family)
         /\ route.reason = "no_route_within_cost_ceiling" =>
              \A f \in HostedFamilies : ~Fits(sem, g, f)
PROOF
<1> DEFINE order == Candidates(sem, g)
           places == {i \in DOMAIN order : PassesToolFilter(order[i], sem)
                                           /\ g.cost[order[i]] <= g.maxCost}
<1>1. CoversFamilies(order)
  BY PreferredCovers, PromotionCovers DEF Candidates
<1>2. ChooseHosted(sem, g) = FirstOf(order, places)
  BY DEF ChooseHosted
<1>3. /\ DOMAIN order = 1 .. 3 /\ \A i \in 1 .. 3 : order[i] \in HostedFamilies
      /\ \A f \in HostedFamilies : \E i \in 1 .. 3 : order[i] = f
  BY <1>1 DEF CoversFamilies
<1> HIDE DEF order
<1>4. places \subseteq 1 .. 3 /\ \A i \in places : Fits(sem, g, order[i])
  BY <1>3 DEF Fits
<1>5. CASE places = {}
  <2>1. \A f \in HostedFamilies : ~Fits(sem, g, f)
    BY <1>3, <1>5 DEF Fits
  <2>2. ChooseHosted(sem, g) = Blocked("no_route_within_cost_ceiling")
    BY <1>2, <1>5 DEF FirstOf
  <2> QED
    BY <2>1, <2>2 DEF Blocked, Routes, HostedFamilies
<1>6. CASE places # {}
  <2> DEFINE first == CHOOSE i \in places : \A j \in places : i <= j
  <2>1. first \in places
    <3>1. \E i \in places : \A j \in places : i <= j
      <4>1. CASE 1 \in places
        BY <1>4, <4>1
      <4>2. CASE 1 \notin places /\ 2 \in places
        BY <1>4, <4>2
      <4>3. CASE 1 \notin places /\ 2 \notin places
        <5>1. 3 \in places /\ \A j \in places : j = 3
          BY <1>4, <1>6, <4>3
        <5> QED
          BY <5>1
      <4> QED
        BY <4>1, <4>2, <4>3
    <3> QED
      BY <3>1
  <2>2. ChooseHosted(sem, g) = Selected(order[first])
    BY <1>2, <1>6 DEF FirstOf
  <2> HIDE DEF first, places
  <2>3. order[first] \in HostedFamilies /\ Fits(sem, g, order[first])
    BY <1>3, <1>4, <2>1
  <2> QED
    BY <2>2, <2>3 DEF Selected, Routes, HostedFamilies, Families
<1> QED
  BY <1>5, <1>6

\* choose_route as a whole.
LEMMA ChosenRoutes ==
  ASSUME NEW sem \in Semantics, NEW g \in Guardrails, NEW localEnabled \in BOOLEAN
  PROVE  IsRouteFor(ChooseRoute(sem, g, localEnabled), sem, g, localEnabled)
PROOF
<1>1. sem.target \in Targets /\ sem.tools \in ToolProfiles
  BY DEF Semantics
<1>2. ASSUME NEW route, route = Blocked("local_execution_not_configured")
                        \/ route = Blocked("local_execution_requires_toolless_route")
      PROVE  IsRouteFor(route, sem, g, localEnabled)
  <2>1. PICK reason \in {"local_execution_not_configured",
                         "local_execution_requires_toolless_route"} :
          route = [selected |-> FALSE, family |-> "none", reason |-> reason]
    BY <1>2 DEF Blocked
  <2>2. /\ route \in Routes /\ route.selected = FALSE /\ route.family = "none"
        /\ route.reason # "no_route_within_cost_ceiling"
    BY <2>1 DEF Routes
  <2>3. "none" \notin HostedFamilies
    BY DEF HostedFamilies
  <2> QED
    BY <2>2, <2>3 DEF IsRouteFor
<1>3. ASSUME NEW route, route = Selected("local"), localEnabled, sem.tools = "none",
             sem.target # "hosted"
      PROVE  IsRouteFor(route, sem, g, localEnabled)
  <2>1. /\ route \in Routes /\ route.selected = TRUE
        /\ route.family = "local" /\ route.reason = "none"
    BY <1>3 DEF Selected, Routes, Families
  <2>2. "local" \notin HostedFamilies
    BY DEF HostedFamilies
  <2> QED
    BY <1>3, <2>1, <2>2 DEF IsRouteFor
<1>4. ASSUME NEW route, route = ChooseHosted(sem, g), sem.target # "local"
      PROVE  IsRouteFor(route, sem, g, localEnabled)
  <2>1. /\ route \in Routes /\ (route.selected <=> route.family # "none")
        /\ route.family \in HostedFamilies \cup {"none"}
        /\ route.family \in HostedFamilies => Fits(sem, g, route.family)
        /\ route.reason = "no_route_within_cost_ceiling" =>
             \A f \in HostedFamilies : ~Fits(sem, g, f)
    BY <1>4, HostedRoutes
  <2>2. "local" \notin HostedFamilies
    BY DEF HostedFamilies
  <2> QED
    BY <1>4, <2>1, <2>2 DEF IsRouteFor
<1> DEFINE chosen == ChooseRoute(sem, g, localEnabled)
<1>5. \/ chosen = Blocked("local_execution_not_configured")
      \/ chosen = Blocked("local_execution_requires_toolless_route")
      \/ chosen = Selected("local") /\ localEnabled /\ sem.tools = "none" /\ sem.target # "hosted"
      \/ chosen = ChooseHosted(sem, g) /\ sem.target # "local"
  BY <1>1 DEF ChooseRoute, AutoPrefersLocal, Targets
<1> QED
  BY <1>2, <1>3, <1>4, <1>5

(***************************************************************************)
(* Counting in the stream of a result.                                     *)
(***************************************************************************)
DispatchEvents == [type : StreamTypes, status : EventStatuses]

\* The places of the events of a type.
ByType(s, x) == {i \in DOMAIN s : s[i].type = x}

\* The events of two streams are those of the one and, moved on, of the other.
LEMMA ByTypeOfBoth ==
  ASSUME NEW s \in Seq(StreamEvents), NEW t \in Seq(StreamEvents), NEW x
  PROVE  /\ ByType(s, x) \subseteq 1 .. Len(s)
         /\ Cardinality(ByType(s, x)) \in Nat
         /\ ByType(s \o t, x) = {} <=> (ByType(s, x) = {} /\ ByType(t, x) = {})
         /\ Cardinality(ByType(s \o t, x)) = Cardinality(ByType(s, x)) + Cardinality(ByType(t, x))
PROOF
<1> DEFINE n == Len(s)
           A == ByType(s, x)
           B == ByType(t, x)
           C == {i + n : i \in B}
           f == [i \in B |-> i + n]
           u == s \o t
<1>1. /\ n \in Nat /\ Len(t) \in Nat
      /\ DOMAIN s = 1 .. n /\ DOMAIN t = 1 .. Len(t) /\ DOMAIN u = 1 .. n + Len(t)
      /\ \A i \in 1 .. n : u[i] = s[i]
      /\ \A i \in 1 .. Len(t) : u[i + n] = t[i]
  OBVIOUS
<1>2. A \subseteq 1 .. n /\ B \subseteq 1 .. Len(t)
  BY DEF ByType
<1>3. IsFiniteSet(A) /\ IsFiniteSet(B)
  <2>1. IsFiniteSet(1 .. n) /\ IsFiniteSet(1 .. Len(t))
    BY <1>1, FS_Interval
  <2> QED
    BY <1>2, <2>1, FS_Subset
<1> HIDE DEF u, n
<1>4. ByType(u, x) = A \cup C
  <2>1. \A i \in 1 .. n + Len(t) : i \in ByType(u, x) <=> i \in A \cup C
    <3> TAKE i \in 1 .. n + Len(t)
    <3>1. CASE i <= n
      <4>1. i \in 1 .. n /\ i \notin C /\ u[i] = s[i]
        BY <1>1, <1>2, <3>1
      <4> QED
        BY <1>1, <4>1 DEF ByType
    <3>2. CASE i > n
      <4>1. /\ i - n \in 1 .. Len(t) /\ (i - n) + n = i /\ i \notin A
        BY <1>1, <1>2, <3>2
      <4>2. u[i] = t[i - n]
        BY <1>1, <4>1
      <4>3. i \in C <=> i - n \in B
        BY <1>1, <1>2, <4>1
      <4> QED
        BY <1>1, <4>1, <4>2, <4>3 DEF ByType
    <3> QED
      BY <1>1, <3>1, <3>2
  <2>2. C \subseteq 1 .. n + Len(t) /\ A \subseteq 1 .. n + Len(t)
    BY <1>1, <1>2
  <2>3. ByType(u, x) \subseteq 1 .. n + Len(t)
    BY <1>1 DEF ByType
  <2> QED
    BY <2>1, <2>2, <2>3
<1>5. IsFiniteSet(C) /\ Cardinality(C) = Cardinality(B)
  <2>1. f \in Bijection(B, C)
    <3>1. f \in [B -> C] /\ \A c \in C : \E b \in B : f[b] = c
      OBVIOUS
    <3>2. \A a, b \in B : f[a] = f[b] => a = b
      BY <1>1, <1>2
    <3> QED
      BY <3>1, <3>2, Fun_IsBij
  <2>2. ExistsBijection(B, C)
    BY <2>1 DEF ExistsBijection
  <2> QED
    BY <1>3, <2>2, FS_Bijection
<1>6. A \cap C = {}
  BY <1>1, <1>2
<1>7. Cardinality(A \cup C) = Cardinality(A) + Cardinality(B)
  <2>1. Cardinality(A \cap C) = 0
    BY <1>6, FS_EmptySet
  <2>2. Cardinality(A) \in Nat /\ Cardinality(B) \in Nat
    BY <1>3, FS_CardinalityType
  <2> HIDE DEF A, B, C
  <2>3. Cardinality(A \cup C) = Cardinality(A) + Cardinality(C) - Cardinality(A \cap C)
    BY <1>3, <1>5, FS_Union
  <2> QED
    BY <1>5, <2>1, <2>2, <2>3
<1>8. Cardinality(A) \in Nat
  BY <1>3, FS_CardinalityType
<1>9. (A \cup C = {}) <=> (A = {} /\ B = {})
  OBVIOUS
<1> QED
  BY <1>2, <1>4, <1>7, <1>8, <1>9 DEF u, n

\* Tagging keeps the events and their order.
LEMMA TaggedEvents ==
  ASSUME NEW k \in {1, 2}, NEW evs \in Seq(DispatchEvents)
  PROVE  /\ Tagged(k, evs) \in Seq(StreamEvents) /\ Len(Tagged(k, evs)) = Len(evs)
         /\ \A i \in 1 .. Len(evs) :
              Tagged(k, evs)[i] = [attempt |-> k, type |-> evs[i].type, status |-> evs[i].status]
         /\ \A x : ByType(Tagged(k, evs), x) = ByType(evs, x)
PROOF
<1> DEFINE t == Tagged(k, evs)
<1>1. /\ Len(evs) \in Nat /\ DOMAIN evs = 1 .. Len(evs)
      /\ \A i \in 1 .. Len(evs) : evs[i] \in DispatchEvents
  OBVIOUS
<1>2. /\ t = [i \in 1 .. Len(evs) |->
                [attempt |-> k, type |-> evs[i].type, status |-> evs[i].status]]
  BY <1>1 DEF Tagged
<1> HIDE DEF t
<1>3. \A i \in 1 .. Len(evs) :
        /\ t[i] = [attempt |-> k, type |-> evs[i].type, status |-> evs[i].status]
        /\ t[i] \in StreamEvents
  BY <1>1, <1>2 DEF DispatchEvents, StreamEvents
<1>4. t \in Seq(StreamEvents) /\ Len(t) = Len(evs)
  <2>1. t \in [1 .. Len(evs) -> StreamEvents]
    BY <1>2, <1>3
  <2> QED
    BY <1>1, <2>1
<1>5. \A x : ByType(t, x) = ByType(evs, x)
  BY <1>1, <1>2, <1>3 DEF ByType
<1> QED
  BY <1>3, <1>4, <1>5 DEF t

\* The types and statuses a dispatch emits.
LEMMA Labels ==
  /\ Events \subseteq DispatchEvents
  /\ \A type \in EventTypes, status \in EventStatuses : Event(type, status) \in DispatchEvents
  /\ \A type \in {"route.selected", "validation.completed", "write_gate.decided"},
        status \in EventStatuses : Event(type, status) \in DispatchEvents
PROOF
BY DEF Events, DispatchEvents, Event, StreamTypes

\* The last event of a stream.
EndsWith(s, attempt, type, status) ==
  /\ Len(s) \in DOMAIN s
  /\ s[Len(s)] = [attempt |-> attempt, type |-> type, status |-> status]

\* The stream of a local execution: no request, no retry, and its completion last.
LEMMA LocalStream ==
  ASSUME NEW status \in {"succeeded", "failed"}, NEW last \in {"completed", "failed"}
  PROVE  LET s == Tagged(1, <<Event("execution.created", "started")>>
                              \o <<Event("provider.responded", status),
                                   Event("execution.completed", last)>>)
         IN  /\ s \in Seq(StreamEvents) /\ \A i \in DOMAIN s : s[i].attempt = 1
             /\ ByType(s, "provider.requested") = {} /\ ByType(s, "retry.scheduled") = {}
             /\ EndsWith(s, 1, "execution.completed", last)
PROOF
<1> DEFINE a == Event("execution.created", "started")
           b == Event("provider.responded", status)
           c == Event("execution.completed", last)
           evs == <<a>> \o <<b, c>>
           s == Tagged(1, evs)
<1>1. /\ a \in DispatchEvents /\ b \in DispatchEvents /\ c \in DispatchEvents
      /\ a.type = "execution.created" /\ b.type = "provider.responded"
      /\ c.type = "execution.completed" /\ c.status = last
  BY Labels, Named, Emitted DEF Event, EventStatuses
<1> HIDE DEF a, b, c
<1>2. /\ evs \in Seq(DispatchEvents) /\ Len(evs) = 3
      /\ evs[1] = a /\ evs[2] = b /\ evs[3] = c
  BY <1>1
<1> HIDE DEF evs
<1>3. /\ s \in Seq(StreamEvents) /\ Len(s) = Len(evs)
      /\ \A i \in 1 .. Len(evs) :
           s[i] = [attempt |-> 1, type |-> evs[i].type, status |-> evs[i].status]
      /\ \A x : ByType(s, x) = ByType(evs, x)
  BY <1>2, TaggedEvents
<1> HIDE DEF s
<1>4. Len(s) = 3 /\ DOMAIN s = 1 .. 3 /\ DOMAIN evs = 1 .. 3
  BY <1>2, <1>3
<1>5. \A i \in 1 .. 3 : /\ evs[i].type # "provider.requested"
                         /\ evs[i].type # "retry.scheduled"
  <2>1. 1 .. 3 = {1, 2, 3}
    OBVIOUS
  <2> QED
    BY <1>1, <1>2, <2>1
<1>6. ByType(evs, "provider.requested") = {} /\ ByType(evs, "retry.scheduled") = {}
  BY <1>4, <1>5 DEF ByType
<1>7. \A i \in DOMAIN s : s[i].attempt = 1
  BY <1>2, <1>3, <1>4
<1>8. EndsWith(s, 1, "execution.completed", last)
  <2>1. s[3] = [attempt |-> 1, type |-> evs[3].type, status |-> evs[3].status]
    BY <1>2, <1>3
  <2>2. s[3] = [attempt |-> 1, type |-> "execution.completed", status |-> last]
    BY <1>1, <1>2, <2>1
  <2> QED
    BY <1>4, <2>2 DEF EndsWith
<1> QED
  BY <1>3, <1>6, <1>7, <1>8 DEF s, evs, a, b, c

\* Two events of a dispatcher's own, with what they add to the stream.
LEMMA TwoTagged ==
  ASSUME NEW k \in {1, 2}, NEW d \in DispatchEvents, NEW e \in DispatchEvents
  PROVE  LET s == Tagged(k, <<d, e>>)
         IN  /\ s \in Seq(StreamEvents) /\ Len(s) = 2
             /\ s[1] = [attempt |-> k, type |-> d.type, status |-> d.status]
             /\ s[2] = [attempt |-> k, type |-> e.type, status |-> e.status]
             /\ \A x : d.type # x /\ e.type # x => ByType(s, x) = {}
PROOF
<1> DEFINE evs == <<d, e>>
           s == Tagged(k, evs)
<1>1. evs \in Seq(DispatchEvents) /\ Len(evs) = 2 /\ evs[1] = d /\ evs[2] = e
  OBVIOUS
<1> HIDE DEF evs
<1>2. /\ s \in Seq(StreamEvents) /\ Len(s) = Len(evs)
      /\ \A i \in 1 .. Len(evs) :
           s[i] = [attempt |-> k, type |-> evs[i].type, status |-> evs[i].status]
      /\ \A x : ByType(s, x) = ByType(evs, x)
  BY <1>1, TaggedEvents
<1> HIDE DEF s
<1>3. DOMAIN evs = {1, 2}
  <2>1. 1 .. 2 = {1, 2}
    OBVIOUS
  <2> QED
    BY <1>1, <2>1
<1>4. s[1] = [attempt |-> k, type |-> d.type, status |-> d.status]
      /\ s[2] = [attempt |-> k, type |-> e.type, status |-> e.status]
  BY <1>1, <1>2
<1>5. \A x : d.type # x /\ e.type # x => ByType(s, x) = {}
  BY <1>1, <1>2, <1>3 DEF ByType
<1> QED
  BY <1>1, <1>2, <1>4, <1>5 DEF s, evs

\* The first of them is counted once.
LEMMA FirstCounted ==
  ASSUME NEW k \in {1, 2}, NEW d \in DispatchEvents, NEW e \in DispatchEvents, e.type # d.type
  PROVE  Cardinality(ByType(Tagged(k, <<d, e>>), d.type)) = 1
PROOF
<1> DEFINE evs == <<d, e>>
<1>1. evs \in Seq(DispatchEvents) /\ Len(evs) = 2 /\ evs[1] = d /\ evs[2] = e
  OBVIOUS
<1> HIDE DEF evs
<1>2. ByType(Tagged(k, evs), d.type) = ByType(evs, d.type)
  BY <1>1, TaggedEvents
<1>3. DOMAIN evs = {1, 2}
  <2>1. 1 .. 2 = {1, 2}
    OBVIOUS
  <2> QED
    BY <1>1, <2>1
<1>4. ByType(evs, d.type) = {1}
  BY <1>1, <1>3 DEF ByType
<1> QED
  BY <1>2, <1>4, FS_Singleton DEF evs

(***************************************************************************)
(* What a hosted execution leaves.                                         *)
(***************************************************************************)
\* Requests are started and retries scheduled: their type says their status.
Regular(e) ==
  /\ e.type = "provider.requested" => e.status = "started"
  /\ e.type = "retry.scheduled" => e.status = "retry_scheduled"

AllRegular(s) == \A i \in DOMAIN s : Regular(s[i])

\* A regular event keeps a stream regular.
LEMMA RegularAppended ==
  ASSUME NEW s \in Seq(Events), AllRegular(s), NEW e \in Events, Regular(e)
  PROVE  s \o <<e>> \in Seq(Events) /\ AllRegular(s \o <<e>>)
PROOF
<1> DEFINE t == s \o <<e>>
<1>1. t \in Seq(Events) /\ DOMAIN t = 1 .. Len(s) + 1 /\ Len(s) \in Nat /\ DOMAIN s = 1 .. Len(s)
      /\ (\A i \in 1 .. Len(s) : t[i] = s[i]) /\ t[Len(s) + 1] = e
  OBVIOUS
<1> HIDE DEF t
<1>2. \A i \in 1 .. Len(s) + 1 : Regular(t[i])
  <2> TAKE i \in 1 .. Len(s) + 1
  <2>1. CASE i \in 1 .. Len(s)
    BY <1>1, <2>1 DEF AllRegular
  <2>2. CASE i = Len(s) + 1
    BY <1>1, <2>2
  <2> QED
    BY <1>1, <2>1, <2>2
<1> QED
  BY <1>1, <1>2 DEF t, AllRegular

\* Every step of execute emits nothing, one regular event or two.
LEMMA RegularStep == TypeOK /\ AllRegular(events) /\ Next => AllRegular(events')
PROOF
<1> SUFFICES ASSUME TypeOK, AllRegular(events), Next PROVE AllRegular(events')
  OBVIOUS
<1>1. events \in Seq(Events)
  BY DEF TypeOK
<1>2. ASSUME NEW t \in EventTypes, NEW s \in EventStatuses, Regular(Event(t, s)),
             Emit(<<Event(t, s)>>)
      PROVE  AllRegular(events')
  BY <1>1, <1>2, EventsEqual, RegularAppended DEF Emit
<1>3. ASSUME NEW t \in EventTypes, NEW s \in EventStatuses, Regular(Event(t, s)),
             NEW u \in EventTypes, NEW v \in EventStatuses, Regular(Event(u, v)),
             Emit(<<Event(t, s), Event(u, v)>>)
      PROVE  AllRegular(events')
  <2> DEFINE d == Event(t, s)
             e == Event(u, v)
             half == events \o <<d>>
  <2>1. d \in Events /\ e \in Events
    BY EventsEqual
  <2>2. half \in Seq(Events) /\ AllRegular(half)
    BY <1>1, <1>3, <2>1, RegularAppended
  <2>3. events' = events \o <<d, e>>
    BY <1>3 DEF Emit
  <2>4. Regular(e)
    BY <1>3
  <2> HIDE DEF d, e
  <2>5. events' = half \o <<e>>
    <3>1. <<d>> \in Seq(Events) /\ <<e>> \in Seq(Events)
      BY <2>1
    <3>2. <<d, e>> = <<d>> \o <<e>>
      BY <2>1, PairConcat
    <3> QED
      BY <1>1, <2>3, <3>1, <3>2, ConcatAssociative
  <2> HIDE DEF half
  <2> QED
    BY <2>1, <2>2, <2>4, <2>5, RegularAppended
<1>4. \A t, s : t \notin {"provider.requested", "retry.scheduled"} => Regular(Event(t, s))
  BY DEF Regular, Event
<1>5. Regular(Event("provider.requested", "started"))
      /\ Regular(Event("retry.scheduled", "retry_scheduled"))
  BY DEF Regular, Event
<1>6. CASE RaiseToolsDisabled \/ FallThrough \/ ParsingRaises \/ Respond
  BY <1>6 DEF RaiseToolsDisabled, FallThrough, ParsingRaises, Respond
<1>7. CASE Block
  BY <1>3, <1>4, <1>7, Named, Emitted DEF Block
<1>8. CASE BeginAttempts
  BY <1>3, <1>4, <1>8, Named, Emitted DEF BeginAttempts
<1>9. CASE Request
  BY <1>2, <1>5, <1>9, Named DEF Request
<1>10. ASSUME NEW kind \in {"timeout", "provider"}, TransportFails(kind)
       PROVE  AllRegular(events')
  <2>1. CASE Emit(<<Event("provider.responded", "failed"),
                    Event("retry.scheduled", "retry_scheduled")>>)
    BY <1>3, <1>4, <1>5, <2>1, Named
  <2>2. CASE Emit(<<Event("provider.responded", "failed")>>)
    BY <1>2, <1>4, <2>2, Named
  <2> QED
    BY <1>10, <2>1, <2>2 DEF TransportFails
<1>11. CASE MalformedResponse
  BY <1>2, <1>4, <1>11, Named DEF MalformedResponse
<1>12. CASE GuardrailFails
  BY <1>2, <1>4, <1>12, Named DEF GuardrailFails
<1>13. CASE GuardrailPasses
  BY <1>2, <1>4, <1>13, Named DEF GuardrailPasses
<1>14. CASE ToolCallsRefused
  BY <1>2, <1>4, <1>14, Named, Emitted DEF ToolCallsRefused
<1>15. CASE InvokeTool
  <2>1. PICK status \in {"succeeded", "failed"} :
          Emit(<<Event("tool.call.started", "started"), Event("tool.call.completed", status)>>)
    BY <1>15 DEF InvokeTool
  <2> QED
    BY <1>3, <1>4, <2>1, Named, Emitted
<1>16. CASE InvokerRaises
  BY <1>2, <1>4, <1>16, Named DEF InvokerRaises
<1>17. CASE Succeed
  BY <1>3, <1>4, <1>17, Named, Emitted DEF Succeed
<1>18. CASE FailedResult
  BY <1>2, <1>4, <1>18, Named, Emitted DEF FailedResult
<1> QED
  BY <1>6, <1>7, <1>8, <1>9, <1>10, <1>11, <1>12, <1>13, <1>14, <1>15, <1>16, <1>17, <1>18 DEF Next

\* An execution that has not begun.
LEMMA EventInvariantInit == Init => EventInvariant
PROOF
<1> SUFFICES ASSUME Init PROVE EventInvariant
  OBVIOUS
<1>1. events = << >> /\ result = "none" /\ pc = "created"
  BY DEF Init
<1>2. Asks = {}
  BY <1>1 DEF Asks, Places
<1> QED
  BY <1>1, <1>2 DEF EventInvariant

\* A success ends in its completion, and without a route nothing is asked.
LEMMA EventInvariantStep == ExecutorInvariant /\ EventInvariant /\ Next => EventInvariant'
PROOF
<1> SUFFICES ASSUME ExecutorInvariant, EventInvariant, Next PROVE EventInvariant'
  OBVIOUS
<1>1. TypeOK /\ LoopInvariant
  BY DEF ExecutorInvariant
<1>2. AllRegular(events')
  BY <1>1, RegularStep DEF EventInvariant, AllRegular, Regular
<1>3. pc # "done" /\ result = "none"
  <2>1. pc # "done"
    BY DEF Next, Block, RaiseToolsDisabled, BeginAttempts, Request, FallThrough, TransportFails,
           MalformedResponse, ParsingRaises, Respond, GuardrailFails, GuardrailPasses, ToolCallsRefused,
           InvokeTool, InvokerRaises, Succeed, FailedResult
  <2> QED
    BY <1>1, <2>1 DEF TypeOK
<1>4. input' = input
  BY DEF Next, Block, RaiseToolsDisabled, BeginAttempts, Request, FallThrough, TransportFails,
         MalformedResponse, ParsingRaises, Respond, GuardrailFails, GuardrailPasses, ToolCallsRefused,
         InvokeTool, InvokerRaises, Succeed, FailedResult
<1>5. ASSUME result' = "succeeded"
      PROVE  Last(events') = Event("execution.completed", "completed")
  <2>1. Succeed
    BY <1>3, <1>5 DEF Next, Block, RaiseToolsDisabled, BeginAttempts, Request, FallThrough,
           TransportFails, MalformedResponse, ParsingRaises, Respond, GuardrailFails, GuardrailPasses,
           ToolCallsRefused, InvokeTool, InvokerRaises, FailedResult
  <2> DEFINE d == Event("provider.responded", "succeeded")
             e == Event("execution.completed", "completed")
  <2>2. events' = events \o <<d, e>> /\ events \in Seq(Events) /\ d \in Events /\ e \in Events
    BY <1>1, <2>1, EventsEqual, Named, Emitted DEF Succeed, Emit, TypeOK
  <2> HIDE DEF d, e
  <2>3. Len(events') = Len(events) + 2 /\ events'[Len(events) + 2] = e
    BY <2>2
  <2> QED
    BY <2>3 DEF Last, e
<1>6. ASSUME ~input.routed
      PROVE  Asks' = {} /\ pc' = "done" /\ result' = "blocked"
  <2>1. pc = "created" /\ Asks = {}
    BY <1>3, <1>6 DEF EventInvariant
  <2>2. Block
    BY <1>6, <2>1 DEF Next, RaiseToolsDisabled, BeginAttempts, Request, FallThrough,
           TransportFails, MalformedResponse, ParsingRaises, Respond, GuardrailFails, GuardrailPasses,
           ToolCallsRefused, InvokeTool, InvokerRaises, Succeed, FailedResult
  <2>3. TwoMore("execution.created", "started", "execution.completed", "blocked")
    BY <1>1, <2>2, TwoEvents, Named, Emitted DEF Block
  <2>4. Asks' = Asks
    BY <2>3 DEF TwoMore, Spot
  <2> QED
    BY <2>1, <2>2, <2>4 DEF Block
<1> QED
  BY <1>2, <1>4, <1>5, <1>6 DEF EventInvariant, AllRegular, Regular

\* What a returned execution adds to the stream of the result.
LEMMA HostedStream ==
  ASSUME ExecutorInvariant, EventInvariant, NEW k \in {1, 2}
  PROVE  LET s == Tagged(k, events)
         IN  /\ s \in Seq(StreamEvents) /\ \A i \in DOMAIN s : s[i].attempt = k
             /\ Cardinality(ByType(s, "retry.scheduled")) = retries
             /\ ByType(s, "provider.requested") # {} =>
                  input.routed /\ Cardinality(ByType(s, "provider.requested")) <= MaxAttempts
             /\ result = "succeeded" => EndsWith(s, k, "execution.completed", "completed")
PROOF
<1> DEFINE s == Tagged(k, events)
<1>1. TypeOK /\ LoopInvariant /\ EndInvariant
  BY DEF ExecutorInvariant
<1>2. events \in Seq(DispatchEvents)
  <2>1. events \in Seq(Events) /\ Events \subseteq DispatchEvents
    BY <1>1, Labels DEF TypeOK
  <2>2. \A i \in 1 .. Len(events) : events[i] \in DispatchEvents
    BY <2>1
  <2> QED
    BY <2>1, <2>2
<1>3. /\ s \in Seq(StreamEvents) /\ Len(s) = Len(events)
      /\ \A i \in 1 .. Len(events) :
           s[i] = [attempt |-> k, type |-> events[i].type, status |-> events[i].status]
      /\ \A x : ByType(s, x) = ByType(events, x)
  BY <1>2, TaggedEvents
<1> HIDE DEF s
<1>4. \A i \in DOMAIN s : s[i].attempt = k
  <2>1. DOMAIN s = 1 .. Len(events)
    BY <1>2, <1>3
  <2> QED
    BY <1>3, <2>1
<1>5. \A i \in DOMAIN events : events[i] \in Events
  BY <1>1 DEF TypeOK
<1>6. ByType(events, "provider.requested") = Asks
  BY <1>5 DEF EventInvariant, ByType, Asks, Places, Events, Event
<1>7. ByType(events, "retry.scheduled") = Places("retry.scheduled", "retry_scheduled")
  BY <1>5 DEF EventInvariant, ByType, Places, Events, Event
<1>8. Cardinality(ByType(s, "retry.scheduled")) = retries
  BY <1>1, <1>3, <1>7 DEF LoopInvariant, Delayed, Count
<1>9. ASSUME Asks # {} PROVE input.routed /\ Cardinality(Asks) <= MaxAttempts
  <2>1. Cardinality(Asks) = Asked
    BY DEF Asks, Asked, Count
  <2>2. Asked \in Nat /\ Asked # 0
    <3>1. IsFiniteSet(Asks)
      <4>1. Asks \subseteq 1 .. Len(events) /\ Len(events) \in Nat
        BY <1>1, Counts DEF CountsType
      <4>2. IsFiniteSet(1 .. Len(events))
        BY <4>1, FS_Interval
      <4> QED
        BY <4>1, <4>2, FS_Subset
    <3> QED
      BY <1>9, <2>1, <3>1, FS_EmptySet, FS_CardinalityType
  <2>3. Asked <= (IF MaxAttempts > 0 THEN MaxAttempts ELSE 0)
    BY RetriesFollow DEF RetriesFollowTheErrorKind, Asked
  <2>4. input.routed
    BY <1>9 DEF EventInvariant
  <2>5. MaxAttempts \in Int
    BY <1>1, ExecutorAssumption DEF TypeOK, Inputs, MaxAttempts
  <2> QED
    BY <2>1, <2>2, <2>3, <2>4, <2>5
<1>10. ASSUME result = "succeeded"
       PROVE  EndsWith(s, k, "execution.completed", "completed")
  <2>1. events # << >> /\ Last(events) = Event("execution.completed", "completed")
    BY <1>1, <1>10 DEF EndInvariant, EventInvariant, Returned
  <2>2. Len(events) \in 1 .. Len(events) /\ DOMAIN s = 1 .. Len(events)
    BY <1>2, <1>3, <2>1
  <2>3. events[Len(events)] = [type |-> "execution.completed", status |-> "completed"]
    BY <2>1 DEF Last, Event
  <2> QED
    BY <1>3, <2>2, <2>3 DEF EndsWith
<1> QED
  BY <1>3, <1>4, <1>6, <1>8, <1>9, <1>10 DEF s

(***************************************************************************)
(* The steps of the dispatcher.                                            *)
(***************************************************************************)
\* A ticket that can be classified has semantics of the types the policy expects.
LEMMA ClassifiedSemantics ==
  ASSUME NEW fm \in Frontmatter, ~Unclassifiable(fm)
  PROVE  Classify(fm) \in Semantics
PROOF
<1>1. fm.workType \in WorkTypes
  BY DEF Frontmatter
<1>2. (IF Unset(fm.platform) THEN "agnostic" ELSE fm.platform) \in Platforms
  BY DEF Frontmatter, Field, Unset, Unclassifiable, Platforms
<1>3. (IF Unset(fm.complexity) THEN EffortComplexity(fm.effort) ELSE fm.complexity) \in Complexities
  <2>1. EffortComplexity(fm.effort) \in Complexities
    BY DEF EffortComplexity, Complexities
  <2> QED
    BY <2>1 DEF Frontmatter, Field, Unset, Unclassifiable
<1>4. (IF fm.target = "absent" THEN "auto" ELSE fm.target) \in Targets
  BY DEF Frontmatter, Field, Unclassifiable, Targets
<1>5. (IF fm.tools = "absent" THEN "standard" ELSE fm.tools) \in ToolProfiles
  BY DEF Frontmatter, Field, Unclassifiable, ToolProfiles
<1> QED
  BY <1>1, <1>2, <1>3, <1>4, <1>5 DEF Classify, Semantics

\* A new execution is in its initial state.
LEMMA Restarted == Init' => ExecutorInvariant' /\ EventInvariant'
PROOF
BY ExecutorInit, EventInvariantInit, PTL

LEMMA Begun ==
  ASSUME NEW route, BeginHosted(route), input \in Inputs
  PROVE  /\ Init' /\ ExecutorInvariant' /\ EventInvariant' /\ input' \in Inputs
         /\ input'.routed <=> ProviderOf(route) = "openrouter"
         /\ MaxAttempts' = MaxAttempts
PROOF
<1> DEFINE openRouter == ProviderOf(route) = "openrouter"
           tools == Sem.tools # "none"
<1>1. input' = [input EXCEPT !.routed = openRouter, !.tools = FALSE, !.allowTools = tools]
  BY DEF BeginHosted
<1>2. openRouter \in BOOLEAN /\ tools \in BOOLEAN
  OBVIOUS
<1> HIDE DEF openRouter, tools
<1>3. /\ input' \in Inputs /\ input'.maxAttempts = input.maxAttempts
      /\ input'.routed = openRouter
  BY <1>1, <1>2 DEF Inputs
<1>4. Init'
  BY <1>3 DEF Init, BeginHosted
<1> QED
  BY <1>3, <1>4, Restarted DEF openRouter, MaxAttempts

\* What merging more events does to the stream and its counts.
Merged(t) ==
  /\ stream' \in Seq(StreamEvents) /\ Len(stream') = Len(stream) + Len(t)
  /\ \A i \in 1 .. Len(stream) : stream'[i] = stream[i]
  /\ \A i \in 1 .. Len(t) : stream'[Len(stream) + i] = t[i]
  /\ FailedLocally => FailedLocally'
  /\ HostedAsked' = {} <=> (HostedAsked = {} /\ ByType(t, "provider.requested") = {})
  /\ HostedAsked = {} =>
       Cardinality(HostedAsked') = Cardinality(ByType(t, "provider.requested"))
  /\ ByType(t, "provider.requested") = {} =>
       Cardinality(HostedAsked') = Cardinality(HostedAsked)
  /\ StreamCount("retry.scheduled")' =
       StreamCount("retry.scheduled") + Cardinality(ByType(t, "retry.scheduled"))

LEMMA Merges ==
  ASSUME stream \in Seq(StreamEvents), NEW t \in Seq(StreamEvents), stream' = stream \o t
  PROVE  Merged(t)
PROOF
<1>1. /\ stream' \in Seq(StreamEvents) /\ Len(stream') = Len(stream) + Len(t)
      /\ \A i \in 1 .. Len(stream) : stream'[i] = stream[i]
      /\ \A i \in 1 .. Len(t) : stream'[Len(stream) + i] = t[i]
  OBVIOUS
<1>2. FailedLocally => FailedLocally'
  <2>1. DOMAIN stream = 1 .. Len(stream) /\ DOMAIN stream' = 1 .. Len(stream) + Len(t)
        /\ Len(stream) \in Nat /\ Len(t) \in Nat
    BY <1>1
  <2> QED
    BY <1>1, <2>1 DEF FailedLocally
<1>3. /\ HostedAsked = ByType(stream, "provider.requested")
      /\ HostedAsked' = ByType(stream \o t, "provider.requested")
  BY DEF HostedAsked, ByType
<1>4. /\ StreamCount("retry.scheduled") = Cardinality(ByType(stream, "retry.scheduled"))
      /\ StreamCount("retry.scheduled")' = Cardinality(ByType(stream \o t, "retry.scheduled"))
  BY DEF StreamCount, ByType
<1>5. \A x : /\ Cardinality(ByType(stream, x)) \in Nat /\ Cardinality(ByType(t, x)) \in Nat
             /\ ByType(stream \o t, x) = {} <=> (ByType(stream, x) = {} /\ ByType(t, x) = {})
             /\ Cardinality(ByType(stream \o t, x))
                  = Cardinality(ByType(stream, x)) + Cardinality(ByType(t, x))
  BY ByTypeOfBoth
<1>6. \A x : /\ ByType(stream, x) = {} => Cardinality(ByType(stream, x)) = 0
             /\ ByType(t, x) = {} => Cardinality(ByType(t, x)) = 0
  BY FS_EmptySet
<1>7. /\ HostedAsked = {} =>
           Cardinality(HostedAsked') = Cardinality(ByType(t, "provider.requested"))
      /\ ByType(t, "provider.requested") = {} =>
           Cardinality(HostedAsked') = Cardinality(HostedAsked)
  <2> DEFINE P == ByType(stream, "provider.requested")
             Q == ByType(t, "provider.requested")
             R == ByType(stream \o t, "provider.requested")
  <2>1. /\ Cardinality(P) \in Nat /\ Cardinality(Q) \in Nat
        /\ Cardinality(R) = Cardinality(P) + Cardinality(Q)
        /\ P = {} => Cardinality(P) = 0
        /\ Q = {} => Cardinality(Q) = 0
    BY <1>5, <1>6
  <2>2. HostedAsked = P /\ HostedAsked' = R
    BY <1>3
  <2> HIDE DEF P, Q, R
  <2>3. /\ P = {} => Cardinality(R) = Cardinality(Q)
        /\ Q = {} => Cardinality(R) = Cardinality(P)
    BY <2>1
  <2> QED
    BY <2>2, <2>3 DEF Q
<1> QED
  BY <1>1, <1>2, <1>3, <1>4, <1>5, <1>7 DEF Merged

\* Every attempt number in a merged stream is one the merged parts had.
LEMMA AttemptsMerge ==
  ASSUME stream \in Seq(StreamEvents), NEW t \in Seq(StreamEvents), Merged(t),
         NEW n \in Nat, \A i \in DOMAIN stream : stream[i].attempt \in 1 .. n,
         \A i \in DOMAIN t : t[i].attempt \in 1 .. n
  PROVE  \A i \in DOMAIN stream' : stream'[i].attempt \in 1 .. n
PROOF
<1>1. /\ DOMAIN stream = 1 .. Len(stream) /\ DOMAIN t = 1 .. Len(t)
      /\ DOMAIN stream' = 1 .. Len(stream) + Len(t)
      /\ Len(stream) \in Nat /\ Len(t) \in Nat
  BY DEF Merged
<1> TAKE i \in DOMAIN stream'
<1>2. CASE i <= Len(stream)
  BY <1>1, <1>2 DEF Merged
<1>3. CASE i > Len(stream)
  <2>1. i - Len(stream) \in 1 .. Len(t) /\ Len(stream) + (i - Len(stream)) = i
    BY <1>1, <1>3
  <2> QED
    BY <1>1, <2>1 DEF Merged
<1> QED
  BY <1>1, <1>2, <1>3

\* Whatever keeps the ticket, the configuration and the routes keeps what is
\* known of the routes.
LEMMA RoutesKept ==
  ASSUME RouteInvariant, UNCHANGED <<ticket, config, runtime, routes>>,
         phase' \in {"hosted", "executed", "decided", "raised"},
         phase' # "raised" => Attempt > 0, phase' = "hosted" => phase = "hosted",
         fallback' = fallback \/ (fallback' /\ Attempt > 0)
  PROVE  RouteInvariant'
PROOF
<1>1. Attempt' = Attempt /\ Sem' = Sem /\ HostedFallback' = HostedFallback
      /\ ChooseRoute(Sem, config, runtime)' = ChooseRoute(Sem, config, runtime)
  BY DEF Attempt, Sem, HostedFallback
<1>2. \A r : ProviderOf(r)' = ProviderOf(r) /\ RunsLocally(r)' = RunsLocally(r)
  BY DEF ProviderOf, RunsLocally
<1>3. ProviderOf(routes[1])' = ProviderOf(routes[1])
      /\ RunsLocally(routes[1])' = RunsLocally(routes[1])
  BY DEF ProviderOf, RunsLocally
<1>4. Attempt \in Nat
  BY DEF RouteInvariant, Attempt
<1> QED
  BY <1>1, <1>3, <1>4 DEF RouteInvariant

\* Before anything is chosen nothing has happened.
LEMMA DispatchInitially == DispatchInit => DispatchInvariant
PROOF
<1> SUFFICES ASSUME DispatchInit PROVE DispatchInvariant
  OBVIOUS
<1>1. /\ phase = "route" /\ ticket \in Tickets /\ config \in Configurations
      /\ runtime \in BOOLEAN /\ fallback = FALSE /\ Init
      /\ routes = << >> /\ stream = << >> /\ retryCount = 0 /\ summaries = {}
      /\ verdict = NoVerdict
  BY DEF DispatchInit
<1>2. RouteInvariant
  BY <1>1 DEF RouteInvariant, Attempt
<1>3. ExecutionInvariant
  BY <1>1 DEF ExecutionInvariant, Init
<1>4. StreamInvariant
  <2>1. HostedAsked = {}
    BY <1>1 DEF HostedAsked
  <2> QED
    BY <1>1, <1>2, <2>1 DEF StreamInvariant, RouteInvariant, Attempt
<1>5. OutcomeInvariant
  BY <1>1 DEF OutcomeInvariant, NoVerdict, Verdict
<1> QED
  BY <1>1, <1>2, <1>3, <1>4, <1>5 DEF DispatchInvariant

LEMMA ClassificationFailsKeeps == DispatchInvariant /\ ClassificationFails => DispatchInvariant'
PROOF
<1> SUFFICES ASSUME DispatchInvariant, ClassificationFails PROVE DispatchInvariant'
  OBVIOUS
<1>1. /\ phase = "route" /\ phase' = "raised" /\ Attempt = 0
      /\ UNCHANGED <<vars, ticket, config, runtime, routes, stream, retryCount,
                     fallback, summaries, verdict>>
  BY DEF ClassificationFails, DispatchInvariant, RouteInvariant
<1>2. RouteInvariant'
  BY <1>1, RoutesKept DEF DispatchInvariant
<1>3. ExecutionInvariant'
  BY <1>1 DEF DispatchInvariant, ExecutionInvariant, vars
<1>4. StreamInvariant'
  <2>1. stream = << >> /\ Attempt' = 0 /\ HostedAsked' = HostedAsked /\ HostedAsked = {}
    BY <1>1 DEF DispatchInvariant, StreamInvariant, Attempt, HostedAsked
  <2> QED
    BY <1>1, <2>1 DEF DispatchInvariant, StreamInvariant, MayLeave
<1>5. OutcomeInvariant'
  BY <1>1 DEF DispatchInvariant, OutcomeInvariant, Attempt
<1> QED
  BY <1>1, <1>2, <1>3, <1>4, <1>5 DEF DispatchInvariant

LEMMA ChooseExecutorKeeps == DispatchInvariant /\ ChooseExecutor => DispatchInvariant'
PROOF
<1> SUFFICES ASSUME DispatchInvariant, ChooseExecutor PROVE DispatchInvariant'
  OBVIOUS
<1>1. PICK route : route = ChooseRoute(Sem, config, runtime)
  OBVIOUS
<1>2. /\ phase = "route" /\ ~Unclassifiable(ticket) /\ routes' = <<route>>
      /\ IF ProviderOf(route) = "local" /\ runtime
         THEN phase' = "local" /\ UNCHANGED vars
         ELSE phase' = "hosted" /\ BeginHosted(route)
      /\ UNCHANGED <<ticket, config, runtime, stream, retryCount, fallback, summaries, verdict>>
  BY <1>1 DEF ChooseExecutor
<1>3. /\ Attempt' = 1 /\ routes'[1] = route /\ Route' = route
      /\ Sem' = Sem /\ ProviderOf(route)' = ProviderOf(route)
      /\ ChooseRoute(Sem, config, runtime)' = ChooseRoute(Sem, config, runtime)
  BY <1>2 DEF Attempt, Route, Sem, ProviderOf
<1>4. route \in Routes
  <2>1. ticket \in Frontmatter /\ config \in Guardrails /\ runtime \in BOOLEAN
    BY DispatchAssumption DEF DispatchInvariant
  <2>2. Sem \in Semantics
    BY <1>2, <2>1, ClassifiedSemantics DEF Sem
  <2> QED
    BY <1>1, <2>1, <2>2, ChosenRoutes DEF IsRouteFor
<1>5. /\ stream = << >> /\ HostedAsked = {} /\ HostedAsked' = {}
      /\ Attempt = 0 /\ fallback = FALSE /\ input \in Inputs /\ Init
      /\ verdict = NoVerdict /\ retryCount = 0 /\ summaries = {}
  <2>1. Attempt = 0 /\ stream = << >> /\ fallback = FALSE /\ input \in Inputs /\ Init
    BY <1>2 DEF DispatchInvariant, RouteInvariant, StreamInvariant, ExecutionInvariant
  <2>2. HostedAsked = {} /\ HostedAsked' = {}
    BY <1>2, <2>1 DEF HostedAsked
  <2> QED
    BY <1>2, <2>1, <2>2 DEF DispatchInvariant, OutcomeInvariant
<1>6. (RunsLocally(routes[1]))' <=> (ProviderOf(route) = "local" /\ runtime)
  BY <1>2, <1>3 DEF RunsLocally, ProviderOf
<1>7. RouteInvariant'
  BY <1>1, <1>2, <1>3, <1>4, <1>5, <1>6 DEF RouteInvariant
<1>8. phase' \in {"local", "hosted"} /\ input' \in Inputs /\ (phase' = "local" => Init')
      /\ (phase' = "hosted" => /\ ExecutorInvariant' /\ EventInvariant'
                               /\ input'.routed <=> ProviderOf(route) = "openrouter")
  <2>1. CASE ProviderOf(route) = "local" /\ runtime
    BY <1>2, <1>5, <2>1 DEF vars, Init
  <2>2. CASE ~(ProviderOf(route) = "local" /\ runtime)
    BY <1>2, <1>5, <2>2, Begun
  <2> QED
    BY <2>1, <2>2
<1>9. ExecutionInvariant'
  BY <1>3, <1>8 DEF ExecutionInvariant, Route, ProviderOf
<1>10. StreamInvariant'
  <2>1. StreamCount("retry.scheduled")' = 0
    <3>1. {i \in DOMAIN stream' : stream'[i].type = "retry.scheduled"} = {}
      BY <1>2, <1>5
    <3> QED
      BY <3>1, FS_EmptySet DEF StreamCount
  <2>2. stream' = << >> /\ stream' \in Seq(StreamEvents)
    BY <1>2, <1>5
  <2> QED
    BY <1>3, <1>5, <1>8, <2>1, <2>2 DEF StreamInvariant
<1>11. OutcomeInvariant'
  BY <1>2, <1>3, <1>5, <1>8 DEF OutcomeInvariant, NoVerdict, Verdict
<1> QED
  BY <1>2, <1>7, <1>8, <1>9, <1>10, <1>11 DEF DispatchInvariant

LEMMA HostedStepKeeps == DispatchInvariant /\ HostedStep => DispatchInvariant'
PROOF
<1> SUFFICES ASSUME DispatchInvariant, HostedStep PROVE DispatchInvariant'
  OBVIOUS
<1>1. phase = "hosted" /\ Next /\ UNCHANGED dispatchVars
      /\ UNCHANGED <<phase, ticket, config, runtime, routes, stream, retryCount, fallback,
                     summaries, verdict>>
  BY DEF HostedStep, dispatchVars
<1>2. ExecutorInvariant' /\ EventInvariant'
  BY <1>1, ExecutorStep, EventInvariantStep DEF DispatchInvariant, ExecutionInvariant
<1>3. input' = input
  BY <1>1 DEF Next, Block, RaiseToolsDisabled, BeginAttempts, Request, FallThrough, TransportFails,
         MalformedResponse, ParsingRaises, Respond, GuardrailFails, GuardrailPasses, ToolCallsRefused,
         InvokeTool, InvokerRaises, Succeed, FailedResult
<1>4. Attempt' = Attempt /\ ProviderOf(Route)' = ProviderOf(Route) /\ Sem' = Sem
      /\ MaxAttempts' = MaxAttempts /\ HostedAsked' = HostedAsked
      /\ StreamCount("retry.scheduled")' = StreamCount("retry.scheduled")
      /\ MayLeave' = MayLeave /\ FailedLocally' = FailedLocally
  BY <1>1, <1>3 DEF Attempt, ProviderOf, Route, Sem, MaxAttempts, HostedAsked, StreamCount,
                    MayLeave, FailedLocally
<1>5. RouteInvariant'
  BY <1>1, RoutesKept DEF DispatchInvariant, RouteInvariant
<1>6. ExecutionInvariant'
  BY <1>1, <1>2, <1>3, <1>4 DEF DispatchInvariant, ExecutionInvariant
<1>7. StreamInvariant'
  BY <1>1, <1>4 DEF DispatchInvariant, StreamInvariant
<1>8. OutcomeInvariant'
  BY <1>1, <1>4 DEF DispatchInvariant, OutcomeInvariant
<1> QED
  BY <1>1, <1>5, <1>6, <1>7, <1>8 DEF DispatchInvariant

LEMMA HostedRaisesKeeps == DispatchInvariant /\ HostedRaises => DispatchInvariant'
PROOF
<1> SUFFICES ASSUME DispatchInvariant, HostedRaises PROVE DispatchInvariant'
  OBVIOUS
<1>1. /\ phase = "hosted" /\ phase' = "raised"
      /\ UNCHANGED <<vars, ticket, config, runtime, routes, stream, retryCount,
                     fallback, summaries, verdict>>
  BY DEF HostedRaises
<1>2. Attempt' = Attempt /\ HostedAsked' = HostedAsked
      /\ MayLeave' = MayLeave /\ FailedLocally' = FailedLocally
  BY <1>1 DEF Attempt, HostedAsked, Sem, MayLeave, FailedLocally
<1>3. RouteInvariant'
  BY <1>1, RoutesKept DEF DispatchInvariant
<1>4. ExecutionInvariant'
  BY <1>1 DEF DispatchInvariant, ExecutionInvariant, vars
<1>5. StreamInvariant'
  BY <1>1, <1>2 DEF DispatchInvariant, StreamInvariant
<1>6. OutcomeInvariant'
  BY <1>1, <1>2 DEF DispatchInvariant, OutcomeInvariant
<1> QED
  BY <1>1, <1>3, <1>4, <1>5, <1>6 DEF DispatchInvariant

\* A stream that ends with a completion is complete there.
LEMMA EndIsComplete ==
  ASSUME NEW t \in Seq(StreamEvents), Merged(t), stream \in Seq(StreamEvents), Attempt' = Attempt,
         EndsWith(t, Attempt, "execution.completed", "completed")
  PROVE  CompletedAt(Len(stream))'
PROOF
<1>1. /\ Len(t) \in 1 .. Len(t) /\ Len(t) \in Nat /\ Len(stream) \in Nat
      /\ Len(stream') = Len(stream) + Len(t) /\ DOMAIN stream' = 1 .. Len(stream')
  BY DEF Merged, EndsWith
<1>2. stream'[Len(stream')] = [attempt |-> Attempt, type |-> "execution.completed",
                               status |-> "completed"]
  BY <1>1 DEF Merged, EndsWith
<1>3. Len(stream') \in DOMAIN stream' /\ Len(stream') + 1 .. Len(stream') = {}
  BY <1>1
<1> QED
  BY <1>2, <1>3 DEF CompletedAt

\* A hosted execution that has a route is of a ticket that may leave.
LEMMA RoutedMayLeave ==
  ASSUME RouteInvariant, ticket \in Tickets, config \in Configurations, runtime \in BOOLEAN,
         Attempt \in {1, 2}, ProviderOf(Route) = "openrouter"
  PROVE  MayLeave
PROOF
<1>1. CASE Attempt = 2
  BY <1>1 DEF RouteInvariant, MayLeave
<1>2. CASE Attempt = 1
  <2>1. /\ routes[1] = ChooseRoute(Sem, config, runtime) /\ Route = routes[1]
        /\ Sem \in Semantics /\ config \in Guardrails /\ runtime \in BOOLEAN
    BY <1>2, DispatchAssumption, ClassifiedSemantics DEF RouteInvariant, Route, Sem
  <2>2. PICK sem \in Semantics, g \in Guardrails, b \in BOOLEAN :
          sem = Sem /\ g = config /\ b = runtime
    BY <2>1
  <2> DEFINE r == Route
  <2>3. IsRouteFor(r, sem, g, b)
    BY <2>1, <2>2, ChosenRoutes
  <2>4. r.selected /\ g.provider[r.family] = "openrouter"
    BY <2>2 DEF ProviderOf
  <2>5. sem.target = "local" => g.provider["local"] = "openrouter"
    BY <2>3, <2>4 DEF IsRouteFor
  <2> QED
    BY <2>2, <2>5 DEF MayLeave
<1> QED
  BY <1>1, <1>2

LEMMA HostedReturnsKeeps == DispatchInvariant /\ HostedReturns => DispatchInvariant'
PROOF
<1> SUFFICES ASSUME DispatchInvariant, HostedReturns PROVE DispatchInvariant'
  OBVIOUS
<1>1. /\ phase = "hosted" /\ Returned /\ phase' = "executed"
      /\ stream' = stream \o Tagged(Attempt, events)
      /\ retryCount' = retries + Attempt - 1 /\ summaries' = {Attempt}
      /\ UNCHANGED <<vars, ticket, config, runtime, routes, fallback, verdict>>
  BY DEF HostedReturns
<1>2. /\ RouteInvariant /\ ExecutionInvariant /\ StreamInvariant /\ OutcomeInvariant
      /\ Attempt \in {1, 2} /\ ExecutorInvariant /\ EventInvariant
      /\ input.routed <=> ProviderOf(Route) = "openrouter"
      /\ stream \in Seq(StreamEvents) /\ HostedAsked = {} /\ retries \in Nat
      /\ StreamCount("retry.scheduled") = Attempt - 1
      /\ \A i \in DOMAIN stream : stream[i].attempt \in 1 .. Attempt
  BY <1>1 DEF DispatchInvariant, RouteInvariant, ExecutionInvariant, StreamInvariant,
              ExecutorInvariant, TypeOK
<1>0. PICK k \in {1, 2} : k = Attempt
  BY <1>2
<1>3. PICK t : k = Attempt /\ t = Tagged(k, events)
  BY <1>0
<1>4. /\ t \in Seq(StreamEvents) /\ \A i \in DOMAIN t : t[i].attempt = k
      /\ Cardinality(ByType(t, "retry.scheduled")) = retries
      /\ ByType(t, "provider.requested") # {} =>
           input.routed /\ Cardinality(ByType(t, "provider.requested")) <= MaxAttempts
      /\ result = "succeeded" => EndsWith(t, k, "execution.completed", "completed")
  BY <1>2, <1>3, HostedStream
<1>5. Merged(t)
  BY <1>1, <1>2, <1>3, <1>4, Merges
<1>6. Attempt' = Attempt /\ ProviderOf(Route)' = ProviderOf(Route) /\ Sem' = Sem
      /\ MaxAttempts' = MaxAttempts /\ MayLeave' = MayLeave
      /\ UNCHANGED <<input, result, pc>>
  BY <1>1 DEF Attempt, ProviderOf, Route, Sem, MaxAttempts, MayLeave, vars
<1>7. RouteInvariant'
  BY <1>1, <1>2, RoutesKept
<1>8. ExecutionInvariant'
  BY <1>1, <1>2, <1>6 DEF ExecutionInvariant, Returned
<1>9. input.routed => MayLeave
  BY <1>1, <1>2, RoutedMayLeave DEF DispatchInvariant
<1>10. StreamInvariant'
  <2>1. stream' \in Seq(StreamEvents)
    BY <1>5 DEF Merged
  <2>2. \A i \in DOMAIN stream' : stream'[i].attempt \in 1 .. Attempt'
    <3>1. \A i \in DOMAIN t : t[i].attempt \in 1 .. k
      BY <1>4
    <3>2. \A i \in DOMAIN stream' : stream'[i].attempt \in 1 .. k
      BY <1>2, <1>3, <1>4, <1>5, <3>1, AttemptsMerge
    <3> QED
      BY <1>3, <1>6, <3>2
  <2>3. Attempt' = 2 => FailedLocally'
    BY <1>2, <1>5, <1>6 DEF StreamInvariant, Merged
  <2>4. HostedAsked' # {} => MayLeave' /\ Cardinality(HostedAsked') <= MaxAttempts'
    BY <1>2, <1>4, <1>5, <1>6, <1>9 DEF Merged
  <2>5. retryCount' = StreamCount("retry.scheduled")' /\ summaries' = {Attempt'}
    BY <1>1, <1>2, <1>4, <1>5, <1>6 DEF Merged
  <2> QED
    BY <1>1, <2>1, <2>2, <2>3, <2>4, <2>5 DEF StreamInvariant
<1>11. OutcomeInvariant'
  <2>1. retryCount' \in Nat /\ summaries' \subseteq 1 .. Attempt'
    BY <1>1, <1>2, <1>6
  <2>2. result' = "succeeded" => CompletedAt(Len(stream))'
    <3>1. ASSUME result = "succeeded" PROVE CompletedAt(Len(stream))'
      BY <1>2, <1>3, <1>4, <1>5, <1>6, <3>1, EndIsComplete
    <3> QED
      BY <1>6, <3>1
  <2>3. ASSUME Attempt = 1, ProviderOf(Route) = "local"
        PROVE  ~runtime /\ result = "blocked"
    <3>1. ~runtime
      BY <1>1, <1>2, <2>3 DEF RouteInvariant, RunsLocally, Route
    <3>2. ~input.routed
      BY <1>2, <2>3
    <3>3. pc # "created"
      BY <1>1, <1>2 DEF ExecutorInvariant, TypeOK, Returned
    <3> QED
      BY <1>2, <3>1, <3>2, <3>3 DEF EventInvariant
  <2> QED
    BY <1>1, <1>2, <1>6, <2>1, <2>2, <2>3 DEF OutcomeInvariant
<1> QED
  BY <1>1, <1>7, <1>8, <1>10, <1>11 DEF DispatchInvariant

\* What both outcomes of a local execution have in common.
LEMMA LocalReturnsKeeps ==
  ASSUME DispatchInvariant, NEW status \in {"succeeded", "failed"},
         NEW last \in {"completed", "failed"}, status = "succeeded" <=> last = "completed",
         LocalReturns(status, <<Event("provider.responded", status),
                                Event("execution.completed", last)>>)
  PROVE  DispatchInvariant'
PROOF
<1>1. /\ phase = "local" /\ result' = status /\ summaries' = {1} /\ phase' = "executed"
      /\ stream' = Tagged(1, <<Event("execution.created", "started")>>
                               \o <<Event("provider.responded", status),
                                    Event("execution.completed", last)>>)
      /\ UNCHANGED <<pc, input, index, retries, response, events, ticket, config, runtime,
                     routes, retryCount, fallback, verdict>>
  BY DEF LocalReturns
<1>2. /\ RouteInvariant /\ input \in Inputs /\ Attempt = 1 /\ RunsLocally(routes[1])
      /\ retryCount = 0 /\ verdict = NoVerdict /\ verdict.decision \in Decisions \cup {"none"}
      /\ ticket \in Tickets /\ config \in Configurations /\ runtime \in BOOLEAN
      /\ fallback \in BOOLEAN
  BY <1>1 DEF DispatchInvariant, RouteInvariant, ExecutionInvariant, OutcomeInvariant
<1>3. /\ stream' \in Seq(StreamEvents) /\ \A i \in DOMAIN stream' : stream'[i].attempt = 1
      /\ ByType(stream', "provider.requested") = {} /\ ByType(stream', "retry.scheduled") = {}
      /\ EndsWith(stream', 1, "execution.completed", last)
  BY <1>1, LocalStream
<1>4. Attempt' = 1 /\ HostedAsked' = {} /\ StreamCount("retry.scheduled")' = 0
  <2>1. HostedAsked' = ByType(stream', "provider.requested")
        /\ StreamCount("retry.scheduled")' = Cardinality(ByType(stream', "retry.scheduled"))
    BY DEF HostedAsked, StreamCount, ByType
  <2> QED
    BY <1>1, <1>2, <1>3, <2>1, FS_EmptySet DEF Attempt
<1>5. stream'[Len(stream')] =
        [attempt |-> 1, type |-> "execution.completed", status |-> last]
      /\ Len(stream') \in DOMAIN stream' /\ Len(stream') \in Nat
  BY <1>3 DEF EndsWith
<1>6. RouteInvariant'
  BY <1>1, <1>2, RoutesKept
<1>7. ExecutionInvariant'
  BY <1>1, <1>2 DEF ExecutionInvariant, Returned
<1>8. StreamInvariant'
  <2>1. \A i \in DOMAIN stream' : stream'[i].attempt \in 1 .. Attempt'
    BY <1>3, <1>4
  <2> QED
    BY <1>1, <1>2, <1>3, <1>4, <2>1 DEF StreamInvariant
<1>9. OutcomeInvariant'
  <2>1. status = "succeeded" => CompletedAt(Len(stream))'
    <3>1. Len(stream') + 1 .. Len(stream') = {}
      BY <1>5
    <3> QED
      BY <1>4, <1>5, <3>1 DEF CompletedAt
  <2>2. status = "failed" => FailedLocally'
    BY <1>5 DEF FailedLocally
  <2>3. runtime' /\ retryCount' = 0 /\ verdict' = NoVerdict
    BY <1>1, <1>2 DEF RunsLocally
  <2> QED
    BY <1>1, <1>2, <1>4, <2>1, <2>2, <2>3 DEF OutcomeInvariant
<1> QED
  BY <1>1, <1>2, <1>6, <1>7, <1>8, <1>9 DEF DispatchInvariant

\* Without a hosted route that fits, the failed local result is kept.
LEMMA FallBackIsBlockedKeeps == DispatchInvariant /\ FallBackIsBlocked => DispatchInvariant'
PROOF
<1> SUFFICES ASSUME DispatchInvariant, FallBackIsBlocked PROVE DispatchInvariant'
  OBVIOUS
<1>1. /\ phase = "executed" /\ Attempt = 1 /\ fallback' = TRUE
      /\ UNCHANGED <<vars, phase, ticket, config, runtime, routes, stream, retryCount,
                     summaries, verdict>>
  BY DEF FallBackIsBlocked, ShouldFallBack
<1>2. Attempt' = Attempt /\ HostedAsked' = HostedAsked /\ Returned' = Returned
      /\ MayLeave' = MayLeave /\ FailedLocally' = FailedLocally /\ MaxAttempts' = MaxAttempts
      /\ StreamCount("retry.scheduled")' = StreamCount("retry.scheduled")
      /\ ProviderOf(Route)' = ProviderOf(Route) /\ CompletedAt(Len(stream))' = CompletedAt(Len(stream))
      /\ UNCHANGED <<result, input>>
  BY <1>1 DEF Attempt, HostedAsked, Sem, MayLeave, FailedLocally, MaxAttempts, StreamCount,
              ProviderOf, Route, CompletedAt, Returned, vars
<1>3. RouteInvariant'
  BY <1>1, <1>2, RoutesKept DEF DispatchInvariant
<1>4. ExecutionInvariant'
  BY <1>1, <1>2 DEF DispatchInvariant, ExecutionInvariant
<1>5. StreamInvariant'
  BY <1>1, <1>2 DEF DispatchInvariant, StreamInvariant
<1>6. OutcomeInvariant'
  BY <1>1, <1>2 DEF DispatchInvariant, OutcomeInvariant
<1> QED
  BY <1>1, <1>3, <1>4, <1>5, <1>6 DEF DispatchInvariant

\* A second route is put after the first.
LEMMA SecondRoute ==
  ASSUME NEW s \in Seq(Routes), Len(s) = 1, NEW r \in Routes
  PROVE  LET u == Append(s, r)
         IN  Len(u) = 2 /\ u[1] = s[1] /\ u[2] = r /\ u \in Seq(Routes)
PROOF
<1> DEFINE u == Append(s, r)
<1>1. /\ u \in Seq(Routes) /\ Len(u) = Len(s) + 1
      /\ \A i \in 1 .. Len(s) : u[i] = s[i]
      /\ u[Len(s) + 1] = r
  <2>1. \A S : \A seq \in Seq(S), elt \in S :
          /\ Append(seq, elt) \in Seq(S) /\ Len(Append(seq, elt)) = Len(seq) + 1
          /\ \A i \in 1 .. Len(seq) : Append(seq, elt)[i] = seq[i]
          /\ Append(seq, elt)[Len(seq) + 1] = elt
    BY AppendProperties
  <2> QED
    BY <2>1, Zenon
<1> HIDE DEF u
<1>2. Len(u) = 2 /\ u[1] = s[1] /\ u[2] = r
  BY <1>1
<1> QED
  BY <1>1, <1>2 DEF u

\* A failed local execution is followed by a hosted one.
LEMMA FallBackKeeps == DispatchInvariant /\ FallBack => DispatchInvariant'
PROOF
<1> SUFFICES ASSUME DispatchInvariant, FallBack PROVE DispatchInvariant'
  OBVIOUS
<1> DEFINE d == Event("retry.scheduled", "retry_scheduled")
           e == Event("route.selected", "succeeded")
<1>1. /\ phase = "executed" /\ Attempt = 1 /\ Sem.target = "auto"
      /\ ProviderOf(Route) = "local" /\ result = "failed" /\ HostedFallback.selected
      /\ fallback' = TRUE /\ routes' = Append(routes, HostedFallback) /\ phase' = "hosted"
      /\ stream' = stream \o Tagged(1, <<d, e>>)
      /\ BeginHosted(HostedFallback)
      /\ UNCHANGED <<ticket, config, runtime, retryCount, summaries, verdict>>
  BY DEF FallBack, ShouldFallBack
<1>2. /\ RouteInvariant /\ ExecutionInvariant /\ StreamInvariant /\ OutcomeInvariant
      /\ ticket \in Tickets /\ config \in Configurations /\ runtime \in BOOLEAN
      /\ routes \in Seq(Routes) /\ Len(routes) = 1 /\ input \in Inputs
      /\ ~Unclassifiable(ticket) /\ routes[1] = ChooseRoute(Sem, config, runtime)
      /\ stream \in Seq(StreamEvents) /\ verdict = NoVerdict
      /\ verdict.decision \in Decisions \cup {"none"}
  BY <1>1 DEF DispatchInvariant, RouteInvariant, ExecutionInvariant, StreamInvariant,
              OutcomeInvariant, Attempt
<1>3. /\ HostedAsked = {} /\ retryCount = 0 /\ FailedLocally
      /\ StreamCount("retry.scheduled") = 0
      /\ \A i \in DOMAIN stream : stream[i].attempt \in 1 .. 1
  BY <1>1, <1>2 DEF OutcomeInvariant, StreamInvariant
<1>4. HostedFallback \in Routes
  <2>1. ticket \in Frontmatter /\ config \in Guardrails
    BY <1>2, DispatchAssumption
  <2>2. Sem \in Semantics
    BY <1>2, <2>1, ClassifiedSemantics DEF Sem
  <2> QED
    BY <2>1, <2>2, ChosenRoutes DEF IsRouteFor, HostedFallback
<1>5. /\ Attempt' = 2 /\ routes'[1] = routes[1] /\ routes'[2] = HostedFallback
      /\ routes' \in Seq(Routes)
  <2> DEFINE route == HostedFallback
  <2>1. routes' = Append(routes, route) /\ route \in Routes
    BY <1>1, <1>4
  <2> HIDE DEF route
  <2>2. Len(routes') = 2 /\ routes'[1] = routes[1] /\ routes'[2] = route /\ routes' \in Seq(Routes)
    BY <1>2, <2>1, SecondRoute
  <2> QED
    BY <2>2 DEF Attempt, route
<1>6. /\ Sem' = Sem /\ HostedFallback' = HostedFallback /\ MayLeave' = MayLeave
      /\ ChooseRoute(Sem, config, runtime)' = ChooseRoute(Sem, config, runtime)
      /\ ProviderOf(routes[1])' = ProviderOf(routes[1])
      /\ ProviderOf(Route)' = ProviderOf(HostedFallback)
      /\ Route = routes[1]
  BY <1>1, <1>2, <1>5 DEF Sem, HostedFallback, MayLeave, ProviderOf, Route, Attempt
<1>7. /\ ExecutorInvariant' /\ EventInvariant' /\ input' \in Inputs
      /\ input'.routed <=> ProviderOf(HostedFallback) = "openrouter"
  BY <1>1, <1>2, Begun
<1>0. PICK k \in {1, 2} : k = 1
  OBVIOUS
<1>8. PICK t : t = Tagged(k, <<d, e>>)
  OBVIOUS
<1>9. /\ t \in Seq(StreamEvents) /\ Len(t) = 2
      /\ t[1].attempt = 1 /\ t[2].attempt = 1
      /\ ByType(t, "provider.requested") = {} /\ Cardinality(ByType(t, "retry.scheduled")) = 1
  <2>1. d \in DispatchEvents /\ e \in DispatchEvents
        /\ d.type = "retry.scheduled" /\ e.type = "route.selected"
    BY Labels, Named, Emitted DEF Event, EventStatuses
  <2> HIDE DEF d, e
  <2>2. /\ t \in Seq(StreamEvents) /\ Len(t) = 2
        /\ t[1] = [attempt |-> k, type |-> d.type, status |-> d.status]
        /\ t[2] = [attempt |-> k, type |-> e.type, status |-> e.status]
        /\ \A x : d.type # x /\ e.type # x => ByType(t, x) = {}
    BY <1>8, <2>1, TwoTagged
  <2>5. Cardinality(ByType(t, "retry.scheduled")) = 1
    <3>1. Cardinality(ByType(t, d.type)) = 1
      BY <1>8, <2>1, FirstCounted
    <3> QED
      BY <2>1, <3>1
  <2>3. t[1].attempt = 1 /\ t[2].attempt = 1
    BY <1>0, <2>2
  <2>4. ByType(t, "provider.requested") = {}
    BY <2>1, <2>2
  <2> QED
    BY <2>2, <2>3, <2>4, <2>5
<1>10. Merged(t)
  BY <1>0, <1>1, <1>2, <1>8, <1>9, Merges
<1>11. RouteInvariant'
  BY <1>1, <1>2, <1>5, <1>6 DEF RouteInvariant
<1>12. ExecutionInvariant'
  BY <1>1, <1>6, <1>7 DEF ExecutionInvariant
<1>13. StreamInvariant'
  <2>1. stream' \in Seq(StreamEvents) /\ FailedLocally'
    BY <1>3, <1>10 DEF Merged
  <2>2. HostedAsked' = {}
    BY <1>3, <1>9, <1>10 DEF Merged
  <2>3. StreamCount("retry.scheduled")' = 1
    BY <1>3, <1>9, <1>10 DEF Merged
  <2>4. \A i \in DOMAIN stream' : stream'[i].attempt \in 1 .. Attempt'
    <3>1. \A i \in DOMAIN t : t[i].attempt \in 1 .. 1
      <4>1. DOMAIN t = {1, 2}
        BY <1>9
      <4> QED
        BY <1>9, <4>1
    <3>2. \A i \in DOMAIN stream' : stream'[i].attempt \in 1 .. 1
      BY <1>2, <1>3, <1>9, <1>10, <3>1, AttemptsMerge
    <3> QED
      BY <1>5, <3>2
  <2>5. phase' = "hosted" /\ Attempt' = 2
    BY <1>1, <1>5
  <2> QED
    BY <2>1, <2>2, <2>3, <2>4, <2>5 DEF StreamInvariant
<1>14. OutcomeInvariant'
  <2>1. retryCount' \in Nat /\ summaries' \subseteq 1 .. Attempt'
    BY <1>1, <1>2, <1>3, <1>5 DEF OutcomeInvariant
  <2> QED
    BY <1>1, <1>2, <2>1 DEF OutcomeInvariant, NoVerdict, Verdict
<1> QED
  BY <1>1, <1>2, <1>11, <1>12, <1>13, <1>14 DEF DispatchInvariant

\* The gate lets a change through only after an execution that succeeded.
LEMMA GateDecisions ==
  ASSUME NEW req, NEW policy
  PROVE  /\ Evaluate(req, policy).decision \in Decisions
         /\ Evaluate(req, policy) # NoVerdict
         /\ Evaluate(req, policy).decision # "rejected" => req.executor = "succeeded"
PROOF
BY DEF Evaluate, Verdict, NoVerdict, Decisions

LEMMA DecideKeeps == DispatchInvariant /\ Decide => DispatchInvariant'
PROOF
<1> SUFFICES ASSUME DispatchInvariant, Decide PROVE DispatchInvariant'
  OBVIOUS
<1>1. /\ phase = "executed" /\ phase' = "decided"
      /\ UNCHANGED <<vars, ticket, config, runtime, routes, retryCount, fallback, summaries>>
  BY DEF Decide
<1>2. /\ RouteInvariant /\ ExecutionInvariant /\ StreamInvariant /\ OutcomeInvariant
      /\ ticket \in Tickets /\ config \in Configurations /\ runtime \in BOOLEAN
      /\ fallback \in BOOLEAN /\ Attempt \in {1, 2} /\ stream \in Seq(StreamEvents)
      /\ \A i \in DOMAIN stream : stream[i].attempt \in 1 .. Attempt
      /\ result = "succeeded" => CompletedAt(Len(stream))
  BY <1>1 DEF DispatchInvariant, RouteInvariant, StreamInvariant, OutcomeInvariant
<1>3. /\ verdict'.decision \in Decisions /\ verdict' # NoVerdict
      /\ verdict'.decision # "rejected" => result = "succeeded"
  <2>1. PICK changes \in PlannedChanges, secret \in BOOLEAN, deterministic \in BOOLEAN :
          verdict' = Evaluate([executor |-> result, passed |-> TRUE, changes |-> changes,
                               secretInOutput |-> secret, deterministic |-> deterministic], Policy)
    BY DEF Decide
  <2> DEFINE req == [executor |-> result, passed |-> TRUE, changes |-> changes,
                     secretInOutput |-> secret, deterministic |-> deterministic]
  <2>2. verdict' = Evaluate(req, Policy) /\ req.executor = result
    BY <2>1
  <2> HIDE DEF req
  <2> QED
    BY <2>2, GateDecisions
<1>4. PICK status \in {"succeeded", "failed"} :
        stream' = stream \o Tagged(Attempt, <<Event("validation.completed", status),
                                              Event("write_gate.decided", status)>>)
  BY DEF Decide
<1> DEFINE d == Event("validation.completed", status)
           e == Event("write_gate.decided", status)
<1>5. PICK k \in {1, 2} : k = Attempt
  BY <1>2
<1>6. PICK t : t = Tagged(k, <<d, e>>)
  OBVIOUS
<1>7. /\ t \in Seq(StreamEvents) /\ Len(t) = 2
      /\ t[1].attempt = k /\ t[2].attempt = k
      /\ t[1].type # "execution.completed" /\ t[2].type # "execution.completed"
      /\ ByType(t, "provider.requested") = {} /\ ByType(t, "retry.scheduled") = {}
  <2>1. d \in DispatchEvents /\ e \in DispatchEvents
        /\ d.type = "validation.completed" /\ e.type = "write_gate.decided"
    BY Labels DEF Event, EventStatuses
  <2> HIDE DEF d, e
  <2>2. /\ t \in Seq(StreamEvents) /\ Len(t) = 2
        /\ t[1] = [attempt |-> k, type |-> d.type, status |-> d.status]
        /\ t[2] = [attempt |-> k, type |-> e.type, status |-> e.status]
        /\ \A x : d.type # x /\ e.type # x => ByType(t, x) = {}
    BY <1>6, <2>1, TwoTagged
  <2>3. /\ t[1].attempt = k /\ t[2].attempt = k
        /\ t[1].type # "execution.completed" /\ t[2].type # "execution.completed"
    BY <2>1, <2>2
  <2>4. ByType(t, "provider.requested") = {} /\ ByType(t, "retry.scheduled") = {}
    BY <2>1, <2>2
  <2> QED
    BY <2>2, <2>3, <2>4
<1>8. Merged(t)
  BY <1>2, <1>4, <1>5, <1>6, <1>7, Merges
<1>9. /\ Attempt' = Attempt /\ Sem' = Sem /\ MaxAttempts' = MaxAttempts
      /\ MayLeave' = MayLeave /\ ProviderOf(Route)' = ProviderOf(Route)
      /\ UNCHANGED <<input, result, pc>>
  BY <1>1 DEF Attempt, ProviderOf, Route, Sem, MaxAttempts, MayLeave, vars
<1>10. RouteInvariant'
  BY <1>1, <1>2, RoutesKept
<1>11. ExecutionInvariant'
  BY <1>1, <1>2, <1>9 DEF ExecutionInvariant
<1>12. StreamInvariant'
  <2>1. stream' \in Seq(StreamEvents) /\ (FailedLocally => FailedLocally')
    BY <1>8 DEF Merged
  <2>2. (HostedAsked' = {} <=> HostedAsked = {})
        /\ Cardinality(HostedAsked') = Cardinality(HostedAsked)
    BY <1>7, <1>8 DEF Merged
  <2>3. StreamCount("retry.scheduled")' = retryCount' /\ summaries' = {Attempt'}
    <3>1. retryCount = StreamCount("retry.scheduled") /\ retryCount \in Nat
          /\ summaries = {Attempt}
      BY <1>1, <1>2 DEF StreamInvariant, OutcomeInvariant
    <3>2. Cardinality(ByType(t, "retry.scheduled")) = 0
      BY <1>7, FS_EmptySet
    <3> QED
      BY <1>1, <1>8, <1>9, <3>1, <3>2 DEF Merged
  <2>4. \A i \in DOMAIN stream' : stream'[i].attempt \in 1 .. Attempt'
    <3>1. \A i \in DOMAIN t : t[i].attempt \in 1 .. k
      <4>1. DOMAIN t = {1, 2}
        BY <1>7
      <4> QED
        BY <1>7, <4>1
    <3>2. \A i \in DOMAIN stream' : stream'[i].attempt \in 1 .. k
      BY <1>2, <1>5, <1>7, <1>8, <3>1, AttemptsMerge
    <3> QED
      BY <1>5, <1>9, <3>2
  <2> QED
    BY <1>1, <1>2, <1>9, <2>1, <2>2, <2>3, <2>4 DEF StreamInvariant
<1>13. OutcomeInvariant'
  <2>1. result = "succeeded" => CompletedAt(Len(stream) - 2)'
    <3> SUFFICES ASSUME result = "succeeded" PROVE CompletedAt(Len(stream) - 2)'
      OBVIOUS
    <3> DEFINE n == Len(stream)
    <3>1. /\ n \in 1 .. n /\ Len(stream') = n + 2 /\ DOMAIN stream' = 1 .. n + 2
          /\ stream'[n] = [attempt |-> Attempt, type |-> "execution.completed",
                           status |-> "completed"]
          /\ stream'[n + 1] = t[1] /\ stream'[n + 2] = t[2]
      <4>1. n \in Nat /\ n \in DOMAIN stream /\ DOMAIN stream = 1 .. n
            /\ stream[n] = [attempt |-> Attempt, type |-> "execution.completed",
                            status |-> "completed"]
        BY <1>2 DEF CompletedAt
      <4>2. stream' \in Seq(StreamEvents) /\ Len(stream') = n + 2
            /\ (\A i \in 1 .. n : stream'[i] = stream[i])
            /\ (\A i \in 1 .. 2 : stream'[n + i] = t[i])
        BY <1>7, <1>8 DEF Merged
      <4> HIDE DEF n
      <4> QED
        BY <4>1, <4>2
    <3> HIDE DEF n
    <3>2. \A i \in n + 1 .. n + 2 : /\ stream'[i].type # "execution.completed"
                                    /\ stream'[i].attempt = Attempt
      <4>1. n \in Int /\ \A i \in n + 1 .. n + 2 : i = n + 1 \/ i = n + 2
        BY <3>1
      <4> QED
        BY <1>5, <1>7, <3>1, <4>1
    <3>3. (Len(stream) - 2)' = n /\ n \in DOMAIN stream'
      BY <3>1
    <3> QED
      BY <1>9, <3>1, <3>2, <3>3 DEF CompletedAt
  <2>2. retryCount' \in Nat /\ summaries' \subseteq 1 .. Attempt'
    BY <1>1, <1>2, <1>9 DEF OutcomeInvariant
  <2> QED
    BY <1>1, <1>3, <2>1, <2>2 DEF OutcomeInvariant
<1> QED
  BY <1>1, <1>2, <1>10, <1>11, <1>12, <1>13 DEF DispatchInvariant

\* A step that changes nothing.
LEMMA StutterKeeps == DispatchInvariant /\ UNCHANGED <<vars, dispatchVars>> => DispatchInvariant'
PROOF
<1> SUFFICES ASSUME DispatchInvariant, UNCHANGED <<vars, dispatchVars>> PROVE DispatchInvariant'
  OBVIOUS
<1>1. UNCHANGED <<pc, input, index, retries, response, error, events, result, phase, ticket,
                  config, runtime, routes, stream, retryCount, fallback, summaries, verdict>>
  BY DEF vars, dispatchVars
<1>2. RouteInvariant'
  BY <1>1 DEF DispatchInvariant, RouteInvariant, Attempt, Sem, HostedFallback, RunsLocally, ProviderOf
<1>3. ExecutorInvariant => ExecutorInvariant'
  BY <1>1, ExecutorInductive DEF vars
<1>4. ExecutionInvariant'
  BY <1>1, <1>3 DEF DispatchInvariant, ExecutionInvariant, Init, EventInvariant, Asks, Places,
                    ProviderOf, Route, Attempt, Returned
<1>5. Attempt' = Attempt /\ ProviderOf(Route)' = ProviderOf(Route) /\ Sem' = Sem
      /\ MaxAttempts' = MaxAttempts /\ HostedAsked' = HostedAsked
      /\ StreamCount("retry.scheduled")' = StreamCount("retry.scheduled")
      /\ MayLeave' = MayLeave /\ FailedLocally' = FailedLocally
      /\ CompletedAt(Len(stream))' = CompletedAt(Len(stream))
      /\ CompletedAt(Len(stream) - 2)' = CompletedAt(Len(stream) - 2)
  BY <1>1 DEF Attempt, ProviderOf, Route, Sem, MaxAttempts, HostedAsked, StreamCount,
              MayLeave, FailedLocally, CompletedAt
<1>6. StreamInvariant'
  BY <1>1, <1>5 DEF DispatchInvariant, StreamInvariant
<1>7. OutcomeInvariant'
  BY <1>1, <1>5 DEF DispatchInvariant, OutcomeInvariant
<1> QED
  BY <1>1, <1>2, <1>4, <1>6, <1>7 DEF DispatchInvariant

LEMMA DispatchStep ==
  DispatchInvariant /\ [DispatchNext]_<<vars, dispatchVars>> => DispatchInvariant'
PROOF
<1> SUFFICES ASSUME DispatchInvariant, [DispatchNext]_<<vars, dispatchVars>>
             PROVE  DispatchInvariant'
  OBVIOUS
<1>1. CASE ClassificationFails
  BY <1>1, ClassificationFailsKeeps
<1>2. CASE ChooseExecutor
  BY <1>2, ChooseExecutorKeeps
<1>3. CASE LocalSucceeds
  BY <1>3, LocalReturnsKeeps DEF LocalSucceeds
<1>4. ASSUME NEW kind \in {"timeout", "provider"}, NEW retryable \in BOOLEAN,
             LocalFails(kind, retryable)
      PROVE  DispatchInvariant'
  BY <1>4, LocalReturnsKeeps DEF LocalFails
<1>5. CASE HostedStep
  BY <1>5, HostedStepKeeps
<1>6. CASE HostedRaises
  BY <1>6, HostedRaisesKeeps
<1>7. CASE HostedReturns
  BY <1>7, HostedReturnsKeeps
<1>8. CASE FallBackIsBlocked
  BY <1>8, FallBackIsBlockedKeeps
<1>9. CASE FallBack
  BY <1>9, FallBackKeeps
<1>10. CASE Decide
  BY <1>10, DecideKeeps
<1>11. CASE UNCHANGED <<vars, dispatchVars>>
  BY <1>11, StutterKeeps
<1> QED
  BY <1>1, <1>2, <1>3, <1>4, <1>5, <1>6, <1>7, <1>8, <1>9, <1>10, <1>11 DEF DispatchNext

LEMMA DispatchAlways == DispatchSpec => []DispatchInvariant
PROOF
<1>1. DispatchInit => DispatchInvariant
  BY DispatchInitially
<1>2. DispatchInvariant /\ [DispatchNext]_<<vars, dispatchVars>> => DispatchInvariant'
  BY DispatchStep
<1> QED
  BY <1>1, <1>2, PTL DEF DispatchSpec

(***************************************************************************)
(* What the invariant says.                                                *)
(***************************************************************************)
\* Every route that is taken was chosen for the ticket, with a local runtime
\* only if there is one.
LEMMA RoutesTaken ==
  ASSUME DispatchInvariant
  PROVE  /\ \A i \in DOMAIN routes : \E b \in BOOLEAN :
              (b => runtime) /\ IsRouteFor(routes[i], Sem, config, b)
         /\ Attempt = 2 => IsRouteFor(routes[2], Sem, config, FALSE)
PROOF
<1>1. /\ RouteInvariant /\ ticket \in Frontmatter /\ config \in Guardrails /\ runtime \in BOOLEAN
      /\ routes \in Seq(Routes) /\ DOMAIN routes = 1 .. Attempt /\ Attempt \in {0, 1, 2}
  <2>1. RouteInvariant /\ ticket \in Frontmatter /\ config \in Guardrails /\ runtime \in BOOLEAN
    BY DispatchAssumption DEF DispatchInvariant
  <2>2. routes \in Seq(Routes) /\ Attempt <= 2
    BY <2>1 DEF RouteInvariant
  <2>3. Attempt \in Nat /\ DOMAIN routes = 1 .. Attempt
    BY <2>2 DEF Attempt
  <2>4. Attempt \in {0, 1, 2}
    BY <2>2, <2>3
  <2> QED
    BY <2>1, <2>2, <2>3, <2>4
<1>2. ASSUME Attempt > 0
      PROVE  IsRouteFor(routes[1], Sem, config, runtime)
  <2>1. Sem \in Semantics /\ routes[1] = ChooseRoute(Sem, config, runtime)
    BY <1>1, <1>2, ClassifiedSemantics DEF RouteInvariant, Sem
  <2> QED
    BY <1>1, <2>1, ChosenRoutes
<1>3. ASSUME Attempt = 2
      PROVE  IsRouteFor(routes[2], Sem, config, FALSE)
  <2>1. Sem \in Semantics /\ routes[2] = ChooseRoute(Sem, config, FALSE)
    BY <1>1, <1>3, ClassifiedSemantics DEF RouteInvariant, Sem, HostedFallback
  <2> QED
    BY <1>1, <2>1, ChosenRoutes
<1>4. \A i \in DOMAIN routes : (i = 1 /\ Attempt > 0) \/ (i = 2 /\ Attempt = 2)
  BY <1>1
<1> QED
  BY <1>1, <1>2, <1>3, <1>4

LEMMA DispatchTypesHold == DispatchInvariant => DispatchTypeOK
PROOF
<1> SUFFICES ASSUME DispatchInvariant PROVE DispatchTypeOK
  OBVIOUS
<1>1. \A i \in DOMAIN routes : routes[i].family \in Families \cup {"none"}
  <2>1. \A i \in DOMAIN routes : routes[i] \in Routes
    <3>1. routes \in Seq(Routes)
      BY DEF DispatchInvariant, RouteInvariant
    <3> QED
      BY <3>1
  <2>2. \A r \in Routes : r.family \in Families \cup {"none"}
    BY DEF Routes
  <2> QED
    BY <2>1, <2>2
<1>2. \A i \in DOMAIN stream : stream[i].attempt \in 1 .. Attempt
  BY DEF DispatchInvariant, StreamInvariant
<1> QED
  BY <1>1, <1>2 DEF DispatchInvariant, OutcomeInvariant, DispatchTypeOK

LEMMA TargetHonoured == DispatchInvariant => TargetIsHonoured
PROOF
<1> SUFFICES ASSUME DispatchInvariant
             PROVE  /\ ServedLocally({"local"}) /\ Sem.target = "local" /\ routes # << >> =>
                         HostedAsked = {} /\ (phase = "hosted" => pc = "created" \/ result = "blocked")
                    /\ ServedHosted(HostedFamilies) /\ phase = "local" =>
                         Sem.target # "hosted" /\ Sem.tools = "none" /\ runtime
  BY DEF TargetIsHonoured
<1>1. ASSUME ServedLocally({"local"}), Sem.target = "local" PROVE ~MayLeave
  BY <1>1 DEF MayLeave, ServedLocally
<1>2. HostedAsked # {} => MayLeave
  BY DEF DispatchInvariant, StreamInvariant
<1>3. ASSUME phase = "hosted", ~MayLeave PROVE pc = "created" \/ result = "blocked"
  <2>1. ProviderOf(Route) # "openrouter"
    BY <1>3, RoutedMayLeave DEF DispatchInvariant, RouteInvariant
  <2> QED
    BY <1>3, <2>1 DEF DispatchInvariant, ExecutionInvariant, EventInvariant
<1>4. ASSUME ServedHosted(HostedFamilies), phase = "local"
      PROVE  Sem.target # "hosted" /\ Sem.tools = "none" /\ runtime
  <2>1. Attempt = 1 /\ ProviderOf(routes[1]) = "local" /\ runtime /\ routes \in Seq(Routes)
    BY <1>4 DEF DispatchInvariant, RouteInvariant, RunsLocally
  <2>2. 1 \in DOMAIN routes /\ routes[1].family \in Families \cup {"none"}
    <3>1. 1 \in DOMAIN routes /\ routes[1] \in Routes
      BY <2>1 DEF Attempt
    <3> QED
      BY <3>1 DEF Routes
  <2>3. PICK b \in BOOLEAN : (b => runtime) /\ IsRouteFor(routes[1], Sem, config, b)
    BY <2>2, RoutesTaken
  <2>4. routes[1].selected /\ config.provider[routes[1].family] = "local"
    BY <2>1 DEF ProviderOf
  <2>5. routes[1].family = "local"
    BY <1>4, <2>2, <2>3, <2>4 DEF ServedHosted, IsRouteFor, Families
  <2> QED
    BY <2>1, <2>3, <2>5 DEF IsRouteFor
<1> QED
  BY <1>1, <1>2, <1>3, <1>4

LEMMA RoutesFit == DispatchInvariant => RoutesFitTheTicket
PROOF
<1> SUFFICES ASSUME DispatchInvariant, NEW i \in DOMAIN routes
             PROVE  /\ routes[i].family \in HostedFamilies => Fits(Sem, config, routes[i].family)
                    /\ routes[i].reason = "no_route_within_cost_ceiling" =>
                         \A f \in HostedFamilies : ~Fits(Sem, config, f)
  BY DEF RoutesFitTheTicket, Fits, PassesToolFilter
<1>1. PICK b \in BOOLEAN : (b => runtime) /\ IsRouteFor(routes[i], Sem, config, b)
  BY RoutesTaken
<1> QED
  BY <1>1 DEF IsRouteFor

LEMMA FallbackBounded == DispatchInvariant => FallbackIsBounded
PROOF
<1> SUFFICES ASSUME DispatchInvariant PROVE FallbackIsBounded
  OBVIOUS
<1>1. Attempt <= 2
  BY DEF DispatchInvariant, RouteInvariant
<1>2. ASSUME Attempt = 2
      PROVE  fallback /\ Sem.target = "auto" /\ ProviderOf(routes[1]) = "local"
  BY <1>2 DEF DispatchInvariant, RouteInvariant
<1>3. ASSUME Attempt = 2, \A f \in HostedFamilies : config.provider[f] # "local"
      PROVE  ProviderOf(routes[2]) # "local"
  <2>1. IsRouteFor(routes[2], Sem, config, FALSE)
    BY <1>3, RoutesTaken
  <2>2. routes[2].selected => routes[2].family \in HostedFamilies
    BY <2>1 DEF IsRouteFor, Routes, Families
  <2> QED
    BY <1>3, <2>2 DEF ProviderOf
<1>4. ASSUME Attempt = 2 PROVE FailedLocally
  BY <1>4 DEF DispatchInvariant, StreamInvariant
<1>5. Cardinality(HostedAsked) <= MaxAttempts \/ HostedAsked = {}
  BY DEF DispatchInvariant, StreamInvariant
<1>6. phase = "decided" => retryCount = StreamCount("retry.scheduled")
  BY DEF DispatchInvariant, StreamInvariant
<1> QED
  BY <1>1, <1>2, <1>3, <1>4, <1>5, <1>6 DEF FallbackIsBounded, FailedLocally

LEMMA VerdictOnTheLast == DispatchInvariant => VerdictIsOnTheLastAttempt
PROOF
<1> DEFINE completions == {i \in DOMAIN stream : stream[i].type = "execution.completed"}
           last == CHOOSE i \in completions : \A j \in completions : j <= i
           n == Len(stream) - 2
<1> SUFFICES ASSUME DispatchInvariant, phase = "decided", verdict.decision # "rejected"
             PROVE  /\ stream[last].status = "completed" /\ stream[last].attempt = Attempt
                    /\ \A i \in last + 1 .. Len(stream) : stream[i].attempt = Attempt
                    /\ summaries = {Attempt}
  BY DEF VerdictIsOnTheLastAttempt
<1>1. CompletedAt(n) /\ stream \in Seq(StreamEvents) /\ summaries = {Attempt}
  BY DEF DispatchInvariant, OutcomeInvariant, StreamInvariant
<1>2. DOMAIN stream = 1 .. Len(stream) /\ Len(stream) \in Nat
  BY <1>1
<1> HIDE DEF n
<1>3. n \in completions /\ \A j \in completions : j <= n
  <2>1. n \in 1 .. Len(stream) /\ n \in completions
    BY <1>1, <1>2 DEF CompletedAt
  <2>2. \A j \in completions : ~(j \in n + 1 .. Len(stream))
    BY <1>1 DEF CompletedAt
  <2> QED
    BY <1>2, <2>1, <2>2
<1>4. last = n
  <2>1. last \in completions /\ \A j \in completions : j <= last
    BY <1>3
  <2> HIDE DEF last
  <2> QED
    BY <1>2, <1>3, <2>1
<1>5. /\ stream[n] = [attempt |-> Attempt, type |-> "execution.completed", status |-> "completed"]
      /\ \A i \in n + 1 .. Len(stream) : stream[i].attempt = Attempt
  BY <1>1 DEF CompletedAt
<1>6. stream[n].status = "completed" /\ stream[n].attempt = Attempt
  BY <1>5
<1> HIDE DEF last
<1> QED
  BY <1>1, <1>4, <1>5, <1>6

(* The dispatcher's locals keep their types, and routes, events and        *)
(* summaries stay in step, for every policy, ticket and configuration.     *)
THEOREM DispatchTypes == DispatchSpec => []DispatchTypeOK
PROOF
BY DispatchAlways, DispatchTypesHold, PTL

(* As far as the profiles are configured with providers of their kind,    *)
(* the local one locally and the hosted ones hosted: whatever the local    *)
(* execution does and however often the hosted executor retries, a ticket  *)
(* whose target is local is never sent to a provider, and a ticket whose   *)
(* target is hosted, or that wants tools, never reaches the local executor.*)
THEOREM TargetSafety == DispatchSpec => []TargetIsHonoured
PROOF
BY DispatchAlways, TargetHonoured, PTL

(* For all profiles and costs, every hosted route of choose_route is       *)
(* affordable and serves the ticket's tools, and "no route" is only said   *)
(* when there is none: the reordering for complex tickets loses no profile.*)
THEOREM RouteSafety == DispatchSpec => []RoutesFitTheTicket
PROOF
BY DispatchAlways, RoutesFit, PTL

(* One fallback at most, after a failed local execution; the provider is   *)
(* asked no more than max_attempts times over both, and the merged retry   *)
(* count is the one the merged events show.                                *)
THEOREM FallbackSafety == DispatchSpec => []FallbackIsBounded
PROOF
BY DispatchAlways, FallbackBounded, PTL

(* A change that is not rejected belongs to the attempt that completed     *)
(* last, and so do the gate's events and the summary.                      *)
THEOREM VerdictSafety == DispatchSpec => []VerdictIsOnTheLastAttempt
PROOF
BY DispatchAlways, VerdictOnTheLast, PTL
=============================================================================
