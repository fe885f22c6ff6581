----------------------------- MODULE FormalDemo -----------------------------
(***************************************************************************)
(* The formal demo of computer_use_agent: formal_demo_intent_gate.py (the  *)
(* disclosure and its one compile permit), formal_demo_local_scope.py and  *)
(* the console over it, and formal_demo_intent_request.py with             *)
(* providers/openai_intent.py and formal_demo_provider_scope.py, which     *)
(* send the task once and compile what comes back. A gate is used from one *)
(* event loop or under its lock; the provider is awaited.                  *)
(***************************************************************************)
EXTENDS DemoContract

CONSTANTS
    Tasks, Routes, Candidates,
    Callers,         \* tasks of the event loop that compile through the provider
    MaxGates,        \* bound of the instance
    MaxSendBytes     \* sizes are 1..2

VARIABLES
    gates,      \* sequence of [state, disclosure, digest, issued]
    session,    \* the console's: [gate, task, code, cancelled, scope]
    port,       \* [entered, activation, gate] or NoPort
    attempts,   \* caller -> [pc, gate, request]
    requests,   \* history: what was sent to the provider
    scopes      \* history: the scope sheets returned
demoVars == <<gates, session, port, attempts, requests, scopes>>

(* resolve_provider_route over the catalog                                 *)
Catalog ==
    {[provider |-> "openai", region |-> "global", protocol |-> "responses", endpoint |-> "api"],
     [provider |-> "qwen", region |-> "intl", protocol |-> "chat", endpoint |-> "dashscope"]}
RouteReviewed(r) ==
    /\ [provider |-> r.provider, region |-> r.region, protocol |-> r.protocol,
        endpoint |-> r.endpoint] \in Catalog
    /\ r.workspace = "none" \/ r.provider = "qwen"
(* resolve_reviewed_intent_disclosure_profile                              *)
ProfileOf(provider) == [id |-> provider, version |-> 1,
                        notice |-> IF provider = "local_openai" THEN "loopback" ELSE "sent"]
(* compile_intent_disclosure and FormalDemoIntentDisclosure                *)
DisclosureValid(d) ==
    /\ d.task \notin {"", "oversized"} /\ RouteReviewed(d.route)
    /\ d.profile = ProfileOf(d.route.provider)
Disclosure(draft, task, route) ==
    [draft |-> draft, task |-> task, route |-> route, profile |-> ProfileOf(route.provider)]
NewGate(d) == [state |-> "ready", disclosure |-> d, digest |-> d, issued |-> FALSE]
Current(gate) == DisclosureValid(gate.disclosure) /\ gate.disclosure = gate.digest

NoSession == [gate |-> 0, task |-> "", code |-> "none", cancelled |-> FALSE, scope |-> Rejected]
NoPort == [entered |-> FALSE, activation |-> Rejected, gate |-> 0]
IdleAttempt == [pc |-> "idle", gate |-> 0, request |-> Rejected]
DemoInit ==
    /\ gates = <<>> /\ session = NoSession /\ port = NoPort
    /\ attempts = [c \in Callers |-> IdleAttempt]
    /\ requests = <<>> /\ scopes = {}

-----------------------------------------------------------------------------
(* IntentCompileGate.acknowledge: any other word ends the gate             *)
Acknowledged(gate, token) ==
    CASE gate.state # "ready" -> gate
      [] gate.state = "ready" /\ (token # "COMPILE" \/ ~Current(gate)) ->
           [gate EXCEPT !.state = "cancelled"]
      [] OTHER -> [gate EXCEPT !.state = "permitted", !.issued = TRUE]
(* IntentCompilePermit: an object of the gate that issued it               *)
PermitOf(g, gate) == [gate |-> g, disclosure |-> gate.digest, issued |-> gate.issued]
Matches_AnyDisclosure(g, gate, permit, current) ==
    /\ DisclosureValid(gate.disclosure) /\ DisclosureValid(current)
    /\ permit = PermitOf(g, gate) /\ permit.issued
Matches(g, gate, permit, current) ==
    /\ Current(gate) /\ DisclosureValid(current) /\ current = gate.digest
    /\ permit = PermitOf(g, gate) /\ permit.issued
Consumed_KeepsPermit(g, gate, permit, current) ==
    CASE gate.state # "permitted" -> gate
      [] gate.state = "permitted" /\ ~Matches(g, gate, permit, current) ->
           [gate EXCEPT !.state = "cancelled"]
      [] OTHER -> gate
(* consume: the permit of another gate, or a disclosure that has changed,   *)
(* ends it                                                                 *)
Consumed(g, gate, permit, current) ==
    CASE gate.state # "permitted" -> gate
      [] gate.state = "permitted" /\ ~Matches(g, gate, permit, current) ->
           [gate EXCEPT !.state = "cancelled"]
      [] OTHER -> [gate EXCEPT !.state = "consumed"]
Uses(g, gate, permit, current) ==
    gate.state = "permitted" /\ Matches(g, gate, permit, current)

(* _local_intent: what the host fixes, whatever the task says              *)
LocalIntent(task) ==
    [task |-> task, scenario |-> ScenarioV1.id, outcome |-> "verified_analysis_report_and_draft",
     roles |-> ScenarioV1.required_roles, outputs |-> ScenarioV1.required_outputs,
     constraints |-> ScenarioV1.required_constraints, risk |-> ScenarioV1.risk,
     budgets |-> Budgets(0, ScenarioV1.ceilings.tool_calls, ScenarioV1.ceilings.side_effects,
                         0, ScenarioV1.ceilings.artifacts)]
(* compile_local_scope_once, after the permit was consumed                  *)
LocalScope(gate) ==
    Compile(LocalIntent(gate.disclosure.task), ScenarioV1, ProfilesV1, gate.disclosure.draft)
(* LocalScopeCompilation                                                   *)
LocalValid(gate, sheet) ==
    /\ gate.state = "consumed"
    /\ sheet.budgets.provider_calls = 0 /\ sheet.budgets.retries = 0
    /\ sheet.binding.intent = LocalIntent(gate.digest.task)
(* _verified_result_snapshot, before it is shown: decoded once more         *)
LocalSnapshot(gate, sheet) ==
    /\ LocalValid(gate, sheet)
    /\ DecodeSheet(sheet, LocalIntent(gate.digest.task), ScenarioV1, ProfilesV1,
                   gate.digest.draft, sheet.binding)

-----------------------------------------------------------------------------
(* FormalDemoConsoleSession                                                *)
Stage(s, gs) ==
    CASE s.cancelled -> "cancelled"
      [] ~s.cancelled /\ s.gate = 0 -> "draft"
      [] ~s.cancelled /\ s.gate # 0 /\ s.scope # Rejected -> "scope_ready"
      [] ~s.cancelled /\ s.gate # 0 /\ s.scope = Rejected ->
           CASE gs[s.gate].state = "ready" -> "disclosure_ready"
             [] gs[s.gate].state = "permitted" -> "permit_issued"
             [] OTHER -> "cancelled"
Review(task, route) ==
    LET d == Disclosure(Len(gates) + 1, task, route)
    IN /\ Len(gates) < MaxGates
       /\ CASE session.cancelled \/ session.gate # 0 ->
                 session' = [session EXCEPT !.code = "terminal"] /\ UNCHANGED gates
            [] ~session.cancelled /\ session.gate = 0 /\ ~DisclosureValid(d) ->
                 session' = [session EXCEPT !.code = "disclosure"] /\ UNCHANGED gates
            [] OTHER ->
                 /\ gates' = Append(gates, NewGate(d))
                 /\ session' = [session EXCEPT !.task = task, !.gate = Len(gates) + 1,
                                  !.code = "none"]
       /\ UNCHANGED <<port, attempts, requests, scopes>>
(* acknowledge: the permit is issued and consumed in one call, which may    *)
(* fail between the two                                                    *)
ConsoleAcknowledge(token, fails) ==
    LET g == session.gate
        first == Acknowledged(gates[g], token)
        permit == PermitOf(g, first)
        second == Consumed(g, first, permit, first.disclosure)
        sheet == LocalScope(second)
    IN /\ IF session.cancelled \/ g = 0
          THEN session' = [session EXCEPT !.code = "required"] /\ UNCHANGED <<gates, scopes>>
          ELSE IF gates[g].state # "ready" \/ first.state # "permitted" \/ fails
                  \/ ~Uses(g, first, permit, first.disclosure)
          THEN /\ session' = [session EXCEPT !.code = "stopped"]
               /\ \E n \in {first, second} :
                    /\ gates' = [gates EXCEPT ![g] = n]
                    /\ gates[g].state # "ready" => n = first
                    /\ gates[g].state = "ready" /\ ~fails => n = second
               /\ UNCHANGED scopes
          ELSE /\ gates' = [gates EXCEPT ![g] = second]
               /\ session' = [session EXCEPT !.scope = sheet, !.code = "none"]
               /\ scopes' = scopes \cup {[gate |-> g, by |-> "host", sheet |-> sheet]}
       /\ UNCHANGED <<port, attempts, requests>>
(* reset and cancel: a gate not yet answered is cancelled, all text dropped *)
Dropped(cancelled) ==
    /\ gates' = IF session.gate # 0 /\ gates[session.gate].state = "ready"
                THEN [gates EXCEPT ![session.gate].state = "cancelled"] ELSE gates
    /\ session' = [NoSession EXCEPT !.cancelled = cancelled]
    /\ UNCHANGED <<port, attempts, requests, scopes>>
Reset == Dropped(FALSE)
CancelSession == Dropped(TRUE)

-----------------------------------------------------------------------------
(* the provider's way: a client with a gate of its own                     *)
ClientGate(task, route) ==
    LET d == Disclosure(Len(gates) + 1, task, route)
    IN /\ Len(gates) < MaxGates /\ DisclosureValid(d)
       /\ gates' = Append(gates, NewGate(d))
       /\ UNCHANGED <<session, port, attempts, requests, scopes>>
ClientAnswers(g, token) ==
    /\ gates' = [gates EXCEPT ![g] = Acknowledged(@, token)]
    /\ UNCHANGED <<session, port, attempts, requests, scopes>>
ClientCancels(g) ==
    /\ gates[g].state = "ready"
    /\ gates' = [gates EXCEPT ![g].state = "cancelled"]
    /\ UNCHANGED <<session, port, attempts, requests, scopes>>
(* the disclosure object is changed in memory                              *)
Altered(g, task) ==
    /\ task # gates[g].disclosure.task
    /\ gates' = [gates EXCEPT ![g].disclosure.task = task]
    /\ UNCHANGED <<session, port, attempts, requests, scopes>>
(* bind_openai_intent_activation and a port for it                         *)
Activation(d) == [disclosure |-> d, scenario |-> ScenarioV1.id]
Binds(d, acknowledged) ==
    /\ acknowledged /\ d.route.provider = "openai" /\ RouteReviewed(d.route)
    /\ d.profile = ProfileOf("openai")
OpenPort(g, acknowledged) ==
    LET d == gates[g].disclosure
    IN /\ port = NoPort /\ Binds(d, acknowledged)
       /\ port' = [entered |-> FALSE, activation |-> Activation(d), gate |-> g]
       /\ UNCHANGED <<gates, session, attempts, requests, scopes>>
(* IntentCandidateRequest                                                  *)
RequestOf(d) ==
    [disclosure |-> d, task |-> d.task, scenario |-> ScenarioV1.id, limit |-> 1,
     tools |-> FALSE, retry |-> FALSE]
(* task_intent_candidate_schema: what the provider is asked to choose from  *)
SchemaAllows(intent) ==
    /\ intent.scenario = ScenarioV1.id /\ intent.outcome \in ScenarioV1.outcomes
    /\ intent.roles \subseteq ScenarioV1.allowed_roles
    /\ Cardinality(intent.roles) >= Cardinality(ScenarioV1.required_roles)
    /\ intent.outputs \subseteq ScenarioV1.outputs
    /\ intent.constraints \subseteq ScenarioV1.constraints
    /\ AtMost(intent.risk, ScenarioV1.risk) /\ WithinBudgets(intent.budgets, ScenarioV1.ceilings)
(* OpenAIResponsesIntentCandidatePort._validate_request: what the port is   *)
(* bound to is the disclosure as it was when the port was made             *)
RequestBound(request, gate) ==
    /\ gate.state = "consumed" /\ gate.disclosure = port.activation.disclosure
    /\ request.disclosure = port.activation.disclosure
    /\ request.scenario = port.activation.scenario
    /\ request.disclosure.route.provider = "openai"
    /\ ~request.tools /\ ~request.retry
(* compile_openai_provider_scope_once up to the await: the permit is       *)
(* consumed before the port is entered                                     *)
Attempt(c, g, from, size) ==
    LET permit == PermitOf(from, gates[from])
        current == gates[g].disclosure
        after == Consumed(g, gates[g], permit, current)
        request == RequestOf(current)
    IN /\ attempts[c].pc = "idle" /\ port # NoPort /\ port.gate = g
       /\ IF current # port.activation.disclosure \/ ~Uses(g, gates[g], permit, current)
          THEN /\ gates' = IF current # port.activation.disclosure THEN gates
                           ELSE [gates EXCEPT ![g] = after]
               /\ attempts' = [attempts EXCEPT ![c].pc = "failed"]
               /\ UNCHANGED <<port, requests>>
          ELSE /\ gates' = [gates EXCEPT ![g] = after]
               /\ port' = [port EXCEPT !.entered = TRUE]
               /\ IF port.entered \/ ~RequestBound(request, after) \/ size > MaxSendBytes
                  THEN attempts' = [attempts EXCEPT ![c].pc = "failed"] /\ UNCHANGED requests
                  ELSE /\ attempts' = [attempts EXCEPT ![c] =
                            [pc |-> "sent", gate |-> g, request |-> request]]
                       /\ requests' = Append(requests, [gate |-> g, request |-> request])
       /\ UNCHANGED <<session, scopes>>
Fails(c) == attempts' = [attempts EXCEPT ![c].pc = "failed"] /\ UNCHANGED scopes
(* decode_task_intent and validate_task_intent_for_reviewed_scenario        *)
ReviewedIntent(candidate, task) ==
    LET intent == DecodeIntent(candidate, task)
    IN IF intent # Rejected /\ IntentInScenario(intent, ScenarioSnapshot(ScenarioV1))
       THEN intent ELSE Rejected
(* _candidate_from_response and _response_snapshot: one message of the      *)
(* pinned model, finished, of one text                                     *)
Responses ==
    {[model |-> "pinned", status |-> "completed", messages |-> 1, content |-> "text"],
     [model |-> "other", status |-> "completed", messages |-> 1, content |-> "text"],
     [model |-> "pinned", status |-> "incomplete", messages |-> 1, content |-> "text"],
     [model |-> "pinned", status |-> "completed", messages |-> 2, content |-> "text"],
     [model |-> "pinned", status |-> "completed", messages |-> 1, content |-> "refusal"]}
Completed(response) ==
    /\ response.model = "pinned" /\ response.status = "completed"
    /\ response.messages = 1 /\ response.content = "text"
Stale(a) ==
    \/ gates[a.gate].state # "consumed"
    \/ gates[a.gate].disclosure # port.activation.disclosure
ProviderScope(intent, d) == Compile(intent, ScenarioV1, ProfilesV1, d.draft)
(* the rest of compile_openai_provider_scope_once, after the await          *)
Answered(c, response, candidate) ==
    LET a == attempts[c]
        intent == ReviewedIntent(candidate, a.request.task)
        sheet == ProviderScope(intent, a.request.disclosure)
    IN /\ a.pc = "sent"
       /\ IF ~Completed(response) \/ Stale(a) \/ intent = Rejected THEN Fails(c)
          ELSE IF sheet = Rejected THEN Fails(c)
          ELSE /\ attempts' = [attempts EXCEPT ![c].pc = "done"]
               /\ scopes' = scopes \cup {[gate |-> a.gate, by |-> "provider", sheet |-> sheet]}
       /\ UNCHANGED <<gates, session, port, requests>>
(* the call raised or the task was cancelled: the permit stays consumed     *)
Raised(c) ==
    /\ attempts[c].pc = "sent" /\ Fails(c) /\ UNCHANGED <<gates, session, port, requests>>

ProviderNext ==
    \/ \E t \in Tasks, r \in Routes : ClientGate(t, r)
    \/ \E g \in DOMAIN gates :
         \/ \E token \in {"COMPILE", "other"} : ClientAnswers(g, token)
         \/ ClientCancels(g)
         \/ \E t \in Tasks : Altered(g, t)
         \/ \E yes \in BOOLEAN : OpenPort(g, yes)
         \/ \E c \in Callers, from \in DOMAIN gates, size \in 1..2 : Attempt(c, g, from, size)
    \/ \E c \in Callers, candidate \in Candidates, response \in Responses :
         Answered(c, response, candidate)
    \/ \E c \in Callers : Raised(c)

-----------------------------------------------------------------------------
(* formal_demo_intent_request.py:465 and openai_intent.py:711: the task of  *)
(* a disclosure leaves the machine at most once, over the route the        *)
(* operator read, as it stood when COMPILE was said.                       *)
SentAsAcknowledged ==
    /\ \A i, j \in DOMAIN requests : requests[i].gate = requests[j].gate => i = j
    /\ \A i \in DOMAIN requests :
         LET gate == gates[requests[i].gate] IN
         /\ gate.state = "consumed" /\ gate.issued
         /\ requests[i].request.disclosure = gate.digest
         /\ requests[i].request.task = gate.digest.task

(* formal_demo_contract.py:1286-1345,1741: a scope sheet, whoever proposed  *)
(* its intent, stays inside the reviewed scenario, gives each output one    *)
(* application, keeps what is forbidden forbidden, and cannot be taken for *)
(* the sheet of another draft.                                             *)
ScopeInsideReview ==
    \A s \in scopes :
        LET sheet == s.sheet
            intent == sheet.binding.intent
        IN /\ AtMost(sheet.risk, ScenarioV1.risk)
           /\ WithinBudgets(sheet.budgets, ScenarioV1.ceilings)
           /\ ScenarioV1.forbidden \subseteq sheet.forbidden
           /\ \A o \in sheet.outputs :
                Cardinality({a \in sheet.applications : o \in a.outputs}) = 1
           /\ UNION {a.outputs : a \in sheet.applications} = sheet.outputs
           /\ sheet.draft = gates[s.gate].digest.draft
           /\ LoadIntent(intent, gates[s.gate].digest.task, sheet.binding.intent) = intent
           /\ \A other \in scopes :
                DecodeSheet(other.sheet, intent, ScenarioV1, ProfilesV1, sheet.draft,
                            sheet.binding) => other.sheet = sheet
           /\ s.by = "host" => LocalSnapshot(gates[s.gate], sheet)
           /\ s.by = "provider" =>
                /\ SchemaAllows(intent)
                /\ \E i \in DOMAIN requests : requests[i].gate = s.gate
=============================================================================
