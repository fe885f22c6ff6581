---------------------------- MODULE DemoContract ----------------------------
(***************************************************************************)
(* computer_use_agent/formal_demo_contract.py: the contracts of the formal *)
(* demo and how the host compiles a scope sheet from them. A list of the   *)
(* JSON is a sequence, and a set once it is normalised; a content digest   *)
(* is the content itself; what is only text is left out.                   *)
(***************************************************************************)
EXTENDS Integers, Sequences, FiniteSets, SequencesExt

Roles == {"source", "evidence", "analysis", "report", "handoff"}
Risks == <<"read_only", "draft", "reversible", "external", "critical">>
AtMost(risk, ceiling) ==
    \E i, j \in DOMAIN Risks : i <= j /\ Risks[i] = risk /\ Risks[j] = ceiling
MaxItems == 16
MaxBudget == 10000
BudgetFields == {"provider_calls", "tool_calls", "side_effects", "retries", "artifacts"}
Budgets(calls, tools, effects, retries, artifacts) ==
    [provider_calls |-> calls, tool_calls |-> tools, side_effects |-> effects,
     retries |-> retries, artifacts |-> artifacts]
BudgetsValid(b) ==
    DOMAIN b = BudgetFields /\ \A f \in BudgetFields : b[f] \in 0..MaxBudget
WithinBudgets(b, ceilings) == \A f \in BudgetFields : b[f] <= ceilings[f]

(* _normalize_identifier_tuple and its like: bounded, without repetition    *)
ListValid(list, least) ==
    Len(list) \in least..MaxItems /\ Cardinality(ToSet(list)) = Len(list)
SetValid(set, least) == Cardinality(set) \in least..MaxItems

-----------------------------------------------------------------------------
(* TaskIntent                                                              *)
IntentValid(intent) ==
    /\ intent.risk \in ToSet(Risks)
    /\ SetValid(intent.roles, 1) /\ intent.roles \subseteq Roles
    /\ SetValid(intent.outputs, 1) /\ SetValid(intent.constraints, 1)
    /\ BudgetsValid(intent.budgets)
(* decode_task_intent: a candidate of the model; the task is the host's     *)
CandidateFields ==
    {"version", "scenario", "outcome", "roles", "outputs", "constraints", "risk", "budgets"}
Rejected == [rejected |-> TRUE]
DecodeIntent(candidate, task) ==
    IF /\ DOMAIN candidate = CandidateFields
       /\ candidate.version = 1
       /\ ListValid(candidate.roles, 1) /\ ListValid(candidate.outputs, 1)
       /\ ListValid(candidate.constraints, 1)
    THEN LET intent ==
              [task |-> task, scenario |-> candidate.scenario, outcome |-> candidate.outcome,
               roles |-> ToSet(candidate.roles), outputs |-> ToSet(candidate.outputs),
               constraints |-> ToSet(candidate.constraints), risk |-> candidate.risk,
               budgets |-> candidate.budgets]
         IN IF IntentValid(intent) THEN intent ELSE Rejected
    ELSE Rejected
(* decode_task_intent_artifact: a stored intent, of this task and digest    *)
LoadIntent(stored, task, digest) ==
    IF IntentValid(stored) /\ stored.task = task /\ stored = digest THEN stored ELSE Rejected
(* DemoScenarioSpec                                                        *)
ScenarioValid(s) ==
    /\ SetValid(s.outcomes, 1) /\ SetValid(s.allowed_roles, 1)
    /\ SetValid(s.required_roles, 1) /\ s.required_roles \subseteq s.allowed_roles
    /\ SetValid(s.outputs, 1) /\ SetValid(s.required_outputs, 1)
    /\ s.required_outputs \subseteq s.outputs
    /\ SetValid(s.constraints, 1) /\ SetValid(s.required_constraints, 1)
    /\ s.required_constraints \subseteq s.constraints
    /\ BudgetsValid(s.ceilings) /\ SetValid(s.fixtures, 1)
    /\ s.risk \in ToSet(Risks) /\ SetValid(s.forbidden, 1)
(* decode_demo_scenario_spec: each field is read under its own rule         *)
ReadScenario(s) == IF ScenarioValid(s) THEN s ELSE Rejected
(* ApplicationRoleProfile: an unselected one has no adapter                 *)
ProfileValid(p) ==
    /\ p.role \in Roles /\ (p.selected <=> p.adapter # "none")
    /\ SetValid(p.reads, 1) /\ SetValid(p.changes, 0) /\ SetValid(p.outputs, 0)
    /\ SetValid(p.fixtures, 1) /\ p.risk \in ToSet(Risks)
    /\ (p.changes # {} => p.risk # "read_only")
    /\ SetValid(p.forbidden, 0)

-----------------------------------------------------------------------------
(* FORMAL_DEMO_V1_SCENARIO and the role profiles that are pinned with it    *)
ScenarioV1 ==
    [id |-> "formal_demo_v1", version |-> 1,
     outcomes |-> {"verified_analysis_report_and_draft"},
     allowed_roles |-> Roles, required_roles |-> Roles,
     outputs |-> {"excel_analysis", "word_report", "email_draft"},
     required_outputs |-> {"excel_analysis", "word_report", "email_draft"},
     constraints |-> {"cleanup", "create_new", "draft_only", "fixture_only", "reopen"},
     required_constraints |-> {"cleanup", "create_new", "draft_only", "fixture_only", "reopen"},
     ceilings |-> Budgets(12, 128, 24, 8, 3),
     fixtures |-> {"issues", "pdf", "workbook", "document", "mailbox"},
     risk |-> "draft",
     forbidden |-> {"file_access", "email_send", "github_write", "overwrite"}]
ProfileV1(id, role, outputs, fixture, forbidden) ==
    [id |-> id, version |-> 1, role |-> role, adapter |-> fixture, selected |-> TRUE,
     reads |-> {role}, changes |-> outputs, outputs |-> outputs, fixtures |-> {fixture},
     risk |-> IF outputs = {} THEN "read_only" ELSE "draft", forbidden |-> forbidden]
ProfilesV1 ==
    {ProfileV1("source_github", "source", {}, "issues", {"github_write"}),
     ProfileV1("evidence_pdf", "evidence", {}, "pdf", {"file_access"}),
     ProfileV1("analysis_excel", "analysis", {"excel_analysis"}, "workbook", {"overwrite"}),
     ProfileV1("report_word", "report", {"word_report"}, "document", {"overwrite"}),
     ProfileV1("handoff_email", "handoff", {"email_draft"}, "mailbox", {"email_send"})}
(* resolve_reviewed_formal_demo_scenario, _profile: id, version and digest  *)
ScenarioPinned(s) == s = ScenarioV1 /\ ScenarioValid(s)
ProfilesPinned(profiles) == profiles \subseteq ProfilesV1 /\ \A p \in profiles : ProfileValid(p)
(* _resolve_reviewed_formal_demo_contracts                                  *)
ContractsReviewed(s, profiles) ==
    SetValid(profiles, 1) /\ ScenarioPinned(s) /\ ProfilesPinned(profiles)
(* _reviewed_scenario_snapshot: decoded again from its canonical text       *)
ScenarioSnapshot(s) == IF ScenarioPinned(s) THEN ReadScenario(s) ELSE Rejected

-----------------------------------------------------------------------------
IntentInScenario_AnyRisk(intent, s) ==
    /\ intent.scenario = s.id /\ intent.outcome \in s.outcomes
    /\ s.required_roles \subseteq intent.roles /\ intent.roles \subseteq s.allowed_roles
    /\ s.required_outputs \subseteq intent.outputs /\ intent.outputs \subseteq s.outputs
    /\ s.required_constraints \subseteq intent.constraints
    /\ intent.constraints \subseteq s.constraints
    /\ WithinBudgets(intent.budgets, s.ceilings)
    /\ intent.budgets.artifacts >= Cardinality(intent.outputs)
(* _validate_intent_against_scenario                                       *)
IntentInScenario(intent, s) ==
    /\ intent.scenario = s.id /\ intent.outcome \in s.outcomes
    /\ s.required_roles \subseteq intent.roles /\ intent.roles \subseteq s.allowed_roles
    /\ s.required_outputs \subseteq intent.outputs /\ intent.outputs \subseteq s.outputs
    /\ s.required_constraints \subseteq intent.constraints
    /\ intent.constraints \subseteq s.constraints
    /\ AtMost(intent.risk, s.risk)
    /\ WithinBudgets(intent.budgets, s.ceilings)
    /\ intent.budgets.artifacts >= Cardinality(intent.outputs)
(* _ordered_profiles: one selected profile for each role asked for, and one *)
(* owner for each output                                                   *)
ProfilesFit(intent, s, profiles) ==
    /\ {p.role : p \in profiles} = intent.roles
    /\ Cardinality(profiles) = Cardinality(intent.roles)
    /\ \A p \in profiles :
         /\ p.selected /\ AtMost(p.risk, intent.risk)
         /\ p.fixtures \subseteq s.fixtures /\ p.outputs \subseteq intent.outputs
    /\ \A o \in intent.outputs : Cardinality({p \in profiles : o \in p.outputs}) = 1
BindingDigest(intent, s, profiles, draft) ==
    [draft |-> draft, intent |-> intent, scenario |-> s, profiles |-> profiles]
(* ScopeApplication                                                        *)
ApplicationValid(a) ==
    /\ a.role \in Roles /\ a.adapter # "none"
    /\ SetValid(a.reads, 1) /\ SetValid(a.changes, 0)
    /\ SetValid(a.outputs, 0) /\ SetValid(a.fixtures, 1)
(* GenericScopeSheet: one application per role, each of the profile that is *)
(* bound for its role                                                      *)
SheetValid(sheet) ==
    /\ Cardinality(sheet.applications) \in 1..Cardinality(Roles)
    /\ \A a \in sheet.applications : ApplicationValid(a)
    /\ \A a, b \in sheet.applications : a.role = b.role => a = b
    /\ Cardinality(UNION {a.reads : a \in sheet.applications}) \in 1..(2 * MaxItems)
    /\ Cardinality(UNION {a.changes : a \in sheet.applications}) \in 0..(2 * MaxItems)
    /\ SetValid(sheet.outputs, 1) /\ SetValid(sheet.constraints, 1)
    /\ sheet.risk \in ToSet(Risks) /\ BudgetsValid(sheet.budgets)
    /\ SetValid(sheet.forbidden, 1)
    /\ {a.profile : a \in sheet.applications} = sheet.binding.profiles
(* _compile_generic_scope_sheet                                            *)
Sheet(intent, s, profiles, draft) ==
    [draft |-> draft, scenario |-> s.id, goal |-> intent.outcome,
     applications |-> {[role |-> p.role, profile |-> p, adapter |-> p.adapter,
                        reads |-> p.reads, changes |-> p.changes, outputs |-> p.outputs,
                        fixtures |-> p.fixtures] : p \in profiles},
     outputs |-> intent.outputs, constraints |-> intent.constraints,
     risk |-> intent.risk, budgets |-> intent.budgets,
     forbidden |-> s.forbidden \cup UNION {p.forbidden : p \in profiles},
     grants |-> {}, binding |-> BindingDigest(intent, s, profiles, draft)]
(* compile_generic_scope_sheet, of the reviewed contracts only             *)
Compile(intent, s, profiles, draft) ==
    IF /\ ContractsReviewed(s, profiles)
       /\ IntentInScenario(intent, s) /\ ProfilesFit(intent, s, profiles)
       /\ SheetValid(Sheet(intent, s, profiles, draft))
    THEN Sheet(intent, s, profiles, draft)
    ELSE Rejected
(* decode_generic_scope_sheet: a stored sheet is compiled again and compared *)
DecodeSheet(sheet, intent, s, profiles, draft, binding) ==
    LET expected == Compile(intent, s, profiles, draft)
    IN /\ expected # Rejected /\ expected.binding = binding
       /\ sheet.grants = {} /\ SheetValid(sheet) /\ sheet = expected
=============================================================================
