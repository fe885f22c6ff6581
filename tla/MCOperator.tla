----------------------------- MODULE MCOperator -----------------------------
(* What the operator sees and decides, in parts that share nothing: the     *)
(* progress window beside a campaign, the decision cards, the halo, the     *)
(* rows of the board and of the task center; and of the formal demo, the    *)
(* console window over its session, the provider's way behind the same      *)
(* contract, and the arithmetic of the window's layout.                     *)
EXTENDS ProgressBoard, ApprovalDesk, PresenceHalo, ConsoleWindow

CONSTANT Limits         \* the row limits to try

ASSUME RowsAssumption == Limits \subseteq Nat \ {0}

Good == [version |-> 1, scenario |-> "formal_demo_v1",
         outcome |-> "verified_analysis_report_and_draft",
         roles |-> SetToSeq(Roles), outputs |-> SetToSeq(ScenarioV1.outputs),
         constraints |-> SetToSeq(ScenarioV1.constraints), risk |-> "draft",
         budgets |-> Budgets(12, 128, 24, 8, 3)]
MCCandidates ==
    {Good, [Good EXCEPT !.risk = "external"], [Good EXCEPT !.budgets.tool_calls = 129],
     [Good EXCEPT !.budgets.artifacts = 2], [Good EXCEPT !.roles = Tail(@)],
     [Good EXCEPT !.roles = @ \o @], [Good EXCEPT !.outputs = Append(@, "sent_mail")],
     [x \in {} |-> 0]}
Openai == [provider |-> "openai", region |-> "global", protocol |-> "responses",
           endpoint |-> "api", workspace |-> "none"]
MCRoutes == {Openai, [Openai EXCEPT !.workspace = "team"],
             [provider |-> "qwen", region |-> "intl", protocol |-> "chat",
              endpoint |-> "dashscope", workspace |-> "team"]}

VARIABLES part, rows, shape
board == <<vars, boardVars>>
console == <<demoVars, windowVars>>
allVars == <<part, rows, shape, board, deskVars, haloVars, console>>
NoShape == [size |-> [w |-> 0, h |-> 0], dpi |-> 0, scale |-> 0, area |-> Rect(0, 0, 0, 0)]

RunRecord(phase, at, receipt) ==
    [task |-> "run", id |-> at, status |-> phase, at |-> at % 2, receipt |-> receipt]
CampaignRecord(status, at) ==
    [task |-> "campaign", id |-> at, status |-> status, at |-> at % 2, receipt |-> "none"]

OperatorInit ==
    /\ Init /\ BoardInit /\ DeskInit /\ HaloInit /\ DemoInit /\ WindowInit
    /\ part \in {"board", "desk", "halo", "rows", "window", "provider", "layout"}
    /\ rows = <<{}, 1>> /\ shape = NoShape
(* a state directory with up to two runs and two campaigns                 *)
ReadRecords ==
    /\ part = "rows" /\ rows[1] = {}
    /\ \E a \in RunPhases, b \in {"planning", "success", "unknown_outcome"},
          r \in {"none", "missing", "invalid", "verified"},
          c \in CampaignStates, d \in {"running", "cancelled", "paused"}, limit \in Limits :
         rows' = <<{RunRecord(a, 1, r), RunRecord(b, 2, "none"),
                    CampaignRecord(c, 3), CampaignRecord(d, 4)}, limit>>
    /\ UNCHANGED <<part, shape, board, deskVars, haloVars, console>>
(* a resize, a change of the display, of its DPI or of the text size; the   *)
(* work areas are of the code and its tests (1366x728, 1536x824, 1920x1000, *)
(* a second screen on the left), in the screen's own pixels at every DPI.   *)
(* One is enough: _layout looks at nothing of the layout before it.        *)
WorkAreas == {Rect(0, 0, 1366, 728), Rect(0, 0, 1536, 824), Rect(0, 40, 1920, 1000),
              Rect(-1920, 0, 1920, 1080)}
Resize ==
    /\ part = "layout" /\ shape = NoShape
    /\ \E w \in {500, 680, 681, 980, 1366}, h \in {599, 600, 640, 728, 1040},
          dpi \in {96, 120, 144, 192, 768}, scale \in {100, 125, 150, 225, 400},
          area \in WorkAreas :
         shape' = [size |-> [w |-> w, h |-> h], dpi |-> dpi, scale |-> scale, area |-> area]
    /\ UNCHANGED <<part, rows, board, deskVars, haloVars, console>>

OfBoard == part = "board" /\ UNCHANGED <<part, rows, shape, deskVars, haloVars, console>>
OfDesk == part = "desk" /\ UNCHANGED <<part, rows, shape, board, haloVars, console>>
OfHalo == part = "halo" /\ UNCHANGED <<part, rows, shape, board, deskVars, console>>
OfDemo(name) == part = name /\ UNCHANGED <<part, rows, shape, board, deskVars, haloVars>>
OperatorNext ==
    \/ OfBoard /\ BoardNext
    \/ OfDesk /\ DeskNext
    \/ OfHalo /\ HaloNext
    \/ OfDemo("window") /\ WindowNext
    \/ OfDemo("provider") /\ ProviderNext /\ UNCHANGED windowVars
    \/ ReadRecords \/ Resize
OperatorSpec ==
    /\ OperatorInit /\ [][OperatorNext]_allVars
    /\ WF_allVars(OfBoard /\ WorkerStep /\ UNCHANGED vars)
    /\ WF_allVars(OfDesk /\ DeskWaits)
    /\ WF_allVars(OfHalo /\ HaloWorker)

(* "Attention is allocated first so terminal history cannot hide a waiting *)
(* or uncertain run": in the progress window and in the task center a      *)
(* record that calls for attention there is left out only for records that *)
(* do too and are not older (render_progress_lines, project_task_center).  *)
AttentionIsListed ==
    LET runs == {r \in rows[1] : r.task = "run"}
        campaigns == {r \in rows[1] : r.task = "campaign"}
        listed == ToSet(Board(rows[1], rows[2], rows[2]))
    IN  rows[1] # {} =>
        /\ HidesNothingUrgent(rows[1], Center(rows[1], rows[2]), rows[2])
        /\ UrgentFirst(runs, listed \cap runs, CallsInWindow)
        /\ UrgentFirst(campaigns, listed \cap campaigns, CallsInWindow)

(* formal_demo_console_win32.py:301-390,853-885: at every size, DPI, text   *)
(* size and work area the controls of the console lie inside the window    *)
(* and apart from each other, and all are placed where there is room.      *)
LayoutFits ==
    shape # NoShape => ControlsApart(shape.size, shape.dpi, shape.scale, shape.area)

(* Nothing that the operator needs is hidden: no urgent record among the    *)
(* rows, no control of the console in the layout.                          *)
NothingHidden == AttentionIsListed /\ LayoutFits

(* What is left of a request or of a run's authority when it ended tells   *)
(* the truth: the record in the inbox, the halo around the screen          *)
(* (approval_inbox.py, presence_lifecycle.py).                             *)
SurfacesHonest == InboxHonest /\ HaloTells

(* The first of the gates as the promise of a one-shot permit has it.      *)
GateState(g) == IF g \in DOMAIN gates THEN gates[g].state ELSE "none"
Used(g) == Cardinality({i \in DOMAIN requests : requests[i].gate = g})
           + Cardinality({s \in scopes : s.gate = g /\ s.by = "host"})
First == INSTANCE OneShotPermit WITH state <- GateState(1), used <- Used(1)

(* A gate keeps the promise of a one-shot permit, stated of the first gate *)
(* beside a second: acknowledged once, used at most once, and never after  *)
(* it was cancelled (IntentCompileGate over the console, the provider and  *)
(* the host).                                                              *)
ImplementsPermit == First!Spec

(* What is sent or handed on was reviewed: the text and the disclosure that *)
(* were acknowledged, and nothing wider than the scenario's contract.      *)
ReviewBinds == SentAsAcknowledged /\ ScopeInsideReview

(* Every surface comes to its end although the code behind it may fail to  *)
(* answer: the progress window, the request for a decision, the halo.      *)
SurfacesEnd == WindowComesDown /\ EveryRequestDecided /\ HaloGoes
=============================================================================
