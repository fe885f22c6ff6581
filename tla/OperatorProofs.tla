--------------------------- MODULE OperatorProofs ---------------------------
(***************************************************************************)
(* What the operator sees and decides, for any number of requests, phases, *)
(* gates, callers, tasks and routes: the desk and the halo each by itself, *)
(* the formal demo's gates, and then the composition that is model-checked. *)
(***************************************************************************)
EXTENDS MCOperator, TLAPS, FiniteSetTheorems

-----------------------------------------------------------------------------
(* The desk (ApprovalDesk).                                                *)

(* What holds of every step of the desk: a card's time only runs out, who  *)
(* pointed stays known, and no window opens beside another.                *)
LEMMA DeskStep == DeskInv /\ [DeskNext]_deskVars => DeskInv'
<1> SUFFICES ASSUME DeskInv, [DeskNext]_deskVars PROVE DeskInv'
  OBVIOUS
<1> USE DeskAssumption DEF DeskInv, DeskTypes, Card, CardSound, AllowedAsPointed, OneCard, OnScreen
<1>1. CASE UNCHANGED deskVars
  BY <1>1 DEF deskVars
<1>2. ASSUME NEW q \in Asked, RequestApproval(q) PROVE DeskInv'
  <2>1. second + Lifetime \in Int
    OBVIOUS
  <2> DEFINE new == [NoCard EXCEPT !.at = "starting", !.expires = second + Lifetime]
  <2>2. /\ card' = [card EXCEPT ![q] = new] /\ new \in Card
        /\ new.at = "starting" /\ new.focus = "none" /\ new.selected = "none"
    BY <1>2, <2>1 DEF RequestApproval, NoCard, Options
  <2> HIDE DEF new
  <2>3. card' \in [Asked -> Card]
    BY <2>1, <2>2 DEF Options
  <2>4. UNCHANGED <<second, verdict, pointed>>
    BY <1>2 DEF RequestApproval
  <2> QED
    BY <2>2, <2>3, <2>4
<1>3. ASSUME NEW q \in Asked, RequestUnbound(q) PROVE DeskInv'
  BY <1>3 DEF RequestUnbound, Options
<1>4. ASSUME NEW q \in Asked, OpenCard(q) PROVE DeskInv'
  BY <1>4 DEF OpenCard, Options
<1>5. ASSUME NEW q \in Asked, NEW option \in Options, Click(q, option) PROVE DeskInv'
  <2> DEFINE new == [card[q] EXCEPT !.at = "closed", !.focus = "none", !.selected = option]
  <2>0. card[q] \in Card /\ card' = [card EXCEPT ![q] = new]
    BY <1>5 DEF Click, Close
  <2>1. /\ new \in Card /\ new.expires = card[q].expires
        /\ new.at = "closed" /\ new.focus = "none" /\ new.selected = option
    BY <2>0 DEF Options
  <2> HIDE DEF new
  <2>2. card' \in [Asked -> Card]
    BY <2>0, <2>1
  <2>3. UNCHANGED <<second, verdict>>
    BY <1>5 DEF Click
  <2>4. /\ pointed \subseteq pointed'
        /\ option = "approve" => q \in pointed' \/ second >= card[q].expires
    BY <1>5 DEF Click, PointAt
  <2> QED
    BY <2>0, <2>1, <2>2, <2>3, <2>4
<1>6. ASSUME NEW q \in Asked, NEW to \in Options \cup {"details"}, MoveFocus(q, to) PROVE DeskInv'
  BY <1>6 DEF MoveFocus, PointAt, Options
<1>7. ASSUME NEW q \in Asked, Enter(q) PROVE DeskInv'
  BY <1>7 DEF Enter, Close, Options
<1>8. ASSUME NEW q \in Asked, Dismiss(q) PROVE DeskInv'
  BY <1>8, ZenonT(60) DEF Dismiss, Close, Options
<1>9. CASE Answer
  <2>1. UNCHANGED <<second, card, pointed>>
    BY <1>9 DEF Answer
  <2>2. PICK q \in Asked : verdict' = [verdict EXCEPT ![q] =
                              IF card[q].at = "failed" THEN "deny" ELSE Verdict(q)]
    BY <1>9 DEF Answer, Decide
  <2>3. /\ Verdict(q) \in Options \cup {"allow"}
        /\ Verdict(q) = "allow" => card[q].selected = "approve" /\ second < card[q].expires
    <3>1. card[q].selected \in Options \cup {"none"} /\ second \in Int /\ card[q].expires \in Int
      OBVIOUS
    <3>2. CASE card[q].selected = "none" \/ second >= card[q].expires
      BY <3>2 DEF Verdict, Expired, Options
    <3>3. ASSUME NEW option \in Options, card[q].selected = option, second < card[q].expires
          PROVE  Verdict(q) = IF option = "approve" THEN "allow" ELSE option
      BY <3>1, <3>3 DEF Verdict, Expired, Options
    <3> QED
      BY <3>1, <3>2, <3>3 DEF Options
  <2> QED
    BY <2>1, <2>2, <2>3 DEF Options
<1>10. CASE GiveUp
  BY <1>10 DEF GiveUp, Decide, Options
<1>11. CASE Cancel
  BY <1>11 DEF Cancel, Decide, Options
<1>12. CASE ProcessDies
  BY <1>12, SMTT(30) DEF ProcessDies, Options
<1>13. CASE SecondPasses
  BY <1>13 DEF SecondPasses
<1> QED
  BY <1>1, <1>2, <1>3, <1>4, <1>5, <1>6, <1>7, <1>8, <1>9, <1>10, <1>11, <1>12, <1>13
  DEF DeskNext, DeskWaits

LEMMA DeskBegins == DeskInit => DeskInv /\ InboxInv
BY DEF DeskInit, DeskInv, DeskTypes, Card, CardSound, AllowedAsPointed, OneCard, OnScreen,
       NoCard, Options, InboxInv

(* No effect is allowed but the one whose own card the operator approved   *)
(* in time, and no two cards are on the screen: for any number of requests *)
(* with cards, threads and windows left behind.                            *)
THEOREM DecisionsAreSound == DeskSpec => []DecisionsSound
<1>1. DeskInv => DecisionsSound
  BY DEF DeskInv, DecisionsSound
<1> QED
  BY <1>1, DeskBegins, DeskStep, PTL DEF DeskSpec

(* Every way out of the wait takes the record away, or is at fault.        *)
LEMMA InboxStep == InboxInv /\ [DeskNext]_deskVars => InboxInv'
<1> SUFFICES ASSUME InboxInv, [DeskNext]_deskVars PROVE InboxInv'
  OBVIOUS
<1> USE DEF InboxInv
<1>1. CASE UNCHANGED <<awaiting, pending, faulty>>
  BY <1>1
<1>2. ASSUME NEW q \in Asked, RequestApproval(q) PROVE InboxInv'
  BY <1>2 DEF RequestApproval
<1>3. CASE Answer \/ GiveUp \/ Cancel
  <2> PICK q \in Asked : awaiting = <<q>> /\ CloseAttention(q) /\ awaiting' = <<>>
    BY <1>3 DEF Answer, GiveUp, Cancel, Decide
  <2> QED
    BY DEF CloseAttention
<1>4. CASE ProcessDies
  BY <1>4 DEF ProcessDies
<1> QED
  BY <1>1, <1>2, <1>3, <1>4
  DEF DeskNext, DeskWaits, deskVars, RequestUnbound, OpenCard, Click, MoveFocus, Enter, Dismiss,
      SecondPasses

LEMMA InboxTells == InboxInv => InboxHonest
BY DEF InboxInv, InboxHonest, InboxStatus

(* A record that says "pending" is never left behind by an answer, a       *)
(* timeout, a cancellation or the death of the process, unless it could    *)
(* not be removed.                                                         *)
THEOREM InboxIsHonest == DeskSpec => []InboxHonest
BY DeskBegins, InboxStep, InboxTells, PTL DEF DeskSpec

-----------------------------------------------------------------------------
(* The halo (PresenceHalo).                                                *)

(* Every field of what Enqueue leaves behind.                              *)
LEMMA EnqueueFields ==
  ASSUME HaloInv, NEW snapshot \in {"held", "waiting"}, Enqueue(snapshot)
  PROVE  /\ loop' \in Loops /\ loop'.stop = loop.stop /\ loop'.taken = loop.taken
         /\ stage.at # "finished" /\ ~lane.failed =>
               /\ loop'.pending = snapshot /\ ~loop'.close
               /\ loop'.thread = IF loop.thread = "none" THEN "turn" ELSE loop.thread
         /\ lane.failed => loop' = loop
<1>1. CASE lane.released \/ lane.failed
  BY <1>1 DEF Enqueue, HaloInv, HaloTypes
<1>2. CASE ~(lane.released \/ lane.failed)
  <2>1. loop' = [loop EXCEPT !.pending = snapshot, !.close = FALSE,
                    !.thread = IF @ = "none" THEN "turn" ELSE @]
    BY <1>2 DEF Enqueue
  <2>2. loop \in Loops
    BY DEF HaloInv, HaloTypes
  <2>3. loop' \in Loops
    BY <2>1, <2>2 DEF Loops
  <2> QED
    BY <1>2, <2>1, <2>2, <2>3 DEF Loops
<1> QED
  BY <1>1, <1>2

(* The types, action by action.                                            *)
LEMMA HaloTypesStep == HaloInv /\ [HaloNext]_haloVars => HaloTypes'
<1> SUFFICES ASSUME HaloInv, [HaloNext]_haloVars PROVE HaloTypes'
  OBVIOUS
<1>t. HaloTypes
  BY DEF HaloInv
<1>1. CASE UNCHANGED haloVars
  BY <1>1, <1>t DEF haloVars, HaloTypes
<1>2. CASE RecordHolding \/ YieldAuthority
  BY <1>2, <1>t, EnqueueFields DEF RecordHolding, YieldAuthority, Reports, HaloTypes, Stages
<1>3. CASE RecordPaused
  <2>1. loop' = loop \/ loop' = [loop EXCEPT !.close = TRUE]
    BY <1>3 DEF RecordPaused, RequestClose
  <2>2. loop' \in Loops
    BY <2>1, <1>t DEF HaloTypes, Loops
  <2> QED
    BY <1>3, <1>t, <2>2 DEF RecordPaused, Reports, HaloTypes, Stages
<1>4. CASE FinishRun
  BY <1>4, <1>t DEF FinishRun, StopWorker, HaloTypes, Stages, Loops
<1>5. CASE TakePending
  BY <1>5, <1>t, ZenonT(60) DEF TakePending, HaloTypes, Loops
<1>6. CASE DrawTaken
  BY <1>6, <1>t DEF DrawTaken, HaloTypes, Loops
<1>7. CASE DrawRaises
  BY <1>7, <1>t DEF DrawRaises, HaloTypes, Loops
<1>8. CASE LeaveLoop
  BY <1>8, <1>t DEF LeaveLoop, HaloTypes, Loops
<1> QED
  BY <1>1, <1>2, <1>3, <1>4, <1>5, <1>6, <1>7, <1>8 DEF HaloNext, HaloWorker

(* Every step keeps the last projection on its way.                        *)
LEMMA HaloStep == HaloInv /\ [HaloNext]_haloVars => HaloInv'
<1> SUFFICES ASSUME HaloInv, [HaloNext]_haloVars PROVE HaloInv'
  OBVIOUS
<1>t. HaloTypes /\ HaloTypes'
  BY HaloTypesStep DEF HaloInv
<1> USE <1>t DEF HaloInv, Wanted
<1>1. CASE UNCHANGED haloVars
  BY <1>1 DEF haloVars
<1>2. CASE RecordHolding
  BY <1>2, EnqueueFields DEF RecordHolding, Reports
<1>3. CASE YieldAuthority
  BY <1>3, EnqueueFields DEF YieldAuthority, Reports
<1>4. CASE RecordPaused
  BY <1>4 DEF RecordPaused, Reports, RequestClose, HaloTypes, Loops
<1>5. CASE FinishRun
  BY <1>5 DEF FinishRun, StopWorker, HaloTypes, Stages, Loops
<1>6. CASE TakePending
  <2>1. CASE loop.stop
    BY <1>6, <2>1 DEF TakePending, HaloTypes, Loops
  <2>2. CASE ~loop.stop
    <3>1. /\ loop'.pending = "none" /\ loop'.taken = loop.pending /\ loop'.close = FALSE
          /\ loop'.thread = "drawing" /\ loop'.stop = loop.stop
      BY <1>6, <2>2 DEF TakePending, HaloTypes, Loops
    <3>2. UNCHANGED <<stage, lane>> /\ loop.thread = "turn" /\ (~loop.close => halo' = halo)
      BY <1>6, <2>2 DEF TakePending
    <3> QED
      BY <3>1, <3>2
  <2> QED
    BY <2>1, <2>2
<1>7. CASE DrawTaken
  BY <1>7 DEF DrawTaken, HaloTypes, Loops
<1>8. CASE DrawRaises
  BY <1>8 DEF DrawRaises, HaloTypes, Loops
<1>9. CASE LeaveLoop
  BY <1>9 DEF LeaveLoop, HaloTypes, Loops
<1> QED
  BY <1>1, <1>2, <1>3, <1>4, <1>5, <1>6, <1>7, <1>8, <1>9 DEF HaloNext, HaloWorker

LEMMA HaloBegins == HaloInit => HaloInv
BY DEF HaloInit, HaloInv, HaloTypes, Loops, Stages

LEMMA HaloShows == HaloInv => HaloTells
BY DEF HaloInv, HaloTypes, HaloTells, Wanted, Loops, Stages

(* The halo tells who holds the desktop, for any number of phases and      *)
(* however the worker's turns fall between them.                           *)
THEOREM HaloAlwaysTells == HaloSpec => []HaloTells
BY HaloBegins, HaloStep, HaloShows, PTL DEF HaloSpec

-----------------------------------------------------------------------------
(* What the boards read and the size of the window touch nothing else.      *)
LEMMA RowsAside ==
    ReadRecords \/ Resize => UNCHANGED <<part, board, deskVars, haloVars, console>>
<1>1. ReadRecords => UNCHANGED <<part, board, deskVars, haloVars, console>>
  BY DEF ReadRecords
<1>2. Resize => UNCHANGED <<part, board, deskVars, haloVars, console>>
  BY DEF Resize
<1> QED BY <1>1, <1>2

(* The surfaces side by side (MCOperator): each step of the composition is *)
(* a step of the desk, or leaves the desk alone; and the same of the halo. *)
LEMMA DeskOfOperator == [OperatorNext]_allVars => [DeskNext]_deskVars
BY RowsAside DEF OperatorNext, allVars, OfBoard, OfDesk, OfHalo, OfDemo, deskVars

LEMMA HaloOfOperator == [OperatorNext]_allVars => [HaloNext]_haloVars
BY RowsAside DEF OperatorNext, allVars, OfBoard, OfDesk, OfHalo, OfDemo, haloVars

(* Beside a campaign, a halo and a demo too, no effect is allowed but the  *)
(* one the operator approved on its own card.                              *)
THEOREM OperatorIsAsked == OperatorSpec => []DecisionsSound
<1>1. OperatorInit => DeskInv
  BY DeskBegins DEF OperatorInit
<1>2. DeskInv /\ [OperatorNext]_allVars => DeskInv'
  BY DeskOfOperator, DeskStep
<1>3. DeskInv => DecisionsSound
  BY DEF DeskInv, DecisionsSound
<1> QED
  BY <1>1, <1>2, <1>3, PTL DEF OperatorSpec

(* What is left of a request, and the halo around the screen, tell the     *)
(* truth of the request and of the run they belong to.                     *)
THEOREM SurfacesAreHonest == OperatorSpec => []SurfacesHonest
<1> DEFINE Inv == InboxInv /\ HaloInv
<1>1. OperatorInit => Inv
  BY DeskBegins, HaloBegins DEF OperatorInit
<1>2. Inv /\ [OperatorNext]_allVars => Inv'
  BY DeskOfOperator, HaloOfOperator, InboxStep, HaloStep
<1>3. Inv => SurfacesHonest
  BY InboxTells, HaloShows DEF SurfacesHonest
<1> QED
  BY <1>1, <1>2, <1>3, PTL DEF OperatorSpec
-----------------------------------------------------------------------------
(* The reviewed contract (DemoContract): what it takes to fix it once and  *)
(* for all that the host's own intent compiles.                            *)
LEMMA AtMostFive ==
  ASSUME NEW a, NEW b, NEW c, NEW d, NEW e
  PROVE  /\ IsFiniteSet({a, b, c, d, e})
         /\ Cardinality({a, b, c, d, e}) \in 1..5
         /\ Cardinality({a, b, c}) \in 1..3
         /\ a # b /\ a # c /\ a # d /\ a # e /\ b # c /\ b # d /\ b # e /\ c # d /\ c # e /\ d # e
               => Cardinality({a, b, c, d, e}) = 5
<1>1. IsFiniteSet({a}) /\ Cardinality({a}) = 1
  BY FS_Singleton
<1> DEFINE two == {a} \cup {b}
           three == two \cup {c}
           four == three \cup {d}
           five == four \cup {e}
<1>2. IsFiniteSet(two) /\ Cardinality(two) = IF b \in {a} THEN 1 ELSE 2
  BY <1>1, FS_AddElement
<1>3. IsFiniteSet(three) /\ Cardinality(three) = IF c \in two THEN Cardinality(two)
                                                 ELSE Cardinality(two) + 1
  BY <1>2, FS_AddElement
<1>4. IsFiniteSet(four) /\ Cardinality(four) = IF d \in three THEN Cardinality(three)
                                               ELSE Cardinality(three) + 1
  BY <1>3, FS_AddElement
<1>5. IsFiniteSet(five) /\ Cardinality(five) = IF e \in four THEN Cardinality(four)
                                               ELSE Cardinality(four) + 1
  BY <1>4, FS_AddElement
<1>6. three = {a, b, c} /\ five = {a, b, c, d, e}
  OBVIOUS
<1>7. /\ b \in two /\ (b \in {a} <=> b = a) /\ (c \in two <=> c = a \/ c = b)
      /\ (d \in three <=> d = a \/ d = b \/ d = c)
      /\ (e \in four <=> e = a \/ e = b \/ e = c \/ e = d)
  OBVIOUS
<1> HIDE DEF two, three, four, five
<1>8. Cardinality(two) \in 1..2 /\ (a # b => Cardinality(two) = 2)
  BY <1>2, <1>7
<1>9. /\ Cardinality(three) \in 1..3
      /\ Cardinality(two) = 2 /\ a # c /\ b # c => Cardinality(three) = 3
  BY <1>3, <1>7, <1>8
<1>10. /\ Cardinality(four) \in 1..4
       /\ Cardinality(three) = 3 /\ d # a /\ d # b /\ d # c => Cardinality(four) = 4
  BY <1>4, <1>7, <1>9
<1>11. /\ Cardinality(five) \in 1..5
       /\ Cardinality(four) = 4 /\ e # a /\ e # b /\ e # c /\ e # d => Cardinality(five) = 5
  BY <1>5, <1>7, <1>10
<1>12. IsFiniteSet(five) /\ Cardinality(five) \in 1..5 /\ Cardinality(three) \in 1..3
  BY <1>5, <1>9, <1>11
<1>13. a # b /\ a # c /\ a # d /\ a # e /\ b # c /\ b # d /\ b # e /\ c # d /\ c # e /\ d # e
          => Cardinality(five) = 5
  BY <1>8, <1>9, <1>10, <1>11
<1> QED
  BY ONLY <1>6, <1>12, <1>13, Zenon

LEMMA SmallSets ==
  /\ \A a, b, c, d, e : SetValid({a, b, c, d, e}, 1) /\ SetValid({a, b, c, d, e}, 0)
  /\ \A a : SetValid({a}, 1) /\ SetValid({a}, 0)
  /\ \A a, b, c : SetValid({a, b, c}, 1)
  /\ \A a, b, c, d : SetValid({a, b, c, d}, 1)
  /\ SetValid({}, 0)
<1>1. \A a, b, c, d, e : SetValid({a, b, c, d, e}, 1) /\ SetValid({a, b, c, d, e}, 0)
  <2> TAKE a, b, c, d, e
  <2>1. Cardinality({a, b, c, d, e}) \in 1..5
    BY AtMostFive, Zenon
  <2> QED
    BY <2>1 DEF SetValid, MaxItems
<1>2. ASSUME NEW a, NEW b, NEW c, NEW d
      PROVE  {a} = {a, a, a, a, a} /\ {a, b, c} = {a, b, c, c, c} /\ {a, b, c, d} = {a, b, c, d, d}
  OBVIOUS
<1>3. ASSUME NEW a, NEW b, NEW c, NEW d
      PROVE  /\ SetValid({a}, 1) /\ SetValid({a}, 0)
             /\ SetValid({a, b, c}, 1) /\ SetValid({a, b, c, d}, 1)
  <2>1. SetValid({a, a, a, a, a}, 1) /\ SetValid({a, a, a, a, a}, 0)
    BY <1>1
  <2>2. SetValid({a, b, c, c, c}, 1) /\ SetValid({a, b, c, d, d}, 1)
    BY <1>1
  <2> QED
    BY <1>2, <2>1, <2>2
<1>4. SetValid({}, 0)
  BY FS_EmptySet DEF SetValid, MaxItems
<1> QED
  BY <1>1, <1>3, <1>4

LEMMA DraftIsModest == AtMost("draft", "draft") /\ AtMost("read_only", "draft")
                       /\ "draft" \in ToSet(Risks) /\ "read_only" \in ToSet(Risks)
<1>1. /\ 1 \in DOMAIN Risks /\ 2 \in DOMAIN Risks
      /\ Risks[1] = "read_only" /\ Risks[2] = "draft"
  BY DEF Risks
<1>2. AtMost("draft", "draft") /\ AtMost("read_only", "draft")
  BY <1>1 DEF AtMost
<1> QED
  BY <1>1, <1>2 DEF ToSet

LEMMA ScenarioIsValid == ScenarioPinned(ScenarioV1)
<1>1. /\ ScenarioV1.outcomes = {"verified_analysis_report_and_draft"}
      /\ ScenarioV1.allowed_roles = Roles /\ ScenarioV1.required_roles = Roles
      /\ ScenarioV1.outputs = {"excel_analysis", "word_report", "email_draft"}
      /\ ScenarioV1.required_outputs = ScenarioV1.outputs
      /\ ScenarioV1.constraints =
            {"cleanup", "create_new", "draft_only", "fixture_only", "reopen"}
      /\ ScenarioV1.required_constraints = ScenarioV1.constraints
      /\ ScenarioV1.ceilings = Budgets(12, 128, 24, 8, 3)
      /\ ScenarioV1.fixtures = {"issues", "pdf", "workbook", "document", "mailbox"}
      /\ ScenarioV1.risk = "draft"
      /\ ScenarioV1.forbidden = {"file_access", "email_send", "github_write", "overwrite"}
  BY DEF ScenarioV1
<1>2. SetValid(Roles, 1)
  BY SmallSets DEF Roles
<1>3. BudgetsValid(Budgets(12, 128, 24, 8, 3))
  BY DEF BudgetsValid, Budgets, BudgetFields, MaxBudget
<1>4. SetValid(ScenarioV1.outcomes, 1)
  <2>1. SetValid({"verified_analysis_report_and_draft"}, 1)
    BY SmallSets, Zenon
  <2> QED
    BY <1>1, <2>1
<1>5. SetValid(ScenarioV1.outputs, 1)
  <2>1. SetValid({"excel_analysis", "word_report", "email_draft"}, 1)
    BY SmallSets, Zenon
  <2> QED
    BY <1>1, <2>1
<1>6. SetValid(ScenarioV1.constraints, 1)
  <2>1. SetValid({"cleanup", "create_new", "draft_only", "fixture_only", "reopen"}, 1)
    BY SmallSets, Zenon
  <2> QED
    BY <1>1, <2>1
<1>7. SetValid(ScenarioV1.fixtures, 1)
  <2>1. SetValid({"issues", "pdf", "workbook", "document", "mailbox"}, 1)
    BY SmallSets, Zenon
  <2> QED
    BY <1>1, <2>1
<1>8. SetValid(ScenarioV1.forbidden, 1)
  <2>1. SetValid({"file_access", "email_send", "github_write", "overwrite"}, 1)
    BY SmallSets, Zenon
  <2> QED
    BY <1>1, <2>1
<1> QED
  BY <1>1, <1>2, <1>3, <1>4, <1>5, <1>6, <1>7, <1>8, DraftIsModest
  DEF ScenarioPinned, ScenarioValid

(* The five pinned profiles: one for each role, one owner for each output. *)
LEMMA ProfilesAreValid ==
  /\ SetValid(ProfilesV1, 1) /\ ProfilesPinned(ProfilesV1)
  /\ IsFiniteSet(ProfilesV1) /\ Cardinality(ProfilesV1) = Cardinality(Roles)
  /\ {p.role : p \in ProfilesV1} = Roles
  /\ \A p, q \in ProfilesV1 : p.role = q.role => p = q
<1> DEFINE github == ProfileV1("source_github", "source", {}, "issues", {"github_write"})
           pdf == ProfileV1("evidence_pdf", "evidence", {}, "pdf", {"file_access"})
           excel == ProfileV1("analysis_excel", "analysis", {"excel_analysis"}, "workbook",
                                 {"overwrite"})
           word == ProfileV1("report_word", "report", {"word_report"}, "document",
                               {"overwrite"})
           mail == ProfileV1("handoff_email", "handoff", {"email_draft"}, "mailbox",
                                {"email_send"})
<1>1. ProfilesV1 = {github, pdf, excel, word, mail}
  BY DEF ProfilesV1
<1>2. /\ github.role = "source" /\ pdf.role = "evidence" /\ excel.role = "analysis"
      /\ word.role = "report" /\ mail.role = "handoff"
  BY DEF ProfileV1
<1>3. ASSUME NEW id, NEW role \in Roles, NEW outputs, NEW fixture, NEW forbidden,
             fixture # "none", outputs = {} \/ \E o : outputs = {o}, \E f : forbidden = {f}
      PROVE  ProfileValid(ProfileV1(id, role, outputs, fixture, forbidden))
  <2>1. /\ SetValid({role}, 1) /\ SetValid({fixture}, 1) /\ SetValid(outputs, 0)
        /\ SetValid(forbidden, 0)
    BY <1>3, SmallSets, Zenon
  <2> DEFINE p == ProfileV1(id, role, outputs, fixture, forbidden)
  <2>2. /\ p.role = role /\ p.adapter = fixture /\ p.selected = TRUE
        /\ p.reads = {role} /\ p.changes = outputs /\ p.outputs = outputs
        /\ p.fixtures = {fixture} /\ p.forbidden = forbidden
        /\ p.risk = IF outputs = {} THEN "read_only" ELSE "draft"
    BY DEF ProfileV1
  <2> HIDE DEF p
  <2>3. ProfileValid(p)
    BY <1>3, <2>1, <2>2, DraftIsModest DEF ProfileValid
  <2> QED
    BY <2>3 DEF p
<1>4. \A p \in {github, pdf, excel, word, mail} : ProfileValid(p)
  <2>1. ProfileValid(github) /\ ProfileValid(pdf)
    BY <1>3 DEF Roles
  <2>2. ProfileValid(excel) /\ ProfileValid(word) /\ ProfileValid(mail)
    BY <1>3 DEF Roles
  <2> HIDE DEF github, pdf, excel, word, mail
  <2> QED
    BY <2>1, <2>2
<1> HIDE DEF github, pdf, excel, word, mail
<1>5. Cardinality(Roles) = 5
  BY AtMostFive DEF Roles
<1>6. /\ github # pdf /\ github # excel /\ github # word /\ github # mail
      /\ pdf # excel /\ pdf # word /\ pdf # mail
      /\ excel # word /\ excel # mail /\ word # mail
  BY <1>2
<1>7. /\ IsFiniteSet({github, pdf, excel, word, mail})
      /\ Cardinality({github, pdf, excel, word, mail}) = 5
  BY <1>6, AtMostFive, Zenon
<1>8. SetValid({github, pdf, excel, word, mail}, 1)
  BY SmallSets, Zenon
<1> QED
  BY <1>1, <1>2, <1>4, <1>5, <1>7, <1>8 DEF ProfilesPinned, Roles

(* What the host fixes for every task is inside the scenario, and fits the *)
(* profiles: the compilation that follows the acknowledgement is not        *)
(* rejected for any text (LocalScope).                                     *)
LEMMA LocalIntentFits ==
  ASSUME NEW task
  PROVE  /\ IntentValid(LocalIntent(task)) /\ LocalIntent(task).task = task
         /\ IntentInScenario(LocalIntent(task), ScenarioV1)
         /\ ProfilesFit(LocalIntent(task), ScenarioV1, ProfilesV1)
<1> DEFINE intent == LocalIntent(task)
<1>1. /\ intent.task = task /\ intent.scenario = ScenarioV1.id
      /\ intent.outcome \in ScenarioV1.outcomes /\ intent.roles = Roles
      /\ intent.outputs = {"excel_analysis", "word_report", "email_draft"}
      /\ intent.outputs = ScenarioV1.outputs /\ intent.outputs = ScenarioV1.required_outputs
      /\ intent.constraints = ScenarioV1.constraints
      /\ intent.constraints = ScenarioV1.required_constraints
      /\ intent.risk = "draft" /\ ScenarioV1.risk = "draft"
      /\ ScenarioV1.allowed_roles = Roles /\ ScenarioV1.required_roles = Roles
      /\ intent.budgets = Budgets(0, 128, 24, 0, 3)
      /\ ScenarioV1.ceilings = Budgets(12, 128, 24, 8, 3)
      /\ ScenarioV1.fixtures = {"issues", "pdf", "workbook", "document", "mailbox"}
  BY DEF LocalIntent, ScenarioV1, Budgets
<1> HIDE DEF intent
<1>2. /\ SetValid(Roles, 1) /\ SetValid(ScenarioV1.outputs, 1) /\ SetValid(ScenarioV1.constraints, 1)
  BY ScenarioIsValid, <1>1 DEF ScenarioPinned, ScenarioValid
<1>3. BudgetsValid(Budgets(0, 128, 24, 0, 3))
  BY DEF BudgetsValid, Budgets, BudgetFields, MaxBudget
<1>4. IntentValid(intent)
  BY <1>1, <1>2, <1>3, DraftIsModest DEF IntentValid
<1>5. WithinBudgets(Budgets(0, 128, 24, 0, 3), Budgets(12, 128, 24, 8, 3))
  BY DEF WithinBudgets, Budgets, BudgetFields
<1>6. Cardinality(intent.outputs) <= 3 /\ intent.budgets.artifacts = 3
  <2>1. Cardinality({"excel_analysis", "word_report", "email_draft"}) \in 1..3
    BY AtMostFive, Zenon
  <2> QED
    BY <1>1, <2>1 DEF Budgets
<1>7. Cardinality(intent.outputs) \in Int
  BY <1>1, <1>2 DEF SetValid, MaxItems
<1>8. IntentInScenario(intent, ScenarioV1)
  BY <1>1, <1>5, <1>6, <1>7, DraftIsModest DEF IntentInScenario
<1>9. ProfilesFit(intent, ScenarioV1, ProfilesV1)
  <2>1. \A p \in ProfilesV1 :
            /\ p.selected /\ p.risk \in {"read_only", "draft"}
            /\ p.fixtures \subseteq ScenarioV1.fixtures /\ p.outputs \subseteq intent.outputs
    BY <1>1 DEF ProfilesV1, ProfileV1
  <2>2. \A o \in intent.outputs : \E q : {p \in ProfilesV1 : o \in p.outputs} = {q}
    <3> DEFINE excel == ProfileV1("analysis_excel", "analysis", {"excel_analysis"}, "workbook",
                                  {"overwrite"})
               word == ProfileV1("report_word", "report", {"word_report"}, "document",
                                 {"overwrite"})
               mail == ProfileV1("handoff_email", "handoff", {"email_draft"}, "mailbox",
                                 {"email_send"})
               github == ProfileV1("source_github", "source", {}, "issues", {"github_write"})
               pdf == ProfileV1("evidence_pdf", "evidence", {}, "pdf", {"file_access"})
    <3>1. ProfilesV1 = {github, pdf, excel, word, mail}
      BY DEF ProfilesV1
    <3>2. /\ excel.outputs = {"excel_analysis"} /\ word.outputs = {"word_report"}
          /\ mail.outputs = {"email_draft"} /\ github.outputs = {} /\ pdf.outputs = {}
      BY DEF ProfileV1
    <3> HIDE DEF excel, word, mail, github, pdf
    <3>3. /\ {p \in ProfilesV1 : "excel_analysis" \in p.outputs} = {excel}
          /\ {p \in ProfilesV1 : "word_report" \in p.outputs} = {word}
          /\ {p \in ProfilesV1 : "email_draft" \in p.outputs} = {mail}
      BY <3>1, <3>2
    <3> QED
      BY <1>1, <3>3
  <2>3. \A o \in intent.outputs : Cardinality({p \in ProfilesV1 : o \in p.outputs}) = 1
    BY <2>2, FS_Singleton
  <2> QED
    BY <1>1, <2>1, <2>3, ProfilesAreValid, DraftIsModest DEF ProfilesFit
<1> QED
  BY <1>1, <1>4, <1>8, <1>9 DEF intent

(* What a sheet says is what its binding says.                             *)
LEMMA SheetFields ==
  ASSUME NEW intent, NEW draft
  PROVE  LET sheet == Sheet(intent, ScenarioV1, ProfilesV1, draft) IN
         /\ sheet # Rejected /\ sheet.draft = draft /\ sheet.grants = {}
         /\ sheet.binding.intent = intent /\ sheet.binding.draft = draft
         /\ sheet.binding.profiles = ProfilesV1
         /\ sheet.risk = intent.risk /\ sheet.budgets = intent.budgets
         /\ sheet.outputs = intent.outputs /\ sheet.constraints = intent.constraints
         /\ ScenarioV1.forbidden \subseteq sheet.forbidden
         /\ sheet.forbidden = ScenarioV1.forbidden \cup UNION {p.forbidden : p \in ProfilesV1}
         /\ sheet.applications =
               {[role |-> p.role, profile |-> p, adapter |-> p.adapter,
                 reads |-> p.reads, changes |-> p.changes, outputs |-> p.outputs,
                 fixtures |-> p.fixtures] : p \in ProfilesV1}
BY DEF Sheet, BindingDigest, Rejected

(* The sheet the host compiles is a valid one.                             *)
LEMMA LocalSheetIsValid ==
  ASSUME NEW task, NEW draft
  PROVE  SheetValid(Sheet(LocalIntent(task), ScenarioV1, ProfilesV1, draft))
<1> DEFINE sheet == Sheet(LocalIntent(task), ScenarioV1, ProfilesV1, draft)
           app(p) == [role |-> p.role, profile |-> p, adapter |-> p.adapter,
                      reads |-> p.reads, changes |-> p.changes, outputs |-> p.outputs,
                      fixtures |-> p.fixtures]
<1>1. sheet.applications = {app(p) : p \in ProfilesV1}
  BY SheetFields
<1>2. /\ sheet.outputs = LocalIntent(task).outputs
      /\ sheet.constraints = LocalIntent(task).constraints
      /\ sheet.risk = LocalIntent(task).risk /\ sheet.budgets = LocalIntent(task).budgets
      /\ sheet.forbidden = ScenarioV1.forbidden \cup UNION {p.forbidden : p \in ProfilesV1}
      /\ sheet.binding.profiles = ProfilesV1
  BY SheetFields
<1>3. \A p \in ProfilesV1 : /\ app(p).role = p.role /\ app(p).profile = p
                            /\ app(p).adapter = p.adapter /\ app(p).reads = p.reads
                            /\ app(p).changes = p.changes /\ app(p).outputs = p.outputs
                            /\ app(p).fixtures = p.fixtures
  OBVIOUS
<1> HIDE DEF app, sheet
<1>4. \A p \in ProfilesV1 : ProfileValid(p) /\ p.selected /\ p.reads = {p.role}
                            /\ p.changes = p.outputs
                            /\ p.forbidden \subseteq ScenarioV1.forbidden
  <2>1. \A p \in ProfilesV1 : ProfileValid(p)
    BY ProfilesAreValid DEF ProfilesPinned
  <2>2. \A p \in ProfilesV1 : p.selected /\ p.reads = {p.role} /\ p.changes = p.outputs
    BY DEF ProfilesV1, ProfileV1
  <2>3. ScenarioV1.forbidden = {"file_access", "email_send", "github_write", "overwrite"}
    BY DEF ScenarioV1
  <2>4. \A p \in ProfilesV1 :
            p.forbidden \subseteq {"file_access", "email_send", "github_write", "overwrite"}
    BY DEF ProfilesV1, ProfileV1
  <2> QED
    BY <2>1, <2>2, <2>3, <2>4
<1>5. Cardinality(sheet.applications) \in 1..Cardinality(Roles)
  <2> DEFINE f == [p \in ProfilesV1 |-> app(p)]
  <2>1. f \in Surjection(ProfilesV1, sheet.applications)
    BY <1>1 DEF Surjection
  <2>2. IsFiniteSet(sheet.applications)
        /\ Cardinality(sheet.applications) <= Cardinality(ProfilesV1)
    BY <2>1, ProfilesAreValid, FS_Surjection
  <2>3. sheet.applications # {}
    <3>1. ProfilesV1 # {}
      BY DEF ProfilesV1
    <3> QED
      BY <1>1, <3>1
  <2>4. Cardinality(sheet.applications) \in Nat /\ Cardinality(sheet.applications) # 0
    BY <2>2, <2>3, FS_CardinalityType, FS_EmptySet
  <2>5. Cardinality(Roles) \in Nat
    BY ProfilesAreValid, FS_CardinalityType
  <2> QED
    BY <2>2, <2>4, <2>5, ProfilesAreValid
<1>6. \A a \in sheet.applications : ApplicationValid(a)
  BY <1>1, <1>3, <1>4 DEF ApplicationValid, ProfileValid
<1>7. \A a, b \in sheet.applications : a.role = b.role => a = b
  BY <1>1, <1>3, ProfilesAreValid
<1>8. {a.profile : a \in sheet.applications} = ProfilesV1
  BY <1>1, <1>3
<1>9. UNION {a.reads : a \in sheet.applications} = Roles
  <2>1. \A p \in ProfilesV1 : p.role \in Roles
    BY ProfilesAreValid
  <2>2. \A r \in Roles : \E p \in ProfilesV1 : p.role = r
    BY ProfilesAreValid
  <2>3. \A x : x \in UNION {a.reads : a \in sheet.applications} <=>
                  \E p \in ProfilesV1 : x = p.role
    BY <1>1, <1>3, <1>4
  <2> QED
    BY <2>1, <2>2, <2>3
<1>10. UNION {a.changes : a \in sheet.applications} = LocalIntent(task).outputs
  <2>1. \A p \in ProfilesV1 : p.outputs \subseteq LocalIntent(task).outputs
    BY LocalIntentFits DEF ProfilesFit
  <2>2. \A o \in LocalIntent(task).outputs : \E p \in ProfilesV1 : o \in p.outputs
    <3> TAKE o \in LocalIntent(task).outputs
    <3>1. Cardinality({p \in ProfilesV1 : o \in p.outputs}) = 1
      BY LocalIntentFits DEF ProfilesFit
    <3>2. {p \in ProfilesV1 : o \in p.outputs} # {}
      <4> SUFFICES ASSUME {p \in ProfilesV1 : o \in p.outputs} = {} PROVE FALSE
        OBVIOUS
      <4>1. Cardinality({}) = 1
        BY <3>1
      <4> QED
        BY <4>1, FS_EmptySet
    <3> QED
      BY <3>2
  <2>3. \A x : x \in UNION {a.changes : a \in sheet.applications} <=>
                  \E p \in ProfilesV1 : x \in p.outputs
    BY <1>1, <1>3, <1>4
  <2> QED
    BY <2>1, <2>2, <2>3
<1>11. SetValid(Roles, 1) /\ SetValid(LocalIntent(task).outputs, 1)
       /\ SetValid(LocalIntent(task).constraints, 1) /\ BudgetsValid(LocalIntent(task).budgets)
       /\ LocalIntent(task).risk \in ToSet(Risks)
  BY ScenarioIsValid, LocalIntentFits DEF ScenarioPinned, ScenarioValid, ScenarioV1, IntentValid
<1>12. Cardinality(Roles) \in 1..16 /\ Cardinality(LocalIntent(task).outputs) \in 1..16
  BY <1>11 DEF SetValid, MaxItems
<1>13. SetValid(sheet.forbidden, 1)
  <2>1. sheet.forbidden = ScenarioV1.forbidden
    BY <1>2, <1>4
  <2> QED
    BY <2>1, ScenarioIsValid DEF ScenarioPinned, ScenarioValid
<1>14. /\ Cardinality(UNION {a.reads : a \in sheet.applications}) \in 1..(2 * MaxItems)
       /\ Cardinality(UNION {a.changes : a \in sheet.applications}) \in 0..(2 * MaxItems)
  <2>1. 1..16 \subseteq 1..(2 * MaxItems) /\ 1..16 \subseteq 0..(2 * MaxItems)
    BY DEF MaxItems
  <2> QED
    BY <1>9, <1>10, <1>12, <2>1
<1>15. SheetValid(sheet)
  BY <1>2, <1>5, <1>6, <1>7, <1>8, <1>11, <1>13, <1>14 DEF SheetValid
<1> QED
  BY <1>15 DEF sheet

(* So the compilation of the host's own intent never fails.                *)
LEMMA LocalCompiles ==
  ASSUME NEW task, NEW draft
  PROVE  Compile(LocalIntent(task), ScenarioV1, ProfilesV1, draft)
            = Sheet(LocalIntent(task), ScenarioV1, ProfilesV1, draft)
BY LocalIntentFits, LocalSheetIsValid, ScenarioIsValid, ProfilesAreValid
DEF Compile, ContractsReviewed

(* A sheet that was compiled, from whatever intent.                        *)
Compiled(sheet, intent, draft) ==
    sheet # Rejected /\ sheet = Compile(intent, ScenarioV1, ProfilesV1, draft)

(* A compiled sheet stays inside the scenario and gives every output its   *)
(* one application.                                                        *)
LEMMA SheetInside ==
  ASSUME NEW sheet, NEW intent, NEW draft, Compiled(sheet, intent, draft)
  PROVE  /\ IntentInScenario(intent, ScenarioV1)
         /\ AtMost(sheet.risk, ScenarioV1.risk)
         /\ WithinBudgets(sheet.budgets, ScenarioV1.ceilings)
         /\ ScenarioV1.forbidden \subseteq sheet.forbidden
         /\ \A o \in sheet.outputs :
               Cardinality({a \in sheet.applications : o \in a.outputs}) = 1
         /\ UNION {a.outputs : a \in sheet.applications} = sheet.outputs
         /\ sheet.draft = draft /\ sheet.binding.intent = intent
         /\ sheet.budgets = intent.budgets
         /\ DecodeSheet(sheet, intent, ScenarioV1, ProfilesV1, draft, sheet.binding)
<1>1. /\ sheet = Sheet(intent, ScenarioV1, ProfilesV1, draft)
      /\ IntentInScenario(intent, ScenarioV1) /\ ProfilesFit(intent, ScenarioV1, ProfilesV1)
      /\ SheetValid(sheet)
  BY DEF Compiled, Compile
<1> DEFINE app(p) == [role |-> p.role, profile |-> p, adapter |-> p.adapter,
                      reads |-> p.reads, changes |-> p.changes, outputs |-> p.outputs,
                      fixtures |-> p.fixtures]
<1>2. /\ sheet.draft = draft /\ sheet.grants = {} /\ sheet.binding.intent = intent
      /\ sheet.risk = intent.risk /\ sheet.budgets = intent.budgets
      /\ sheet.outputs = intent.outputs /\ ScenarioV1.forbidden \subseteq sheet.forbidden
      /\ sheet.applications = {app(p) : p \in ProfilesV1}
  BY <1>1, SheetFields
<1>3. \A p \in ProfilesV1 : app(p).outputs = p.outputs /\ app(p).profile = p
  OBVIOUS
<1> HIDE DEF app
<1>4. ASSUME NEW o \in sheet.outputs
      PROVE  \E q \in ProfilesV1 : /\ o \in q.outputs
                                   /\ \A p \in ProfilesV1 : o \in p.outputs => p = q
  <2>1. Cardinality({p \in ProfilesV1 : o \in p.outputs}) = 1
    BY <1>1, <1>2 DEF ProfilesFit
  <2>2. IsFiniteSet({p \in ProfilesV1 : o \in p.outputs})
    BY ProfilesAreValid, FS_Subset
  <2>3. PICK q : {p \in ProfilesV1 : o \in p.outputs} = {q}
    BY <2>1, <2>2, FS_Singleton
  <2> QED
    BY <2>3
<1>5. ASSUME NEW o \in sheet.outputs
      PROVE  Cardinality({a \in sheet.applications : o \in a.outputs}) = 1
  <2>1. PICK q \in ProfilesV1 : /\ o \in q.outputs
                                /\ \A p \in ProfilesV1 : o \in p.outputs => p = q
    BY <1>4
  <2>2. {a \in sheet.applications : o \in a.outputs} = {app(q)}
    BY <1>2, <1>3, <2>1
  <2> QED
    BY <2>2, FS_Singleton
<1>6. UNION {a.outputs : a \in sheet.applications} = sheet.outputs
  <2>1. \A p \in ProfilesV1 : p.outputs \subseteq sheet.outputs
    BY <1>1, <1>2 DEF ProfilesFit
  <2>2. \A x : x \in UNION {a.outputs : a \in sheet.applications} <=>
                  \E p \in ProfilesV1 : x \in p.outputs
    BY <1>2, <1>3
  <2> QED
    BY <1>4, <2>1, <2>2
<1>7. DecodeSheet(sheet, intent, ScenarioV1, ProfilesV1, draft, sheet.binding)
  BY <1>1, <1>2 DEF DecodeSheet, Compiled
<1> QED
  BY <1>1, <1>2, <1>5, <1>6, <1>7 DEF IntentInScenario

-----------------------------------------------------------------------------
(* The gates of the demo (FormalDemo), whoever uses them: the console's     *)
(* session and the clients of the provider, in any order.                  *)
Disclosures == [draft : Nat, task : Tasks, route : Routes,
                profile : {ProfileOf(r.provider) : r \in Routes}]
GateRecords == [state : {"ready", "permitted", "cancelled", "consumed"},
                disclosure : Disclosures, digest : Disclosures, issued : BOOLEAN]
RequestRecords == {RequestOf(d) : d \in Disclosures}
HostSheets == {Rejected} \cup {LocalScope(gate) : gate \in GateRecords}
Sessions == [gate : Nat, task : Tasks \cup {""}, cancelled : BOOLEAN,
             code : {"none", "terminal", "disclosure", "required", "stopped"},
             scope : HostSheets]

DemoTypes ==
    /\ gates \in Seq(GateRecords)
    /\ session \in Sessions /\ session.gate \in 0..Len(gates)
    /\ attempts \in [Callers -> [pc : {"idle", "sent", "failed", "done"}, gate : Nat,
                                 request : {Rejected} \cup RequestRecords]]
    /\ requests \in Seq([gate : Nat, request : RequestRecords])

(* What was sent is bound to a gate that was used up for it, and the        *)
(* caller that waits for an answer is the one that sent it.                *)
SentInv ==
    /\ \A i \in DOMAIN requests :
          /\ requests[i].gate \in DOMAIN gates
          /\ gates[requests[i].gate].state = "consumed" /\ gates[requests[i].gate].issued
          /\ requests[i].request = RequestOf(gates[requests[i].gate].digest)
    /\ \A i, j \in DOMAIN requests : requests[i].gate = requests[j].gate => i = j
    /\ \A c \in Callers : attempts[c].pc = "sent" =>
          \E i \in DOMAIN requests : /\ requests[i].gate = attempts[c].gate
                                     /\ requests[i].request = attempts[c].request

(* Every sheet was compiled from a valid intent for the text of its gate:  *)
(* the host's own, or what came back for a request of that gate.           *)
Grounded(s) ==
    /\ s.gate \in DOMAIN gates /\ gates[s.gate].state = "consumed"
    /\ s.by \in {"host", "provider"}
    /\ s.by = "provider" => \E i \in DOMAIN requests : requests[i].gate = s.gate
    /\ \E intent :
          /\ IntentValid(intent) /\ intent.task = gates[s.gate].digest.task
          /\ Compiled(s.sheet, intent, gates[s.gate].digest.draft)
          /\ s.by = "host" => intent = LocalIntent(gates[s.gate].digest.task)

DemoInv == DemoTypes /\ SentInv /\ \A s \in scopes : Grounded(s)

(* No step takes back what was disclosed or used up.                       *)
GatesKept ==
    \A g \in DOMAIN gates :
        /\ g \in DOMAIN gates'
        /\ gates'[g].digest = gates[g].digest
        /\ gates[g].state = "consumed" =>
              gates'[g].state = "consumed" /\ gates'[g].issued = gates[g].issued

DemoMove ==
    \/ \E t \in Tasks, r \in Routes : Review(t, r)
    \/ \E token \in {"COMPILE", "other"}, fails \in BOOLEAN : ConsoleAcknowledge(token, fails)
    \/ \E cancelled \in BOOLEAN : Dropped(cancelled)
    \/ ProviderNext

LEMMA DemoBegins == DemoInit => DemoInv
<1> SUFFICES ASSUME DemoInit PROVE DemoInv
  OBVIOUS
<1>1. gates = <<>> /\ requests = <<>> /\ scopes = {} /\ session = NoSession
  BY DEF DemoInit
<1>2. gates \in Seq(GateRecords) /\ requests \in Seq([gate : Nat, request : RequestRecords])
      /\ Len(gates) = 0 /\ DOMAIN requests = {}
  BY <1>1
<1>3. session \in Sessions /\ session.gate = 0
  BY <1>1 DEF NoSession, Sessions, HostSheets
<1>4. attempts \in [Callers -> [pc : {"idle", "sent", "failed", "done"}, gate : Nat,
                                request : {Rejected} \cup RequestRecords]]
      /\ \A c \in Callers : attempts[c].pc = "idle"
  BY DEF DemoInit, IdleAttempt
<1> QED
  BY <1>1, <1>2, <1>3, <1>4 DEF DemoInv, DemoTypes, SentInv

(* Every step of the window moves the demo or leaves it alone.             *)
LEMMA WindowMoves == WindowNext => DemoMove \/ UNCHANGED demoVars
BY DEF WindowNext, Open, PressReview, PressAcknowledge, PressReset, PressClose, Quit, Dispose,
       ReadFails, Inert, DemoMove, Reset, CancelSession

LEMMA AcknowledgedFields ==
  ASSUME NEW gate \in GateRecords, NEW token
  PROVE  LET n == Acknowledged(gate, token) IN
         /\ n \in GateRecords /\ n.digest = gate.digest /\ n.disclosure = gate.disclosure
         /\ gate.state # "ready" => n = gate
         /\ gate.state = "ready" => n.state \in {"permitted", "cancelled"}
         /\ gate.state = "ready" /\ n.state = "permitted" => Current(gate)
<1>1. CASE gate.state # "ready"
  BY <1>1 DEF Acknowledged
<1>2. CASE gate.state = "ready" /\ (token # "COMPILE" \/ ~Current(gate))
  <2>1. Acknowledged(gate, token) = [gate EXCEPT !.state = "cancelled"]
    BY <1>2 DEF Acknowledged
  <2> QED
    BY <1>2, <2>1 DEF GateRecords
<1>3. CASE gate.state = "ready" /\ token = "COMPILE" /\ Current(gate)
  <2>1. Acknowledged(gate, token) = [gate EXCEPT !.state = "permitted", !.issued = TRUE]
    BY <1>3 DEF Acknowledged
  <2> QED
    BY <1>3, <2>1 DEF GateRecords
<1> QED
  BY <1>1, <1>2, <1>3

LEMMA ConsumedFields ==
  ASSUME NEW g, NEW gate \in GateRecords, NEW permit, NEW current
  PROVE  LET n == Consumed(g, gate, permit, current) IN
         /\ n \in GateRecords /\ n.digest = gate.digest /\ n.disclosure = gate.disclosure
         /\ n.issued = gate.issued
         /\ gate.state # "permitted" => n = gate
         /\ gate.state = "permitted" /\ ~Uses(g, gate, permit, current) => n.state = "cancelled"
         /\ Uses(g, gate, permit, current) =>
               /\ gate.state = "permitted" /\ n.state = "consumed" /\ gate.issued
               /\ gate.disclosure = gate.digest /\ current = gate.digest
<1>1. CASE gate.state # "permitted"
  BY <1>1 DEF Consumed, Uses
<1>2. CASE gate.state = "permitted" /\ ~Matches(g, gate, permit, current)
  <2>1. Consumed(g, gate, permit, current) = [gate EXCEPT !.state = "cancelled"]
    BY <1>2 DEF Consumed
  <2> QED
    BY <1>2, <2>1 DEF GateRecords, Uses
<1>3. CASE gate.state = "permitted" /\ Matches(g, gate, permit, current)
  <2>1. Consumed(g, gate, permit, current) = [gate EXCEPT !.state = "consumed"]
    BY <1>3 DEF Consumed
  <2>2. gate.issued /\ gate.disclosure = gate.digest /\ current = gate.digest
    BY <1>3 DEF Matches, PermitOf, Current
  <2> QED
    BY <1>3, <2>1, <2>2 DEF GateRecords, Uses
<1> QED
  BY <1>1, <1>2, <1>3

LEMMA OneGate ==
  ASSUME gates \in Seq(GateRecords), NEW g \in DOMAIN gates, NEW n \in GateRecords,
         n.digest = gates[g].digest,
         gates[g].state = "consumed" => n.state = "consumed" /\ n.issued = gates[g].issued,
         gates' = [gates EXCEPT ![g] = n]
  PROVE  /\ gates' \in Seq(GateRecords) /\ Len(gates') = Len(gates) /\ GatesKept
         /\ DOMAIN gates' = DOMAIN gates
         /\ gates'[g] = n /\ \A h \in DOMAIN gates : h # g => gates'[h] = gates[h]
BY DEF GatesKept

LEMMA NoGate == ASSUME UNCHANGED gates PROVE GatesKept
BY DEF GatesKept

LEMMA NewDisclosure ==
  ASSUME gates \in Seq(GateRecords), NEW task \in Tasks, NEW route \in Routes,
         gates' = Append(gates, NewGate(Disclosure(Len(gates) + 1, task, route)))
  PROVE  /\ gates' \in Seq(GateRecords) /\ Len(gates') = Len(gates) + 1 /\ GatesKept
         /\ gates'[Len(gates) + 1] = NewGate(Disclosure(Len(gates) + 1, task, route))
         /\ \A h \in DOMAIN gates : gates'[h] = gates[h]
<1> DEFINE d == Disclosure(Len(gates) + 1, task, route)
<1>1. d \in Disclosures
  BY DEF Disclosure, Disclosures
<1>2. NewGate(d) \in GateRecords
  BY <1>1 DEF NewGate, GateRecords
<1> HIDE DEF d
<1>3. gates' = Append(gates, NewGate(d))
  BY DEF d
<1>4. /\ gates' \in Seq(GateRecords) /\ Len(gates') = Len(gates) + 1
      /\ gates'[Len(gates) + 1] = NewGate(d)
      /\ \A h \in DOMAIN gates : gates'[h] = gates[h] /\ h \in DOMAIN gates'
  BY <1>2, <1>3
<1> QED
  BY <1>4 DEF GatesKept, d

(* What was sent and compiled stays true of gates that are kept.           *)
LEMMA KeptTruth ==
  ASSUME DemoInv, GatesKept
  PROVE  /\ \A i \in DOMAIN requests :
               /\ requests[i].gate \in DOMAIN gates'
               /\ gates'[requests[i].gate].state = "consumed" /\ gates'[requests[i].gate].issued
               /\ requests[i].request = RequestOf(gates'[requests[i].gate].digest)
         /\ \A s \in scopes :
               /\ s.gate \in DOMAIN gates' /\ gates'[s.gate].state = "consumed"
               /\ gates'[s.gate].digest = gates[s.gate].digest
BY DEF DemoInv, SentInv, Grounded, GatesKept

LEMMA KeptScopes ==
  ASSUME DemoInv, GatesKept, NEW s \in scopes,
         \A i \in DOMAIN requests : i \in DOMAIN requests' /\ requests'[i] = requests[i]
  PROVE  Grounded(s)'
<1>1. Grounded(s)
  BY DEF DemoInv
<1>2. /\ s.gate \in DOMAIN gates' /\ gates'[s.gate].state = "consumed"
      /\ gates'[s.gate].digest = gates[s.gate].digest
  BY KeptTruth
<1>3. s.by = "provider" => \E i \in DOMAIN requests' : requests'[i].gate = s.gate
  BY <1>1 DEF Grounded
<1> QED
  BY <1>1, <1>2, <1>3 DEF Grounded

LEMMA KeptInv ==
  ASSUME DemoInv, GatesKept, UNCHANGED <<attempts, requests, scopes>>,
         gates' \in Seq(GateRecords), session' \in Sessions, session'.gate \in 0..Len(gates')
  PROVE  DemoInv'
<1>1. DemoTypes'
  BY DEF DemoInv, DemoTypes
<1>2. SentInv'
  BY KeptTruth DEF DemoInv, SentInv
<1>3. \A s \in scopes' : Grounded(s)'
  BY KeptScopes
<1> QED
  BY <1>1, <1>2, <1>3 DEF DemoInv

(* What each operation of the console does to the gates and the scopes:     *)
(* only an acknowledgement that also uses the permit up adds a sheet.      *)
LEMMA ReviewStep ==
  ASSUME DemoInv, NEW task \in Tasks, NEW route \in Routes, Review(task, route)
  PROVE  DemoInv' /\ GatesKept
<1>1. UNCHANGED <<attempts, requests, scopes>> /\ DemoTypes
  BY DEF Review, DemoInv
<1>2. CASE /\ UNCHANGED gates
           /\ \E code \in {"terminal", "disclosure"} : session' = [session EXCEPT !.code = code]
  <2>1. session' \in Sessions /\ session'.gate = session.gate
    BY <1>1, <1>2 DEF DemoTypes, Sessions
  <2> QED
    BY <1>1, <1>2, <2>1, NoGate, KeptInv DEF DemoTypes
<1>3. CASE /\ gates' = Append(gates, NewGate(Disclosure(Len(gates) + 1, task, route)))
           /\ session' = [session EXCEPT !.task = task, !.gate = Len(gates) + 1, !.code = "none"]
  <2>1. gates' \in Seq(GateRecords) /\ Len(gates') = Len(gates) + 1 /\ GatesKept
    BY <1>1, <1>3, NewDisclosure DEF DemoTypes
  <2>2. Len(gates) + 1 \in Nat
    BY <1>1 DEF DemoTypes
  <2>3. session' \in Sessions /\ session'.gate = Len(gates')
    BY <1>1, <1>3, <2>1, <2>2 DEF DemoTypes, Sessions
  <2>4. session'.gate \in 0..Len(gates')
    BY <2>1, <2>2, <2>3
  <2> QED
    BY <1>1, <2>1, <2>3, <2>4, KeptInv
<1> QED
  BY <1>2, <1>3 DEF Review

LEMMA AcknowledgeEffect ==
  ASSUME DemoInv, NEW token, NEW fails \in BOOLEAN, ConsoleAcknowledge(token, fails)
  PROVE  LET g == session.gate IN
         \/ /\ session.cancelled \/ g = 0
            /\ session' = [session EXCEPT !.code = "required"] /\ UNCHANGED <<gates, scopes>>
         \/ /\ ~session.cancelled /\ g \in DOMAIN gates
            /\ \E n \in GateRecords :
                 /\ gates' = [gates EXCEPT ![g] = n]
                 /\ n.digest = gates[g].digest /\ n.disclosure = gates[g].disclosure
                 /\ n.state # "ready" /\ (gates[g].state # "ready" => n = gates[g])
                 /\ \/ /\ session' = [session EXCEPT !.code = "stopped"] /\ UNCHANGED scopes
                    \/ /\ session' = [session EXCEPT !.scope = LocalScope(n), !.code = "none"]
                       /\ scopes' = scopes \cup {[gate |-> g, by |-> "host",
                                                  sheet |-> LocalScope(n)]}
                       /\ gates[g].state = "ready" /\ n.state = "consumed"
                       /\ n.disclosure = n.digest
<1> DEFINE g == session.gate
           said == Acknowledged(gates[g], token)
           permit == PermitOf(g, said)
           used == Consumed(g, said, permit, said.disclosure)
<1>1. DemoTypes /\ g \in Nat
  BY DEF DemoInv, DemoTypes, Sessions
<1>2. CASE session.cancelled \/ g = 0
  BY <1>2 DEF ConsoleAcknowledge
<1>3. CASE ~(session.cancelled \/ g = 0)
  <2>1. g \in DOMAIN gates /\ gates[g] \in GateRecords
    BY <1>1, <1>3 DEF DemoTypes
  <2>2. /\ said \in GateRecords /\ said.digest = gates[g].digest
        /\ said.disclosure = gates[g].disclosure
        /\ gates[g].state # "ready" => said = gates[g]
        /\ gates[g].state = "ready" => said.state \in {"permitted", "cancelled"}
    BY <2>1, AcknowledgedFields
  <2>3. /\ used \in GateRecords /\ used.digest = gates[g].digest
        /\ used.disclosure = gates[g].disclosure
        /\ said.state # "permitted" => used = said
        /\ said.state = "permitted" /\ ~Uses(g, said, permit, said.disclosure) =>
              used.state = "cancelled"
        /\ Uses(g, said, permit, said.disclosure) =>
              used.state = "consumed" /\ said.disclosure = said.digest
    BY <2>2, ConsumedFields
  <2> DEFINE stops == \/ gates[g].state # "ready" \/ said.state # "permitted" \/ fails
                      \/ ~Uses(g, said, permit, said.disclosure)
  <2>4. CASE stops
    <3>1. PICK n \in {said, used} :
             /\ session' = [session EXCEPT !.code = "stopped"]
             /\ gates' = [gates EXCEPT ![g] = n] /\ UNCHANGED scopes
             /\ n = said \/ (n = used /\ gates[g].state = "ready")
      BY <1>3, <2>4 DEF ConsoleAcknowledge
    <3>2. /\ n \in GateRecords /\ n.digest = gates[g].digest /\ n.state # "ready"
          /\ n.disclosure = gates[g].disclosure
          /\ gates[g].state # "ready" => n = gates[g]
      <4> HIDE DEF said, used
      <4> QED
        BY <2>2, <2>3, <3>1
    <3> QED
      BY <1>3, <2>1, <3>1, <3>2
  <2>5. CASE ~stops
    <3>1. /\ gates' = [gates EXCEPT ![g] = used]
          /\ session' = [session EXCEPT !.scope = LocalScope(used), !.code = "none"]
          /\ scopes' = scopes \cup {[gate |-> g, by |-> "host", sheet |-> LocalScope(used)]}
      BY <1>3, <2>5 DEF ConsoleAcknowledge
    <3>2. gates[g].state = "ready" /\ used.state = "consumed" /\ used.disclosure = used.digest
      BY <2>2, <2>3, <2>5
    <3> HIDE DEF used
    <3> QED
      BY <1>3, <2>1, <2>3, <3>1, <3>2
  <2> QED
    BY <2>4, <2>5
<1> QED
  BY <1>2, <1>3

LEMMA AcknowledgeStep ==
  ASSUME DemoInv, NEW token, NEW fails \in BOOLEAN, ConsoleAcknowledge(token, fails)
  PROVE  DemoInv' /\ GatesKept
<1> DEFINE g == session.gate
<1>1. UNCHANGED <<attempts, requests>> /\ DemoTypes
  BY DEF ConsoleAcknowledge, DemoInv
<1>2. CASE session' = [session EXCEPT !.code = "required"] /\ UNCHANGED <<gates, scopes>>
  <2>1. session' \in Sessions /\ session'.gate = session.gate
    BY <1>1, <1>2 DEF DemoTypes, Sessions
  <2> QED
    BY <1>1, <1>2, <2>1, NoGate, KeptInv DEF DemoTypes
<1>3. ASSUME NEW n \in GateRecords, g \in DOMAIN gates, gates' = [gates EXCEPT ![g] = n],
             n.digest = gates[g].digest,
             gates[g].state # "ready" => n = gates[g],
             session' = [session EXCEPT !.code = "stopped"], UNCHANGED scopes
      PROVE  DemoInv' /\ GatesKept
  <2>1. gates' \in Seq(GateRecords) /\ Len(gates') = Len(gates) /\ GatesKept
    BY <1>1, <1>3, OneGate DEF DemoTypes
  <2>2. session' \in Sessions /\ session'.gate = session.gate
    BY <1>1, <1>3 DEF DemoTypes, Sessions
  <2> QED
    BY <1>1, <1>3, <2>1, <2>2, KeptInv DEF DemoTypes
<1>4. ASSUME NEW n \in GateRecords, g \in DOMAIN gates, gates' = [gates EXCEPT ![g] = n],
             n.digest = gates[g].digest, n.disclosure = n.digest,
             gates[g].state = "ready", n.state = "consumed",
             session' = [session EXCEPT !.scope = LocalScope(n), !.code = "none"],
             scopes' = scopes \cup {[gate |-> g, by |-> "host", sheet |-> LocalScope(n)]}
      PROVE  DemoInv' /\ GatesKept
  <2>1. /\ gates' \in Seq(GateRecords) /\ Len(gates') = Len(gates) /\ GatesKept
        /\ g \in DOMAIN gates' /\ gates'[g] = n
    BY <1>1, <1>4, OneGate DEF DemoTypes
  <2>2. session' \in Sessions /\ session'.gate = session.gate
    <3>1. LocalScope(n) \in HostSheets
      BY DEF HostSheets
    <3> QED
      BY <1>1, <1>4, <3>1 DEF DemoTypes, Sessions
  <2>3. DemoTypes'
    BY <1>1, <2>1, <2>2 DEF DemoTypes
  <2>4. SentInv'
    BY <1>1, <2>1, KeptTruth DEF DemoInv, SentInv
  <2>5. ASSUME NEW s, s = [gate |-> g, by |-> "host", sheet |-> LocalScope(n)]
        PROVE  Grounded(s)'
    <3>1. s.gate = g /\ s.by = "host" /\ s.sheet = LocalScope(n)
      BY <2>5
    <3>2. LocalScope(n) = Compile(LocalIntent(n.digest.task), ScenarioV1, ProfilesV1,
                                  n.digest.draft)
      BY <1>4 DEF LocalScope
    <3>3. /\ Compiled(s.sheet, LocalIntent(n.digest.task), n.digest.draft)
          /\ IntentValid(LocalIntent(n.digest.task))
          /\ LocalIntent(n.digest.task).task = n.digest.task
      BY <3>1, <3>2, LocalCompiles, LocalIntentFits, SheetFields DEF Compiled
    <3> QED
      BY <1>4, <2>1, <3>1, <3>3 DEF Grounded
  <2>6. \A s \in scopes' : Grounded(s)'
    BY <1>1, <1>4, <2>1, <2>5, KeptScopes
  <2> QED
    BY <2>1, <2>3, <2>4, <2>6 DEF DemoInv
<1> QED
  BY <1>2, <1>3, <1>4, AcknowledgeEffect

LEMMA DropStep ==
  ASSUME DemoInv, NEW cancelled \in BOOLEAN, Dropped(cancelled)
  PROVE  DemoInv' /\ GatesKept
<1>1. UNCHANGED <<attempts, requests, scopes>> /\ DemoTypes
  BY DEF Dropped, DemoInv
<1>2. session' \in Sessions /\ session'.gate = 0
  BY DEF Dropped, NoSession, Sessions, HostSheets
<1>3. CASE UNCHANGED gates
  BY <1>1, <1>2, <1>3, NoGate, KeptInv DEF DemoTypes
<1>4. CASE /\ session.gate # 0 /\ gates[session.gate].state = "ready"
           /\ gates' = [gates EXCEPT ![session.gate].state = "cancelled"]
  <2> DEFINE n == [gates[session.gate] EXCEPT !.state = "cancelled"]
  <2>1. session.gate \in DOMAIN gates /\ gates[session.gate] \in GateRecords
    <3>1. session.gate \in Nat /\ session.gate \in 0..Len(gates) /\ session.gate # 0
      BY <1>1, <1>4 DEF DemoTypes, Sessions
    <3> QED
      BY <1>1, <3>1 DEF DemoTypes
  <2>2. n \in GateRecords /\ n.digest = gates[session.gate].digest
        /\ gates' = [gates EXCEPT ![session.gate] = n]
    BY <1>4, <2>1 DEF GateRecords
  <2> HIDE DEF n
  <2>3. gates' \in Seq(GateRecords) /\ Len(gates') = Len(gates) /\ GatesKept
    BY <1>1, <1>4, <2>1, <2>2, OneGate DEF DemoTypes
  <2> QED
    BY <1>1, <1>2, <2>3, KeptInv DEF DemoTypes
<1> QED
  BY <1>3, <1>4 DEF Dropped

(* What each operation of the provider's way does: a request is sent only   *)
(* in the step that uses the permit up, and a sheet comes from an answer   *)
(* to it.                                                                  *)
LEMMA ClientStep ==
  ASSUME DemoInv, NEW g \in DOMAIN gates, NEW n \in GateRecords,
         n.digest = gates[g].digest, gates[g].state = "consumed" =>
            n.state = "consumed" /\ n.issued = gates[g].issued,
         gates' = [gates EXCEPT ![g] = n], UNCHANGED <<session, attempts, requests, scopes>>
  PROVE  DemoInv' /\ GatesKept
<1>1. gates' \in Seq(GateRecords) /\ Len(gates') = Len(gates) /\ GatesKept
  BY OneGate DEF DemoInv, DemoTypes
<1> QED
  BY <1>1, KeptInv DEF DemoInv, DemoTypes

LEMMA ClientGateStep ==
  ASSUME DemoInv, NEW task \in Tasks, NEW route \in Routes, ClientGate(task, route)
  PROVE  DemoInv' /\ GatesKept
<1>1. gates' \in Seq(GateRecords) /\ Len(gates') = Len(gates) + 1 /\ GatesKept
  BY NewDisclosure DEF ClientGate, DemoInv, DemoTypes
<1>2. session \in Sessions /\ session.gate \in 0..Len(gates) /\ Len(gates) \in Nat
  BY DEF DemoInv, DemoTypes
<1>3. session.gate \in 0..Len(gates')
  BY <1>1, <1>2
<1> QED
  BY <1>1, <1>2, <1>3, KeptInv DEF ClientGate

LEMMA FailedAttempt ==
  ASSUME DemoInv, GatesKept, gates' \in Seq(GateRecords), Len(gates') = Len(gates),
         NEW c \in Callers, attempts' = [attempts EXCEPT ![c].pc = "failed"],
         UNCHANGED <<session, requests, scopes>>
  PROVE  DemoInv'
<1>1. /\ attempts' \in [Callers -> [pc : {"idle", "sent", "failed", "done"}, gate : Nat,
                                    request : {Rejected} \cup RequestRecords]]
      /\ attempts'[c].pc = "failed" /\ \A b \in Callers : b # c => attempts'[b] = attempts[b]
  BY DEF DemoInv, DemoTypes
<1>2. DemoTypes'
  BY <1>1 DEF DemoInv, DemoTypes
<1>3. SentInv'
  BY <1>1, KeptTruth DEF DemoInv, SentInv
<1>4. \A s \in scopes' : Grounded(s)'
  BY KeptScopes
<1> QED
  BY <1>2, <1>3, <1>4 DEF DemoInv

LEMMA AttemptStep ==
  ASSUME DemoInv, NEW c \in Callers, NEW g \in DOMAIN gates, NEW from \in DOMAIN gates,
         NEW size, Attempt(c, g, from, size)
  PROVE  DemoInv' /\ GatesKept
<1> DEFINE permit == PermitOf(from, gates[from])
           current == gates[g].disclosure
           after == Consumed(g, gates[g], permit, current)
           request == RequestOf(current)
           used == Uses(g, gates[g], permit, current)
<1>1. DemoTypes /\ gates[g] \in GateRecords /\ g \in Nat /\ UNCHANGED <<session, scopes>>
  BY DEF DemoInv, DemoTypes, Attempt
<1>2. /\ after \in GateRecords /\ after.digest = gates[g].digest /\ after.issued = gates[g].issued
      /\ gates[g].state # "permitted" => after = gates[g]
      /\ used => /\ gates[g].state = "permitted" /\ after.state = "consumed" /\ gates[g].issued
                 /\ current = gates[g].digest
  BY <1>1, ConsumedFields
<1>3. CASE UNCHANGED <<gates, requests>> /\ attempts' = [attempts EXCEPT ![c].pc = "failed"]
  BY <1>1, <1>3, NoGate, FailedAttempt DEF DemoTypes
<1>4. CASE /\ gates' = [gates EXCEPT ![g] = after] /\ UNCHANGED requests
           /\ attempts' = [attempts EXCEPT ![c].pc = "failed"]
  <2> HIDE DEF after
  <2>1. gates' \in Seq(GateRecords) /\ Len(gates') = Len(gates) /\ GatesKept
    BY <1>1, <1>2, <1>4, OneGate DEF DemoTypes
  <2> QED
    BY <1>1, <1>4, <2>1, FailedAttempt
<1>5. CASE /\ used /\ gates' = [gates EXCEPT ![g] = after]
           /\ attempts' = [attempts EXCEPT ![c] = [pc |-> "sent", gate |-> g, request |-> request]]
           /\ requests' = Append(requests, [gate |-> g, request |-> request])
  <2>0. request \in RequestRecords /\ request = RequestOf(after.digest)
    BY <1>1, <1>2, <1>5 DEF RequestRecords, GateRecords
  <2> HIDE DEF after, request, used
  <2>1. /\ gates' \in Seq(GateRecords) /\ Len(gates') = Len(gates) /\ GatesKept
        /\ g \in DOMAIN gates' /\ gates'[g] = after
    BY <1>1, <1>2, <1>5, OneGate DEF DemoTypes
  <2> DEFINE sent == [gate |-> g, request |-> request]
             waits == [pc |-> "sent", gate |-> g, request |-> request]
  <2>2. sent \in [gate : Nat, request : RequestRecords] /\ sent.gate = g /\ sent.request = request
    BY <1>1, <2>0
  <2>3. /\ waits \in [pc : {"idle", "sent", "failed", "done"}, gate : Nat,
                      request : {Rejected} \cup RequestRecords]
        /\ waits.gate = g /\ waits.request = request
    BY <1>1, <2>0
  <2>4. requests' = Append(requests, sent) /\ attempts' = [attempts EXCEPT ![c] = waits]
    BY <1>5
  <2> HIDE DEF sent, waits
  <2>5. /\ requests' \in Seq([gate : Nat, request : RequestRecords])
        /\ DOMAIN requests' = DOMAIN requests \cup {Len(requests) + 1}
        /\ requests'[Len(requests) + 1] = sent
        /\ \A i \in DOMAIN requests : i \in DOMAIN requests' /\ requests'[i] = requests[i]
    BY <1>1, <2>2, <2>4 DEF DemoTypes
  <2>6. /\ attempts' \in [Callers -> [pc : {"idle", "sent", "failed", "done"}, gate : Nat,
                                      request : {Rejected} \cup RequestRecords]]
        /\ attempts'[c] = waits /\ \A b \in Callers : b # c => attempts'[b] = attempts[b]
    BY <1>1, <2>3, <2>4 DEF DemoTypes
  <2>7. DemoTypes'
    BY <1>1, <2>1, <2>5, <2>6 DEF DemoTypes
  <2>8. \A i \in DOMAIN requests : requests[i].gate # g
    BY <1>2, <1>5 DEF DemoInv, SentInv, used
  <2>9. SentInv'
    <3>1. \A i \in DOMAIN requests' :
            /\ requests'[i].gate \in DOMAIN gates'
            /\ gates'[requests'[i].gate].state = "consumed" /\ gates'[requests'[i].gate].issued
            /\ requests'[i].request = RequestOf(gates'[requests'[i].gate].digest)
      BY <1>2, <1>5, <2>0, <2>1, <2>2, <2>5, KeptTruth
    <3>2. \A i, j \in DOMAIN requests' : requests'[i].gate = requests'[j].gate => i = j
      BY <2>2, <2>5, <2>8 DEF DemoInv, SentInv
    <3>3. \A b \in Callers : attempts'[b].pc = "sent" =>
            \E i \in DOMAIN requests' : /\ requests'[i].gate = attempts'[b].gate
                                        /\ requests'[i].request = attempts'[b].request
      <4> SUFFICES ASSUME NEW b \in Callers, attempts'[b].pc = "sent"
                   PROVE  \E i \in DOMAIN requests' : /\ requests'[i].gate = attempts'[b].gate
                                                      /\ requests'[i].request = attempts'[b].request
        OBVIOUS
      <4>1. CASE b = c
        BY <2>2, <2>3, <2>5, <2>6, <4>1
      <4>2. CASE b # c
        <5>1. PICK i \in DOMAIN requests : /\ requests[i].gate = attempts[b].gate
                                           /\ requests[i].request = attempts[b].request
          BY <2>6, <4>2 DEF DemoInv, SentInv
        <5> QED
          BY <2>5, <2>6, <4>2, <5>1
      <4> QED
        BY <4>1, <4>2
    <3> QED
      BY <3>1, <3>2, <3>3 DEF SentInv
  <2>10. \A s \in scopes' : Grounded(s)'
    BY <1>1, <2>1, <2>5, KeptScopes
  <2> QED
    BY <2>1, <2>7, <2>9, <2>10 DEF DemoInv
<1> QED
  BY <1>3, <1>4, <1>5 DEF Attempt

LEMMA ReviewedIsValid ==
  ASSUME NEW candidate, NEW task, ReviewedIntent(candidate, task) # Rejected
  PROVE  IntentValid(ReviewedIntent(candidate, task)) /\ ReviewedIntent(candidate, task).task = task
<1>1. ReviewedIntent(candidate, task) = DecodeIntent(candidate, task)
  BY DEF ReviewedIntent
<1> DEFINE intent == [task |-> task, scenario |-> candidate.scenario, outcome |-> candidate.outcome,
               roles |-> ToSet(candidate.roles), outputs |-> ToSet(candidate.outputs),
               constraints |-> ToSet(candidate.constraints), risk |-> candidate.risk,
               budgets |-> candidate.budgets]
<1>2. DecodeIntent(candidate, task) = intent /\ IntentValid(intent)
  BY <1>1 DEF DecodeIntent
<1> QED
  BY <1>1, <1>2

LEMMA AnsweredStep ==
  ASSUME DemoInv, NEW c \in Callers, NEW response, NEW candidate,
         Answered(c, response, candidate)
  PROVE  DemoInv' /\ GatesKept
<1> DEFINE a == attempts[c]
           intent == ReviewedIntent(candidate, a.request.task)
           sheet == ProviderScope(intent, a.request.disclosure)
           new == [gate |-> a.gate, by |-> "provider", sheet |-> sheet]
<1>1. DemoTypes /\ UNCHANGED <<gates, session, requests>> /\ a.pc = "sent" /\ GatesKept
  BY NoGate DEF DemoInv, Answered
<1>2. CASE Fails(c)
  BY <1>1, <1>2, FailedAttempt DEF Fails, DemoTypes
<1>3. CASE /\ intent # Rejected /\ sheet # Rejected
           /\ attempts' = [attempts EXCEPT ![c].pc = "done"] /\ scopes' = scopes \cup {new}
  <2>1. PICK i \in DOMAIN requests : requests[i].gate = a.gate /\ requests[i].request = a.request
    BY <1>1 DEF DemoInv, SentInv
  <2>2. /\ a.gate \in DOMAIN gates /\ gates[a.gate].state = "consumed"
        /\ a.request = RequestOf(gates[a.gate].digest)
    BY <2>1 DEF DemoInv, SentInv
  <2>3. a.request.task = gates[a.gate].digest.task /\ a.request.disclosure = gates[a.gate].digest
    BY <2>2 DEF RequestOf
  <2>4. IntentValid(intent) /\ intent.task = gates[a.gate].digest.task
    BY <1>3, <2>3, ReviewedIsValid
  <2>5. Compiled(sheet, intent, gates[a.gate].digest.draft)
    BY <1>3, <2>3 DEF Compiled, ProviderScope
  <2> HIDE DEF intent, sheet
  <2>6. new.gate = a.gate /\ new.by = "provider" /\ new.sheet = sheet
    OBVIOUS
  <2> HIDE DEF new
  <2>7. ASSUME NEW s, s = new PROVE Grounded(s)'
    <3>1. Grounded(s)
      BY <2>1, <2>2, <2>4, <2>5, <2>6, <2>7 DEF Grounded
    <3> QED
      BY <1>1, <3>1 DEF Grounded
  <2>8. \A s \in scopes' : Grounded(s)'
    BY <1>1, <1>3, <2>7, KeptScopes
  <2>9. /\ attempts' \in [Callers -> [pc : {"idle", "sent", "failed", "done"}, gate : Nat,
                                      request : {Rejected} \cup RequestRecords]]
        /\ attempts'[c].pc = "done" /\ \A b \in Callers : b # c => attempts'[b] = attempts[b]
    BY <1>1, <1>3 DEF DemoTypes
  <2>10. DemoTypes'
    BY <1>1, <2>9 DEF DemoTypes
  <2>11. SentInv'
    <3>1. \A b \in Callers : attempts'[b].pc = "sent" => attempts'[b] = attempts[b]
      BY <2>9
    <3> QED
      BY <1>1, <3>1 DEF DemoInv, SentInv
  <2> QED
    BY <1>1, <2>8, <2>10, <2>11 DEF DemoInv
<1> QED
  BY <1>1, <1>2, <1>3 DEF Answered

LEMMA ProviderStep ==
  ASSUME DemoInv, ProviderNext
  PROVE  DemoInv' /\ GatesKept
<1>1. ASSUME NEW g \in DOMAIN gates, NEW token, ClientAnswers(g, token)
      PROVE  DemoInv' /\ GatesKept
  <2> DEFINE n == Acknowledged(gates[g], token)
  <2>1. gates[g] \in GateRecords
    BY DEF DemoInv, DemoTypes
  <2>2. n \in GateRecords /\ n.digest = gates[g].digest
        /\ (gates[g].state = "consumed" => n = gates[g])
    BY <2>1, AcknowledgedFields
  <2>3. gates' = [gates EXCEPT ![g] = n] /\ UNCHANGED <<session, attempts, requests, scopes>>
    BY <1>1 DEF ClientAnswers
  <2> HIDE DEF n
  <2> QED
    BY <2>2, <2>3, ClientStep
<1>2. ASSUME NEW g \in DOMAIN gates, ClientCancels(g) PROVE DemoInv' /\ GatesKept
  <2> DEFINE n == [gates[g] EXCEPT !.state = "cancelled"]
  <2>1. gates[g] \in GateRecords
    BY DEF DemoInv, DemoTypes
  <2>2. n \in GateRecords /\ n.digest = gates[g].digest /\ gates[g].state = "ready"
    BY <1>2, <2>1 DEF ClientCancels, GateRecords
  <2>3. gates' = [gates EXCEPT ![g] = n] /\ UNCHANGED <<session, attempts, requests, scopes>>
    BY <1>2 DEF ClientCancels
  <2> HIDE DEF n
  <2> QED
    BY <2>2, <2>3, ClientStep
<1>3. ASSUME NEW g \in DOMAIN gates, NEW t \in Tasks, Altered(g, t) PROVE DemoInv' /\ GatesKept
  <2> DEFINE d == [gates[g].disclosure EXCEPT !.task = t]
             n == [gates[g] EXCEPT !.disclosure = d]
  <2>1. gates[g] \in GateRecords
    BY DEF DemoInv, DemoTypes
  <2>2. d \in Disclosures
    BY <2>1 DEF GateRecords, Disclosures
  <2>3. gates' = [gates EXCEPT ![g] = n] /\ UNCHANGED <<session, attempts, requests, scopes>>
    BY <1>3 DEF Altered
  <2> HIDE DEF d
  <2>4. /\ n \in GateRecords /\ n.digest = gates[g].digest
        /\ n.state = gates[g].state /\ n.issued = gates[g].issued
    BY <2>1, <2>2 DEF GateRecords
  <2> HIDE DEF n
  <2> QED
    BY <2>3, <2>4, ClientStep
<1>4. ASSUME NEW g \in DOMAIN gates, NEW yes \in BOOLEAN, OpenPort(g, yes)
      PROVE  DemoInv' /\ GatesKept
  BY <1>4, NoGate, KeptInv DEF OpenPort, DemoInv, DemoTypes
<1>5. ASSUME NEW c \in Callers, Raised(c) PROVE DemoInv' /\ GatesKept
  BY <1>5, NoGate, FailedAttempt DEF Raised, Fails, DemoInv, DemoTypes
<1> QED
  BY <1>1, <1>2, <1>3, <1>4, <1>5, ClientGateStep, AttemptStep, AnsweredStep DEF ProviderNext

LEMMA DemoStep == DemoInv /\ (DemoMove \/ UNCHANGED demoVars) => DemoInv' /\ GatesKept
<1> SUFFICES ASSUME DemoInv, DemoMove \/ UNCHANGED demoVars PROVE DemoInv' /\ GatesKept
  OBVIOUS
<1>1. CASE UNCHANGED demoVars
  BY <1>1, NoGate, KeptInv DEF demoVars, DemoInv, DemoTypes
<1>2. CASE DemoMove
  BY <1>2, ReviewStep, AcknowledgeStep, DropStep, ProviderStep DEF DemoMove
<1> QED
  BY <1>1, <1>2

LEMMA DemoOfOperator == [OperatorNext]_allVars => DemoMove \/ UNCHANGED demoVars
<1>1. OperatorNext => WindowNext \/ ProviderNext \/ UNCHANGED demoVars
  BY RowsAside DEF OperatorNext, OfBoard, OfDesk, OfHalo, OfDemo, console
<1>2. UNCHANGED allVars => UNCHANGED demoVars
  BY DEF allVars, console
<1> QED
  BY <1>1, <1>2, WindowMoves DEF DemoMove

LEMMA SentAsRead == DemoInv => SentAsAcknowledged
<1> SUFFICES ASSUME DemoInv PROVE SentAsAcknowledged
  OBVIOUS
<1>1. \A d : RequestOf(d).disclosure = d /\ RequestOf(d).task = d.task
  BY DEF RequestOf
<1> QED
  BY <1>1 DEF DemoInv, SentInv, SentAsAcknowledged

LEMMA ScopeAsReviewed == DemoInv => ScopeInsideReview
<1> SUFFICES ASSUME DemoInv, NEW s \in scopes
             PROVE  LET sheet == s.sheet
                        intent == sheet.binding.intent
                    IN /\ AtMost(sheet.risk, ScenarioV1.risk)
                       /\ WithinBudgets(sheet.budgets, ScenarioV1.ceilings)
                       /\ ScenarioV1.forbidden \subseteq sheet.forbidden
                       /\ \A o \in sheet.outputs :
                            Cardinality({a \in sheet.applications : o \in a.outputs}) = 1
                       /\ UNION {a.outputs : a \in sheet.applications} = sheet.outputs
                       /\ sheet.draft = gates[s.gate].digest.draft
                       /\ LoadIntent(intent, gates[s.gate].digest.task, sheet.binding.intent)
                             = intent
                       /\ \A other \in scopes :
                            DecodeSheet(other.sheet, intent, ScenarioV1, ProfilesV1, sheet.draft,
                                        sheet.binding) => other.sheet = sheet
                       /\ s.by = "host" => LocalSnapshot(gates[s.gate], sheet)
                       /\ s.by = "provider" =>
                            /\ SchemaAllows(intent)
                            /\ \E i \in DOMAIN requests : requests[i].gate = s.gate
  BY DEF ScopeInsideReview
<1>1. Grounded(s)
  BY DEF DemoInv
<1> DEFINE sheet == s.sheet
           digest == gates[s.gate].digest
<1>2. PICK intent : /\ IntentValid(intent) /\ intent.task = digest.task
                    /\ Compiled(sheet, intent, digest.draft)
                    /\ s.by = "host" => intent = LocalIntent(digest.task)
  BY <1>1 DEF Grounded
<1>3. /\ IntentInScenario(intent, ScenarioV1)
      /\ AtMost(sheet.risk, ScenarioV1.risk)
      /\ WithinBudgets(sheet.budgets, ScenarioV1.ceilings)
      /\ ScenarioV1.forbidden \subseteq sheet.forbidden
      /\ \A o \in sheet.outputs :
            Cardinality({a \in sheet.applications : o \in a.outputs}) = 1
      /\ UNION {a.outputs : a \in sheet.applications} = sheet.outputs
      /\ sheet.draft = digest.draft /\ sheet.binding.intent = intent
      /\ sheet.budgets = intent.budgets
      /\ DecodeSheet(sheet, intent, ScenarioV1, ProfilesV1, digest.draft, sheet.binding)
  BY <1>2, SheetInside
<1> HIDE DEF sheet, digest
<1>4. LoadIntent(intent, digest.task, intent) = intent
  BY <1>2 DEF LoadIntent
<1>5. \A other \in scopes :
         DecodeSheet(other.sheet, intent, ScenarioV1, ProfilesV1, digest.draft, sheet.binding)
            => other.sheet = sheet
  BY <1>2 DEF DecodeSheet, Compiled
<1>6. s.by = "host" => LocalSnapshot(gates[s.gate], sheet)
  <2> SUFFICES ASSUME s.by = "host" PROVE LocalSnapshot(gates[s.gate], sheet)
    OBVIOUS
  <2>1. intent = LocalIntent(digest.task)
    BY <1>2
  <2>2. intent.budgets.provider_calls = 0 /\ intent.budgets.retries = 0
    BY <2>1 DEF LocalIntent, Budgets
  <2>3. gates[s.gate].state = "consumed"
    BY <1>1 DEF Grounded
  <2> QED
    BY <1>3, <2>1, <2>2, <2>3 DEF LocalSnapshot, LocalValid, digest
<1>7. SchemaAllows(intent)
  <2>1. ScenarioV1.required_roles = ScenarioV1.allowed_roles
    BY DEF ScenarioV1
  <2>2. intent.roles = ScenarioV1.required_roles
    BY <1>3, <2>1 DEF IntentInScenario
  <2>3. Cardinality(ScenarioV1.required_roles) \in Int
    BY ScenarioIsValid DEF ScenarioPinned, ScenarioValid, SetValid, MaxItems
  <2>4. Cardinality(intent.roles) >= Cardinality(ScenarioV1.required_roles)
    BY <2>2, <2>3
  <2> QED
    BY <1>3, <2>1, <2>2, <2>4 DEF SchemaAllows, IntentInScenario
<1>8. s.by = "provider" => \E i \in DOMAIN requests : requests[i].gate = s.gate
  BY <1>1 DEF Grounded
<1> QED
  BY <1>3, <1>4, <1>5, <1>6, <1>7, <1>8 DEF sheet, digest

(* Whatever is sent or handed on was reviewed: for any tasks, routes,      *)
(* answers of the provider, number of gates and callers, the task leaves    *)
(* the machine at most once and as it was acknowledged, and no scope sheet *)
(* is wider than the reviewed scenario.                                    *)
THEOREM OnlyReviewedIsSent == OperatorSpec => []ReviewBinds
<1>1. OperatorInit => DemoInv
  BY DemoBegins DEF OperatorInit
<1>2. DemoInv /\ [OperatorNext]_allVars => DemoInv'
  BY DemoOfOperator, DemoStep
<1>3. DemoInv => ReviewBinds
  BY SentAsRead, ScopeAsReviewed DEF ReviewBinds
<1> QED
  BY <1>1, <1>2, <1>3, PTL DEF OperatorSpec

-----------------------------------------------------------------------------
(* The console over the session (ConsoleWindow).                           *)
Panels == [task : Tasks \cup {""}, draft : BOOLEAN, ack : BOOLEAN, reset : BOOLEAN,
           detail : HostSheets \cup Disclosures]

(* The text that was reviewed is the text that is there: nothing in the     *)
(* console changes a disclosure once it is compiled.                       *)
Unaltered == \A g \in DOMAIN gates : gates[g].disclosure = gates[g].digest

(* A panel never offers to acknowledge and to edit at once, which is why a  *)
(* change that stops half way cannot leave COMPILE beside another text;     *)
(* only the console's own steps reach the session it shows.                *)
WindowInv ==
    /\ panel \in Panels /\ (panel.ack => ~panel.draft)
    /\ pump # "before" => part = "window"
    /\ part = "window" => Unaltered
    /\ pump = "quitting" => native = "gone"
    /\ Running =>
          /\ panel.ack /\ Stage(session, gates) = "disclosure_ready" =>
                panel.detail = gates[session.gate].digest
          /\ ~faulted => held /\ panel = Projected(session, gates)
    /\ LeavesNothing

LEMMA StageFields ==
  ASSUME NEW s \in Sessions, NEW gs \in Seq(GateRecords), s.gate \in 0..Len(gs)
  PROVE  /\ Stage(s, gs) = "disclosure_ready" =>
              /\ ~s.cancelled /\ s.gate \in DOMAIN gs /\ s.gate # 0
              /\ s.scope = Rejected /\ gs[s.gate].state = "ready"
         /\ Projected(s, gs) \in Panels
         /\ Projected(s, gs).ack <=> Stage(s, gs) = "disclosure_ready"
         /\ Projected(s, gs).draft => ~Projected(s, gs).ack
         /\ Stage(s, gs) = "disclosure_ready" =>
              Projected(s, gs).detail = gs[s.gate].disclosure
<1>1. s.gate \in Nat /\ s.cancelled \in BOOLEAN /\ (s.gate # 0 => s.gate \in DOMAIN gs)
  <2>1. s.gate \in Nat /\ s.cancelled \in BOOLEAN
    BY DEF Sessions
  <2> QED
    BY <2>1
<1>2. Stage(s, gs) = "disclosure_ready" =>
        /\ ~s.cancelled /\ s.gate # 0 /\ s.scope = Rejected /\ gs[s.gate].state = "ready"
  <2>1. CASE s.cancelled
    BY <2>1 DEF Stage
  <2>2. CASE ~s.cancelled /\ s.gate = 0
    BY <2>2 DEF Stage
  <2>3. CASE ~s.cancelled /\ s.gate # 0 /\ s.scope # Rejected
    BY <2>3 DEF Stage
  <2>4. CASE ~s.cancelled /\ s.gate # 0 /\ s.scope = Rejected
    BY <1>1, <2>4 DEF Stage, GateRecords
  <2> QED
    BY <1>1, <2>1, <2>2, <2>3, <2>4
<1> DEFINE detail == IF s.scope # Rejected THEN s.scope
                     ELSE IF s.gate # 0 THEN gs[s.gate].disclosure ELSE Rejected
           draft == Stage(s, gs) = "draft"
           ack == Stage(s, gs) = "disclosure_ready"
           reset == Stage(s, gs) # "cancelled"
<1>3. detail \in HostSheets \cup Disclosures
  <2>1. Rejected \in HostSheets /\ s.scope \in HostSheets
    BY DEF Sessions, HostSheets
  <2>2. s.gate # 0 => gs[s.gate].disclosure \in Disclosures
    <3>1. s.gate # 0 => gs[s.gate] \in GateRecords
      BY <1>1
    <3> QED
      BY <3>1 DEF GateRecords
  <2> QED
    BY <2>1, <2>2
<1>4. Projected(s, gs) = [task |-> s.task, detail |-> detail, draft |-> draft, ack |-> ack,
                          reset |-> reset]
  BY DEF Projected
<1>5. (draft => ~ack) /\ s.task \in Tasks \cup {""}
  BY DEF Sessions
<1>6. draft \in BOOLEAN /\ ack \in BOOLEAN /\ reset \in BOOLEAN
  OBVIOUS
<1>7. ack => detail = gs[s.gate].disclosure
  BY <1>2
<1> HIDE DEF detail, draft, ack, reset
<1>8. ASSUME NEW a \in BOOLEAN, NEW d \in BOOLEAN, NEW r \in BOOLEAN,
             a = ack, d = draft, r = reset
      PROVE  /\ Projected(s, gs) \in Panels /\ Projected(s, gs).ack = ack
             /\ Projected(s, gs).draft = draft /\ Projected(s, gs).detail = detail
  <2>1. Projected(s, gs) = [task |-> s.task, detail |-> detail, draft |-> d, ack |-> a,
                            reset |-> r]
    BY <1>4, <1>8, Zenon
  <2>2. s.task \in Tasks \cup {""}
    BY <1>5
  <2>3. /\ Projected(s, gs) \in Panels /\ Projected(s, gs).ack = a
        /\ Projected(s, gs).draft = d /\ Projected(s, gs).detail = detail
    <3>1. PICK p : p = Projected(s, gs)
      OBVIOUS
    <3>2. p = [task |-> s.task, detail |-> detail, draft |-> d, ack |-> a, reset |-> r]
      BY <2>1, <3>1, Zenon
    <3>3. p \in Panels
      BY <1>3, <1>8, <2>2, <3>2 DEF Panels
    <3>4. p.ack = a /\ p.draft = d /\ p.detail = detail
      BY <3>2, Zenon
    <3> QED
      BY <3>1, <3>3, <3>4, Zenon
  <2> QED
    BY <1>8, <2>3, Zenon
<1>9. /\ Projected(s, gs) \in Panels /\ Projected(s, gs).ack = ack
      /\ Projected(s, gs).draft = draft /\ Projected(s, gs).detail = detail
  BY <1>6, <1>8, Zenon
<1> QED
  BY <1>1, <1>2, <1>5, <1>7, <1>9, Zenon DEF ack

LEMMA AppliedFields ==
  ASSUME NEW old \in Panels, NEW view \in Panels, NEW done \in Steps
  PROVE  /\ Applied(old, view, done) \in Panels
         /\ done = 3 => Applied(old, view, done) = view
         /\ done # 3 => /\ Applied(old, view, done).ack = old.ack
                        /\ Applied(old, view, done).draft = old.draft
<1> DEFINE new == Applied(old, view, done)
<1>1. /\ new \in Panels
      /\ new.task = IF done >= 1 THEN view.task ELSE old.task
      /\ new.detail = IF done >= 2 THEN view.detail ELSE old.detail
      /\ new.draft = IF done >= 3 THEN view.draft ELSE old.draft
      /\ new.ack = IF done >= 3 THEN view.ack ELSE old.ack
      /\ new.reset = IF done >= 3 THEN view.reset ELSE old.reset
  BY DEF Applied, Panels
<1> HIDE DEF new
<1>2. done \in {0, 1, 2, 3}
  BY DEF Steps
<1>3. CASE done = 3
  <2>1. /\ new.task = view.task /\ new.detail = view.detail /\ new.draft = view.draft
        /\ new.ack = view.ack /\ new.reset = view.reset
    BY <1>1, <1>3
  <2>2. /\ new = [task |-> new.task, draft |-> new.draft, ack |-> new.ack, reset |-> new.reset,
                  detail |-> new.detail]
        /\ view = [task |-> view.task, draft |-> view.draft, ack |-> view.ack,
                   reset |-> view.reset, detail |-> view.detail]
    BY <1>1 DEF Panels
  <2> QED
    BY <1>1, <1>3, <2>1, <2>2 DEF new
<1>4. CASE done \in {0, 1, 2}
  BY <1>1, <1>4 DEF new
<1> QED
  BY <1>2, <1>3, <1>4

LEMMA WindowBegins == OperatorInit => WindowInv
<1> SUFFICES ASSUME OperatorInit PROVE WindowInv
  OBVIOUS
<1>1. panel = Nothing /\ pump = "before" /\ gates = <<>>
  BY DEF OperatorInit, WindowInit, DemoInit
<1>2. Nothing \in Panels /\ Nothing.ack = FALSE
  BY DEF Nothing, Panels, HostSheets
<1> QED
  BY <1>1, <1>2 DEF WindowInv, Running, LeavesNothing, Unaltered

LEMMA WindowGates ==
  ASSUME DemoInv, Unaltered,
         \/ UNCHANGED demoVars
         \/ \E t \in Tasks, r \in Routes : Review(t, r)
         \/ \E token \in {"COMPILE", "other"}, fails \in BOOLEAN : ConsoleAcknowledge(token, fails)
         \/ \E cancelled \in BOOLEAN : Dropped(cancelled)
  PROVE  Unaltered'
<1>1. DemoTypes
  BY DEF DemoInv
<1>2. CASE UNCHANGED gates
  BY <1>2 DEF Unaltered
<1>3. ASSUME NEW t \in Tasks, NEW r \in Routes, Review(t, r), ~UNCHANGED gates
      PROVE  Unaltered'
  <2>1. gates' = Append(gates, NewGate(Disclosure(Len(gates) + 1, t, r)))
    BY <1>3 DEF Review
  <2>2. /\ gates' \in Seq(GateRecords) /\ Len(gates') = Len(gates) + 1
        /\ gates'[Len(gates) + 1] = NewGate(Disclosure(Len(gates) + 1, t, r))
        /\ \A h \in DOMAIN gates : gates'[h] = gates[h]
    BY <1>1, <2>1, NewDisclosure DEF DemoTypes
  <2>3. gates'[Len(gates) + 1].disclosure = gates'[Len(gates) + 1].digest
    BY <2>2 DEF NewGate
  <2>4. \A h \in DOMAIN gates' : h \in DOMAIN gates \/ h = Len(gates) + 1
    BY <1>1, <2>2 DEF DemoTypes
  <2> QED
    BY <2>2, <2>3, <2>4 DEF Unaltered
<1>4. ASSUME NEW g \in DOMAIN gates, NEW n \in GateRecords, gates' = [gates EXCEPT ![g] = n],
             n.disclosure = n.digest
      PROVE  Unaltered'
  BY <1>1, <1>4 DEF Unaltered, DemoTypes
<1>5. ASSUME NEW token \in {"COMPILE", "other"}, NEW fails \in BOOLEAN,
             ConsoleAcknowledge(token, fails)
      PROVE  Unaltered'
  <2>1. CASE UNCHANGED gates
    BY <1>2, <2>1
  <2>2. CASE ~UNCHANGED gates
    <3>1. /\ session.gate \in DOMAIN gates
          /\ \E n \in GateRecords :
               /\ gates' = [gates EXCEPT ![session.gate] = n]
               /\ n.digest = gates[session.gate].digest
               /\ n.disclosure = gates[session.gate].disclosure
      BY <1>5, <2>2, AcknowledgeEffect
    <3> QED
      BY <1>4, <3>1 DEF Unaltered
  <2> QED
    BY <2>1, <2>2
<1>6. ASSUME NEW cancelled \in BOOLEAN, Dropped(cancelled), ~UNCHANGED gates
      PROVE  Unaltered'
  <2> DEFINE g == session.gate
             n == [gates[g] EXCEPT !.state = "cancelled"]
  <2>1. g # 0 /\ gates' = [gates EXCEPT ![g] = n]
    BY <1>6 DEF Dropped
  <2>2. g \in DOMAIN gates
    <3>1. g \in Nat /\ g \in 0..Len(gates) /\ gates \in Seq(GateRecords)
      BY <1>1 DEF DemoTypes, Sessions
    <3> QED
      BY <2>1, <3>1
  <2>3. gates[g] \in GateRecords
    BY <1>1, <2>2 DEF DemoTypes
  <2>4. n \in GateRecords /\ n.disclosure = gates[g].disclosure /\ n.digest = gates[g].digest
    BY <2>3 DEF GateRecords
  <2> HIDE DEF n
  <2> QED
    BY <1>4, <2>1, <2>2, <2>4 DEF Unaltered
<1> QED
  BY <1>2, <1>3, <1>5, <1>6 DEF demoVars

(* The session's answer to an acknowledgement, and to a reset, is never a   *)
(* disclosure that waits for COMPILE.                                      *)
LEMMA AcknowledgeLeaves ==
  ASSUME DemoInv, NEW token, NEW fails \in BOOLEAN, ConsoleAcknowledge(token, fails)
  PROVE  Stage(session', gates') # "disclosure_ready"
<1> DEFINE g == session.gate
<1>1. DemoTypes /\ DemoTypes'
  BY AcknowledgeStep DEF DemoInv
<1>2. /\ Stage(session', gates') = "disclosure_ready" =>
           /\ ~session'.cancelled /\ session'.gate \in DOMAIN gates' /\ session'.gate # 0
           /\ gates'[session'.gate].state = "ready"
  BY <1>1, StageFields DEF DemoTypes
<1>3. CASE /\ session.cancelled \/ g = 0
          /\ session' = [session EXCEPT !.code = "required"]
  <2>1. session'.cancelled = session.cancelled /\ session'.gate = g
    BY <1>1, <1>3 DEF DemoTypes, Sessions
  <2> QED
    BY <1>2, <1>3, <2>1
<1>4. ASSUME NEW n \in GateRecords, g \in DOMAIN gates, gates' = [gates EXCEPT ![g] = n],
             n.state # "ready",
             \/ session' = [session EXCEPT !.code = "stopped"]
             \/ session' = [session EXCEPT !.scope = LocalScope(n), !.code = "none"]
      PROVE  Stage(session', gates') # "disclosure_ready"
  <2>1. session'.gate = g
    BY <1>1, <1>4 DEF DemoTypes, Sessions
  <2>2. gates'[g] = n
    BY <1>1, <1>4 DEF DemoTypes
  <2> QED
    BY <1>2, <1>4, <2>1, <2>2
<1> QED
  BY <1>3, <1>4, AcknowledgeEffect

LEMMA DropLeaves ==
  ASSUME NEW cancelled \in BOOLEAN, Dropped(cancelled)
  PROVE  /\ session' = [NoSession EXCEPT !.cancelled = cancelled]
         /\ session'.gate = 0 /\ session'.cancelled = cancelled
         /\ Stage(session', gates') = IF cancelled THEN "cancelled" ELSE "draft"
<1>1. session' = [NoSession EXCEPT !.cancelled = cancelled]
  BY DEF Dropped
<1>2. session'.gate = 0 /\ session'.cancelled = cancelled
  BY <1>1 DEF NoSession
<1> QED
  BY <1>1, <1>2 DEF Stage

(* A change of what the window shows that may stop half way: it leaves the  *)
(* enabled controls as they were, so it must be that they allow no COMPILE  *)
(* to what is now reviewed.                                                *)
LEMMA ShowsStep ==
  ASSUME WindowInv, DemoInv', Unaltered', UNCHANGED part, Running, held,
         NEW done \in Steps, NEW ok \in BOOLEAN, Shows(done, ok),
         panel.ack => Stage(session', gates') # "disclosure_ready"
  PROVE  WindowInv'
<1> DEFINE view == Projected(session', gates')
           ready == Stage(session', gates') = "disclosure_ready"
<1>1. panel \in Panels /\ pump = "running" /\ native = "alive" /\ part = "window"
  BY DEF WindowInv, Running
<1>2. /\ session' \in Sessions /\ gates' \in Seq(GateRecords)
      /\ session'.gate \in 0..Len(gates')
  BY DEF DemoInv, DemoTypes
<1>3. /\ view \in Panels /\ (view.ack <=> ready) /\ (view.draft => ~view.ack)
      /\ ready => session'.gate \in DOMAIN gates' /\ view.detail = gates'[session'.gate].disclosure
  BY <1>2, StageFields
<1>4. ready => view.detail = gates'[session'.gate].digest
  BY <1>3 DEF Unaltered
<1> HIDE DEF view, ready
<1>5. panel' = Applied(panel, view, done) /\ held' = held
  BY DEF Shows, view
<1>6. CASE done = 3
  <2>1. panel' = view /\ UNCHANGED <<native, pump, faulted>>
    BY <1>1, <1>3, <1>5, <1>6, AppliedFields DEF Shows
  <2> QED
    BY <1>1, <1>3, <1>4, <2>1, <1>5 DEF WindowInv, Running, LeavesNothing, view, ready
<1>7. CASE done # 3
  <2>1. panel' \in Panels /\ panel'.ack = panel.ack /\ panel'.draft = panel.draft
    BY <1>1, <1>3, <1>5, <1>7, AppliedFields
  <2>2. faulted' = TRUE /\ Destroyed(ok)
    BY <1>7 DEF Shows
  <2>3. \/ native' = "gone" /\ pump' = "quitting"
        \/ UNCHANGED <<native, pump>>
    BY <1>1, <2>2 DEF Destroyed
  <2>4. panel'.ack => ~ready
    BY <2>1 DEF ready
  <2> QED
    BY <1>1, <2>1, <2>2, <2>3, <2>4 DEF WindowInv, Running, LeavesNothing, ready
<1> QED
  BY <1>6, <1>7

LEMMA OpenStep ==
  ASSUME WindowInv, DemoInv, Unaltered, Unaltered', part = "window", UNCHANGED part,
         NEW created \in BOOLEAN, NEW done \in Steps, NEW ok \in BOOLEAN, Open(created, done, ok)
  PROVE  WindowInv'
<1>1. panel \in Panels /\ (panel.ack => ~panel.draft) /\ pump = "before"
  BY DEF WindowInv, Open
<1>2. CASE created /\ done = 3
  <2> DEFINE view == Projected(session, gates)
             ready == Stage(session, gates) = "disclosure_ready"
  <2>1. /\ session \in Sessions /\ gates \in Seq(GateRecords)
        /\ session.gate \in 0..Len(gates)
    BY DEF DemoInv, DemoTypes
  <2>2. /\ view \in Panels /\ (view.ack <=> ready) /\ (view.draft => ~view.ack)
        /\ ready => session.gate \in DOMAIN gates /\ view.detail = gates[session.gate].disclosure
    BY <2>1, StageFields
  <2>3. Nothing \in Panels
    BY DEF Nothing, Panels, HostSheets
  <2> HIDE DEF view, ready
  <2>4. /\ panel' = Applied(Nothing, view, done) /\ native' = "alive" /\ held' = TRUE
        /\ pump' = "running" /\ UNCHANGED <<session, gates, faulted>>
    BY <1>2 DEF Open, demoVars, view
  <2>5. panel' = view
    BY <1>2, <2>2, <2>3, <2>4, AppliedFields
  <2>6. ready => view.detail = gates[session.gate].digest
    BY <2>2 DEF Unaltered
  <2>7. Projected(session, gates)' = view /\ (Stage(session, gates)' = "disclosure_ready" <=> ready)
    BY <2>4 DEF view, ready
  <2> QED
    BY <2>2, <2>4, <2>5, <2>6, <2>7 DEF WindowInv, Running, LeavesNothing
<1>3. CASE ~(created /\ done = 3)
  <2>1. CancelSession /\ pump' = "raised" /\ UNCHANGED panel
    BY <1>3 DEF Open
  <2>2. session' = [NoSession EXCEPT !.cancelled = TRUE]
    BY <2>1, DropLeaves DEF CancelSession
  <2> QED
    BY <1>1, <2>1, <2>2 DEF WindowInv, Running, LeavesNothing
<1> QED
  BY <1>2, <1>3

LEMMA InertStep == ASSUME WindowInv, Inert, UNCHANGED part PROVE WindowInv'
BY DEF WindowInv, Inert, demoVars, windowVars, Running, LeavesNothing, Unaltered

LEMMA PressStep ==
  ASSUME WindowInv, DemoInv, DemoInv', Unaltered', UNCHANGED part,
         NEW done \in Steps, NEW ok \in BOOLEAN,
         \/ \E t \in Tasks, r \in Routes : PressReview(t, r, done, ok)
         \/ \E token \in {"COMPILE", "other"}, fails \in BOOLEAN :
               PressAcknowledge(token, fails, done, ok)
         \/ PressReset(done, ok)
  PROVE  WindowInv'
<1>1. CASE Inert
  BY <1>1, InertStep
<1>2. CASE ~Inert
  <2>1. Running /\ held /\ Shows(done, ok)
    BY <1>2 DEF PressReview, PressAcknowledge, PressReset
  <2>2. CASE panel.draft
    <3>1. ~panel.ack
      BY <2>2 DEF WindowInv
    <3> QED
      BY <2>1, <3>1, ShowsStep
  <2>3. CASE \E token \in {"COMPILE", "other"}, fails \in BOOLEAN : ConsoleAcknowledge(token, fails)
    <3>1. Stage(session', gates') # "disclosure_ready"
      BY <2>3, AcknowledgeLeaves
    <3> QED
      BY <2>1, <3>1, ShowsStep
  <2>4. CASE Reset
    <3>1. Stage(session', gates') # "disclosure_ready"
      BY <2>4, DropLeaves DEF Reset
    <3> QED
      BY <2>1, <3>1, ShowsStep
  <2> QED
    BY <1>2, <2>2, <2>3, <2>4 DEF PressReview, PressAcknowledge, PressReset
<1> QED
  BY <1>1, <1>2

LEMMA ReadStep ==
  ASSUME WindowInv, UNCHANGED part, NEW ok \in BOOLEAN, ReadFails(ok)
  PROVE  WindowInv'
<1>1. /\ part = "window" /\ faulted' = TRUE
      /\ pump = "running" /\ native = "alive" /\ UNCHANGED <<gates, session, held, panel>>
  BY DEF WindowInv, ReadFails, Running, demoVars
<1>2. (native' = "gone" /\ pump' = "quitting") \/ UNCHANGED <<native, pump>>
  BY <1>1 DEF ReadFails, Destroyed
<1> QED
  BY <1>1, <1>2 DEF WindowInv, Running, LeavesNothing, Unaltered

LEMMA CloseStep ==
  ASSUME WindowInv, Unaltered', UNCHANGED part,
         NEW escape \in BOOLEAN, NEW ok \in BOOLEAN, NEW again \in BOOLEAN,
         PressClose(escape, ok, again)
  PROVE  WindowInv'
<1>1. /\ panel \in Panels /\ (panel.ack => ~panel.draft) /\ part = "window"
      /\ pump = "running" /\ native = "alive" /\ (~faulted => held)
  BY DEF WindowInv, PressClose, Running
<1>2. /\ session' = [NoSession EXCEPT !.cancelled = TRUE]
      /\ Stage(session', gates') = "cancelled"
  BY DropLeaves DEF PressClose, CancelSession
<1>3. /\ UNCHANGED panel /\ held' = FALSE
      /\ \/ ~held /\ UNCHANGED <<native, pump, faulted>>
         \/ Destroyed(TRUE) /\ UNCHANGED faulted
         \/ pump' = "raised" /\ UNCHANGED <<native, faulted>>
         \/ faulted' = TRUE /\ Destroyed(again)
  BY DEF PressClose
<1>4. CASE ~held /\ UNCHANGED <<native, pump, faulted>>
  BY <1>1, <1>2, <1>3, <1>4 DEF WindowInv, Running, LeavesNothing
<1>5. CASE Destroyed(TRUE)
  <2>1. native' = "gone" /\ pump' = "quitting"
    BY <1>1, <1>5 DEF Destroyed
  <2> QED
    BY <1>1, <1>2, <1>3, <2>1 DEF WindowInv, Running, LeavesNothing
<1>6. CASE pump' = "raised" /\ UNCHANGED <<native, faulted>>
  BY <1>1, <1>2, <1>3, <1>6 DEF WindowInv, Running, LeavesNothing
<1>7. CASE faulted' = TRUE /\ Destroyed(again)
  <2>1. \/ native' = "gone" /\ pump' = "quitting"
        \/ UNCHANGED <<native, pump>>
    BY <1>1, <1>7 DEF Destroyed
  <2> QED
    BY <1>1, <1>2, <1>3, <1>7, <2>1 DEF WindowInv, Running, LeavesNothing
<1> QED
  BY <1>3, <1>4, <1>5, <1>6, <1>7

LEMMA EndStep ==
  ASSUME WindowInv, Unaltered', UNCHANGED part, Quit \/ \E ok \in BOOLEAN : Dispose(ok)
  PROVE  WindowInv'
<1>1. CASE Quit
  <2>1. session' = [NoSession EXCEPT !.cancelled = TRUE]
    BY <1>1, DropLeaves DEF Quit, CancelSession
  <2>2. /\ pump = "quitting" /\ pump' = (IF faulted THEN "raised" ELSE "returned")
        /\ UNCHANGED <<native, panel, faulted>>
    BY <1>1 DEF Quit
  <2> QED
    BY <2>1, <2>2 DEF WindowInv, Running, LeavesNothing
<1>2. ASSUME NEW ok \in BOOLEAN, Dispose(ok) PROVE WindowInv'
  <2>1. /\ pump \in {"returned", "raised"} /\ native = "alive" /\ pump' = pump
        /\ UNCHANGED <<session, gates, held, panel, faulted>>
    BY <1>2 DEF Dispose, Destroyed, demoVars
  <2> QED
    BY <2>1 DEF WindowInv, Running, LeavesNothing
<1> QED
  BY <1>1, <1>2

LEMMA WindowStep ==
  ASSUME DemoInv, WindowInv, DemoInv', [OperatorNext]_allVars PROVE WindowInv'
<1>1. CASE UNCHANGED <<part, console>>
  BY <1>1 DEF WindowInv, console, demoVars, windowVars, Running, LeavesNothing, Unaltered
<1>2. CASE part = "provider" /\ UNCHANGED part /\ UNCHANGED windowVars
  BY <1>2 DEF WindowInv, windowVars, Running, LeavesNothing
<1>3. CASE part = "window" /\ UNCHANGED part /\ WindowNext
  <2>1. Unaltered
    BY <1>3 DEF WindowInv
  <2>2. Unaltered'
    <3>1. \/ UNCHANGED demoVars
          \/ \E t \in Tasks, r \in Routes : Review(t, r)
          \/ \E token \in {"COMPILE", "other"}, fails \in BOOLEAN :
                ConsoleAcknowledge(token, fails)
          \/ \E cancelled \in BOOLEAN : Dropped(cancelled)
      BY <1>3 DEF WindowNext, Open, PressReview, PressAcknowledge, PressReset, PressClose, Quit,
                  Dispose, ReadFails, Inert, Reset, CancelSession
    <3> QED
      BY <2>1, <3>1, WindowGates
  <2>3. CASE \E created, ok \in BOOLEAN, done \in Steps : Open(created, done, ok)
    BY <1>3, <2>1, <2>2, <2>3, OpenStep
  <2>4. CASE \E done \in Steps, ok \in BOOLEAN :
               \/ \E t \in Tasks, r \in Routes : PressReview(t, r, done, ok)
               \/ \E token \in {"COMPILE", "other"}, fails \in BOOLEAN :
                     PressAcknowledge(token, fails, done, ok)
               \/ PressReset(done, ok)
    BY <1>3, <2>2, <2>4, PressStep
  <2>5. CASE \E escape, ok, again \in BOOLEAN : PressClose(escape, ok, again)
    BY <1>3, <2>2, <2>5, CloseStep
  <2>6. CASE Quit \/ \E ok \in BOOLEAN : Dispose(ok)
    BY <1>3, <2>2, <2>6, EndStep
  <2>7. CASE \E ok \in BOOLEAN : ReadFails(ok)
    BY <1>3, <2>7, ReadStep
  <2> QED
    BY <1>3, <2>3, <2>4, <2>5, <2>6, <2>7 DEF WindowNext
<1> QED
  BY <1>1, <1>2, <1>3, RowsAside DEF OperatorNext, OfBoard, OfDesk, OfHalo, OfDemo, allVars

(* The console asks only for what it shows and keeps nothing: for any       *)
(* number of reviews, and whichever of its Win32 calls fail, COMPILE can be *)
(* said only to the disclosure on the screen, a window with no fault shows  *)
(* all of the session, and when the loop has ended no text is left.        *)
THEOREM ConsoleIsHonest == OperatorSpec => []ConsoleHonest
<1>1. OperatorInit => DemoInv /\ WindowInv
  BY DemoBegins, WindowBegins DEF OperatorInit
<1>2. DemoInv /\ WindowInv /\ [OperatorNext]_allVars => (DemoInv /\ WindowInv)'
  BY DemoOfOperator, DemoStep, WindowStep
<1>3. DemoInv /\ WindowInv => ConsoleHonest
  BY DEF WindowInv, ConsoleHonest, ShowsWhatItAsks
<1> QED
  BY <1>1, <1>2, <1>3, PTL DEF OperatorSpec

-----------------------------------------------------------------------------
(* The gates keep the promise of a one-shot permit (OneShotPermit).         *)
Sent(g) == {i \in DOMAIN requests : requests[i].gate = g}
Handed(g) == {s \in scopes : s.gate = g /\ s.by = "host"}
UseKept(g) == Sent(g)' = Sent(g) /\ Handed(g)' = Handed(g)
(* What may become of one gate while nothing is done with it.              *)
Unused(old, new) ==
    \/ old = new
    \/ old = "none" /\ new = "ready"
    \/ old = "ready" /\ new \in {"permitted", "cancelled", "consumed"}
    \/ old = "permitted" /\ new \in {"cancelled", "consumed"}

LEMMA NotYetUsed ==
  ASSUME DemoInv, NEW g, GateState(g) # "consumed"
  PROVE  Sent(g) = {} /\ Handed(g) = {} /\ Used(g) = 0
<1>1. Sent(g) = {} /\ Handed(g) = {}
  BY DEF DemoInv, SentInv, Grounded, Sent, Handed, GateState
<1>2. Used(g) = Cardinality(Sent(g)) + Cardinality(Handed(g))
  BY DEF Used, Sent, Handed
<1> QED
  BY <1>1, <1>2, FS_EmptySet

(* A gate that is read in no step keeps what was done with it.             *)
LEMMA UnusedStep ==
  ASSUME DemoInv, UseKept(1), Unused(GateState(1), GateState(1)')
  PROVE  [First!Next]_<<GateState(1), Used(1)>>
<1>1. Used(1)' = Used(1)
  BY DEF Used, UseKept, Sent, Handed
<1>2. GateState(1) # "consumed" => Used(1) = 0
  BY NotYetUsed
<1> QED
  BY <1>1, <1>2 DEF Unused, First!Next, First!Disclose, First!Agree, First!Refuse, First!Use,
                     First!AgreeAndUse

LEMMA UsedStep ==
  ASSUME DemoInv, GateState(1) \in {"ready", "permitted"}, GateState(1)' = "consumed",
         NEW x, \/ Sent(1)' = Sent(1) \cup {x} /\ Handed(1)' = Handed(1)
                \/ Sent(1)' = Sent(1) /\ Handed(1)' = Handed(1) \cup {x}
  PROVE  [First!Next]_<<GateState(1), Used(1)>>
<1>1. Sent(1) = {} /\ Handed(1) = {}
  BY NotYetUsed
<1>2. \/ Sent(1)' = {x} /\ Handed(1)' = {}
      \/ Sent(1)' = {} /\ Handed(1)' = {x}
  BY <1>1
<1>3. Used(1)' = Cardinality(Sent(1)') + Cardinality(Handed(1)')
  BY DEF Used, Sent, Handed
<1>4. Cardinality({x}) = 1 /\ Cardinality({}) = 0
  BY FS_Singleton, FS_EmptySet
<1>5. Used(1)' = 1
  BY <1>2, <1>3, <1>4
<1> QED
  BY <1>5 DEF First!Next, First!Use, First!AgreeAndUse

(* One gate is changed: what that says of the first.                       *)
LEMMA GateMoves ==
  ASSUME DemoInv, NEW g \in DOMAIN gates, NEW n \in GateRecords,
         gates' = [gates EXCEPT ![g] = n]
  PROVE  /\ g # 1 => GateState(1)' = GateState(1)
         /\ g = 1 => GateState(1) = gates[g].state /\ GateState(1)' = n.state
<1>1. gates \in Seq(GateRecords)
  BY DEF DemoInv, DemoTypes
<1>2. DOMAIN gates' = DOMAIN gates /\ gates'[g] = n
      /\ \A h \in DOMAIN gates : h # g => gates'[h] = gates[h]
  BY <1>1
<1> QED
  BY <1>2 DEF GateState

LEMMA GateAdded ==
  ASSUME DemoInv, NEW task \in Tasks, NEW route \in Routes,
         \/ UNCHANGED gates
         \/ gates' = Append(gates, NewGate(Disclosure(Len(gates) + 1, task, route)))
  PROVE  Unused(GateState(1), GateState(1)')
<1>1. gates \in Seq(GateRecords) /\ Len(gates) \in Nat
  BY DEF DemoInv, DemoTypes
<1>2. CASE UNCHANGED gates
  BY <1>2 DEF Unused, GateState
<1>3. CASE gates' = Append(gates, NewGate(Disclosure(Len(gates) + 1, task, route)))
  <2>1. /\ Len(gates') = Len(gates) + 1 /\ gates' \in Seq(GateRecords)
        /\ gates'[Len(gates) + 1] = NewGate(Disclosure(Len(gates) + 1, task, route))
        /\ \A h \in DOMAIN gates : gates'[h] = gates[h]
    BY <1>1, <1>3, NewDisclosure
  <2>2. gates'[Len(gates) + 1].state = "ready"
    BY <2>1 DEF NewGate
  <2>3. CASE Len(gates) = 0
    <3>1. 1 \notin DOMAIN gates /\ 1 \in DOMAIN gates' /\ gates'[1].state = "ready"
      BY <1>1, <2>1, <2>2, <2>3
    <3> QED
      BY <3>1 DEF Unused, GateState
  <2>4. CASE Len(gates) # 0
    <3>1. 1 \in DOMAIN gates /\ 1 \in DOMAIN gates' /\ gates'[1] = gates[1]
      BY <1>1, <2>1, <2>4
    <3> QED
      BY <3>1 DEF Unused, GateState
  <2> QED
    BY <2>3, <2>4
<1> QED
  BY <1>2, <1>3

(* The steps of the console and of the provider's way as steps of a permit. *)
LEMMA ConsolePermit ==
  ASSUME DemoInv, NEW token, NEW fails \in BOOLEAN, ConsoleAcknowledge(token, fails)
  PROVE  [First!Next]_<<GateState(1), Used(1)>>
<1> DEFINE g == session.gate
<1>1. Sent(1)' = Sent(1)
  BY DEF ConsoleAcknowledge, Sent
<1>2. CASE UNCHANGED <<gates, scopes>>
  BY <1>1, <1>2, UnusedStep DEF UseKept, Handed, Unused, GateState
<1>3. ASSUME NEW n \in GateRecords, g \in DOMAIN gates, gates' = [gates EXCEPT ![g] = n],
             n.state # "ready", gates[g].state # "ready" => n = gates[g], UNCHANGED scopes
      PROVE  [First!Next]_<<GateState(1), Used(1)>>
  <2>1. /\ g # 1 => GateState(1)' = GateState(1)
        /\ g = 1 => GateState(1) = gates[g].state /\ GateState(1)' = n.state
    BY <1>3, GateMoves
  <2>2. n.state \in {"permitted", "cancelled", "consumed"}
    BY <1>3 DEF GateRecords
  <2>3. Unused(GateState(1), GateState(1)')
    BY <1>3, <2>1, <2>2 DEF Unused
  <2> QED
    BY <1>1, <1>3, <2>3, UnusedStep DEF UseKept, Handed
<1>4. ASSUME NEW n \in GateRecords, g \in DOMAIN gates, gates' = [gates EXCEPT ![g] = n],
             gates[g].state = "ready", n.state = "consumed", NEW new,
             new.gate = g, new.by = "host", scopes' = scopes \cup {new}
      PROVE  [First!Next]_<<GateState(1), Used(1)>>
  <2>1. /\ g # 1 => GateState(1)' = GateState(1)
        /\ g = 1 => GateState(1) = "ready" /\ GateState(1)' = "consumed"
    BY <1>4, GateMoves
  <2>2. CASE g # 1
    <3>1. Handed(1)' = Handed(1)
      BY <1>4, <2>2 DEF Handed
    <3> QED
      BY <1>1, <2>1, <2>2, <3>1, UnusedStep DEF UseKept, Unused
  <2>3. CASE g = 1
    <3>1. Handed(1)' = Handed(1) \cup {new}
      BY <1>4, <2>3 DEF Handed
    <3> QED
      BY <1>1, <2>1, <2>3, <3>1, UsedStep
  <2> QED
    BY <2>2, <2>3
<1>5. ASSUME NEW n \in GateRecords, g \in DOMAIN gates, gates' = [gates EXCEPT ![g] = n],
             gates[g].state = "ready", n.state = "consumed",
             scopes' = scopes \cup {[gate |-> g, by |-> "host", sheet |-> LocalScope(n)]}
      PROVE  [First!Next]_<<GateState(1), Used(1)>>
  <2> DEFINE new == [gate |-> g, by |-> "host", sheet |-> LocalScope(n)]
  <2>1. new.gate = g /\ new.by = "host" /\ scopes' = scopes \cup {new}
    BY <1>5
  <2> HIDE DEF new
  <2> QED
    BY <1>4, <1>5, <2>1
<1> QED
  BY <1>2, <1>3, <1>5, AcknowledgeEffect

LEMMA OnePermit ==
  ASSUME DemoInv, NEW g \in DOMAIN gates, NEW n \in GateRecords,
         gates' = [gates EXCEPT ![g] = n], Unused(gates[g].state, n.state),
         UNCHANGED <<requests, scopes>>
  PROVE  [First!Next]_<<GateState(1), Used(1)>>
<1>0. /\ g # 1 => GateState(1)' = GateState(1)
      /\ g = 1 => GateState(1) = gates[g].state /\ GateState(1)' = n.state
  BY GateMoves
<1>1. Unused(GateState(1), GateState(1)')
  BY <1>0 DEF Unused
<1> QED
  BY <1>1, UnusedStep DEF UseKept, Sent, Handed

LEMMA DropPermit ==
  ASSUME DemoInv, NEW cancelled \in BOOLEAN, Dropped(cancelled)
  PROVE  [First!Next]_<<GateState(1), Used(1)>>
<1> DEFINE g == session.gate
           n == [gates[g] EXCEPT !.state = "cancelled"]
<1>1. UNCHANGED <<requests, scopes>> /\ DemoTypes
  BY DEF Dropped, DemoInv
<1>2. CASE UNCHANGED gates
  BY <1>1, <1>2, UnusedStep DEF UseKept, Sent, Handed, Unused, GateState
<1>3. CASE g # 0 /\ gates[g].state = "ready" /\ gates' = [gates EXCEPT ![g] = n]
  <2>1. g \in DOMAIN gates
    <3>1. g \in Nat /\ g \in 0..Len(gates) /\ gates \in Seq(GateRecords)
      BY <1>1 DEF DemoTypes, Sessions
    <3> QED
      BY <1>3, <3>1
  <2>2. gates[g] \in GateRecords
    BY <1>1, <2>1 DEF DemoTypes
  <2>3. n \in GateRecords /\ n.state = "cancelled"
    BY <2>2 DEF GateRecords
  <2> HIDE DEF n
  <2> QED
    BY <1>1, <1>3, <2>1, <2>3, OnePermit DEF Unused
<1> QED
  BY <1>2, <1>3 DEF Dropped

LEMMA AttemptPermit ==
  ASSUME DemoInv, NEW c \in Callers, NEW g \in DOMAIN gates, NEW from \in DOMAIN gates,
         NEW size, Attempt(c, g, from, size)
  PROVE  [First!Next]_<<GateState(1), Used(1)>>
<1> DEFINE permit == PermitOf(from, gates[from])
           current == gates[g].disclosure
           after == Consumed(g, gates[g], permit, current)
           request == RequestOf(current)
           used == Uses(g, gates[g], permit, current)
<1>1. DemoTypes /\ gates[g] \in GateRecords /\ UNCHANGED scopes
  BY DEF DemoInv, DemoTypes, Attempt
<1>2. /\ after \in GateRecords
      /\ gates[g].state # "permitted" => after = gates[g]
      /\ gates[g].state = "permitted" /\ ~used => after.state = "cancelled"
      /\ used => gates[g].state = "permitted" /\ after.state = "consumed"
  BY <1>1, ConsumedFields
<1>3. CASE UNCHANGED <<gates, requests>>
  BY <1>1, <1>3, UnusedStep DEF UseKept, Sent, Handed, Unused, GateState
<1>4. CASE gates' = [gates EXCEPT ![g] = after] /\ UNCHANGED requests
  <2> HIDE DEF after, used
  <2>1. Unused(gates[g].state, after.state)
    BY <1>2 DEF Unused
  <2> QED
    BY <1>1, <1>2, <1>4, <2>1, OnePermit
<1>5. CASE /\ used /\ gates' = [gates EXCEPT ![g] = after]
           /\ requests' = Append(requests, [gate |-> g, request |-> request])
  <2> DEFINE sent == [gate |-> g, request |-> request]
  <2>1. sent.gate = g /\ requests' = Append(requests, sent)
    BY <1>5
  <2> HIDE DEF sent, after, used
  <2>2. requests \in Seq([gate : Nat, request : RequestRecords])
    BY <1>1 DEF DemoTypes
  <2>3. /\ DOMAIN requests' = DOMAIN requests \cup {Len(requests) + 1}
        /\ requests'[Len(requests) + 1] = sent /\ Len(requests) + 1 \notin DOMAIN requests
        /\ \A i \in DOMAIN requests : requests'[i] = requests[i]
    BY <2>1, <2>2
  <2>4. /\ g # 1 => GateState(1)' = GateState(1)
        /\ g = 1 => GateState(1) = "permitted" /\ GateState(1)' = "consumed"
    BY <1>2, <1>5, GateMoves
  <2>5. CASE g # 1
    <3>1. Sent(1)' = Sent(1) /\ Handed(1)' = Handed(1)
      BY <1>1, <2>1, <2>3, <2>5 DEF Sent, Handed
    <3> QED
      BY <2>4, <2>5, <3>1, UnusedStep DEF UseKept, Unused
  <2>6. CASE g = 1
    <3>1. Sent(1)' = Sent(1) \cup {Len(requests) + 1} /\ Handed(1)' = Handed(1)
      BY <1>1, <2>1, <2>3, <2>6 DEF Sent, Handed
    <3> QED
      BY <2>4, <2>6, <3>1, UsedStep
  <2> QED
    BY <2>5, <2>6
<1> QED
  BY <1>3, <1>4, <1>5 DEF Attempt

LEMMA ClientPermit ==
  ASSUME DemoInv, NEW g \in DOMAIN gates,
         \/ \E token \in {"COMPILE", "other"} : ClientAnswers(g, token)
         \/ ClientCancels(g)
         \/ \E t \in Tasks : Altered(g, t)
  PROVE  [First!Next]_<<GateState(1), Used(1)>>
<1>1. gates[g] \in GateRecords
  BY DEF DemoInv, DemoTypes
<1>2. ASSUME NEW token, ClientAnswers(g, token)
      PROVE  [First!Next]_<<GateState(1), Used(1)>>
  <2> DEFINE n == Acknowledged(gates[g], token)
  <2>1. /\ n \in GateRecords /\ (gates[g].state # "ready" => n = gates[g])
        /\ gates[g].state = "ready" => n.state \in {"permitted", "cancelled"}
    BY <1>1, AcknowledgedFields
  <2>2. gates' = [gates EXCEPT ![g] = n] /\ UNCHANGED <<requests, scopes>>
    BY <1>2 DEF ClientAnswers
  <2> HIDE DEF n
  <2> QED
    BY <2>1, <2>2, OnePermit DEF Unused
<1>3. CASE ClientCancels(g)
  <2> DEFINE n == [gates[g] EXCEPT !.state = "cancelled"]
  <2>1. n \in GateRecords /\ n.state = "cancelled" /\ gates[g].state = "ready"
    BY <1>1, <1>3 DEF ClientCancels, GateRecords
  <2>2. gates' = [gates EXCEPT ![g] = n] /\ UNCHANGED <<requests, scopes>>
    BY <1>3 DEF ClientCancels
  <2> HIDE DEF n
  <2> QED
    BY <2>1, <2>2, OnePermit DEF Unused
<1>4. ASSUME NEW t \in Tasks, Altered(g, t)
      PROVE  [First!Next]_<<GateState(1), Used(1)>>
  <2> DEFINE d == [gates[g].disclosure EXCEPT !.task = t]
             n == [gates[g] EXCEPT !.disclosure = d]
  <2>1. d \in Disclosures
    BY <1>1 DEF GateRecords, Disclosures
  <2>2. gates' = [gates EXCEPT ![g] = n] /\ UNCHANGED <<requests, scopes>>
    BY <1>4 DEF Altered
  <2> HIDE DEF d
  <2>3. n \in GateRecords /\ n.state = gates[g].state
    BY <1>1, <2>1 DEF GateRecords
  <2> HIDE DEF n
  <2> QED
    BY <2>2, <2>3, OnePermit DEF Unused
<1> QED
  BY <1>2, <1>3, <1>4

LEMMA PermitStep ==
  ASSUME DemoInv, DemoMove \/ UNCHANGED demoVars
  PROVE  [First!Next]_<<GateState(1), Used(1)>>
<1>1. CASE UNCHANGED <<gates, requests, scopes>>
  BY <1>1, UnusedStep DEF UseKept, Sent, Handed, Unused, GateState
<1>2. ASSUME NEW t \in Tasks, NEW r \in Routes, Review(t, r) \/ ClientGate(t, r)
      PROVE  [First!Next]_<<GateState(1), Used(1)>>
  <2>1. /\ UNCHANGED <<requests, scopes>>
        /\ \/ UNCHANGED gates
           \/ gates' = Append(gates, NewGate(Disclosure(Len(gates) + 1, t, r)))
    BY <1>2 DEF Review, ClientGate
  <2> QED
    BY <2>1, GateAdded, UnusedStep DEF UseKept, Sent, Handed
<1>3. ASSUME NEW c \in Callers, NEW candidate, NEW response, Answered(c, response, candidate)
      PROVE  [First!Next]_<<GateState(1), Used(1)>>
  <2> DEFINE new == [gate |-> attempts[c].gate, by |-> "provider",
                     sheet |-> ProviderScope(ReviewedIntent(candidate, attempts[c].request.task),
                                             attempts[c].request.disclosure)]
  <2>1. UNCHANGED <<gates, requests>> /\ (scopes' = scopes \/ scopes' = scopes \cup {new})
    BY <1>3 DEF Answered, Fails
  <2>2. new.by = "provider"
    OBVIOUS
  <2> HIDE DEF new
  <2>3. Handed(1)' = Handed(1)
    BY <2>1, <2>2 DEF Handed
  <2> QED
    BY <2>1, <2>3, UnusedStep DEF UseKept, Sent, Unused, GateState
<1>4. ASSUME NEW c \in Callers, Raised(c) PROVE UNCHANGED <<gates, requests, scopes>>
  BY <1>4 DEF Raised, Fails
<1>5. ASSUME NEW g \in DOMAIN gates, NEW yes \in BOOLEAN, OpenPort(g, yes)
      PROVE  UNCHANGED <<gates, requests, scopes>>
  BY <1>5 DEF OpenPort
<1>6. CASE ProviderNext
  BY <1>1, <1>2, <1>3, <1>4, <1>5, <1>6, ClientPermit, AttemptPermit DEF ProviderNext
<1> QED
  BY <1>1, <1>2, <1>6, ConsolePermit, DropPermit DEF DemoMove, demoVars

(* A gate is a one-shot permit, beside any number of other gates: agreed to *)
(* once, used at most once and in the step that uses the permit up, by the *)
(* host or by a request to the provider, and a refusal is final.           *)
THEOREM GatesAreOneShot == OperatorSpec => ImplementsPermit
<1>1. OperatorInit => DemoInv
  BY DemoBegins DEF OperatorInit
<1>2. OperatorInit => First!Init
  <2> SUFFICES ASSUME OperatorInit PROVE First!Init
    OBVIOUS
  <2>1. DemoInv /\ gates = <<>>
    BY <1>1 DEF OperatorInit, DemoInit
  <2>2. GateState(1) = "none"
    BY <2>1 DEF GateState
  <2>3. Used(1) = 0
    BY <2>1, <2>2, NotYetUsed
  <2> QED
    BY <2>2, <2>3 DEF First!Init
<1>3. DemoInv /\ [OperatorNext]_allVars => DemoInv'
  BY DemoOfOperator, DemoStep
<1>4. DemoInv /\ [OperatorNext]_allVars => [First!Next]_<<GateState(1), Used(1)>>
  BY DemoOfOperator, PermitStep
<1> QED
  BY <1>1, <1>2, <1>3, <1>4, PTL DEF OperatorSpec, ImplementsPermit, First!Spec

-----------------------------------------------------------------------------
(* The rows (ProgressBoard): what is listed when not everything can be.    *)

(* A record of the rows, and records that have names of their own.         *)
IsRecord(r) ==
    /\ r.at \in Int /\ r.id \in Int
    /\ \/ r.task = "run" /\ r.status \in RunPhases
       \/ r.task = "campaign" /\ r.status \in CampaignStates
AreRecords(S) ==
    /\ IsFiniteSet(S)
    /\ \A r \in S : IsRecord(r)
    /\ \A a, b \in S : a.task = b.task /\ a.id = b.id => a = b

(* The place of a record: how many are ahead of it.                        *)
Place(S, r) == Cardinality({a \in S : Ahead(a, r)})

(* Records are ahead of each other one way, whatever their times.          *)
LEMMA OneIsAhead ==
    \A S : AreRecords(S) =>
        /\ \A a \in S : ~Ahead(a, a)
        /\ \A a, b \in S : a # b => Ahead(a, b) \/ Ahead(b, a)
        /\ \A a, b, c \in S : Ahead(a, b) /\ Ahead(b, c) => Ahead(a, c)
BY DEF AreRecords, IsRecord, Ahead

LEMMA PlacesGrow ==
    \A S : AreRecords(S) =>
        /\ \A r \in S : Place(S, r) \in 0..Cardinality(S) - 1
        /\ \A a, b \in S : Ahead(a, b) => Place(S, a) < Place(S, b)
<1> SUFFICES ASSUME NEW S, AreRecords(S)
             PROVE  /\ \A r \in S : Place(S, r) \in 0..Cardinality(S) - 1
                    /\ \A a, b \in S : Ahead(a, b) => Place(S, a) < Place(S, b)
  OBVIOUS
<1>1. IsFiniteSet(S) /\ Cardinality(S) \in Nat
  BY FS_CardinalityType DEF AreRecords
<1>2. ASSUME NEW r \in S PROVE Place(S, r) \in 0..Cardinality(S) - 1
  <2> DEFINE T == {a \in S : Ahead(a, r)}
  <2>1. T \subseteq S /\ T # S
    BY OneIsAhead
  <2>2. Cardinality(T) \in Nat /\ Cardinality(T) < Cardinality(S)
    BY <1>1, <2>1, FS_Subset, FS_CardinalityType
  <2> QED BY <1>1, <2>2 DEF Place
<1>3. ASSUME NEW a \in S, NEW b \in S, Ahead(a, b) PROVE Place(S, a) < Place(S, b)
  <2> DEFINE T == {x \in S : Ahead(x, a)}
             U == {x \in S : Ahead(x, b)}
  <2>1. T \subseteq U /\ a \in U /\ a \notin T
    BY <1>3, OneIsAhead
  <2>2. IsFiniteSet(U)
    BY <1>1, FS_Subset
  <2>3. Cardinality(T) < Cardinality(U)
    <3>1. IsFiniteSet(T) /\ Cardinality(T) <= Cardinality(U) /\ Cardinality(T) # Cardinality(U)
      BY <2>1, <2>2, FS_Subset
    <3> QED BY <2>2, <3>1, FS_CardinalityType
  <2> QED BY <2>3 DEF Place
<1> QED BY <1>2, <1>3

(* Ranked lists every record once, and the newest first.                    *)
Lists(s, S) ==
    /\ s \in Seq(S)
    /\ \A r \in S : \E i \in 1..Len(s) : s[i] = r
    /\ \A i, j \in 1..Len(s) : s[i] = s[j] => i = j
NewestFirst(s) == \A i, j \in 1..Len(s) : i < j => s[i].at >= s[j].at
LEMMA RankedLists == \A S : AreRecords(S) => Lists(Ranked(S), S) /\ NewestFirst(Ranked(S))
<1> SUFFICES ASSUME NEW S, AreRecords(S)
             PROVE  Lists(Ranked(S), S) /\ NewestFirst(Ranked(S))
  OBVIOUS
<1> DEFINE n == Cardinality(S)
           rank == [r \in S |-> Place(S, r) + 1]
<1>1. IsFiniteSet(S) /\ n \in Nat
  BY FS_CardinalityType DEF AreRecords
<1>2. rank \in Injection(S, 1..n)
  <2>1. rank \in [S -> 1..n]
    BY <1>1, PlacesGrow
  <2>2. ASSUME NEW a \in S, NEW b \in S, rank[a] = rank[b] PROVE a = b
    <3>1. Place(S, a) \in Int /\ Place(S, b) \in Int
      BY PlacesGrow
    <3>2. Place(S, a) = Place(S, b)
      BY <2>2, <3>1
    <3> QED BY <3>1, <3>2, PlacesGrow, OneIsAhead
  <2> QED BY <2>1, <2>2 DEF Injection, IsInjective
<1>3. IsFiniteSet(1..n) /\ Cardinality(1..n) = n
  BY <1>1, FS_Interval
<1>4. rank \in Surjection(S, 1..n)
  BY <1>2, <1>3, FS_Injection
<1>5. ASSUME NEW i \in 1..n
      PROVE  Ranked(S)[i] \in S /\ Place(S, Ranked(S)[i]) = i - 1
  <2>1. PICK r \in S : rank[r] = i
    BY <1>4 DEF Surjection
  <2>2. Place(S, r) = i - 1
    BY <2>1, PlacesGrow, <1>1
  <2>3. Ranked(S)[i] = CHOOSE x \in S : Place(S, x) = i - 1
    BY DEF Ranked, Place
  <2> QED BY <2>2, <2>3
<1>6. Ranked(S) \in [1..n -> S]
  BY <1>5 DEF Ranked
<1>7. Ranked(S) \in Seq(S) /\ Len(Ranked(S)) = n
  BY <1>1, <1>6
<1>8. ASSUME NEW r \in S PROVE \E i \in 1..n : Ranked(S)[i] = r
  <2>1. Place(S, r) \in 0..n - 1
    BY PlacesGrow
  <2>2. Place(S, r) + 1 \in 1..n
    BY <2>1, <1>1
  <2>3. /\ Ranked(S)[Place(S, r) + 1] \in S
        /\ Place(S, Ranked(S)[Place(S, r) + 1]) = Place(S, r)
    BY <2>1, <2>2, <1>5
  <2>4. Ranked(S)[Place(S, r) + 1] = r
    BY <2>1, <2>3, PlacesGrow, OneIsAhead
  <2> QED BY <2>2, <2>4
<1>9. ASSUME NEW i \in 1..n, NEW j \in 1..n, Ranked(S)[i] = Ranked(S)[j] PROVE i = j
  BY <1>5, <1>9, <1>1
<1>10. ASSUME NEW i \in 1..n, NEW j \in 1..n, i < j
       PROVE  Ranked(S)[i].at >= Ranked(S)[j].at
  <2> DEFINE a == Ranked(S)[i]
             b == Ranked(S)[j]
  <2>1. a \in S /\ b \in S /\ Place(S, a) = i - 1 /\ Place(S, b) = j - 1
    BY <1>5
  <2> HIDE DEF a, b
  <2>2. a # b /\ ~(Place(S, b) < Place(S, a))
    BY <1>1, <1>10, <2>1
  <2>3. Ahead(a, b)
    BY <2>1, <2>2, PlacesGrow, OneIsAhead
  <2>4. a.at \in Int /\ b.at \in Int
    BY <2>1 DEF AreRecords, IsRecord
  <2>5. a.at >= b.at
    BY <2>3, <2>4 DEF Ahead
  <2> QED BY <2>5 DEF a, b
<1> QED BY <1>7, <1>8, <1>9, <1>10 DEF Lists, NewestFirst

(* What a surface shows of some groups: no row twice, only of theirs, and  *)
(* short of one only when it is full.                                      *)
ListsAtMost(rs, S, limit) ==
    /\ rs \in Seq(S) /\ Len(rs) <= limit
    /\ \A i, j \in 1..Len(rs) : rs[i] = rs[j] => i = j
    /\ \A r \in S : (\E i \in 1..Len(rs) : rs[i] = r) \/ Len(rs) = limit
(* It goes on with the rows that are there, unless it is full.             *)
Goes(rs, longer, limit) ==
    ToSet(rs) \subseteq ToSet(longer) /\ (Len(rs) = limit => longer = rs)

LEMMA CutShows ==
    \A S, T, rs, group : \A limit \in Nat :
        ListsAtMost(rs, S, limit) /\ Lists(group, T) /\ S \cap T = {}
            => /\ ListsAtMost(Cut(rs, group, limit), S \cup T, limit)
               /\ Goes(rs, Cut(rs, group, limit), limit)
<1> SUFFICES ASSUME NEW S, NEW T, NEW rs, NEW group, NEW limit \in Nat,
                    ListsAtMost(rs, S, limit), Lists(group, T), S \cap T = {}
             PROVE  /\ ListsAtMost(Cut(rs, group, limit), S \cup T, limit)
                    /\ Goes(rs, Cut(rs, group, limit), limit)
  OBVIOUS
<1> DEFINE left == limit - Len(rs)
           taken == IF Len(group) < left THEN Len(group) ELSE left
           more == SubSeq(group, 1, taken)
           all == Cut(rs, group, limit)
<1>1. rs \in Seq(S) /\ group \in Seq(T) /\ Len(rs) \in Nat /\ Len(group) \in Nat
  BY DEF ListsAtMost, Lists
<1>2. taken \in 0..Len(group) /\ taken <= left /\ left \in Nat
  BY <1>1 DEF ListsAtMost
<1>3. more \in Seq(T) /\ Len(more) = taken /\ \A i \in 1..taken : more[i] = group[i]
  BY <1>1, <1>2
<1>4. all = rs \o more
  BY DEF Cut
<1>5. /\ all \in Seq(S \cup T) /\ Len(all) = Len(rs) + taken
      /\ \A i \in 1..Len(rs) : all[i] = rs[i]
      /\ \A i \in Len(rs) + 1..Len(rs) + taken : all[i] = group[i - Len(rs)]
  <2>1. rs \in Seq(S \cup T) /\ more \in Seq(S \cup T)
    BY <1>1, <1>3
  <2> HIDE DEF all, more, taken
  <2>2. all \in Seq(S \cup T) /\ Len(all) = Len(rs) + taken
    <3>1. rs \o more \in Seq(S \cup T)
      BY <2>1
    <3>2. Len(rs \o more) = Len(rs) + Len(more)
      BY <2>1
    <3> QED BY <3>1, <3>2, <1>3, <1>4
  <2>3. ASSUME NEW i \in 1..Len(rs) PROVE all[i] = rs[i]
    BY <2>1, <1>1, <1>2, <1>3, <1>4
  <2>4. ASSUME NEW i \in Len(rs) + 1..Len(rs) + taken PROVE all[i] = group[i - Len(rs)]
    <3>1. i - Len(rs) \in 1..taken
      BY <1>1, <1>2
    <3>2. all[i] = more[i - Len(rs)]
      BY <2>1, <1>1, <1>2, <1>3, <1>4
    <3> QED BY <3>1, <3>2, <1>3
  <2> QED BY <2>2, <2>3, <2>4
<1> HIDE DEF all, more, taken, left
<1>6. Len(all) <= limit
  BY <1>1, <1>2, <1>5 DEF left
<1>7. ASSUME NEW i \in 1..Len(all), NEW j \in 1..Len(all), all[i] = all[j] PROVE i = j
  <2>1. CASE i \in 1..Len(rs) /\ j \in 1..Len(rs)
    BY <2>1, <1>5, <1>7 DEF ListsAtMost
  <2>2. CASE i \in 1..Len(rs) /\ j \notin 1..Len(rs)
    <3>1. rs[i] \in S /\ group[j - Len(rs)] \in T
      BY <2>2, <1>1, <1>2, <1>5
    <3> QED BY <2>2, <3>1, <1>1, <1>2, <1>5, <1>7, SMTT(30)
  <2>3. CASE i \notin 1..Len(rs) /\ j \in 1..Len(rs)
    <3>1. rs[j] \in S /\ group[i - Len(rs)] \in T
      BY <2>3, <1>1, <1>2, <1>5
    <3> QED BY <2>3, <3>1, <1>1, <1>2, <1>5, <1>7
  <2>4. CASE i \notin 1..Len(rs) /\ j \notin 1..Len(rs)
    <3>1. i - Len(rs) \in 1..Len(group) /\ j - Len(rs) \in 1..Len(group)
      BY <2>4, <1>1, <1>2, <1>5
    <3>2. group[i - Len(rs)] = group[j - Len(rs)]
      BY <2>4, <1>1, <1>2, <1>5, <1>7
    <3>3. i - Len(rs) = j - Len(rs)
      BY <3>1, <3>2 DEF Lists
    <3> QED BY <3>3, <1>1, <1>5
  <2> QED BY <2>1, <2>2, <2>3, <2>4
<1>8. ASSUME NEW r \in S \cup T, Len(all) # limit PROVE \E i \in 1..Len(all) : all[i] = r
  <2>1. taken = Len(group) /\ Len(rs) # limit
    BY <1>1, <1>2, <1>5, <1>8 DEF left, taken
  <2>2. CASE r \in S
    <3>1. PICK i \in 1..Len(rs) : rs[i] = r
      BY <2>1, <2>2 DEF ListsAtMost
    <3> QED BY <3>1, <1>1, <1>2, <1>5
  <2>3. CASE r \in T
    <3>1. PICK i \in 1..Len(group) : group[i] = r
      BY <2>3 DEF Lists
    <3>2. /\ Len(rs) + i \in 1..Len(all) /\ Len(rs) + i \in Len(rs) + 1..Len(rs) + taken
          /\ Len(rs) + i - Len(rs) = i
      BY <2>1, <3>1, <1>1, <1>5
    <3> QED BY <3>1, <3>2, <1>5
  <2> QED BY <2>2, <2>3
<1>9. ListsAtMost(all, S \cup T, limit)
  BY <1>5, <1>6, <1>7, <1>8 DEF ListsAtMost
<1>10. ASSUME Len(rs) = limit PROVE all = rs
  <2>1. taken = 0
    BY <1>10, <1>1, <1>2 DEF left
  <2>2. Len(all) = Len(rs)
    BY <2>1, <1>1, <1>5
  <2>3. all \in [1..Len(all) -> S \cup T] /\ rs \in [1..Len(rs) -> S]
    BY <1>1, <1>5
  <2> QED BY <2>2, <2>3, <1>5
<1>11. ToSet(rs) \subseteq ToSet(all)
  BY <1>1, <1>2, <1>5 DEF ToSet
<1> QED BY <1>9, <1>10, <1>11 DEF all, Goes

(* How many rows that are, and of what.                                    *)
LEMMA ShownCount ==
    \A S, rs : \A limit \in Nat : IsFiniteSet(S) /\ ListsAtMost(rs, S, limit) =>
        /\ ToSet(rs) \subseteq S
        /\ Len(rs) = (IF Cardinality(S) < limit THEN Cardinality(S) ELSE limit)
        /\ Cardinality(ToSet(rs)) = Len(rs)
<1> SUFFICES ASSUME NEW S, NEW rs, NEW limit \in Nat, IsFiniteSet(S), ListsAtMost(rs, S, limit)
             PROVE  /\ ToSet(rs) \subseteq S
                    /\ Len(rs) = (IF Cardinality(S) < limit THEN Cardinality(S) ELSE limit)
                    /\ Cardinality(ToSet(rs)) = Len(rs)
  OBVIOUS
<1> DEFINE T == ToSet(rs)
<1>1. rs \in Seq(S) /\ Len(rs) \in Nat /\ DOMAIN rs = 1..Len(rs) /\ Len(rs) <= limit
  BY DEF ListsAtMost
<1>2. T = {rs[i] : i \in 1..Len(rs)}
  BY <1>1 DEF ToSet
<1>3. T \subseteq S
  BY <1>1, <1>2
<1>4. rs \in Bijection(1..Len(rs), T)
  <2>1. rs \in [1..Len(rs) -> T]
    BY <1>1, <1>2
  <2>2. \A i, j \in 1..Len(rs) : rs[i] = rs[j] => i = j
    BY DEF ListsAtMost
  <2>3. \A r \in T : \E i \in 1..Len(rs) : rs[i] = r
    BY <1>2
  <2> QED BY <2>1, <2>2, <2>3 DEF Bijection, Injection, Surjection, IsInjective
<1>5. Cardinality(T) = Len(rs)
  <2>1. ExistsBijection(1..Len(rs), T)
    BY <1>4 DEF ExistsBijection
  <2> QED BY <1>1, <2>1, FS_CountingElements
<1>6. Len(rs) <= Cardinality(S) /\ Cardinality(S) \in Nat
  BY <1>3, <1>5, FS_Subset, FS_CardinalityType
<1>7. ASSUME Len(rs) # limit PROVE T = S
  BY <1>2, <1>3, <1>7 DEF ListsAtMost
<1> HIDE DEF T
<1> QED
  <2>1. CASE Len(rs) = limit
    BY <2>1, <1>1, <1>3, <1>5, <1>6 DEF T
  <2>2. CASE Len(rs) # limit
    <3>1. Cardinality(S) = Len(rs)
      BY <2>2, <1>5, <1>7
    <3>2. \A k \in Nat : k <= limit /\ k # limit => k < limit
      OBVIOUS
    <3>3. Len(rs) < limit
      BY <3>2, <2>2, <1>1
    <3> QED BY <3>1, <3>3, <1>3, <1>5 DEF T
  <2> QED BY <2>1, <2>2

(* The group that comes first is shown from its head.                      *)
Heads(A, listed) ==
    listed \subseteq A /\ \A hidden \in A \ listed, r \in listed : r.at >= hidden.at
LEMMA FirstCutShows ==
    \A A, group : \A limit \in Nat :
        Lists(group, A) /\ NewestFirst(group) => Heads(A, ToSet(Cut(<<>>, group, limit)))
<1> SUFFICES ASSUME NEW A, NEW group, NEW limit \in Nat, Lists(group, A), NewestFirst(group)
             PROVE  Heads(A, ToSet(Cut(<<>>, group, limit)))
  OBVIOUS
<1> DEFINE taken == IF Len(group) < limit THEN Len(group) ELSE limit
           head == SubSeq(group, 1, taken)
<1>1. group \in Seq(A) /\ Len(group) \in Nat
  BY DEF Lists
<1>2. taken \in 0..Len(group)
  BY <1>1
<1>3. head \in Seq(A) /\ Len(head) = taken /\ \A i \in 1..taken : head[i] = group[i]
  BY <1>1, <1>2
<1>4. Cut(<<>>, group, limit) = head
  <2>1. Cut(<<>>, group, limit) = <<>> \o head
    BY DEF Cut
  <2> HIDE DEF head
  <2> QED BY <2>1, <1>3
<1> HIDE DEF head, taken
<1>5. ToSet(head) = {group[i] : i \in 1..taken}
  BY <1>3 DEF ToSet
<1>6. \A i \in 1..taken : i \in 1..Len(group) /\ group[i] \in A
  BY <1>1, <1>2
<1>7. ASSUME NEW hidden \in A \ ToSet(head), NEW r \in ToSet(head)
      PROVE  r.at >= hidden.at
  <2>1. PICK i \in 1..taken : r = group[i]
    BY <1>5
  <2>2. PICK j \in 1..Len(group) : group[j] = hidden
    BY DEF Lists
  <2>3. j \notin 1..taken
    BY <1>5, <2>2
  <2>4. i < j /\ i \in 1..Len(group)
    BY <1>1, <1>2, <2>3
  <2> QED BY <2>1, <2>2, <2>4 DEF NewestFirst
<1> QED BY <1>4, <1>5, <1>6, <1>7 DEF Heads

(* Three groups fill the limit in their order: a row of the first is left  *)
(* out only for rows of the first that are not older.                      *)
Filled(A, B, C, limit) ==
    Cut(Cut(Cut(<<>>, Ranked(A), limit), Ranked(B), limit), Ranked(C), limit)
Partition(S, A, B, C) ==
    S = A \cup B \cup C /\ A \cap B = {} /\ A \cap C = {} /\ B \cap C = {}
LEMMA FilledShows ==
    \A S, A, B, C : \A limit \in Nat : AreRecords(S) /\ Partition(S, A, B, C) =>
        /\ ListsAtMost(Filled(A, B, C, limit), S, limit)
        /\ A \subseteq ToSet(Filled(A, B, C, limit)) \/ Heads(A, ToSet(Filled(A, B, C, limit)))
<1> SUFFICES ASSUME NEW S, NEW A, NEW B, NEW C, NEW limit \in Nat,
                    AreRecords(S), Partition(S, A, B, C)
             PROVE  /\ ListsAtMost(Filled(A, B, C, limit), S, limit)
                    /\ \/ A \subseteq ToSet(Filled(A, B, C, limit))
                       \/ Heads(A, ToSet(Filled(A, B, C, limit)))
  OBVIOUS
<1> DEFINE r0 == <<>>
           r1 == Cut(r0, Ranked(A), limit)
           r2 == Cut(r1, Ranked(B), limit)
           r3 == Cut(r2, Ranked(C), limit)
<1>1. AreRecords(A) /\ AreRecords(B) /\ AreRecords(C)
  <2>1. ASSUME NEW T \in SUBSET S PROVE AreRecords(T)
    BY FS_Subset DEF AreRecords
  <2> QED BY <2>1 DEF Partition
<1>2. Lists(Ranked(A), A) /\ Lists(Ranked(B), B) /\ Lists(Ranked(C), C)
  BY <1>1, RankedLists
<1>2a. Heads(A, ToSet(r1))
  BY <1>1, RankedLists, FirstCutShows
<1>3. ListsAtMost(r0, {}, limit)
  BY DEF ListsAtMost
<1> HIDE DEF r0
<1>4. ListsAtMost(r1, A, limit)
  <2>1. ListsAtMost(r1, {} \cup A, limit)
    BY <1>2, <1>3, CutShows
  <2>2. {} \cup A = A
    OBVIOUS
  <2> QED BY <2>1, <2>2
<1> HIDE DEF r1
<1>5. ListsAtMost(r2, A \cup B, limit) /\ Goes(r1, r2, limit)
  BY <1>2, <1>4, CutShows DEF Partition
<1> HIDE DEF r2
<1>6. ListsAtMost(r3, (A \cup B) \cup C, limit) /\ Goes(r2, r3, limit)
  <2>1. (A \cup B) \cap C = {}
    BY DEF Partition
  <2> QED BY <2>1, <1>2, <1>5, CutShows
<1>7. Filled(A, B, C, limit) = r3
  BY DEF Filled, r0, r1, r2
<1>8. ListsAtMost(r3, S, limit)
  BY <1>6 DEF Partition
<1> HIDE DEF r3
<1>9. CASE Len(r1) = limit
  <2>1. r3 = r1
    BY <1>5, <1>6, <1>9 DEF Goes
  <2> QED BY <1>7, <1>8, <1>2a, <2>1
<1>10. CASE Len(r1) # limit
  <2>1. \A r \in A : \E i \in 1..Len(r1) : r1[i] = r
    BY <1>4, <1>10 DEF ListsAtMost
  <2>2. A \subseteq ToSet(r1)
    BY <2>1, <1>4 DEF ToSet, ListsAtMost
  <2> QED BY <2>2, <1>5, <1>6, <1>7, <1>8 DEF Goes
<1> QED BY <1>9, <1>10

(* The first group of either surface is what calls for attention there.    *)
LEMMA CallsAreAttention ==
    \A r : IsRecord(r) => /\ CallsInWindow(r) <=> BoardClass(r) = "attention"
                          /\ CallsInCenter(r) <=> CenterClass(r) = "attention"
BY DEF IsRecord, NeedsOperator, CallsInWindow, CallsInCenter, BoardClass, CenterClass,
       RunAttention, CenterRunAttention, CampaignAttention, ReceiptAttention, RunPhases,
       CampaignStates, RunTerminal

LEMMA ThreeClasses ==
    \A r : IsRecord(r) => /\ BoardClass(r) \in {"attention", "in_progress", "history"}
                          /\ CenterClass(r) \in {"attention", "in_progress", "history"}
BY DEF BoardClass, CenterClass

LEMMA BoardRows ==
    \A S : \A limit \in Nat : AreRecords(S) =>
        /\ ListsAtMost(Rows(S, BoardClass, limit), S, limit)
        /\ UrgentFirst(S, ToSet(Rows(S, BoardClass, limit)), CallsInWindow)
<1> SUFFICES ASSUME NEW S, NEW limit \in Nat, AreRecords(S)
             PROVE  /\ ListsAtMost(Rows(S, BoardClass, limit), S, limit)
                    /\ UrgentFirst(S, ToSet(Rows(S, BoardClass, limit)), CallsInWindow)
  OBVIOUS
<1> DEFINE A == {r \in S : BoardClass(r) = "attention"}
           B == {r \in S : BoardClass(r) = "in_progress"}
           C == {r \in S : BoardClass(r) = "history"}
           shows == Filled(A, B, C, limit)
<1>1. Rows(S, BoardClass, limit) = shows
  <2>1. /\ {r \in S : BoardClass(r) = GroupOrder[1]} = A
        /\ {r \in S : BoardClass(r) = GroupOrder[2]} = B
        /\ {r \in S : BoardClass(r) = GroupOrder[3]} = C
    BY DEF GroupOrder
  <2> QED BY <2>1 DEF Rows, Filled
<1>2. Partition(S, A, B, C)
  BY ThreeClasses DEF Partition, AreRecords
<1> HIDE DEF shows
<1>3. /\ ListsAtMost(shows, S, limit)
      /\ A \subseteq ToSet(shows) \/ Heads(A, ToSet(shows))
  BY <1>2, FilledShows DEF shows
<1>4. UrgentFirst(S, ToSet(shows), CallsInWindow)
  BY <1>3, CallsAreAttention DEF UrgentFirst, Heads, AreRecords
<1> QED BY <1>1, <1>3, <1>4

LEMMA CenterRows ==
    \A S : \A limit \in Nat : AreRecords(S) => HidesNothingUrgent(S, Center(S, limit), limit)
<1> SUFFICES ASSUME NEW S, NEW limit \in Nat, AreRecords(S)
             PROVE  HidesNothingUrgent(S, Center(S, limit), limit)
  OBVIOUS
<1> DEFINE A == {r \in S : CenterClass(r) = "attention"}
           B == {r \in S : CenterClass(r) = "in_progress"}
           C == {r \in S : CenterClass(r) = "history"}
           shows == Filled(A, B, C, limit)
<1>1. Center(S, limit) = shows
  <2>1. /\ {r \in S : CenterClass(r) = GroupOrder[1]} = A
        /\ {r \in S : CenterClass(r) = GroupOrder[2]} = B
        /\ {r \in S : CenterClass(r) = GroupOrder[3]} = C
    BY DEF GroupOrder
  <2> QED BY <2>1 DEF Center, Rows, Filled
<1>2. Partition(S, A, B, C)
  BY ThreeClasses DEF Partition, AreRecords
<1> HIDE DEF shows
<1>3. /\ ListsAtMost(shows, S, limit)
      /\ A \subseteq ToSet(shows) \/ Heads(A, ToSet(shows))
  BY <1>2, FilledShows DEF shows
<1>4. UrgentFirst(S, ToSet(shows), CallsInCenter)
  BY <1>3, CallsAreAttention DEF UrgentFirst, Heads, AreRecords
<1> QED BY <1>1, <1>3, <1>4, ShownCount DEF HidesNothingUrgent, AreRecords

(* What calls for attention in the progress window, or in the task center, *)
(* where a run that failed does too, is left out there only for records    *)
(* that call for it as well and are not older: for any records and any     *)
(* limits (render_progress_lines, project_task_center).                    *)
THEOREM NothingUrgentIsHidden ==
    \A S : \A runs, campaigns, limit \in Nat : AreRecords(S) =>
        /\ HidesNothingUrgent(S, Center(S, limit), limit)
        /\ \A task \in {"run", "campaign"} :
              LET kind == {r \in S : r.task = task}
              IN  UrgentFirst(kind, ToSet(Board(S, runs, campaigns)) \cap kind, CallsInWindow)
<1> SUFFICES ASSUME NEW S, NEW runs \in Nat, NEW campaigns \in Nat, NEW limit \in Nat,
                    AreRecords(S), NEW task \in {"run", "campaign"}
             PROVE  LET kind == {r \in S : r.task = task}
                    IN  UrgentFirst(kind, ToSet(Board(S, runs, campaigns)) \cap kind, CallsInWindow)
  BY CenterRows
<1> DEFINE R == {r \in S : r.task = "run"}
           C == {r \in S : r.task = "campaign"}
           ofR == Rows(R, BoardClass, runs)
           ofC == Rows(C, BoardClass, campaigns)
           all == Board(S, runs, campaigns)
<1>1. AreRecords(R) /\ AreRecords(C)
  <2>1. ASSUME NEW T \in SUBSET S PROVE AreRecords(T)
    BY FS_Subset DEF AreRecords
  <2> QED BY <2>1
<1>2. all = ofC \o ofR
  BY DEF Board
<1> HIDE DEF ofR, ofC, all
<1>3. /\ ListsAtMost(ofR, R, runs) /\ UrgentFirst(R, ToSet(ofR), CallsInWindow)
      /\ ListsAtMost(ofC, C, campaigns) /\ UrgentFirst(C, ToSet(ofC), CallsInWindow)
  BY <1>1, BoardRows DEF ofR, ofC
<1>4. ofR \in Seq(R) /\ ofC \in Seq(C) /\ ToSet(ofR) \subseteq R /\ ToSet(ofC) \subseteq C
  BY <1>3 DEF ListsAtMost, ToSet
<1>5. ToSet(all) = ToSet(ofC) \cup ToSet(ofR)
  <2>1. /\ ofC \in Seq(S) /\ ofR \in Seq(S)
    BY <1>4
  <2>2. /\ Len(all) = Len(ofC) + Len(ofR) /\ DOMAIN all = 1..Len(all)
        /\ Len(ofC) \in Nat /\ DOMAIN ofC = 1..Len(ofC)
        /\ Len(ofR) \in Nat /\ DOMAIN ofR = 1..Len(ofR)
    BY <1>2, <2>1
  <2>3. ASSUME NEW i \in 1..Len(ofC) PROVE i \in DOMAIN all /\ all[i] = ofC[i]
    BY <1>2, <2>1, <2>2
  <2>4. ASSUME NEW i \in 1..Len(ofR)
        PROVE  Len(ofC) + i \in DOMAIN all /\ all[Len(ofC) + i] = ofR[i]
    <3>1. Len(ofC) + i \in Len(ofC) + 1..Len(ofC) + Len(ofR) /\ Len(ofC) + i - Len(ofC) = i
      BY <2>2
    <3> QED BY <1>2, <2>1, <2>2, <3>1
  <2>5. ASSUME NEW i \in DOMAIN all PROVE all[i] \in ToSet(ofC) \cup ToSet(ofR)
    <3>1. CASE i \in 1..Len(ofC)
      BY <3>1, <2>2, <2>3 DEF ToSet
    <3>2. CASE i \notin 1..Len(ofC)
      <4>1. i - Len(ofC) \in 1..Len(ofR) /\ Len(ofC) + (i - Len(ofC)) = i
        BY <3>2, <2>2
      <4> QED BY <4>1, <2>2, <2>4 DEF ToSet
    <3> QED BY <3>1, <3>2
  <2> QED BY <2>2, <2>3, <2>4, <2>5 DEF ToSet
<1>6. ToSet(all) \cap R = ToSet(ofR) /\ ToSet(all) \cap C = ToSet(ofC)
  BY <1>4, <1>5
<1> QED BY <1>3, <1>6 DEF all

-----------------------------------------------------------------------------
(* The layout of the console (ConsoleWindow).                              *)

LEMMA LeastAndMost ==
    \A a, b \in Int : /\ Least(a, b) = IF a <= b THEN a ELSE b
                      /\ Most(a, b) = IF a <= b THEN b ELSE a
<1> SUFFICES ASSUME NEW a \in Int, NEW b \in Int
             PROVE  /\ Least(a, b) = IF a <= b THEN a ELSE b
                    /\ Most(a, b) = IF a <= b THEN b ELSE a
  OBVIOUS
<1> DEFINE low == IF a <= b THEN a ELSE b
           high == IF a <= b THEN b ELSE a
<1>1. low \in {a, b} /\ \A x \in {a, b} : low <= x
  OBVIOUS
<1>2. high \in {a, b} /\ \A x \in {a, b} : high >= x
  OBVIOUS
<1>3. \A x \in {a, b} : (\A y \in {a, b} : x <= y) => x = low
  OBVIOUS
<1>4. \A x \in {a, b} : (\A y \in {a, b} : x >= y) => x = high
  OBVIOUS
<1> HIDE DEF low, high
<1>5. Least(a, b) = low
  BY <1>1, <1>3 DEF Least, Min
<1>6. Most(a, b) = high
  BY <1>2, <1>4 DEF Most, Max
<1> QED BY <1>5, <1>6 DEF low, high

(* Rounding goes to a neighbour at most half a unit away.                  *)
LEMMA RoundedNear ==
    \A a \in Nat : /\ Rounded(a, 96) \in Nat
                   /\ 96 * Rounded(a, 96) <= a + 48 /\ a <= 96 * Rounded(a, 96) + 48
<1> SUFFICES ASSUME NEW a \in Nat
             PROVE  /\ Rounded(a, 96) \in Nat
                    /\ 96 * Rounded(a, 96) <= a + 48 /\ a <= 96 * Rounded(a, 96) + 48
  OBVIOUS
<1> DEFINE q == a \div 96
           r == a % 96
<1>1. q \in Nat /\ r \in 0..95 /\ a = 96 * q + r
  OBVIOUS
<1>2. Rounded(a, 96) = IF 2 * r > 96 \/ (2 * r = 96 /\ q % 2 = 1) THEN q + 1 ELSE q
  BY DEF Rounded
<1> HIDE DEF q, r
<1> QED BY <1>1, <1>2

LEMMA ScaledNear ==
    \A v, d \in Nat : v * d >= 96 =>
        /\ Scaled(v, d) \in Nat \ {0}
        /\ 96 * Scaled(v, d) <= v * d + 48 /\ v * d <= 96 * Scaled(v, d) + 48
<1> SUFFICES ASSUME NEW v \in Nat, NEW d \in Nat, v * d >= 96
             PROVE  /\ Scaled(v, d) \in Nat \ {0}
                    /\ 96 * Scaled(v, d) <= v * d + 48 /\ v * d <= 96 * Scaled(v, d) + 48
  OBVIOUS
<1> DEFINE a == v * d
           k == Rounded(a, 96)
<1>1. a \in Nat /\ a >= 96
  OBVIOUS
<1>2. Scaled(v, d) = Most(1, k)
  BY DEF Scaled
<1> HIDE DEF a
<1>3. k \in Nat /\ 96 * k <= a + 48 /\ a <= 96 * k + 48
  BY <1>1, RoundedNear
<1> HIDE DEF k
<1>4. Most(1, k) = k
  BY <1>1, <1>3, LeastAndMost
<1> QED BY <1>2, <1>3, <1>4, <1>1 DEF a

(* A scaled length is at least one, and its own within half a dot.         *)
Near(v, d) ==
    /\ Scaled(v, d) \in Nat \ {0}
    /\ 96 * Scaled(v, d) <= v * d + 48 /\ v * d <= 96 * Scaled(v, d) + 48
LEMMA ScaledUp == \A v, d \in Nat : v >= 1 /\ d >= 96 => Near(v, d)
<1> SUFFICES ASSUME NEW v \in Nat, NEW d \in Nat, v >= 1, d >= 96 PROVE Near(v, d)
  OBVIOUS
<1>1. v * d >= 96
  OBVIOUS
<1> QED BY <1>1, ScaledNear DEF Near

(* The sizes of the parts are positive, and the margins small beside the   *)
(* least width.                                                            *)
SizesSound(s) ==
    /\ \A field \in {"label", "button", "least", "margin", "gap", "pair", "task",
                     "ackLabel", "ackEdit"} : s[field] \in Nat \ {0}
    /\ s.margin <= 36 /\ s.gap <= 20

(* Whatever is not refused is placed inside the window, in rows, and each  *)
(* row from left to right.                                                 *)
LEMMA PlacedFits ==
    \A w, h \in Int : \A s : SizesSound(s) /\ Placed(w, h, s) # TooSmall
        => ControlsFit([size |-> [w |-> w, h |-> h], rects |-> Placed(w, h, s)])
<1> SUFFICES ASSUME NEW w \in Int, NEW h \in Int, NEW s, SizesSound(s),
                    Placed(w, h, s) # TooSmall
             PROVE  ControlsFit([size |-> [w |-> w, h |-> h], rects |-> Placed(w, h, s)])
  OBVIOUS
<1> DEFINE content == w - 2 * s.margin
           pair == Least(s.pair, Most(1, (content - s.gap) \div 2))
           row == Most(s.label, s.button)
           document == h - (2 * s.margin + 5 * s.gap + 3 * s.label + 2 * s.button + row)
           task == Least(s.task, Most(s.least, document \div 3))
           y1 == s.margin + s.label + s.gap
           y2 == y1 + s.label + task + s.gap
           y3 == y2 + s.button + s.gap
           y4 == y3 + s.label + (document - task) + s.gap
           y5 == y4 + row + s.gap
           across == content - 2 * s.gap
           ackLabel == Least(s.ackLabel, Most(1, across \div 3))
           ackEdit == Least(s.ackEdit, Most(1, (across - ackLabel) \div 2))
           x2 == s.margin + ackLabel + s.gap
           rects == [mode |-> Rect(s.margin, s.margin, content, s.label),
             task_label |-> Rect(s.margin, y1, content, s.label),
             task_edit |-> Rect(s.margin, y1 + s.label, content, task),
             review |-> Rect(s.margin, y2, pair, s.button),
             reset |-> Rect(s.margin + pair + s.gap, y2, pair, s.button),
             detail_label |-> Rect(s.margin, y3, content, s.label),
             detail_edit |-> Rect(s.margin, y3 + s.label, content, document - task),
             ack_label |-> Rect(s.margin, y4, ackLabel, row),
             ack_edit |-> Rect(x2, y4, ackEdit, row),
             ack_button |-> Rect(x2 + ackEdit + s.gap, y4, across - ackLabel - ackEdit, row),
             start |-> Rect(s.margin, y5, pair, s.button),
             cancel |-> Rect(w - s.margin - pair, y5, pair, s.button)]
<1>1. /\ Placed(w, h, s) = rects
      /\ ~(w < MinWidth \/ h < MinHeight \/ content <= s.gap \/ document < 2 * s.least)
  <2> DEFINE refused == w < MinWidth \/ h < MinHeight \/ content <= s.gap \/ document < 2 * s.least
  <2>1. Placed(w, h, s) = IF refused THEN TooSmall ELSE rects
    BY DEF Placed
  <2> HIDE DEF refused, rects
  <2>2. Placed(w, h, s) = rects /\ ~refused
    BY <2>1
  <2> QED BY <2>2, ZenonT(30) DEF refused
<1> HIDE DEF rects
<1>2. /\ s.label \in Nat \ {0} /\ s.button \in Nat \ {0} /\ s.least \in Nat \ {0}
      /\ s.margin \in Nat \ {0} /\ s.gap \in Nat \ {0} /\ s.pair \in Nat \ {0}
      /\ s.task \in Nat \ {0} /\ s.ackLabel \in Nat \ {0} /\ s.ackEdit \in Nat \ {0}
      /\ s.margin <= 36 /\ s.gap <= 20
  BY DEF SizesSound
<1>3. content \in Int /\ content >= 608 /\ content + 2 * s.margin = w
  BY <1>1, <1>2 DEF MinWidth
<1>4. pair \in Nat \ {0} /\ 2 * pair + s.gap <= content
  <2> HIDE DEF content
  <2>1. (content - s.gap) \div 2 \in Int /\ (content - s.gap) \div 2 >= 1
        /\ 2 * ((content - s.gap) \div 2) <= content - s.gap
    BY <1>2, <1>3
  <2> HIDE DEF content
  <2> QED BY <1>2, <1>3, <2>1, LeastAndMost
<1>5. row \in Nat \ {0} /\ row >= s.label /\ row >= s.button
  BY <1>2, LeastAndMost
<1>6. document \in Int /\ document >= 2 * s.least
      /\ document + 2 * s.margin + 5 * s.gap + 3 * s.label + 2 * s.button + row = h
  <2> HIDE DEF row
  <2> QED BY <1>1, <1>2, <1>5
<1> HIDE DEF content, pair, row, document
<1>7. task \in Nat \ {0} /\ task < document
  <2>1. document \div 3 \in Int /\ 3 * (document \div 3) <= document
    BY <1>6
  <2> QED BY <1>2, <1>6, <2>1, LeastAndMost
<1>8. /\ ackLabel \in Nat \ {0} /\ ackEdit \in Nat \ {0}
      /\ across \in Int /\ ackLabel + ackEdit < across
      /\ across + 2 * s.gap + 2 * s.margin = w
  <2>1. across \in Int /\ across >= 500 /\ across + 2 * s.gap + 2 * s.margin = w
    BY <1>2, <1>3
  <2> HIDE DEF across
  <2>2. across \div 3 \in Int /\ across \div 3 >= 1 /\ 3 * (across \div 3) <= across
    BY <2>1
  <2>3. ackLabel \in Nat \ {0} /\ 3 * ackLabel <= across
    BY <1>2, <2>1, <2>2, LeastAndMost
  <2> HIDE DEF ackLabel
  <2>4. /\ (across - ackLabel) \div 2 \in Int /\ (across - ackLabel) \div 2 >= 1
        /\ 2 * ((across - ackLabel) \div 2) <= across - ackLabel
    BY <2>1, <2>3
  <2>5. ackEdit \in Nat \ {0} /\ 2 * ackEdit <= across - ackLabel
    BY <1>2, <2>1, <2>3, <2>4, LeastAndMost
  <2> QED BY <2>1, <2>3, <2>5
<1> HIDE DEF task, ackLabel, ackEdit, across
<1> DEFINE names == {"mode", "task_label", "task_edit", "review", "reset", "detail_label",
                     "detail_edit", "ack_label", "ack_edit", "ack_button", "start", "cancel"}
<1>9. y1 \in Nat /\ y2 \in Nat /\ y3 \in Nat /\ y4 \in Nat /\ y5 \in Nat
      /\ y5 + s.button + s.margin = h /\ x2 \in Nat
  <2>1. y1 \in Nat /\ y2 \in Nat /\ y3 \in Nat /\ x2 \in Nat
    BY <1>2, <1>7, <1>8
  <2>2. y4 \in Nat /\ y4 = s.margin + 3 * s.label + 4 * s.gap + s.button + document
    BY <1>2, <1>6, <1>7
  <2>3. y5 \in Nat /\ y5 = y4 + row + s.gap
    BY <1>2, <1>5, <2>2
  <2>4. y5 + s.button + s.margin = h
    <3> HIDE DEF y4, y5
    <3> QED BY <1>2, <1>5, <1>6, <2>2, <2>3
  <2> QED BY <2>1, <2>2, <2>3, <2>4
<1>10. /\ y1 \in Int /\ y1 >= s.margin + s.label
       /\ y2 \in Int /\ y2 >= y1 + s.label + task
       /\ y3 \in Int /\ y3 >= y2 + s.button
       /\ y4 \in Int /\ y4 >= y3 + s.label + (document - task)
       /\ y5 \in Int /\ y5 >= y4 + row /\ y5 + s.button <= h
       /\ x2 \in Int /\ x2 >= s.margin + ackLabel
       /\ x2 + ackEdit + s.gap + (across - ackLabel - ackEdit) <= w
  <2>1. /\ x2 \in Int /\ x2 >= s.margin + ackLabel
        /\ x2 + ackEdit + s.gap + (across - ackLabel - ackEdit) <= w
    BY <1>2, <1>8, <1>9
  <2>2. y5 \in Int /\ y5 >= y4 + row /\ y5 + s.button <= h
    <3> HIDE DEF y4
    <3> QED BY <1>2, <1>5, <1>9
  <2>3. y4 \in Int /\ y4 >= y3 + s.label + (document - task)
    <3> HIDE DEF y3
    <3> QED BY <1>2, <1>6, <1>7, <1>9
  <2>4. y3 \in Int /\ y3 >= y2 + s.button
    <3> HIDE DEF y2
    <3> QED BY <1>2, <1>9
  <2>5. y2 \in Int /\ y2 >= y1 + s.label + task
    <3> HIDE DEF y1
    <3> QED BY <1>2, <1>7, <1>9
  <2>6. y1 \in Int /\ y1 >= s.margin + s.label
    BY <1>2
  <2> QED BY <2>1, <2>2, <2>3, <2>4, <2>5, <2>6
<1>11. /\ rects["mode"] = Rect(s.margin, s.margin, content, s.label)
       /\ rects["task_label"] = Rect(s.margin, y1, content, s.label)
       /\ rects["task_edit"] = Rect(s.margin, y1 + s.label, content, task)
       /\ rects["review"] = Rect(s.margin, y2, pair, s.button)
       /\ rects["reset"] = Rect(s.margin + pair + s.gap, y2, pair, s.button)
       /\ rects["detail_label"] = Rect(s.margin, y3, content, s.label)
       /\ rects["detail_edit"] = Rect(s.margin, y3 + s.label, content, document - task)
       /\ rects["ack_label"] = Rect(s.margin, y4, ackLabel, row)
       /\ rects["ack_edit"] = Rect(x2, y4, ackEdit, row)
       /\ rects["ack_button"] = Rect(x2 + ackEdit + s.gap, y4, across - ackLabel - ackEdit, row)
       /\ rects["start"] = Rect(s.margin, y5, pair, s.button)
       /\ rects["cancel"] = Rect(w - s.margin - pair, y5, pair, s.button)
  BY DEF rects
<1>12. DOMAIN rects = names
  BY DEF rects
<1> HIDE DEF rects, y1, y2, y3, y4, y5, x2
<1>13. ASSUME NEW a \in names
       PROVE  /\ rects[a].w > 0 /\ rects[a].h > 0
              /\ Inside(rects[a], Rect(0, 0, w, h))
  <2>1. CASE a = "mode"
    BY <2>1, <1>2, <1>3, <1>4, <1>5, <1>6, <1>7, <1>8, <1>10, <1>11 DEF Rect, Inside
  <2>2. CASE a = "task_label"
    BY <2>2, <1>2, <1>3, <1>4, <1>5, <1>6, <1>7, <1>8, <1>10, <1>11 DEF Rect, Inside
  <2>3. CASE a = "task_edit"
    BY <2>3, <1>2, <1>3, <1>4, <1>5, <1>6, <1>7, <1>8, <1>10, <1>11 DEF Rect, Inside
  <2>4. CASE a = "review"
    BY <2>4, <1>2, <1>3, <1>4, <1>5, <1>6, <1>7, <1>8, <1>10, <1>11 DEF Rect, Inside
  <2>5. CASE a = "reset"
    BY <2>5, <1>2, <1>3, <1>4, <1>5, <1>6, <1>7, <1>8, <1>10, <1>11 DEF Rect, Inside
  <2>6. CASE a = "detail_label"
    BY <2>6, <1>2, <1>3, <1>4, <1>5, <1>6, <1>7, <1>8, <1>10, <1>11 DEF Rect, Inside
  <2>7. CASE a = "detail_edit"
    BY <2>7, <1>2, <1>3, <1>4, <1>5, <1>6, <1>7, <1>8, <1>10, <1>11 DEF Rect, Inside
  <2>8. CASE a = "ack_label"
    BY <2>8, <1>2, <1>3, <1>4, <1>5, <1>6, <1>7, <1>8, <1>10, <1>11 DEF Rect, Inside
  <2>9. CASE a = "ack_edit"
    BY <2>9, <1>2, <1>3, <1>4, <1>5, <1>6, <1>7, <1>8, <1>10, <1>11 DEF Rect, Inside
  <2>10. CASE a = "ack_button"
    BY <2>10, <1>2, <1>3, <1>4, <1>5, <1>6, <1>7, <1>8, <1>10, <1>11 DEF Rect, Inside
  <2>11. CASE a = "start"
    BY <2>11, <1>2, <1>3, <1>4, <1>5, <1>6, <1>7, <1>8, <1>10, <1>11 DEF Rect, Inside
  <2>12. CASE a = "cancel"
    BY <2>12, <1>2, <1>3, <1>4, <1>5, <1>6, <1>7, <1>8, <1>10, <1>11 DEF Rect, Inside
  <2> QED
    BY <2>1, <2>2, <2>3, <2>4, <2>5, <2>6, <2>7, <2>8, <2>9, <2>10, <2>11, <2>12
<1>14. ASSUME NEW a \in names, NEW b \in names, a # b
       PROVE  Apart(rects[a], rects[b])
  <2>1. CASE a = "mode"
    BY <1>14, <2>1, <1>2, <1>3, <1>4, <1>5, <1>6, <1>7, <1>8, <1>10, <1>11 DEF Rect, Apart
  <2>2. CASE a = "task_label"
    BY <1>14, <2>2, <1>2, <1>3, <1>4, <1>5, <1>6, <1>7, <1>8, <1>10, <1>11 DEF Rect, Apart
  <2>3. CASE a = "task_edit"
    BY <1>14, <2>3, <1>2, <1>3, <1>4, <1>5, <1>6, <1>7, <1>8, <1>10, <1>11 DEF Rect, Apart
  <2>4. CASE a = "review"
    BY <1>14, <2>4, <1>2, <1>3, <1>4, <1>5, <1>6, <1>7, <1>8, <1>10, <1>11 DEF Rect, Apart
  <2>5. CASE a = "reset"
    BY <1>14, <2>5, <1>2, <1>3, <1>4, <1>5, <1>6, <1>7, <1>8, <1>10, <1>11 DEF Rect, Apart
  <2>6. CASE a = "detail_label"
    BY <1>14, <2>6, <1>2, <1>3, <1>4, <1>5, <1>6, <1>7, <1>8, <1>10, <1>11 DEF Rect, Apart
  <2>7. CASE a = "detail_edit"
    BY <1>14, <2>7, <1>2, <1>3, <1>4, <1>5, <1>6, <1>7, <1>8, <1>10, <1>11 DEF Rect, Apart
  <2>8. CASE a = "ack_label"
    BY <1>14, <2>8, <1>2, <1>3, <1>4, <1>5, <1>6, <1>7, <1>8, <1>10, <1>11 DEF Rect, Apart
  <2>9. CASE a = "ack_edit"
    BY <1>14, <2>9, <1>2, <1>3, <1>4, <1>5, <1>6, <1>7, <1>8, <1>10, <1>11 DEF Rect, Apart
  <2>10. CASE a = "ack_button"
    BY <1>14, <2>10, <1>2, <1>3, <1>4, <1>5, <1>6, <1>7, <1>8, <1>10, <1>11 DEF Rect, Apart
  <2>11. CASE a = "start"
    BY <1>14, <2>11, <1>2, <1>3, <1>4, <1>5, <1>6, <1>7, <1>8, <1>10, <1>11 DEF Rect, Apart
  <2>12. CASE a = "cancel"
    BY <1>14, <2>12, <1>2, <1>3, <1>4, <1>5, <1>6, <1>7, <1>8, <1>10, <1>11 DEF Rect, Apart
  <2> QED
    BY <2>1, <2>2, <2>3, <2>4, <2>5, <2>6, <2>7, <2>8, <2>9, <2>10, <2>11, <2>12
<1> QED BY <1>1, <1>13, <1>14, <1>12 DEF ControlsFit

(* The dots per inch of the layout and of its text, at any scale.          *)
Dpis(g, t) == g \in 96..192 /\ t \in 96..384 /\ g = IF t <= 192 THEN t ELSE 192
LEMMA DpisBounded ==
    \A d, scale \in Int : Dpis(LayoutDpi(d, scale), TextDpi(d, scale))
<1> SUFFICES ASSUME NEW d \in Int, NEW scale \in Int
             PROVE  Dpis(LayoutDpi(d, scale), TextDpi(d, scale))
  OBVIOUS
<1> DEFINE k == Rounded(d * scale, 100)
           t == TextDpi(d, scale)
<1>1. k \in Int
  <2>1. d * scale \in Int
    OBVIOUS
  <2>2. (d * scale) \div 100 \in Int
    BY <2>1
  <2> QED BY <2>2 DEF Rounded
<1>2. t = Least(384, Most(96, k))
  BY DEF TextDpi
<1> HIDE DEF k
<1>3. t \in 96..384
  <2>1. Most(96, k) \in Int /\ Most(96, k) >= 96
    BY <1>1, LeastAndMost
  <2> QED BY <1>2, <2>1, LeastAndMost, SMTT(30)
<1>4. LayoutDpi(d, scale) = IF t <= 192 THEN t ELSE 192
  <2>1. LayoutDpi(d, scale) = Least(192, t)
    BY DEF LayoutDpi
  <2> HIDE DEF t
  <2> QED BY <2>1, <1>3, LeastAndMost
<1> HIDE DEF t
<1> QED BY <1>3, <1>4 DEF Dpis, t

(* The sizes that these ask for.                                           *)
LEMMA SizesBounded ==
    \A g, t : Dpis(g, t) =>
        LET s == Sizes(g, t) IN
        /\ SizesSound(s)
        /\ s.margin >= 4 /\ s.gap >= 4
        /\ s.label <= s.button
        /\ s.label <= 76 /\ s.button <= 88 /\ s.least <= 76
        /\ t <= 192 => /\ 96 * s.label <= 22 * g + 48
                       /\ 96 * s.button <= 38 * g + 48
                       /\ 96 * s.least <= 32 * g + 48
<1> SUFFICES ASSUME NEW g, NEW t, Dpis(g, t)
             PROVE  LET s == Sizes(g, t) IN
                    /\ SizesSound(s)
                    /\ s.margin >= 4 /\ s.gap >= 4
                    /\ s.label <= s.button
                    /\ s.label <= 76 /\ s.button <= 88 /\ s.least <= 76
                    /\ t <= 192 => /\ 96 * s.label <= 22 * g + 48
                                   /\ 96 * s.button <= 38 * g + 48
                                   /\ 96 * s.least <= 32 * g + 48
  OBVIOUS
<1> DEFINE s == Sizes(g, t)
<1>1. g \in 96..192 /\ t \in 96..384 /\ g = IF t <= 192 THEN t ELSE 192
  BY DEF Dpis
<1>2. /\ Near(22, g) /\ Near(38, g) /\ Near(32, g) /\ Near(18, g) /\ Near(10, g)
      /\ Near(150, g) /\ Near(92, g) /\ Near(170, g) /\ Near(190, g)
  BY <1>1, ScaledUp
<1>3. /\ Near(19, t) /\ Near(22, t) /\ Near(120, t) /\ Near(54, t)
      /\ Near(130, t) /\ Near(140, t)
  BY <1>1, ScaledUp
<1>4. /\ s.label = Most(Scaled(22, g), Scaled(19, t))
      /\ s.button = Most(Scaled(38, g), Scaled(22, t))
      /\ s.least = Most(Scaled(32, g), Scaled(19, t))
      /\ s.margin = Scaled(18, g) /\ s.gap = Scaled(10, g)
      /\ s.pair = Most(Scaled(150, g), Scaled(120, t))
      /\ s.task = Most(Scaled(92, g), Scaled(54, t))
      /\ s.ackLabel = Most(Scaled(170, g), Scaled(130, t))
      /\ s.ackEdit = Most(Scaled(190, g), Scaled(140, t))
  BY DEF Sizes
<1> HIDE DEF s
<1>5. \A u, v : Near(u, g) /\ Near(v, t) => Most(Scaled(u, g), Scaled(v, t)) \in Nat \ {0}
  <2>1. \A a, b \in Nat \ {0} : Most(a, b) \in Nat \ {0}
    BY LeastAndMost
  <2> QED BY <2>1 DEF Near
<1>6. /\ s.label \in Nat \ {0} /\ s.button \in Nat \ {0} /\ s.least \in Nat \ {0}
      /\ s.pair \in Nat \ {0} /\ s.task \in Nat \ {0}
      /\ s.ackLabel \in Nat \ {0} /\ s.ackEdit \in Nat \ {0}
  BY <1>2, <1>3, <1>4, <1>5
<1>7. /\ s.margin \in Nat \ {0} /\ s.margin <= 36 /\ s.margin >= 4
      /\ s.gap \in Nat \ {0} /\ s.gap <= 20 /\ s.gap >= 4
  BY <1>1, <1>2, <1>4 DEF Near
<1>8. SizesSound(s)
  BY <1>6, <1>7 DEF SizesSound
<1>9. s.label <= 76 /\ s.label <= s.button
  BY <1>1, <1>2, <1>3, <1>4, LeastAndMost DEF Near
<1>10. s.button <= 88
  BY <1>1, <1>2, <1>3, <1>4, LeastAndMost DEF Near
<1>11. s.least <= 76
  BY <1>1, <1>2, <1>3, <1>4, LeastAndMost DEF Near
<1>12. ASSUME t <= 192 PROVE /\ 96 * s.label <= 22 * g + 48
                             /\ 96 * s.button <= 38 * g + 48
                             /\ 96 * s.least <= 32 * g + 48
  BY <1>12, <1>1, <1>2, <1>3, <1>4, LeastAndMost DEF Near
<1> QED BY <1>7, <1>8, <1>9, <1>10, <1>11, <1>12 DEF s

LEMMA SpacedSound ==
    \A g, t : \A h \in Int : Dpis(g, t) => SizesSound(Spaced(h, Sizes(g, t)))
<1> SUFFICES ASSUME NEW g, NEW t, NEW h \in Int, Dpis(g, t)
             PROVE  SizesSound(Spaced(h, Sizes(g, t)))
  OBVIOUS
<1> DEFINE s == Sizes(g, t)
           small == [s EXCEPT !.margin = Least(@, 4), !.gap = Least(@, 4)]
<1>1. Spaced(h, s) \in {s, small}
  BY DEF Spaced
<1>2. SizesSound(s) /\ s.margin >= 4 /\ s.gap >= 4
  BY SizesBounded
<1>3. DOMAIN s = {"label", "button", "least", "margin", "gap", "pair", "task",
                  "ackLabel", "ackEdit"}
  BY DEF Sizes
<1> HIDE DEF s
<1>4. Least(s.margin, 4) = 4 /\ Least(s.gap, 4) = 4
  BY <1>2, LeastAndMost DEF SizesSound
<1>5. SizesSound(small)
  BY <1>2, <1>3, <1>4 DEF SizesSound
<1> QED BY <1>1, <1>2, <1>5 DEF s

(* A window takes the controls exactly when it is as wide and as tall as    *)
(* they need at least.                                                     *)
LEMMA RoomIsExact ==
    \A g, t : \A w, h \in Int : Dpis(g, t) =>
        (Placed(w, h, Spaced(h, Sizes(g, t))) # TooSmall
             <=> w >= MinWidth /\ h >= LeastHeight(Sizes(g, t)))
<1> SUFFICES ASSUME NEW g, NEW t, NEW w \in Int, NEW h \in Int, Dpis(g, t)
             PROVE  Placed(w, h, Spaced(h, Sizes(g, t))) # TooSmall
                        <=> w >= MinWidth /\ h >= LeastHeight(Sizes(g, t))
  OBVIOUS
<1> DEFINE s == Sizes(g, t)
           p == Spaced(h, s)
           row == Most(p.label, p.button)
           tight == h < 2 * s.margin + 5 * s.gap + 3 * s.label + 3 * s.button + 2 * s.least
<1>1. /\ SizesSound(s)
      /\ s.margin >= 4 /\ s.gap >= 4
      /\ s.label <= s.button
      /\ s.label <= 76 /\ s.button <= 88 /\ s.least <= 76
      /\ t <= 192 => /\ 96 * s.label <= 22 * g + 48
                     /\ 96 * s.button <= 38 * g + 48
                     /\ 96 * s.least <= 32 * g + 48
  BY SizesBounded
<1>2. SizesSound(p)
  BY SpacedSound
<1>3. /\ s.label \in Nat /\ s.button \in Nat /\ s.least \in Nat
      /\ s.margin \in Nat /\ s.gap \in Nat
  BY <1>1 DEF SizesSound
<1>4. /\ p.label = s.label /\ p.button = s.button /\ p.least = s.least
      /\ p.margin = (IF tight THEN 4 ELSE s.margin)
      /\ p.gap = (IF tight THEN 4 ELSE s.gap)
  <2>1. Least(s.margin, 4) = 4 /\ Least(s.gap, 4) = 4
    BY <1>1, <1>3, LeastAndMost
  <2>2. DOMAIN s = {"label", "button", "least", "margin", "gap", "pair", "task",
                    "ackLabel", "ackEdit"}
    BY DEF Sizes
  <2>3. p = IF tight THEN [s EXCEPT !.margin = Least(@, 4), !.gap = Least(@, 4)] ELSE s
    BY DEF Spaced
  <2> HIDE DEF s, p, tight
  <2> QED BY <2>1, <2>2, <2>3
<1>5. row = s.button
  BY <1>1, <1>3, <1>4, LeastAndMost
<1> HIDE DEF s, p, row
<1>6. /\ p.margin \in Nat /\ p.margin <= 36 /\ p.gap \in Nat /\ p.gap <= 20
  BY <1>2 DEF SizesSound
<1> DEFINE document == h - (2 * p.margin + 5 * p.gap + 3 * p.label + 2 * p.button + row)
           needed == 28 + 3 * s.label + 3 * s.button + 2 * s.least
           refused == w < MinWidth \/ h < MinHeight \/ w - 2 * p.margin <= p.gap
                          \/ document < 2 * p.least
<1>7. document >= 2 * p.least <=> h >= needed
  <2>1. CASE ~tight
    BY <2>1, <1>1, <1>3, <1>4, <1>5
  <2>2. CASE tight
    BY <2>2, <1>1, <1>3, <1>4, <1>5
  <2> QED BY <2>1, <2>2
<1>8. h >= LeastHeight(s) <=> h >= 600 /\ h >= needed
  BY <1>3, LeastAndMost DEF LeastHeight, MinHeight
<1>9. refused <=> ~(w >= 680 /\ h >= LeastHeight(s))
  <2> HIDE DEF needed
  <2>1. document \in Int /\ 2 * p.least \in Int
    BY <1>3, <1>4, <1>5, <1>6
  <2> HIDE DEF document
  <2> QED BY <2>1, <1>6, <1>7, <1>8 DEF MinWidth, MinHeight
<1>10. \E all : Placed(w, h, p) = (IF refused THEN TooSmall ELSE all) /\ "mode" \in DOMAIN all
  BY DEF Placed, row
<1>11. "mode" \notin DOMAIN TooSmall
  BY DEF TooSmall
<1> HIDE DEF refused
<1>12. Placed(w, h, p) # TooSmall <=> w >= 680 /\ h >= LeastHeight(s)
  BY <1>9, <1>10, <1>11
<1> QED BY <1>12 DEF s, p, MinWidth

(* A client area as it is first asked for takes the controls.               *)
LEMMA ClientIsEnough ==
    \A d, scale \in Int :
        LET size == ClientSize(d, scale) IN
        /\ size.w \in Int /\ size.w >= MinWidth
        /\ size.h \in Int /\ size.h >= LeastHeight(Sizes(LayoutDpi(d, scale), TextDpi(d, scale)))
<1> SUFFICES ASSUME NEW d \in Int, NEW scale \in Int
             PROVE  LET size == ClientSize(d, scale) IN
                    /\ size.w \in Int /\ size.w >= MinWidth
                    /\ size.h \in Int
                    /\ size.h >= LeastHeight(Sizes(LayoutDpi(d, scale), TextDpi(d, scale)))
  OBVIOUS
<1> DEFINE g == LayoutDpi(d, scale)
           t == TextDpi(d, scale)
           s == Sizes(g, t)
           size == ClientSize(d, scale)
<1>1. Dpis(g, t)
  BY DpisBounded
<1>2. size.w = Most(MinWidth, Scaled(980, g)) /\ size.h = Most(MinHeight, Scaled(780, g))
  BY DEF ClientSize
<1> HIDE DEF g, t, size
<1>3. g \in 96..192 /\ t \in 96..384 /\ g = IF t <= 192 THEN t ELSE 192
  BY <1>1 DEF Dpis
<1>4. /\ Scaled(980, g) \in Nat /\ Scaled(780, g) \in Nat /\ 780 * g <= 96 * Scaled(780, g) + 48
  <2>1. Near(980, g) /\ Near(780, g)
    BY <1>3, ScaledUp
  <2> QED BY <2>1 DEF Near
<1>5. /\ size.w \in Int /\ size.w >= 680
      /\ size.h \in Int /\ size.h >= 600 /\ 780 * g <= 96 * size.h + 48
  BY <1>2, <1>3, <1>4, LeastAndMost DEF MinWidth, MinHeight
<1>6. /\ s.label \in Nat /\ s.button \in Nat /\ s.least \in Nat
      /\ s.label <= 76 /\ s.button <= 88 /\ s.least <= 76
      /\ t <= 192 => /\ 96 * s.label <= 22 * g + 48
                     /\ 96 * s.button <= 38 * g + 48
                     /\ 96 * s.least <= 32 * g + 48
  BY <1>1, SizesBounded DEF SizesSound
<1> HIDE DEF s
<1>7. size.h >= 28 + 3 * s.label + 3 * s.button + 2 * s.least
  <2>1. CASE t <= 192
    BY <2>1, <1>3, <1>5, <1>6
  <2>2. CASE ~(t <= 192)
    BY <2>2, <1>3, <1>5, <1>6
  <2> QED BY <2>1, <2>2
<1>8. size.h >= LeastHeight(s)
  BY <1>5, <1>6, <1>7, LeastAndMost DEF LeastHeight, MinHeight
<1> QED BY <1>5, <1>8 DEF MinWidth, size, s, g, t

(* So the size a window is restored to takes them exactly on the work      *)
(* areas that have room.                                                   *)
WorkArea == [x : Int, y : Int, w : Nat \ {0}, h : Nat \ {0}]
LEMMA FrameIsNat == \A d \in Nat : d >= 96 => Frame(d).w \in Nat /\ Frame(d).h \in Nat
<1> SUFFICES ASSUME NEW d \in Nat, d >= 96 PROVE Frame(d).w \in Nat /\ Frame(d).h \in Nat
  OBVIOUS
<1>1. Near(16, d) /\ Near(39, d)
  BY ScaledUp
<1> QED BY <1>1 DEF Frame, Near

LEMMA RestoredTakes ==
    \A d \in Nat : \A scale \in Int : \A area \in WorkArea : d >= 96 =>
        LET size == Restored(d, scale, area) IN
        /\ size.w \in Int /\ size.h \in Int
        /\ Placing(size, d, scale).rects # TooSmall <=> HasRoom(d, scale, area)
<1> SUFFICES ASSUME NEW d \in Nat, NEW scale \in Int, NEW area \in WorkArea, d >= 96
             PROVE  LET size == Restored(d, scale, area) IN
                    /\ size.w \in Int /\ size.h \in Int
                    /\ Placing(size, d, scale).rects # TooSmall <=> HasRoom(d, scale, area)
  OBVIOUS
<1> DEFINE size == Restored(d, scale, area)
           first == ClientSize(d, scale)
           frame == Frame(d)
           g == LayoutDpi(d, scale)
           t == TextDpi(d, scale)
           least == LeastHeight(Sizes(g, t))
<1>1. Dpis(g, t)
  BY DpisBounded
<1>2. /\ size.w = Least(first.w + frame.w, area.w) - frame.w
      /\ size.h = Least(first.h + frame.h, area.h) - frame.h
  BY DEF Restored, BoundedAt, OuterSize
<1>3. Placing(size, d, scale).rects = Placed(size.w, size.h, Spaced(size.h, Sizes(g, t)))
  BY DEF Placing, LayoutRects
<1>4. frame.w \in Nat /\ frame.h \in Nat
  BY FrameIsNat
<1>5. /\ first.w \in Int /\ first.w >= 680
      /\ first.h \in Int /\ first.h >= least
  BY ClientIsEnough DEF MinWidth
<1>6. least \in Int
  <2>1. \A s : SizesSound(s) => LeastHeight(s) \in Int
    BY LeastAndMost DEF LeastHeight, SizesSound, MinHeight
  <2> QED BY <2>1, <1>1, SizesBounded
<1>7. HasRoom(d, scale, area) <=> area.w >= 680 + frame.w /\ area.h >= least + frame.h
  BY DEF HasRoom, MinWidth
<1>8. area.w \in Int /\ area.h \in Int
  BY DEF WorkArea
<1> HIDE DEF size, first, frame, least
<1>9. size.w \in Int /\ (size.w >= 680 <=> area.w >= 680 + frame.w)
  BY <1>2, <1>4, <1>5, <1>8, LeastAndMost
<1>10. size.h \in Int /\ (size.h >= least <=> area.h >= least + frame.h)
  BY <1>2, <1>4, <1>5, <1>6, <1>8, LeastAndMost
<1>11. Placed(size.w, size.h, Spaced(size.h, Sizes(g, t))) # TooSmall
           <=> size.w >= 680 /\ size.h >= least
  BY <1>1, <1>9, <1>10, RoomIsExact DEF MinWidth, least
<1>12. Placing(size, d, scale).rects # TooSmall <=> HasRoom(d, scale, area)
  BY <1>3, <1>7, <1>9, <1>10, <1>11
<1> QED BY <1>9, <1>10, <1>12 DEF size

(* The screen that the code names, 1366x728: below 137 dots per inch it has *)
(* room at every text scale, and at 192 for text of its plain size, but not *)
(* for text at 400%, where the controls are not placed.                    *)
NamedScreen == Rect(0, 0, 1366, 728)
LEMMA NamedScreenRoom ==
    /\ \A d \in 96..136 : \A scale \in Int : HasRoom(d, scale, NamedScreen)
    /\ HasRoom(192, 100, NamedScreen) /\ ~HasRoom(192, 400, NamedScreen)
<1>1. ASSUME NEW d \in 96..136, NEW scale \in Int PROVE HasRoom(d, scale, NamedScreen)
  <2> DEFINE s == Sizes(LayoutDpi(d, scale), TextDpi(d, scale))
  <2>1. Near(16, d) /\ Near(39, d)
    BY ScaledUp
  <2>2. Frame(d).w \in Nat /\ Frame(d).w <= 24 /\ Frame(d).h \in Nat /\ Frame(d).h <= 55
    BY <2>1 DEF Near, Frame
  <2>3. /\ s.label \in Nat /\ s.button \in Nat /\ s.least \in Nat
        /\ s.label <= 76 /\ s.button <= 88 /\ s.least <= 76
    BY DpisBounded, SizesBounded DEF SizesSound
  <2>4. HasRoom(d, scale, NamedScreen)
            <=> /\ 1366 >= 680 + Frame(d).w
                /\ 728 >= LeastHeight(s) + Frame(d).h
    BY DEF HasRoom, NamedScreen, Rect, MinWidth
  <2> HIDE DEF s
  <2>5. LeastHeight(s) \in Int /\ LeastHeight(s) <= 672
    BY <2>3, LeastAndMost DEF LeastHeight, MinHeight
  <2> QED BY <2>2, <2>4, <2>5
<1>2. Frame(192) = [w |-> 32, h |-> 78]
  <2>1. Rounded(16 * 192, 96) = 32 /\ Rounded(39 * 192, 96) = 78
    BY DEF Rounded
  <2> QED BY <2>1, LeastAndMost DEF Frame, Scaled
<1>3. /\ TextDpi(192, 100) = 192 /\ LayoutDpi(192, 100) = 192
      /\ TextDpi(192, 400) = 384 /\ LayoutDpi(192, 400) = 192
  <2>1. Rounded(192 * 100, 100) = 192 /\ Rounded(192 * 400, 100) = 768
    BY DEF Rounded
  <2>2. TextDpi(192, 100) = 192 /\ TextDpi(192, 400) = 384
    BY <2>1, LeastAndMost DEF TextDpi
  <2> QED BY <2>2, LeastAndMost DEF LayoutDpi
<1>4. /\ Scaled(22, 192) = 44 /\ Scaled(19, 192) = 38 /\ Scaled(38, 192) = 76
      /\ Scaled(32, 192) = 64 /\ Scaled(19, 384) = 76 /\ Scaled(22, 384) = 88
  <2>1. /\ Rounded(22 * 192, 96) = 44 /\ Rounded(19 * 192, 96) = 38
        /\ Rounded(38 * 192, 96) = 76 /\ Rounded(32 * 192, 96) = 64
        /\ Rounded(19 * 384, 96) = 76 /\ Rounded(22 * 384, 96) = 88
    BY DEF Rounded
  <2> QED BY <2>1, LeastAndMost DEF Scaled
<1>5. /\ Sizes(192, 192).label = 44 /\ Sizes(192, 192).button = 76 /\ Sizes(192, 192).least = 64
      /\ Sizes(192, 384).label = 76 /\ Sizes(192, 384).button = 88 /\ Sizes(192, 384).least = 76
  BY <1>4, LeastAndMost DEF Sizes
<1>6. LeastHeight(Sizes(192, 192)) = 600 /\ LeastHeight(Sizes(192, 384)) = 672
  BY <1>5, LeastAndMost DEF LeastHeight, MinHeight
<1>7. HasRoom(192, 100, NamedScreen) /\ ~HasRoom(192, 400, NamedScreen)
  BY <1>2, <1>3, <1>6 DEF HasRoom, NamedScreen, Rect, MinWidth
<1> QED BY <1>1, <1>7

(* formal_demo_console_win32.py:272-402,867-881: at every size the window  *)
(* is dragged to, on every work area, at every DPI the code accepts and    *)
(* every text scale, the controls that are placed are inside the window    *)
(* and apart; all are placed where the work area has room, and only there  *)
(* does restoring the size help.                                           *)
THEOREM ControlsAlwaysFit ==
    \A size \in [w : Int, h : Int], d \in 96..768, scale \in Int, area \in WorkArea :
        ControlsApart(size, d, scale, area)
<1> SUFFICES ASSUME NEW size \in [w : Int, h : Int], NEW d \in 96..768, NEW scale \in Int,
                    NEW area \in WorkArea
             PROVE  ControlsApart(size, d, scale, area)
  OBVIOUS
<1> DEFINE again == Restored(d, scale, area)
           laid == Laid(size, d, scale, area)
           g == LayoutDpi(d, scale)
           t == TextDpi(d, scale)
<1>1. d \in Nat /\ d >= 96
  OBVIOUS
<1>2. /\ again.w \in Int /\ again.h \in Int
      /\ Placing(again, d, scale).rects # TooSmall <=> HasRoom(d, scale, area)
  BY <1>1, RestoredTakes
<1>3. again = [w |-> again.w, h |-> again.h]
  BY DEF Restored
<1>4. ASSUME NEW a \in Int, NEW b \in Int,
             Placing([w |-> a, h |-> b], d, scale).rects # TooSmall
      PROVE  ControlsFit(Placing([w |-> a, h |-> b], d, scale))
  <2> DEFINE s == Spaced(b, Sizes(g, t))
  <2>1. Placing([w |-> a, h |-> b], d, scale)
            = [size |-> [w |-> a, h |-> b], rects |-> Placed(a, b, s)]
    BY DEF Placing, LayoutRects
  <2>2. SizesSound(s)
    BY <1>1, SpacedSound, DpisBounded
  <2> HIDE DEF s
  <2> QED BY <1>4, <2>1, <2>2, PlacedFits
<1> HIDE DEF again
<1>5. laid = IF Placing(size, d, scale).rects # TooSmall
             THEN Placing(size, d, scale) ELSE Placing(again, d, scale)
  BY DEF Laid, OrElse, again
<1> HIDE DEF laid
<1>6. laid.rects # TooSmall => ControlsFit(laid)
  <2>1. CASE Placing(size, d, scale).rects # TooSmall
    <3>1. size = [w |-> size.w, h |-> size.h] /\ size.w \in Int /\ size.h \in Int
      OBVIOUS
    <3>2. ControlsFit(Placing([w |-> size.w, h |-> size.h], d, scale))
      BY <2>1, <3>1, <1>4
    <3> QED BY <2>1, <3>1, <3>2, <1>5
  <2>2. CASE Placing(size, d, scale).rects = TooSmall
    BY <2>2, <1>2, <1>3, <1>4, <1>5
  <2> QED BY <2>1, <2>2
<1>7. HasRoom(d, scale, area) => laid.rects # TooSmall
  BY <1>2, <1>5
<1>8. Inside(Centred(OuterSize(ClientSize(d, scale), d), area), area)
  <2> DEFINE outer == OuterSize(ClientSize(d, scale), d)
             ow == Least(outer.w, area.w)
             oh == Least(outer.h, area.h)
             left == (area.w - ow) \div 2
             top == (area.h - oh) \div 2
  <2>1. outer.w \in Int /\ outer.h \in Int
    BY <1>1, FrameIsNat, ClientIsEnough DEF OuterSize
  <2>2. area.x \in Int /\ area.y \in Int /\ area.w \in Int /\ area.h \in Int
    BY DEF WorkArea
  <2>3. Centred(outer, area)
            = [x |-> area.x + left, y |-> area.y + top, w |-> ow, h |-> oh]
    BY DEF Centred
  <2> HIDE DEF outer
  <2>4. ow \in Int /\ ow <= area.w /\ oh \in Int /\ oh <= area.h
    BY <2>1, <2>2, LeastAndMost
  <2> HIDE DEF ow, oh
  <2>5. /\ left \in Int /\ 0 <= left /\ 2 * left <= area.w - ow
        /\ top \in Int /\ 0 <= top /\ 2 * top <= area.h - oh
    BY <2>2, <2>4
  <2> HIDE DEF left, top
  <2>6. Inside(Centred(outer, area), area)
    BY <2>2, <2>3, <2>4, <2>5 DEF Inside
  <2> QED BY <2>6 DEF outer
<1> QED BY <1>2, <1>6, <1>7, <1>8 DEF ControlsApart, laid, again

-----------------------------------------------------------------------------
(* Rows and layout in the composition.                                     *)

(* What the state directory and the layout's cases are in the composition.  *)
RowsInv ==
    /\ rows[1] # {} => AreRecords(rows[1])
    /\ rows[2] \in Nat
    /\ shape # NoShape => /\ shape.size \in [w : Int, h : Int] /\ shape.dpi \in 96..768
                          /\ shape.scale \in Int /\ shape.area \in WorkArea

LEMMA FourRecords ==
    ASSUME NEW a \in RunPhases, NEW b \in RunPhases, NEW r,
           NEW c \in CampaignStates, NEW e \in CampaignStates
    PROVE  AreRecords({RunRecord(a, 1, r), RunRecord(b, 2, "none"),
                       CampaignRecord(c, 3), CampaignRecord(e, 4)})
<1> DEFINE r1 == RunRecord(a, 1, r)
           r2 == RunRecord(b, 2, "none")
           r3 == CampaignRecord(c, 3)
           r4 == CampaignRecord(e, 4)
<1>1. IsFiniteSet({r1, r2, r3, r4})
  <2> HIDE DEF r1, r2, r3, r4
  <2>1. IsFiniteSet({r1}) /\ IsFiniteSet({r2}) /\ IsFiniteSet({r3}) /\ IsFiniteSet({r4})
    BY FS_Singleton
  <2>2. IsFiniteSet({r1} \cup {r2}) /\ IsFiniteSet({r3} \cup {r4})
    BY <2>1, FS_Union
  <2>3. IsFiniteSet(({r1} \cup {r2}) \cup ({r3} \cup {r4}))
    BY <2>2, FS_Union
  <2>4. ({r1} \cup {r2}) \cup ({r3} \cup {r4}) = {r1, r2, r3, r4}
    OBVIOUS
  <2> QED BY <2>3, <2>4
<1>2. /\ r1.task = "run" /\ r1.id = 1 /\ r2.task = "run" /\ r2.id = 2
      /\ r3.task = "campaign" /\ r3.id = 3 /\ r4.task = "campaign" /\ r4.id = 4
  BY DEF RunRecord, CampaignRecord
<1>3. IsRecord(r1) /\ IsRecord(r2) /\ IsRecord(r3) /\ IsRecord(r4)
  BY DEF IsRecord, RunRecord, CampaignRecord
<1> HIDE DEF r1, r2, r3, r4
<1>4. AreRecords({r1, r2, r3, r4})
  BY <1>1, <1>2, <1>3 DEF AreRecords
<1> QED BY <1>4 DEF r1, r2, r3, r4

LEMMA RowsStart == OperatorInit => RowsInv
BY DEF OperatorInit, RowsInv

LEMMA RowsStep == RowsInv /\ [OperatorNext]_allVars => RowsInv'
<1> SUFFICES ASSUME RowsInv, [OperatorNext]_allVars PROVE RowsInv'
  OBVIOUS
<1>1. CASE UNCHANGED <<rows, shape>>
  BY <1>1 DEF RowsInv, NoShape
<1>2. CASE ReadRecords
  <2>1. PICK a \in RunPhases, b \in {"planning", "success", "unknown_outcome"},
             r \in {"none", "missing", "invalid", "verified"},
             c \in CampaignStates, e \in {"running", "cancelled", "paused"}, limit \in Limits :
          rows' = <<{RunRecord(a, 1, r), RunRecord(b, 2, "none"),
                     CampaignRecord(c, 3), CampaignRecord(e, 4)}, limit>>
    BY <1>2 DEF ReadRecords
  <2>2. b \in RunPhases /\ e \in CampaignStates
    BY DEF RunPhases, CampaignStates
  <2>3. AreRecords({RunRecord(a, 1, r), RunRecord(b, 2, "none"),
                    CampaignRecord(c, 3), CampaignRecord(e, 4)})
    BY <2>2, FourRecords
  <2>4. shape' = shape
    BY <1>2 DEF ReadRecords
  <2> QED BY <2>1, <2>3, <2>4, RowsAssumption DEF RowsInv, NoShape
<1>3. CASE Resize
  <2>1. PICK w \in {500, 680, 681, 980, 1366}, h \in {599, 600, 640, 728, 1040},
             dpi \in {96, 120, 144, 192, 768}, scale \in {100, 125, 150, 225, 400},
             area \in WorkAreas :
          shape' = [size |-> [w |-> w, h |-> h], dpi |-> dpi, scale |-> scale, area |-> area]
    BY <1>3, ZenonT(150) DEF Resize
  <2>3. /\ w \in Int /\ h \in Int /\ dpi \in 96..768 /\ scale \in Int /\ area \in WorkArea
    BY DEF WorkAreas, WorkArea, Rect
  <2>2. rows' = rows
    BY <1>3 DEF Resize
  <2> QED BY <2>1, <2>2, <2>3 DEF RowsInv
<1> QED BY <1>1, <1>2, <1>3 DEF OperatorNext, OfBoard, OfDesk, OfHalo, OfDemo, allVars

LEMMA RowsHide == RowsInv => NothingHidden
<1> SUFFICES ASSUME RowsInv PROVE AttentionIsListed /\ LayoutFits
  BY DEF NothingHidden
<1>1. AttentionIsListed
  <2> SUFFICES ASSUME rows[1] # {}
      PROVE  LET runs == {r \in rows[1] : r.task = "run"}
                 campaigns == {r \in rows[1] : r.task = "campaign"}
                 listed == ToSet(Board(rows[1], rows[2], rows[2]))
             IN  /\ HidesNothingUrgent(rows[1], Center(rows[1], rows[2]), rows[2])
                 /\ UrgentFirst(runs, listed \cap runs, CallsInWindow)
                 /\ UrgentFirst(campaigns, listed \cap campaigns, CallsInWindow)
    BY DEF AttentionIsListed
  <2>1. AreRecords(rows[1]) /\ rows[2] \in Nat
    BY DEF RowsInv
  <2> QED BY <2>1, NothingUrgentIsHidden
<1>2. LayoutFits
  <2> SUFFICES ASSUME shape # NoShape
      PROVE  ControlsApart(shape.size, shape.dpi, shape.scale, shape.area)
    BY DEF LayoutFits
  <2>1. /\ shape.size \in [w : Int, h : Int] /\ shape.dpi \in 96..768
        /\ shape.scale \in Int /\ shape.area \in WorkArea
    BY DEF RowsInv
  <2> QED BY <2>1, ControlsAlwaysFit
<1> QED BY <1>1, <1>2

(* Nothing that the operator needs is hidden, in the composition.          *)
THEOREM NothingIsHidden == OperatorSpec => []NothingHidden
<1>1. OperatorSpec => []RowsInv
  BY RowsStart, RowsStep, PTL DEF OperatorSpec
<1> QED BY <1>1, RowsHide, PTL
=============================================================================
