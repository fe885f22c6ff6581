----------------------------- MODULE PlansProofs ----------------------------
(***************************************************************************)
(* The theorems about PlannedRun, for any plans, any tree and any failure, *)
(* death or reconciliation on the way, about PublicWebWord, for any number *)
(* of turns and any order in which the windows change, and about TreeRun,  *)
(* for any trees, any number of callers and snapshots of any age.          *)
(***************************************************************************)
EXTENDS
    PlannedRun, PublicWebWord, TreeRun, TLAPS, FiniteSetTheorems, SequenceTheorems,
    WellFoundedInduction

(* A record has these fields and no other.                                 *)
Fields(r, names) == r = [x \in names |-> r[x]]

(* The first step that is not completed, and nothing begun after it: what  *)
(* Ordered says, with the step as a witness.                               *)
First(status, k) ==
    /\ k \in 1..Len(status) + 1
    /\ \A j \in 1..k - 1 : status[j] = "completed"
    /\ k \in 1..Len(status) => status[k] # "completed"
InOrder(status) ==
    \E k \in 1..Len(status) + 1 :
        First(status, k) /\ \A j \in 1..Len(status) : j > k => status[j] = "pending"

PlanStatuses ==
    /\ kinds \in Plans /\ mode \in Modes
    /\ plan = <<>> \/ plan \in [DOMAIN kinds -> StepStatuses]
    /\ tree = <<>> \/ tree \in [DOMAIN kinds -> StepStatuses]
    /\ InOrder(plan) /\ InOrder(tree)
    /\ sent \in Seq([step : 1..Len(kinds), result : Results])
PlanBoundary ==
    /\ Fields(cont, {"stage", "step", "result"})
    /\ cont.step \in 0..Len(kinds) /\ cont.result \in Results \cup {"none"}
Response ==
    /\ final \in {"absent", "prepared", "dispatch_intent", "completed"}
    /\ Fields(rec, {"phase", "code", "turn", "lines"})
    /\ rec.turn \in BOOLEAN /\ rec.lines \in 0..2
Session ==
    /\ Fields(ses, {"pc", "step", "seen", "calls", "outstanding", "result", "goal", "turn",
                    "note", "keep"})
    /\ ses.pc \in Pcs /\ ses.step \in 0..Len(kinds) /\ ses.turn \in BOOLEAN
    /\ ses.calls \in 0..MaxSessionSteps
PlanFields == PlanStatuses /\ PlanBoundary /\ Response /\ Session

Opening == {"openTree", "openRecord", "openDesktop"}
Settling == {"reconcile", "reconciled_trace", "reconciled"}
Held == {"boundary", "dispatch", "call", "complete", "planTarget"}
InTool == {"treeStart", "planStart", "repairStart", "treeFinish"} \cup Held
Asking == {"finalIntent", "finalCall", "finalComplete", "finalFinish"}
Before == {"treeStartFinal", "finalCreate", "finalStart"}
InFinal == {"treeFinishFinal"} \cup Before \cup Asking

(* Where the session is in its plan: at its first open step, which it has   *)
(* seen as it is stored.                                                   *)
SessionInv ==
    /\ plan = <<>> => ses.pc = "closed"
    /\ ses.pc \in Opening => \A j \in DOMAIN plan : plan[j] = "pending"
    /\ ses.pc \in InTool => ses.step \in 1..Len(kinds) - 1
    /\ ses.pc \in {"treeStart", "planStart"} =>
          plan[ses.step] = "pending" /\ plan = ses.seen /\ ses.step = NextStep(plan)
    /\ ses.pc \in Held => plan[ses.step] = "in_progress" /\ plan = ses.seen
    /\ ses.pc \in InFinal => ses.step = Len(kinds)
    /\ ses.pc \in Before =>
          plan[ses.step] = "pending" /\ plan = ses.seen /\ ses.step = NextStep(plan)
    /\ ses.pc \in Asking => plan[ses.step] = "in_progress" /\ plan = ses.seen
    /\ ses.pc = "treeCancel" => ses.step \in DOMAIN plan /\ plan[ses.step] = "cancelled"
    /\ ses.pc \in Settling \cup {"treeFinishFinal"} => plan[Len(kinds)] = "completed"

(* What was sent, as plan, session and continuation know of it.            *)
SendOutcomes(result) == IF result = "rejected" THEN {} ELSE {result}
Delivered ==
    /\ plan = <<>> => sent = <<>>
    /\ plan # <<>> => \A i \in 1..Len(kinds) :
          /\ plan[i] = "completed" => ResultsOf(i) = {"success"}
          /\ plan[i] \in {"failed", "blocked"} => ResultsOf(i) \subseteq {"action_error"}
          /\ plan[i] \in {"pending", "cancelled"} => ResultsOf(i) = {}
Underway ==
    /\ ses.pc \in {"boundary", "dispatch", "call", "finalIntent", "finalCall"} =>
          ResultsOf(ses.step) = {}
    /\ ses.pc = "call" => cont.stage # "completed"
    /\ ses.pc = "complete" =>
          ses.result \in Results /\ ResultsOf(ses.step) = SendOutcomes(ses.result)
    /\ ses.pc = "planTarget" =>
          \/ /\ ses.goal = "completed" /\ ResultsOf(ses.step) = {"success"}
             /\ cont.stage = "completed" /\ cont.step = ses.step
          \/ ses.goal \in {"failed", "blocked"} /\ ResultsOf(ses.step) \subseteq {"action_error"}
Remembered ==
    cont.stage = "completed" =>
        cont.step \in 1..Len(kinds) - 1 /\ ResultsOf(cont.step) = SendOutcomes(cont.result)
SentInv == Delivered /\ Underway /\ Remembered

(* A session that is open knows the outcome of the last completed step.    *)
Outside == {"closed", "shutdown"} \cup Opening \cup Settling
KnowsLast ==
    \A j \in 1..Len(kinds) - 1 : plan[j] = "completed" =>
        cont.step > j \/ (cont.step = j /\ cont.stage = "completed")
LedgerInv ==
    /\ cont.step < Len(kinds)
    /\ ses.pc \notin Outside => KnowsLast
    /\ ses.pc \in InFinal => cont.stage = "completed"

(* The tree, while the session holds a step for its call, agrees with the   *)
(* plan, and just before it is one step ahead.                             *)
TreeStands ==
    /\ mode = "linear" => tree = <<>>
    /\ mode # "linear" /\ ses.pc \notin {"closed", "openTree"} \cup Settling => tree # <<>>
    /\ ses.pc \in {"openTree", "treeStart", "repairStart", "treeFinish", "treeStartFinal",
                   "treeFinishFinal", "treeCancel"} => mode # "linear"
    /\ tree # <<>> => plan # <<>>
Leaves ==
    tree # <<>> => \A i \in 1..Len(kinds) :
        /\ tree[i] \in Stopped \cup {"completed"} => plan[i] = tree[i]
        /\ tree[i] = "in_progress" => \A j \in 1..i - 1 : plan[j] = "completed"
        /\ tree[i] = "pending" => plan[i] \in {"pending", "cancelled"}
OneAhead ==
    /\ tree # <<>> /\ ses.pc \in {"planStart", "finalCreate", "finalStart"} =>
          /\ tree[ses.step] = "in_progress"
          /\ \A j \in 1..Len(kinds) : j # ses.step => tree[j] = plan[j]
    /\ tree # <<>> /\ ses.pc \in Held \cup Asking => tree = plan
TreeInv == TreeStands /\ Leaves /\ OneAhead

(* The final response.                                                     *)
FinalPlace ==
    /\ plan = <<>> => final = "absent" /\ rec.phase # "SUCCESS"
    /\ final # "absent" => \A j \in 1..Len(kinds) - 1 : plan[j] = "completed"
    /\ plan # <<>> /\ plan[Len(kinds)] = "completed" => final = "completed"
FinalStage ==
    /\ ses.pc \in InTool \cup Opening => final = "absent"
    /\ ses.pc \in {"finalStart", "finalIntent"} => final = "prepared"
    /\ ses.pc \in {"finalCall", "finalComplete"} => final = "dispatch_intent"
    /\ ses.pc \in {"finalFinish", "treeFinishFinal"} \cup Settling => final = "completed"
FinalSent ==
    LET last == Len(kinds) IN
    /\ ses.pc = "finalComplete" => ResultsOf(last) = {"success"}
    /\ ResultsOf(last) # {} => final \in {"dispatch_intent", "completed"}
    /\ final = "completed" => ResultsOf(last) = {"success"}
FinalInv == FinalPlace /\ FinalStage /\ FinalSent

(* What is recorded of it, and what is kept for a reconciliation.          *)
Reported ==
    /\ ses.note[1] = "SUCCESS" =>
          /\ ses.pc \in {"treeFinishFinal", "record", "checkpoint", "shutdown", "repairFinal"}
          /\ plan[Len(kinds)] = "completed"
    /\ ses.pc = "treeFinishFinal" => ses.note[1] = "SUCCESS"
Recorded ==
    rec.phase = "SUCCESS" =>
        ses.pc \in {"shutdown", "closed", "reconciled"} /\ plan[Len(kinds)] = "completed"
Reporting ==
    final = "completed" =>
        /\ ses.pc \in {"record", "checkpoint"} /\ ses.keep # TRUE => ses.note[1] = "SUCCESS"
        /\ ses.pc = "shutdown" /\ ses.keep # TRUE => rec.phase = "SUCCESS"
        /\ ses.pc = "reconciled" => rec.phase = "SUCCESS"
Preserved == final = "completed" /\ rec.phase # "SUCCESS" => cont.stage = "completed"
RecordInv == Reported /\ Recorded /\ Reporting /\ Preserved

PlanInv ==
    PlanFields /\ SessionInv /\ SentInv /\ LedgerInv /\ TreeInv /\ FinalInv /\ RecordInv

-----------------------------------------------------------------------------
(* Plans and statuses.                                                     *)
LEMMA KindsFacts ==
  ASSUME kinds \in Plans
  PROVE  /\ Len(kinds) \in Nat \ {0} /\ DOMAIN kinds = 1..Len(kinds)
         /\ \A i \in 1..Len(kinds) :
               kinds[i] \in StepKinds /\ (kinds[i] = "final_response" <=> i = Len(kinds))
<1>1. IsTaskPlan(kinds)
  BY PlansAssumption
<1> QED
  BY <1>1 DEF IsTaskPlan

LEMMA SequenceOf ==
  ASSUME NEW S, NEW n \in Nat, NEW f \in [1..n -> S]
  PROVE  f \in Seq(S) /\ Len(f) = n
OBVIOUS

LEMMA StatusFacts ==
  ASSUME kinds \in Plans, NEW s, s = <<>> \/ s \in [DOMAIN kinds -> StepStatuses]
  PROVE  /\ s \in Seq(StepStatuses)
         /\ s = <<>> => Len(s) = 0 /\ DOMAIN s = {}
         /\ s # <<>> => Len(s) = Len(kinds) /\ DOMAIN s = 1..Len(kinds)
<1>1. CASE s = <<>>
  BY <1>1, EmptySeq
<1>2. CASE s \in [1..Len(kinds) -> StepStatuses]
  <2>1. s \in Seq(StepStatuses) /\ Len(s) = Len(kinds)
    BY <1>2, KindsFacts, SequenceOf
  <2> QED
    BY <1>2, <2>1, KindsFacts, LenProperties
<1> QED
  BY <1>1, <1>2, KindsFacts

LEMMA NextIs ==
  ASSUME NEW s \in Seq(StepStatuses), InOrder(s)
  PROVE  /\ First(s, NextStep(s))
         /\ \A j \in 1..Len(s) : j > NextStep(s) => s[j] = "pending"
         /\ Ordered(s)
<1>1. PICK k \in 1..Len(s) + 1 :
         First(s, k) /\ \A j \in 1..Len(s) : j > k => s[j] = "pending"
  BY DEF InOrder
<1>2. ASSUME NEW i \in 1..Len(s) + 1, i \in DOMAIN s => s[i] # "completed",
             \A j \in 1..i - 1 : s[j] = "completed"
      PROVE  i = k
  BY <1>1, <1>2 DEF First
<1>3. NextStep(s) = k
  BY <1>1, <1>2 DEF NextStep, First
<1> QED
  BY <1>1, <1>3 DEF Ordered

LEMMA OnlyOne ==
  ASSUME NEW s \in Seq(StepStatuses), NEW k, First(s, k),
         \A j \in 1..Len(s) : j > k => s[j] = "pending"
  PROVE  NextStep(s) = k /\ InOrder(s)
<1>1. InOrder(s)
  BY DEF InOrder, First
<1>2. First(s, NextStep(s))
  BY <1>1, NextIs
<1> QED
  BY <1>1, <1>2 DEF First

(* The status of the first open step may become anything.                  *)
LEMMA MovedInOrder ==
  ASSUME NEW s \in Seq(StepStatuses), InOrder(s), NEW t \in StepStatuses,
         NextStep(s) \in DOMAIN s
  PROVE  /\ Moved(s, NextStep(s), t) \in Seq(StepStatuses)
         /\ DOMAIN Moved(s, NextStep(s), t) = DOMAIN s
         /\ InOrder(Moved(s, NextStep(s), t))
<1>1. PICK k : k = NextStep(s)
  OBVIOUS
<1>2. /\ First(s, k) /\ k \in 1..Len(s)
      /\ \A j \in 1..Len(s) : j > k => s[j] = "pending"
  BY <1>1, NextIs
<1>a. PICK m : m = Moved(s, k, t)
  OBVIOUS
<1>3. /\ m \in Seq(StepStatuses) /\ m = Moved(s, k, t)
      /\ Len(m) = Len(s) /\ DOMAIN m = DOMAIN s
      /\ m[k] = t /\ \A j \in 1..Len(s) : j # k => m[j] = s[j]
  BY <1>2, <1>a, ExceptSeq, LenProperties DEF Moved
<1>4. CASE t = "completed"
  <2>1. First(m, k + 1) /\ \A j \in 1..Len(m) : j > k + 1 => m[j] = "pending"
    BY <1>2, <1>3, <1>4 DEF First
  <2> QED
    BY <1>1, <1>3, <2>1, OnlyOne
<1>5. CASE t # "completed"
  <2>1. First(m, k) /\ \A j \in 1..Len(m) : j > k => m[j] = "pending"
    BY <1>2, <1>3, <1>5 DEF First
  <2> QED
    BY <1>1, <1>3, <2>1, OnlyOne
<1> QED
  BY <1>4, <1>5

LEMMA MayMoveFacts ==
  ASSUME NEW s, NEW i, NEW t, MayMove(s, i, t), s[i] \in StepStatuses
  PROVE  /\ i = NextStep(s) /\ t \in StepStatuses
         /\ \/ s[i] = "pending" /\ t \in {"in_progress", "blocked", "cancelled"}
            \/ s[i] = "in_progress" /\ t \in {"completed", "failed", "blocked", "cancelled"}
BY DEF MayMove, Targets, StepStatuses

LEMMA SentAfter ==
  ASSUME NEW T, sent \in Seq(T), NEW i, NEW r, sent' = Append(sent, [step |-> i, result |-> r])
  PROVE  \A j : ResultsOf(j)' = IF j = i THEN ResultsOf(j) \cup {r} ELSE ResultsOf(j)
<1>1. PICK e : e = [step |-> i, result |-> r]
  OBVIOUS
<1>2. /\ Len(sent) \in Nat /\ DOMAIN sent = 1..Len(sent)
      /\ DOMAIN sent' = 1..Len(sent) + 1
      /\ \A n \in 1..Len(sent) : sent'[n] = sent[n]
      /\ sent'[Len(sent) + 1] = e
  BY <1>1, AppendProperties
<1>3. ASSUME NEW j PROVE ResultsOf(j)' = IF j = i THEN ResultsOf(j) \cup {r} ELSE ResultsOf(j)
  BY <1>1, <1>2 DEF ResultsOf
<1> QED
  BY <1>3

LEMMA PlanFacts ==
  ASSUME PlanFields
  PROVE  /\ Len(kinds) \in Nat \ {0} /\ DOMAIN kinds = 1..Len(kinds)
         /\ \A i \in 1..Len(kinds) :
               kinds[i] \in StepKinds /\ (kinds[i] = "final_response" <=> i = Len(kinds))
         /\ plan \in Seq(StepStatuses) /\ tree \in Seq(StepStatuses)
         /\ plan = <<>> => Len(plan) = 0 /\ DOMAIN plan = {}
         /\ plan # <<>> => Len(plan) = Len(kinds) /\ DOMAIN plan = 1..Len(kinds)
         /\ tree = <<>> => Len(tree) = 0 /\ DOMAIN tree = {}
         /\ tree # <<>> => Len(tree) = Len(kinds) /\ DOMAIN tree = 1..Len(kinds)
BY KindsFacts, StatusFacts DEF PlanFields, PlanStatuses

(* A status that moves on: the first open step of s becomes goal.          *)
Advance(s, new, i, goal) ==
    /\ i = NextStep(s) /\ i \in 1..Len(kinds)
    /\ s \in [1..Len(kinds) -> StepStatuses] /\ new \in [1..Len(kinds) -> StepStatuses]
    /\ s # <<>> /\ new # <<>> /\ new = Moved(s, i, goal)
    /\ InOrder(new) /\ new[i] = goal
    /\ \A j \in 1..Len(kinds) : j # i => new[j] = s[j]
    /\ \A j \in 1..i - 1 : s[j] = "completed"
    /\ s[i] # "completed"
    /\ \A j \in i + 1..Len(kinds) : s[j] = "pending"

LEMMA Advances ==
  ASSUME PlanFields, NEW s, s = plan \/ s = tree, s # <<>>,
         NEW i, i = NextStep(s), i \in DOMAIN s, NEW goal \in StepStatuses
  PROVE  Advance(s, Moved(s, i, goal), i, goal)
<1>1. /\ s \in Seq(StepStatuses) /\ InOrder(s)
      /\ Len(s) = Len(kinds) /\ DOMAIN s = 1..Len(kinds)
      /\ s \in [1..Len(kinds) -> StepStatuses]
  BY PlanFacts DEF PlanFields, PlanStatuses
<1>2. PICK new : new = Moved(s, i, goal)
  OBVIOUS
<1>3. /\ new \in [1..Len(kinds) -> StepStatuses] /\ new[i] = goal
      /\ \A j \in 1..Len(kinds) : j # i => new[j] = s[j]
  BY <1>1, <1>2 DEF Moved
<1>4. InOrder(new)
  BY <1>1, <1>2, MovedInOrder
<1>5. new # <<>>
  <2>1. i \in DOMAIN new
    BY <1>1, <1>3
  <2>2. DOMAIN <<>> = {}
    OBVIOUS
  <2> QED
    BY <2>1, <2>2
<1>6. First(s, i) /\ \A j \in 1..Len(s) : j > i => s[j] = "pending"
  BY <1>1, NextIs
<1> QED
  <2>1. Len(kinds) \in Nat /\ i \in 1..Len(kinds)
    BY <1>1, PlanFacts
  <2>2. /\ \A j \in 1..i - 1 : s[j] = "completed"
        /\ s[i] # "completed"
        /\ \A j \in i + 1..Len(kinds) : s[j] = "pending"
    BY <1>1, <1>6, <2>1 DEF First
  <2> QED
    BY <1>1, <1>2, <1>3, <1>4, <1>5, <2>1, <2>2 DEF Advance

(* A plan that is the tree but for the step being moved.                   *)
LEMMA Meets ==
  ASSUME PlanFields, plan # <<>>, tree # <<>>, NextStep(tree) = NextStep(plan),
         NextStep(plan) \in DOMAIN plan, plan[NextStep(plan)] = tree[NextStep(plan)]
  PROVE  plan = tree
<1>1. /\ plan \in Seq(StepStatuses) /\ InOrder(plan) /\ tree \in Seq(StepStatuses)
      /\ InOrder(tree) /\ Len(plan) = Len(kinds) /\ Len(tree) = Len(kinds)
      /\ DOMAIN plan = 1..Len(kinds) /\ DOMAIN tree = 1..Len(kinds)
      /\ Len(kinds) \in Nat
  BY PlanFacts DEF PlanFields, PlanStatuses
<1>2. PICK k \in 1..Len(kinds) : k = NextStep(plan) /\ k = NextStep(tree)
  BY <1>1
<1>3. /\ First(plan, k) /\ First(tree, k)
      /\ \A j \in 1..Len(kinds) : j > k => plan[j] = "pending" /\ tree[j] = "pending"
  BY <1>1, <1>2, NextIs
<1>4. ASSUME NEW j \in 1..Len(kinds) PROVE plan[j] = tree[j]
  BY <1>1, <1>2, <1>3 DEF First
<1> QED
  BY <1>1, <1>4, SeqEqual

Remembers ==
    UNCHANGED <<ses.step, ses.seen, ses.result, ses.goal, ses.turn, ses.note, ses.keep>>

LEMMA GotoEffect ==
  ASSUME PlanFields, NEW to, Goto(to)
  PROVE  ses'.pc = to /\ Remembers
BY DEF PlanFields, PlanBoundary, Response, Session, Fields, Goto, Remembers

LEMMA NoteEffect ==
  ASSUME PlanFields, NEW phase, NEW code, NEW keep, Note(phase, code, keep)
  PROVE  /\ ses'.pc = "record" /\ ses'.note[1] = phase /\ ses'.keep = keep
         /\ UNCHANGED <<ses.step, ses.seen, ses.result, ses.goal, ses.turn>>
BY DEF PlanFields, PlanBoundary, Response, Session, Fields, Note

LEMMA OutcomeEffect ==
  ASSUME PlanFields, NEW result, NEW goal, NEW code, NEW keep,
         ses' = Outcome(result, goal, code, keep)
  PROVE  /\ ses'.pc = "planTarget" /\ ses'.result = result /\ ses'.goal = goal
         /\ ses'.note[1] \in {"PAUSED", "FAILED"} /\ ses'.keep = keep
         /\ UNCHANGED <<ses.step, ses.seen, ses.turn>>
BY DEF PlanFields, PlanBoundary, Response, Session, Fields, Outcome

LEMMA FinalFailsEffect ==
  ASSUME PlanFields, NEW intent, FinalFails(intent)
  PROVE  /\ ses'.pc = "repairFinal"
         /\ UNCHANGED <<ses.step, ses.seen, ses.result, ses.turn, ses.note, ses.keep>>
BY DEF PlanFields, PlanBoundary, Response, Session, Fields, FinalFails

LEMMA EndEffect ==
  ASSUME ses' = NoSession
  PROVE  /\ ses'.pc = "closed" /\ ses'.step = 0 /\ ses'.note[1] = "none" /\ ses'.keep = FALSE
BY DEF NoSession

-----------------------------------------------------------------------------
(* What each step does, field by field.                                    *)
LEMMA StepMoves ==
  ASSUME PlanInv, NEW i, NEW goal, MayMove(plan, i, goal), i \in DOMAIN plan
  PROVE  /\ Advance(plan, Moved(plan, i, goal), i, goal)
         /\ \/ plan[i] = "pending" /\ goal \in {"in_progress", "blocked", "cancelled"}
            \/ plan[i] = "in_progress" /\ goal \in {"completed", "failed", "blocked", "cancelled"}
<1>1. plan[i] \in StepStatuses /\ plan # <<>>
  BY PlanFacts DEF PlanInv, PlanFields, PlanStatuses
<1>2. /\ i = NextStep(plan) /\ goal \in StepStatuses
      /\ \/ plan[i] = "pending" /\ goal \in {"in_progress", "blocked", "cancelled"}
         \/ plan[i] = "in_progress" /\ goal \in {"completed", "failed", "blocked", "cancelled"}
  BY <1>1, MayMoveFacts
<1> QED
  BY <1>1, <1>2, Advances DEF PlanInv

LEMMA PlanLeafMoves ==
  ASSUME PlanInv, NEW i, NEW goal, MayMove(tree, i, goal), i \in DOMAIN tree
  PROVE  /\ Advance(tree, Moved(tree, i, goal), i, goal)
         /\ \/ tree[i] = "pending" /\ goal \in {"in_progress", "blocked", "cancelled"}
            \/ tree[i] = "in_progress" /\ goal \in {"completed", "failed", "blocked", "cancelled"}
<1>1. tree[i] \in StepStatuses /\ tree # <<>>
  BY PlanFacts DEF PlanInv, PlanFields, PlanStatuses
<1>2. /\ i = NextStep(tree) /\ goal \in StepStatuses
      /\ \/ tree[i] = "pending" /\ goal \in {"in_progress", "blocked", "cancelled"}
         \/ tree[i] = "in_progress" /\ goal \in {"completed", "failed", "blocked", "cancelled"}
  BY <1>1, MayMoveFacts
<1> QED
  BY <1>1, <1>2, Advances DEF PlanInv

LEMMA PlanStartEffect ==
  ASSUME PlanInv, PlanStart
  PROVE  /\ ses.pc = "planStart" /\ UNCHANGED <<kinds, mode, tree, cont, final, rec, sent>>
         /\ \/ /\ Advance(plan, plan', ses.step, "in_progress")
               /\ ses'.pc = "boundary" /\ ses'.seen = plan'
               /\ UNCHANGED <<ses.step, ses.result, ses.goal, ses.turn, ses.note, ses.keep>>
            \/ /\ plan' = plan \/ Advance(plan, plan', ses.step, "in_progress")
               /\ Remembers
               /\ \/ mode # "linear" /\ ses'.pc = "repairStart"
                  \/ mode = "linear" /\ ses'.pc = "idle"
<1>1. ses.step \in DOMAIN plan /\ plan = ses.seen /\ plan[ses.step] = "pending"
  BY PlanFacts DEF PlanInv, SessionInv, PlanFields, PlanStatuses, PlanStart, InTool
<1>2. PICK new : new = Moved(plan, ses.step, "in_progress")
  OBVIOUS
<1>3. CASE /\ MayMove(plan, ses.step, "in_progress") /\ plan' = new
           /\ ses' = [ses EXCEPT !.pc = "boundary", !.seen = new]
  BY <1>1, <1>2, <1>3, StepMoves DEF PlanStart, PlanInv, PlanFields, PlanBoundary, Response,
    Session, Fields
<1>4. CASE /\ plan' = plan \/ (plan' = new /\ MayMove(plan, ses.step, "in_progress"))
           /\ Goto(IF HasTree THEN "repairStart" ELSE "idle")
  BY <1>1, <1>2, <1>4, StepMoves, GotoEffect DEF PlanStart, PlanInv, HasTree
<1> QED
  BY <1>2, <1>3, <1>4 DEF PlanStart, Transition, Durably

LEMMA OpenDesktopEffect ==
  ASSUME PlanInv, OpenDesktop
  PROVE  /\ ses.pc = "openDesktop" /\ UNCHANGED <<kinds, mode, plan, tree, final, sent>>
         /\ cont'.stage \in {"absent", "none"} /\ cont'.step = 0 /\ cont'.result = "none"
         /\ rec'.phase \in {rec.phase, "PLANNING", "FAILED"}
         /\ \/ ses'.pc = "idle" /\ Remembers
            \/ ses'.pc = "closed" /\ ses'.note[1] = "none"
<1>1. cont' \in {Absent, NoBoundary}
  BY DEF OpenDesktop
<1>2. cont'.stage \in {"absent", "none"} /\ cont'.step = 0 /\ cont'.result = "none"
  BY <1>1 DEF Absent, NoBoundary
<1>3. Goto("idle") \/ ses' = NoSession
  BY DEF OpenDesktop
<1>4. rec'.phase \in {rec.phase, "PLANNING", "FAILED"}
  BY DEF OpenDesktop, PlanInv, PlanFields, PlanBoundary, Response, Session, Fields
<1> QED
  BY <1>2, <1>3, <1>4, GotoEffect, EndEffect DEF OpenDesktop, PlanInv

LEMMA PrepareNextEffect ==
  ASSUME PlanInv, PrepareNext
  PROVE  /\ ses.pc = "idle" /\ UNCHANGED <<kinds, mode, plan, tree, cont, final, rec, sent>>
         /\ ses'.step = NextStep(plan) /\ ses'.step \in 1..Len(kinds) - 1
         /\ plan[ses'.step] = "pending" /\ ses'.seen = plan
         /\ UNCHANGED <<ses.result, ses.goal, ses.turn, ses.note, ses.keep>>
         /\ \/ mode # "linear" /\ ses'.pc = "treeStart"
            \/ mode = "linear" /\ ses'.pc = "planStart"
<1>1. PICK i : i = NextStep(plan)
  OBVIOUS
<1>2. /\ i \in DOMAIN plan /\ plan[i] = "pending" /\ kinds[i] # "final_response"
      /\ ses.pc = "idle" /\ UNCHANGED <<kinds, mode, plan, tree, cont, final, rec, sent>>
      /\ ses' = [ses EXCEPT !.pc = IF HasTree THEN "treeStart" ELSE "planStart",
                            !.step = i, !.seen = plan, !.outstanding = TRUE, !.calls = @ + 1]
  BY <1>1 DEF PrepareNext, Preflight
<1>3. i \in 1..Len(kinds) - 1
  BY <1>2, PlanFacts DEF PlanInv
<1> QED
  BY <1>1, <1>2, <1>3 DEF PlanInv, PlanFields, PlanBoundary, Response, Session, Fields, HasTree

LEMMA StartStepEffect ==
  ASSUME PlanInv, TreeStart \/ TreeStartFinal
  PROVE  /\ UNCHANGED <<kinds, mode, plan, cont, final, rec, sent>>
         /\ plan[ses.step] = "pending"
         /\ \/ ses.pc = "treeStart" /\ ses'.pc \in {"planStart", "record"}
            \/ ses.pc = "treeStartFinal" /\ ses'.pc \in {"finalCreate", "record"}
         /\ \/ /\ ses'.pc # "record" /\ Remembers
               /\ Advance(tree, tree', ses.step, "in_progress") /\ tree[ses.step] = "pending"
            \/ /\ tree' = tree
                  \/ /\ Advance(tree, tree', ses.step, "in_progress")
                     /\ tree[ses.step] = "pending"
               /\ ses'.pc = "record" /\ ses'.note[1] = "FAILED" /\ ses'.keep = FALSE
               /\ UNCHANGED <<ses.step, ses.seen, ses.result, ses.goal, ses.turn>>
<1>1. /\ ses.pc \in {"treeStart", "treeStartFinal"}
      /\ UNCHANGED <<kinds, mode, plan, cont, final, rec, sent>>
  BY DEF TreeStart, TreeStartFinal
<1>2. /\ plan[ses.step] = "pending" /\ tree # <<>> /\ ses.step \in DOMAIN tree
      /\ ses.step \in 1..Len(kinds)
  <2>1. plan[ses.step] = "pending" /\ ses.step \in 1..Len(kinds)
    <3>1. Len(kinds) \in Nat \ {0}
      BY PlanFacts DEF PlanInv
    <3>2. CASE ses.pc = "treeStart"
      BY <3>1, <3>2 DEF PlanInv, SessionInv, InTool
    <3>3. CASE ses.pc = "treeStartFinal"
      BY <3>1, <3>3 DEF PlanInv, SessionInv, InFinal, Before
    <3> QED
      BY <1>1, <3>2, <3>3
  <2>2. tree # <<>>
    BY <1>1 DEF PlanInv, TreeInv, TreeStands, Settling
  <2> QED
    BY <2>1, <2>2, PlanFacts DEF PlanInv
<1>3. PICK new : new = Moved(tree, ses.step, "in_progress")
  OBVIOUS
<1>4. MayMove(tree, ses.step, "in_progress") =>
         Advance(tree, new, ses.step, "in_progress") /\ tree[ses.step] = "pending"
  BY <1>2, <1>3, PlanLeafMoves
<1>5. \/ /\ MayMove(tree, ses.step, "in_progress") /\ tree' = new
         /\ \/ ses.pc = "treeStart" /\ Goto("planStart")
            \/ ses.pc = "treeStartFinal" /\ Goto("finalCreate")
      \/ /\ tree' = tree \/ (MayMove(tree, ses.step, "in_progress") /\ tree' = new)
         /\ Fail("EXECUTOR_TREE_PREPARE_FAILED", FALSE)
  BY <1>3 DEF TreeStart, TreeStartFinal, StartStep, Durably
<1>6. CASE \/ ses.pc = "treeStart" /\ Goto("planStart")
           \/ ses.pc = "treeStartFinal" /\ Goto("finalCreate")
  <2>1. ses'.pc # "record" /\ Remembers
        /\ \/ ses.pc = "treeStart" /\ ses'.pc = "planStart"
           \/ ses.pc = "treeStartFinal" /\ ses'.pc = "finalCreate"
    BY <1>6, GotoEffect DEF PlanInv
  <2>2. MayMove(tree, ses.step, "in_progress") /\ tree' = new
    BY <1>1, <1>5, <2>1, NoteEffect DEF Fail, PlanInv
  <2> QED
    BY <1>1, <1>2, <1>4, <2>1, <2>2
<1>7. CASE Fail("EXECUTOR_TREE_PREPARE_FAILED", FALSE)
  <2>1. /\ ses'.pc = "record" /\ ses'.note[1] = "FAILED" /\ ses'.keep = FALSE
        /\ UNCHANGED <<ses.step, ses.seen, ses.result, ses.goal, ses.turn>>
    BY <1>7, NoteEffect DEF Fail, PlanInv
  <2> QED
    BY <1>1, <1>2, <1>4, <1>5, <2>1
<1> QED
  BY <1>5, <1>6, <1>7

LEMMA BoundaryRefusesEffect ==
  ASSUME PlanInv, BoundaryRefuses
  PROVE  /\ ses.pc = "boundary" /\ UNCHANGED <<kinds, mode, plan, tree, cont, final, rec, sent>>
         /\ ses'.pc = "planTarget" /\ ses'.goal \in {"failed", "blocked"}
         /\ ses'.note[1] \in {"PAUSED", "FAILED"}
         /\ UNCHANGED <<ses.step, ses.seen, ses.turn>>
<1>1. ses.pc = "boundary" /\ UNCHANGED <<kinds, mode, plan, tree, cont, final, rec, sent>>
  BY DEF BoundaryRefuses
<1>2. \/ ses' = Outcome("rejected", "failed", "REFUSED", FALSE)
      \/ ses' = Outcome("rejected", "blocked", "APPROVAL_DEFERRED", FALSE)
      \/ ses' = Outcome("rejected", "blocked", "EXECUTOR_VERIFICATION_REQUIRED", TRUE)
  BY DEF BoundaryRefuses
<1>3. PlanFields
  BY DEF PlanInv
<1>4. /\ ses'.pc = "planTarget" /\ ses'.goal \in {"failed", "blocked"}
      /\ ses'.note[1] \in {"PAUSED", "FAILED"} /\ UNCHANGED <<ses.step, ses.seen, ses.turn>>
  <2>1. CASE ses' = Outcome("rejected", "failed", "REFUSED", FALSE)
    BY <1>3, <2>1, OutcomeEffect
  <2>2. CASE ses' = Outcome("rejected", "blocked", "APPROVAL_DEFERRED", FALSE)
    BY <1>3, <2>2, OutcomeEffect
  <2>3. CASE ses' = Outcome("rejected", "blocked", "EXECUTOR_VERIFICATION_REQUIRED", TRUE)
    BY <1>3, <2>3, OutcomeEffect
  <2> QED
    BY <1>2, <2>1, <2>2, <2>3
<1> QED
  BY <1>1, <1>4

LEMMA BoundaryWriteEffect ==
  ASSUME PlanInv, NEW from, NEW stage, NEW next, BoundaryWrite(from, stage, next)
  PROVE  /\ ses.pc = from /\ UNCHANGED <<kinds, mode, plan, tree, final, sent>>
         /\ rec'.phase = "EXECUTING"
         /\ \/ cont'.stage = stage /\ cont'.step = ses.step /\ ses'.pc = next /\ Remembers
            \/ /\ cont' = cont \/ (cont'.stage = stage /\ cont'.step = ses.step)
               /\ ses'.pc = "planTarget" /\ ses'.goal = "failed"
               /\ ses'.note[1] \in {"PAUSED", "FAILED"}
               /\ UNCHANGED <<ses.step, ses.seen, ses.turn>>
<1>1. PICK new : new = [stage |-> stage, step |-> ses.step, result |-> "none"]
  OBVIOUS
<1>2. new.stage = stage /\ new.step = ses.step
  BY <1>1
<1>3. \/ cont' = new /\ Goto(next)
      \/ cont' \in {cont, new} /\ ses' = Outcome("rejected", "failed", "CONTINUATION_WRITE_FAILED", FALSE)
  BY <1>1 DEF BoundaryWrite, Durably
<1>4. rec'.phase = "EXECUTING"
  BY DEF BoundaryWrite, PlanInv, PlanFields, PlanBoundary, Response, Session, Fields
<1>5. ses.pc = from /\ UNCHANGED <<kinds, mode, plan, tree, final, sent>>
  BY DEF BoundaryWrite
<1>6. PlanFields
  BY DEF PlanInv
<1>7. CASE cont' = new /\ Goto(next)
  <2>1. ses'.pc = next /\ Remembers
    BY <1>6, <1>7, GotoEffect
  <2> QED
    BY <1>2, <1>4, <1>5, <1>7, <2>1
<1>8. CASE /\ cont' \in {cont, new}
           /\ ses' = Outcome("rejected", "failed", "CONTINUATION_WRITE_FAILED", FALSE)
  <2>1. /\ ses'.pc = "planTarget" /\ ses'.goal = "failed"
        /\ ses'.note[1] \in {"PAUSED", "FAILED"}
        /\ UNCHANGED <<ses.step, ses.seen, ses.turn>>
    BY <1>6, <1>8, OutcomeEffect
  <2>2. cont' = cont \/ (cont'.stage = stage /\ cont'.step = ses.step)
    BY <1>2, <1>8
  <2> QED
    BY <1>4, <1>5, <2>1, <2>2
<1> QED
  BY <1>3, <1>7, <1>8

(* A call that left the host, or was turned away.                          *)
LEMMA BoundaryCallEffect ==
  ASSUME PlanInv, BoundaryCall
  PROVE  /\ ses.pc = "call" /\ UNCHANGED <<kinds, mode, plan, tree, cont, final, rec>>
         /\ ses'.pc = "complete" /\ ses'.result \in Results
         /\ UNCHANGED <<ses.step, ses.seen, ses.goal, ses.turn, ses.note, ses.keep>>
         /\ \A j : ResultsOf(j)' = IF j = ses.step THEN ResultsOf(j) \cup SendOutcomes(ses'.result)
                                   ELSE ResultsOf(j)
<1>1. PICK result \in Results :
        /\ sent' = IF result = "rejected" THEN sent
                   ELSE Append(sent, [step |-> ses.step, result |-> result])
        /\ ses' = [ses EXCEPT !.pc = "complete", !.result = result]
  BY DEF BoundaryCall
<1>2. /\ ses'.pc = "complete" /\ ses'.result = result
      /\ UNCHANGED <<ses.step, ses.seen, ses.goal, ses.turn, ses.note, ses.keep>>
  BY <1>1 DEF PlanInv, PlanFields, PlanBoundary, Response, Session, Fields
<1>3. CASE result = "rejected"
  BY <1>1, <1>2, <1>3 DEF ResultsOf, SendOutcomes, BoundaryCall
<1>4. CASE result # "rejected"
  <2>1. \A j : ResultsOf(j)' = IF j = ses.step THEN ResultsOf(j) \cup {result} ELSE ResultsOf(j)
    BY <1>1, <1>4, SentAfter DEF PlanInv, PlanFields, PlanStatuses
  <2> QED
    BY <1>2, <1>4, <2>1 DEF SendOutcomes, BoundaryCall
<1> QED
  BY <1>3, <1>4

LEMMA BoundaryCompleteEffect ==
  ASSUME PlanInv, BoundaryComplete
  PROVE  /\ ses.pc = "complete" /\ UNCHANGED <<kinds, mode, plan, tree, final, sent>>
         /\ rec'.phase = "PLANNING"
         /\ \/ cont' = cont
            \/ cont'.stage = "completed" /\ cont'.step = ses.step /\ cont'.result = ses.result
         /\ \/ /\ ses'.pc = "record" /\ ses'.note[1] = "UNKNOWN_OUTCOME" /\ ses'.keep = TRUE
               /\ UNCHANGED <<ses.step, ses.seen, ses.result, ses.goal, ses.turn>>
            \/ /\ ses'.pc = "planTarget" /\ ses.result = "success" /\ ses'.goal = "completed"
               /\ cont'.stage = "completed" /\ cont'.step = ses.step
               /\ ses'.note[1] = "none" /\ UNCHANGED <<ses.step, ses.seen, ses.turn>>
            \/ /\ ses'.pc = "planTarget" /\ ses.result \in {"action_error", "rejected"}
               /\ ses'.goal \in {"blocked", "failed"} /\ ses'.note[1] \in {"PAUSED", "FAILED"}
               /\ UNCHANGED <<ses.step, ses.seen, ses.turn>>
<1>1. PICK new : new = [stage |-> "completed", step |-> ses.step, result |-> ses.result]
  OBVIOUS
<1>2. new.stage = "completed" /\ new.step = ses.step /\ new.result = ses.result
  BY <1>1
<1>3. \/ cont' = new /\ AfterCall
      \/ cont' \in {cont, new} /\ Note("UNKNOWN_OUTCOME", "EXECUTOR_RUNTIME_UNCERTAIN", TRUE)
  BY <1>1 DEF BoundaryComplete, Durably
<1>4. /\ rec'.phase = "PLANNING" /\ ses.pc = "complete"
      /\ UNCHANGED <<kinds, mode, plan, tree, final, sent>>
  BY DEF BoundaryComplete, PlanInv, PlanFields, PlanBoundary, Response, Session, Fields
<1>5. ses.result \in Results
  BY <1>4 DEF PlanInv, SentInv, Underway
<1>6. CASE Note("UNKNOWN_OUTCOME", "EXECUTOR_RUNTIME_UNCERTAIN", TRUE)
           \/ Note("UNKNOWN_OUTCOME", "UNKNOWN_OUTCOME", TRUE)
  BY <1>2, <1>3, <1>4, <1>6, NoteEffect DEF PlanInv
<1>7. CASE ses.result = "success" /\ cont' = new /\ AfterCall
  <2>1. ses' = [Outcome("success", "completed", "none", TRUE) EXCEPT !.note = <<"none", "none">>]
    BY <1>7 DEF AfterCall
  <2> QED
    BY <1>2, <1>4, <1>7, <2>1 DEF Outcome, PlanInv, PlanFields, PlanBoundary, Response, Session, Fields
<1>8. CASE ses.result \in {"action_error", "rejected"} /\ cont' = new /\ AfterCall
  <2>1. \/ ses' = Outcome(ses.result, "blocked", "EXECUTOR_VERIFICATION_REQUIRED", TRUE)
        \/ ses' = Outcome(ses.result, "failed", "EXECUTOR_TOOL_FAILED", FALSE)
    BY <1>8 DEF AfterCall
  <2>2. /\ ses'.pc = "planTarget" /\ ses'.goal \in {"blocked", "failed"}
        /\ ses'.note[1] \in {"PAUSED", "FAILED"} /\ UNCHANGED <<ses.step, ses.seen, ses.turn>>
    BY <2>1, OutcomeEffect, ZenonT(60) DEF PlanInv
  <2> QED
    BY <1>2, <1>4, <1>8, <2>2
<1> QED
  BY <1>3, <1>5, <1>6, <1>7, <1>8 DEF AfterCall, Results

LEMMA PlanTargetEffect ==
  ASSUME PlanInv, PlanTarget
  PROVE  /\ ses.pc = "planTarget" /\ UNCHANGED <<kinds, mode, tree, cont, final, rec, sent>>
         /\ plan[ses.step] = "in_progress"
         /\ UNCHANGED <<ses.step, ses.seen, ses.result, ses.goal, ses.turn>>
         /\ \/ /\ Advance(plan, plan', ses.step, ses.goal)
               /\ UNCHANGED <<ses.note, ses.keep>>
               /\ \/ mode # "linear" /\ ses'.pc = "treeFinish"
                  \/ mode = "linear" /\ ses'.pc \in {"idle", "record"}
            \/ /\ plan' = plan \/ Advance(plan, plan', ses.step, ses.goal)
               /\ ses'.keep = TRUE
               /\ \/ ses'.pc = "shutdown" /\ ses'.note = ses.note
                  \/ ses'.pc = "record" /\ ses'.note[1] = "FAILED"
<1>1. /\ ses.pc = "planTarget" /\ ses.step \in DOMAIN plan /\ plan = ses.seen
      /\ plan[ses.step] = "in_progress"
      /\ UNCHANGED <<kinds, mode, tree, cont, final, rec, sent>>
  BY PlanFacts DEF PlanInv, SessionInv, PlanFields, PlanStatuses, PlanTarget, InTool, Held
<1>2. PICK new : new = Moved(plan, ses.step, ses.goal)
  OBVIOUS
<1>3. MayMove(plan, ses.step, ses.goal) => Advance(plan, new, ses.step, ses.goal)
  BY <1>1, <1>2, StepMoves
<1>4. \/ /\ MayMove(plan, ses.step, ses.goal) /\ plan' = new
         /\ \/ ses' = [ses EXCEPT !.pc = IF HasTree THEN "treeFinish" ELSE Done,
                                !.outstanding = FALSE]
            \/ ses' = [ses EXCEPT !.pc = "shutdown", !.keep = TRUE]
      \/ /\ plan' = plan \/ (MayMove(plan, ses.step, ses.goal) /\ plan' = new)
         /\ Note("FAILED", "EXECUTOR_PLAN_COMMIT_FAILED", TRUE)
  BY <1>2 DEF PlanTarget, Transition, Durably, Fail
<1>5. Done \in {"idle", "record"}
  BY DEF Done
<1>6. CASE ses' = [ses EXCEPT !.pc = IF HasTree THEN "treeFinish" ELSE Done,
                                !.outstanding = FALSE]
  <2>1. /\ ses'.pc = IF HasTree THEN "treeFinish" ELSE Done
        /\ UNCHANGED <<ses.step, ses.seen, ses.result, ses.goal, ses.turn, ses.note, ses.keep>>
    BY <1>6 DEF PlanInv, PlanFields, PlanBoundary, Response, Session, Fields
  <2> QED
    BY <1>1, <1>3, <1>4, <1>5, <2>1, NoteEffect DEF HasTree, PlanInv
<1>7. CASE ses' = [ses EXCEPT !.pc = "shutdown", !.keep = TRUE]
  <2>1. /\ ses'.pc = "shutdown" /\ ses'.keep = TRUE
        /\ UNCHANGED <<ses.step, ses.seen, ses.result, ses.goal, ses.turn, ses.note>>
    BY <1>7 DEF PlanInv, PlanFields, PlanBoundary, Response, Session, Fields
  <2> QED
    BY <1>1, <1>3, <1>4, <2>1
<1>8. CASE Note("FAILED", "EXECUTOR_PLAN_COMMIT_FAILED", TRUE)
  BY <1>1, <1>3, <1>4, <1>8, NoteEffect DEF PlanInv
<1> QED
  BY <1>4, <1>6, <1>7, <1>8

LEMMA RepairStartEffect ==
  ASSUME PlanInv, RepairStart
  PROVE  /\ ses.pc = "repairStart" /\ UNCHANGED <<kinds, mode, plan, cont, final, rec, sent>>
         /\ tree' = tree \/ tree' = plan
         /\ ses'.pc = "record" /\ ses'.note[1] = "FAILED" /\ ses'.keep = FALSE
         /\ UNCHANGED <<ses.step, ses.seen, ses.result, ses.goal, ses.turn>>
BY NoteEffect DEF RepairStart, FromPlan, Fail, PlanInv

LEMMA TreeFinishEffect ==
  ASSUME PlanInv, TreeFinish
  PROVE  /\ ses.pc = "treeFinish" /\ UNCHANGED <<kinds, mode, plan, cont, final, rec, sent>>
         /\ UNCHANGED <<ses.step, ses.seen, ses.result, ses.goal, ses.turn>>
         /\ \/ /\ plan[ses.step] = ses.goal /\ tree[ses.step] = "in_progress"
               /\ Advance(tree, tree', ses.step, ses.goal)
               /\ ses'.pc \in {"idle", "record"} /\ UNCHANGED <<ses.note, ses.keep>>
            \/ /\ \/ tree' = tree
                  \/ /\ plan[ses.step] = ses.goal /\ tree[ses.step] = "in_progress"
                     /\ Advance(tree, tree', ses.step, ses.goal)
               /\ ses'.pc = "record" /\ ses'.note[1] = "FAILED" /\ ses'.keep = TRUE
<1>1. ses.pc = "treeFinish" /\ UNCHANGED <<kinds, mode, plan, cont, final, rec, sent>>
  BY DEF TreeFinish
<1>2. ses.step \in 1..Len(kinds)
  BY <1>1, PlanFacts DEF PlanInv, SessionInv, InTool
<1>3. tree # <<>>
  BY <1>1 DEF PlanInv, TreeInv, TreeStands, Settling
<1>4. Done \in {"idle", "record"}
  BY DEF Done
<1>5. PICK to : to = Done
  OBVIOUS
<1>6. \/ /\ plan[ses.step] = ses.goal /\ tree[ses.step] = "in_progress"
         /\ Advance(tree, tree', ses.step, ses.goal) /\ Goto(to)
      \/ /\ \/ tree' = tree
            \/ /\ plan[ses.step] = ses.goal /\ tree[ses.step] = "in_progress"
               /\ Advance(tree, tree', ses.step, ses.goal)
         /\ Fail("EXECUTOR_TREE_COMMIT_FAILED", TRUE)
  <2>1. PICK new : new = Moved(tree, ses.step, ses.goal)
    OBVIOUS
  <2>2. ses.step \in DOMAIN tree
    BY <1>2, <1>3, PlanFacts DEF PlanInv
  <2>3. MayMove(tree, ses.step, ses.goal) => Advance(tree, new, ses.step, ses.goal)
    BY <2>1, <2>2, PlanLeafMoves
  <2> QED
    BY <1>5, <2>1, <2>3 DEF FinishStep, Durably, TreeFinish
<1>7. CASE Goto(to) /\ Advance(tree, tree', ses.step, ses.goal)
           /\ plan[ses.step] = ses.goal /\ tree[ses.step] = "in_progress"
  <2>1. ses'.pc \in {"idle", "record"} /\ Remembers
    BY <1>4, <1>5, <1>7, GotoEffect DEF PlanInv
  <2> QED
    BY <1>1, <1>7, <2>1 DEF Remembers
<1>8. CASE Fail("EXECUTOR_TREE_COMMIT_FAILED", TRUE)
           /\ \/ tree' = tree
              \/ /\ plan[ses.step] = ses.goal /\ tree[ses.step] = "in_progress"
                 /\ Advance(tree, tree', ses.step, ses.goal)
  <2>1. /\ ses'.pc = "record" /\ ses'.note[1] = "FAILED" /\ ses'.keep = TRUE
        /\ UNCHANGED <<ses.step, ses.seen, ses.result, ses.goal, ses.turn>>
    BY <1>8, NoteEffect DEF Fail, PlanInv
  <2> QED
    BY <1>1, <1>8, <2>1
<1> QED
  BY <1>6, <1>7, <1>8

LEMMA PrepareFinalEffect ==
  ASSUME PlanInv, PrepareFinal
  PROVE  /\ ses.pc = "idle" /\ UNCHANGED <<kinds, mode, plan, tree, cont, final, rec, sent>>
         /\ plan # <<>> /\ Len(kinds) > 1
         /\ \A j \in 1..Len(kinds) - 1 : plan[j] = "completed"
         /\ ses'.step = Len(kinds) /\ NextStep(plan) = Len(kinds)
         /\ plan[Len(kinds)] = "pending" /\ ses'.seen = plan
         /\ UNCHANGED <<ses.result, ses.turn, ses.note, ses.keep>>
         /\ \/ mode # "linear" /\ ses'.pc = "treeStartFinal"
            \/ mode = "linear" /\ ses'.pc = "finalCreate"
<1>1. PICK last : last = Len(plan)
  OBVIOUS
<1>2. /\ last \in 2..MaxSessionSteps + 1
      /\ \A j \in 1..last - 1 : plan[j] = "completed"
      /\ plan[last] = "pending"
      /\ ses.pc = "idle" /\ UNCHANGED <<kinds, mode, plan, tree, cont, final, rec, sent>>
      /\ ses' = [ses EXCEPT !.pc = IF HasTree THEN "treeStartFinal" ELSE "finalCreate",
                            !.step = last, !.seen = plan, !.goal = "none"]
  BY <1>1 DEF PrepareFinal, FinalReady
<1>3. plan # <<>> /\ last = Len(kinds) /\ last \in Nat /\ last > 1
  BY <1>1, <1>2, PlanFacts, PlansAssumption DEF PlanInv
<1>4. First(plan, last)
  BY <1>1, <1>2, <1>3 DEF First
<1>5. First(plan, NextStep(plan))
  BY PlanFacts, NextIs DEF PlanInv, PlanFields, PlanStatuses
<1>6. NextStep(plan) = last
  BY <1>1, <1>3, <1>4, <1>5 DEF First
<1> QED
  BY <1>2, <1>3, <1>6 DEF PlanInv, PlanFields, PlanBoundary, Response, Session, Fields, HasTree

LEMMA FinalCreateEffect ==
  ASSUME PlanInv, FinalCreate
  PROVE  /\ ses.pc = "finalCreate" /\ UNCHANGED <<kinds, mode, plan, tree, cont, rec, sent>>
         /\ \/ /\ final = "absent" /\ final' = "prepared" /\ ses'.pc = "finalStart" /\ Remembers
            \/ /\ final' = final \/ (final = "absent" /\ final' = "prepared")
               /\ ses'.pc = "repairFinal"
               /\ UNCHANGED <<ses.step, ses.seen, ses.result, ses.turn, ses.note, ses.keep>>
BY GotoEffect, FinalFailsEffect DEF FinalCreate, Durably, PlanInv

LEMMA FinalStartEffect ==
  ASSUME PlanInv, FinalStart
  PROVE  /\ ses.pc = "finalStart" /\ UNCHANGED <<kinds, mode, tree, cont, final, rec, sent>>
         /\ plan[ses.step] = "pending"
         /\ \/ /\ Advance(plan, plan', ses.step, "in_progress")
               /\ ses'.pc = "finalIntent" /\ ses'.seen = plan'
               /\ UNCHANGED <<ses.step, ses.result, ses.goal, ses.turn, ses.note, ses.keep>>
            \/ /\ plan' = plan \/ Advance(plan, plan', ses.step, "in_progress")
               /\ ses'.pc = "repairFinal"
               /\ UNCHANGED <<ses.step, ses.seen, ses.result, ses.turn, ses.note, ses.keep>>
<1>1. /\ ses.pc = "finalStart" /\ UNCHANGED <<kinds, mode, tree, cont, final, rec, sent>>
      /\ ses.step \in DOMAIN plan /\ plan[ses.step] = "pending"
  BY PlanFacts DEF FinalStart, PlanInv, SessionInv, InFinal, Before
<1>2. PICK new : new = Moved(plan, ses.step, "in_progress")
  OBVIOUS
<1>3. MayMove(plan, ses.step, "in_progress") => Advance(plan, new, ses.step, "in_progress")
  BY <1>1, <1>2, StepMoves
<1>4. \/ /\ MayMove(plan, ses.step, "in_progress") /\ plan' = new
         /\ ses' = [ses EXCEPT !.pc = "finalIntent", !.seen = new]
      \/ /\ plan' = plan \/ (plan' = new /\ MayMove(plan, ses.step, "in_progress"))
         /\ FinalFails(FALSE)
  BY <1>2 DEF FinalStart, Transition, Durably
<1>5. CASE /\ MayMove(plan, ses.step, "in_progress") /\ plan' = new
           /\ ses' = [ses EXCEPT !.pc = "finalIntent", !.seen = new]
  BY <1>1, <1>3, <1>5 DEF PlanInv, PlanFields, PlanBoundary, Response, Session, Fields
<1>6. CASE /\ plan' = plan \/ (plan' = new /\ MayMove(plan, ses.step, "in_progress"))
           /\ FinalFails(FALSE)
  BY <1>1, <1>3, <1>6, FinalFailsEffect DEF PlanInv
<1> QED
  BY <1>4, <1>5, <1>6

LEMMA FinalIntentEffect ==
  ASSUME PlanInv, FinalIntent
  PROVE  /\ ses.pc = "finalIntent" /\ UNCHANGED <<kinds, mode, plan, tree, cont, rec, sent>>
         /\ \/ final' = "dispatch_intent" /\ ses'.pc = "finalCall" /\ Remembers
            \/ /\ final' \in {final, "dispatch_intent"} /\ ses'.pc = "repairFinal"
               /\ UNCHANGED <<ses.step, ses.seen, ses.result, ses.turn, ses.note, ses.keep>>
BY GotoEffect, FinalFailsEffect DEF FinalIntent, Durably, PlanInv

LEMMA FinalCallEffect ==
  ASSUME PlanInv, FinalCall
  PROVE  /\ ses.pc = "finalCall" /\ UNCHANGED <<kinds, mode, plan, tree, cont, final, rec>>
         /\ UNCHANGED <<ses.step, ses.seen, ses.result, ses.turn, ses.note, ses.keep>>
         /\ \E r \in {"success", "unknown"} :
               /\ sent' = Append(sent, [step |-> ses.step, result |-> r])
               /\ \A j : ResultsOf(j)' = IF j = ses.step THEN ResultsOf(j) \cup {r} ELSE ResultsOf(j)
               /\ \/ r = "success" /\ ses'.pc = "finalComplete"
                  \/ r = "unknown" /\ ses'.pc = "repairFinal"
<1>1. PICK r \in {"success", "unknown"} :
        /\ sent' = Append(sent, [step |-> ses.step, result |-> r])
        /\ IF r = "success" THEN Goto("finalComplete") ELSE FinalFails(TRUE)
  BY DEF FinalCall
<1>2. \A j : ResultsOf(j)' = IF j = ses.step THEN ResultsOf(j) \cup {r} ELSE ResultsOf(j)
  BY <1>1, SentAfter DEF PlanInv, PlanFields, PlanStatuses
<1>3. CASE r = "success"
  BY <1>1, <1>2, <1>3, GotoEffect DEF FinalCall, PlanInv, Remembers
<1>4. CASE r = "unknown"
  BY <1>1, <1>2, <1>4, FinalFailsEffect DEF FinalCall, PlanInv
<1> QED
  BY <1>3, <1>4

LEMMA FinalCompleteEffect ==
  ASSUME PlanInv, FinalComplete
  PROVE  /\ ses.pc = "finalComplete" /\ UNCHANGED <<kinds, mode, plan, tree, cont, rec, sent>>
         /\ UNCHANGED <<ses.step, ses.seen, ses.result, ses.note, ses.keep>>
         /\ \/ final' = "completed" /\ ses'.pc = "finalFinish"
            \/ final' \in {final, "completed"} /\ ses'.pc = "repairFinal"
<1>1. CASE FinalFails(TRUE)
  BY <1>1, FinalFailsEffect DEF FinalComplete, PlanInv
<1>2. CASE final' = "completed" /\ ses' = [ses EXCEPT !.pc = "finalFinish", !.turn = TRUE]
  BY <1>2 DEF FinalComplete, PlanInv, PlanFields, PlanBoundary, Response, Session, Fields
<1> QED
  BY <1>1, <1>2 DEF FinalComplete

LEMMA FinalFinishEffect ==
  ASSUME PlanInv, FinalFinish
  PROVE  /\ ses.pc = "finalFinish" /\ UNCHANGED <<kinds, mode, tree, cont, final, rec, sent>>
         /\ plan[ses.step] = "in_progress"
         /\ UNCHANGED <<ses.step, ses.seen, ses.result, ses.turn>>
         /\ \/ /\ Advance(plan, plan', ses.step, "completed")
               /\ ses'.note[1] = "SUCCESS" /\ ses'.keep = FALSE
               /\ \/ mode # "linear" /\ ses'.pc = "treeFinishFinal"
                  \/ mode = "linear" /\ ses'.pc = "record"
            \/ /\ plan' = plan \/ Advance(plan, plan', ses.step, "completed")
               /\ ses'.pc = "repairFinal" /\ UNCHANGED <<ses.note, ses.keep>>
<1>1. /\ ses.pc = "finalFinish" /\ UNCHANGED <<kinds, mode, tree, cont, final, rec, sent>>
      /\ ses.step \in DOMAIN plan /\ plan[ses.step] = "in_progress"
  BY PlanFacts DEF FinalFinish, PlanInv, SessionInv, InFinal, Asking
<1>2. PICK new : new = Moved(plan, ses.step, "completed")
  OBVIOUS
<1>3. MayMove(plan, ses.step, "completed") => Advance(plan, new, ses.step, "completed")
  BY <1>1, <1>2, StepMoves
<1>4. \/ /\ MayMove(plan, ses.step, "completed") /\ plan' = new
         /\ ses' = [ses EXCEPT !.pc = IF HasTree THEN "treeFinishFinal" ELSE "record",
                               !.goal = "completed",
                               !.note = <<"SUCCESS", "none">>, !.keep = FALSE]
      \/ /\ plan' = plan \/ (plan' = new /\ MayMove(plan, ses.step, "completed"))
         /\ FinalFails(TRUE)
  BY <1>2 DEF FinalFinish, Transition, Durably
<1>5. CASE /\ MayMove(plan, ses.step, "completed") /\ plan' = new
           /\ ses' = [ses EXCEPT !.pc = IF HasTree THEN "treeFinishFinal" ELSE "record",
                               !.goal = "completed",
                               !.note = <<"SUCCESS", "none">>, !.keep = FALSE]
  <2>1. /\ ses'.note[1] = "SUCCESS" /\ ses'.keep = FALSE
        /\ UNCHANGED <<ses.step, ses.seen, ses.result, ses.turn>>
        /\ \/ mode # "linear" /\ ses'.pc = "treeFinishFinal"
           \/ mode = "linear" /\ ses'.pc = "record"
    BY <1>5 DEF PlanInv, PlanFields, PlanBoundary, Response, Session, Fields, HasTree
  <2> QED
    BY <1>1, <1>3, <1>5, <2>1
<1>6. CASE /\ plan' = plan \/ (plan' = new /\ MayMove(plan, ses.step, "completed"))
           /\ FinalFails(TRUE)
  BY <1>1, <1>3, <1>6, FinalFailsEffect DEF PlanInv
<1> QED
  BY <1>4, <1>5, <1>6

LEMMA TreeFinishFinalEffect ==
  ASSUME PlanInv, TreeFinishFinal
  PROVE  /\ ses.pc = "treeFinishFinal" /\ UNCHANGED <<kinds, mode, plan, cont, final, rec, sent>>
         /\ UNCHANGED <<ses.step, ses.seen, ses.result, ses.turn, ses.note, ses.keep>>
         /\ \/ tree' = tree
            \/ /\ plan[ses.step] = "completed" /\ tree[ses.step] = "in_progress"
               /\ Advance(tree, tree', ses.step, "completed")
         /\ ses'.pc \in {"record", "repairFinal"}
<1>1. ses.pc = "treeFinishFinal" /\ UNCHANGED <<kinds, mode, plan, cont, final, rec, sent>>
  BY DEF TreeFinishFinal
<1>2. ses.step \in 1..Len(kinds)
  BY <1>1, PlanFacts DEF PlanInv, SessionInv, InFinal
<1>3. tree # <<>>
  BY <1>1 DEF PlanInv, TreeInv, TreeStands, Settling
<1>4. \/ /\ plan[ses.step] = "completed" /\ tree[ses.step] = "in_progress"
         /\ Advance(tree, tree', ses.step, "completed") /\ Goto("record")
      \/ /\ \/ tree' = tree
            \/ /\ plan[ses.step] = "completed" /\ tree[ses.step] = "in_progress"
               /\ Advance(tree, tree', ses.step, "completed")
         /\ FinalFails(TRUE)
  <2>1. PICK new : new = Moved(tree, ses.step, "completed")
    OBVIOUS
  <2>2. ses.step \in DOMAIN tree
    BY <1>2, <1>3, PlanFacts DEF PlanInv
  <2>3. MayMove(tree, ses.step, "completed") => Advance(tree, new, ses.step, "completed")
    BY <2>1, <2>2, PlanLeafMoves
  <2> QED
    BY <2>1, <2>3 DEF FinishStep, Durably, TreeFinishFinal
<1>5. CASE Goto("record") /\ Advance(tree, tree', ses.step, "completed")
           /\ plan[ses.step] = "completed" /\ tree[ses.step] = "in_progress"
  BY <1>1, <1>5, GotoEffect DEF PlanInv, Remembers
<1>6. CASE FinalFails(TRUE)
           /\ \/ tree' = tree
              \/ /\ plan[ses.step] = "completed" /\ tree[ses.step] = "in_progress"
                 /\ Advance(tree, tree', ses.step, "completed")
  BY <1>1, <1>6, FinalFailsEffect DEF PlanInv
<1> QED
  BY <1>4, <1>5, <1>6

LEMMA RepairFinalEffect ==
  ASSUME PlanInv, RepairFinal
  PROVE  /\ ses.pc = "repairFinal" /\ UNCHANGED <<kinds, mode, plan, cont, final, rec, sent>>
         /\ tree' = tree \/ (mode # "linear" /\ tree' = plan)
         /\ ses'.pc = "record" /\ ses'.note[1] = "FAILED" /\ ses'.keep = TRUE
         /\ UNCHANGED <<ses.step, ses.seen, ses.result, ses.goal, ses.turn>>
<1>1. PICK code : Fail(code, TRUE)
  BY DEF RepairFinal
<1> QED
  BY <1>1, NoteEffect DEF RepairFinal, Fail, PlanInv, HasTree

LEMMA CancelEffect ==
  ASSUME PlanInv, Cancel
  PROVE  /\ ses.pc = "idle" /\ UNCHANGED <<kinds, mode, tree, cont, final, rec, sent>>
         /\ plan[NextStep(plan)] = "pending" /\ plan # <<>>
         /\ \/ /\ Advance(plan, plan', NextStep(plan), "cancelled")
               /\ \/ mode # "linear" /\ ses'.pc = "treeCancel"
                  \/ mode = "linear" /\ ses'.pc = "record"
               /\ ses'.step = NextStep(plan) /\ ses'.keep = FALSE /\ ses'.note[1] = "CANCELLED"
               /\ UNCHANGED <<ses.seen, ses.result, ses.goal, ses.turn>>
            \/ /\ plan' = plan \/ Advance(plan, plan', NextStep(plan), "cancelled")
               /\ ses' = ses
<1>1. /\ ses.pc = "idle" /\ UNCHANGED <<kinds, mode, tree, cont, final, rec, sent>>
      /\ PlanStatus(plan) # "completed" /\ plan # <<>>
  BY DEF Cancel, PlanInv, SessionInv
<1>2. PICK i : i = NextStep(plan)
  OBVIOUS
<1>3. plan[i] = "pending"
  BY <1>2 DEF Cancel
<1>4. First(plan, i) /\ Len(plan) = Len(kinds) /\ Len(kinds) \in Nat \ {0} /\ DOMAIN plan = 1..Len(kinds)
  BY <1>1, <1>2, PlanFacts, NextIs DEF PlanInv, PlanFields, PlanStatuses
<1>5. i \in DOMAIN plan
  <2>1. SUFFICES ASSUME i \notin DOMAIN plan PROVE FALSE
    OBVIOUS
  <2>2. i = Len(kinds) + 1
    BY <1>4, <2>1 DEF First
  <2>3. \A j \in DOMAIN plan : plan[j] = "completed"
    BY <1>4, <2>2 DEF First
  <2>4. {plan[j] : j \in DOMAIN plan} = {"completed"}
    <3>1. 1 \in DOMAIN plan
      BY <1>4
    <3> QED
      BY <2>3, <3>1
  <2> QED
    BY <1>1, <2>4 DEF PlanStatus
<1>6. PICK new : new = Moved(plan, i, "cancelled")
  OBVIOUS
<1>7. Advance(plan, new, i, "cancelled")
  BY <1>1, <1>2, <1>5, <1>6, Advances DEF PlanInv, StepStatuses
<1>8. \/ /\ plan' = new
         /\ ses' = [ses EXCEPT !.pc = IF HasTree THEN "treeCancel" ELSE "record",
                              !.step = i, !.keep = FALSE,
                              !.note = <<"CANCELLED", "EXECUTOR_CANCELLED">>]
      \/ plan' \in {plan, new} /\ ses' = ses
  BY <1>2, <1>6 DEF Cancel, Durably
<1>9. CASE /\ plan' = new
           /\ ses' = [ses EXCEPT !.pc = IF HasTree THEN "treeCancel" ELSE "record",
                              !.step = i, !.keep = FALSE,
                              !.note = <<"CANCELLED", "EXECUTOR_CANCELLED">>]
  <2>1. /\ ses'.step = i /\ ses'.keep = FALSE /\ ses'.note[1] = "CANCELLED"
        /\ UNCHANGED <<ses.seen, ses.result, ses.goal, ses.turn>>
        /\ \/ mode # "linear" /\ ses'.pc = "treeCancel"
           \/ mode = "linear" /\ ses'.pc = "record"
    BY <1>9 DEF PlanInv, PlanFields, PlanBoundary, Response, Session, Fields, HasTree
  <2> QED
    BY <1>1, <1>2, <1>3, <1>7, <1>9, <2>1
<1>10. CASE plan' \in {plan, new} /\ ses' = ses
  BY <1>1, <1>2, <1>3, <1>7, <1>10
<1> QED
  BY <1>8, <1>9, <1>10

LEMMA TreeCancelEffect ==
  ASSUME PlanInv, TreeCancel
  PROVE  /\ ses.pc = "treeCancel" /\ UNCHANGED <<kinds, mode, plan, cont, final, rec, sent>>
         /\ UNCHANGED <<ses.step, ses.seen, ses.result, ses.goal, ses.turn>>
         /\ plan[ses.step] = "cancelled"
         /\ tree' = tree \/ (tree[ses.step] = "pending" /\ Advance(tree, tree', ses.step, "cancelled"))
         /\ \/ ses'.pc = "record" /\ UNCHANGED <<ses.note, ses.keep>>
            \/ ses'.pc = "record" /\ ses'.note[1] = "FAILED" /\ ses'.keep = TRUE
<1>1. /\ ses.pc = "treeCancel" /\ UNCHANGED <<kinds, mode, plan, cont, final, rec, sent>>
      /\ ses.step \in DOMAIN plan /\ plan[ses.step] = "cancelled"
  BY DEF TreeCancel, PlanInv, SessionInv
<1>2. tree # <<>> /\ plan # <<>>
  BY <1>1 DEF PlanInv, TreeInv, TreeStands, Settling
<1>3. ses.step \in DOMAIN tree
  BY <1>1, <1>2, PlanFacts DEF PlanInv
<1>4. PICK new : new = Moved(tree, ses.step, "cancelled")
  OBVIOUS
<1>5. MayMove(tree, ses.step, "cancelled") => Advance(tree, new, ses.step, "cancelled")
  BY <1>3, <1>4, PlanLeafMoves
<1>6. /\ tree' = tree \/ (tree[ses.step] = "pending" /\ tree' = new
                            /\ MayMove(tree, ses.step, "cancelled"))
      /\ Goto("record") \/ Fail("EXECUTOR_TREE_COMMIT_FAILED", TRUE)
  BY <1>4 DEF TreeCancel, Durably
<1>7. /\ UNCHANGED <<ses.step, ses.seen, ses.result, ses.goal, ses.turn>>
      /\ \/ ses'.pc = "record" /\ UNCHANGED <<ses.note, ses.keep>>
         \/ ses'.pc = "record" /\ ses'.note[1] = "FAILED" /\ ses'.keep = TRUE
  BY <1>6, GotoEffect, NoteEffect DEF Fail, PlanInv, Remembers
<1> QED
  BY <1>1, <1>5, <1>6, <1>7

LEMMA ShutdownEffect ==
  ASSUME PlanInv, Shutdown
  PROVE  /\ ses.pc = "shutdown" /\ UNCHANGED <<kinds, mode, plan, tree, final, rec, sent>>
         /\ \/ cont' = cont
            \/ ses.keep # TRUE /\ cont'.stage = "absent" /\ cont'.step = 0 /\ cont'.result = "none"
         /\ ses'.pc = "closed" /\ ses'.step = 0 /\ ses'.note[1] = "none" /\ ses'.keep = FALSE
<1>1. Absent.stage = "absent" /\ Absent.step = 0 /\ Absent.result = "none"
  BY DEF Absent, NoBoundary
<1> QED
  BY <1>1, EndEffect DEF Shutdown

LEMMA ReconcileObservationEffect ==
  ASSUME PlanInv, ReconcileObservation
  PROVE  /\ ses.pc = "closed" /\ UNCHANGED <<kinds, mode, tree, cont, final, rec, ses, sent>>
         /\ cont.stage = "completed" /\ plan[cont.step] = "in_progress"
         /\ kinds[cont.step] = "observation"
         /\ \/ cont.result = "success" /\ Advance(plan, plan', cont.step, "completed")
            \/ cont.result = "action_error" /\ Advance(plan, plan', cont.step, "failed")
<1>1. PICK i : i = NextStep(plan)
  OBVIOUS
<1>2. PICK goal : goal = IF cont.result = "success" THEN "completed" ELSE "failed"
  OBVIOUS
<1>3. /\ ses.pc = "closed" /\ UNCHANGED <<kinds, mode, tree, cont, final, rec, ses, sent>>
      /\ cont.stage = "completed" /\ cont.step = i /\ plan[i] = "in_progress"
      /\ kinds[i] = "observation" /\ cont.result \in {"success", "action_error"}
      /\ plan' = Moved(plan, i, goal) /\ i \in DOMAIN plan
  BY <1>1, <1>2 DEF ReconcileObservation
<1>4. plan # <<>> /\ goal \in StepStatuses
  BY <1>2, <1>3, PlanFacts DEF StepStatuses, PlanInv
<1>5. Advance(plan, plan', i, goal)
  BY <1>1, <1>3, <1>4, Advances DEF PlanInv
<1> QED
  BY <1>2, <1>3, <1>5

LEMMA ReconcileFinalEffect ==
  ASSUME PlanInv, ReconcileFinal
  PROVE  /\ ses.pc = "closed" /\ UNCHANGED <<kinds, mode, tree, cont, final, rec, sent>>
         /\ plan # <<>> /\ final = "completed" /\ plan[Len(kinds)] \in {"in_progress", "completed"}
         /\ \/ plan' = plan
            \/ plan[Len(kinds)] = "in_progress" /\ Advance(plan, plan', Len(kinds), "completed")
         /\ \/ ses' = ses
            \/ /\ plan'[Len(kinds)] = "completed" /\ ses'.note[1] = "none" /\ ses'.step = 0
               /\ \/ ses'.pc = "reconciled" /\ rec.phase = "SUCCESS"
                  \/ ses'.pc = "reconcile" /\ rec.phase # "SUCCESS"
<1>1. /\ ses.pc = "closed" /\ UNCHANGED <<kinds, mode, tree, cont, final, rec, sent>>
      /\ plan # <<>> /\ final = "completed" /\ plan[Len(plan)] \in {"in_progress", "completed"}
  BY DEF ReconcileFinal, FinalReconcilable
<1>2. PICK last : last = Len(kinds)
  OBVIOUS
<1>3. /\ Len(plan) = last /\ last \in 1..Len(kinds) /\ DOMAIN plan = 1..Len(kinds)
      /\ plan \in Seq(StepStatuses) /\ InOrder(plan)
  BY <1>1, <1>2, PlanFacts DEF PlanInv, PlanFields, PlanStatuses
<1>4. PICK new : new = Moved(plan, last, "completed")
  OBVIOUS
<1>5. plan' \in {plan, new}
  BY <1>1, <1>3, <1>4 DEF ReconcileFinal
<1>8. plan' = plan \/ (plan[last] = "in_progress" /\ Advance(plan, plan', last, "completed"))
  <2>1. CASE plan[last] = "completed"
    <3>1. new = plan
      BY <1>3, <1>4, <2>1 DEF Moved
    <3> QED
      BY <1>5, <3>1
  <2>2. CASE plan[last] = "in_progress"
    <3>1. \A j \in 1..last - 1 : plan[j] = "completed"
      BY <1>1, <1>2 DEF PlanInv, FinalInv, FinalPlace
    <3>2. First(plan, last) /\ First(plan, NextStep(plan))
      BY <1>3, <2>2, <3>1, NextIs DEF First
    <3>3. NextStep(plan) = last
      BY <1>3, <3>2 DEF First
    <3>4. Advance(plan, new, last, "completed")
      BY <1>1, <1>3, <1>4, <3>3, Advances DEF PlanInv, StepStatuses
    <3> QED
      BY <1>5, <2>2, <3>4
  <2> QED
    BY <1>1, <1>3, <2>1, <2>2
<1>9. \/ ses' = ses
      \/ /\ plan'[last] = "completed" /\ ses'.note[1] = "none" /\ ses'.step = 0
         /\ \/ ses'.pc = "reconciled" /\ rec.phase = "SUCCESS"
            \/ ses'.pc = "reconcile" /\ rec.phase # "SUCCESS"
  <2>1. \/ ses' = ses
        \/ plan'[last] = "completed"
           /\ ses' = [NoSession EXCEPT !.pc = IF rec.phase = "SUCCESS" THEN "reconciled"
                                              ELSE "reconcile"]
    BY <1>3 DEF ReconcileFinal
  <2>2. \/ ses' = ses
        \/ /\ plan'[last] = "completed"
           /\ \/ ses' = [NoSession EXCEPT !.pc = "reconciled"] /\ rec.phase = "SUCCESS"
              \/ ses' = [NoSession EXCEPT !.pc = "reconcile"] /\ rec.phase # "SUCCESS"
    BY <2>1
  <2> QED
    BY <2>2 DEF NoSession
<1> QED
  BY <1>1, <1>2, <1>3, <1>8, <1>9

LEMMA OpenPlanEffect ==
  ASSUME PlanInv, OpenPlan
  PROVE  /\ ses.pc = "closed" /\ plan = <<>> /\ UNCHANGED <<kinds, mode, tree, cont, final, rec, sent>>
         /\ \/ plan' = plan
            \/ /\ plan' # <<>> /\ plan' \in [1..Len(kinds) -> StepStatuses] /\ InOrder(plan')
               /\ \A j \in 1..Len(kinds) : plan'[j] = "pending"
         /\ \/ ses' = ses
            \/ /\ plan' # <<>> /\ Remembers
               /\ \/ mode # "linear" /\ ses'.pc = "openTree"
                  \/ mode = "linear" /\ ses'.pc = "openRecord"
<1>1. PICK new : new = AllPending(kinds)
  OBVIOUS
<1>2. /\ new \in [1..Len(kinds) -> StepStatuses] /\ \A j \in 1..Len(kinds) : new[j] = "pending"
      /\ Len(kinds) \in Nat \ {0}
  BY <1>1, PlanFacts DEF AllPending, StepStatuses, PlanInv
<1>3. new \in Seq(StepStatuses) /\ Len(new) = Len(kinds)
  BY <1>2, SequenceOf
<1>4. First(new, 1)
  BY <1>2, <1>3 DEF First
<1>5. InOrder(new)
  BY <1>2, <1>3, <1>4, OnlyOne
<1>6. new # <<>>
  BY <1>2, <1>3
<1>7. \/ plan' = new /\ Goto(IF HasTree THEN "openTree" ELSE "openRecord")
      \/ plan' \in {plan, new} /\ ses' = ses
  BY <1>1 DEF OpenPlan, Durably
<1>8. CASE plan' \in {plan, new} /\ ses' = ses
  BY <1>2, <1>5, <1>6, <1>8 DEF OpenPlan
<1>9. CASE plan' = new /\ Goto(IF HasTree THEN "openTree" ELSE "openRecord")
  BY <1>2, <1>5, <1>6, <1>9, GotoEffect DEF OpenPlan, HasTree, PlanInv
<1> QED
  BY <1>7, <1>8, <1>9

LEMMA OpenTreeEffect ==
  ASSUME PlanInv, OpenTree
  PROVE  /\ ses.pc = "openTree" /\ UNCHANGED <<kinds, mode, plan, cont, final, rec, sent>>
         /\ Remembers
         /\ \/ tree' = plan /\ ses'.pc = "openRecord"
            \/ tree' \in {tree, plan} /\ ses'.pc = "closed"
BY GotoEffect DEF OpenTree, Durably, PlanInv

LEMMA OpenRecordEffect ==
  ASSUME PlanInv, OpenRecord
  PROVE  /\ ses.pc = "openRecord" /\ UNCHANGED <<kinds, mode, plan, tree, cont, final, sent>>
         /\ Remembers /\ ses'.pc \in {"openDesktop", "closed"}
         /\ rec'.phase \in {rec.phase, "OBSERVING", "CREATED"}
<1>1. rec'.phase \in {rec.phase, "OBSERVING", "CREATED"}
  BY DEF OpenRecord, PlanInv, PlanFields, PlanBoundary, Response, Session, Fields
<1> QED
  BY <1>1, GotoEffect DEF OpenRecord, PlanInv

LEMMA RecordTraceEffect ==
  ASSUME PlanInv, RecordTrace
  PROVE  /\ ses.pc = "record" /\ UNCHANGED <<kinds, mode, plan, tree, cont, final, sent>>
         /\ Remembers /\ rec'.phase = rec.phase
         /\ \/ ses'.pc = "checkpoint"
            \/ ses.note[1] = "SUCCESS" /\ ses'.pc = "repairFinal"
            \/ ses.note[1] # "SUCCESS" /\ ses'.pc = "idle"
<1>1. rec'.phase = rec.phase
  BY DEF RecordTrace, PlanInv, PlanFields, PlanBoundary, Response, Session, Fields
<1> QED
  BY <1>1, GotoEffect DEF RecordTrace, NotRecorded, PlanInv

LEMMA RecordCheckpointEffect ==
  ASSUME PlanInv, RecordCheckpoint
  PROVE  /\ ses.pc = "checkpoint" /\ UNCHANGED <<kinds, mode, plan, tree, cont, final, sent>>
         /\ Remembers
         /\ \/ ses'.pc = "shutdown" /\ rec'.phase = ses.note[1]
            \/ ses.note[1] = "SUCCESS" /\ ses'.pc = "repairFinal" /\ rec' = rec
            \/ ses.note[1] # "SUCCESS" /\ ses'.pc = "idle" /\ rec' = rec
<1>1. \/ rec'.phase = ses.note[1] /\ Goto("shutdown")
      \/ rec' = rec /\ NotRecorded
  BY DEF RecordCheckpoint, PlanInv, PlanFields, PlanBoundary, Response, Session, Fields
<1> QED
  BY <1>1, GotoEffect DEF RecordCheckpoint, NotRecorded, PlanInv

LEMMA PreserveEffect ==
  ASSUME PlanInv, PreserveAndClose
  PROVE  /\ ses.pc = "idle" /\ UNCHANGED <<kinds, mode, plan, tree, cont, final, rec, sent>>
         /\ ses'.pc = "record" /\ ses'.note[1] = "FAILED" /\ ses'.keep = TRUE
         /\ UNCHANGED <<ses.step, ses.seen, ses.result, ses.goal, ses.turn>>
BY NoteEffect DEF PreserveAndClose, Fail, PlanInv

LEMMA CrashEffect ==
  ASSUME PlanInv, Crash
  PROVE  /\ UNCHANGED <<kinds, mode, plan, tree, cont, final, rec, sent>>
         /\ ses'.pc = "closed" /\ ses'.step = 0 /\ ses'.note[1] = "none" /\ ses'.keep = FALSE
BY EndEffect DEF Crash

LEMMA ReconcileFromPlanEffect ==
  ASSUME PlanInv, ReconcileFromPlan
  PROVE  /\ ses.pc = "closed" /\ tree # <<>> /\ tree' = plan
         /\ UNCHANGED <<kinds, mode, plan, cont, final, rec, ses, sent>>
BY DEF ReconcileFromPlan

LEMMA ReconcileFinalSuccessEffect ==
  ASSUME PlanInv, ReconcileFinalSuccess
  PROVE  /\ UNCHANGED <<kinds, mode, plan, tree, final, sent>> /\ Remembers
         /\ \/ /\ ses.pc = "reconcile" /\ ses'.pc = "reconciled_trace"
               /\ cont' = cont /\ rec'.phase = rec.phase
            \/ /\ ses.pc = "reconciled_trace" /\ ses'.pc = "reconciled"
               /\ cont' = cont /\ rec'.phase = "SUCCESS"
            \/ /\ ses.pc = "reconciled" /\ ses'.pc = "closed" /\ rec' = rec
               /\ cont'.stage = "absent" /\ cont'.step = 0 /\ cont'.result = "none"
<1>1. Absent.stage = "absent" /\ Absent.step = 0 /\ Absent.result = "none"
  BY DEF Absent, NoBoundary
<1>2. CASE ses.pc = "reconcile"
  BY <1>2, GotoEffect DEF ReconcileFinalSuccess, PlanInv, PlanFields, PlanBoundary, Response,
    Session, Fields
<1>3. CASE ses.pc = "reconciled_trace"
  BY <1>3, GotoEffect DEF ReconcileFinalSuccess, PlanInv
<1>4. CASE ses.pc = "reconciled"
  BY <1>1, <1>4, GotoEffect DEF ReconcileFinalSuccess, PlanInv
<1> QED
  BY <1>2, <1>3, <1>4 DEF ReconcileFinalSuccess

LEMMA SameResults ==
  ASSUME sent' = sent
  PROVE  \A j : ResultsOf(j)' = ResultsOf(j)
BY DEF ResultsOf

LEMMA FirstWrite ==
  ASSUME PlanInv, BoundaryWrite("boundary", "prepared", "dispatch")
  PROVE  /\ ses.pc = "boundary" /\ UNCHANGED <<kinds, mode, plan, tree, final, sent>>
         /\ rec'.phase = "EXECUTING"
         /\ \/ cont'.stage = "prepared" /\ cont'.step = ses.step /\ ses'.pc = "dispatch" /\ Remembers
            \/ /\ cont' = cont \/ (cont'.stage = "prepared" /\ cont'.step = ses.step)
               /\ ses'.pc = "planTarget" /\ ses'.goal = "failed"
               /\ ses'.note[1] \in {"PAUSED", "FAILED"}
               /\ UNCHANGED <<ses.step, ses.seen, ses.turn>>
BY BoundaryWriteEffect

LEMMA SecondWrite ==
  ASSUME PlanInv, BoundaryWrite("dispatch", "dispatched", "call")
  PROVE  /\ ses.pc = "dispatch" /\ UNCHANGED <<kinds, mode, plan, tree, final, sent>>
         /\ rec'.phase = "EXECUTING"
         /\ \/ cont'.stage = "dispatched" /\ cont'.step = ses.step /\ ses'.pc = "call" /\ Remembers
            \/ /\ cont' = cont \/ (cont'.stage = "dispatched" /\ cont'.step = ses.step)
               /\ ses'.pc = "planTarget" /\ ses'.goal = "failed"
               /\ ses'.note[1] \in {"PAUSED", "FAILED"}
               /\ UNCHANGED <<ses.step, ses.seen, ses.turn>>
BY BoundaryWriteEffect

-----------------------------------------------------------------------------
(* The step a session is at.                                               *)
LEMMA HoldsAStep ==
  ASSUME PlanInv, ses.pc \in InTool \cup InFinal
  PROVE  /\ plan # <<>> /\ Len(kinds) \in Nat /\ ses.step \in 1..Len(kinds)
         /\ ses.pc \in InTool => ses.step \in 1..Len(kinds) - 1 /\ ses.step # Len(kinds)
         /\ ses.pc \in InFinal => ses.step = Len(kinds)
<1>1. Len(kinds) \in Nat \ {0}
  BY PlanFacts DEF PlanInv
<1>2. plan # <<>>
  BY DEF PlanInv, SessionInv, InTool, InFinal, Held, Before, Asking
<1>3. /\ ses.pc \in InTool => ses.step \in 1..Len(kinds) - 1
      /\ ses.pc \in InFinal => ses.step = Len(kinds)
  BY DEF PlanInv, SessionInv
<1> QED
  BY <1>1, <1>2, <1>3

-----------------------------------------------------------------------------
(* The shape of the state.                                                 *)
LEMMA StatusesMove ==
  ASSUME PlanInv, Next
  PROVE  /\ kinds' = kinds /\ mode' = mode
         /\ plan' = <<>> \/ plan' \in [1..Len(kinds) -> StepStatuses]
         /\ tree' = <<>> \/ tree' \in [1..Len(kinds) -> StepStatuses]
         /\ InOrder(plan') /\ InOrder(tree')
<1>1. CASE OpenPlan
  BY <1>1, PlanFacts, OpenPlanEffect DEF PlanInv, PlanFields, PlanStatuses, Advance
<1>2. CASE OpenTree
  BY <1>2, PlanFacts, OpenTreeEffect DEF PlanInv, PlanFields, PlanStatuses, Advance
<1>3. CASE OpenRecord
  BY <1>3, PlanFacts, OpenRecordEffect DEF PlanInv, PlanFields, PlanStatuses, Advance
<1>4. CASE OpenDesktop
  BY <1>4, PlanFacts, OpenDesktopEffect DEF PlanInv, PlanFields, PlanStatuses, Advance
<1>5. CASE PrepareNext
  BY <1>5, PlanFacts, PrepareNextEffect DEF PlanInv, PlanFields, PlanStatuses, Advance
<1>6. CASE TreeStart
  BY <1>6, PlanFacts, StartStepEffect DEF PlanInv, PlanFields, PlanStatuses, Advance
<1>7. CASE PlanStart
  BY <1>7, PlanFacts, PlanStartEffect DEF PlanInv, PlanFields, PlanStatuses, Advance
<1>8. CASE RepairStart
  BY <1>8, PlanFacts, RepairStartEffect DEF PlanInv, PlanFields, PlanStatuses, Advance
<1>9. CASE BoundaryRefuses
  BY <1>9, PlanFacts, BoundaryRefusesEffect DEF PlanInv, PlanFields, PlanStatuses, Advance
<1>10. CASE BoundaryWrite("boundary", "prepared", "dispatch")
  BY <1>10, PlanFacts, FirstWrite DEF PlanInv, PlanFields, PlanStatuses, Advance
<1>11. CASE BoundaryWrite("dispatch", "dispatched", "call")
  BY <1>11, PlanFacts, SecondWrite DEF PlanInv, PlanFields, PlanStatuses, Advance
<1>12. CASE BoundaryCall
  BY <1>12, PlanFacts, BoundaryCallEffect DEF PlanInv, PlanFields, PlanStatuses, Advance
<1>13. CASE BoundaryComplete
  BY <1>13, PlanFacts, BoundaryCompleteEffect DEF PlanInv, PlanFields, PlanStatuses, Advance
<1>14. CASE PlanTarget
  BY <1>14, PlanFacts, PlanTargetEffect DEF PlanInv, PlanFields, PlanStatuses, Advance
<1>15. CASE TreeFinish
  BY <1>15, PlanFacts, TreeFinishEffect DEF PlanInv, PlanFields, PlanStatuses, Advance
<1>16. CASE RecordTrace
  BY <1>16, PlanFacts, RecordTraceEffect DEF PlanInv, PlanFields, PlanStatuses, Advance
<1>17. CASE RecordCheckpoint
  BY <1>17, PlanFacts, RecordCheckpointEffect DEF PlanInv, PlanFields, PlanStatuses, Advance
<1>18. CASE Shutdown
  BY <1>18, PlanFacts, ShutdownEffect DEF PlanInv, PlanFields, PlanStatuses, Advance
<1>19. CASE PrepareFinal
  BY <1>19, PlanFacts, PrepareFinalEffect DEF PlanInv, PlanFields, PlanStatuses, Advance
<1>20. CASE TreeStartFinal
  BY <1>20, PlanFacts, StartStepEffect DEF PlanInv, PlanFields, PlanStatuses, Advance
<1>21. CASE FinalCreate
  BY <1>21, PlanFacts, FinalCreateEffect DEF PlanInv, PlanFields, PlanStatuses, Advance
<1>22. CASE FinalStart
  BY <1>22, PlanFacts, FinalStartEffect DEF PlanInv, PlanFields, PlanStatuses, Advance
<1>23. CASE FinalIntent
  BY <1>23, PlanFacts, FinalIntentEffect DEF PlanInv, PlanFields, PlanStatuses, Advance
<1>24. CASE FinalCall
  BY <1>24, PlanFacts, FinalCallEffect DEF PlanInv, PlanFields, PlanStatuses, Advance
<1>25. CASE FinalComplete
  BY <1>25, PlanFacts, FinalCompleteEffect DEF PlanInv, PlanFields, PlanStatuses, Advance
<1>26. CASE FinalFinish
  BY <1>26, PlanFacts, FinalFinishEffect DEF PlanInv, PlanFields, PlanStatuses, Advance
<1>27. CASE TreeFinishFinal
  BY <1>27, PlanFacts, TreeFinishFinalEffect DEF PlanInv, PlanFields, PlanStatuses, Advance
<1>28. CASE RepairFinal
  BY <1>28, PlanFacts, RepairFinalEffect DEF PlanInv, PlanFields, PlanStatuses, Advance
<1>29. CASE Cancel
  BY <1>29, PlanFacts, CancelEffect DEF PlanInv, PlanFields, PlanStatuses, Advance
<1>30. CASE TreeCancel
  BY <1>30, PlanFacts, TreeCancelEffect DEF PlanInv, PlanFields, PlanStatuses, Advance
<1>31. CASE PreserveAndClose
  BY <1>31, PlanFacts, PreserveEffect DEF PlanInv, PlanFields, PlanStatuses, Advance
<1>32. CASE Crash
  BY <1>32, PlanFacts, CrashEffect DEF PlanInv, PlanFields, PlanStatuses, Advance
<1>33. CASE ReconcileObservation
  BY <1>33, PlanFacts, ReconcileObservationEffect DEF PlanInv, PlanFields, PlanStatuses, Advance
<1>34. CASE ReconcileFromPlan
  BY <1>34, PlanFacts, ReconcileFromPlanEffect DEF PlanInv, PlanFields, PlanStatuses, Advance
<1>35. CASE ReconcileFinal
  BY <1>35, PlanFacts, ReconcileFinalEffect DEF PlanInv, PlanFields, PlanStatuses, Advance
<1>36. CASE ReconcileFinalSuccess
  BY <1>36, PlanFacts, ReconcileFinalSuccessEffect DEF PlanInv, PlanFields, PlanStatuses, Advance
<1> QED
  BY <1>1, <1>2, <1>3, <1>4, <1>5, <1>6, <1>7, <1>8, <1>9, <1>10, <1>11, <1>12, <1>13, <1>14,
    <1>15, <1>16, <1>17, <1>18, <1>19, <1>20, <1>21, <1>22, <1>23, <1>24, <1>25, <1>26, <1>27,
    <1>28, <1>29, <1>30, <1>31, <1>32, <1>33, <1>34, <1>35, <1>36
  DEF Next, Open, ExecuteNextTool, Record, ExecuteFinalResponse, Reconcile

LEMMA SentTyped ==
  ASSUME PlanInv, Next
  PROVE  sent' \in Seq([step : 1..Len(kinds), result : Results])
<1>1. CASE sent' = sent
  BY <1>1 DEF PlanInv, PlanFields, PlanStatuses
<1>2. ASSUME ses.pc \in {"call", "finalCall"}, NEW r \in Results,
             sent' = Append(sent, [step |-> ses.step, result |-> r])
      PROVE  sent' \in Seq([step : 1..Len(kinds), result : Results])
  <2>1. ses.step \in 1..Len(kinds)
    BY <1>2, HoldsAStep DEF InTool, Held, InFinal, Asking
  <2>2. [step |-> ses.step, result |-> r] \in [step : 1..Len(kinds), result : Results]
    BY <2>1
  <2> QED
    BY <1>2, <2>2, AppendProperties DEF PlanInv, PlanFields, PlanStatuses
<1>3. CASE BoundaryCall
  <2>1. PICK r \in Results : sent' = IF r = "rejected" THEN sent
                                     ELSE Append(sent, [step |-> ses.step, result |-> r])
    BY <1>3 DEF BoundaryCall
  <2> QED
    BY <1>1, <1>2, <1>3, <2>1 DEF BoundaryCall
<1>4. CASE FinalCall
  <2>1. PICK r \in {"success", "unknown"} : sent' = Append(sent, [step |-> ses.step, result |-> r])
    BY <1>4 DEF FinalCall
  <2> QED
    BY <1>2, <1>4, <2>1 DEF FinalCall, Results
<1> QED
  <2>1. BoundaryCall \/ FinalCall \/ sent' = sent
    BY DEF Next, Open, ExecuteNextTool, Record, ExecuteFinalResponse, Reconcile,
      OpenPlan, OpenTree, OpenRecord, OpenDesktop, PrepareNext, TreeStart, PlanStart, RepairStart,
      BoundaryRefuses, BoundaryWrite, BoundaryComplete, PlanTarget, TreeFinish, RecordTrace,
      RecordCheckpoint, Shutdown, PrepareFinal, TreeStartFinal, FinalCreate, FinalStart,
      FinalIntent, FinalComplete, FinalFinish, TreeFinishFinal, RepairFinal, Cancel, TreeCancel,
      PreserveAndClose, Crash, ReconcileObservation, ReconcileFromPlan, ReconcileFinal,
      ReconcileFinalSuccess
  <2> QED
    BY <1>1, <1>3, <1>4, <2>1

LEMMA StatusesKept ==
  ASSUME PlanInv, Next
  PROVE  PlanStatuses'
<1>1. DOMAIN kinds = 1..Len(kinds)
  BY PlanFacts DEF PlanInv
<1> QED
  BY <1>1, StatusesMove, SentTyped DEF PlanInv, PlanFields, PlanStatuses

LEMMA BoundaryKept ==
  ASSUME PlanInv, Next
  PROVE  PlanBoundary'
<1> USE DEF Fields
<1>1. CASE UNCHANGED <<kinds, cont>>
  BY <1>1 DEF PlanInv, PlanFields, PlanBoundary
<1>a. Len(kinds) \in Nat
  BY PlanFacts DEF PlanInv
<1>2. CASE kinds' = kinds /\ cont' \in {Absent, NoBoundary}
  BY <1>a, <1>2 DEF PlanBoundary, Absent, NoBoundary
<1>3. ASSUME kinds' = kinds, ses.pc \in InTool, NEW s, NEW r \in Results \cup {"none"},
             cont' = [stage |-> s, step |-> ses.step, result |-> r]
      PROVE  PlanBoundary'
  <2>1. ses.step \in 1..Len(kinds)
    BY <1>3, HoldsAStep
  <2> QED
    BY <1>a, <1>3, <2>1 DEF PlanBoundary
<1>4. CASE OpenDesktop \/ Shutdown \/ ReconcileFinalSuccess
  BY <1>1, <1>2, <1>4 DEF OpenDesktop, Shutdown, ReconcileFinalSuccess
<1>5. CASE BoundaryWrite("boundary", "prepared", "dispatch")
  BY <1>1, <1>3, <1>5 DEF BoundaryWrite, Durably, InTool, Held
<1>6. CASE BoundaryWrite("dispatch", "dispatched", "call")
  BY <1>1, <1>3, <1>6 DEF BoundaryWrite, Durably, InTool, Held
<1>7. CASE BoundaryComplete
  <2>1. ses.result \in Results
    BY <1>7 DEF BoundaryComplete, PlanInv, SentInv, Underway
  <2> QED
    BY <1>1, <1>3, <1>7, <2>1 DEF BoundaryComplete, Durably, InTool, Held
<1> QED
  <2>1. \/ OpenDesktop \/ Shutdown \/ ReconcileFinalSuccess \/ BoundaryComplete
        \/ BoundaryWrite("boundary", "prepared", "dispatch")
        \/ BoundaryWrite("dispatch", "dispatched", "call")
        \/ UNCHANGED <<kinds, cont>>
    BY DEF Next, Open, ExecuteNextTool, Record, ExecuteFinalResponse, Reconcile,
      OpenPlan, OpenTree, OpenRecord, PrepareNext, TreeStart, PlanStart, RepairStart,
      BoundaryRefuses, BoundaryCall, PlanTarget, TreeFinish, RecordTrace,
      RecordCheckpoint, PrepareFinal, TreeStartFinal, FinalCreate, FinalStart,
      FinalIntent, FinalCall, FinalComplete, FinalFinish, TreeFinishFinal, RepairFinal, Cancel,
      TreeCancel, PreserveAndClose, Crash, ReconcileObservation, ReconcileFromPlan, ReconcileFinal
  <2> QED
    BY <1>1, <1>4, <1>5, <1>6, <1>7, <2>1

LEMMA ResponseKept ==
  ASSUME PlanInv, Next
  PROVE  Response'
<1>1. CASE UNCHANGED <<final, rec>>
  BY <1>1 DEF PlanInv, PlanFields, Response, Fields
<1>2. CASE FinalCreate \/ FinalIntent \/ FinalComplete
  BY <1>2 DEF PlanInv, PlanFields, Response, Fields, FinalCreate, FinalIntent, FinalComplete,
    Durably
<1>3. CASE OpenRecord
  BY <1>3 DEF PlanInv, PlanFields, Response, Fields, OpenRecord
<1>4. CASE OpenDesktop
  BY <1>4 DEF PlanInv, PlanFields, Response, Fields, OpenDesktop
<1>5. CASE BoundaryWrite("boundary", "prepared", "dispatch")
  BY <1>5 DEF PlanInv, PlanFields, Response, Fields, BoundaryWrite
<1>6. CASE BoundaryWrite("dispatch", "dispatched", "call")
  BY <1>6 DEF PlanInv, PlanFields, Response, Fields, BoundaryWrite
<1>7. CASE BoundaryComplete
  BY <1>7 DEF PlanInv, PlanFields, Response, Fields, BoundaryComplete
<1>8. CASE RecordTrace
  BY <1>8 DEF PlanInv, PlanFields, Response, Fields, RecordTrace
<1>9. CASE RecordCheckpoint
  BY <1>9 DEF PlanInv, PlanFields, Response, Session, Fields, RecordCheckpoint
<1>10. CASE ReconcileFinalSuccess
  <2>1. CASE ses.pc = "reconciled_trace"
    <3>1. PICK yes : yes = TRUE
      OBVIOUS
    <3>2. rec' = [phase |-> "SUCCESS", code |-> "none", turn |-> yes, lines |-> rec.lines]
      BY <1>10, <2>1, <3>1 DEF ReconcileFinalSuccess
    <3>3. /\ Fields(rec', {"phase", "code", "turn", "lines"})
          /\ rec'.turn = yes /\ rec'.lines = rec.lines
      BY <3>2 DEF Fields
    <3> QED
      BY <1>10, <2>1, <3>1, <3>3 DEF ReconcileFinalSuccess, PlanInv, PlanFields, Response
  <2>2. CASE ses.pc # "reconciled_trace"
    BY <1>10, <2>2 DEF PlanInv, PlanFields, Response, Fields, ReconcileFinalSuccess
  <2> QED
    BY <2>1, <2>2
<1> QED
  <2>1. \/ FinalCreate \/ FinalIntent \/ FinalComplete \/ OpenRecord \/ OpenDesktop
        \/ BoundaryWrite("boundary", "prepared", "dispatch")
        \/ BoundaryWrite("dispatch", "dispatched", "call")
        \/ BoundaryComplete \/ RecordTrace \/ RecordCheckpoint \/ ReconcileFinalSuccess
        \/ UNCHANGED <<final, rec>>
    BY DEF Next, Open, ExecuteNextTool, Record, ExecuteFinalResponse, Reconcile,
      OpenPlan, OpenTree, PrepareNext, TreeStart, PlanStart, RepairStart,
      BoundaryRefuses, BoundaryCall, PlanTarget, TreeFinish, Shutdown,
      PrepareFinal, TreeStartFinal, FinalStart, FinalCall, FinalFinish, TreeFinishFinal,
      RepairFinal, Cancel, TreeCancel, PreserveAndClose, Crash, ReconcileObservation,
      ReconcileFromPlan, ReconcileFinal
  <2> QED
    BY <1>1, <1>2, <1>3, <1>4, <1>5, <1>6, <1>7, <1>8, <1>9, <1>10, <2>1

LEMMA SessionKept ==
  ASSUME PlanInv, Next
  PROVE  Session'
<1>1. Session /\ Len(kinds) \in Nat /\ kinds' = kinds
  BY StatusesMove, PlanFacts DEF PlanInv, PlanFields
<1>2. CASE ses' = ses
  BY <1>1, <1>2 DEF Session, Fields
<1>3. CASE \/ ses' = NoSession \/ ses' = [NoSession EXCEPT !.pc = "reconcile"]
           \/ ses' = [NoSession EXCEPT !.pc = "reconciled"]
  <2>1. PICK to : to \in Pcs /\ ses' = [NoSession EXCEPT !.pc = to]
    <3>1. NoSession = [NoSession EXCEPT !.pc = "closed"]
      BY DEF NoSession
    <3> QED
      BY <1>3, <3>1 DEF Pcs
  <2>2. PICK no : no = FALSE
    OBVIOUS
  <2>3. ses' = [pc |-> to, step |-> 0, seen |-> <<>>, calls |-> 0, outstanding |-> no,
                result |-> "none", goal |-> "none", turn |-> no, note |-> <<"none", "none">>,
                keep |-> no]
    BY <2>1, <2>2 DEF NoSession
  <2>4. Fields(ses', {"pc", "step", "seen", "calls", "outstanding", "result", "goal", "turn",
                      "note", "keep"})
    BY <2>3 DEF Fields
  <2>5. ses'.pc = to /\ ses'.step = 0 /\ ses'.calls = 0 /\ ses'.turn = no
    BY <2>3
  <2>6. ses'.turn \in BOOLEAN /\ ses'.calls \in 0..MaxSessionSteps
    <3>1. ses'.calls \in 0..MaxSessionSteps
      BY <2>5, PlansAssumption
    <3>2. ses'.turn \in BOOLEAN
      BY <2>2, <2>5, Zenon
    <3> QED
      BY <3>1, <3>2
  <2>7. ses'.step \in 0..Len(kinds)'
    BY <1>1, <2>5
  <2> QED
    BY <2>1, <2>4, <2>5, <2>6, <2>7 DEF Session
<1>4. ASSUME NEW to \in Pcs, Goto(to) PROVE Session'
  BY <1>1, <1>4 DEF Session, Fields, Goto
<1>5. ASSUME NEW phase, NEW code, NEW keep, Note(phase, code, keep) PROVE Session'
  BY <1>1, <1>5 DEF Session, Fields, Note, Pcs
<1>6. ASSUME NEW result, NEW goal, NEW code, NEW keep, ses' = Outcome(result, goal, code, keep)
      PROVE  Session'
  BY <1>1, <1>6 DEF Session, Fields, Outcome, Pcs
<1>7. ASSUME NEW intent, FinalFails(intent) PROVE Session'
  BY <1>1, <1>7 DEF Session, Fields, FinalFails, Pcs
<1>8. CASE PrepareNext
  <2>1. ses'.step \in 1..Len(kinds) - 1
    BY <1>8, PrepareNextEffect
  <2> QED
    <3>a. PICK to : to = IF HasTree THEN "treeStart" ELSE "planStart"
      OBVIOUS
    <3>b. PICK i, yes : i = NextStep(plan) /\ yes = TRUE
      OBVIOUS
    <3>c. to \in Pcs
      BY <3>a DEF Pcs
    <3>1. ses' = [ses EXCEPT !.pc = to, !.step = i, !.seen = plan,
                             !.outstanding = yes, !.calls = @ + 1]
      BY <1>8, <3>a, <3>b DEF PrepareNext
    <3>2. ses.calls \in Nat /\ ses.calls < MaxSessionSteps /\ ses.calls + 1 \in 0..MaxSessionSteps
      BY <1>1, <1>8, PlansAssumption DEF PrepareNext, Session
    <3>3. /\ Fields(ses', {"pc", "step", "seen", "calls", "outstanding", "result", "goal", "turn",
                           "note", "keep"})
          /\ ses'.pc = to /\ ses'.turn = ses.turn /\ ses'.calls = ses.calls + 1
      BY <1>1, <3>1 DEF Session, Fields
    <3> QED
      BY <1>1, <2>1, <3>c, <3>1, <3>2, <3>3 DEF Session
<1>9. CASE PrepareFinal
  <2>1. ses'.step = Len(kinds)
    BY <1>9, PrepareFinalEffect
  <2> QED
    <3>a. PICK to : to = IF HasTree THEN "treeStartFinal" ELSE "finalCreate"
      OBVIOUS
    <3>b. PICK i : i = Len(plan)
      OBVIOUS
    <3>c. to \in Pcs
      BY <3>a DEF Pcs
    <3>1. ses' = [ses EXCEPT !.pc = to, !.step = i, !.seen = plan, !.goal = "none"]
      BY <1>9, <3>a, <3>b DEF PrepareFinal
    <3>2. /\ Fields(ses', {"pc", "step", "seen", "calls", "outstanding", "result", "goal", "turn",
                           "note", "keep"})
          /\ ses'.pc = to /\ ses'.turn = ses.turn /\ ses'.calls = ses.calls
      BY <1>1, <3>1 DEF Session, Fields
    <3> QED
      BY <1>1, <2>1, <3>c, <3>1, <3>2 DEF Session
<1>10. CASE Cancel
  <2>1. PICK i : i = NextStep(plan)
    OBVIOUS
  <2>2. ses' = ses \/ (ses'.step = i /\ Advance(plan, plan', i, "cancelled"))
    BY <1>10, <2>1, CancelEffect
  <2>3. CASE ses'.step = i /\ Advance(plan, plan', i, "cancelled") /\ ses' # ses
    <3>1. i \in 1..Len(kinds)
      BY <2>3 DEF Advance
    <3>a. PICK to : to = IF HasTree THEN "treeCancel" ELSE "record"
      OBVIOUS
    <3>b. PICK no : no = FALSE
      OBVIOUS
    <3>c. to \in Pcs
      BY <3>a DEF Pcs
    <3>2. ses' = [ses EXCEPT !.pc = to, !.step = i, !.keep = no,
                             !.note = <<"CANCELLED", "EXECUTOR_CANCELLED">>]
      BY <1>10, <2>1, <2>3, <3>a, <3>b DEF Cancel, Durably
    <3>3. /\ Fields(ses', {"pc", "step", "seen", "calls", "outstanding", "result", "goal", "turn",
                           "note", "keep"})
          /\ ses'.pc = to /\ ses'.turn = ses.turn /\ ses'.calls = ses.calls
      BY <1>1, <3>2 DEF Session, Fields
    <3> QED
      BY <1>1, <2>3, <3>1, <3>c, <3>2, <3>3 DEF Session
  <2> QED
    BY <1>2, <2>2, <2>3
<1>11. CASE PlanStart
  BY <1>1, <1>4, <1>11 DEF PlanStart, Transition, Durably, Session, Fields, Pcs
<1>12. CASE FinalStart
  BY <1>1, <1>7, <1>12 DEF FinalStart, Transition, Durably, Session, Fields, Pcs
<1>13. CASE BoundaryCall
  BY <1>1, <1>13 DEF BoundaryCall, Session, Fields, Pcs
<1>14. CASE BoundaryComplete
  <2>1. AfterCall \/ Note("UNKNOWN_OUTCOME", "EXECUTOR_RUNTIME_UNCERTAIN", TRUE)
    BY <1>14 DEF BoundaryComplete, Durably
  <2>2. CASE ses' = [Outcome(ses.result, "completed", "none", TRUE) EXCEPT !.note = <<"none", "none">>]
    BY <1>1, <2>2 DEF Outcome, Session, Fields, Pcs
  <2> QED
    BY <1>5, <1>6, <2>1, <2>2 DEF AfterCall
<1>15. CASE PlanTarget
  BY <1>1, <1>5, <1>15 DEF PlanTarget, Transition, Durably, Fail, Done, Session, Fields, Pcs
<1>16. CASE FinalComplete
  BY <1>1, <1>7, <1>16 DEF FinalComplete, Session, Fields, Pcs
<1>17. CASE FinalFinish
  BY <1>1, <1>7, <1>17 DEF FinalFinish, Transition, Durably, Session, Fields, Pcs
<1>18. CASE ReconcileFinal
  BY <1>2, <1>3, <1>18 DEF ReconcileFinal
<1>19. CASE OpenPlan
  BY <1>2, <1>4, <1>19 DEF OpenPlan, Durably, Pcs
<1>20. CASE OpenTree
  BY <1>4, <1>20 DEF OpenTree, Durably, Pcs
<1>21. CASE OpenRecord
  BY <1>4, <1>21 DEF OpenRecord, Pcs
<1>22. CASE OpenDesktop
  BY <1>3, <1>4, <1>22 DEF OpenDesktop, Pcs
<1>23. CASE TreeStart
  BY <1>4, <1>5, <1>23 DEF TreeStart, StartStep, Durably, Fail, Pcs
<1>24. CASE RepairStart
  BY <1>5, <1>24 DEF RepairStart, FromPlan, Fail
<1>25. CASE BoundaryRefuses
  BY <1>6, <1>25 DEF BoundaryRefuses
<1>26. CASE BoundaryWrite("boundary", "prepared", "dispatch")
  BY <1>4, <1>6, <1>26 DEF BoundaryWrite, Durably, Pcs
<1>27. CASE BoundaryWrite("dispatch", "dispatched", "call")
  BY <1>4, <1>6, <1>27 DEF BoundaryWrite, Durably, Pcs
<1>28. CASE TreeFinish
  BY <1>4, <1>5, <1>28 DEF TreeFinish, FinishStep, Durably, Done, Fail, Pcs
<1>29. CASE RecordTrace
  BY <1>4, <1>29 DEF RecordTrace, NotRecorded, Pcs
<1>30. CASE RecordCheckpoint
  BY <1>4, <1>30 DEF RecordCheckpoint, NotRecorded, Pcs
<1>31. CASE Shutdown
  BY <1>3, <1>31 DEF Shutdown
<1>32. CASE TreeStartFinal
  BY <1>4, <1>5, <1>32 DEF TreeStartFinal, StartStep, Durably, Fail, Pcs
<1>33. CASE FinalCreate
  BY <1>4, <1>7, <1>33 DEF FinalCreate, Durably, Pcs
<1>34. CASE FinalIntent
  BY <1>4, <1>7, <1>34 DEF FinalIntent, Durably, Pcs
<1>35. CASE FinalCall
  BY <1>4, <1>7, <1>35 DEF FinalCall, Pcs
<1>36. CASE TreeFinishFinal
  BY <1>4, <1>7, <1>36 DEF TreeFinishFinal, FinishStep, Durably, Pcs
<1>37. CASE RepairFinal
  BY <1>5, <1>37 DEF RepairFinal, Fail
<1>38. CASE TreeCancel
  BY <1>4, <1>5, <1>38 DEF TreeCancel, Durably, Fail, Pcs
<1>39. CASE PreserveAndClose
  BY <1>5, <1>39 DEF PreserveAndClose, Fail
<1>40. CASE Crash
  BY <1>3, <1>40 DEF Crash
<1>41. CASE ReconcileObservation
  BY <1>2, <1>41 DEF ReconcileObservation
<1>42. CASE ReconcileFromPlan
  BY <1>2, <1>42 DEF ReconcileFromPlan
<1>43. CASE ReconcileFinalSuccess
  BY <1>4, <1>43 DEF ReconcileFinalSuccess, Pcs
<1> QED
  BY <1>8, <1>9, <1>10, <1>11, <1>12, <1>13, <1>14, <1>15, <1>16, <1>17, <1>18, <1>19, <1>20,
    <1>21, <1>22, <1>23, <1>24, <1>25, <1>26, <1>27, <1>28, <1>29, <1>30, <1>31, <1>32, <1>33,
    <1>34, <1>35, <1>36, <1>37, <1>38, <1>39, <1>40, <1>41, <1>42, <1>43
  DEF Next, Open, ExecuteNextTool, Record, ExecuteFinalResponse, Reconcile

LEMMA SessionInvKept ==
  ASSUME PlanInv, Next
  PROVE  SessionInv'
<1>1. CASE OpenPlan
  BY <1>1, PlanFacts, OpenPlanEffect DEF PlanInv, SessionInv, Opening, Settling, Held, InTool,
    Asking, Before, InFinal, Advance, Remembers
<1>2. CASE OpenTree
  BY <1>2, PlanFacts, OpenTreeEffect, ZenonT(60) DEF PlanInv, SessionInv, Opening, Settling,
    Held, InTool, Asking, Before, InFinal, Advance, Remembers
<1>3. CASE OpenRecord
  BY <1>3, PlanFacts, OpenRecordEffect, ZenonT(60) DEF PlanInv, SessionInv, Opening, Settling,
    Held, InTool, Asking, Before, InFinal, Advance, Remembers
<1>4. CASE OpenDesktop
  BY <1>4, PlanFacts, OpenDesktopEffect DEF PlanInv, SessionInv, Opening, Settling, Held,
    InTool, Asking, Before, InFinal, Advance, Remembers
<1>5. CASE PrepareNext
  BY <1>5, PlanFacts, PrepareNextEffect DEF PlanInv, SessionInv, Opening, Settling, Held,
    InTool, Asking, Before, InFinal, Advance, Remembers
<1>6. CASE TreeStart
  BY <1>6, PlanFacts, StartStepEffect DEF PlanInv, SessionInv, Opening, Settling, Held, InTool,
    Asking, Before, InFinal, Advance, Remembers
<1>7. CASE PlanStart
  BY <1>7, PlanFacts, PlanStartEffect DEF PlanInv, SessionInv, Opening, Settling, Held, InTool,
    Asking, Before, InFinal, Advance, Remembers
<1>8. CASE RepairStart
  BY <1>8, PlanFacts, RepairStartEffect DEF PlanInv, SessionInv, Opening, Settling, Held,
    InTool, Asking, Before, InFinal, Advance, Remembers
<1>9. CASE BoundaryRefuses
  BY <1>9, PlanFacts, BoundaryRefusesEffect DEF PlanInv, SessionInv, Opening, Settling, Held,
    InTool, Asking, Before, InFinal, Advance, Remembers
<1>10. CASE BoundaryWrite("boundary", "prepared", "dispatch")
  BY <1>10, PlanFacts, FirstWrite DEF PlanInv, SessionInv, Opening, Settling, Held, InTool,
    Asking, Before, InFinal, Advance, Remembers
<1>11. CASE BoundaryWrite("dispatch", "dispatched", "call")
  BY <1>11, PlanFacts, SecondWrite DEF PlanInv, SessionInv, Opening, Settling, Held, InTool,
    Asking, Before, InFinal, Advance, Remembers
<1>12. CASE BoundaryCall
  BY <1>12, PlanFacts, BoundaryCallEffect DEF PlanInv, SessionInv, Opening, Settling, Held,
    InTool, Asking, Before, InFinal, Advance, Remembers
<1>13. CASE BoundaryComplete
  BY <1>13, PlanFacts, BoundaryCompleteEffect DEF PlanInv, SessionInv, Opening, Settling, Held,
    InTool, Asking, Before, InFinal, Advance, Remembers
<1>14. CASE PlanTarget
  BY <1>14, PlanFacts, PlanTargetEffect DEF PlanInv, SessionInv, Opening, Settling, Held,
    InTool, Asking, Before, InFinal, Advance, Remembers
<1>15. CASE TreeFinish
  BY <1>15, PlanFacts, TreeFinishEffect DEF PlanInv, SessionInv, Opening, Settling, Held,
    InTool, Asking, Before, InFinal, Advance, Remembers
<1>16. CASE RecordTrace
  BY <1>16, PlanFacts, RecordTraceEffect DEF PlanInv, SessionInv, Opening, Settling, Held,
    InTool, Asking, Before, InFinal, Advance, Remembers
<1>17. CASE RecordCheckpoint
  BY <1>17, PlanFacts, RecordCheckpointEffect DEF PlanInv, SessionInv, Opening, Settling, Held,
    InTool, Asking, Before, InFinal, Advance, Remembers
<1>18. CASE Shutdown
  BY <1>18, PlanFacts, ShutdownEffect DEF PlanInv, SessionInv, Opening, Settling, Held, InTool,
    Asking, Before, InFinal, Advance, Remembers
<1>19. CASE PrepareFinal
  BY <1>19, PlanFacts, PrepareFinalEffect DEF PlanInv, SessionInv, Opening, Settling, Held,
    InTool, Asking, Before, InFinal, Advance, Remembers
<1>20. CASE TreeStartFinal
  BY <1>20, PlanFacts, StartStepEffect DEF PlanInv, SessionInv, Opening, Settling, Held, InTool,
    Asking, Before, InFinal, Advance, Remembers
<1>21. CASE FinalCreate
  BY <1>21, PlanFacts, FinalCreateEffect DEF PlanInv, SessionInv, Opening, Settling, Held,
    InTool, Asking, Before, InFinal, Advance, Remembers
<1>22. CASE FinalStart
  BY <1>22, PlanFacts, FinalStartEffect DEF PlanInv, SessionInv, Opening, Settling, Held,
    InTool, Asking, Before, InFinal, Advance, Remembers
<1>23. CASE FinalIntent
  BY <1>23, PlanFacts, FinalIntentEffect DEF PlanInv, SessionInv, Opening, Settling, Held,
    InTool, Asking, Before, InFinal, Advance, Remembers
<1>24. CASE FinalCall
  BY <1>24, PlanFacts, FinalCallEffect DEF PlanInv, SessionInv, Opening, Settling, Held, InTool,
    Asking, Before, InFinal, Advance, Remembers
<1>25. CASE FinalComplete
  BY <1>25, PlanFacts, FinalCompleteEffect DEF PlanInv, SessionInv, Opening, Settling, Held,
    InTool, Asking, Before, InFinal, Advance, Remembers
<1>26. CASE FinalFinish
  BY <1>26, PlanFacts, FinalFinishEffect, ZenonT(60) DEF PlanInv, SessionInv, Opening, Settling,
    Held, InTool, Asking, Before, InFinal, Advance, Remembers
<1>27. CASE TreeFinishFinal
  BY <1>27, PlanFacts, TreeFinishFinalEffect DEF PlanInv, SessionInv, Opening, Settling, Held,
    InTool, Asking, Before, InFinal, Advance, Remembers
<1>28. CASE RepairFinal
  BY <1>28, PlanFacts, RepairFinalEffect DEF PlanInv, SessionInv, Opening, Settling, Held,
    InTool, Asking, Before, InFinal, Advance, Remembers
<1>29. CASE Cancel
  BY <1>29, PlanFacts, CancelEffect DEF PlanInv, SessionInv, Opening, Settling, Held, InTool,
    Asking, Before, InFinal, Advance, Remembers
<1>30. CASE TreeCancel
  BY <1>30, PlanFacts, TreeCancelEffect DEF PlanInv, SessionInv, Opening, Settling, Held,
    InTool, Asking, Before, InFinal, Advance, Remembers
<1>31. CASE PreserveAndClose
  BY <1>31, PlanFacts, PreserveEffect DEF PlanInv, SessionInv, Opening, Settling, Held, InTool,
    Asking, Before, InFinal, Advance, Remembers
<1>32. CASE Crash
  BY <1>32, PlanFacts, CrashEffect DEF PlanInv, SessionInv, Opening, Settling, Held, InTool,
    Asking, Before, InFinal, Advance, Remembers
<1>33. CASE ReconcileObservation
  BY <1>33, PlanFacts, ReconcileObservationEffect DEF PlanInv, SessionInv, Opening, Settling,
    Held, InTool, Asking, Before, InFinal, Advance, Remembers
<1>34. CASE ReconcileFromPlan
  BY <1>34, PlanFacts, ReconcileFromPlanEffect DEF PlanInv, SessionInv, Opening, Settling, Held,
    InTool, Asking, Before, InFinal, Advance, Remembers
<1>35. CASE ReconcileFinal
  BY <1>35, PlanFacts, ReconcileFinalEffect DEF PlanInv, SessionInv, Opening, Settling, Held,
    InTool, Asking, Before, InFinal, Advance, Remembers
<1>36. CASE ReconcileFinalSuccess
  BY <1>36, PlanFacts, ReconcileFinalSuccessEffect DEF PlanInv, SessionInv, Opening, Settling,
    Held, InTool, Asking, Before, InFinal, Advance, Remembers
<1> QED
  BY <1>1, <1>2, <1>3, <1>4, <1>5, <1>6, <1>7, <1>8, <1>9, <1>10, <1>11, <1>12, <1>13, <1>14,
    <1>15, <1>16, <1>17, <1>18, <1>19, <1>20, <1>21, <1>22, <1>23, <1>24, <1>25, <1>26, <1>27,
    <1>28, <1>29, <1>30, <1>31, <1>32, <1>33, <1>34, <1>35, <1>36
  DEF Next, Open, ExecuteNextTool, Record, ExecuteFinalResponse, Reconcile

-----------------------------------------------------------------------------
(* What was delivered, as the plan knows of it.                            *)
LEMMA DeliveredStays ==
  ASSUME PlanInv, UNCHANGED <<kinds, plan, sent>>
  PROVE  Delivered'
BY SameResults DEF PlanInv, SentInv, Delivered

LEMMA DeliveredMoves ==
  ASSUME PlanInv, UNCHANGED <<kinds, sent>>, NEW i, NEW goal, Advance(plan, plan', i, goal),
         goal = "completed" => ResultsOf(i) = {"success"},
         goal \in {"failed", "blocked"} => ResultsOf(i) \subseteq {"action_error"},
         goal \in {"pending", "cancelled"} => ResultsOf(i) = {}
  PROVE  Delivered'
<1>1. /\ plan # <<>> /\ plan' # <<>> /\ plan'[i] = goal
      /\ \A j \in 1..Len(kinds) : j # i => plan'[j] = plan[j]
  BY DEF Advance
<1>2. ASSUME NEW j \in 1..Len(kinds)
      PROVE  /\ plan'[j] = "completed" => ResultsOf(j)' = {"success"}
             /\ plan'[j] \in {"failed", "blocked"} => ResultsOf(j)' \subseteq {"action_error"}
             /\ plan'[j] \in {"pending", "cancelled"} => ResultsOf(j)' = {}
  <2>1. CASE j = i
    BY <1>1, <2>1, SameResults
  <2>2. CASE j # i
    <3>1. /\ plan[j] = "completed" => ResultsOf(j) = {"success"}
          /\ plan[j] \in {"failed", "blocked"} => ResultsOf(j) \subseteq {"action_error"}
          /\ plan[j] \in {"pending", "cancelled"} => ResultsOf(j) = {}
      BY <1>1 DEF PlanInv, SentInv, Delivered
    <3> QED
      BY <1>1, <2>2, <3>1, SameResults
  <2> QED
    BY <2>1, <2>2
<1> QED
  BY <1>1, <1>2 DEF Delivered

LEMMA DeliveredKept ==
  ASSUME PlanInv, Next
  PROVE  Delivered'
<1>1. CASE UNCHANGED <<kinds, plan, sent>>
  BY <1>1, DeliveredStays
<1>2. CASE OpenPlan
  <2>1. sent = <<>> /\ sent' = sent /\ kinds' = kinds /\ plan = <<>>
    BY <1>2, OpenPlanEffect DEF PlanInv, SentInv, Delivered
  <2>2. plan' = plan \/ \A j \in 1..Len(kinds) : plan'[j] = "pending"
    BY <1>2, OpenPlanEffect
  <2>3. \A j : ResultsOf(j)' = {}
    BY <2>1 DEF ResultsOf
  <2> QED
    BY <2>1, <2>2, <2>3 DEF Delivered
<1>3. CASE PlanStart
  <2>1. UNCHANGED <<kinds, sent>> /\ (plan' = plan \/ Advance(plan, plan', ses.step, "in_progress"))
    BY <1>3, PlanStartEffect
  <2> QED
    BY <2>1, DeliveredStays, DeliveredMoves
<1>4. CASE FinalStart
  <2>1. UNCHANGED <<kinds, sent>> /\ (plan' = plan \/ Advance(plan, plan', ses.step, "in_progress"))
    BY <1>4, FinalStartEffect
  <2> QED
    BY <2>1, DeliveredStays, DeliveredMoves
<1>5. CASE PlanTarget
  <2>1. /\ UNCHANGED <<kinds, sent>> /\ (plan' = plan \/ Advance(plan, plan', ses.step, ses.goal))
        /\ ses.pc = "planTarget"
    BY <1>5, PlanTargetEffect
  <2>2. \/ ses.goal = "completed" /\ ResultsOf(ses.step) = {"success"}
        \/ ses.goal \in {"failed", "blocked"} /\ ResultsOf(ses.step) \subseteq {"action_error"}
    BY <2>1 DEF PlanInv, SentInv, Underway
  <2> QED
    BY <2>1, <2>2, DeliveredStays, DeliveredMoves
<1>6. CASE FinalFinish
  <2>1. /\ UNCHANGED <<kinds, sent>> /\ (plan' = plan \/ Advance(plan, plan', ses.step, "completed"))
        /\ ses.pc = "finalFinish"
    BY <1>6, FinalFinishEffect
  <2>2. ResultsOf(ses.step) = {"success"}
    BY <2>1 DEF PlanInv, FinalInv, FinalSent, FinalStage, SessionInv, InFinal, Asking
  <2> QED
    BY <2>1, <2>2, DeliveredStays, DeliveredMoves
<1>7. CASE Cancel
  <2>1. PICK i : i = NextStep(plan)
    OBVIOUS
  <2>2. /\ UNCHANGED <<kinds, sent>> /\ plan[i] = "pending" /\ plan # <<>>
        /\ plan' = plan \/ Advance(plan, plan', i, "cancelled")
    BY <1>7, <2>1, CancelEffect
  <2>3. CASE Advance(plan, plan', i, "cancelled")
    <3>1. i \in 1..Len(kinds)
      BY <2>3 DEF Advance
    <3>2. ResultsOf(i) = {}
      BY <2>2, <3>1 DEF PlanInv, SentInv, Delivered
    <3> QED
      BY <2>2, <2>3, <3>2, DeliveredMoves
  <2> QED
    BY <2>2, <2>3, DeliveredStays
<1>8. CASE ReconcileObservation
  <2>1. /\ UNCHANGED <<kinds, sent>> /\ cont.stage = "completed"
        /\ \/ cont.result = "success" /\ Advance(plan, plan', cont.step, "completed")
           \/ cont.result = "action_error" /\ Advance(plan, plan', cont.step, "failed")
    BY <1>8, ReconcileObservationEffect
  <2>2. ResultsOf(cont.step) = SendOutcomes(cont.result)
    BY <2>1 DEF PlanInv, SentInv, Remembered
  <2>3. CASE cont.result = "success" /\ Advance(plan, plan', cont.step, "completed")
    BY <2>1, <2>2, <2>3, DeliveredMoves DEF SendOutcomes
  <2>4. CASE cont.result = "action_error" /\ Advance(plan, plan', cont.step, "failed")
    BY <2>1, <2>2, <2>4, DeliveredMoves DEF SendOutcomes
  <2> QED
    BY <2>1, <2>3, <2>4
<1>9. CASE ReconcileFinal
  <2>1. /\ UNCHANGED <<kinds, sent>> /\ final = "completed"
        /\ plan' = plan \/ Advance(plan, plan', Len(kinds), "completed")
    BY <1>9, ReconcileFinalEffect
  <2>2. ResultsOf(Len(kinds)) = {"success"}
    BY <2>1 DEF PlanInv, FinalInv, FinalSent
  <2> QED
    BY <2>1, <2>2, DeliveredStays, DeliveredMoves
<1>10. CASE BoundaryCall \/ FinalCall
  <2>1. /\ UNCHANGED <<kinds, plan>> /\ plan[ses.step] = "in_progress" /\ plan # <<>>
        /\ \A j : j # ses.step => ResultsOf(j)' = ResultsOf(j)
    <3>1. CASE BoundaryCall
      BY <3>1, BoundaryCallEffect DEF PlanInv, SessionInv, Held
    <3>2. CASE FinalCall
      BY <3>2, FinalCallEffect DEF PlanInv, SessionInv, Asking
    <3> QED
      BY <1>10, <3>1, <3>2
  <2> QED
    BY <2>1 DEF PlanInv, SentInv, Delivered
<1> QED
  <2>1. \/ OpenPlan \/ PlanStart \/ FinalStart \/ PlanTarget \/ FinalFinish \/ Cancel
        \/ ReconcileObservation \/ ReconcileFinal \/ BoundaryCall \/ FinalCall
        \/ UNCHANGED <<kinds, plan, sent>>
    BY DEF Next, Open, ExecuteNextTool, Record, ExecuteFinalResponse, Reconcile,
      OpenTree, OpenRecord, OpenDesktop, PrepareNext, TreeStart, RepairStart, BoundaryRefuses,
      BoundaryWrite, BoundaryComplete, TreeFinish, RecordTrace, RecordCheckpoint, Shutdown,
      PrepareFinal, TreeStartFinal, FinalCreate, FinalIntent, FinalComplete, TreeFinishFinal,
      RepairFinal, TreeCancel, PreserveAndClose, Crash, ReconcileFromPlan, ReconcileFinalSuccess
  <2> QED
    BY <1>1, <1>2, <1>3, <1>4, <1>5, <1>6, <1>7, <1>8, <1>9, <1>10, <2>1

-----------------------------------------------------------------------------
(* What is under way, as the session knows of it.                          *)
Reached == {"boundary", "dispatch", "call", "finalIntent", "finalCall", "complete", "planTarget"}

LEMMA UnderwayKept ==
  ASSUME PlanInv, Next
  PROVE  Underway'
<1>1. CASE ses'.pc \notin Reached
  BY <1>1 DEF Underway, Reached
<1>2. CASE PlanStart
  <2>1. /\ plan[ses.step] = "pending" /\ plan # <<>> /\ ses.step \in 1..Len(kinds)
        /\ ses'.pc \in {"boundary", "repairStart", "idle"} /\ ses'.step = ses.step /\ sent' = sent
    <3>1. /\ ses.pc = "planStart" /\ sent' = sent /\ ses'.step = ses.step
          /\ ses'.pc \in {"boundary", "repairStart", "idle"}
      BY <1>2, PlanStartEffect DEF Remembers
    <3>2. plan[ses.step] = "pending"
      BY <3>1 DEF PlanInv, SessionInv
    <3> QED
      BY <3>1, <3>2, HoldsAStep DEF InTool
  <2>2. ResultsOf(ses.step) = {}
    BY <2>1 DEF PlanInv, SentInv, Delivered
  <2> QED
    BY <2>1, <2>2, SameResults DEF Underway
<1>3. CASE FinalStart
  <2>1. /\ plan[ses.step] = "pending" /\ plan # <<>> /\ ses.step \in 1..Len(kinds)
        /\ ses'.pc \in {"finalIntent", "repairFinal"} /\ ses'.step = ses.step /\ sent' = sent
    <3>1. ses.pc = "finalStart" /\ ses.step = ses'.step /\ ses'.pc \in {"finalIntent", "repairFinal"}
          /\ sent' = sent /\ plan[ses.step] = "pending"
      BY <1>3, FinalStartEffect
    <3> QED
      BY <3>1, HoldsAStep DEF InFinal, Before
  <2>2. ResultsOf(ses.step) = {}
    BY <2>1 DEF PlanInv, SentInv, Delivered
  <2> QED
    BY <2>1, <2>2, SameResults DEF Underway
<1>4. CASE BoundaryRefuses
  <2>1. /\ ses.pc = "boundary" /\ ses'.pc = "planTarget" /\ ses'.goal \in {"failed", "blocked"}
        /\ ses'.step = ses.step /\ sent' = sent
    BY <1>4, BoundaryRefusesEffect
  <2>2. ResultsOf(ses.step) = {}
    BY <2>1 DEF PlanInv, SentInv, Underway
  <2> QED
    BY <2>1, <2>2, SameResults DEF Underway
<1>5. CASE BoundaryWrite("boundary", "prepared", "dispatch")
  <2>1. /\ ses.pc = "boundary" /\ ses'.step = ses.step /\ sent' = sent
        /\ ses'.pc = "dispatch" \/ (ses'.pc = "planTarget" /\ ses'.goal = "failed")
    BY <1>5, FirstWrite DEF Remembers
  <2>2. ResultsOf(ses.step) = {}
    BY <2>1 DEF PlanInv, SentInv, Underway
  <2> QED
    BY <2>1, <2>2, SameResults DEF Underway
<1>6. CASE BoundaryWrite("dispatch", "dispatched", "call")
  <2>1. /\ ses.pc = "dispatch" /\ ses'.step = ses.step /\ sent' = sent
        /\ \/ ses'.pc = "call" /\ cont'.stage = "dispatched"
           \/ ses'.pc = "planTarget" /\ ses'.goal = "failed"
    BY <1>6, SecondWrite DEF Remembers
  <2>2. ResultsOf(ses.step) = {}
    BY <2>1 DEF PlanInv, SentInv, Underway
  <2> QED
    BY <2>1, <2>2, SameResults DEF Underway
<1>7. CASE BoundaryCall
  <2>1. PICK i : i = ses.step
    OBVIOUS
  <2>2. /\ ses.pc = "call" /\ ses'.step = i /\ ses'.pc = "complete" /\ ses'.result \in Results
        /\ ResultsOf(i)' = ResultsOf(i) \cup SendOutcomes(ses'.result)
    BY <1>7, <2>1, BoundaryCallEffect
  <2>3. ResultsOf(i) = {}
    BY <2>1, <2>2 DEF PlanInv, SentInv, Underway
  <2> QED
    BY <2>2, <2>3 DEF Underway, SendOutcomes, Results
<1>8. CASE BoundaryComplete
  <2>1. /\ ses.pc = "complete" /\ ses'.step = ses.step /\ sent' = sent
        /\ \/ ses'.pc = "record"
           \/ /\ ses'.pc = "planTarget" /\ ses.result = "success" /\ ses'.goal = "completed"
              /\ cont'.stage = "completed" /\ cont'.step = ses.step
           \/ /\ ses'.pc = "planTarget" /\ ses.result \in {"action_error", "rejected"}
              /\ ses'.goal \in {"blocked", "failed"}
    BY <1>8, BoundaryCompleteEffect
  <2>2. ResultsOf(ses.step) = SendOutcomes(ses.result)
    BY <2>1 DEF PlanInv, SentInv, Underway
  <2> QED
    BY <2>1, <2>2, SameResults DEF Underway, SendOutcomes
<1>9. CASE FinalIntent
  <2>1. /\ ses.pc = "finalIntent" /\ ses'.step = ses.step /\ sent' = sent
        /\ ses'.pc \in {"finalCall", "repairFinal"}
    BY <1>9, FinalIntentEffect DEF Remembers
  <2>2. ResultsOf(ses.step) = {}
    BY <2>1 DEF PlanInv, SentInv, Underway
  <2> QED
    BY <2>1, <2>2, SameResults DEF Underway
<1>10. CASE OpenPlan
  BY <1>1, <1>10, OpenPlanEffect DEF Reached
<1>11. CASE OpenTree
  BY <1>1, <1>11, OpenTreeEffect DEF Reached
<1>12. CASE OpenRecord
  BY <1>1, <1>12, OpenRecordEffect DEF Reached
<1>13. CASE OpenDesktop
  BY <1>1, <1>13, OpenDesktopEffect DEF Reached
<1>14. CASE PrepareNext
  BY <1>1, <1>14, PrepareNextEffect DEF Reached
<1>15. CASE TreeStart
  BY <1>1, <1>15, StartStepEffect DEF Reached
<1>16. CASE RepairStart
  BY <1>1, <1>16, RepairStartEffect DEF Reached
<1>17. CASE PlanTarget
  BY <1>1, <1>17, PlanTargetEffect DEF Reached
<1>18. CASE TreeFinish
  BY <1>1, <1>18, TreeFinishEffect DEF Reached
<1>19. CASE RecordTrace
  BY <1>1, <1>19, RecordTraceEffect DEF Reached
<1>20. CASE RecordCheckpoint
  BY <1>1, <1>20, RecordCheckpointEffect DEF Reached
<1>21. CASE Shutdown
  BY <1>1, <1>21, ShutdownEffect DEF Reached
<1>22. CASE PrepareFinal
  BY <1>1, <1>22, PrepareFinalEffect DEF Reached
<1>23. CASE TreeStartFinal
  BY <1>1, <1>23, StartStepEffect DEF Reached
<1>24. CASE FinalCreate
  BY <1>1, <1>24, FinalCreateEffect DEF Reached
<1>25. CASE FinalCall
  BY <1>1, <1>25, FinalCallEffect DEF Reached
<1>26. CASE FinalComplete
  BY <1>1, <1>26, FinalCompleteEffect DEF Reached
<1>27. CASE FinalFinish
  BY <1>1, <1>27, FinalFinishEffect DEF Reached
<1>28. CASE TreeFinishFinal
  BY <1>1, <1>28, TreeFinishFinalEffect DEF Reached
<1>29. CASE RepairFinal
  BY <1>1, <1>29, RepairFinalEffect DEF Reached
<1>30. CASE Cancel
  BY <1>1, <1>30, CancelEffect DEF Reached
<1>31. CASE TreeCancel
  BY <1>1, <1>31, TreeCancelEffect DEF Reached
<1>32. CASE PreserveAndClose
  BY <1>1, <1>32, PreserveEffect DEF Reached
<1>33. CASE Crash
  BY <1>1, <1>33, CrashEffect DEF Reached
<1>34. CASE ReconcileObservation
  BY <1>1, <1>34, ReconcileObservationEffect DEF Reached
<1>35. CASE ReconcileFromPlan
  BY <1>1, <1>35, ReconcileFromPlanEffect DEF Reached
<1>36. CASE ReconcileFinal
  BY <1>1, <1>36, ReconcileFinalEffect DEF Reached
<1>37. CASE ReconcileFinalSuccess
  BY <1>1, <1>37, ReconcileFinalSuccessEffect DEF Reached
<1> QED
  BY <1>2, <1>3, <1>4, <1>5, <1>6, <1>7, <1>8, <1>9, <1>10, <1>11, <1>12, <1>13, <1>14, <1>15,
    <1>16, <1>17, <1>18, <1>19, <1>20, <1>21, <1>22, <1>23, <1>24, <1>25, <1>26, <1>27, <1>28,
    <1>29, <1>30, <1>31, <1>32, <1>33, <1>34, <1>35, <1>36, <1>37
  DEF Next, Open, ExecuteNextTool, Record, ExecuteFinalResponse, Reconcile

-----------------------------------------------------------------------------
(* What the continuation remembers.                                        *)
LEMMA RememberedStays ==
  ASSUME PlanInv, kinds' = kinds, sent' = sent, cont' = cont \/ cont'.stage # "completed"
  PROVE  Remembered'
BY SameResults DEF PlanInv, SentInv, Remembered

LEMMA RememberedKept ==
  ASSUME PlanInv, Next
  PROVE  Remembered'
<1>1. CASE UNCHANGED <<kinds, cont, sent>>
  BY <1>1, RememberedStays
<1>2. CASE OpenDesktop
  BY <1>2, OpenDesktopEffect, RememberedStays
<1>3. CASE BoundaryWrite("boundary", "prepared", "dispatch")
  BY <1>3, FirstWrite, RememberedStays
<1>4. CASE BoundaryWrite("dispatch", "dispatched", "call")
  BY <1>4, SecondWrite, RememberedStays
<1>5. CASE Shutdown
  BY <1>5, ShutdownEffect, RememberedStays
<1>6. CASE ReconcileFinalSuccess
  BY <1>6, ReconcileFinalSuccessEffect, RememberedStays
<1>7. CASE BoundaryCall
  BY <1>7, BoundaryCallEffect DEF PlanInv, SentInv, Underway, Remembered
<1>8. CASE FinalCall
  <2>1. /\ UNCHANGED <<kinds, cont>> /\ ses.pc = "finalCall"
        /\ \A j : j # ses.step => ResultsOf(j)' = ResultsOf(j)
    BY <1>8, FinalCallEffect
  <2>2. ses.step = Len(kinds) /\ Len(kinds) \in Nat
    BY <2>1, HoldsAStep DEF InFinal, Asking
  <2>3. cont.stage = "completed" =>
          /\ cont.step \in 1..Len(kinds) - 1 /\ cont.step # Len(kinds)
          /\ ResultsOf(cont.step) = SendOutcomes(cont.result)
    BY <2>2 DEF PlanInv, SentInv, Remembered
  <2> QED
    BY <2>1, <2>2, <2>3 DEF Remembered
<1>9. CASE BoundaryComplete
  <2>1. /\ ses.pc = "complete" /\ UNCHANGED <<kinds, sent>>
        /\ \/ cont' = cont
           \/ cont'.step = ses.step /\ cont'.result = ses.result
    BY <1>9, BoundaryCompleteEffect
  <2>2. ses.step \in 1..Len(kinds) - 1
    BY <2>1, HoldsAStep DEF InTool, Held
  <2>3. ResultsOf(ses.step) = SendOutcomes(ses.result)
    BY <2>1 DEF PlanInv, SentInv, Underway
  <2>4. CASE cont'.step = ses.step /\ cont'.result = ses.result
    BY <2>1, <2>2, <2>3, <2>4, SameResults DEF Remembered
  <2> QED
    BY <2>1, <2>4, RememberedStays
<1> QED
  <2>1. \/ OpenDesktop \/ BoundaryWrite("boundary", "prepared", "dispatch")
        \/ BoundaryWrite("dispatch", "dispatched", "call") \/ Shutdown \/ ReconcileFinalSuccess
        \/ BoundaryCall \/ FinalCall \/ BoundaryComplete
        \/ UNCHANGED <<kinds, cont, sent>>
    BY DEF Next, Open, ExecuteNextTool, Record, ExecuteFinalResponse, Reconcile,
      OpenPlan, OpenTree, OpenRecord, PrepareNext, TreeStart, PlanStart, RepairStart,
      BoundaryRefuses, PlanTarget, TreeFinish, RecordTrace, RecordCheckpoint,
      PrepareFinal, TreeStartFinal, FinalCreate, FinalStart, FinalIntent, FinalComplete,
      FinalFinish, TreeFinishFinal, RepairFinal, Cancel, TreeCancel, PreserveAndClose, Crash,
      ReconcileObservation, ReconcileFromPlan, ReconcileFinal
  <2> QED
    BY <1>1, <1>2, <1>3, <1>4, <1>5, <1>6, <1>7, <1>8, <1>9, <2>1

LEMMA TreeStandsKept ==
  ASSUME PlanInv, Next
  PROVE  TreeStands'
<1>1. CASE OpenPlan
  BY <1>1, OpenPlanEffect DEF PlanInv, TreeInv, TreeStands, Remembers, Settling, Advance
<1>2. CASE OpenTree
  <2>1. /\ ses.pc = "openTree" /\ mode' = mode /\ plan' = plan
        /\ tree' \in {tree, plan}
        /\ ses'.pc = "closed" \/ (ses'.pc = "openRecord" /\ tree' = plan)
    BY <1>2, OpenTreeEffect
  <2>2. plan # <<>> /\ mode # "linear"
    BY <2>1 DEF PlanInv, SessionInv, TreeInv, TreeStands
  <2> QED
    BY <2>1, <2>2 DEF PlanInv, TreeInv, TreeStands, Settling
<1>3. CASE OpenRecord
  BY <1>3, OpenRecordEffect DEF PlanInv, TreeInv, TreeStands, Remembers, Settling, Advance
<1>4. CASE OpenDesktop
  BY <1>4, OpenDesktopEffect DEF PlanInv, TreeInv, TreeStands, Remembers, Settling, Advance
<1>5. CASE PrepareNext
  BY <1>5, PrepareNextEffect DEF PlanInv, TreeInv, TreeStands, Remembers, Settling, Advance
<1>6. CASE TreeStart
  BY <1>6, StartStepEffect DEF PlanInv, TreeInv, TreeStands, Remembers, Settling, Advance
<1>7. CASE PlanStart
  BY <1>7, PlanStartEffect DEF PlanInv, TreeInv, TreeStands, Remembers, Settling, Advance
<1>8. CASE RepairStart
  BY <1>8, RepairStartEffect DEF PlanInv, TreeInv, TreeStands, Remembers, Settling, Advance
<1>9. CASE BoundaryRefuses
  BY <1>9, BoundaryRefusesEffect DEF PlanInv, TreeInv, TreeStands, Remembers, Settling, Advance
<1>10. CASE BoundaryWrite("boundary", "prepared", "dispatch")
  BY <1>10, FirstWrite DEF PlanInv, TreeInv, TreeStands, Remembers, Settling, Advance
<1>11. CASE BoundaryWrite("dispatch", "dispatched", "call")
  BY <1>11, SecondWrite DEF PlanInv, TreeInv, TreeStands, Remembers, Settling, Advance
<1>12. CASE BoundaryCall
  BY <1>12, BoundaryCallEffect DEF PlanInv, TreeInv, TreeStands, Remembers, Settling, Advance
<1>13. CASE BoundaryComplete
  BY <1>13, BoundaryCompleteEffect DEF PlanInv, TreeInv, TreeStands, Remembers, Settling, Advance
<1>14. CASE PlanTarget
  BY <1>14, PlanTargetEffect DEF PlanInv, TreeInv, TreeStands, Remembers, Settling, Advance
<1>15. CASE TreeFinish
  BY <1>15, TreeFinishEffect DEF PlanInv, TreeInv, TreeStands, Remembers, Settling, Advance
<1>16. CASE RecordTrace
  BY <1>16, RecordTraceEffect DEF PlanInv, TreeInv, TreeStands, Remembers, Settling, Advance
<1>17. CASE RecordCheckpoint
  BY <1>17, RecordCheckpointEffect DEF PlanInv, TreeInv, TreeStands, Remembers, Settling, Advance
<1>18. CASE Shutdown
  BY <1>18, ShutdownEffect DEF PlanInv, TreeInv, TreeStands, Remembers, Settling, Advance
<1>19. CASE PrepareFinal
  BY <1>19, PrepareFinalEffect DEF PlanInv, TreeInv, TreeStands, Remembers, Settling, Advance
<1>20. CASE TreeStartFinal
  BY <1>20, StartStepEffect DEF PlanInv, TreeInv, TreeStands, Remembers, Settling, Advance
<1>21. CASE FinalCreate
  BY <1>21, FinalCreateEffect DEF PlanInv, TreeInv, TreeStands, Remembers, Settling, Advance
<1>22. CASE FinalStart
  BY <1>22, FinalStartEffect DEF PlanInv, TreeInv, TreeStands, Remembers, Settling, Advance
<1>23. CASE FinalIntent
  BY <1>23, FinalIntentEffect DEF PlanInv, TreeInv, TreeStands, Remembers, Settling, Advance
<1>24. CASE FinalCall
  BY <1>24, FinalCallEffect DEF PlanInv, TreeInv, TreeStands, Remembers, Settling, Advance
<1>25. CASE FinalComplete
  BY <1>25, FinalCompleteEffect DEF PlanInv, TreeInv, TreeStands, Remembers, Settling, Advance
<1>26. CASE FinalFinish
  BY <1>26, FinalFinishEffect DEF PlanInv, TreeInv, TreeStands, Remembers, Settling, Advance
<1>27. CASE TreeFinishFinal
  BY <1>27, TreeFinishFinalEffect DEF PlanInv, TreeInv, TreeStands, Remembers, Settling, Advance
<1>28. CASE RepairFinal
  BY <1>28, RepairFinalEffect DEF PlanInv, TreeInv, TreeStands, Remembers, Settling, Advance
<1>29. CASE Cancel
  BY <1>29, CancelEffect DEF PlanInv, TreeInv, TreeStands, Remembers, Settling, Advance
<1>30. CASE TreeCancel
  BY <1>30, TreeCancelEffect DEF PlanInv, TreeInv, TreeStands, Remembers, Settling, Advance
<1>31. CASE PreserveAndClose
  BY <1>31, PreserveEffect DEF PlanInv, TreeInv, TreeStands, Remembers, Settling, Advance
<1>32. CASE Crash
  BY <1>32, CrashEffect DEF PlanInv, TreeInv, TreeStands, Remembers, Settling, Advance
<1>33. CASE ReconcileObservation
  BY <1>33, ReconcileObservationEffect DEF PlanInv, TreeInv, TreeStands, Remembers, Settling,
    Advance
<1>34. CASE ReconcileFromPlan
  BY <1>34, ReconcileFromPlanEffect DEF PlanInv, TreeInv, TreeStands, Remembers, Settling, Advance
<1>35. CASE ReconcileFinal
  BY <1>35, ReconcileFinalEffect DEF PlanInv, TreeInv, TreeStands, Remembers, Settling, Advance
<1>36. CASE ReconcileFinalSuccess
  BY <1>36, ReconcileFinalSuccessEffect DEF PlanInv, TreeInv, TreeStands, Remembers, Settling,
    Advance
<1> QED
  BY <1>1, <1>2, <1>3, <1>4, <1>5, <1>6, <1>7, <1>8, <1>9, <1>10, <1>11, <1>12, <1>13, <1>14,
    <1>15, <1>16, <1>17, <1>18, <1>19, <1>20, <1>21, <1>22, <1>23, <1>24, <1>25, <1>26, <1>27,
    <1>28, <1>29, <1>30, <1>31, <1>32, <1>33, <1>34, <1>35, <1>36
  DEF Next, Open, ExecuteNextTool, Record, ExecuteFinalResponse, Reconcile

-----------------------------------------------------------------------------
(* The leaves of the tree and the steps of the plan.                       *)
LEMMA LeavesFollowPlan ==
  ASSUME PlanInv, UNCHANGED <<kinds, tree>>, NEW i, NEW goal, Advance(plan, plan', i, goal),
         plan[i] \in {"pending", "in_progress"},
         tree # <<>> => tree[i] # "pending" \/ goal = "cancelled"
  PROVE  Leaves'
<1>1. CASE tree = <<>>
  BY <1>1 DEF Leaves
<1>2. CASE tree # <<>>
  <2>1. /\ i \in 1..Len(kinds) /\ plan'[i] = goal
        /\ \A j \in 1..Len(kinds) : j # i => plan'[j] = plan[j]
    BY DEF Advance
  <2>2. Len(kinds) \in Nat
    BY PlanFacts DEF PlanInv
  <2>3. ASSUME NEW k \in 1..Len(kinds)
        PROVE  /\ tree[k] \in Stopped \cup {"completed"} => plan'[k] = tree[k]
               /\ tree[k] = "in_progress" => \A j \in 1..k - 1 : plan'[j] = "completed"
               /\ tree[k] = "pending" => plan'[k] \in {"pending", "cancelled"}
    <3>1. /\ tree[k] \in Stopped \cup {"completed"} => plan[k] = tree[k]
          /\ tree[k] = "in_progress" => \A j \in 1..k - 1 : plan[j] = "completed"
          /\ tree[k] = "pending" => plan[k] \in {"pending", "cancelled"}
      BY <1>2 DEF PlanInv, TreeInv, Leaves
    <3>2. tree[k] \in Stopped \cup {"completed"} => k # i
      BY <3>1 DEF Stopped
    <3>3. ASSUME tree[k] = "in_progress", NEW j \in 1..k - 1 PROVE plan'[j] = "completed"
      <4>1. j \in 1..Len(kinds) /\ plan[j] = "completed"
        BY <2>2, <3>1, <3>3
      <4> QED
        BY <2>1, <4>1
    <3>4. tree[k] = "pending" => plan'[k] \in {"pending", "cancelled"}
      BY <1>2, <2>1, <3>1
    <3> QED
      BY <2>1, <3>1, <3>2, <3>3, <3>4
  <2> QED
    BY <2>3 DEF Leaves
<1> QED
  BY <1>1, <1>2

LEMMA LeavesFollowTree ==
  ASSUME PlanInv, UNCHANGED <<kinds, plan>>, NEW i, NEW goal, Advance(tree, tree', i, goal),
         goal \in Stopped \cup {"completed"} => plan[i] = goal,
         goal = "pending" => plan[i] \in {"pending", "cancelled"}
  PROVE  Leaves'
<1>1. /\ i \in 1..Len(kinds) /\ tree'[i] = goal /\ tree # <<>>
      /\ \A j \in 1..Len(kinds) : j # i => tree'[j] = tree[j]
      /\ \A j \in 1..i - 1 : tree[j] = "completed"
  BY DEF Advance
<1>2. Len(kinds) \in Nat
  BY PlanFacts DEF PlanInv
<1>3. ASSUME NEW j \in 1..i - 1 PROVE plan[j] = "completed"
  <2>1. j \in 1..Len(kinds) /\ tree[j] = "completed"
    BY <1>1, <1>2
  <2> QED
    BY <1>1, <2>1 DEF PlanInv, TreeInv, Leaves
<1>4. ASSUME NEW k \in 1..Len(kinds)
      PROVE  /\ tree'[k] \in Stopped \cup {"completed"} => plan[k] = tree'[k]
             /\ tree'[k] = "in_progress" => \A j \in 1..k - 1 : plan[j] = "completed"
             /\ tree'[k] = "pending" => plan[k] \in {"pending", "cancelled"}
  <2>1. CASE k = i
    BY <1>1, <1>3, <2>1
  <2>2. CASE k # i
    BY <1>1, <2>2 DEF PlanInv, TreeInv, Leaves
  <2> QED
    BY <2>1, <2>2
<1> QED
  BY <1>4 DEF Leaves

LEMMA LeavesRepaired ==
  ASSUME PlanInv, UNCHANGED <<kinds, plan>>, tree' = tree \/ (tree' = plan /\ plan # <<>>)
  PROVE  Leaves'
<1>1. CASE tree' = tree
  BY <1>1 DEF PlanInv, TreeInv, Leaves
<1>2. CASE tree' = plan /\ plan # <<>>
  <2>1. plan \in Seq(StepStatuses) /\ InOrder(plan) /\ Len(plan) = Len(kinds) /\ Len(kinds) \in Nat
    BY <1>2, PlanFacts DEF PlanInv, PlanFields, PlanStatuses
  <2>2. PICK k : k = NextStep(plan)
    OBVIOUS
  <2>3. First(plan, k) /\ \A j \in 1..Len(plan) : j > k => plan[j] = "pending"
    BY <2>1, <2>2, NextIs
  <2>4. ASSUME NEW i \in 1..Len(kinds), plan[i] = "in_progress", NEW j \in 1..i - 1
        PROVE  plan[j] = "completed"
    BY <2>1, <2>3, <2>4 DEF First
  <2> QED
    BY <1>2, <2>4 DEF Leaves
<1> QED
  BY <1>1, <1>2

LEMMA LeavesKept ==
  ASSUME PlanInv, Next
  PROVE  Leaves'
<1>1. CASE UNCHANGED <<kinds, plan, tree>>
  BY <1>1, LeavesRepaired
<1>2. CASE OpenPlan
  <2>1. tree' = <<>>
    BY <1>2, OpenPlanEffect DEF PlanInv, TreeInv, TreeStands
  <2> QED
    BY <2>1 DEF Leaves
<1>3. CASE OpenTree
  <2>1. ses.pc = "openTree" /\ UNCHANGED <<kinds, plan>> /\ tree' \in {tree, plan}
    BY <1>3, OpenTreeEffect
  <2>2. plan # <<>>
    BY <2>1 DEF PlanInv, SessionInv
  <2> QED
    BY <2>1, <2>2, LeavesRepaired
<1>4. CASE TreeStart \/ TreeStartFinal
  <2>1. /\ UNCHANGED <<kinds, plan>>
        /\ tree' = tree \/ Advance(tree, tree', ses.step, "in_progress")
    BY <1>4, StartStepEffect
  <2> QED
    BY <2>1, LeavesRepaired, LeavesFollowTree DEF Stopped
<1>5. CASE PlanStart \/ FinalStart
  <2>1. /\ UNCHANGED <<kinds, tree>> /\ ses.pc \in {"planStart", "finalStart"}
        /\ plan' = plan \/ Advance(plan, plan', ses.step, "in_progress")
    BY <1>5, PlanStartEffect, FinalStartEffect
  <2>2. plan[ses.step] = "pending"
    BY <2>1 DEF PlanInv, SessionInv, Before
  <2>3. tree # <<>> => tree[ses.step] = "in_progress"
    BY <2>1 DEF PlanInv, TreeInv, OneAhead
  <2> QED
    BY <2>1, <2>2, <2>3, LeavesRepaired, LeavesFollowPlan
<1>6. CASE RepairStart
  <2>1. ses.pc = "repairStart" /\ UNCHANGED <<kinds, plan>> /\ tree' \in {tree, plan}
    BY <1>6, RepairStartEffect
  <2>2. plan # <<>>
    BY <2>1 DEF PlanInv, SessionInv
  <2> QED
    BY <2>1, <2>2, LeavesRepaired
<1>7. CASE PlanTarget \/ FinalFinish
  <2>1. PICK goal : goal = IF PlanTarget THEN ses.goal ELSE "completed"
    OBVIOUS
  <2>2. /\ UNCHANGED <<kinds, tree>> /\ ses.pc \in {"planTarget", "finalFinish"}
        /\ plan[ses.step] = "in_progress"
        /\ plan' = plan \/ Advance(plan, plan', ses.step, goal)
    BY <1>7, <2>1, PlanTargetEffect, FinalFinishEffect
  <2>3. tree # <<>> => tree[ses.step] = "in_progress"
    BY <2>2 DEF PlanInv, TreeInv, OneAhead, Held, Asking
  <2> QED
    BY <2>2, <2>3, LeavesRepaired, LeavesFollowPlan
<1>8. CASE TreeFinish \/ TreeFinishFinal
  <2>1. PICK goal : goal = IF TreeFinish THEN ses.goal ELSE "completed"
    OBVIOUS
  <2>2. /\ UNCHANGED <<kinds, plan>>
        /\ tree' = tree \/ (plan[ses.step] = goal /\ Advance(tree, tree', ses.step, goal))
    BY <1>8, <2>1, TreeFinishEffect, TreeFinishFinalEffect
  <2> QED
    BY <2>2, LeavesRepaired, LeavesFollowTree
<1>9. CASE RepairFinal
  <2>1. ses.pc = "repairFinal" /\ UNCHANGED <<kinds, plan>> /\ tree' \in {tree, plan}
    BY <1>9, RepairFinalEffect
  <2>2. plan # <<>>
    BY <2>1 DEF PlanInv, SessionInv
  <2> QED
    BY <2>1, <2>2, LeavesRepaired
<1>10. CASE Cancel
  <2>1. PICK i : i = NextStep(plan)
    OBVIOUS
  <2>2. /\ UNCHANGED <<kinds, tree>> /\ plan[i] = "pending"
        /\ plan' = plan \/ Advance(plan, plan', i, "cancelled")
    BY <1>10, <2>1, CancelEffect
  <2> QED
    BY <2>2, LeavesRepaired, LeavesFollowPlan
<1>11. CASE TreeCancel
  <2>1. /\ UNCHANGED <<kinds, plan>> /\ plan[ses.step] = "cancelled"
        /\ tree' = tree \/ Advance(tree, tree', ses.step, "cancelled")
    BY <1>11, TreeCancelEffect
  <2> QED
    BY <2>1, LeavesRepaired, LeavesFollowTree
<1>12. CASE ReconcileObservation \/ ReconcileFinal
  <2>1. PICK i : i = IF ReconcileObservation THEN cont.step ELSE Len(kinds)
    OBVIOUS
  <2>2. PICK goal : goal = IF ReconcileObservation /\ cont.result # "success" THEN "failed"
                           ELSE "completed"
    OBVIOUS
  <2>3. /\ UNCHANGED <<kinds, tree>>
        /\ plan' = plan \/ (plan[i] = "in_progress" /\ Advance(plan, plan', i, goal))
    BY <1>12, <2>1, <2>2, ReconcileObservationEffect, ReconcileFinalEffect
  <2>4. CASE plan[i] = "in_progress" /\ Advance(plan, plan', i, goal)
    <3>1. i \in 1..Len(kinds)
      BY <2>4 DEF Advance
    <3>2. tree # <<>> => tree[i] # "pending"
      BY <2>4, <3>1 DEF PlanInv, TreeInv, Leaves
    <3> QED
      BY <2>3, <2>4, <3>2, LeavesFollowPlan
  <2> QED
    BY <2>3, <2>4, LeavesRepaired
<1>13. CASE ReconcileFromPlan
  <2>1. UNCHANGED <<kinds, plan>> /\ tree' = plan /\ tree # <<>>
    BY <1>13, ReconcileFromPlanEffect
  <2>2. plan # <<>>
    BY <2>1 DEF PlanInv, TreeInv, TreeStands
  <2> QED
    BY <2>1, <2>2, LeavesRepaired
<1> QED
  <2>1. \/ OpenPlan \/ OpenTree \/ TreeStart \/ TreeStartFinal \/ PlanStart \/ FinalStart
        \/ RepairStart \/ PlanTarget \/ FinalFinish \/ TreeFinish \/ TreeFinishFinal \/ RepairFinal
        \/ Cancel \/ TreeCancel \/ ReconcileObservation \/ ReconcileFinal \/ ReconcileFromPlan
        \/ UNCHANGED <<kinds, plan, tree>>
    BY DEF Next, Open, ExecuteNextTool, Record, ExecuteFinalResponse, Reconcile,
      OpenRecord, OpenDesktop, PrepareNext, BoundaryRefuses, BoundaryWrite, BoundaryCall,
      BoundaryComplete, RecordTrace, RecordCheckpoint, Shutdown, PrepareFinal, FinalCreate,
      FinalIntent, FinalCall, FinalComplete, PreserveAndClose, Crash, ReconcileFinalSuccess
  <2> QED
    BY <1>1, <1>2, <1>3, <1>4, <1>5, <1>6, <1>7, <1>8, <1>9, <1>10, <1>11, <1>12, <1>13, <2>1

-----------------------------------------------------------------------------
(* The tree is a step ahead when a step begins, and agrees once it has.     *)
Ahead == {"planStart", "finalCreate", "finalStart"}

LEMMA OneAheadStarts ==
  ASSUME PlanInv, TreeStart \/ TreeStartFinal, ses'.pc # "record"
  PROVE  OneAhead'
<1>1. PICK i : i = ses.step
  OBVIOUS
<1>2. /\ UNCHANGED <<kinds, plan>> /\ ses.pc \in {"treeStart", "treeStartFinal"}
      /\ ses'.pc \in {"planStart", "finalCreate"} /\ ses'.step = i
      /\ Advance(tree, tree', i, "in_progress") /\ tree[i] = "pending"
  BY <1>1, StartStepEffect DEF Remembers
<1>3. plan[i] = "pending" /\ i = NextStep(plan)
  BY <1>1, <1>2 DEF PlanInv, SessionInv, Before
<1>4. plan # <<>> /\ i \in 1..Len(kinds)
  BY <1>1, <1>2, HoldsAStep DEF InTool, InFinal, Before
<1>5. /\ i = NextStep(tree) /\ tree # <<>> /\ tree'[i] = "in_progress"
      /\ \A j \in 1..Len(kinds) : j # i => tree'[j] = tree[j]
  BY <1>2 DEF Advance
<1>6. i \in DOMAIN plan
  BY <1>4, PlanFacts DEF PlanInv
<1>7. plan = tree
  BY <1>2, <1>3, <1>4, <1>5, <1>6, Meets DEF PlanInv
<1> QED
  BY <1>2, <1>5, <1>7 DEF OneAhead, Held, Asking

LEMMA OneAheadMeets ==
  ASSUME PlanInv, UNCHANGED <<kinds, tree>>, ses.pc \in Ahead, tree # <<>>,
         Advance(plan, plan', ses.step, "in_progress")
  PROVE  tree = plan'
<1>1. /\ plan' \in [1..Len(kinds) -> StepStatuses] /\ plan'[ses.step] = "in_progress"
      /\ \A j \in 1..Len(kinds) : j # ses.step => plan'[j] = plan[j]
  BY DEF Advance
<1>2. tree \in [1..Len(kinds) -> StepStatuses]
  BY PlanFacts DEF PlanInv, PlanFields, PlanStatuses
<1>3. ASSUME NEW j \in 1..Len(kinds) PROVE tree[j] = plan'[j]
  BY <1>1 DEF PlanInv, TreeInv, OneAhead, Ahead
<1> QED
  BY <1>1, <1>2, <1>3

LEMMA OneAheadKept ==
  ASSUME PlanInv, Next
  PROVE  OneAhead'
<1>1. CASE ses'.pc \notin Ahead \cup Held \cup Asking
  BY <1>1 DEF OneAhead, Ahead
<1>2. CASE /\ UNCHANGED <<kinds, plan, tree>>
           /\ ses.pc \in Held \cup Asking /\ ses'.pc \notin Ahead
  BY <1>2 DEF PlanInv, TreeInv, OneAhead, Ahead
<1>3. CASE TreeStart
  BY <1>1, <1>3, OneAheadStarts DEF Ahead, Held, Asking
<1>4. CASE TreeStartFinal
  BY <1>1, <1>4, OneAheadStarts DEF Ahead, Held, Asking
<1>5. CASE PrepareNext
  <2>1. tree' = tree /\ (mode = "linear" \/ ses'.pc = "treeStart")
    BY <1>5, PrepareNextEffect
  <2>2. mode = "linear" => tree = <<>>
    BY DEF PlanInv, TreeInv, TreeStands
  <2> QED
    BY <2>1, <2>2 DEF OneAhead, Held, Asking
<1>6. CASE PrepareFinal
  <2>1. tree' = tree /\ (mode = "linear" \/ ses'.pc = "treeStartFinal")
    BY <1>6, PrepareFinalEffect
  <2>2. mode = "linear" => tree = <<>>
    BY DEF PlanInv, TreeInv, TreeStands
  <2> QED
    BY <2>1, <2>2 DEF OneAhead, Held, Asking
<1>7. CASE PlanStart
  <2>1. /\ UNCHANGED <<kinds, tree>> /\ ses.pc = "planStart"
        /\ \/ Advance(plan, plan', ses.step, "in_progress") /\ ses'.pc = "boundary"
           \/ ses'.pc \in {"repairStart", "idle"}
    BY <1>7, PlanStartEffect
  <2> QED
    BY <1>1, <2>1, OneAheadMeets DEF OneAhead, Ahead, Held, Asking
<1>8. CASE FinalStart
  <2>1. /\ UNCHANGED <<kinds, tree>> /\ ses.pc = "finalStart"
        /\ \/ Advance(plan, plan', ses.step, "in_progress") /\ ses'.pc = "finalIntent"
           \/ ses'.pc = "repairFinal"
    BY <1>8, FinalStartEffect
  <2> QED
    BY <1>1, <2>1, OneAheadMeets DEF OneAhead, Ahead, Held, Asking
<1>9. CASE FinalCreate
  <2>1. /\ UNCHANGED <<kinds, plan, tree>> /\ ses.pc = "finalCreate" /\ ses'.step = ses.step
        /\ ses'.pc \in {"finalStart", "repairFinal"}
    BY <1>9, FinalCreateEffect DEF Remembers
  <2> QED
    BY <2>1 DEF PlanInv, TreeInv, OneAhead, Held, Asking
<1>10. CASE BoundaryRefuses
  BY <1>2, <1>10, BoundaryRefusesEffect DEF Held, Asking, Ahead
<1>11. CASE BoundaryWrite("boundary", "prepared", "dispatch")
  BY <1>2, <1>11, FirstWrite DEF Held, Asking, Ahead
<1>12. CASE BoundaryWrite("dispatch", "dispatched", "call")
  BY <1>2, <1>12, SecondWrite DEF Held, Asking, Ahead
<1>13. CASE BoundaryCall
  BY <1>2, <1>13, BoundaryCallEffect DEF Held, Asking, Ahead
<1>14. CASE BoundaryComplete
  BY <1>2, <1>14, BoundaryCompleteEffect DEF Held, Asking, Ahead
<1>15. CASE FinalIntent
  BY <1>2, <1>15, FinalIntentEffect DEF Held, Asking, Ahead
<1>16. CASE FinalCall
  BY <1>2, <1>16, FinalCallEffect DEF Held, Asking, Ahead
<1>17. CASE FinalComplete
  BY <1>2, <1>17, FinalCompleteEffect DEF Held, Asking, Ahead
<1>18. CASE OpenPlan
  BY <1>1, <1>18, OpenPlanEffect DEF Ahead, Held, Asking
<1>19. CASE OpenTree
  BY <1>1, <1>19, OpenTreeEffect DEF Ahead, Held, Asking
<1>20. CASE OpenRecord
  BY <1>1, <1>20, OpenRecordEffect DEF Ahead, Held, Asking
<1>21. CASE OpenDesktop
  BY <1>1, <1>21, OpenDesktopEffect DEF Ahead, Held, Asking
<1>22. CASE RepairStart
  BY <1>1, <1>22, RepairStartEffect DEF Ahead, Held, Asking
<1>23. CASE PlanTarget
  BY <1>1, <1>23, PlanTargetEffect DEF Ahead, Held, Asking
<1>24. CASE TreeFinish
  BY <1>1, <1>24, TreeFinishEffect DEF Ahead, Held, Asking
<1>25. CASE RecordTrace
  BY <1>1, <1>25, RecordTraceEffect DEF Ahead, Held, Asking
<1>26. CASE RecordCheckpoint
  BY <1>1, <1>26, RecordCheckpointEffect DEF Ahead, Held, Asking
<1>27. CASE Shutdown
  BY <1>1, <1>27, ShutdownEffect DEF Ahead, Held, Asking
<1>28. CASE FinalFinish
  BY <1>1, <1>28, FinalFinishEffect DEF Ahead, Held, Asking
<1>29. CASE TreeFinishFinal
  BY <1>1, <1>29, TreeFinishFinalEffect DEF Ahead, Held, Asking
<1>30. CASE RepairFinal
  BY <1>1, <1>30, RepairFinalEffect DEF Ahead, Held, Asking
<1>31. CASE Cancel
  BY <1>1, <1>31, CancelEffect DEF Ahead, Held, Asking
<1>32. CASE TreeCancel
  BY <1>1, <1>32, TreeCancelEffect DEF Ahead, Held, Asking
<1>33. CASE PreserveAndClose
  BY <1>1, <1>33, PreserveEffect DEF Ahead, Held, Asking
<1>34. CASE Crash
  BY <1>1, <1>34, CrashEffect DEF Ahead, Held, Asking
<1>35. CASE ReconcileObservation
  BY <1>1, <1>35, ReconcileObservationEffect DEF Ahead, Held, Asking
<1>36. CASE ReconcileFromPlan
  BY <1>1, <1>36, ReconcileFromPlanEffect DEF Ahead, Held, Asking
<1>37. CASE ReconcileFinal
  BY <1>1, <1>37, ReconcileFinalEffect DEF Ahead, Held, Asking
<1>38. CASE ReconcileFinalSuccess
  BY <1>1, <1>38, ReconcileFinalSuccessEffect DEF Ahead, Held, Asking
<1> QED
  BY <1>3, <1>4, <1>5, <1>6, <1>7, <1>8, <1>9, <1>10, <1>11, <1>12, <1>13, <1>14, <1>15, <1>16,
    <1>17, <1>18, <1>19, <1>20, <1>21, <1>22, <1>23, <1>24, <1>25, <1>26, <1>27, <1>28, <1>29,
    <1>30, <1>31, <1>32, <1>33, <1>34, <1>35, <1>36, <1>37, <1>38
  DEF Next, Open, ExecuteNextTool, Record, ExecuteFinalResponse, Reconcile

-----------------------------------------------------------------------------
(* What the continuation knows of the completed steps.                     *)
LEMMA LedgerStays ==
  ASSUME PlanInv, UNCHANGED <<kinds, cont>>,
         \A j \in 1..Len(kinds) - 1 : plan'[j] = "completed" =>
            plan[j] = "completed" \/ (cont.step = j /\ cont.stage = "completed"),
         ses.pc \notin Outside \/ ses'.pc \in Outside,
         ses'.pc \in InFinal => ses.pc \in InFinal
  PROVE  LedgerInv'
BY DEF PlanInv, LedgerInv, KnowsLast

LEMMA LedgerMoves ==
  ASSUME PlanInv, UNCHANGED <<kinds, cont>>, NEW i, NEW goal, Advance(plan, plan', i, goal),
         goal = "completed" => i = Len(kinds) \/ (cont.step = i /\ cont.stage = "completed"),
         ses.pc \notin Outside \/ ses'.pc \in Outside,
         ses'.pc \in InFinal => ses.pc \in InFinal
  PROVE  LedgerInv'
<1>1. Len(kinds) \in Nat
  BY PlanFacts DEF PlanInv
<1>2. /\ plan'[i] = goal
      /\ \A j \in 1..Len(kinds) : j # i => plan'[j] = plan[j]
  BY DEF Advance
<1>3. ASSUME NEW j \in 1..Len(kinds) - 1, plan'[j] = "completed"
      PROVE  plan[j] = "completed" \/ (cont.step = j /\ cont.stage = "completed")
  <2>1. j \in 1..Len(kinds) /\ j # Len(kinds)
    BY <1>1
  <2> QED
    BY <1>2, <1>3, <2>1
<1> QED
  BY <1>3, LedgerStays

(* A held step is past every completed one.                                *)
LEMMA LedgerTurns ==
  ASSUME PlanInv, UNCHANGED <<kinds, plan>>, ses.pc \in Held, ses'.pc \notin InFinal,
         cont' = cont \/ cont'.step = ses.step
  PROVE  LedgerInv'
<1>1. CASE cont' = cont
  BY <1>1, LedgerStays DEF Outside, Opening, Settling, Held
<1>2. CASE cont'.step = ses.step
  <2>1. PICK i : i = ses.step
    OBVIOUS
  <2>2. plan # <<>> /\ i \in 1..Len(kinds) - 1 /\ Len(kinds) \in Nat /\ i \in 1..Len(kinds)
    BY <2>1, HoldsAStep DEF InTool
  <2>3. plan[i] = "in_progress"
    BY <2>1 DEF PlanInv, SessionInv
  <2>4. plan \in Seq(StepStatuses) /\ InOrder(plan) /\ Len(plan) = Len(kinds)
    BY <2>2, PlanFacts DEF PlanInv, PlanFields, PlanStatuses
  <2>5. PICK k : k = NextStep(plan)
    OBVIOUS
  <2>6. First(plan, k) /\ \A j \in 1..Len(plan) : j > k => plan[j] = "pending"
    BY <2>4, <2>5, NextIs
  <2>7. ASSUME NEW j \in 1..Len(kinds) - 1, plan[j] = "completed" PROVE i > j
    BY <2>2, <2>3, <2>4, <2>6, <2>7 DEF First
  <2>8. i < Len(kinds)
    BY <2>2
  <2> QED
    BY <1>2, <2>1, <2>7, <2>8 DEF LedgerInv, KnowsLast
<1> QED
  BY <1>1, <1>2

LEMMA LedgerKept ==
  ASSUME PlanInv, Next
  PROVE  LedgerInv'
<1> DEFINE Goes == /\ ses.pc \notin Outside \/ ses'.pc \in Outside
                   /\ ses'.pc \in InFinal => ses.pc \in InFinal
<1>1. CASE UNCHANGED <<kinds, plan, cont>> /\ Goes
  BY <1>1, LedgerStays
<1>2. ASSUME kinds' = kinds, ses'.pc \in Outside, cont' = cont \/ cont'.step = 0
      PROVE  LedgerInv'
  <2>1. Len(kinds) \in Nat \ {0}
    BY PlanFacts DEF PlanInv
  <2> QED
    BY <1>2, <2>1 DEF PlanInv, LedgerInv, Outside, InFinal, Before, Asking, Opening, Settling
<1>3. CASE OpenDesktop
  <2>1. /\ ses.pc = "openDesktop" /\ UNCHANGED <<kinds, plan>> /\ cont'.step = 0
        /\ ses'.pc \in {"idle", "closed"}
    BY <1>3, OpenDesktopEffect
  <2>2. Len(kinds) \in Nat \ {0} /\ (plan # <<>> => DOMAIN plan = 1..Len(kinds))
    BY PlanFacts DEF PlanInv
  <2>3. plan # <<>> /\ \A j \in DOMAIN plan : plan[j] = "pending"
    BY <2>1 DEF PlanInv, SessionInv, Opening
  <2>4. \A j \in 1..Len(kinds) - 1 : plan[j] # "completed"
    BY <2>2, <2>3
  <2> QED
    BY <2>1, <2>2, <2>4 DEF LedgerInv, KnowsLast, InFinal, Before, Asking
<1>4. CASE PlanStart
  <2>1. /\ UNCHANGED <<kinds, cont>> /\ Goes
        /\ plan' = plan \/ Advance(plan, plan', ses.step, "in_progress")
    BY <1>4, PlanStartEffect DEF Outside, Opening, Settling, InFinal, Before, Asking
  <2> QED
    BY <2>1, LedgerStays, LedgerMoves
<1>5. CASE FinalStart
  <2>1. /\ UNCHANGED <<kinds, cont>> /\ Goes
        /\ plan' = plan \/ Advance(plan, plan', ses.step, "in_progress")
    BY <1>5, FinalStartEffect DEF Outside, Opening, Settling, InFinal, Before, Asking
  <2> QED
    BY <2>1, LedgerStays, LedgerMoves
<1>6. CASE BoundaryWrite("boundary", "prepared", "dispatch")
  BY <1>6, FirstWrite, LedgerTurns DEF Held, InFinal, Before, Asking
<1>7. CASE BoundaryWrite("dispatch", "dispatched", "call")
  BY <1>7, SecondWrite, LedgerTurns DEF Held, InFinal, Before, Asking
<1>8. CASE BoundaryComplete
  BY <1>8, BoundaryCompleteEffect, LedgerTurns DEF Held, InFinal, Before, Asking
<1>9. CASE PlanTarget
  <2>1. /\ UNCHANGED <<kinds, cont>> /\ Goes /\ ses.pc = "planTarget"
        /\ plan' = plan \/ Advance(plan, plan', ses.step, ses.goal)
    BY <1>9, PlanTargetEffect DEF Outside, Opening, Settling, InFinal, Before, Asking
  <2>2. ses.goal = "completed" => cont.step = ses.step /\ cont.stage = "completed"
    BY <2>1 DEF PlanInv, SentInv, Underway
  <2> QED
    BY <2>1, <2>2, LedgerStays, LedgerMoves
<1>10. CASE FinalFinish
  <2>1. /\ UNCHANGED <<kinds, cont>> /\ Goes /\ ses.pc = "finalFinish"
        /\ plan' = plan \/ Advance(plan, plan', ses.step, "completed")
    BY <1>10, FinalFinishEffect DEF Outside, Opening, Settling, InFinal, Before, Asking
  <2>2. ses.step = Len(kinds)
    BY <2>1, HoldsAStep DEF InFinal, Asking
  <2> QED
    BY <2>1, <2>2, LedgerStays, LedgerMoves
<1>11. CASE PrepareFinal
  <2>1. /\ ses.pc = "idle" /\ UNCHANGED <<kinds, plan, cont>>
        /\ Len(kinds) > 1 /\ \A j \in 1..Len(kinds) - 1 : plan[j] = "completed"
        /\ ses'.pc \in {"treeStartFinal", "finalCreate"}
    BY <1>11, PrepareFinalEffect
  <2>2. KnowsLast /\ cont.step < Len(kinds)
    BY <2>1 DEF PlanInv, LedgerInv, Outside, Opening, Settling
  <2>3. Len(kinds) \in Nat /\ cont.step \in Nat
    BY PlanFacts DEF PlanInv, PlanFields, PlanBoundary
  <2>4. PICK j : j = Len(kinds) - 1
    OBVIOUS
  <2>5. j \in 1..Len(kinds) - 1 /\ plan[j] = "completed"
    BY <2>1, <2>3, <2>4
  <2>6. cont.step > j \/ (cont.step = j /\ cont.stage = "completed")
    BY <2>2, <2>5 DEF KnowsLast
  <2>7. cont.stage = "completed"
    BY <2>2, <2>3, <2>4, <2>6
  <2> QED
    BY <2>1, <2>2, <2>7 DEF LedgerInv, KnowsLast
<1>12. CASE Cancel
  <2>1. PICK i : i = NextStep(plan)
    OBVIOUS
  <2>2. /\ UNCHANGED <<kinds, cont>> /\ Goes
        /\ plan' = plan \/ Advance(plan, plan', i, "cancelled")
    BY <1>12, <2>1, CancelEffect DEF Outside, Opening, Settling, InFinal, Before, Asking
  <2> QED
    BY <2>2, LedgerStays, LedgerMoves
<1>13. CASE OpenPlan
  BY <1>2, <1>13, OpenPlanEffect DEF Outside, Opening, Settling
<1>14. CASE OpenTree
  BY <1>2, <1>14, OpenTreeEffect DEF Outside, Opening, Settling
<1>15. CASE OpenRecord
  BY <1>2, <1>15, OpenRecordEffect DEF Outside, Opening, Settling
<1>16. CASE Shutdown
  BY <1>2, <1>16, ShutdownEffect DEF Outside, Opening, Settling
<1>17. CASE Crash
  BY <1>2, <1>17, CrashEffect DEF Outside, Opening, Settling
<1>18. CASE ReconcileObservation
  BY <1>2, <1>18, ReconcileObservationEffect DEF Outside, Opening, Settling
<1>19. CASE ReconcileFromPlan
  BY <1>2, <1>19, ReconcileFromPlanEffect DEF Outside, Opening, Settling
<1>20. CASE ReconcileFinal
  BY <1>2, <1>20, ReconcileFinalEffect DEF Outside, Opening, Settling
<1>21. CASE ReconcileFinalSuccess
  BY <1>2, <1>21, ReconcileFinalSuccessEffect DEF Outside, Opening, Settling
<1>22. CASE PrepareNext
  BY <1>1, <1>22, PrepareNextEffect DEF Outside, Opening, Settling, InFinal, Before, Asking
<1>23. CASE TreeStart
  BY <1>1, <1>23, StartStepEffect DEF Outside, Opening, Settling, InFinal, Before, Asking
<1>24. CASE RepairStart
  BY <1>1, <1>24, RepairStartEffect DEF Outside, Opening, Settling, InFinal, Before, Asking
<1>25. CASE BoundaryRefuses
  BY <1>1, <1>25, BoundaryRefusesEffect DEF Outside, Opening, Settling, InFinal, Before, Asking
<1>26. CASE BoundaryCall
  BY <1>1, <1>26, BoundaryCallEffect DEF Outside, Opening, Settling, InFinal, Before, Asking
<1>27. CASE TreeFinish
  BY <1>1, <1>27, TreeFinishEffect DEF Outside, Opening, Settling, InFinal, Before, Asking
<1>28. CASE RecordTrace
  BY <1>1, <1>28, RecordTraceEffect DEF Outside, Opening, Settling, InFinal, Before, Asking
<1>29. CASE RecordCheckpoint
  BY <1>1, <1>29, RecordCheckpointEffect DEF Outside, Opening, Settling, InFinal, Before, Asking
<1>30. CASE TreeStartFinal
  BY <1>1, <1>30, StartStepEffect DEF Outside, Opening, Settling, InFinal, Before, Asking
<1>31. CASE FinalCreate
  BY <1>1, <1>31, FinalCreateEffect DEF Outside, Opening, Settling, InFinal, Before, Asking
<1>32. CASE FinalIntent
  BY <1>1, <1>32, FinalIntentEffect DEF Outside, Opening, Settling, InFinal, Before, Asking
<1>33. CASE FinalCall
  BY <1>1, <1>33, FinalCallEffect DEF Outside, Opening, Settling, InFinal, Before, Asking
<1>34. CASE FinalComplete
  BY <1>1, <1>34, FinalCompleteEffect DEF Outside, Opening, Settling, InFinal, Before, Asking
<1>35. CASE TreeFinishFinal
  BY <1>1, <1>35, TreeFinishFinalEffect DEF Outside, Opening, Settling, InFinal, Before, Asking
<1>36. CASE RepairFinal
  BY <1>1, <1>36, RepairFinalEffect DEF Outside, Opening, Settling, InFinal, Before, Asking
<1>37. CASE TreeCancel
  BY <1>1, <1>37, TreeCancelEffect DEF Outside, Opening, Settling, InFinal, Before, Asking
<1>38. CASE PreserveAndClose
  BY <1>1, <1>38, PreserveEffect DEF Outside, Opening, Settling, InFinal, Before, Asking
<1> QED
  BY <1>3, <1>4, <1>5, <1>6, <1>7, <1>8, <1>9, <1>10, <1>11, <1>12, <1>13, <1>14, <1>15, <1>16,
    <1>17, <1>18, <1>19, <1>20, <1>21, <1>22, <1>23, <1>24, <1>25, <1>26, <1>27, <1>28, <1>29,
    <1>30, <1>31, <1>32, <1>33, <1>34, <1>35, <1>36, <1>37, <1>38
  DEF Next, Open, ExecuteNextTool, Record, ExecuteFinalResponse, Reconcile

-----------------------------------------------------------------------------
(* The final response.                                                     *)
LEMMA FinalStageKept ==
  ASSUME PlanInv, Next
  PROVE  FinalStage'
<1>1. CASE OpenPlan
  <2>1. plan = <<>> /\ final' = final /\ (ses' = ses \/ ses'.pc \in {"openTree", "openRecord"})
    BY <1>1, OpenPlanEffect
  <2> QED
    BY <2>1 DEF PlanInv, FinalInv, FinalPlace, FinalStage, Settling
<1>2. CASE OpenTree
  BY <1>2, OpenTreeEffect DEF PlanInv, FinalInv, FinalStage, Remembers, Opening, InTool, Held,
    Settling
<1>3. CASE OpenRecord
  BY <1>3, OpenRecordEffect DEF PlanInv, FinalInv, FinalStage, Remembers, Opening, InTool, Held,
    Settling
<1>4. CASE OpenDesktop
  BY <1>4, OpenDesktopEffect DEF PlanInv, FinalInv, FinalStage, Remembers, Opening, InTool,
    Held, Settling
<1>5. CASE PrepareNext
  <2>1. /\ plan[ses'.step] = "pending" /\ ses'.step \in 1..Len(kinds) - 1 /\ final' = final
        /\ ses'.pc \in {"treeStart", "planStart"}
    BY <1>5, PrepareNextEffect
  <2>2. final = "absent"
    BY <2>1 DEF PlanInv, FinalInv, FinalPlace
  <2> QED
    BY <2>1, <2>2 DEF FinalStage, Settling
<1>6. CASE TreeStart
  BY <1>6, StartStepEffect DEF PlanInv, FinalInv, FinalStage, Remembers, Opening, InTool, Held,
    Settling
<1>7. CASE PlanStart
  BY <1>7, PlanStartEffect DEF PlanInv, FinalInv, FinalStage, Remembers, Opening, InTool, Held,
    Settling
<1>8. CASE RepairStart
  BY <1>8, RepairStartEffect DEF PlanInv, FinalInv, FinalStage, Remembers, Opening, InTool,
    Held, Settling
<1>9. CASE BoundaryRefuses
  BY <1>9, BoundaryRefusesEffect DEF PlanInv, FinalInv, FinalStage, Remembers, Opening, InTool,
    Held, Settling
<1>10. CASE BoundaryWrite("boundary", "prepared", "dispatch")
  BY <1>10, FirstWrite DEF PlanInv, FinalInv, FinalStage, Remembers, Opening, InTool, Held, Settling
<1>11. CASE BoundaryWrite("dispatch", "dispatched", "call")
  BY <1>11, SecondWrite DEF PlanInv, FinalInv, FinalStage, Remembers, Opening, InTool, Held,
    Settling
<1>12. CASE BoundaryCall
  BY <1>12, BoundaryCallEffect DEF PlanInv, FinalInv, FinalStage, Remembers, Opening, InTool,
    Held, Settling
<1>13. CASE BoundaryComplete
  BY <1>13, BoundaryCompleteEffect DEF PlanInv, FinalInv, FinalStage, Remembers, Opening,
    InTool, Held, Settling
<1>14. CASE PlanTarget
  BY <1>14, PlanTargetEffect DEF PlanInv, FinalInv, FinalStage, Remembers, Opening, InTool,
    Held, Settling
<1>15. CASE TreeFinish
  BY <1>15, TreeFinishEffect DEF PlanInv, FinalInv, FinalStage, Remembers, Opening, InTool,
    Held, Settling
<1>16. CASE RecordTrace
  BY <1>16, RecordTraceEffect DEF PlanInv, FinalInv, FinalStage, Remembers, Opening, InTool,
    Held, Settling
<1>17. CASE RecordCheckpoint
  BY <1>17, RecordCheckpointEffect DEF PlanInv, FinalInv, FinalStage, Remembers, Opening,
    InTool, Held, Settling
<1>18. CASE Shutdown
  BY <1>18, ShutdownEffect DEF PlanInv, FinalInv, FinalStage, Remembers, Opening, InTool, Held,
    Settling
<1>19. CASE PrepareFinal
  BY <1>19, PrepareFinalEffect DEF PlanInv, FinalInv, FinalStage, Remembers, Opening, InTool,
    Held, Settling
<1>20. CASE TreeStartFinal
  BY <1>20, StartStepEffect DEF PlanInv, FinalInv, FinalStage, Remembers, Opening, InTool, Held,
    Settling
<1>21. CASE FinalCreate
  BY <1>21, FinalCreateEffect DEF PlanInv, FinalInv, FinalStage, Remembers, Opening, InTool,
    Held, Settling
<1>22. CASE FinalStart
  BY <1>22, FinalStartEffect DEF PlanInv, FinalInv, FinalStage, Remembers, Opening, InTool,
    Held, Settling
<1>23. CASE FinalIntent
  BY <1>23, FinalIntentEffect DEF PlanInv, FinalInv, FinalStage, Remembers, Opening, InTool,
    Held, Settling
<1>24. CASE FinalCall
  BY <1>24, FinalCallEffect DEF PlanInv, FinalInv, FinalStage, Remembers, Opening, InTool, Held,
    Settling
<1>25. CASE FinalComplete
  BY <1>25, FinalCompleteEffect DEF PlanInv, FinalInv, FinalStage, Remembers, Opening, InTool,
    Held, Settling
<1>26. CASE FinalFinish
  BY <1>26, FinalFinishEffect DEF PlanInv, FinalInv, FinalStage, Remembers, Opening, InTool,
    Held, Settling
<1>27. CASE TreeFinishFinal
  BY <1>27, TreeFinishFinalEffect DEF PlanInv, FinalInv, FinalStage, Remembers, Opening, InTool,
    Held, Settling
<1>28. CASE RepairFinal
  BY <1>28, RepairFinalEffect DEF PlanInv, FinalInv, FinalStage, Remembers, Opening, InTool,
    Held, Settling
<1>29. CASE Cancel
  BY <1>29, CancelEffect DEF PlanInv, FinalInv, FinalStage, Remembers, Opening, InTool, Held,
    Settling
<1>30. CASE TreeCancel
  BY <1>30, TreeCancelEffect DEF PlanInv, FinalInv, FinalStage, Remembers, Opening, InTool,
    Held, Settling
<1>31. CASE PreserveAndClose
  BY <1>31, PreserveEffect DEF PlanInv, FinalInv, FinalStage, Remembers, Opening, InTool, Held,
    Settling
<1>32. CASE Crash
  BY <1>32, CrashEffect DEF PlanInv, FinalInv, FinalStage, Remembers, Opening, InTool, Held,
    Settling
<1>33. CASE ReconcileObservation
  BY <1>33, ReconcileObservationEffect DEF PlanInv, FinalInv, FinalStage, Remembers, Opening,
    InTool, Held, Settling
<1>34. CASE ReconcileFromPlan
  BY <1>34, ReconcileFromPlanEffect DEF PlanInv, FinalInv, FinalStage, Remembers, Opening,
    InTool, Held, Settling
<1>35. CASE ReconcileFinal
  BY <1>35, ReconcileFinalEffect DEF PlanInv, FinalInv, FinalStage, Remembers, Opening, InTool,
    Held, Settling
<1>36. CASE ReconcileFinalSuccess
  BY <1>36, ReconcileFinalSuccessEffect DEF PlanInv, FinalInv, FinalStage, Remembers, Opening,
    InTool, Held, Settling
<1> QED
  BY <1>1, <1>2, <1>3, <1>4, <1>5, <1>6, <1>7, <1>8, <1>9, <1>10, <1>11, <1>12, <1>13, <1>14,
    <1>15, <1>16, <1>17, <1>18, <1>19, <1>20, <1>21, <1>22, <1>23, <1>24, <1>25, <1>26, <1>27,
    <1>28, <1>29, <1>30, <1>31, <1>32, <1>33, <1>34, <1>35, <1>36
  DEF Next, Open, ExecuteNextTool, Record, ExecuteFinalResponse, Reconcile

LEMMA FinalSentKept ==
  ASSUME PlanInv, Next
  PROVE  FinalSent'
<1>1. CASE UNCHANGED <<kinds, sent, final>> /\ ses'.pc # "finalComplete"
  BY <1>1, SameResults DEF PlanInv, FinalInv, FinalSent
<1>2. CASE FinalCreate
  <2>1. /\ UNCHANGED <<kinds, sent>> /\ ses'.pc # "finalComplete"
        /\ final' = final \/ (final = "absent" /\ final' = "prepared")
    BY <1>2, FinalCreateEffect
  <2> QED
    BY <2>1, SameResults DEF PlanInv, FinalInv, FinalSent
<1>3. CASE FinalIntent
  <2>1. /\ UNCHANGED <<kinds, sent>> /\ ses'.pc # "finalComplete"
        /\ final' \in {final, "dispatch_intent"}
    BY <1>3, FinalIntentEffect
  <2> QED
    BY <2>1, SameResults DEF PlanInv, FinalInv, FinalSent
<1>4. CASE FinalCall
  <2>1. PICK i : i = Len(kinds)
    OBVIOUS
  <2>2. /\ UNCHANGED <<kinds, final>> /\ ses.pc = "finalCall"
        /\ \E r \in {"success", "unknown"} :
              /\ \A j : ResultsOf(j)' = IF j = ses.step THEN ResultsOf(j) \cup {r} ELSE ResultsOf(j)
              /\ ses'.pc = "finalComplete" => r = "success"
    BY <1>4, FinalCallEffect
  <2>3. final = "dispatch_intent"
    BY <2>2 DEF PlanInv, FinalInv, FinalStage
  <2>4. ses.step = i
    BY <2>1, <2>2, HoldsAStep DEF InFinal, Asking
  <2>5. ResultsOf(i) = {}
    BY <2>2, <2>4 DEF PlanInv, SentInv, Underway
  <2>6. ses'.pc = "finalComplete" => ResultsOf(i)' = {"success"}
    BY <2>2, <2>4, <2>5
  <2> QED
    BY <2>1, <2>2, <2>3, <2>6 DEF FinalSent
<1>5. CASE BoundaryCall
  <2>1. PICK i : i = Len(kinds)
    OBVIOUS
  <2>2. /\ UNCHANGED <<kinds, final>> /\ ses.pc = "call" /\ ses'.pc = "complete"
        /\ \A j : j # ses.step => ResultsOf(j)' = ResultsOf(j)
    BY <1>5, BoundaryCallEffect
  <2>3. ses.step # i
    BY <2>1, <2>2, HoldsAStep DEF InTool, Held
  <2>4. ResultsOf(i)' = ResultsOf(i)
    BY <2>2, <2>3
  <2> QED
    BY <2>1, <2>2, <2>4 DEF PlanInv, FinalInv, FinalSent
<1>6. CASE FinalComplete
  <2>1. /\ UNCHANGED <<kinds, sent>> /\ ses.pc = "finalComplete" /\ ses'.pc # "finalComplete"
        /\ final' \in {final, "completed"}
    BY <1>6, FinalCompleteEffect
  <2> QED
    BY <2>1, SameResults DEF PlanInv, FinalInv, FinalSent
<1>7. CASE OpenPlan
  BY <1>1, <1>7, OpenPlanEffect
<1>8. CASE OpenTree
  BY <1>1, <1>8, OpenTreeEffect
<1>9. CASE OpenRecord
  BY <1>1, <1>9, OpenRecordEffect
<1>10. CASE OpenDesktop
  BY <1>1, <1>10, OpenDesktopEffect
<1>11. CASE PrepareNext
  BY <1>1, <1>11, PrepareNextEffect
<1>12. CASE TreeStart
  BY <1>1, <1>12, StartStepEffect
<1>13. CASE PlanStart
  BY <1>1, <1>13, PlanStartEffect
<1>14. CASE RepairStart
  BY <1>1, <1>14, RepairStartEffect
<1>15. CASE BoundaryRefuses
  BY <1>1, <1>15, BoundaryRefusesEffect
<1>16. CASE BoundaryWrite("boundary", "prepared", "dispatch")
  BY <1>1, <1>16, FirstWrite
<1>17. CASE BoundaryWrite("dispatch", "dispatched", "call")
  BY <1>1, <1>17, SecondWrite
<1>18. CASE BoundaryComplete
  BY <1>1, <1>18, BoundaryCompleteEffect
<1>19. CASE PlanTarget
  BY <1>1, <1>19, PlanTargetEffect
<1>20. CASE TreeFinish
  BY <1>1, <1>20, TreeFinishEffect
<1>21. CASE RecordTrace
  BY <1>1, <1>21, RecordTraceEffect
<1>22. CASE RecordCheckpoint
  BY <1>1, <1>22, RecordCheckpointEffect
<1>23. CASE Shutdown
  BY <1>1, <1>23, ShutdownEffect
<1>24. CASE PrepareFinal
  BY <1>1, <1>24, PrepareFinalEffect
<1>25. CASE TreeStartFinal
  BY <1>1, <1>25, StartStepEffect
<1>26. CASE FinalStart
  BY <1>1, <1>26, FinalStartEffect
<1>27. CASE FinalFinish
  BY <1>1, <1>27, FinalFinishEffect
<1>28. CASE TreeFinishFinal
  BY <1>1, <1>28, TreeFinishFinalEffect
<1>29. CASE RepairFinal
  BY <1>1, <1>29, RepairFinalEffect
<1>30. CASE Cancel
  BY <1>1, <1>30, CancelEffect
<1>31. CASE TreeCancel
  BY <1>1, <1>31, TreeCancelEffect
<1>32. CASE PreserveAndClose
  BY <1>1, <1>32, PreserveEffect
<1>33. CASE Crash
  BY <1>1, <1>33, CrashEffect
<1>34. CASE ReconcileObservation
  BY <1>1, <1>34, ReconcileObservationEffect
<1>35. CASE ReconcileFromPlan
  BY <1>1, <1>35, ReconcileFromPlanEffect
<1>36. CASE ReconcileFinal
  BY <1>1, <1>36, ReconcileFinalEffect
<1>37. CASE ReconcileFinalSuccess
  BY <1>1, <1>37, ReconcileFinalSuccessEffect
<1> QED
  BY <1>2, <1>3, <1>4, <1>5, <1>6, <1>7, <1>8, <1>9, <1>10, <1>11, <1>12, <1>13, <1>14, <1>15,
    <1>16, <1>17, <1>18, <1>19, <1>20, <1>21, <1>22, <1>23, <1>24, <1>25, <1>26, <1>27, <1>28,
    <1>29, <1>30, <1>31, <1>32, <1>33, <1>34, <1>35, <1>36, <1>37
  DEF Next, Open, ExecuteNextTool, Record, ExecuteFinalResponse, Reconcile

LEMMA FinalPlaceStays ==
  ASSUME PlanInv, UNCHANGED <<kinds, plan>>, rec' = rec \/ plan # <<>>,
         final' = final \/ (plan # <<>> /\ final' # "absent" /\ plan[Len(kinds)] # "completed"
                            /\ \A j \in 1..Len(kinds) - 1 : plan[j] = "completed")
  PROVE  FinalPlace'
BY DEF PlanInv, FinalInv, FinalPlace

LEMMA FinalPlaceMoves ==
  ASSUME PlanInv, UNCHANGED <<kinds, final>>, NEW i, NEW goal, Advance(plan, plan', i, goal),
         goal = "completed" /\ i = Len(kinds) => final = "completed"
  PROVE  FinalPlace'
<1>1. /\ plan # <<>> /\ plan' # <<>> /\ plan[i] # "completed" /\ plan'[i] = goal
      /\ \A j \in 1..Len(kinds) : j # i => plan'[j] = plan[j]
  BY DEF Advance
<1>2. Len(kinds) \in Nat \ {0}
  BY PlanFacts DEF PlanInv
<1>3. ASSUME final # "absent", NEW j \in 1..Len(kinds) - 1 PROVE plan'[j] = "completed"
  <2>1. plan[j] = "completed" /\ j \in 1..Len(kinds)
    BY <1>2, <1>3 DEF PlanInv, FinalInv, FinalPlace
  <2> QED
    BY <1>1, <2>1
<1>4. plan'[Len(kinds)] = "completed" => final = "completed"
  <2>1. CASE i = Len(kinds)
    BY <1>1, <2>1
  <2>2. CASE i # Len(kinds)
    <3>1. plan'[Len(kinds)] = plan[Len(kinds)]
      BY <1>1, <1>2, <2>2
    <3> QED
      BY <1>1, <3>1 DEF PlanInv, FinalInv, FinalPlace
  <2> QED
    BY <2>1, <2>2
<1> QED
  BY <1>1, <1>3, <1>4 DEF FinalPlace

LEMMA FinalPlaceKept ==
  ASSUME PlanInv, Next
  PROVE  FinalPlace'
<1>1. CASE UNCHANGED <<kinds, plan, final>>
  <2>1. rec' = rec \/ ses.pc # "closed"
    BY DEF Next, Open, ExecuteNextTool, Record, ExecuteFinalResponse, Reconcile,
      OpenPlan, OpenTree, OpenRecord, OpenDesktop, PrepareNext, TreeStart, PlanStart, RepairStart,
      BoundaryRefuses, BoundaryWrite, BoundaryCall, BoundaryComplete, PlanTarget, TreeFinish,
      RecordTrace, RecordCheckpoint, Shutdown, PrepareFinal, TreeStartFinal, FinalCreate,
      FinalStart, FinalIntent, FinalCall, FinalComplete, FinalFinish, TreeFinishFinal, RepairFinal,
      Cancel, TreeCancel, PreserveAndClose, Crash, ReconcileObservation, ReconcileFromPlan,
      ReconcileFinal, ReconcileFinalSuccess
  <2>2. rec' = rec \/ plan # <<>>
    BY <2>1 DEF PlanInv, SessionInv
  <2> QED
    BY <1>1, <2>2, FinalPlaceStays
<1>2. CASE OpenPlan
  <2>1. /\ plan = <<>> /\ UNCHANGED <<kinds, final, rec>>
        /\ plan' = plan \/ (plan' # <<>> /\ \A j \in 1..Len(kinds) : plan'[j] = "pending")
    BY <1>2, OpenPlanEffect
  <2>2. Len(kinds) \in Nat \ {0} /\ final = "absent"
    BY <2>1, PlanFacts DEF PlanInv, FinalInv, FinalPlace
  <2>3. CASE plan' = plan
    BY <1>1, <2>1, <2>3
  <2>4. CASE plan' # <<>> /\ \A j \in 1..Len(kinds) : plan'[j] = "pending"
    <3>1. plan'[Len(kinds)] = "pending"
      BY <2>2, <2>4
    <3> QED
      BY <2>1, <2>2, <2>4, <3>1 DEF FinalPlace
  <2> QED
    BY <2>1, <2>3, <2>4
<1>3. CASE PlanStart \/ FinalStart
  <2>1. /\ UNCHANGED <<kinds, final>>
        /\ plan' = plan \/ Advance(plan, plan', ses.step, "in_progress")
    BY <1>3, PlanStartEffect, FinalStartEffect
  <2> QED
    BY <1>1, <2>1, FinalPlaceMoves
<1>4. CASE PlanTarget
  <2>1. /\ UNCHANGED <<kinds, final>> /\ ses.pc = "planTarget"
        /\ plan' = plan \/ Advance(plan, plan', ses.step, ses.goal)
    BY <1>4, PlanTargetEffect
  <2>2. ses.step # Len(kinds)
    BY <2>1, HoldsAStep DEF InTool, Held
  <2> QED
    BY <1>1, <2>1, <2>2, FinalPlaceMoves
<1>5. CASE FinalFinish
  <2>1. /\ UNCHANGED <<kinds, final>> /\ ses.pc = "finalFinish"
        /\ plan' = plan \/ Advance(plan, plan', ses.step, "completed")
    BY <1>5, FinalFinishEffect
  <2>2. final = "completed"
    BY <2>1 DEF PlanInv, FinalInv, FinalStage
  <2> QED
    BY <1>1, <2>1, <2>2, FinalPlaceMoves
<1>6. CASE Cancel
  <2>1. PICK i : i = NextStep(plan)
    OBVIOUS
  <2>2. /\ UNCHANGED <<kinds, final>>
        /\ plan' = plan \/ Advance(plan, plan', i, "cancelled")
    BY <1>6, <2>1, CancelEffect
  <2> QED
    BY <1>1, <2>2, FinalPlaceMoves
<1>7. CASE ReconcileObservation
  <2>1. PICK goal : goal = IF cont.result = "success" THEN "completed" ELSE "failed"
    OBVIOUS
  <2>2. /\ UNCHANGED <<kinds, final>> /\ cont.stage = "completed"
        /\ Advance(plan, plan', cont.step, goal)
    BY <1>7, <2>1, ReconcileObservationEffect
  <2>3. cont.step # Len(kinds)
    BY <2>2 DEF PlanInv, LedgerInv
  <2> QED
    BY <2>2, <2>3, FinalPlaceMoves
<1>8. CASE ReconcileFinal
  <2>1. /\ UNCHANGED <<kinds, final>> /\ final = "completed"
        /\ plan' = plan \/ Advance(plan, plan', Len(kinds), "completed")
    BY <1>8, ReconcileFinalEffect
  <2> QED
    BY <1>1, <2>1, FinalPlaceMoves
<1>9. CASE FinalCreate
  <2>1. /\ ses.pc = "finalCreate" /\ UNCHANGED <<kinds, plan, rec>>
        /\ final' = final \/ final' = "prepared"
    BY <1>9, FinalCreateEffect
  <2>2. PICK last : last = Len(kinds)
    OBVIOUS
  <2>3. /\ plan # <<>> /\ last = NextStep(plan) /\ plan[last] = "pending"
    BY <2>1, <2>2, HoldsAStep DEF PlanInv, SessionInv, InFinal, Before
  <2>4. plan \in Seq(StepStatuses) /\ InOrder(plan)
    BY PlanFacts DEF PlanInv, PlanFields, PlanStatuses
  <2>5. \A j \in 1..last - 1 : plan[j] = "completed"
    BY <2>3, <2>4, NextIs DEF First
  <2> QED
    BY <2>1, <2>2, <2>3, <2>5, FinalPlaceStays
<1>10. CASE FinalIntent
  <2>1. /\ ses.pc = "finalIntent" /\ UNCHANGED <<kinds, plan, rec>>
        /\ final' = final \/ final' = "dispatch_intent"
    BY <1>10, FinalIntentEffect
  <2>2. plan # <<>> /\ plan[Len(kinds)] = "in_progress" /\ final = "prepared"
    BY <2>1, HoldsAStep DEF PlanInv, SessionInv, InFinal, Asking, FinalInv, FinalStage
  <2>3. \A j \in 1..Len(kinds) - 1 : plan[j] = "completed"
    BY <2>2 DEF PlanInv, FinalInv, FinalPlace
  <2> QED
    BY <2>1, <2>2, <2>3, FinalPlaceStays
<1>11. CASE FinalComplete
  <2>1. /\ ses.pc = "finalComplete" /\ UNCHANGED <<kinds, plan, rec>>
        /\ final' = final \/ final' = "completed"
    BY <1>11, FinalCompleteEffect
  <2>2. plan # <<>> /\ plan[Len(kinds)] = "in_progress" /\ final = "dispatch_intent"
    BY <2>1, HoldsAStep DEF PlanInv, SessionInv, InFinal, Asking, FinalInv, FinalStage
  <2>3. \A j \in 1..Len(kinds) - 1 : plan[j] = "completed"
    BY <2>2 DEF PlanInv, FinalInv, FinalPlace
  <2> QED
    BY <2>1, <2>2, <2>3, FinalPlaceStays
<1> QED
  <2>1. \/ OpenPlan \/ PlanStart \/ FinalStart \/ PlanTarget \/ FinalFinish \/ Cancel
        \/ ReconcileObservation \/ ReconcileFinal \/ FinalCreate \/ FinalIntent \/ FinalComplete
        \/ UNCHANGED <<kinds, plan, final>>
    BY DEF Next, Open, ExecuteNextTool, Record, ExecuteFinalResponse, Reconcile,
      OpenTree, OpenRecord, OpenDesktop, PrepareNext, TreeStart, RepairStart, BoundaryRefuses,
      BoundaryWrite, BoundaryCall, BoundaryComplete, TreeFinish, RecordTrace, RecordCheckpoint,
      Shutdown, PrepareFinal, TreeStartFinal, FinalCall, TreeFinishFinal,
      RepairFinal, TreeCancel, PreserveAndClose, Crash, ReconcileFromPlan, ReconcileFinalSuccess
  <2> QED
    BY <1>1, <1>2, <1>3, <1>4, <1>5, <1>6, <1>7, <1>8, <1>9, <1>10, <1>11, <2>1

-----------------------------------------------------------------------------
(* What is recorded of the final response.                                 *)
LEMMA LastIsLast ==
  ASSUME PlanInv, NEW new, NEW i, NEW goal, Advance(plan, new, i, goal)
  PROVE  plan[Len(kinds)] # "completed"
<1>1. /\ i \in 1..Len(kinds) /\ plan[i] # "completed"
      /\ \A j \in i + 1..Len(kinds) : plan[j] = "pending"
  BY DEF Advance
<1>2. Len(kinds) \in Nat
  BY PlanFacts DEF PlanInv
<1>3. CASE i = Len(kinds)
  BY <1>1, <1>3
<1>4. CASE i # Len(kinds)
  <2>1. Len(kinds) \in i + 1..Len(kinds)
    BY <1>1, <1>2, <1>4
  <2> QED
    BY <1>1, <2>1
<1> QED
  BY <1>3, <1>4

LEMMA AnsweredSteps ==
  ASSUME PlanInv, final = "completed", NEW i \in 1..Len(kinds), plan[i] \in {"pending", "cancelled"}
  PROVE  FALSE
<1>1. plan # <<>> /\ ResultsOf(Len(kinds)) = {"success"}
      /\ \A j \in 1..Len(kinds) - 1 : plan[j] = "completed"
  BY DEF PlanInv, FinalInv, FinalPlace, FinalSent
<1>2. Len(kinds) \in Nat
  BY PlanFacts DEF PlanInv
<1>3. i = Len(kinds)
  BY <1>1, <1>2
<1> QED
  BY <1>1, <1>3 DEF PlanInv, SentInv, Delivered

LEMMA ReportedKept ==
  ASSUME PlanInv, Next
  PROVE  Reported'
<1>1. CASE OpenPlan
  BY <1>1, OpenPlanEffect DEF PlanInv, RecordInv, Reported, Remembers
<1>2. CASE OpenTree
  BY <1>2, OpenTreeEffect DEF PlanInv, RecordInv, Reported, Remembers
<1>3. CASE OpenRecord
  BY <1>3, OpenRecordEffect DEF PlanInv, RecordInv, Reported, Remembers
<1>4. CASE OpenDesktop
  BY <1>4, OpenDesktopEffect DEF PlanInv, RecordInv, Reported, Remembers
<1>5. CASE PrepareNext
  BY <1>5, PrepareNextEffect DEF PlanInv, RecordInv, Reported, Remembers
<1>6. CASE TreeStart
  BY <1>6, StartStepEffect DEF PlanInv, RecordInv, Reported, Remembers
<1>7. CASE PlanStart
  BY <1>7, PlanStartEffect DEF PlanInv, RecordInv, Reported, Remembers
<1>8. CASE RepairStart
  BY <1>8, RepairStartEffect DEF PlanInv, RecordInv, Reported, Remembers
<1>9. CASE BoundaryRefuses
  BY <1>9, BoundaryRefusesEffect DEF PlanInv, RecordInv, Reported, Remembers
<1>10. CASE BoundaryWrite("boundary", "prepared", "dispatch")
  BY <1>10, FirstWrite DEF PlanInv, RecordInv, Reported, Remembers
<1>11. CASE BoundaryWrite("dispatch", "dispatched", "call")
  BY <1>11, SecondWrite DEF PlanInv, RecordInv, Reported, Remembers
<1>12. CASE BoundaryCall
  BY <1>12, BoundaryCallEffect DEF PlanInv, RecordInv, Reported, Remembers
<1>13. CASE BoundaryComplete
  BY <1>13, BoundaryCompleteEffect DEF PlanInv, RecordInv, Reported, Remembers
<1>14. CASE PlanTarget
  BY <1>14, PlanTargetEffect DEF PlanInv, RecordInv, Reported, Remembers
<1>15. CASE TreeFinish
  BY <1>15, TreeFinishEffect DEF PlanInv, RecordInv, Reported, Remembers
<1>16. CASE RecordTrace
  BY <1>16, RecordTraceEffect DEF PlanInv, RecordInv, Reported, Remembers
<1>17. CASE RecordCheckpoint
  BY <1>17, RecordCheckpointEffect DEF PlanInv, RecordInv, Reported, Remembers
<1>18. CASE Shutdown
  BY <1>18, ShutdownEffect DEF PlanInv, RecordInv, Reported, Remembers
<1>19. CASE PrepareFinal
  BY <1>19, PrepareFinalEffect DEF PlanInv, RecordInv, Reported, Remembers
<1>20. CASE TreeStartFinal
  BY <1>20, StartStepEffect DEF PlanInv, RecordInv, Reported, Remembers
<1>21. CASE FinalCreate
  BY <1>21, FinalCreateEffect DEF PlanInv, RecordInv, Reported, Remembers
<1>22. CASE FinalStart
  BY <1>22, FinalStartEffect DEF PlanInv, RecordInv, Reported, Remembers
<1>23. CASE FinalIntent
  BY <1>23, FinalIntentEffect DEF PlanInv, RecordInv, Reported, Remembers
<1>24. CASE FinalCall
  BY <1>24, FinalCallEffect DEF PlanInv, RecordInv, Reported, Remembers
<1>25. CASE FinalComplete
  BY <1>25, FinalCompleteEffect DEF PlanInv, RecordInv, Reported, Remembers
<1>26. CASE FinalFinish
  <2>1. /\ ses.pc = "finalFinish" /\ kinds' = kinds
        /\ \/ /\ Advance(plan, plan', ses.step, "completed")
              /\ ses'.note[1] = "SUCCESS" /\ ses'.pc \in {"treeFinishFinal", "record"}
           \/ ses'.note = ses.note /\ ses'.pc = "repairFinal"
    BY <1>26, FinalFinishEffect
  <2>2. ses.note[1] # "SUCCESS"
    BY <2>1 DEF PlanInv, RecordInv, Reported
  <2>3. ses.step = Len(kinds)
    BY <2>1, HoldsAStep DEF InFinal, Asking
  <2>4. Advance(plan, plan', ses.step, "completed") => plan'[Len(kinds)] = "completed"
    BY <2>3 DEF Advance
  <2> QED
    BY <2>1, <2>2, <2>4 DEF Reported
<1>27. CASE TreeFinishFinal
  BY <1>27, TreeFinishFinalEffect DEF PlanInv, RecordInv, Reported, Remembers
<1>28. CASE RepairFinal
  BY <1>28, RepairFinalEffect DEF PlanInv, RecordInv, Reported, Remembers
<1>29. CASE Cancel
  BY <1>29, CancelEffect DEF PlanInv, RecordInv, Reported, Remembers
<1>30. CASE TreeCancel
  BY <1>30, TreeCancelEffect DEF PlanInv, RecordInv, Reported, Remembers
<1>31. CASE PreserveAndClose
  BY <1>31, PreserveEffect DEF PlanInv, RecordInv, Reported, Remembers
<1>32. CASE Crash
  BY <1>32, CrashEffect DEF PlanInv, RecordInv, Reported, Remembers
<1>33. CASE ReconcileObservation
  BY <1>33, ReconcileObservationEffect DEF PlanInv, RecordInv, Reported, Remembers
<1>34. CASE ReconcileFromPlan
  BY <1>34, ReconcileFromPlanEffect DEF PlanInv, RecordInv, Reported, Remembers
<1>35. CASE ReconcileFinal
  BY <1>35, ReconcileFinalEffect DEF PlanInv, RecordInv, Reported, Remembers
<1>36. CASE ReconcileFinalSuccess
  BY <1>36, ReconcileFinalSuccessEffect DEF PlanInv, RecordInv, Reported, Remembers
<1> QED
  BY <1>1, <1>2, <1>3, <1>4, <1>5, <1>6, <1>7, <1>8, <1>9, <1>10, <1>11, <1>12, <1>13, <1>14,
    <1>15, <1>16, <1>17, <1>18, <1>19, <1>20, <1>21, <1>22, <1>23, <1>24, <1>25, <1>26, <1>27,
    <1>28, <1>29, <1>30, <1>31, <1>32, <1>33, <1>34, <1>35, <1>36
  DEF Next, Open, ExecuteNextTool, Record, ExecuteFinalResponse, Reconcile

LEMMA RecordedKept ==
  ASSUME PlanInv, Next
  PROVE  Recorded'
<1>1. CASE OpenPlan
  BY <1>1, OpenPlanEffect DEF PlanInv, RecordInv, Recorded, FinalInv, FinalPlace
<1>2. CASE OpenTree
  BY <1>2, OpenTreeEffect DEF PlanInv, RecordInv, Recorded
<1>3. CASE OpenRecord
  BY <1>3, OpenRecordEffect DEF PlanInv, RecordInv, Recorded
<1>4. CASE OpenDesktop
  BY <1>4, OpenDesktopEffect DEF PlanInv, RecordInv, Recorded
<1>5. CASE PrepareNext
  BY <1>5, PrepareNextEffect DEF PlanInv, RecordInv, Recorded
<1>6. CASE TreeStart
  BY <1>6, StartStepEffect DEF PlanInv, RecordInv, Recorded
<1>7. CASE PlanStart
  BY <1>7, PlanStartEffect DEF PlanInv, RecordInv, Recorded
<1>8. CASE RepairStart
  BY <1>8, RepairStartEffect DEF PlanInv, RecordInv, Recorded
<1>9. CASE BoundaryRefuses
  BY <1>9, BoundaryRefusesEffect DEF PlanInv, RecordInv, Recorded
<1>10. CASE BoundaryWrite("boundary", "prepared", "dispatch")
  BY <1>10, FirstWrite DEF PlanInv, RecordInv, Recorded
<1>11. CASE BoundaryWrite("dispatch", "dispatched", "call")
  BY <1>11, SecondWrite DEF PlanInv, RecordInv, Recorded
<1>12. CASE BoundaryCall
  BY <1>12, BoundaryCallEffect DEF PlanInv, RecordInv, Recorded
<1>13. CASE BoundaryComplete
  BY <1>13, BoundaryCompleteEffect DEF PlanInv, RecordInv, Recorded
<1>14. CASE PlanTarget
  BY <1>14, PlanTargetEffect DEF PlanInv, RecordInv, Recorded
<1>15. CASE TreeFinish
  BY <1>15, TreeFinishEffect DEF PlanInv, RecordInv, Recorded
<1>16. CASE RecordTrace
  BY <1>16, RecordTraceEffect DEF PlanInv, RecordInv, Recorded
<1>17. CASE RecordCheckpoint
  BY <1>17, RecordCheckpointEffect DEF PlanInv, RecordInv, Recorded, Reported
<1>18. CASE Shutdown
  BY <1>18, ShutdownEffect DEF PlanInv, RecordInv, Recorded
<1>19. CASE PrepareFinal
  BY <1>19, PrepareFinalEffect DEF PlanInv, RecordInv, Recorded
<1>20. CASE TreeStartFinal
  BY <1>20, StartStepEffect DEF PlanInv, RecordInv, Recorded
<1>21. CASE FinalCreate
  BY <1>21, FinalCreateEffect DEF PlanInv, RecordInv, Recorded
<1>22. CASE FinalStart
  BY <1>22, FinalStartEffect DEF PlanInv, RecordInv, Recorded
<1>23. CASE FinalIntent
  BY <1>23, FinalIntentEffect DEF PlanInv, RecordInv, Recorded
<1>24. CASE FinalCall
  BY <1>24, FinalCallEffect DEF PlanInv, RecordInv, Recorded
<1>25. CASE FinalComplete
  BY <1>25, FinalCompleteEffect DEF PlanInv, RecordInv, Recorded
<1>26. CASE FinalFinish
  BY <1>26, FinalFinishEffect DEF PlanInv, RecordInv, Recorded
<1>27. CASE TreeFinishFinal
  BY <1>27, TreeFinishFinalEffect DEF PlanInv, RecordInv, Recorded
<1>28. CASE RepairFinal
  BY <1>28, RepairFinalEffect DEF PlanInv, RecordInv, Recorded
<1>29. CASE Cancel
  BY <1>29, CancelEffect DEF PlanInv, RecordInv, Recorded
<1>30. CASE TreeCancel
  BY <1>30, TreeCancelEffect DEF PlanInv, RecordInv, Recorded
<1>31. CASE PreserveAndClose
  BY <1>31, PreserveEffect DEF PlanInv, RecordInv, Recorded
<1>32. CASE Crash
  BY <1>32, CrashEffect DEF PlanInv, RecordInv, Recorded
<1>33. CASE ReconcileObservation
  <2>1. /\ rec' = rec
        /\ \/ Advance(plan, plan', cont.step, "completed")
           \/ Advance(plan, plan', cont.step, "failed")
    BY <1>33, ReconcileObservationEffect
  <2>2. plan[Len(kinds)] # "completed"
    BY <2>1, LastIsLast
  <2> QED
    BY <2>1, <2>2 DEF PlanInv, RecordInv, Recorded
<1>34. CASE ReconcileFromPlan
  BY <1>34, ReconcileFromPlanEffect DEF PlanInv, RecordInv, Recorded
<1>35. CASE ReconcileFinal
  <2>1. /\ ses.pc = "closed" /\ rec' = rec /\ kinds' = kinds
        /\ plan' = plan \/ plan[Len(kinds)] = "in_progress"
        /\ ses' = ses \/ ses'.pc = "reconciled" \/ rec.phase # "SUCCESS"
    BY <1>35, ReconcileFinalEffect
  <2> QED
    BY <2>1 DEF PlanInv, RecordInv, Recorded
<1>36. CASE ReconcileFinalSuccess
  <2>1. /\ UNCHANGED <<kinds, plan>>
        /\ \/ rec'.phase = rec.phase /\ ses.pc = "reconcile"
           \/ ses.pc = "reconciled_trace" /\ ses'.pc = "reconciled"
           \/ rec' = rec /\ ses.pc = "reconciled" /\ ses'.pc = "closed"
    BY <1>36, ReconcileFinalSuccessEffect
  <2>2. ses.pc = "reconciled_trace" => plan[Len(kinds)] = "completed"
    BY DEF PlanInv, SessionInv, Settling
  <2> QED
    BY <2>1, <2>2 DEF PlanInv, RecordInv, Recorded
<1> QED
  BY <1>1, <1>2, <1>3, <1>4, <1>5, <1>6, <1>7, <1>8, <1>9, <1>10, <1>11, <1>12, <1>13, <1>14,
    <1>15, <1>16, <1>17, <1>18, <1>19, <1>20, <1>21, <1>22, <1>23, <1>24, <1>25, <1>26, <1>27,
    <1>28, <1>29, <1>30, <1>31, <1>32, <1>33, <1>34, <1>35, <1>36
  DEF Next, Open, ExecuteNextTool, Record, ExecuteFinalResponse, Reconcile

LEMMA ReportingKept ==
  ASSUME PlanInv, Next
  PROVE  Reporting'
<1>1. CASE OpenPlan
  BY <1>1, OpenPlanEffect DEF PlanInv, RecordInv, Reporting, Remembers
<1>2. CASE OpenTree
  BY <1>2, OpenTreeEffect DEF PlanInv, RecordInv, Reporting, Remembers
<1>3. CASE OpenRecord
  BY <1>3, OpenRecordEffect DEF PlanInv, RecordInv, Reporting, Remembers
<1>4. CASE OpenDesktop
  BY <1>4, OpenDesktopEffect DEF PlanInv, RecordInv, Reporting, Remembers
<1>5. CASE PrepareNext
  BY <1>5, PrepareNextEffect DEF PlanInv, RecordInv, Reporting, Remembers
<1>6. CASE TreeStart
  <2>1. /\ plan[ses.step] = "pending" /\ final' = final
        /\ ses.pc \in {"treeStart", "treeStartFinal"}
        /\ ses'.pc \in {"planStart", "finalCreate", "record"}
    BY <1>6, StartStepEffect
  <2>2. ses.step \in 1..Len(kinds)
    BY <2>1, HoldsAStep DEF InTool, InFinal, Before
  <2>3. final # "completed"
    BY <2>1, <2>2, AnsweredSteps
  <2> QED
    BY <2>1, <2>3 DEF Reporting
<1>7. CASE PlanStart
  BY <1>7, PlanStartEffect DEF PlanInv, RecordInv, Reporting, Remembers
<1>8. CASE RepairStart
  BY <1>8, RepairStartEffect DEF PlanInv, FinalInv, FinalStage, InTool, Held, Reporting
<1>9. CASE BoundaryRefuses
  BY <1>9, BoundaryRefusesEffect DEF PlanInv, FinalInv, FinalStage, InTool, Held, Reporting
<1>10. CASE BoundaryWrite("boundary", "prepared", "dispatch")
  BY <1>10, FirstWrite DEF PlanInv, FinalInv, FinalStage, InTool, Held, Reporting
<1>11. CASE BoundaryWrite("dispatch", "dispatched", "call")
  BY <1>11, SecondWrite DEF PlanInv, FinalInv, FinalStage, InTool, Held, Reporting
<1>12. CASE BoundaryCall
  BY <1>12, BoundaryCallEffect DEF PlanInv, FinalInv, FinalStage, InTool, Held, Reporting
<1>13. CASE BoundaryComplete
  BY <1>13, BoundaryCompleteEffect DEF PlanInv, FinalInv, FinalStage, InTool, Held, Reporting
<1>14. CASE PlanTarget
  BY <1>14, PlanTargetEffect DEF PlanInv, FinalInv, FinalStage, InTool, Held, Reporting
<1>15. CASE TreeFinish
  BY <1>15, TreeFinishEffect DEF PlanInv, FinalInv, FinalStage, InTool, Held, Reporting
<1>16. CASE RecordTrace
  BY <1>16, RecordTraceEffect DEF PlanInv, RecordInv, Reporting, Remembers
<1>17. CASE RecordCheckpoint
  BY <1>17, RecordCheckpointEffect DEF PlanInv, RecordInv, Reporting, Remembers
<1>18. CASE Shutdown
  BY <1>18, ShutdownEffect DEF PlanInv, RecordInv, Reporting, Remembers
<1>19. CASE PrepareFinal
  BY <1>19, PrepareFinalEffect DEF PlanInv, RecordInv, Reporting, Remembers
<1>20. CASE TreeStartFinal
  <2>1. /\ plan[ses.step] = "pending" /\ final' = final
        /\ ses.pc \in {"treeStart", "treeStartFinal"}
        /\ ses'.pc \in {"planStart", "finalCreate", "record"}
    BY <1>20, StartStepEffect
  <2>2. ses.step \in 1..Len(kinds)
    BY <2>1, HoldsAStep DEF InTool, InFinal, Before
  <2>3. final # "completed"
    BY <2>1, <2>2, AnsweredSteps
  <2> QED
    BY <2>1, <2>3 DEF Reporting
<1>21. CASE FinalCreate
  BY <1>21, FinalCreateEffect DEF PlanInv, RecordInv, Reporting, Remembers
<1>22. CASE FinalStart
  BY <1>22, FinalStartEffect DEF PlanInv, RecordInv, Reporting, Remembers
<1>23. CASE FinalIntent
  BY <1>23, FinalIntentEffect DEF PlanInv, RecordInv, Reporting, Remembers
<1>24. CASE FinalCall
  BY <1>24, FinalCallEffect DEF PlanInv, RecordInv, Reporting, Remembers
<1>25. CASE FinalComplete
  BY <1>25, FinalCompleteEffect DEF PlanInv, RecordInv, Reporting, Remembers
<1>26. CASE FinalFinish
  BY <1>26, FinalFinishEffect DEF PlanInv, RecordInv, Reporting, Remembers
<1>27. CASE TreeFinishFinal
  BY <1>27, TreeFinishFinalEffect DEF PlanInv, RecordInv, Reported, Reporting
<1>28. CASE RepairFinal
  BY <1>28, RepairFinalEffect DEF PlanInv, RecordInv, Reporting, Remembers
<1>29. CASE Cancel
  <2>1. PICK i : i = NextStep(plan)
    OBVIOUS
  <2>2. /\ plan[i] = "pending" /\ plan # <<>> /\ final' = final /\ ses.pc = "idle"
        /\ Advance(plan, plan', i, "cancelled") \/ ses' = ses
    BY <1>29, <2>1, CancelEffect
  <2>3. CASE Advance(plan, plan', i, "cancelled")
    <3>1. i \in 1..Len(kinds)
      BY <2>3 DEF Advance
    <3>2. final # "completed"
      BY <2>2, <3>1, AnsweredSteps
    <3> QED
      BY <2>2, <3>2 DEF Reporting
  <2> QED
    BY <2>2, <2>3 DEF Reporting
<1>30. CASE TreeCancel
  <2>1. ses.pc = "treeCancel" /\ plan[ses.step] = "cancelled" /\ final' = final
    BY <1>30, TreeCancelEffect
  <2>2. ses.step \in 1..Len(kinds)
    BY <2>1, PlanFacts DEF PlanInv, SessionInv
  <2>3. final # "completed"
    BY <2>1, <2>2, AnsweredSteps
  <2> QED
    BY <2>1, <2>3 DEF Reporting
<1>31. CASE PreserveAndClose
  BY <1>31, PreserveEffect DEF PlanInv, RecordInv, Reporting, Remembers
<1>32. CASE Crash
  BY <1>32, CrashEffect DEF PlanInv, RecordInv, Reporting, Remembers
<1>33. CASE ReconcileObservation
  BY <1>33, ReconcileObservationEffect DEF PlanInv, RecordInv, Reporting, Remembers
<1>34. CASE ReconcileFromPlan
  BY <1>34, ReconcileFromPlanEffect DEF PlanInv, RecordInv, Reporting, Remembers
<1>35. CASE ReconcileFinal
  BY <1>35, ReconcileFinalEffect DEF PlanInv, RecordInv, Reporting, Remembers
<1>36. CASE ReconcileFinalSuccess
  BY <1>36, ReconcileFinalSuccessEffect DEF PlanInv, RecordInv, Reporting, Remembers
<1> QED
  BY <1>1, <1>2, <1>3, <1>4, <1>5, <1>6, <1>7, <1>8, <1>9, <1>10, <1>11, <1>12, <1>13, <1>14,
    <1>15, <1>16, <1>17, <1>18, <1>19, <1>20, <1>21, <1>22, <1>23, <1>24, <1>25, <1>26, <1>27,
    <1>28, <1>29, <1>30, <1>31, <1>32, <1>33, <1>34, <1>35, <1>36
  DEF Next, Open, ExecuteNextTool, Record, ExecuteFinalResponse, Reconcile

LEMMA PreservedKept ==
  ASSUME PlanInv, Next
  PROVE  Preserved'
<1>1. CASE OpenPlan
  BY <1>1, OpenPlanEffect DEF PlanInv, RecordInv, Preserved, Recorded, FinalInv, FinalStage,
    Opening, InTool, Held
<1>2. CASE OpenTree
  BY <1>2, OpenTreeEffect DEF PlanInv, RecordInv, Preserved, Recorded, FinalInv, FinalStage,
    Opening, InTool, Held
<1>3. CASE OpenRecord
  BY <1>3, OpenRecordEffect DEF PlanInv, RecordInv, Preserved, Recorded, FinalInv, FinalStage,
    Opening, InTool, Held
<1>4. CASE OpenDesktop
  BY <1>4, OpenDesktopEffect DEF PlanInv, RecordInv, Preserved, Recorded, FinalInv, FinalStage,
    Opening, InTool, Held
<1>5. CASE PrepareNext
  BY <1>5, PrepareNextEffect DEF PlanInv, RecordInv, Preserved, Recorded, FinalInv, FinalStage,
    Opening, InTool, Held
<1>6. CASE TreeStart
  BY <1>6, StartStepEffect DEF PlanInv, RecordInv, Preserved, Recorded, FinalInv, FinalStage,
    Opening, InTool, Held
<1>7. CASE PlanStart
  BY <1>7, PlanStartEffect DEF PlanInv, RecordInv, Preserved, Recorded, FinalInv, FinalStage,
    Opening, InTool, Held
<1>8. CASE RepairStart
  BY <1>8, RepairStartEffect DEF PlanInv, RecordInv, Preserved, Recorded, FinalInv, FinalStage,
    Opening, InTool, Held
<1>9. CASE BoundaryRefuses
  BY <1>9, BoundaryRefusesEffect DEF PlanInv, RecordInv, Preserved, Recorded, FinalInv,
    FinalStage, Opening, InTool, Held
<1>10. CASE BoundaryWrite("boundary", "prepared", "dispatch")
  BY <1>10, FirstWrite DEF PlanInv, RecordInv, Preserved, Recorded, FinalInv, FinalStage,
    Opening, InTool, Held
<1>11. CASE BoundaryWrite("dispatch", "dispatched", "call")
  BY <1>11, SecondWrite DEF PlanInv, RecordInv, Preserved, Recorded, FinalInv, FinalStage,
    Opening, InTool, Held
<1>12. CASE BoundaryCall
  BY <1>12, BoundaryCallEffect DEF PlanInv, RecordInv, Preserved, Recorded, FinalInv,
    FinalStage, Opening, InTool, Held
<1>13. CASE BoundaryComplete
  BY <1>13, BoundaryCompleteEffect DEF PlanInv, RecordInv, Preserved, Recorded, FinalInv,
    FinalStage, Opening, InTool, Held
<1>14. CASE PlanTarget
  BY <1>14, PlanTargetEffect DEF PlanInv, RecordInv, Preserved, Recorded, FinalInv, FinalStage,
    Opening, InTool, Held
<1>15. CASE TreeFinish
  BY <1>15, TreeFinishEffect DEF PlanInv, RecordInv, Preserved, Recorded, FinalInv, FinalStage,
    Opening, InTool, Held
<1>16. CASE RecordTrace
  BY <1>16, RecordTraceEffect DEF PlanInv, RecordInv, Preserved, Recorded, FinalInv, FinalStage,
    Opening, InTool, Held
<1>17. CASE RecordCheckpoint
  BY <1>17, RecordCheckpointEffect DEF PlanInv, RecordInv, Preserved, Recorded, FinalInv,
    FinalStage, Opening, InTool, Held
<1>18. CASE Shutdown
  BY <1>18, ShutdownEffect DEF PlanInv, RecordInv, Preserved, Reporting
<1>19. CASE PrepareFinal
  BY <1>19, PrepareFinalEffect DEF PlanInv, RecordInv, Preserved, Recorded, FinalInv,
    FinalStage, Opening, InTool, Held
<1>20. CASE TreeStartFinal
  BY <1>20, StartStepEffect DEF PlanInv, RecordInv, Preserved, Recorded, FinalInv, FinalStage,
    Opening, InTool, Held
<1>21. CASE FinalCreate
  BY <1>21, FinalCreateEffect DEF PlanInv, RecordInv, Preserved, Recorded, FinalInv, FinalStage,
    Opening, InTool, Held
<1>22. CASE FinalStart
  BY <1>22, FinalStartEffect DEF PlanInv, RecordInv, Preserved, Recorded, FinalInv, FinalStage,
    Opening, InTool, Held
<1>23. CASE FinalIntent
  BY <1>23, FinalIntentEffect DEF PlanInv, RecordInv, Preserved, Recorded, FinalInv, FinalStage,
    Opening, InTool, Held
<1>24. CASE FinalCall
  BY <1>24, FinalCallEffect DEF PlanInv, RecordInv, Preserved, Recorded, FinalInv, FinalStage,
    Opening, InTool, Held
<1>25. CASE FinalComplete
  BY <1>25, FinalCompleteEffect DEF PlanInv, RecordInv, Preserved, LedgerInv, InFinal, Asking
<1>26. CASE FinalFinish
  BY <1>26, FinalFinishEffect DEF PlanInv, RecordInv, Preserved, Recorded, FinalInv, FinalStage,
    Opening, InTool, Held
<1>27. CASE TreeFinishFinal
  BY <1>27, TreeFinishFinalEffect DEF PlanInv, RecordInv, Preserved, Recorded, FinalInv,
    FinalStage, Opening, InTool, Held
<1>28. CASE RepairFinal
  BY <1>28, RepairFinalEffect DEF PlanInv, RecordInv, Preserved, Recorded, FinalInv, FinalStage,
    Opening, InTool, Held
<1>29. CASE Cancel
  BY <1>29, CancelEffect DEF PlanInv, RecordInv, Preserved, Recorded, FinalInv, FinalStage,
    Opening, InTool, Held
<1>30. CASE TreeCancel
  BY <1>30, TreeCancelEffect DEF PlanInv, RecordInv, Preserved, Recorded, FinalInv, FinalStage,
    Opening, InTool, Held
<1>31. CASE PreserveAndClose
  BY <1>31, PreserveEffect DEF PlanInv, RecordInv, Preserved, Recorded, FinalInv, FinalStage,
    Opening, InTool, Held
<1>32. CASE Crash
  BY <1>32, CrashEffect DEF PlanInv, RecordInv, Preserved, Recorded, FinalInv, FinalStage,
    Opening, InTool, Held
<1>33. CASE ReconcileObservation
  BY <1>33, ReconcileObservationEffect DEF PlanInv, RecordInv, Preserved, Recorded, FinalInv,
    FinalStage, Opening, InTool, Held
<1>34. CASE ReconcileFromPlan
  BY <1>34, ReconcileFromPlanEffect DEF PlanInv, RecordInv, Preserved, Recorded, FinalInv,
    FinalStage, Opening, InTool, Held
<1>35. CASE ReconcileFinal
  BY <1>35, ReconcileFinalEffect DEF PlanInv, RecordInv, Preserved, Recorded, FinalInv,
    FinalStage, Opening, InTool, Held
<1>36. CASE ReconcileFinalSuccess
  BY <1>36, ReconcileFinalSuccessEffect DEF PlanInv, RecordInv, Preserved, Recorded, Reporting
<1> QED
  BY <1>1, <1>2, <1>3, <1>4, <1>5, <1>6, <1>7, <1>8, <1>9, <1>10, <1>11, <1>12, <1>13, <1>14,
    <1>15, <1>16, <1>17, <1>18, <1>19, <1>20, <1>21, <1>22, <1>23, <1>24, <1>25, <1>26, <1>27,
    <1>28, <1>29, <1>30, <1>31, <1>32, <1>33, <1>34, <1>35, <1>36
  DEF Next, Open, ExecuteNextTool, Record, ExecuteFinalResponse, Reconcile

-----------------------------------------------------------------------------
(* The invariant, and what it says of the records.                         *)
LEMMA PlanInvBegins ==
  ASSUME Init
  PROVE  PlanInv
<1>1. /\ kinds \in Plans /\ mode \in Modes /\ plan = <<>> /\ tree = <<>> /\ sent = <<>>
      /\ final = "absent" /\ ses = NoSession /\ cont = Absent
      /\ rec = [phase |-> "absent", code |-> "none", turn |-> FALSE, lines |-> 0]
  BY DEF Init
<1>2. Len(kinds) \in Nat \ {0} /\ DOMAIN kinds = 1..Len(kinds)
  BY <1>1, KindsFacts
<1>3. \A j : ResultsOf(j) = {}
  BY <1>1 DEF ResultsOf
<1>4. PlanStatuses
  <2>1. InOrder(<<>>)
    BY DEF InOrder, First
  <2>2. sent \in Seq([step : 1..Len(kinds), result : Results])
    BY <1>1
  <2> QED
    BY <1>1, <2>1, <2>2 DEF PlanStatuses
<1>5. cont = [stage |-> "absent", step |-> 0, result |-> "none"]
  BY <1>1 DEF Absent, NoBoundary
<1>6. PlanBoundary
  BY <1>2, <1>5 DEF PlanBoundary, Fields
<1>7. PICK no : no = FALSE
  OBVIOUS
<1>8. ses = [pc |-> "closed", step |-> 0, seen |-> <<>>, calls |-> 0, outstanding |-> no,
             result |-> "none", goal |-> "none", turn |-> no, note |-> <<"none", "none">>,
             keep |-> no]
  BY <1>1, <1>7 DEF NoSession
<1>9. /\ ses.pc = "closed" /\ ses.step = 0 /\ ses.calls = 0 /\ ses.turn = no /\ ses.note[1] = "none"
      /\ Fields(ses, {"pc", "step", "seen", "calls", "outstanding", "result", "goal", "turn",
                      "note", "keep"})
  BY <1>8 DEF Fields
<1>10. Session
  <2>1. ses.step \in 0..Len(kinds) /\ ses.calls \in 0..MaxSessionSteps
    BY <1>2, <1>9, PlansAssumption
  <2>2. ses.turn \in BOOLEAN
    BY <1>7, <1>9, Zenon
  <2> QED
    BY <1>9, <2>1, <2>2 DEF Session, Pcs
<1>11. Response /\ rec.phase = "absent"
  <2>1. rec = [phase |-> "absent", code |-> "none", turn |-> no, lines |-> 0]
    BY <1>1, <1>7
  <2>2. /\ rec.phase = "absent" /\ rec.turn = no /\ rec.lines = 0
        /\ Fields(rec, {"phase", "code", "turn", "lines"})
    BY <2>1 DEF Fields
  <2>3. rec.turn \in BOOLEAN
    BY <1>7, <2>2, Zenon
  <2> QED
    BY <1>1, <2>2, <2>3 DEF Response
<1>12. SessionInv
  BY <1>9 DEF SessionInv, Opening, Settling, Held, InTool, Asking, Before, InFinal
<1>13. SentInv
  BY <1>1, <1>3, <1>5, <1>9 DEF SentInv, Delivered, Underway, Remembered
<1>14. LedgerInv
  BY <1>2, <1>5, <1>9 DEF LedgerInv, Outside, Opening, Settling, Held, Asking, Before, InFinal
<1>15. TreeInv
  BY <1>1, <1>9 DEF TreeInv, TreeStands, Leaves, OneAhead, Held, Asking
<1>16. FinalInv
  BY <1>1, <1>3, <1>9, <1>11 DEF FinalInv, FinalPlace, FinalStage, FinalSent, Opening, Settling,
    Held, InTool
<1>17. RecordInv
  BY <1>1, <1>9, <1>11 DEF RecordInv, Reported, Recorded, Reporting, Preserved
<1> QED
  BY <1>4, <1>6, <1>10, <1>11, <1>12, <1>13, <1>14, <1>15, <1>16, <1>17 DEF PlanInv, PlanFields

LEMMA PlanInvStays ==
  ASSUME PlanInv, UNCHANGED vars
  PROVE  PlanInv'
<1>1. PlanFields'
  BY DEF vars, PlanInv, PlanFields, PlanStatuses, PlanBoundary, Response, Session, Fields, InOrder, First
<1>2. \A j : ResultsOf(j)' = ResultsOf(j)
  BY SameResults DEF vars
<1>3. SentInv'
  BY <1>2 DEF vars, PlanInv, SentInv, Delivered, Underway, Remembered
<1>4. FinalInv'
  BY <1>2 DEF vars, PlanInv, FinalInv, FinalPlace, FinalStage, FinalSent
<1>5. SessionInv'
  BY DEF vars, PlanInv, SessionInv, NextStep
<1>6. LedgerInv'
  BY DEF vars, PlanInv, LedgerInv, KnowsLast
<1>7. TreeInv'
  BY DEF vars, PlanInv, TreeInv, TreeStands, Leaves, OneAhead
<1>8. RecordInv'
  BY DEF vars, PlanInv, RecordInv, Reported, Recorded, Reporting, Preserved
<1> QED
  BY <1>1, <1>3, <1>4, <1>5, <1>6, <1>7, <1>8 DEF PlanInv

LEMMA PlanInvKept ==
  ASSUME PlanInv, [Next]_vars
  PROVE  PlanInv'
<1>1. CASE Next
  <2>1. PlanFields'
    BY <1>1, StatusesKept, BoundaryKept, ResponseKept, SessionKept DEF PlanFields
  <2>2. SentInv'
    BY <1>1, DeliveredKept, UnderwayKept, RememberedKept DEF SentInv
  <2>3. TreeInv'
    BY <1>1, TreeStandsKept, LeavesKept, OneAheadKept DEF TreeInv
  <2>4. FinalInv'
    BY <1>1, FinalPlaceKept, FinalStageKept, FinalSentKept DEF FinalInv
  <2>5. RecordInv'
    BY <1>1, ReportedKept, RecordedKept, ReportingKept, PreservedKept DEF RecordInv
  <2> QED
    BY <1>1, <2>1, <2>2, <2>3, <2>4, <2>5, SessionInvKept, LedgerKept DEF PlanInv
<1> QED
  BY <1>1, PlanInvStays

LEMMA PlanInvAlways == Spec => []PlanInv
<1>1. Init => PlanInv
  BY PlanInvBegins
<1>2. PlanInv /\ [Next]_vars => PlanInv'
  BY PlanInvKept
<1> QED
  BY <1>1, <1>2, PTL DEF Spec

LEMMA RecordsAgree ==
  ASSUME PlanInv
  PROVE  PlanRecordsAgree
<1>1. TypeOK
  BY DEF PlanInv, PlanFields, PlanStatuses, PlanBoundary, Response, Session, TypeOK
<1>2. Ordered(plan) /\ Ordered(tree)
  BY PlanFacts, NextIs DEF PlanInv, PlanFields, PlanStatuses
<1>3. ASSUME NEW i \in DOMAIN plan
      PROVE  CASE plan[i] = "completed" -> ResultsOf(i) = {"success"}
               [] plan[i] \in {"failed", "blocked"} -> ResultsOf(i) \subseteq {"action_error"}
               [] plan[i] \in {"pending", "cancelled"} -> ResultsOf(i) = {}
               [] OTHER -> TRUE
  <2>1. plan # <<>> /\ i \in 1..Len(kinds)
    BY <1>3, PlanFacts DEF PlanInv
  <2>2. /\ plan[i] = "completed" => ResultsOf(i) = {"success"}
        /\ plan[i] \in {"failed", "blocked"} => ResultsOf(i) \subseteq {"action_error"}
        /\ plan[i] \in {"pending", "cancelled"} => ResultsOf(i) = {}
    BY <2>1 DEF PlanInv, SentInv, Delivered
  <2> QED
    BY <2>2
<1>4. PlanHonest
  BY <1>1, <1>2, <1>3 DEF PlanHonest
<1>5. ASSUME tree # <<>>, NEW i \in DOMAIN tree
      PROVE  /\ tree[i] \in Stopped \cup {"completed"} => plan[i] = tree[i]
             /\ tree[i] = "in_progress" => \A j \in 1..i - 1 : plan[j] = "completed"
             /\ tree[i] = "pending" => plan[i] \in {"pending", "cancelled"}
  BY <1>5, PlanFacts DEF PlanInv, TreeInv, Leaves
<1>6. tree # <<>> /\ ses.pc \in {"boundary", "dispatch", "call", "complete", "finalIntent",
                                 "finalCall", "finalComplete"} => tree = plan
  BY DEF PlanInv, TreeInv, OneAhead, Held, Asking
<1>7. TreeBehindPlan
  BY <1>2, <1>5, <1>6 DEF TreeBehindPlan
<1>8. FinalOnRecord
  BY DEF PlanInv, FinalInv, FinalPlace, FinalSent, RecordInv, Recorded, Preserved, FinalOnRecord
<1> QED
  BY <1>4, <1>7, <1>8 DEF PlanRecordsAgree

(* The stored plan, its tree and the final response never say more than    *)
(* what the session did, whatever write fails or dies between two others,  *)
(* and whatever a reconciliation takes up afterwards.                      *)
THEOREM PlanSaysWhatHappened == Spec => []PlanRecordsAgree
BY PlanInvAlways, RecordsAgree, PTL

-----------------------------------------------------------------------------
(* What left the host, as the log of operations.                           *)
Issued == [n \in DOMAIN sent |-> sent[n].step]
Settled == sent = <<>> \/ plan[Last(sent).step] # "in_progress"

LEMMA SentFacts ==
  ASSUME PlanInv
  PROVE  /\ Len(sent) \in Nat /\ DOMAIN sent = 1..Len(sent)
         /\ Issued \in Seq(1..Len(kinds)) /\ Len(Issued) = Len(sent) /\ DOMAIN Issued = DOMAIN sent
         /\ \A n \in DOMAIN sent : sent[n].step \in 1..Len(kinds) /\ ResultsOf(sent[n].step) # {}
         /\ sent # <<>> => Len(sent) \in DOMAIN sent /\ Last(sent) = sent[Len(sent)]
<1>1. sent \in Seq([step : 1..Len(kinds), result : Results])
  BY DEF PlanInv, PlanFields, PlanStatuses
<1>2. /\ Len(sent) \in Nat /\ DOMAIN sent = 1..Len(sent)
      /\ \A n \in 1..Len(sent) : sent[n] \in [step : 1..Len(kinds), result : Results]
  BY <1>1, LenProperties, ElementOfSeq
<1>3. Issued \in [1..Len(sent) -> 1..Len(kinds)]
  BY <1>2 DEF Issued
<1>4. Issued \in Seq(1..Len(kinds)) /\ Len(Issued) = Len(sent)
  BY <1>2, <1>3, SequenceOf
<1>5. ASSUME NEW n \in DOMAIN sent PROVE ResultsOf(sent[n].step) # {}
  <2>1. sent[n].result \in ResultsOf(sent[n].step)
    BY <1>5 DEF ResultsOf
  <2> QED
    BY <2>1
<1>6. ASSUME sent # <<>> PROVE Len(sent) \in DOMAIN sent /\ Last(sent) = sent[Len(sent)]
  <2>1. Len(sent) # 0
    BY <1>1, <1>6, EmptySeq
  <2> QED
    BY <1>2, <2>1 DEF Last
<1> QED
  BY <1>2, <1>3, <1>4, <1>5, <1>6

(* A status moves to in_progress from pending only, and what is pending    *)
(* was never sent: nothing that was settled is unsettled.                  *)
LEMMA NothingReopened ==
  ASSUME PlanInv, Next, NEW j \in 1..Len(kinds), plan # <<>>, ResultsOf(j) # {},
         plan[j] # "in_progress"
  PROVE  plan'[j] # "in_progress"
<1>1. CASE plan' = plan
  BY <1>1
<1>2. plan[j] # "pending"
  BY DEF PlanInv, SentInv, Delivered
<1>3. ASSUME NEW i, NEW goal, Advance(plan, plan', i, goal),
             goal # "in_progress" \/ plan[i] = "pending"
      PROVE  plan'[j] # "in_progress"
  BY <1>2, <1>3 DEF Advance
<1>4. CASE OpenPlan
  BY <1>4, OpenPlanEffect
<1>5. CASE PlanStart
  BY <1>1, <1>3, <1>5, PlanStartEffect DEF PlanInv, SessionInv
<1>6. CASE PlanTarget
  <2>1. ses.goal # "in_progress"
    BY <1>6, PlanTargetEffect DEF PlanInv, SentInv, Underway
  <2> QED
    BY <1>1, <1>3, <1>6, <2>1, PlanTargetEffect
<1>7. CASE FinalStart
  BY <1>1, <1>3, <1>7, FinalStartEffect
<1>8. CASE FinalFinish
  BY <1>1, <1>3, <1>8, FinalFinishEffect
<1>9. CASE Cancel
  BY <1>1, <1>3, <1>9, CancelEffect
<1>10. CASE ReconcileObservation
  BY <1>3, <1>10, ReconcileObservationEffect
<1>11. CASE ReconcileFinal
  BY <1>1, <1>3, <1>11, ReconcileFinalEffect
<1>12. \/ OpenPlan \/ PlanStart \/ PlanTarget \/ FinalStart \/ FinalFinish \/ Cancel
       \/ ReconcileObservation \/ ReconcileFinal \/ plan' = plan
  BY DEF Next, Open, ExecuteNextTool, Record, ExecuteFinalResponse, Reconcile,
    OpenTree, OpenRecord, OpenDesktop, PrepareNext, TreeStart, RepairStart,
    BoundaryRefuses, BoundaryWrite, BoundaryCall, BoundaryComplete, TreeFinish, RecordTrace,
    RecordCheckpoint, Shutdown, PrepareFinal, TreeStartFinal, FinalCreate,
    FinalIntent, FinalCall, FinalComplete, TreeFinishFinal, RepairFinal, TreeCancel,
    PreserveAndClose, Crash, ReconcileFromPlan, ReconcileFinalSuccess
<1> QED
  BY <1>1, <1>4, <1>5, <1>6, <1>7, <1>8, <1>9, <1>10, <1>11, <1>12

(* A call is made only while its step is in progress and has no result:    *)
(* then everything sent before it is settled, and it is not among it.      *)
LEMMA CallIssues ==
  ASSUME PlanInv, PlanInv', ses.pc \in {"call", "finalCall"}, ResultsOf(ses.step) = {},
         NEW r, sent' = Append(sent, [step |-> ses.step, result |-> r]), plan' = plan
  PROVE  /\ Settled /\ ~Settled' /\ ses.step \in 1..Len(kinds)
         /\ \A n \in DOMAIN Issued : Issued[n] # ses.step
         /\ Issued' = Append(Issued, ses.step)
<1>1. plan # <<>> /\ ses.step \in 1..Len(kinds) /\ plan[ses.step] = "in_progress"
  BY HoldsAStep DEF PlanInv, SessionInv, InTool, Held, InFinal, Asking
<1>2. /\ plan \in Seq(StepStatuses) /\ InOrder(plan) /\ Len(plan) = Len(kinds) /\ Len(kinds) \in Nat
  BY <1>1, PlanFacts DEF PlanInv, PlanFields, PlanStatuses
<1>3. ASSUME NEW j \in 1..Len(kinds), plan[j] = "in_progress" PROVE j = ses.step
  <2>1. PICK k \in 1..Len(plan) + 1 :
           First(plan, k) /\ \A i \in 1..Len(plan) : i > k => plan[i] = "pending"
    BY <1>2 DEF InOrder
  <2>2. \A i \in 1..Len(kinds) : plan[i] = "in_progress" => i = k
    BY <1>2, <2>1 DEF First
  <2> QED
    BY <1>1, <1>3, <2>2
<1>4. \A n \in DOMAIN sent : sent[n].step # ses.step
  BY SentFacts
<1>5. Settled
  <2>1. CASE sent # <<>>
    <3>1. /\ Last(sent).step \in 1..Len(kinds) /\ Last(sent).step # ses.step
      BY <1>4, <2>1, SentFacts
    <3> QED
      BY <1>3, <3>1 DEF Settled
  <2> QED
    BY <2>1 DEF Settled
<1>6. PICK e : e = [step |-> ses.step, result |-> r]
  OBVIOUS
<1>7. /\ Len(sent) \in Nat /\ Len(sent') = Len(sent) + 1 /\ sent'[Len(sent) + 1] = e
      /\ \A n \in 1..Len(sent) : sent'[n] = sent[n]
      /\ DOMAIN sent = 1..Len(sent) /\ DOMAIN sent' = 1..Len(sent) + 1
  BY <1>6, SentFacts, AppendProperties DEF PlanInv, PlanFields, PlanStatuses
<1>8. ~Settled'
  <2>1. sent' # <<>>
    BY <1>7
  <2>2. Last(sent')  = e
    BY <1>7 DEF Last
  <2> QED
    BY <1>1, <1>6, <2>1, <2>2 DEF Settled
<1>9. Issued' = Append(Issued, ses.step)
  <2>1. PICK q : q = Issued'
    OBVIOUS
  <2>2. /\ DOMAIN q = 1..Len(sent) + 1 /\ q = [n \in DOMAIN q |-> q[n]]
        /\ q[Len(sent) + 1] = ses.step /\ \A n \in 1..Len(sent) : q[n] = Issued[n]
    BY <1>6, <1>7, <2>1 DEF Issued
  <2>3. /\ Issued \in Seq(1..Len(kinds)) /\ Len(Issued) = Len(sent)
    BY SentFacts
  <2>4. PICK a : a = Append(Issued, ses.step)
    OBVIOUS
  <2>5. /\ DOMAIN a = 1..Len(sent) + 1 /\ a[Len(sent) + 1] = ses.step
        /\ \A n \in 1..Len(sent) : a[n] = Issued[n]
        /\ a \in Seq(1..Len(kinds))
    BY <1>1, <1>7, <2>3, <2>4, AppendProperties
  <2>6. a = [n \in DOMAIN a |-> a[n]]
    BY <2>5
  <2>7. a = q
    BY <1>7, <2>2, <2>5, <2>6
  <2> QED
    BY <2>1, <2>4, <2>7
<1>10. \A n \in DOMAIN Issued : Issued[n] # ses.step
  BY <1>4, SentFacts DEF Issued
<1> QED
  BY <1>1, <1>5, <1>8, <1>9, <1>10

LEMMA PlanBegins ==
  ASSUME Init
  PROVE  Log!LogInit
<1>1. sent = <<>>
  BY DEF Init
<1>2. Issued = <<>>
  BY <1>1 DEF Issued
<1> QED
  BY <1>1, <1>2 DEF Log!LogInit, Issued

LEMMA StepsAreLogSteps ==
  ASSUME PlanInv, PlanInv', [Next]_vars
  PROVE  [Log!LogNext]_(Log!logVars)
<1>1. ASSUME Issued' = Issued, Settled => Settled'
      PROVE  [Log!LogNext]_(Log!logVars)
  <2>1. CASE Settled = Settled'
    BY <1>1, <2>1 DEF Log!LogNext, Log!logVars, Issued, Settled
  <2>2. CASE ~Settled /\ Settled'
    BY <1>1, <2>2 DEF Log!LogNext, Log!logVars, Log!Settle, Issued, Settled
  <2> QED
    BY <1>1, <2>1, <2>2 DEF Settled
<1>2. CASE UNCHANGED vars
  BY <1>1, <1>2 DEF vars, Issued, Settled
<1>3. CASE Next /\ sent' = sent
  <2>1. Issued' = Issued
    BY <1>3 DEF Issued
  <2>2. ASSUME Settled, sent # <<>> PROVE plan'[Last(sent).step] # "in_progress"
    <3>1. /\ Last(sent).step \in 1..Len(kinds) /\ ResultsOf(Last(sent).step) # {}
      BY <2>2, SentFacts
    <3>2. plan # <<>>
      BY <2>2 DEF PlanInv, SentInv, Delivered
    <3> QED
      BY <1>3, <2>2, <3>1, <3>2, NothingReopened DEF Settled
  <2> QED
    BY <1>1, <1>3, <2>1, <2>2 DEF Settled
<1>4. ASSUME NEW op, op \in 1..Len(kinds), Settled, ~Settled', Issued' = Append(Issued, op),
             \A n \in DOMAIN Issued : Issued[n] # op
      PROVE  [Log!LogNext]_(Log!logVars)
  <2>1. op \in UNION {DOMAIN k : k \in Plans}
    BY <1>4, PlanFacts DEF PlanInv, PlanFields, PlanStatuses
  <2>2. Log!Issue(op)
    BY <1>4 DEF Log!Issue, Issued, Settled
  <2> QED
    BY <2>1, <2>2 DEF Log!LogNext
<1>5. CASE BoundaryCall
  <2>1. ses.pc = "call" /\ plan' = plan
    BY <1>5 DEF BoundaryCall
  <2>2. ResultsOf(ses.step) = {}
    BY <2>1 DEF PlanInv, SentInv, Underway
  <2>3. PICK r \in Results : sent' = IF r = "rejected" THEN sent
                                     ELSE Append(sent, [step |-> ses.step, result |-> r])
    BY <1>5 DEF BoundaryCall
  <2>4. CASE sent' = Append(sent, [step |-> ses.step, result |-> r])
    BY <1>4, <2>1, <2>2, <2>4, CallIssues
  <2>5. Next
    BY <1>5 DEF Next, ExecuteNextTool
  <2> QED
    BY <1>3, <2>3, <2>4, <2>5
<1>6. CASE FinalCall
  <2>1. ses.pc = "finalCall" /\ plan' = plan
    BY <1>6 DEF FinalCall
  <2>2. ResultsOf(ses.step) = {}
    BY <2>1 DEF PlanInv, SentInv, Underway
  <2>3. PICK r : sent' = Append(sent, [step |-> ses.step, result |-> r])
    BY <1>6 DEF FinalCall
  <2> QED
    BY <1>4, <2>1, <2>2, <2>3, CallIssues
<1>7. Next => BoundaryCall \/ FinalCall \/ sent' = sent
  BY DEF Next, Open, ExecuteNextTool, Record, ExecuteFinalResponse, Reconcile,
    OpenPlan, OpenTree, OpenRecord, OpenDesktop, PrepareNext, TreeStart, PlanStart, RepairStart,
    BoundaryRefuses, BoundaryWrite, BoundaryComplete, PlanTarget, TreeFinish, RecordTrace,
    RecordCheckpoint, Shutdown, PrepareFinal, TreeStartFinal, FinalCreate, FinalStart,
    FinalIntent, FinalComplete, FinalFinish, TreeFinishFinal, RepairFinal, Cancel, TreeCancel,
    PreserveAndClose, Crash, ReconcileObservation, ReconcileFromPlan, ReconcileFinal,
    ReconcileFinalSuccess
<1> QED
  BY <1>2, <1>3, <1>5, <1>6, <1>7

(* The calls and the request of a plan leave the host as OperationLog      *)
(* says: one after another, none twice, and none after one whose step the  *)
(* plan still holds in progress.                                           *)
THEOREM PlanKeepsTheLog == Spec => ImplementsLog
<1>1. Init => Log!LogInit
  BY PlanBegins
<1>2. PlanInv /\ PlanInv' /\ [Next]_vars => [Log!LogNext]_(Log!logVars)
  BY StepsAreLogSteps
<1> QED
  BY <1>1, <1>2, PlanInvAlways, PTL DEF Spec, ImplementsLog, Log!LogSpec

-----------------------------------------------------------------------------
(* The fixed workflow of the page and the Word document (PublicWebWord).   *)
WordFields ==
    /\ Fields(flow, {"at", "corrections", "reobserve"})
    /\ Fields(evidence, {"windows", "listed", "title", "content", "scoped", "effect", "editor",
                         "newer", "done", "stage"})
    /\ Fields(desk, {"front", "focus", "word", "file", "stray"})
    /\ Fields(process, {"word", "chrome", "verifier"})
    /\ evidence.stage \in {"writing", "typed", "saved", "read", "reread"}

(* Word is brought to the front only once the page was seen, so nothing is  *)
(* clicked or pressed in it before.                                        *)
SourceInv ==
    \/ evidence.effect = Call("activate_window", "word")
    \/ {"click", "Ctrl+End"} \cap evidence.done # {}
    => evidence.title /\ evidence.content

(* Until a brief is typed nothing is written anywhere; from then on it is   *)
(* the noted one. After the turns there is one, and after the poll it is    *)
(* in the file.                                                            *)
AfterPoll == {"closing", "reopen", "reading", "reclosing", "receipt", "published"}
BriefInv ==
    /\ flow.at \in {"launch", "turns"} /\ evidence.stage = "writing" =>
          desk.word = {} /\ desk.stray = {}
    /\ \A x, y \in desk.word \cup desk.stray : x = y
    /\ evidence.stage # "writing" =>
          desk.word \cup desk.stray = {note} /\ evidence.title /\ evidence.content
    /\ desk.file \subseteq desk.word
    /\ flow.at \in AfterPoll \cup {"saving"} => evidence.stage # "writing"
    /\ flow.at \in AfterPoll => note \in desk.file

(* What was launched has its window until its cleanup, which the workflow  *)
(* does not pass while one is left on the screen.                          *)
ProcessInv ==
    /\ flow.at \in {"launch", "turns", "saving", "closing", "reopen"} =>
          process["verifier"] = "none"
    /\ flow.at = "launch" => process["chrome"] = "none"
    /\ flow.at \in {"turns", "saving", "closing"} =>
          process["word"] = "window" /\ process["chrome"] = "window"
    /\ flow.at \in {"reading", "reclosing"} => process["verifier"] = "window"
    /\ flow.at \in AfterPoll \ {"closing"} =>
          process["word"] \in {"hidden", "gone"} /\ process["chrome"] \in {"hidden", "gone"}
    /\ flow.at \in {"receipt", "published"} => process["verifier"] \in {"hidden", "gone"}

WordInv == WordFields /\ SourceInv /\ BriefInv /\ ProcessInv

LEMMA WordBegins == WordInit => WordInv
<1> SUFFICES ASSUME WordInit PROVE WordInv
  OBVIOUS
<1>1. WordFields
  BY DEF WordInit, NoEvidence, WordFields, Fields
<1>2. SourceInv
  BY DEF WordInit, NoEvidence, SourceInv, Call
<1>3. BriefInv
  BY DEF WordInit, NoEvidence, BriefInv, AfterPoll
<1>4. ProcessInv
  BY DEF WordInit, ProcessInv, AfterPoll
<1> QED
  BY <1>1, <1>2, <1>3, <1>4 DEF WordInv

(* A turn that leaves the desktop and the note alone.                      *)
LEMMA TurnStep ==
  ASSUME WordInv, flow.at = "turns", UNCHANGED <<note, desk, process>>,
         Fields(flow, {"at", "corrections", "reobserve"})',
         Fields(evidence, {"windows", "listed", "title", "content", "scoped", "effect",
                           "editor", "newer", "done", "stage"})',
         flow'.at \in {"turns", "failing"} \/ (flow'.at = "saving" /\ evidence'.stage # "writing"),
         evidence'.stage = "writing" <=> evidence.stage = "writing",
         evidence'.stage \in {"writing", "typed", "saved", "read", "reread"},
         evidence'.effect = evidence.effect, evidence'.done = evidence.done,
         evidence.title => evidence'.title, evidence.content => evidence'.content
  PROVE  WordInv'
BY DEF SourceInv, WordInv, WordFields, Fields, BriefInv, ProcessInv, AfterPoll

LEMMA ObserveStep ==
  ASSUME WordInv, NEW c \in Proposals, NEW yes \in BOOLEAN,
         \/ ProposalRejected(c) \/ ObserveChrome(c, yes) \/ ObserveWindows(yes)
         \/ SnapshotWord(yes) \/ ReadWord(yes) \/ TakeScreenshot \/ RunStops \/ FinishTurns
  PROVE  WordInv'
<1>1. CASE ProposalRejected(c)
  BY <1>1, TurnStep DEF ProposalRejected, WordInv, WordFields, Fields
<1>2. CASE ObserveChrome(c, yes)
  <2>1. \/ Known([evidence EXCEPT !.title = @ \/ yes, !.scoped = "chrome"])
        \/ Known([evidence EXCEPT !.content = @ \/ yes, !.scoped = "chrome"])
        \/ Known([evidence EXCEPT !.content = @ \/ yes])
    <3>1. \/ c.tool = "ui_snapshot"
          \/ c.tool # "ui_snapshot" /\ c.tool = "document_text"
          \/ c.tool # "ui_snapshot" /\ c.tool # "document_text" /\ c.tool = "ocr"
      BY <1>2 DEF ObserveChrome, Call
    <3> QED
      BY <1>2, <3>1, Zenon DEF ObserveChrome
  <2>2. flow.at = "turns"
    BY <1>2 DEF ObserveChrome
  <2>3. PICK title, content : title = (evidence.title \/ yes) /\ content = (evidence.content \/ yes)
    OBVIOUS
  <2>5. \/ evidence' = [evidence EXCEPT !.title = title, !.scoped = "chrome"]
        \/ evidence' = [evidence EXCEPT !.content = content, !.scoped = "chrome"]
        \/ evidence' = [evidence EXCEPT !.content = content]
    BY <2>1, <2>3, Zenon DEF Known
  <2>6. (evidence.title => title) /\ (evidence.content => content)
    BY <2>3, Zenon
  <2>4. /\ flow' = [flow EXCEPT !.corrections = 0, !.reobserve = FALSE]
        /\ UNCHANGED <<note, desk, process>>
    BY <2>1, Zenon DEF Known
  <2> QED
    BY <2>2, <2>4, <2>5, <2>6, TurnStep DEF WordInv, WordFields, Fields
<1>3. CASE ObserveWindows(yes)
  BY <1>3, TurnStep DEF ObserveWindows, Known, WordInv, WordFields, Fields
<1>4. CASE SnapshotWord(yes)
  BY <1>4, TurnStep DEF SnapshotWord, Known, WordInv, WordFields, Fields
<1>5. CASE ReadWord(yes)
  BY <1>5, TurnStep DEF ReadWord, Known, WordInv, WordFields, Fields
<1>6. CASE TakeScreenshot
  BY <1>6, TurnStep DEF TakeScreenshot, Known, WordInv, WordFields, Fields
<1>7. CASE RunStops
  BY <1>7, TurnStep DEF RunStops, WordInv, WordFields, Fields
<1>8. CASE FinishTurns
  BY <1>8, TurnStep DEF FinishTurns, Finished, WordInv, WordFields, Fields
<1> QED
  BY <1>1, <1>2, <1>3, <1>4, <1>5, <1>6, <1>7, <1>8

LEMMA CallCases ==
  ASSUME NEW c \in Proposals
  PROVE  /\ c.tool = "key" =>
               c.on \in {"PageDown", "Ctrl+End", "Ctrl+S", "Enter"} /\ c = Call("key", c.on)
         /\ c.tool = "click" => c.on \in {"editor", "elsewhere"}
         /\ c.tool = "type" => c.on \in Briefs
         /\ c.tool \in {"list_windows", "ocr", "screenshot", "ui_snapshot", "document_text",
                        "activate_window", "click", "key", "type"}
BY DEF Proposals, Call

(* What an acceptable action may write.                                    *)
LEMMA MayType ==
  ASSUME WordInv, NEW c \in Proposals, Acceptable(c), c.tool = "type"
  PROVE  evidence.stage = "writing" /\ evidence.title /\ evidence.content
<1>1. evidence.stage = "writing"
  <2>1. StageAllows(c)
    BY DEF Acceptable, Validated
  <2>2. CASE evidence.stage \in {"typed", "saved"}
    <3>1. evidence.stage \in {"typed", "saved"} /\ evidence.stage # "writing"
      BY <2>2
    <3>2. c = Call("document_text", "word")
      BY <2>1, <3>1, Zenon DEF StageAllows
    <3> QED
      BY <3>2 DEF Call
  <2>3. CASE evidence.stage = "read"
    BY <2>1, <2>3 DEF StageAllows, Call
  <2>4. CASE evidence.stage = "reread"
    BY <2>1, <2>4 DEF StageAllows
  <2> QED
    BY <2>2, <2>3, <2>4 DEF WordInv, WordFields
<1>2. CallAllowed(c)
  BY DEF Acceptable, Validated
<1>3. "Ctrl+End" \in evidence.done
  BY <1>2 DEF CallAllowed, FocusedSince
<1> QED
  BY <1>1, <1>3 DEF WordInv, SourceInv

LEMMA MayTouchWord ==
  ASSUME WordInv, NEW c \in Proposals, Acceptable(c),
         c = Call("activate_window", "word") \/ Name(c) \in {"click", "Ctrl+End"}
  PROVE  evidence.title /\ evidence.content
<1>1. CallAllowed(c)
  BY DEF Acceptable, Validated, Call, Name
<1>2. CASE c = Call("activate_window", "word")
  BY <1>1, <1>2 DEF CallAllowed, SourceVerified, Call
<1>3. CASE c.tool = "click"
  BY <1>1, <1>3 DEF CallAllowed, EditorInFront, WordInv, SourceInv
<1>4. CASE c.tool = "key" /\ c.on = "Ctrl+End"
  BY <1>1, <1>4 DEF CallAllowed, FocusedSince, WordInv, SourceInv
<1> QED
  BY <1>2, <1>3, <1>4, CallCases DEF Name

LEMMA DeskAfter ==
  ASSUME WordInv, NEW c \in Proposals, Acceptable(c), flow.at = "turns"
  PROVE  LET d == OnDesk(c) IN
         /\ Fields(d, {"front", "focus", "word", "file", "stray"})
         /\ d.file \subseteq d.word
         /\ c.tool # "type" => d.word = desk.word /\ d.stray = desk.stray
         /\ c.tool = "type" => d.word \cup d.stray = {c.on}
<1>1. /\ Fields(desk, {"front", "focus", "word", "file", "stray"})
      /\ desk.file \subseteq desk.word
      /\ c.tool = "type" => desk.word = {} /\ desk.stray = {}
  BY MayType DEF WordInv, WordFields, BriefInv
<1>2. CASE c.tool = "type"
  <2>1. OnDesk(c) = Typed(c.on)
    BY <1>2 DEF OnDesk, Call
  <2> QED
    BY <1>1, <1>2, <2>1 DEF Typed, Fields
<1>3. CASE c.tool # "type"
  <2>1. \/ OnDesk(c) = desk
        \/ OnDesk(c) = [desk EXCEPT !.front = c.on]
        \/ \E focus : OnDesk(c) = [desk EXCEPT !.focus = focus]
        \/ OnDesk(c) = [desk EXCEPT !.file = desk.word]
    <3>1. CASE c.tool = "activate_window"
      <4>1. c.tool # "click" /\ c.tool # "type" /\ c # Call("key", "Ctrl+S")
        BY <3>1 DEF Call
      <4>2. OnDesk(c) = [desk EXCEPT !.front = c.on]
        BY <3>1, <4>1, Zenon DEF OnDesk
      <4> QED
        BY <4>2
    <3>2. CASE c.tool = "click"
      <4>1. c.tool # "activate_window" /\ c.tool # "type" /\ c # Call("key", "Ctrl+S")
        BY <3>2 DEF Call
      <4>2. OnDesk(c) = [desk EXCEPT !.focus = @ \/ desk.front = "word"]
        BY <3>2, <4>1, Zenon DEF OnDesk
      <4> QED
        BY <4>2
    <3>3. CASE c.tool # "activate_window" /\ c.tool # "click"
                  /\ c = Call("key", "Ctrl+S") /\ desk.front = "word"
      BY <1>3, <3>3, Zenon DEF OnDesk
    <3>4. CASE c.tool # "activate_window" /\ c.tool # "click"
                  /\ ~(c = Call("key", "Ctrl+S") /\ desk.front = "word")
      BY <1>3, <3>4, Zenon DEF OnDesk
    <3> QED
      BY <3>1, <3>2, <3>3, <3>4
  <2> QED
    BY <1>1, <1>3, <2>1 DEF Fields
<1> QED
  BY <1>2, <1>3

LEMMA ActStep ==
  ASSUME WordInv, NEW c \in Proposals, ActDone(c) \/ ActRefused(c) \/ ActUnknown(c)
  PROVE  WordInv'
<1>1. flow.at = "turns" /\ Acceptable(c) /\ process' = process
  BY DEF ActDone, ActRefused, ActUnknown
<1>2. PICK d : d = OnDesk(c)
  OBVIOUS
<1>3. /\ Fields(d, {"front", "focus", "word", "file", "stray"})
      /\ d.file \subseteq d.word
      /\ c.tool # "type" => d.word = desk.word /\ d.stray = desk.stray
      /\ c.tool = "type" => d.word \cup d.stray = {c.on}
  BY <1>1, <1>2, DeskAfter
<1>4. c.tool = "type" =>
         /\ evidence.stage = "writing" /\ evidence.title /\ evidence.content
         /\ note' = c.on
  BY <1>1, MayType DEF ActDone, ActRefused, ActUnknown, Noted
<1>5. c.tool # "type" => note' = note
  BY DEF ActDone, ActRefused, ActUnknown, Noted
<1>6. Fields(flow', {"at", "corrections", "reobserve"})
  BY DEF ActDone, ActRefused, ActUnknown, WordInv, WordFields, Fields
<1>7. CASE ActDone(c)
  <2>1. PICK mark : /\ mark = IF c.tool = "type" THEN "typed"
                                ELSE IF c = Call("key", "Ctrl+S") THEN "saved"
                                ELSE evidence.stage
                    /\ evidence' = [evidence EXCEPT
                         !.listed = FALSE, !.effect = c,
                         !.newer = @ \cup {Name(c)}, !.done = @ \cup {Name(c)},
                         !.stage = mark]
    BY <1>7 DEF ActDone
  <2>2. /\ Fields(evidence, {"windows", "listed", "title", "content", "scoped", "effect",
                             "editor", "newer", "done", "stage"})'
        /\ evidence'.stage = mark /\ evidence'.effect = c
        /\ evidence'.done = evidence.done \cup {Name(c)}
        /\ evidence'.title = evidence.title /\ evidence'.content = evidence.content
    BY <2>1 DEF WordInv, WordFields, Fields
  <2>3. flow'.at = "turns" /\ desk' = d
    BY <1>1, <1>2, <1>7 DEF ActDone, WordInv, WordFields, Fields
  <2>4. c = Call("key", "Ctrl+S") => c.tool # "type" /\ evidence.stage = "read"
    BY <1>1 DEF Acceptable, Validated, CallAllowed, Call
  <2>5. SourceInv'
    BY <1>1, <2>2, MayTouchWord DEF SourceInv, WordInv
  <2>6. BriefInv'
    BY <1>1, <1>3, <1>4, <1>5, <2>1, <2>2, <2>3, <2>4 DEF BriefInv, AfterPoll, WordInv
  <2>7. ProcessInv'
    BY <1>1, <2>3 DEF ProcessInv, AfterPoll, WordInv
  <2>8. WordFields'
    BY <1>1, <1>3, <1>6, <2>1, <2>2, <2>3 DEF WordFields, WordInv, Fields
  <2> QED
    BY <2>5, <2>6, <2>7, <2>8 DEF WordInv
<1>8. CASE ActRefused(c) \/ ActUnknown(c)
  <2>1. /\ evidence' = evidence /\ desk' \in {desk, d}
        /\ flow'.at = "failing" \/ (flow'.at = "turns" /\ desk' = desk)
    BY <1>1, <1>2, <1>8 DEF ActRefused, ActUnknown, WordInv, WordFields, Fields
  <2>2. SourceInv'
    BY <2>1 DEF SourceInv, WordInv
  <2>3. BriefInv'
    BY <1>1, <1>3, <1>4, <1>5, <2>1 DEF BriefInv, AfterPoll, WordInv
  <2>4. ProcessInv'
    BY <1>1, <2>1 DEF ProcessInv, AfterPoll, WordInv
  <2>5. WordFields'
    BY <1>1, <1>3, <1>6, <2>1 DEF WordFields, WordInv, Fields
  <2> QED
    BY <2>2, <2>3, <2>4, <2>5 DEF WordInv
<1> QED
  BY <1>7, <1>8

-----------------------------------------------------------------------------
(* The steps of the host around the turns.                                 *)
LEMMA HostFields ==
  ASSUME WordInv, NEW at, StepTo(at)
  PROVE  flow'.at = at /\ Fields(flow, {"at", "corrections", "reobserve"})'
BY DEF StepTo, WordInv, WordFields, Fields

(* A window that comes to the front changes nothing that is written.       *)
LEMMA AppearsStep ==
  ASSUME WordInv, NEW p \in {"word", "chrome", "verifier"}, Appears(p)
  PROVE  /\ Fields(desk, {"front", "focus", "word", "file", "stray"})'
         /\ desk'.word = desk.word /\ desk'.file = desk.file /\ desk'.stray = desk.stray
         /\ Fields(process, {"word", "chrome", "verifier"})'
         /\ \A q \in {"word", "chrome", "verifier"} \ {p} : process'[q] = process[q]
         /\ process'[p] \in {"window", "gone", "hidden"}
<1>1. PICK front : desk' = [desk EXCEPT !.front = front]
  BY DEF Appears
<1>2. PICK seen \in {"window", "gone", "hidden"} : process' = [process EXCEPT ![p] = seen]
  BY DEF Appears
<1> QED
  BY <1>1, <1>2 DEF WordInv, WordFields, Fields

(* A cleanup touches only what it is given, and leaves no window unseen.   *)
LEMMA CleanupStep ==
  ASSUME WordInv, NEW ps \in SUBSET {"word", "chrome", "verifier"}, Cleanup(ps)
  PROVE  /\ Fields(process, {"word", "chrome", "verifier"})'
         /\ UNCHANGED <<evidence, note, desk>>
         /\ \A q \in {"word", "chrome", "verifier"} \ ps : process'[q] = process[q]
         /\ \A p \in ps : process[p] = "window" => process'[p] # "none"
<1>1. DOMAIN process = {"word", "chrome", "verifier"}
  BY DEF WordInv, WordFields, Fields
<1>2. /\ Fields(process, {"word", "chrome", "verifier"})'
      /\ UNCHANGED <<evidence, note, desk>>
  BY <1>1 DEF Cleanup, Fields
<1>3. \A q \in {"word", "chrome", "verifier"} \ ps : process'[q] = process[q]
  BY <1>1 DEF Cleanup
<1>4. ASSUME NEW p \in ps, process[p] = "window" PROVE process'[p] # "none"
  <2>1. process'[p] \in CloseProcess(p)
    BY <1>1 DEF Cleanup
  <2>2. CloseProcess(p) \subseteq {"dialog", "gone", "window", "hidden"}
    BY <1>4 DEF CloseProcess
  <2> QED
    BY <2>1, <2>2
<1> QED
  BY <1>2, <1>3, <1>4

(* What is written stays, and nothing that was seen is forgotten.          *)
LEMMA HostKeepsBrief ==
  ASSUME WordInv, NEW at, StepTo(at), UNCHANGED <<evidence, note>>,
         Fields(desk, {"front", "focus", "word", "file", "stray"})',
         Fields(process, {"word", "chrome", "verifier"})',
         desk'.word = desk.word, desk'.file = desk.file, desk'.stray = desk.stray,
         at \in {"launch", "turns"} => flow.at \in {"launch", "turns"},
         at \in AfterPoll => note \in desk.file /\ evidence.stage # "writing",
         at # "saving"
  PROVE  WordFields' /\ SourceInv' /\ BriefInv'
<1>1. flow'.at = at /\ Fields(flow, {"at", "corrections", "reobserve"})'
  BY HostFields
<1>2. WordFields'
  BY <1>1 DEF WordInv, WordFields, Fields
<1>3. SourceInv'
  BY DEF WordInv, SourceInv
<1>4. BriefInv'
  BY <1>1 DEF WordInv, BriefInv, AfterPoll
<1> QED
  BY <1>2, <1>3, <1>4

LEMMA AppearStep ==
  ASSUME WordInv, Launch \/ LaunchVerifier
  PROVE  WordInv'
<1>1. PICK p, at : /\ p \in {"word", "chrome", "verifier"}
                   /\ Appears(p) /\ StepTo(at) /\ UNCHANGED <<evidence, note>>
                   /\ \/ p = "word" /\ flow.at = "launch" /\ process["word"] = "none"
                         /\ at = IF Ready("word") THEN "launch" ELSE "failing"
                      \/ p = "chrome" /\ flow.at = "launch" /\ process["word"] = "window"
                         /\ at = IF Ready("chrome") THEN "turns" ELSE "failing"
                      \/ p = "verifier" /\ flow.at = "reopen"
                         /\ at = IF Ready("verifier") THEN "reading" ELSE "failing"
  BY DEF Launch, LaunchVerifier
<1>2. /\ Fields(desk, {"front", "focus", "word", "file", "stray"})'
      /\ desk'.word = desk.word /\ desk'.file = desk.file /\ desk'.stray = desk.stray
      /\ Fields(process, {"word", "chrome", "verifier"})'
      /\ \A q \in {"word", "chrome", "verifier"} \ {p} : process'[q] = process[q]
      /\ process'[p] \in {"window", "gone", "hidden"}
  BY <1>1, AppearsStep
<1>3. flow'.at = at
  BY <1>1, HostFields
<1>4. at = "reading" => note \in desk.file /\ evidence.stage # "writing"
  BY <1>1 DEF WordInv, BriefInv, AfterPoll
<1>5. at \in {"launch", "turns", "reading", "failing"}
  BY <1>1
<1>6. at \in {"launch", "turns"} => flow.at = "launch"
  BY <1>1
<1>7. WordFields' /\ SourceInv' /\ BriefInv'
  BY <1>1, <1>2, <1>4, <1>5, <1>6, HostKeepsBrief DEF AfterPoll
<1>8. ProcessInv'
  BY <1>1, <1>2, <1>3 DEF WordInv, ProcessInv, AfterPoll, Ready
<1> QED
  BY <1>7, <1>8 DEF WordInv

LEMMA CleanStep ==
  ASSUME WordInv, CloseFixtures \/ CloseVerifier
  PROVE  WordInv'
<1>1. PICK ps, at : /\ ps \in SUBSET {"word", "chrome", "verifier"}
                    /\ Cleanup(ps) /\ StepTo(at)
                    /\ \/ at = "failed"
                       \/ ps = Fixtures /\ flow.at = "closing" /\ at = "reopen" /\ Closed(Fixtures)
                       \/ ps = {"verifier"} /\ flow.at = "reclosing" /\ at = "receipt"
                          /\ Closed({"verifier"})
  BY DEF CloseFixtures, CloseVerifier, Fixtures
<1>2. /\ Fields(process, {"word", "chrome", "verifier"})'
      /\ UNCHANGED <<evidence, note, desk>>
      /\ \A q \in {"word", "chrome", "verifier"} \ ps : process'[q] = process[q]
      /\ \A p \in ps : process[p] = "window" => process'[p] # "none"
  BY <1>1, CleanupStep
<1>3. flow'.at = at
  BY <1>1, HostFields
<1>4. at \in {"failed", "reopen", "receipt"}
  BY <1>1
<1>5. at # "failed" => note \in desk.file /\ evidence.stage # "writing"
  BY <1>1 DEF WordInv, BriefInv, AfterPoll
<1>6. WordFields' /\ SourceInv' /\ BriefInv'
  BY <1>1, <1>2, <1>4, <1>5, HostKeepsBrief DEF AfterPoll, WordInv, WordFields
<1>7. ProcessInv'
  <2>1. CASE at = "failed"
    BY <1>3, <2>1 DEF ProcessInv, AfterPoll
  <2>2. CASE flow.at = "closing" /\ at = "reopen" /\ Closed(Fixtures) /\ ps = Fixtures
    <3>1. process["word"] = "window" /\ process["chrome"] = "window"
          /\ process["verifier"] = "none"
      BY <2>2 DEF WordInv, ProcessInv
    <3> QED
      BY <1>2, <1>3, <2>2, <3>1 DEF ProcessInv, AfterPoll, Closed, Fixtures
  <2>3. CASE flow.at = "reclosing" /\ at = "receipt" /\ Closed({"verifier"}) /\ ps = {"verifier"}
    <3>1. /\ process["verifier"] = "window"
          /\ process["word"] \in {"hidden", "gone"} /\ process["chrome"] \in {"hidden", "gone"}
      BY <2>3 DEF WordInv, ProcessInv, AfterPoll
    <3> QED
      BY <1>2, <1>3, <2>3, <3>1 DEF ProcessInv, AfterPoll, Closed
  <2> QED
    BY <1>1, <2>1, <2>2, <2>3
<1> QED
  BY <1>6, <1>7 DEF WordInv

LEMMA CheckStep ==
  ASSUME WordInv, NEW complete \in BOOLEAN,
         WaitForFile \/ ReadReopened(complete) \/ WriteReceipt
  PROVE  WordInv'
<1>1. PICK at :
         /\ StepTo(at) /\ UNCHANGED <<evidence, note, desk, process>>
         /\ \/ at \in {"failing", "failed"}
            \/ flow.at = "saving" /\ at = "closing" /\ note \in desk.file
            \/ flow.at = "reading" /\ at = "reclosing"
            \/ flow.at = "receipt" /\ at = "published"
  BY DEF WaitForFile, ReadReopened, WriteReceipt, OnFile
<1>2. flow'.at = at
  BY <1>1, HostFields
<1>3. at \in AfterPoll => note \in desk.file /\ evidence.stage # "writing"
  BY <1>1 DEF WordInv, BriefInv, AfterPoll
<1>4. WordFields' /\ SourceInv' /\ BriefInv'
  BY <1>1, <1>3, HostKeepsBrief DEF AfterPoll, WordInv, WordFields
<1>5. ProcessInv'
  BY <1>1, <1>2 DEF WordInv, ProcessInv, AfterPoll
<1> QED
  BY <1>4, <1>5 DEF WordInv

LEMMA FrontStep ==
  ASSUME WordInv, NEW w, FrontMoves(w)
  PROVE  WordInv'
<1>1. /\ UNCHANGED <<flow, evidence, note, process>>
      /\ Fields(desk, {"front", "focus", "word", "file", "stray"})'
      /\ desk'.word = desk.word /\ desk'.file = desk.file /\ desk'.stray = desk.stray
  BY DEF FrontMoves, WordInv, WordFields, Fields
<1> QED
  BY <1>1 DEF WordInv, WordFields, Fields, SourceInv, BriefInv, ProcessInv, AfterPoll

LEMMA WordStep == WordInv /\ [WordNext]_wordVars => WordInv'
<1> SUFFICES ASSUME WordInv, [WordNext]_wordVars PROVE WordInv'
  OBVIOUS
<1>1. CASE UNCHANGED wordVars
  BY <1>1 DEF wordVars, WordInv, WordFields, Fields, SourceInv, BriefInv, ProcessInv, AfterPoll
<1>2. ASSUME NEW c \in Proposals, ActDone(c) \/ ActRefused(c) \/ ActUnknown(c)
      PROVE  WordInv'
  BY <1>2, ActStep
<1>3. ASSUME NEW c \in Proposals, NEW yes \in BOOLEAN,
             ProposalRejected(c) \/ ObserveChrome(c, yes)
      PROVE  WordInv'
  BY <1>3, ObserveStep
<1>4. ASSUME NEW yes \in BOOLEAN,
             \/ ObserveWindows(yes) \/ SnapshotWord(yes) \/ ReadWord(yes)
             \/ TakeScreenshot \/ RunStops \/ FinishTurns
      PROVE  WordInv'
  <2>1. Call("ocr", "none") \in Proposals
    BY DEF Proposals
  <2> QED
    BY <1>4, <2>1, ObserveStep
<1>5. ASSUME NEW yes \in BOOLEAN, WaitForFile \/ ReadReopened(yes) \/ WriteReceipt
      PROVE  WordInv'
  BY <1>5, CheckStep
<1>6. CASE Launch \/ LaunchVerifier
  BY <1>6, AppearStep
<1>7. CASE CloseFixtures \/ CloseVerifier
  BY <1>7, CleanStep
<1>8. ASSUME NEW w, FrontMoves(w) PROVE WordInv'
  BY <1>8, FrontStep
<1>9. TRUE \in BOOLEAN
  OBVIOUS
<1> QED
  BY <1>1, <1>2, <1>3, <1>4, <1>5, <1>6, <1>7, <1>8, <1>9 DEF WordNext

LEMMA AtMostOne ==
  ASSUME NEW S, \A x, y \in S : x = y
  PROVE  Cardinality(S) <= 1
<1>1. CASE S = {}
  BY <1>1, FS_EmptySet
<1>2. CASE S # {}
  <2>1. PICK x \in S : S = {x}
    BY <1>2
  <2> QED
    BY <2>1, FS_Singleton
<1> QED
  BY <1>1, <1>2

LEMMA WordInvSound == WordInv => WordSound
<1> SUFFICES ASSUME WordInv PROVE WordSound
  OBVIOUS
<1>1. OneBrief
  <2>1. \A x, y \in desk.word \cup desk.stray : x = y
    BY DEF WordInv, BriefInv
  <2>2. Cardinality(desk.word \cup desk.stray) <= 1
    BY <2>1, AtMostOne
  <2> QED
    BY <2>2 DEF OneBrief, SourceVerified, WordInv, BriefInv
<1>2. ReceiptTruthful
  <2>1. ASSUME flow.at = "published" PROVE desk.file = {note}
    BY <2>1 DEF WordInv, BriefInv, AfterPoll
  <2>2. ASSUME flow.at = "published", NEW p \in DOMAIN process
        PROVE  process[p] \in {"hidden", "gone"}
    <3>1. p \in {"word", "chrome", "verifier"}
      BY DEF WordInv, WordFields, Fields
    <3> QED
      BY <2>2, <3>1 DEF WordInv, ProcessInv, AfterPoll
  <2> QED
    BY <2>1, <2>2 DEF ReceiptTruthful
<1> QED
  BY <1>1, <1>2 DEF WordSound

(* Whatever the model proposes and whoever moves the front window, one      *)
(* brief is written, only after the page was seen, and a receipt means that *)
(* the file holds it and nothing launched is still on the screen            *)
(* (run_public_web_word_workflow, _validate_call).                          *)
THEOREM ReceiptsAreEarned == WordSpec => []WordSound
<1>1. WordInit => WordInv
  BY WordBegins
<1>2. WordInv /\ [WordNext]_wordVars => WordInv'
  BY WordStep
<1>3. WordInv => WordSound
  BY WordInvSound
<1> QED
  BY <1>1, <1>2, <1>3, PTL DEF WordSpec
-----------------------------------------------------------------------------
(* The stored tree: functions that are given by recursion along a tree.    *)

(* What n comes to under the functions of G depends on what is before n.   *)
Local(N, E, V, G) ==
    \A n \in N : \A f, g \in [N -> V] :
        (\A m \in N : <<m, n>> \in E => f[m] = g[m]) => G[n][f] = G[n][g]

TypedSteps(N, V, G) == V # {} /\ \A n \in N : \A f \in [N -> V] : G[n][f] \in V

(* A set with everything that is before its members, and a function that   *)
(* solves the equations of G on it.                                        *)
ClosedUnder(N, E, S) ==
    S \subseteq N /\ \A n \in S : \A m \in N : <<m, n>> \in E => m \in S
Solves(N, V, G, S, f) == f \in [N -> V] /\ \A n \in S : f[n] = G[n][f]

LEMMA SolutionsAgree ==
  ASSUME NEW N, NEW E, Acyclic(N, E), NEW V, NEW G, Local(N, E, V, G),
         NEW S, ClosedUnder(N, E, S), NEW T, ClosedUnder(N, E, T),
         NEW f, Solves(N, V, G, S, f), NEW g, Solves(N, V, G, T, g)
  PROVE  \A n \in S \cap T : f[n] = g[n]
<1> DEFINE Bad == {n \in S \cap T : f[n] # g[n]}
<1>1. SUFFICES ASSUME Bad # {} PROVE FALSE
  OBVIOUS
<1>2. Bad \in (SUBSET N) \ {{}}
  BY <1>1 DEF ClosedUnder
<1>3. PICK n \in Bad : \A m \in Bad : <<m, n>> \notin E
  BY <1>2 DEF Acyclic
<1>4. n \in N /\ n \in S /\ n \in T /\ f[n] # g[n]
  BY <1>2, <1>3
<1>5. \A m \in N : <<m, n>> \in E => f[m] = g[m]
  <2> SUFFICES ASSUME NEW m \in N, <<m, n>> \in E PROVE f[m] = g[m]
    OBVIOUS
  <2>1. m \in S /\ m \in T
    BY <1>4 DEF ClosedUnder
  <2> QED
    BY <2>1, <1>3
<1>6. G[n][f] = G[n][g]
  BY <1>4, <1>5 DEF Local, Solves
<1> QED
  BY <1>4, <1>6 DEF Solves

(* Equations in which everything depends on what is before it, in an order *)
(* without cycles, have a solution.                                        *)
LEMMA Recursion ==
  ASSUME NEW N, NEW E, Acyclic(N, E), NEW V, NEW G, TypedSteps(N, V, G), Local(N, E, V, G)
  PROVE  \E v \in [N -> V] : \A n \in N : v[n] = G[n][v]
<1> DEFINE Partial(n) ==
      {f \in [N -> V] : \E S \in SUBSET N :
          n \in S /\ ClosedUnder(N, E, S) /\ Solves(N, V, G, S, f)}
           U == {n \in N : Partial(n) # {}}
           h == [n \in N |-> IF n \in U THEN (CHOOSE f \in Partial(n) : TRUE)[n]
                             ELSE CHOOSE x \in V : TRUE]
<1>0. V # {} /\ \A n \in N : \A f \in [N -> V] : G[n][f] \in V
  BY DEF TypedSteps
<1>1. \A n \in U : (CHOOSE f \in Partial(n) : TRUE) \in Partial(n)
  OBVIOUS
<1>2. h \in [N -> V]
  <2> SUFFICES ASSUME NEW n \in N PROVE h[n] \in V
    OBVIOUS
  <2>1. CASE n \in U
    BY <1>1, <2>1
  <2>2. CASE n \notin U
    BY <1>0, <2>2
  <2> QED
    BY <2>1, <2>2
<1>3. ASSUME NEW S \in SUBSET N, ClosedUnder(N, E, S), NEW f, Solves(N, V, G, S, f)
      PROVE  S \subseteq U /\ \A n \in S : h[n] = f[n]
  <2> SUFFICES ASSUME NEW n \in S PROVE n \in U /\ h[n] = f[n]
    OBVIOUS
  <2>1. f \in Partial(n)
    BY <1>3 DEF Solves
  <2>2. n \in U
    BY <2>1
  <2>3. PICK T \in SUBSET N : n \in T /\ ClosedUnder(N, E, T)
                 /\ Solves(N, V, G, T, CHOOSE g \in Partial(n) : TRUE)
    BY <1>1, <2>2
  <2>4. (CHOOSE g \in Partial(n) : TRUE)[n] = f[n]
    <3> DEFINE g == CHOOSE g \in Partial(n) : TRUE
    <3>1. Solves(N, V, G, T, g) /\ ClosedUnder(N, E, T) /\ n \in T
      BY <2>3
    <3> HIDE DEF g
    <3>2. \A k \in T \cap S : g[k] = f[k]
      BY <3>1, <1>3, SolutionsAgree
    <3> QED
      BY <3>1, <3>2 DEF g
  <2> QED
    BY <2>2, <2>4
<1>4. ClosedUnder(N, E, U) /\ Solves(N, V, G, U, h)
  <2>1. ASSUME NEW n \in U
        PROVE  /\ \A m \in N : <<m, n>> \in E => m \in U
               /\ h[n] = G[n][h]
    <3>1. PICK f \in [N -> V], S \in SUBSET N :
                 n \in S /\ ClosedUnder(N, E, S) /\ Solves(N, V, G, S, f)
      OBVIOUS
    <3>2. S \subseteq U /\ \A k \in S : h[k] = f[k]
      BY <1>3, <3>1
    <3>3. \A m \in N : <<m, n>> \in E => m \in U /\ h[m] = f[m]
      BY <3>1, <3>2 DEF ClosedUnder
    <3>4. G[n][h] = G[n][f]
      <4>1. h \in [N -> V] /\ n \in N /\ \A m \in N : <<m, n>> \in E => h[m] = f[m]
        BY <1>2, <3>3
      <4> HIDE DEF h
      <4> QED
        BY <3>1, <4>1 DEF Local
    <3> QED
      BY <3>1, <3>2, <3>3, <3>4 DEF Solves
  <2>2. U \subseteq N
    OBVIOUS
  <2> HIDE DEF h
  <2> HIDE DEF U
  <2> QED
    BY <1>2, <2>1, <2>2 DEF ClosedUnder, Solves
<1> HIDE DEF U, h
<1>5. U = N
  <2>1. SUFFICES ASSUME N \ U # {} PROVE FALSE
    BY <1>4 DEF ClosedUnder
  <2>2. PICK n \in N \ U : \A m \in N \ U : <<m, n>> \notin E
    BY <2>1 DEF Acyclic
  <2> DEFINE k == [h EXCEPT ![n] = G[n][h]]
  <2>3. k \in [N -> V] /\ k[n] = G[n][h] /\ \A m \in U : k[m] = h[m]
    BY <1>0, <1>2, <1>4, <2>2 DEF ClosedUnder
  <2> HIDE DEF k
  <2>4. ClosedUnder(N, E, U \cup {n})
    BY <1>4, <2>2 DEF ClosedUnder
  <2>5. \A m \in U \cup {n} : G[m][k] = G[m][h]
    <3> SUFFICES ASSUME NEW m \in U \cup {n} PROVE G[m][k] = G[m][h]
      OBVIOUS
    <3>1. m \in N /\ \A p \in N : <<p, m>> \in E => p \in U
      BY <1>4, <2>2 DEF ClosedUnder
    <3>2. \A p \in N : <<p, m>> \in E => k[p] = h[p]
      BY <2>3, <3>1
    <3> QED
      BY <1>2, <2>3, <3>1, <3>2 DEF Local
  <2>6. Solves(N, V, G, U \cup {n}, k)
    BY <1>4, <2>3, <2>5 DEF Solves
  <2>7. U \cup {n} \in SUBSET N
    BY <1>4, <2>2 DEF ClosedUnder
  <2>8. n \in U
    BY <1>3, <2>4, <2>6, <2>7
  <2> QED
    BY <2>2, <2>8
<1> QED
  BY <1>2, <1>4, <1>5 DEF Solves

-----------------------------------------------------------------------------
(* What is below a node.                                                   *)

IsBelow(t, v) ==
    v = [m \in t.nodes |-> Kids(t, m) \cup UNION {v[c] : c \in Kids(t, m)}]

LEMMA DescendantsIs ==
  ASSUME NEW t, NEW n PROVE Descendants(t, n) = (CHOOSE v : IsBelow(t, v))[n]
BY DEF Descendants, IsBelow

LEMMA TreeFacts ==
  ASSUME NEW t, IsTaskTree(t)
  PROVE  /\ ShapeOK(t) /\ Acyclic(t.nodes, Up(t))
         /\ \A n \in t.nodes : NodeValid(t, n)
         /\ \A n \in t.nodes : Kids(t, n) \subseteq t.nodes \ {t.root}
         /\ \A m, n \in t.nodes : m # n => Kids(t, m) \cap Kids(t, n) = {}
         /\ t.kind[t.root] \in Internal
         /\ OfKind(t, {"join"}) = {} \/ DependenciesValid(t)
         /\ t.version < 3 => t.deps = {}
         /\ t.version = 4 => /\ OfKind(t, {"choice"}) = {Choice(t)}
                             /\ ChoiceShape(t, Choice(t))
<1>1. ShapeOK(t) /\ Acyclic(t.nodes, Up(t)) /\ t.kind[t.root] \in Internal
  BY DEF IsTaskTree
<1>2. /\ \A n \in t.nodes : NodeValid(t, n)
      /\ \A m, n \in t.nodes : m # n => Kids(t, m) \cap Kids(t, n) = {}
  BY DEF IsTaskTree
<1>3. \A n \in t.nodes : Kids(t, n) \subseteq t.nodes \ {t.root}
  BY DEF IsTaskTree
<1>4. OfKind(t, {"join"}) = {} \/ DependenciesValid(t)
  BY <1>1 DEF IsTaskTree, ShapeOK
<1>5. t.version < 3 => t.deps = {}
  BY <1>1 DEF IsTaskTree, ShapeOK
<1>6. ASSUME t.version = 4
      PROVE  OfKind(t, {"choice"}) = {Choice(t)} /\ ChoiceShape(t, Choice(t))
  <2>1. PICK n \in OfKind(t, {"choice"}) : OfKind(t, {"choice"}) = {n} /\ ChoiceShape(t, n)
    BY <1>6 DEF IsTaskTree
  <2>2. n \in t.nodes /\ t.kind[n] = "choice" /\ \A m \in t.nodes : t.kind[m] = "choice" => m = n
    BY <2>1 DEF OfKind
  <2>3. Choice(t) = n
    BY <2>2 DEF Choice
  <2> QED
    BY <2>1, <2>3
<1> QED
  BY <1>1, <1>2, <1>3, <1>4, <1>5, <1>6

LEMMA Below ==
  ASSUME NEW t, IsTaskTree(t)
  PROVE  /\ \A n \in t.nodes : Descendants(t, n) \subseteq t.nodes
         /\ \A n \in t.nodes : \A d :
                d \in Descendants(t, n)
                <=> d \in Kids(t, n) \/ \E c \in Kids(t, n) : d \in Descendants(t, c)
<1> DEFINE N == t.nodes
           G == [m \in N |-> [v \in [N -> SUBSET N] |->
                    Kids(t, m) \cup UNION {v[c] : c \in Kids(t, m)}]]
<1>1. Acyclic(N, Up(t)) /\ \A n \in N : Kids(t, n) \subseteq N
  BY TreeFacts
<1>2. \A n \in N : \A v \in [N -> SUBSET N] : G[n][v] \in SUBSET N
  <2> SUFFICES ASSUME NEW n \in N, NEW v \in [N -> SUBSET N] PROVE G[n][v] \in SUBSET N
    OBVIOUS
  <2>1. Kids(t, n) \subseteq N /\ \A c \in Kids(t, n) : v[c] \in SUBSET N
    BY <1>1
  <2> QED
    BY <2>1
<1>3. Local(N, Up(t), SUBSET N, G)
  <2> SUFFICES ASSUME NEW n \in N, NEW f \in [N -> SUBSET N], NEW g \in [N -> SUBSET N],
                      \A m \in N : <<m, n>> \in Up(t) => f[m] = g[m]
               PROVE  G[n][f] = G[n][g]
    BY DEF Local
  <2>1. \A c \in Kids(t, n) : f[c] = g[c]
    BY <1>1 DEF Up
  <2>2. UNION {f[c] : c \in Kids(t, n)} = UNION {g[c] : c \in Kids(t, n)}
    BY <2>1
  <2> QED
    BY <2>2
<1> HIDE DEF G
<1>4. PICK w \in [N -> SUBSET N] : \A n \in N : w[n] = G[n][w]
  <2> DEFINE V == SUBSET N
  <2>1. TypedSteps(N, V, G)
    BY <1>2 DEF TypedSteps
  <2>2. Local(N, Up(t), V, G)
    BY <1>3
  <2> HIDE DEF V, N
  <2>3. \E w \in [N -> V] : \A n \in N : w[n] = G[n][w]
    BY <1>1, <2>1, <2>2, Recursion
  <2> QED
    BY <2>3 DEF V
<1>5. IsBelow(t, w)
  BY <1>4 DEF IsBelow, G
<1> DEFINE v == CHOOSE v : IsBelow(t, v)
<1>6. IsBelow(t, v)
  BY <1>5
<1> HIDE DEF v
<1>7. \A n : Descendants(t, n) = v[n]
  BY DescendantsIs DEF v
<1>8. \A n \in N : v[n] = Kids(t, n) \cup UNION {v[c] : c \in Kids(t, n)}
  BY <1>6 DEF IsBelow
<1>9. \A n \in N : v[n] \subseteq N
  <2> DEFINE Bad == {n \in N : ~(v[n] \subseteq N)}
  <2>1. SUFFICES ASSUME Bad # {} PROVE FALSE
    OBVIOUS
  <2>2. PICK n \in Bad : \A m \in Bad : <<m, n>> \notin Up(t)
    BY <1>1, <2>1 DEF Acyclic
  <2>3. \A c \in Kids(t, n) : v[c] \subseteq N
    BY <1>1, <2>2 DEF Up
  <2> QED
    BY <1>1, <1>8, <2>2, <2>3
<1> QED
  BY <1>1, <1>7, <1>8, <1>9

-----------------------------------------------------------------------------
(* The statuses of all nodes.                                              *)

(* As much of a stored tree as the statuses depend on.                     *)
Readable(t, f) ==
    /\ f.leaf \in [Steppable(t) -> StepStatuses]
    /\ f.events = <<>> \/ /\ t.version = 4
                          /\ Last(f.events).selected \in Kids(t, Choice(t)) \cup {0}

(* What has to be known before the status of a node is.                    *)
KnownBefore(t) == IF OfKind(t, {"join"}) = {} THEN Up(t) ELSE Up(t) \cup t.deps

StatusBody(t, f, v, n) ==
    CASE n \in Steppable(t) -> f.leaf[n]
      [] t.kind[n] = "join" -> Reduced({v[p] : p \in Prerequisites(t, n)})
      [] t.kind[n] = "choice" /\ f.events # <<>> ->
            IF Last(f.events).selected = 0 THEN "failed" ELSE v[Last(f.events).selected]
      [] OTHER -> Reduced({v[c] : c \in Kids(t, n)})
AreStatuses(t, f, v) == v = [n \in t.nodes |-> StatusBody(t, f, v, n)]

LEMMA StatusesIs ==
  ASSUME NEW t, NEW f PROVE Statuses(t, f) = CHOOSE v : AreStatuses(t, f, v)
BY DEF Statuses, AreStatuses, StatusBody

LEMMA BeforeIsAcyclic ==
  ASSUME NEW t, IsTaskTree(t) PROVE Acyclic(t.nodes, KnownBefore(t))
<1>1. Acyclic(t.nodes, Up(t)) /\ (OfKind(t, {"join"}) = {} \/ DependenciesValid(t))
  BY TreeFacts
<1>2. DependenciesValid(t) => Acyclic(t.nodes, Up(t) \cup t.deps)
  BY DEF DependenciesValid
<1> QED
  BY <1>1, <1>2 DEF KnownBefore

LEMMA ReducedType == ASSUME NEW S PROVE Reduced(S) \in StepStatuses
BY DEF Reduced, StepStatuses

(* The five ways in which a node has a status.                             *)
AtLeaf(t, f, n) ==
    /\ n \in Steppable(t) /\ f.leaf[n] \in StepStatuses
    /\ \A v : StatusBody(t, f, v, n) = f.leaf[n]
AtFailed(t, f, n) ==
    /\ t.kind[n] = "choice" /\ f.events # <<>> /\ Last(f.events).selected = 0
    /\ \A v : StatusBody(t, f, v, n) = "failed"
AtChosen(t, f, n) ==
    /\ t.kind[n] = "choice" /\ f.events # <<>> /\ Last(f.events).selected # 0
    /\ n = Choice(t) /\ Last(f.events).selected \in Kids(t, n)
    /\ <<Last(f.events).selected, n>> \in KnownBefore(t)
    /\ \A v : StatusBody(t, f, v, n) = v[Last(f.events).selected]
AtJoin(t, f, n) ==
    /\ t.kind[n] = "join" /\ n \notin Steppable(t)
    /\ \A p \in Prerequisites(t, n) : <<p, n>> \in KnownBefore(t)
    /\ \A v : StatusBody(t, f, v, n) = Reduced({v[p] : p \in Prerequisites(t, n)})
AtInner(t, f, n) ==
    /\ t.kind[n] \in Internal /\ n \notin Steppable(t)
    /\ t.kind[n] = "choice" => f.events = <<>>
    /\ \A c \in Kids(t, n) : <<c, n>> \in KnownBefore(t)
    /\ \A v : StatusBody(t, f, v, n) = Reduced({v[c] : c \in Kids(t, n)})

LEMMA StatusCases ==
  ASSUME NEW t, IsTaskTree(t), NEW f, Readable(t, f), NEW n \in t.nodes
  PROVE  \/ AtLeaf(t, f, n) \/ AtFailed(t, f, n) \/ AtChosen(t, f, n)
         \/ AtJoin(t, f, n) \/ AtInner(t, f, n)
<1>1. ShapeOK(t) /\ Kids(t, n) \subseteq t.nodes
      /\ (t.version = 4 => OfKind(t, {"choice"}) = {Choice(t)})
  BY TreeFacts
<1>2. t.deps \subseteq t.nodes \X t.nodes /\ t.kind[n] \in Kinds
  BY <1>1 DEF ShapeOK
<1>3. \A c \in Kids(t, n) : <<c, n>> \in KnownBefore(t)
  BY <1>1 DEF KnownBefore, Up
<1>4. n \in Steppable(t) <=> t.kind[n] \notin Internal /\ t.kind[n] # "join"
  BY <1>2 DEF Steppable, OfKind
<1>5. CASE n \in Steppable(t)
  <2>1. f.leaf[n] \in StepStatuses
    BY <1>5 DEF Readable
  <2>2. \A v : StatusBody(t, f, v, n) = f.leaf[n]
    <3>1. t.kind[n] # "join" /\ t.kind[n] # "choice"
      BY <1>4, <1>5 DEF Internal
    <3> QED
      BY <1>5, <3>1 DEF StatusBody
  <2> QED
    BY <1>5, <2>1, <2>2 DEF AtLeaf
<1>6. CASE t.kind[n] = "join"
  <2>1. n \notin Steppable(t)
    BY <1>4, <1>6
  <2>2. \A p \in Prerequisites(t, n) : <<p, n>> \in KnownBefore(t)
    BY <1>6 DEF Prerequisites, KnownBefore, OfKind
  <2> QED
    BY <1>6, <2>1, <2>2 DEF StatusBody, AtJoin
<1>7. CASE t.kind[n] = "choice" /\ f.events # <<>>
  <2>1. n \notin Steppable(t)
    BY <1>4, <1>7 DEF Internal
  <2>2. n = Choice(t) /\ Last(f.events).selected \in Kids(t, n) \cup {0}
    BY <1>1, <1>7 DEF Readable, OfKind
  <2> QED
    BY <1>3, <1>7, <2>1, <2>2 DEF StatusBody, AtChosen, AtFailed
<1>8. CASE t.kind[n] \in Internal /\ (t.kind[n] = "choice" => f.events = <<>>)
  <2>1. n \notin Steppable(t) /\ t.kind[n] # "join"
    BY <1>4, <1>8 DEF Internal
  <2>2. \A v : StatusBody(t, f, v, n) = Reduced({v[c] : c \in Kids(t, n)})
    BY <1>8, <2>1 DEF StatusBody
  <2> QED
    BY <1>3, <1>8, <2>1, <2>2 DEF AtInner
<1>9. \/ n \in Steppable(t) \/ t.kind[n] = "join"
      \/ t.kind[n] = "choice" /\ f.events # <<>>
      \/ t.kind[n] \in Internal /\ (t.kind[n] = "choice" => f.events = <<>>)
  BY <1>4
<1> QED
  BY <1>5, <1>6, <1>7, <1>8, <1>9

LEMMA StatusType ==
  ASSUME NEW t, IsTaskTree(t), NEW f, Readable(t, f), NEW n \in t.nodes,
         NEW v, \A m \in t.nodes : <<m, n>> \in KnownBefore(t) => v[m] \in StepStatuses
  PROVE  StatusBody(t, f, v, n) \in StepStatuses
<1>1. Kids(t, n) \subseteq t.nodes
  BY TreeFacts
<1>2. CASE AtLeaf(t, f, n) \/ AtFailed(t, f, n)
  BY <1>2 DEF AtLeaf, AtFailed, StepStatuses
<1>3. CASE AtChosen(t, f, n)
  BY <1>1, <1>3 DEF AtChosen
<1>4. CASE AtJoin(t, f, n) \/ AtInner(t, f, n)
  BY <1>4, ReducedType DEF AtJoin, AtInner
<1> QED
  BY <1>2, <1>3, <1>4, StatusCases

LEMMA StatusLocal ==
  ASSUME NEW t, IsTaskTree(t), NEW f, Readable(t, f), NEW n \in t.nodes,
         NEW v, NEW w, \A m \in t.nodes : <<m, n>> \in KnownBefore(t) => v[m] = w[m]
  PROVE  StatusBody(t, f, v, n) = StatusBody(t, f, w, n)
<1>1. Kids(t, n) \subseteq t.nodes /\ Prerequisites(t, n) \subseteq t.nodes
  BY TreeFacts DEF Prerequisites
<1>2. ASSUME NEW S \in SUBSET t.nodes, \A m \in S : <<m, n>> \in KnownBefore(t)
      PROVE  {v[p] : p \in S} = {w[p] : p \in S}
  <2>1. \A m \in S : v[m] = w[m]
    BY <1>2
  <2> QED
    BY <2>1
<1>3. CASE AtLeaf(t, f, n) \/ AtFailed(t, f, n)
  BY <1>3 DEF AtLeaf, AtFailed
<1>4. CASE AtChosen(t, f, n)
  BY <1>1, <1>4 DEF AtChosen
<1>5. CASE AtJoin(t, f, n)
  BY <1>1, <1>2, <1>5 DEF AtJoin
<1>6. CASE AtInner(t, f, n)
  BY <1>1, <1>2, <1>6 DEF AtInner
<1> QED
  BY <1>3, <1>4, <1>5, <1>6, StatusCases

LEMMA StatusesAre ==
  ASSUME NEW t, IsTaskTree(t), NEW f, Readable(t, f)
  PROVE  /\ Statuses(t, f) \in [t.nodes -> StepStatuses]
         /\ \A n \in t.nodes : Statuses(t, f)[n] = StatusBody(t, f, Statuses(t, f), n)
<1> DEFINE N == t.nodes
           V == StepStatuses
           E == KnownBefore(t)
           G == [n \in N |-> [v \in [N -> V] |-> StatusBody(t, f, v, n)]]
<1>1. Acyclic(N, E)
  BY BeforeIsAcyclic
<1>2. TypedSteps(N, V, G)
  BY StatusType DEF TypedSteps, StepStatuses
<1>3. Local(N, E, V, G)
  BY StatusLocal DEF Local
<1>4. \A n \in N : \A v \in [N -> V] : G[n][v] = StatusBody(t, f, v, n)
  OBVIOUS
<1> HIDE DEF N, V, E, G
<1>5. PICK w \in [N -> V] : \A n \in N : w[n] = G[n][w]
  BY <1>1, <1>2, <1>3, Recursion
<1>6. AreStatuses(t, f, w)
  BY <1>4, <1>5 DEF AreStatuses, N
<1> DEFINE s == CHOOSE v : AreStatuses(t, f, v)
<1>7. AreStatuses(t, f, s)
  BY <1>6
<1>8. Statuses(t, f) = s
  BY StatusesIs
<1> HIDE DEF s
<1>9. DOMAIN s = N /\ \A n \in N : s[n] = StatusBody(t, f, s, n)
  BY <1>7 DEF AreStatuses, N
<1>10. \A n \in N : s[n] \in StepStatuses
  <2> DEFINE Bad == {n \in N : s[n] \notin StepStatuses}
  <2>1. SUFFICES ASSUME Bad # {} PROVE FALSE
    OBVIOUS
  <2>2. PICK n \in Bad : \A m \in Bad : <<m, n>> \notin E
    BY <1>1, <2>1 DEF Acyclic
  <2>3. \A m \in N : <<m, n>> \in E => s[m] \in StepStatuses
    BY <2>2
  <2>4. StatusBody(t, f, s, n) \in StepStatuses
    BY <2>2, <2>3, StatusType DEF N, E
  <2> QED
    BY <1>9, <2>2, <2>4
<1>11. s = [n \in N |-> StatusBody(t, f, s, n)]
  BY <1>7 DEF AreStatuses, N
<1>12. s \in [N -> StepStatuses]
  BY <1>9, <1>10, <1>11
<1> QED
  BY <1>8, <1>9, <1>12 DEF N

-----------------------------------------------------------------------------
(* Which leaves may be started.                                            *)

(* Every set of numbers that is not empty has a least one.                 *)
LEMMA LeastOf ==
  ASSUME NEW I \in SUBSET Nat, I # {}
  PROVE  Min(I) \in I /\ \A i \in I : Min(I) <= i
<1>1. \E n \in I : \A m \in I : <<m, n>> \notin OpToRel(<, Nat)
  BY NatLessThanWellFounded, WFMin, Zenon
<1>2. PICK n \in I : \A m \in I : <<m, n>> \notin OpToRel(<, Nat)
  BY <1>1
<1>3. ASSUME NEW m \in I PROVE n <= m
  <2>1. <<m, n>> \notin OpToRel(<, Nat)
    BY <1>2
  <2>2. ~(m < n)
    BY <2>1 DEF OpToRel
  <2> QED
    BY <2>2
<1> QED
  BY <1>2, <1>3 DEF Min

LEMMA FirstOpenIs ==
  ASSUME NEW t, NEW n, NEW status, NEW N, t.kids[n] \in Seq(N),
         \E c \in Kids(t, n) : status[c] # "completed"
  PROVE  FirstOpen(t, n, status) \in Kids(t, n)
         /\ status[FirstOpen(t, n, status)] # "completed"
<1> DEFINE I == {i \in 1..Len(t.kids[n]) : status[t.kids[n][i]] # "completed"}
<1>1. DOMAIN t.kids[n] = 1..Len(t.kids[n]) /\ Len(t.kids[n]) \in Nat
  OBVIOUS
<1>2. I \in SUBSET Nat
  BY <1>1
<1>3. I # {}
  BY <1>1 DEF Kids, Range
<1>4. FirstOpen(t, n, status) = t.kids[n][Min(I)]
  BY <1>3 DEF FirstOpen, SelectInSeq
<1> HIDE DEF I
<1>5. Min(I) \in I
  BY <1>2, <1>3, LeastOf
<1> QED
  BY <1>1, <1>4, <1>5 DEF I, Kids, Range

(* What the walk takes from a node to one of its children.                 *)
Passes(t, f, n, c) ==
    /\ Statuses(t, f)[n] \notin Terminal /\ c \in Kids(t, n) /\ n \notin Steppable(t)
    /\ \/ t.kind[n] = "choice" /\ f.events # <<>> /\ c = Last(f.events).selected
       \/ t.kind[n] \in {"goal", "sequence"} /\ Statuses(t, f)[c] # "completed"
       \/ t.kind[n] = "parallel" /\ t.version >= 3

(* A leaf is found at itself, or at a node that passes to a child where it *)
(* is found.                                                               *)
Found(t, f, x) ==
    /\ x \in Steppable(t) /\ Statuses(t, f)[x] \notin Terminal
    /\ \A p \in Prerequisites(t, x) : Statuses(t, f)[p] = "completed"
Reaches(t, f, v) ==
    \A n \in t.nodes : \A x \in v[n] :
        \/ x = n /\ Found(t, f, n)
        \/ \E c \in Kids(t, n) : Passes(t, f, n, c) /\ x \in v[c]

ReadyBody(t, f, v, n) ==
    IF Statuses(t, f)[n] \in Terminal THEN {}
      ELSE IF n \in Steppable(t) THEN
            IF \A p \in Prerequisites(t, n) : Statuses(t, f)[p] = "completed"
            THEN {n} ELSE {}
      ELSE IF t.kind[n] = "choice" /\ f.events # <<>> THEN v[Last(f.events).selected]
      ELSE IF t.kind[n] \in {"goal", "sequence"} THEN v[FirstOpen(t, n, Statuses(t, f))]
      ELSE IF t.kind[n] = "parallel" THEN UNION {v[c] : c \in Kids(t, n)}
      ELSE {}
OrderedBody(t, f, v, n) ==
    IF Statuses(t, f)[n] \in Terminal THEN {}
      ELSE IF n \in Steppable(t) THEN {n}
      ELSE IF t.kind[n] \in {"goal", "sequence"} THEN v[FirstOpen(t, n, Statuses(t, f))]
      ELSE {}
IsReady(t, f, v) == v = [n \in t.nodes |-> ReadyBody(t, f, v, n)]
IsOrdered(t, f, v) == v = [n \in t.nodes |-> OrderedBody(t, f, v, n)]

LEMMA ReadyLeavesIs ==
  ASSUME NEW t, NEW f PROVE ReadyLeaves(t, f) = (CHOOSE v : IsReady(t, f, v))[t.root]
BY DEF ReadyLeaves, IsReady, ReadyBody

LEMMA NextOrderedLeafIs ==
  ASSUME NEW t, NEW f PROVE NextOrderedLeaf(t, f) = (CHOOSE v : IsOrdered(t, f, v))[t.root]
BY DEF NextOrderedLeaf, IsOrdered, OrderedBody

(* A sequence that is still open has a child that is not completed.        *)
LEMMA OpenChild ==
  ASSUME NEW t, IsTaskTree(t), NEW f, Readable(t, f), NEW n \in t.nodes,
         t.kind[n] \in {"goal", "sequence"}, Statuses(t, f)[n] \notin Terminal
  PROVE  /\ FirstOpen(t, n, Statuses(t, f)) \in Kids(t, n)
         /\ Statuses(t, f)[FirstOpen(t, n, Statuses(t, f))] # "completed"
<1> DEFINE S == Statuses(t, f)
<1>1. NodeValid(t, n) /\ ShapeOK(t)
  BY TreeFacts
<1>2. t.kids[n] \in Seq(t.nodes) /\ t.kids[n] # <<>>
  BY <1>1 DEF NodeValid, ShapeOK, Internal
<1>3. Len(t.kids[n]) > 0 /\ t.kids[n][1] \in Kids(t, n)
  BY <1>2 DEF Kids, Range
<1>4. S[n] = StatusBody(t, f, S, n)
  BY StatusesAre
<1>5. AtInner(t, f, n)
  BY <1>1, StatusCases DEF AtLeaf, AtFailed, AtChosen, AtJoin, Steppable, OfKind, Internal
<1> HIDE DEF S
<1>6. S[n] = Reduced({S[c] : c \in Kids(t, n)})
  BY <1>4, <1>5 DEF AtInner
<1>7. ASSUME \A c \in Kids(t, n) : S[c] = "completed" PROVE FALSE
  <2>1. {S[c] : c \in Kids(t, n)} = {"completed"}
    BY <1>3, <1>7
  <2>2. S[n] = "completed"
    BY <1>6, <2>1 DEF Reduced
  <2> QED
    BY <2>2 DEF S, Terminal
<1> QED
  BY <1>2, <1>7, FirstOpenIs DEF S

(* One step of a walk: what it finds at a node, and where it goes on.      *)
WalkStep(t, f, n, here, on) ==
    /\ here \subseteq {n} /\ on \subseteq Kids(t, n)
    /\ here # {} => Found(t, f, n)
    /\ \A c \in on : Passes(t, f, n, c)
Walks(v, n, here, on) == here \cup UNION {v[c] : c \in on}

LEMMA ReadyStep ==
  ASSUME NEW t, IsTaskTree(t), NEW f, Readable(t, f), t.version >= 3, NEW n \in t.nodes
  PROVE  \E here, on : /\ WalkStep(t, f, n, here, on)
                       /\ \A v : ReadyBody(t, f, v, n) = Walks(v, n, here, on)
<1> DEFINE S == Statuses(t, f)
           F == FirstOpen(t, n, S)
<1>1. CASE S[n] \in Terminal
  <2>1. \A v : ReadyBody(t, f, v, n) = Walks(v, n, {}, {})
    BY <1>1 DEF ReadyBody, Walks
  <2>2. WalkStep(t, f, n, {}, {})
    BY DEF WalkStep
  <2> QED
    BY <2>1, <2>2
<1>2. CASE S[n] \notin Terminal /\ n \in Steppable(t)
           /\ \A p \in Prerequisites(t, n) : S[p] = "completed"
  <2>1. \A v : ReadyBody(t, f, v, n) = Walks(v, n, {n}, {})
    BY <1>2 DEF ReadyBody, Walks
  <2>2. WalkStep(t, f, n, {n}, {})
    BY <1>2 DEF WalkStep, Found
  <2> QED
    BY <2>1, <2>2
<1>3. CASE S[n] \notin Terminal /\ n \in Steppable(t)
           /\ ~(\A p \in Prerequisites(t, n) : S[p] = "completed")
  <2>1. \A v : ReadyBody(t, f, v, n) = Walks(v, n, {}, {})
    BY <1>3 DEF ReadyBody, Walks
  <2>2. WalkStep(t, f, n, {}, {})
    BY DEF WalkStep
  <2> QED
    BY <2>1, <2>2
<1>4. CASE S[n] \notin Terminal /\ n \notin Steppable(t)
           /\ t.kind[n] = "choice" /\ f.events # <<>>
  <2> DEFINE s == Last(f.events).selected
  <2>1. \A v : ReadyBody(t, f, v, n) = Walks(v, n, {}, {s})
    BY <1>4 DEF ReadyBody, Walks
  <2>2. s \in Kids(t, n)
    <3>1. AtFailed(t, f, n) \/ AtChosen(t, f, n)
      BY <1>4, StatusCases DEF AtLeaf, AtJoin, AtInner
    <3>2. ~AtFailed(t, f, n)
      <4>1. S[n] = StatusBody(t, f, S, n)
        BY StatusesAre
      <4> HIDE DEF S
      <4> QED
        BY <1>4, <4>1 DEF AtFailed, Terminal, Stopped
    <3> QED
      BY <3>1, <3>2 DEF AtChosen
  <2>3. WalkStep(t, f, n, {}, {s})
    BY <1>4, <2>2 DEF WalkStep, Passes
  <2> QED
    BY <2>1, <2>3
<1>5. CASE S[n] \notin Terminal /\ n \notin Steppable(t) /\ t.kind[n] \in {"goal", "sequence"}
  <2>1. \A v : ReadyBody(t, f, v, n) = Walks(v, n, {}, {F})
    BY <1>5 DEF ReadyBody, Walks
  <2>2. F \in Kids(t, n) /\ S[F] # "completed"
    BY <1>5, OpenChild
  <2>3. WalkStep(t, f, n, {}, {F})
    BY <1>5, <2>2 DEF WalkStep, Passes
  <2> QED
    BY <2>1, <2>3
<1>6. CASE S[n] \notin Terminal /\ n \notin Steppable(t) /\ t.kind[n] = "parallel"
  <2>1. \A v : ReadyBody(t, f, v, n) = Walks(v, n, {}, Kids(t, n))
    BY <1>6 DEF ReadyBody, Walks
  <2>2. WalkStep(t, f, n, {}, Kids(t, n))
    BY <1>6 DEF WalkStep, Passes
  <2> QED
    BY <2>1, <2>2
<1>7. CASE S[n] \notin Terminal /\ n \notin Steppable(t)
           /\ t.kind[n] \notin {"goal", "sequence", "parallel"}
           /\ ~(t.kind[n] = "choice" /\ f.events # <<>>)
  <2>1. \A v : ReadyBody(t, f, v, n) = Walks(v, n, {}, {})
    BY <1>7 DEF ReadyBody, Walks
  <2>2. WalkStep(t, f, n, {}, {})
    BY DEF WalkStep
  <2> QED
    BY <2>1, <2>2
<1> QED
  BY <1>1, <1>2, <1>3, <1>4, <1>5, <1>6, <1>7

LEMMA OrderedStep ==
  ASSUME NEW t, IsTaskTree(t), NEW f, Readable(t, f), t.version < 3, NEW n \in t.nodes
  PROVE  \E here, on : /\ WalkStep(t, f, n, here, on)
                       /\ \A v : OrderedBody(t, f, v, n) = Walks(v, n, here, on)
<1> DEFINE S == Statuses(t, f)
           F == FirstOpen(t, n, S)
<1>1. CASE S[n] \notin Terminal /\ n \in Steppable(t)
  <2>1. \A v : OrderedBody(t, f, v, n) = Walks(v, n, {n}, {})
    BY <1>1 DEF OrderedBody, Walks
  <2>2. Prerequisites(t, n) = {}
    BY TreeFacts DEF Prerequisites
  <2>3. WalkStep(t, f, n, {n}, {})
    BY <1>1, <2>2 DEF WalkStep, Found
  <2> QED
    BY <2>1, <2>3
<1>2. CASE S[n] \notin Terminal /\ n \notin Steppable(t) /\ t.kind[n] \in {"goal", "sequence"}
  <2>1. \A v : OrderedBody(t, f, v, n) = Walks(v, n, {}, {F})
    BY <1>2 DEF OrderedBody, Walks
  <2>2. F \in Kids(t, n) /\ S[F] # "completed"
    BY <1>2, OpenChild
  <2>3. WalkStep(t, f, n, {}, {F})
    BY <1>2, <2>2 DEF WalkStep, Passes
  <2> QED
    BY <2>1, <2>3
<1>3. CASE S[n] \in Terminal
  <2>1. \A v : OrderedBody(t, f, v, n) = Walks(v, n, {}, {})
    BY <1>3 DEF OrderedBody, Walks
  <2>2. WalkStep(t, f, n, {}, {})
    BY DEF WalkStep
  <2> QED
    BY <2>1, <2>2
<1>4. CASE S[n] \notin Terminal /\ n \notin Steppable(t)
           /\ t.kind[n] \notin {"goal", "sequence"}
  <2>1. \A v : OrderedBody(t, f, v, n) = Walks(v, n, {}, {})
    BY <1>4 DEF OrderedBody, Walks
  <2>2. WalkStep(t, f, n, {}, {})
    BY DEF WalkStep
  <2> QED
    BY <2>1, <2>2
<1> QED
  BY <1>1, <1>2, <1>3, <1>4

(* Walks that go on to children only come to an end.                       *)
LEMMA WalkExists ==
  ASSUME NEW t, IsTaskTree(t), NEW f, NEW here, NEW on,
         \A n \in t.nodes : WalkStep(t, f, n, here[n], on[n])
  PROVE  \E w \in [t.nodes -> SUBSET t.nodes] :
            \A n \in t.nodes : w[n] = Walks(w, n, here[n], on[n])
<1> DEFINE N == t.nodes
           V == SUBSET N
           E == Up(t)
           G == [n \in N |-> [v \in [N -> V] |-> Walks(v, n, here[n], on[n])]]
<1>1. Acyclic(N, E) /\ \A n \in N : Kids(t, n) \subseteq N
  BY TreeFacts
<1>2. \A n \in N : \A v \in [N -> V] : G[n][v] \in V
  <2> SUFFICES ASSUME NEW n \in N, NEW v \in [N -> V] PROVE Walks(v, n, here[n], on[n]) \in V
    OBVIOUS
  <2>1. here[n] \subseteq N /\ on[n] \subseteq N
    BY <1>1 DEF WalkStep
  <2>2. \A c \in on[n] : v[c] \subseteq N
    BY <2>1
  <2> QED
    BY <2>1, <2>2 DEF Walks
<1>3. TypedSteps(N, V, G)
  BY <1>2 DEF TypedSteps
<1>4. Local(N, E, V, G)
  <2> SUFFICES ASSUME NEW n \in N, NEW v \in [N -> V], NEW w \in [N -> V],
                      \A m \in N : <<m, n>> \in E => v[m] = w[m]
               PROVE  Walks(v, n, here[n], on[n]) = Walks(w, n, here[n], on[n])
    BY DEF Local
  <2>1. \A c \in on[n] : v[c] = w[c]
    BY <1>1 DEF WalkStep, Up
  <2>2. UNION {v[c] : c \in on[n]} = UNION {w[c] : c \in on[n]}
    BY <2>1
  <2> QED
    BY <2>2 DEF Walks
<1>5. \A n \in N : \A v \in [N -> V] : G[n][v] = Walks(v, n, here[n], on[n])
  OBVIOUS
<1> HIDE DEF N, V, E, G
<1>6. PICK w \in [N -> V] : \A n \in N : w[n] = G[n][w]
  BY <1>1, <1>3, <1>4, Recursion
<1> QED
  BY <1>5, <1>6 DEF N, V

LEMMA WalkReaches ==
  ASSUME NEW t, NEW f, NEW v, NEW here, NEW on,
         \A n \in t.nodes : WalkStep(t, f, n, here[n], on[n])
                            /\ v[n] = Walks(v, n, here[n], on[n])
  PROVE  Reaches(t, f, v)
<1> SUFFICES ASSUME NEW n \in t.nodes, NEW x \in v[n]
             PROVE  \/ x = n /\ Found(t, f, n)
                    \/ \E c \in Kids(t, n) : Passes(t, f, n, c) /\ x \in v[c]
  BY DEF Reaches
<1>1. WalkStep(t, f, n, here[n], on[n]) /\ x \in Walks(v, n, here[n], on[n])
  OBVIOUS
<1>2. CASE x \in here[n]
  BY <1>1, <1>2 DEF WalkStep
<1>3. CASE x \notin here[n]
  <2>1. PICK c \in on[n] : x \in v[c]
    BY <1>1, <1>3 DEF Walks
  <2> QED
    BY <1>1, <2>1 DEF WalkStep
<1> QED
  BY <1>2, <1>3

(* What compile_next_leaf starts from.                                     *)
Startable(t, f) == IF t.version < 3 THEN NextOrderedLeaf(t, f) ELSE ReadyLeaves(t, f)

LEMMA StartableReached ==
  ASSUME NEW t, IsTaskTree(t), NEW f, Readable(t, f)
  PROVE  \E v : Reaches(t, f, v) /\ Startable(t, f) = v[t.root]
<1>0. t.version \in 1..4
  <2>1. ShapeOK(t)
    BY TreeFacts
  <2> QED
    BY <2>1 DEF ShapeOK
<1>1. CASE t.version >= 3
  <2> DEFINE Walk(n, s) == /\ WalkStep(t, f, n, s[1], s[2])
                           /\ \A v : ReadyBody(t, f, v, n) = Walks(v, n, s[1], s[2])
             step == [n \in t.nodes |-> CHOOSE s : Walk(n, s)]
             here == [n \in t.nodes |-> step[n][1]]
             on == [n \in t.nodes |-> step[n][2]]
  <2>1. \A n \in t.nodes : Walk(n, CHOOSE s : Walk(n, s))
    <3> SUFFICES ASSUME NEW n \in t.nodes PROVE \E s : Walk(n, s)
      OBVIOUS
    <3>1. PICK a, b : /\ WalkStep(t, f, n, a, b)
                      /\ \A v : ReadyBody(t, f, v, n) = Walks(v, n, a, b)
      BY <1>1, ReadyStep
    <3>2. Walk(n, <<a, b>>)
      BY <3>1
    <3> QED
      BY <3>2
  <2>2. \A n \in t.nodes : /\ WalkStep(t, f, n, here[n], on[n])
                           /\ \A v : ReadyBody(t, f, v, n) = Walks(v, n, here[n], on[n])
    BY <2>1
  <2> HIDE DEF here, on
  <2>3. PICK w \in [t.nodes -> SUBSET t.nodes] :
                \A n \in t.nodes : w[n] = Walks(w, n, here[n], on[n])
    BY <2>2, WalkExists
  <2>4. IsReady(t, f, w)
    BY <2>2, <2>3 DEF IsReady
  <2> DEFINE r == CHOOSE v : IsReady(t, f, v)
  <2>5. IsReady(t, f, r) /\ ReadyLeaves(t, f) = r[t.root]
    BY <2>4, ReadyLeavesIs
  <2> HIDE DEF r
  <2>6. \A n \in t.nodes : r[n] = ReadyBody(t, f, r, n)
    BY <2>5 DEF IsReady
  <2>7. Reaches(t, f, r)
    BY <2>2, <2>6, WalkReaches
  <2>8. ~(t.version < 3)
    BY <1>0, <1>1
  <2> QED
    BY <2>5, <2>7, <2>8 DEF Startable
<1>2. CASE t.version < 3
  <2> DEFINE Walk(n, s) == /\ WalkStep(t, f, n, s[1], s[2])
                           /\ \A v : OrderedBody(t, f, v, n) = Walks(v, n, s[1], s[2])
             step == [n \in t.nodes |-> CHOOSE s : Walk(n, s)]
             here == [n \in t.nodes |-> step[n][1]]
             on == [n \in t.nodes |-> step[n][2]]
  <2>1. \A n \in t.nodes : Walk(n, CHOOSE s : Walk(n, s))
    <3> SUFFICES ASSUME NEW n \in t.nodes PROVE \E s : Walk(n, s)
      OBVIOUS
    <3>1. PICK a, b : /\ WalkStep(t, f, n, a, b)
                      /\ \A v : OrderedBody(t, f, v, n) = Walks(v, n, a, b)
      BY <1>2, OrderedStep
    <3>2. Walk(n, <<a, b>>)
      BY <3>1
    <3> QED
      BY <3>2
  <2>2. \A n \in t.nodes : /\ WalkStep(t, f, n, here[n], on[n])
                           /\ \A v : OrderedBody(t, f, v, n) = Walks(v, n, here[n], on[n])
    BY <2>1
  <2> HIDE DEF here, on
  <2>3. PICK w \in [t.nodes -> SUBSET t.nodes] :
                \A n \in t.nodes : w[n] = Walks(w, n, here[n], on[n])
    BY <2>2, WalkExists
  <2>4. IsOrdered(t, f, w)
    BY <2>2, <2>3 DEF IsOrdered
  <2> DEFINE r == CHOOSE v : IsOrdered(t, f, v)
  <2>5. IsOrdered(t, f, r) /\ NextOrderedLeaf(t, f) = r[t.root]
    BY <2>4, NextOrderedLeafIs
  <2> HIDE DEF r
  <2>6. \A n \in t.nodes : r[n] = OrderedBody(t, f, r, n)
    BY <2>5 DEF IsOrdered
  <2>7. Reaches(t, f, r)
    BY <2>2, <2>6, WalkReaches
  <2> QED
    BY <1>2, <2>5, <2>7 DEF Startable
<1>3. t.version >= 3 \/ t.version < 3
  BY <1>0
<1> QED
  BY <1>1, <1>2, <1>3

(* A leaf in X is not found from outside X if no step of the walk leads    *)
(* into X.                                                                 *)
LEMMA Barrier ==
  ASSUME NEW t, IsTaskTree(t), NEW f, NEW v, Reaches(t, f, v),
         NEW X, NEW x \in X,
         \A m \in t.nodes \ X : \A c \in Kids(t, m) \cap X : ~Passes(t, f, m, c)
  PROVE  \A m \in t.nodes \ X : x \notin v[m]
<1> DEFINE Bad == {m \in t.nodes \ X : x \in v[m]}
<1>1. SUFFICES ASSUME Bad # {} PROVE FALSE
  OBVIOUS
<1>2. Acyclic(t.nodes, Up(t)) /\ \A n \in t.nodes : Kids(t, n) \subseteq t.nodes
  BY TreeFacts
<1>3. PICK m \in Bad : \A k \in Bad : <<k, m>> \notin Up(t)
  BY <1>1, <1>2 DEF Acyclic
<1>4. PICK c \in Kids(t, m) : Passes(t, f, m, c) /\ x \in v[c]
  BY <1>3 DEF Reaches
<1>5. c \in t.nodes /\ c \notin X /\ <<c, m>> \in Up(t)
  BY <1>2, <1>3, <1>4 DEF Up
<1> QED
  BY <1>3, <1>4, <1>5

LEMMA FoundFound ==
  ASSUME NEW t, IsTaskTree(t), NEW f, NEW v, Reaches(t, f, v), NEW x
  PROVE  \A m \in t.nodes : x \in v[m] => Found(t, f, x)
<1> DEFINE Bad == {m \in t.nodes : x \in v[m] /\ ~Found(t, f, x)}
<1>1. SUFFICES ASSUME Bad # {} PROVE FALSE
  OBVIOUS
<1>2. Acyclic(t.nodes, Up(t)) /\ \A n \in t.nodes : Kids(t, n) \subseteq t.nodes
  BY TreeFacts
<1>3. PICK m \in Bad : \A k \in Bad : <<k, m>> \notin Up(t)
  BY <1>1, <1>2 DEF Acyclic
<1>4. PICK c \in Kids(t, m) : Passes(t, f, m, c) /\ x \in v[c]
  BY <1>3 DEF Reaches
<1>5. c \in t.nodes /\ <<c, m>> \in Up(t)
  BY <1>2, <1>3, <1>4 DEF Up
<1> QED
  BY <1>3, <1>4, <1>5

LEMMA NoWayIn ==
  ASSUME NEW t, IsTaskTree(t), NEW f, Readable(t, f), NEW X, NEW x \in X, t.root \notin X,
         \A m \in t.nodes \ X : \A c \in Kids(t, m) \cap X : ~Passes(t, f, m, c)
  PROVE  x \notin Startable(t, f)
<1>1. PICK v : Reaches(t, f, v) /\ Startable(t, f) = v[t.root]
  BY StartableReached
<1>2. \A m \in t.nodes \ X : x \notin v[m]
  BY <1>1, Barrier
<1>3. t.root \in t.nodes
  BY TreeFacts DEF ShapeOK
<1> QED
  BY <1>1, <1>2, <1>3

LEMMA StartableFound ==
  ASSUME NEW t, IsTaskTree(t), NEW f, Readable(t, f), NEW x \in Startable(t, f)
  PROVE  Found(t, f, x)
<1>1. PICK v : Reaches(t, f, v) /\ Startable(t, f) = v[t.root]
  BY StartableReached
<1>2. t.root \in t.nodes
  BY TreeFacts DEF ShapeOK
<1> QED
  BY <1>1, <1>2, FoundFound

LEMMA StartsAreStartable ==
  ASSUME NEW t, NEW f, NEW n, NEW target, LeafMoves(t, f, n, target), f.leaf[n] = "pending"
  PROVE  n \in Startable(t, f) /\ Active(t, f) = {}
BY DEF LeafMoves, Boundary, Startable

-----------------------------------------------------------------------------
(* The branches of the choice.                                             *)

LEMMA ChildHasOneParent ==
  ASSUME NEW t, IsTaskTree(t), NEW m \in t.nodes, NEW n \in t.nodes, NEW c,
         c \in Kids(t, m), c \in Kids(t, n)
  PROVE  m = n
BY TreeFacts

LEMMA AboveIsInside ==
  ASSUME NEW t, IsTaskTree(t), NEW d, NEW q \in t.nodes, d \in Kids(t, q)
  PROVE  \A b \in t.nodes : d \in Descendants(t, b) => q = b \/ q \in Descendants(t, b)
<1> DEFINE Bad == {b \in t.nodes : d \in Descendants(t, b) /\ q # b /\ q \notin Descendants(t, b)}
<1>1. SUFFICES ASSUME Bad # {} PROVE FALSE
  OBVIOUS
<1>2. Acyclic(t.nodes, Up(t)) /\ \A n \in t.nodes : Kids(t, n) \subseteq t.nodes
  BY TreeFacts
<1>3. PICK b \in Bad : \A k \in Bad : <<k, b>> \notin Up(t)
  BY <1>1, <1>2 DEF Acyclic
<1>4. d \notin Kids(t, b)
  BY <1>3, ChildHasOneParent
<1>5. PICK c \in Kids(t, b) : d \in Descendants(t, c)
  BY <1>3, <1>4, Below
<1>6. c \in t.nodes /\ <<c, b>> \in Up(t)
  BY <1>2, <1>3, <1>5 DEF Up
<1>7. q = c \/ q \in Descendants(t, c)
  BY <1>3, <1>5, <1>6
<1> QED
  BY <1>3, <1>5, <1>7, Below

LEMMA BelowIsInside ==
  ASSUME NEW t, IsTaskTree(t), NEW q \in t.nodes, NEW d \in Kids(t, q)
  PROVE  \A b \in t.nodes : q \in Descendants(t, b) => d \in Descendants(t, b)
<1> DEFINE Bad == {b \in t.nodes : q \in Descendants(t, b) /\ d \notin Descendants(t, b)}
<1>1. SUFFICES ASSUME Bad # {} PROVE FALSE
  OBVIOUS
<1>2. Acyclic(t.nodes, Up(t)) /\ \A n \in t.nodes : Kids(t, n) \subseteq t.nodes
  BY TreeFacts
<1>3. PICK b \in Bad : \A k \in Bad : <<k, b>> \notin Up(t)
  BY <1>1, <1>2 DEF Acyclic
<1>4. PICK c \in Kids(t, b) : q = c \/ q \in Descendants(t, c)
  BY <1>3, Below
<1>5. c \in t.nodes /\ <<c, b>> \in Up(t)
  BY <1>2, <1>3, <1>4 DEF Up
<1>6. d \in Descendants(t, c)
  BY <1>3, <1>4, <1>5, Below
<1> QED
  BY <1>3, <1>4, <1>6, Below

LEMMA InsideIsChild ==
  ASSUME NEW t, IsTaskTree(t), NEW d
  PROVE  \A b \in t.nodes : d \in Descendants(t, b) => \E q \in t.nodes : d \in Kids(t, q)
<1> DEFINE Bad == {b \in t.nodes : d \in Descendants(t, b)
                                   /\ ~\E q \in t.nodes : d \in Kids(t, q)}
<1>1. SUFFICES ASSUME Bad # {} PROVE FALSE
  OBVIOUS
<1>2. Acyclic(t.nodes, Up(t)) /\ \A n \in t.nodes : Kids(t, n) \subseteq t.nodes
  BY TreeFacts
<1>3. PICK b \in Bad : \A k \in Bad : <<k, b>> \notin Up(t)
  BY <1>1, <1>2 DEF Acyclic
<1>4. PICK c \in Kids(t, b) : d \in Descendants(t, c)
  BY <1>3, Below
<1>5. c \in t.nodes /\ <<c, b>> \in Up(t)
  BY <1>2, <1>3, <1>4 DEF Up
<1> QED
  BY <1>3, <1>4, <1>5

(* What is known of a branch of the choice and of its gate.                *)
LEMMA BranchFacts ==
  ASSUME NEW t, IsTaskTree(t), t.version = 4, NEW b \in Kids(t, Choice(t))
  PROVE  /\ Choice(t) \in t.nodes /\ b \in t.nodes /\ b # Choice(t)
         /\ t.kind[b] = "sequence" /\ Choice(t) \notin Descendants(t, b)
         /\ t.kids[b] \in Seq(t.nodes) /\ Len(t.kids[b]) >= 2
         /\ Gate(t, b) \in Kids(t, b) /\ Gate(t, b) \in Descendants(t, b)
         /\ Gate(t, b) \in Steppable(t) /\ t.kind[Gate(t, b)] = "condition"
         /\ t.root \notin {b} \cup Descendants(t, b)
<1> DEFINE C == Choice(t)
<1>1. OfKind(t, {"choice"}) = {C} /\ ChoiceShape(t, C)
  BY TreeFacts
<1>2. C \in t.nodes /\ t.kind[C] = "choice"
  BY <1>1 DEF OfKind
<1>3. b \in t.nodes /\ ShapeOK(t) /\ b # t.root
  BY <1>2, TreeFacts
<1>4. /\ t.kind[b] = "sequence" /\ Len(t.kids[b]) >= 2
      /\ t.kind[Head(t.kids[b])] = "condition"
      /\ Descendants(t, b) \cap OfKind(t, {"choice"}) = {}
  BY <1>1 DEF ChoiceShape
<1>5. t.kids[b] \in Seq(t.nodes)
  BY <1>3 DEF ShapeOK
<1>6. Gate(t, b) = t.kids[b][1] /\ Gate(t, b) \in Kids(t, b)
  BY <1>4, <1>5 DEF Gate, Kids, Range
<1>7. Gate(t, b) \in t.nodes /\ Gate(t, b) \in Descendants(t, b)
  BY <1>3, <1>6, Below, TreeFacts
<1>8. t.kind[Gate(t, b)] = "condition"
  BY <1>4 DEF Gate
<1>9. Gate(t, b) \in Steppable(t)
  BY <1>7, <1>8 DEF Steppable, OfKind, Kinds, Internal
<1>10. t.root \notin Descendants(t, b)
  BY <1>3, InsideIsChild, TreeFacts
<1> QED
  BY <1>1, <1>2, <1>3, <1>4, <1>5, <1>6, <1>7, <1>8, <1>9, <1>10

LEMMA BranchesApart ==
  ASSUME NEW t, IsTaskTree(t), t.version = 4,
         NEW b \in Kids(t, Choice(t)), NEW c \in Kids(t, Choice(t)), b # c
  PROVE  /\ b \notin Descendants(t, c)
         /\ Descendants(t, b) \cap Descendants(t, c) = {}
<1> DEFINE C == Choice(t)
<1>0. ASSUME NEW x \in Kids(t, C), NEW y \in Kids(t, C), x # y
      PROVE  x \notin Descendants(t, y)
  <2>1. C \in t.nodes /\ C # y /\ C \notin Descendants(t, y) /\ y \in t.nodes
    BY <1>0, BranchFacts
  <2> QED
    BY <1>0, <2>1, AboveIsInside
<1>1. SUFFICES ASSUME NEW d \in Descendants(t, b), d \in Descendants(t, c) PROVE FALSE
  BY <1>0
<1> DEFINE In(x) == {x} \cup Descendants(t, x)
           Bad == {m \in In(c) : m \notin In(b) /\ d \in Descendants(t, m)}
<1>2. Acyclic(t.nodes, Up(t)) /\ \A n \in t.nodes : Kids(t, n) \subseteq t.nodes
  BY TreeFacts
<1>3. /\ C \in t.nodes /\ b \in t.nodes /\ c \in t.nodes
      /\ In(c) \subseteq t.nodes /\ C \notin In(b) /\ C \notin In(c)
  BY BranchFacts, Below
<1>4. c \in Bad
  BY <1>0, <1>1
<1>5. PICK m \in Bad : \A k \in Bad : <<k, m>> \notin Up(t)
  BY <1>2, <1>3, <1>4 DEF Acyclic
<1>6. m \in t.nodes /\ m \notin In(b) /\ m \in In(c) /\ d \in Descendants(t, m)
  BY <1>3, <1>5
<1>7. d \notin Kids(t, m)
  BY <1>3, <1>6, AboveIsInside
<1>8. PICK k \in Kids(t, m) : d \in Descendants(t, k)
  BY <1>6, <1>7, Below
<1>9. k \in t.nodes /\ <<k, m>> \in Up(t)
  BY <1>2, <1>6, <1>8 DEF Up
<1>10. k \in Descendants(t, c)
  BY <1>3, <1>6, <1>8, Below, BelowIsInside
<1>11. k \in In(b)
  BY <1>5, <1>8, <1>9, <1>10
<1>12. k # b
  BY <1>3, <1>6, <1>8, ChildHasOneParent
<1> QED
  BY <1>3, <1>6, <1>8, <1>11, <1>12, AboveIsInside

-----------------------------------------------------------------------------
(* What an event of the choice is.                                         *)

LEMMA PlaceIs ==
  ASSUME NEW N, NEW s \in Seq(N), NEW x
  PROVE  /\ x \in Range(s) => Place(s, x) \in 1..Len(s) /\ s[Place(s, x)] = x
         /\ x \notin Range(s) => Place(s, x) = 0
<1> DEFINE I == {i \in 1..Len(s) : s[i] = x}
<1>1. DOMAIN s = 1..Len(s) /\ I \in SUBSET Nat
  OBVIOUS
<1>2. Place(s, x) = IF I # {} THEN Min(I) ELSE 0
  BY DEF Place, SelectInSeq
<1>3. x \in Range(s) <=> I # {}
  BY <1>1 DEF Range
<1> HIDE DEF I
<1>4. I # {} => Min(I) \in I
  BY <1>1, LeastOf
<1> QED
  BY <1>2, <1>3, <1>4 DEF I

LEMMA TailOf ==
  ASSUME NEW N, NEW s \in Seq(N), NEW p \in 0..Len(s)
  PROVE  /\ SubSeq(s, p + 1, Len(s)) \in Seq(N)
         /\ Len(SubSeq(s, p + 1, Len(s))) = Len(s) - p
         /\ \A i \in 1..Len(s) - p : SubSeq(s, p + 1, Len(s))[i] = s[p + i]
<1> DEFINE u == SubSeq(s, p + 1, Len(s))
<1>1. Len(s) \in Nat /\ p \in Nat /\ p <= Len(s)
  OBVIOUS
<1>2. u = [i \in 1..Len(s) - p |-> s[p + i]]
  BY <1>1
<1>3. \A i \in 1..Len(s) - p : p + i \in 1..Len(s) /\ s[p + i] \in N
  BY <1>1
<1> HIDE DEF u
<1>4. u \in Seq(N)
  BY <1>1, <1>2, <1>3
<1> QED
  BY <1>1, <1>2, <1>4 DEF u

LEMMA DecidingIs ==
  ASSUME NEW N, NEW s \in Seq(N), NEW results
  PROVE  Deciding(s, results) \in 0..Len(s)
<1> DEFINE I == {i \in 1..Len(s) : results[s[i]] # "false"}
<1>1. I \in SUBSET Nat
  OBVIOUS
<1>2. Deciding(s, results) = IF I # {} THEN Min(I) ELSE 0
  BY DEF Deciding, SelectInSeq
<1> HIDE DEF I
<1>3. I # {} => Min(I) \in I
  BY <1>1, LeastOf
<1> QED
  BY <1>2, <1>3 DEF I

(* The branches in the host's order.                                       *)
Order(t) == t.kids[Choice(t)]

LEMMA OrderFacts ==
  ASSUME NEW t, IsTaskTree(t), t.version = 4
  PROVE  /\ Order(t) \in Seq(t.nodes) /\ Len(Order(t)) \in Nat
         /\ Range(Order(t)) = Kids(t, Choice(t))
         /\ \A i \in 1..Len(Order(t)) : Order(t)[i] \in Kids(t, Choice(t)) /\ Order(t)[i] # 0
         /\ \A i, j \in 1..Len(Order(t)) : Order(t)[i] = Order(t)[j] => i = j
         /\ 0 \notin t.nodes /\ Choice(t) \in t.nodes
<1>1. OfKind(t, {"choice"}) = {Choice(t)} /\ ShapeOK(t)
  BY TreeFacts
<1>2. Choice(t) \in t.nodes
  BY <1>1 DEF OfKind
<1>3. NodeValid(t, Choice(t))
  BY <1>2, TreeFacts
<1>4. Order(t) \in Seq(t.nodes) /\ 0 \notin t.nodes
  BY <1>1, <1>2 DEF ShapeOK, Order
<1>5. IsInjective(Order(t))
  BY <1>3 DEF NodeValid, Order
<1>6. DOMAIN Order(t) = 1..Len(Order(t)) /\ Len(Order(t)) \in Nat
  BY <1>4
<1>7. Range(Order(t)) = Kids(t, Choice(t))
  BY DEF Kids, Order
<1> QED
  BY <1>2, <1>4, <1>5, <1>6, <1>7 DEF IsInjective, Range

(* The place of a branch in the order, 0 for none.                         *)
Nth(t, b) == Place(Order(t), b)

LEMMA NthIs ==
  ASSUME NEW t, IsTaskTree(t), t.version = 4
  PROVE  /\ Nth(t, 0) = 0
         /\ \A b \in Kids(t, Choice(t)) :
                Nth(t, b) \in 1..Len(Order(t)) /\ Order(t)[Nth(t, b)] = b
         /\ \A i \in 1..Len(Order(t)) : Nth(t, Order(t)[i]) = i
<1>1. \A x : /\ x \in Range(Order(t)) => /\ Nth(t, x) \in 1..Len(Order(t))
                                         /\ Order(t)[Nth(t, x)] = x
             /\ x \notin Range(Order(t)) => Nth(t, x) = 0
  BY OrderFacts, PlaceIs DEF Nth
<1> QED
  BY <1>1, OrderFacts

(* The gates of the branches after the place p up to the place q.          *)
GatesIn(t, p, q) == {Gate(t, Order(t)[i]) : i \in p + 1..q}

LEMMA ChoiceEventIs ==
  ASSUME NEW t, IsTaskTree(t), t.version = 4,
         NEW fb, fb.source \in Kids(t, Choice(t)) \cup {0}, NEW results
  PROVE  LET branches == Candidates(t, fb)
             e == ChoiceEvent(t, branches, results, fb)
         IN /\ branches \in Seq(t.nodes) /\ Range(branches) \subseteq t.nodes
            /\ e.branches = branches /\ e.results = results /\ e.fallback = fb
            /\ e.selected \in Kids(t, Choice(t)) \cup {0}
            /\ e.selected # 0 => Nth(t, e.selected) > Nth(t, fb.source)
            /\ DecidedGates(t, e) =
                    GatesIn(t, Nth(t, fb.source),
                            IF e.selected = 0 THEN Len(Order(t)) ELSE Nth(t, e.selected))
<1> DEFINE K == Order(t)
           p == Nth(t, fb.source)
           branches == Candidates(t, fb)
           d == Deciding(branches, results)
           e == ChoiceEvent(t, branches, results, fb)
<1>1. /\ K \in Seq(t.nodes) /\ Len(K) \in Nat /\ 0 \notin t.nodes
      /\ \A i, j \in 1..Len(K) : K[i] = K[j] => i = j
      /\ \A i \in 1..Len(K) : K[i] \in Kids(t, Choice(t)) /\ K[i] # 0 /\ Nth(t, K[i]) = i
  BY OrderFacts, NthIs
<1>2. p \in 0..Len(K)
  BY <1>1, NthIs
<1>3. branches = SubSeq(K, p + 1, Len(K))
  BY DEF Candidates, Nth, Order
<1>4. /\ branches \in Seq(t.nodes) /\ Len(branches) = Len(K) - p
      /\ \A i \in 1..Len(branches) : branches[i] = K[p + i]
  <2> HIDE DEF K, p
  <2>1. p \in 0..Len(K) /\ K \in Seq(t.nodes)
    BY <1>1, <1>2
  <2>2. /\ SubSeq(K, p + 1, Len(K)) \in Seq(t.nodes)
        /\ Len(SubSeq(K, p + 1, Len(K))) = Len(K) - p
        /\ \A i \in 1..Len(K) - p : SubSeq(K, p + 1, Len(K))[i] = K[p + i]
    BY <2>1, TailOf
  <2> QED
    BY <1>3, <2>2
<1>5. /\ e.branches = branches /\ e.results = results /\ e.fallback = fb
      /\ e.selected = IF d = 0 THEN 0 ELSE branches[d]
  BY DEF ChoiceEvent
<1> HIDE DEF K, p, branches
<1>6. d \in 0..Len(branches)
  BY <1>4, DecidingIs
<1>7. Range(branches) \subseteq t.nodes
  BY <1>4 DEF Range
<1> HIDE DEF d, e
<1>8. CASE d = 0
  <2>1. e.selected = 0
    BY <1>5, <1>8
  <2>2. DecidedGates(t, e) = {Gate(t, branches[i]) : i \in 1..Len(branches)}
    BY <1>5, <2>1 DEF DecidedGates
  <2>3. DecidedGates(t, e) = GatesIn(t, p, Len(K))
    <3>1. ASSUME NEW i \in 1..Len(branches) PROVE Gate(t, branches[i]) \in GatesIn(t, p, Len(K))
      <4>1. p + i \in p + 1..Len(K) /\ branches[i] = K[p + i]
        BY <1>1, <1>2, <1>4, <3>1
      <4> QED
        BY <4>1 DEF GatesIn, K
    <3>2. ASSUME NEW i \in p + 1..Len(K)
          PROVE  Gate(t, K[i]) \in {Gate(t, branches[j]) : j \in 1..Len(branches)}
      <4>1. i - p \in 1..Len(branches) /\ branches[i - p] = K[i]
        BY <1>1, <1>2, <1>4, <3>2
      <4> QED
        BY <4>1
    <3> QED
      BY <2>2, <3>1, <3>2 DEF GatesIn, K
  <2> QED
    BY <1>4, <1>5, <1>7, <2>1, <2>3 DEF K, p, branches, e
<1>9. CASE d # 0
  <2>1. d \in 1..Len(branches) /\ e.selected = branches[d] /\ branches[d] = K[p + d]
    BY <1>4, <1>5, <1>6, <1>9
  <2>2. p + d \in 1..Len(K) /\ Nth(t, e.selected) = p + d /\ e.selected # 0
        /\ e.selected \in Kids(t, Choice(t))
    BY <1>1, <1>2, <1>4, <2>1
  <2>3. Place(branches, e.selected) = d
    <3>1. e.selected \in Range(branches)
      BY <1>4, <2>1 DEF Range
    <3> DEFINE k == Place(branches, e.selected)
    <3>2. k \in 1..Len(branches) /\ branches[k] = e.selected
      BY <1>4, <3>1, PlaceIs
    <3> HIDE DEF k
    <3>3. p + k \in 1..Len(K) /\ K[p + k] = K[p + d]
      BY <1>1, <1>2, <1>4, <2>1, <3>2
    <3>4. p + k = p + d
      BY <1>1, <2>2, <3>3
    <3> QED
      BY <1>2, <1>4, <2>1, <3>2, <3>4 DEF k
  <2>4. DecidedGates(t, e) = {Gate(t, branches[i]) : i \in 1..d}
    BY <1>5, <2>2, <2>3 DEF DecidedGates
  <2>5. DecidedGates(t, e) = GatesIn(t, p, p + d)
    <3>1. ASSUME NEW i \in 1..d PROVE Gate(t, branches[i]) \in GatesIn(t, p, p + d)
      <4>1. p + i \in p + 1..p + d /\ branches[i] = K[p + i]
        BY <1>1, <1>2, <1>4, <2>1, <3>1
      <4> QED
        BY <4>1 DEF GatesIn, K
    <3>2. ASSUME NEW i \in p + 1..p + d
          PROVE  Gate(t, K[i]) \in {Gate(t, branches[j]) : j \in 1..d}
      <4>1. i - p \in 1..d /\ branches[i - p] = K[i]
        BY <1>1, <1>2, <1>4, <2>1, <3>2
      <4> QED
        BY <4>1
    <3> QED
      BY <2>4, <3>1, <3>2 DEF GatesIn, K
  <2>6. p + d > p
    BY <1>2, <1>4, <2>1
  <2> QED
    BY <1>4, <1>5, <1>7, <2>2, <2>5, <2>6 DEF K, p, branches, e
<1> QED
  BY <1>8, <1>9

-----------------------------------------------------------------------------
(* What holds of every stored tree and of every snapshot of one.           *)

Partly(t) == UNION {[S -> Outcomes] : S \in SUBSET t.nodes}
Decisions(t) ==
    [selected : t.nodes \cup {0}, branches : Seq(t.nodes), results : Partly(t),
     fallback : [source : Nat, failure : Nat, observation : Nat]]
Files(t) ==
    [seq : Nat \ {0}, leaf : [Steppable(t) -> StepStatuses],
     batches : SUBSET [node : t.nodes, results : Partly(t)], events : Seq(Decisions(t))]

(* The leaves that an event decides, and what it says of them.             *)
Wrote(t, e) == DecidedGates(t, e) \cup ({e.fallback.failure} \ {0})
Says(t, e, n) ==
    IF n \in DecidedGates(t, e) /\ e.selected # 0 /\ n = Gate(t, e.selected)
    THEN "completed" ELSE "failed"

FallbackOK(t, fb) ==
    /\ fb.source = 0 => fb.failure = 0 /\ fb.observation = 0
    /\ fb.source # 0 =>
        /\ fb.source \in Kids(t, Choice(t)) /\ fb.failure \in Steppable(t)
        /\ \/ fb.failure = Gate(t, fb.source) /\ fb.observation = 0
           \/ /\ t.kind[fb.failure] = "verify" /\ fb.failure \in Descendants(t, fb.source)
              /\ t.kind[fb.observation] \in {"tool_step", "subtree"}
              /\ fb.observation \in Steppable(t)

EventOK(t, e) ==
    /\ FallbackOK(t, e.fallback)
    /\ e.results \in [Range(e.branches) -> Outcomes]
    /\ e.selected \in Kids(t, Choice(t)) \cup {0}
    /\ e.fallback.source \in Kids(t, Choice(t)) \cup {0}
    /\ e.selected # 0 => Nth(t, e.selected) > Nth(t, e.fallback.source)
    /\ DecidedGates(t, e) =
            GatesIn(t, Nth(t, e.fallback.source),
                    IF e.selected = 0 THEN Len(Order(t)) ELSE Nth(t, e.selected))

(* Each event goes on from the branch that the one before selected.        *)
Chained(f) ==
    \A i \in 1..Len(f.events) :
        IF i = 1 THEN f.events[1].fallback.source = 0
        ELSE /\ f.events[i].fallback.source = f.events[i - 1].selected
             /\ f.events[i].fallback.source # 0

ObservationsKept(f) ==
    \A i \in 1..Len(f.events) :
        f.events[i].fallback.observation # 0 =>
            f.leaf[f.events[i].fallback.observation] = "completed"

(* What an event decided is over, and is what the last of them said.       *)
LastSaid(t, f) ==
    \A i \in 1..Len(f.events) : \A n \in Wrote(t, f.events[i]) :
        /\ f.leaf[n] \in {"completed", "failed"}
        /\ (\A j \in i + 1..Len(f.events) : n \notin Wrote(t, f.events[j]))
                => f.leaf[n] = Says(t, f.events[i], n)

AheadOf(t, f, i) ==
    f.events = <<>> \/ /\ Last(f.events).selected # 0
                       /\ i > Nth(t, Last(f.events).selected)
Untried(t, f) ==
    t.version = 4 => \A i \in 1..Len(Order(t)) :
        AheadOf(t, f, i) => f.leaf[Gate(t, Order(t)[i])] = "pending"

BatchOK(t, f, batch) ==
    /\ batch.node \in OfKind(t, {"parallel"})
    /\ batch.results \in [Kids(t, batch.node) -> Outcomes]
    /\ ~Blocked(batch.results)
    /\ \A c \in Kids(t, batch.node) :
            t.kind[c] = "condition" /\ f.leaf[c] = StatusOf[batch.results[c]]

OneActive(t, f) == \E a : Active(t, f) \subseteq {a}

Sound(t, f) ==
    /\ f \in Files(t)
    /\ f.events # <<>> => t.version = 4
    /\ \A i \in 1..Len(f.events) : EventOK(t, f.events[i])
    /\ Chained(f) /\ ObservationsKept(f) /\ LastSaid(t, f) /\ Untried(t, f)
    /\ \A batch \in f.batches : BatchOK(t, f, batch)
    /\ OneActive(t, f)

File(seq, leaf, batches, events) ==
    [seq |-> seq, leaf |-> leaf, batches |-> batches, events |-> events]

LEMMA SoundFacts ==
  ASSUME NEW t, IsTaskTree(t), NEW f, Sound(t, f)
  PROVE  /\ f.leaf \in [Steppable(t) -> StepStatuses] /\ f.events \in Seq(Decisions(t))
         /\ f.seq \in Nat \ {0}
         /\ f.batches \subseteq [node : t.nodes, results : Partly(t)]
         /\ f = File(f.seq, f.leaf, f.batches, f.events)
         /\ Readable(t, f)
         /\ f.events # <<>> => /\ t.version = 4 /\ Len(f.events) > 0
                               /\ Len(f.events) \in 1..Len(f.events)
                               /\ EventOK(t, Last(f.events))
<1>1. f \in Files(t)
  BY DEF Sound
<1>2. /\ f.leaf \in [Steppable(t) -> StepStatuses] /\ f.events \in Seq(Decisions(t))
      /\ f.seq \in Nat \ {0} /\ f.batches \subseteq [node : t.nodes, results : Partly(t)]
      /\ f = File(f.seq, f.leaf, f.batches, f.events)
  BY <1>1 DEF Files, File
<1>3. f.events # <<>> => Len(f.events) > 0 /\ Len(f.events) \in 1..Len(f.events)
  BY <1>2
<1>4. f.events # <<>> => t.version = 4 /\ EventOK(t, Last(f.events))
  BY <1>3 DEF Sound, Last
<1>5. Readable(t, f)
  BY <1>2, <1>4 DEF Readable, EventOK
<1> QED
  BY <1>2, <1>3, <1>4, <1>5

(* The branch that is selected has a gate that was true.                   *)
LEMMA SelectedGate ==
  ASSUME NEW t, IsTaskTree(t), NEW f, Sound(t, f), f.events # <<>>,
         Last(f.events).selected # 0
  PROVE  f.leaf[Gate(t, Last(f.events).selected)] = "completed"
<1> DEFINE k == Len(f.events)
           e == Last(f.events)
           b == e.selected
<1>1. k \in 1..k /\ k \in Nat /\ e = f.events[k] /\ EventOK(t, e) /\ t.version = 4
  BY SoundFacts DEF Last
<1>2. b \in Kids(t, Choice(t)) /\ Nth(t, b) > Nth(t, e.fallback.source)
      /\ DecidedGates(t, e) = GatesIn(t, Nth(t, e.fallback.source), Nth(t, b))
  BY <1>1 DEF EventOK
<1>3. Nth(t, b) \in Nat /\ Nth(t, e.fallback.source) \in Nat /\ Order(t)[Nth(t, b)] = b
  <2>1. e.fallback.source \in Kids(t, Choice(t)) \cup {0}
    BY <1>1 DEF EventOK
  <2> HIDE DEF b, e
  <2> QED
    BY <1>1, <1>2, <2>1, NthIs, OrderFacts
<1> HIDE DEF b, e, k
<1>4. Nth(t, b) \in Nth(t, e.fallback.source) + 1..Nth(t, b)
  BY <1>2, <1>3
<1>5. Gate(t, b) \in DecidedGates(t, e)
  BY <1>2, <1>3, <1>4 DEF GatesIn
<1>6. Gate(t, b) \in Wrote(t, e) /\ Says(t, e, Gate(t, b)) = "completed"
  BY <1>5 DEF Wrote, Says, b, e
<1>7. \A j \in k + 1..k : FALSE
  BY <1>1
<1>8. \A j \in k + 1..Len(f.events) : Gate(t, b) \notin Wrote(t, f.events[j])
  BY <1>7 DEF k
<1> QED
  BY <1>1, <1>6, <1>8 DEF Sound, LastSaid, k, b, e

-----------------------------------------------------------------------------
(* A leaf moves.                                                           *)

LEMMA TargetsOnly ==
  /\ \A s \in StepStatuses : \A u \in Targets[s] :
        s \in {"pending", "in_progress"} /\ u \in StepStatuses /\ u # "pending"
  /\ \A u \in Targets["in_progress"] : u # "in_progress"
BY DEF Targets, StepStatuses

LEMMA GateWaits ==
  ASSUME NEW t, IsTaskTree(t), NEW f, Sound(t, f), t.version = 4,
         NEW i \in 1..Len(Order(t)), AheadOf(t, f, i)
  PROVE  Gate(t, Order(t)[i]) \notin Startable(t, f)
<1> DEFINE b == Order(t)[i]
           x == Gate(t, b)
           X == {x, b}
           C == Choice(t)
<1>1. b \in Kids(t, C) /\ Nth(t, b) = i /\ b # 0
  BY OrderFacts, NthIs
<1>2. /\ C \in t.nodes /\ b \in t.nodes /\ b # C /\ x \in Kids(t, b)
      /\ t.root \notin {b, x} /\ t.kind[C] = "choice"
  <2>1. OfKind(t, {"choice"}) = {C}
    BY TreeFacts
  <2>2. t.kind[C] = "choice"
    BY <2>1 DEF OfKind
  <2>3. /\ C \in t.nodes /\ b \in t.nodes /\ b # C /\ x \in Kids(t, b)
        /\ t.root \notin {b} \cup Descendants(t, b) /\ x \in Descendants(t, b)
    BY <1>1, BranchFacts
  <2> QED
    BY <2>2, <2>3
<1> HIDE DEF b, x
<1>3. ASSUME NEW m \in t.nodes \ X, NEW c \in Kids(t, m) \cap X, Passes(t, f, m, c)
      PROVE  FALSE
  <2>1. CASE c = x
    BY <1>2, <1>3, <2>1, ChildHasOneParent
  <2>2. CASE c = b
    <3>1. m = C
      BY <1>1, <1>2, <1>3, <2>2, ChildHasOneParent
    <3>2. f.events # <<>> /\ b = Last(f.events).selected
      BY <1>2, <1>3, <2>2, <3>1 DEF Passes
    <3>3. i > Nth(t, b)
      BY <1>1, <3>2 DEF AheadOf
    <3> QED
      BY <1>1, <3>3
  <2> QED
    BY <1>3, <2>1, <2>2
<1>4. Readable(t, f)
  BY SoundFacts
<1>5. x \notin Startable(t, f)
  <2>1. x \in X /\ t.root \notin X
    BY <1>2
  <2> HIDE DEF X
  <2> QED
    BY <1>3, <1>4, <2>1, NoWayIn
<1> QED
  BY <1>5 DEF x, b

LEMMA StatusOfIs ==
  /\ StatusOf \in [Outcomes -> {"completed", "failed", "pending"}]
  /\ StatusOf["true"] = "completed" /\ StatusOf["false"] = "failed"
  /\ StatusOf["unavailable"] = "pending"
BY DEF StatusOf, Outcomes

LEMMA BatchWaits ==
  ASSUME NEW t, IsTaskTree(t), NEW f, Sound(t, f), NEW batch \in f.batches,
         NEW x \in Kids(t, batch.node), f.leaf[x] = "pending"
  PROVE  x \notin Startable(t, f)
<1> DEFINE p == batch.node
           r == batch.results
           S == Statuses(t, f)
<1>1. /\ p \in t.nodes /\ t.kind[p] = "parallel" /\ r \in [Kids(t, p) -> Outcomes]
      /\ ~Blocked(r)
      /\ \A c \in Kids(t, p) : t.kind[c] = "condition" /\ f.leaf[c] = StatusOf[r[c]]
  BY DEF Sound, BatchOK, OfKind
<1>2. Readable(t, f) /\ Kids(t, p) \subseteq t.nodes \ {t.root}
  BY <1>1, SoundFacts, TreeFacts
<1> HIDE DEF p, r
<1>3. r[x] = "unavailable"
  <2>1. r[x] \in Outcomes /\ StatusOf[r[x]] = "pending"
    BY <1>1 DEF p
  <2> QED
    BY <2>1, StatusOfIs DEF Outcomes
<1>4. PICK c \in Kids(t, p) : r[c] = "false"
  BY <1>1, <1>3 DEF Blocked, Range, p
<1>5. f.leaf[c] = "failed" /\ c \in Steppable(t)
  <2>1. t.kind[c] = "condition" /\ c \in t.nodes
    BY <1>1, <1>2
  <2> QED
    BY <1>1, <1>4, <2>1, StatusOfIs DEF Steppable, OfKind, Kinds, Internal
<1>6. S[c] = "failed"
  <2>1. S[c] = StatusBody(t, f, S, c) /\ c \in t.nodes
    BY <1>2, StatusesAre
  <2>2. AtLeaf(t, f, c)
    <3>1. t.kind[c] = "condition"
      BY <1>1
    <3> QED
      BY <1>2, <1>5, <3>1, <2>1, StatusCases DEF AtFailed, AtChosen, AtJoin, AtInner, Internal
  <2> HIDE DEF S
  <2> QED
    BY <1>5, <2>1, <2>2 DEF AtLeaf
<1>7. S[p] = "failed"
  <2>1. S[p] = StatusBody(t, f, S, p)
    BY <1>1, <1>2, StatusesAre
  <2>2. AtInner(t, f, p)
    <3>1. p \notin Steppable(t)
      BY <1>1 DEF Steppable, OfKind, Internal
    <3> QED
      BY <1>1, <1>2, <3>1, StatusCases DEF AtLeaf, AtFailed, AtChosen, AtJoin
  <2> HIDE DEF S
  <2>3. S[p] = Reduced({S[d] : d \in Kids(t, p)})
    BY <2>1, <2>2 DEF AtInner
  <2>4. "failed" \in {S[d] : d \in Kids(t, p)}
    BY <1>4, <1>6
  <2> QED
    BY <2>3, <2>4 DEF Reduced
<1> DEFINE X == {x}
<1>8. ASSUME NEW m \in t.nodes \ X, NEW d \in Kids(t, m) \cap X, Passes(t, f, m, d)
      PROVE  FALSE
  <2>1. m = p
    BY <1>1, <1>8, ChildHasOneParent DEF p
  <2> QED
    BY <1>7, <1>8, <2>1 DEF Passes, Terminal, Stopped
<1>9. x \in X /\ t.root \notin X
  BY <1>2 DEF p
<1> HIDE DEF X
<1> QED
  BY <1>2, <1>8, <1>9, NoWayIn

LEMMA GatesInAre ==
  ASSUME NEW t, IsTaskTree(t), t.version = 4, NEW p \in 0..Len(Order(t)),
         NEW q \in 0..Len(Order(t)), NEW n
  PROVE  n \in GatesIn(t, p, q)
         <=> \E b \in Kids(t, Choice(t)) : n = Gate(t, b) /\ Nth(t, b) \in p + 1..q
<1>1. /\ Len(Order(t)) \in Nat /\ Range(Order(t)) = Kids(t, Choice(t))
      /\ \A i \in 1..Len(Order(t)) : /\ Order(t)[i] \in Kids(t, Choice(t))
                                     /\ Nth(t, Order(t)[i]) = i
      /\ \A b \in Kids(t, Choice(t)) : Order(t)[Nth(t, b)] = b
  BY OrderFacts, NthIs
<1>2. p + 1..q \subseteq 1..Len(Order(t))
  BY <1>1
<1> QED
  BY <1>1, <1>2 DEF GatesIn

LEMMA EventPlaces ==
  ASSUME NEW t, IsTaskTree(t), t.version = 4, NEW e, EventOK(t, e)
  PROVE  \E p, q \in 0..Len(Order(t)) :
            /\ p = Nth(t, e.fallback.source)
            /\ q = IF e.selected = 0 THEN Len(Order(t)) ELSE Nth(t, e.selected)
            /\ DecidedGates(t, e) = GatesIn(t, p, q)
<1>1. /\ e.selected \in Kids(t, Choice(t)) \cup {0}
      /\ e.fallback.source \in Kids(t, Choice(t)) \cup {0}
      /\ DecidedGates(t, e) =
            GatesIn(t, Nth(t, e.fallback.source),
                    IF e.selected = 0 THEN Len(Order(t)) ELSE Nth(t, e.selected))
  BY DEF EventOK
<1>2. Len(Order(t)) \in Nat
  BY OrderFacts
<1>3. \A x \in Kids(t, Choice(t)) \cup {0} : Nth(t, x) \in 0..Len(Order(t))
  BY <1>2, NthIs
<1> QED
  BY <1>1, <1>2, <1>3

LEMMA WroteAre ==
  ASSUME NEW t, IsTaskTree(t), t.version = 4, NEW e, EventOK(t, e), NEW n \in Wrote(t, e)
  PROVE  /\ n \in Steppable(t) /\ t.kind[n] \in {"condition", "verify"}
         /\ \/ \E b \in Kids(t, Choice(t)) : n = Gate(t, b)
            \/ t.kind[n] = "verify"
<1>1. CASE n \in DecidedGates(t, e)
  <2>1. PICK b \in Kids(t, Choice(t)) : n = Gate(t, b)
    BY <1>1, EventPlaces, GatesInAre
  <2> QED
    BY <2>1, BranchFacts
<1>2. CASE n \notin DecidedGates(t, e)
  <2> DEFINE fb == e.fallback
  <2>1. n = fb.failure /\ fb.failure # 0 /\ FallbackOK(t, fb)
    BY <1>2 DEF Wrote, EventOK
  <2>2. fb.source # 0
    BY <2>1 DEF FallbackOK
  <2> HIDE DEF fb
  <2>3. fb.source \in Kids(t, Choice(t)) /\ n \in Steppable(t)
        /\ (n = Gate(t, fb.source) \/ t.kind[n] = "verify")
    BY <2>1, <2>2 DEF FallbackOK
  <2> QED
    BY <2>3, BranchFacts
<1> QED
  BY <1>1, <1>2

LEMMA MoveKeeps ==
  ASSUME NEW t, IsTaskTree(t), NEW f, Sound(t, f), NEW n, NEW target,
         LeafMoves(t, f, n, target), NEW seq \in Nat \ {0},
         NEW g, g = File(seq, [f.leaf EXCEPT ![n] = target], f.batches, f.events)
  PROVE  Sound(t, g) /\ f.leaf[n] \notin Terminal
<1>1. n \in Steppable(t) /\ target \in Targets[f.leaf[n]]
      /\ (f.leaf[n] = "pending" => n \in Startable(t, f) /\ Active(t, f) = {})
  BY StartsAreStartable DEF LeafMoves
<1>2. /\ f.leaf \in [Steppable(t) -> StepStatuses] /\ f.events \in Seq(Decisions(t))
      /\ f.batches \subseteq [node : t.nodes, results : Partly(t)]
  BY SoundFacts
<1>3. /\ f.leaf[n] \in {"pending", "in_progress"} /\ target \in StepStatuses
      /\ target = "in_progress" => f.leaf[n] = "pending"
  BY <1>1, <1>2, TargetsOnly
<1>4. /\ g.events = f.events /\ g.batches = f.batches /\ g.seq = seq
      /\ g.leaf = [f.leaf EXCEPT ![n] = target]
  BY DEF File
<1>5. g.leaf \in [Steppable(t) -> StepStatuses] /\ g.leaf[n] = target
      /\ \A m \in Steppable(t) : m # n => g.leaf[m] = f.leaf[m]
  <2>1. \A m \in Steppable(t) : m # n => g.leaf[m] = f.leaf[m]
    BY <1>2, <1>4
  <2>2. g.leaf \in [Steppable(t) -> StepStatuses] /\ g.leaf[n] = target
    BY <1>1, <1>2, <1>3, <1>4
  <2> QED
    BY <2>1, <2>2
<1>6. g \in Files(t)
  BY <1>2, <1>5 DEF Files, File
<1>7. \A m \in Steppable(t) : f.leaf[m] \in {"completed", "failed"} => g.leaf[m] = f.leaf[m]
  BY <1>3, <1>5
<1>8. /\ g.events # <<>> => t.version = 4
      /\ \A i \in 1..Len(g.events) : EventOK(t, g.events[i]) /\ t.version = 4
      /\ Chained(g)
  <2>1. \A i \in 1..Len(f.events) : f.events # <<>>
    BY <1>2
  <2> QED
    BY <1>4, <2>1 DEF Sound, Chained
<1>9. ObservationsKept(g)
  <2> SUFFICES ASSUME NEW i \in 1..Len(f.events), f.events[i].fallback.observation # 0
               PROVE  g.leaf[f.events[i].fallback.observation] = "completed"
    BY <1>4 DEF ObservationsKept
  <2> DEFINE o == f.events[i].fallback.observation
  <2>1. f.leaf[o] = "completed"
    BY DEF Sound, ObservationsKept
  <2>2. o \in Steppable(t)
    <3>1. FallbackOK(t, f.events[i].fallback)
      BY DEF Sound, EventOK
    <3> QED
      BY <3>1 DEF FallbackOK
  <2> QED
    BY <1>7, <2>1, <2>2
<1>10. LastSaid(t, g)
  <2> SUFFICES ASSUME NEW i \in 1..Len(f.events), NEW m \in Wrote(t, f.events[i])
               PROVE  /\ g.leaf[m] \in {"completed", "failed"}
                      /\ (\A j \in i + 1..Len(f.events) : m \notin Wrote(t, f.events[j]))
                            => g.leaf[m] = Says(t, f.events[i], m)
    BY <1>4 DEF LastSaid
  <2>1. m \in Steppable(t)
    BY <1>4, <1>8, WroteAre
  <2> QED
    BY <1>7, <2>1 DEF Sound, LastSaid
<1>11. Untried(t, g)
  <2> SUFFICES ASSUME t.version = 4, NEW i \in 1..Len(Order(t)), AheadOf(t, g, i)
               PROVE  g.leaf[Gate(t, Order(t)[i])] = "pending"
    BY DEF Untried
  <2> DEFINE x == Gate(t, Order(t)[i])
  <2>1. AheadOf(t, f, i)
    BY <1>4 DEF AheadOf
  <2>2. f.leaf[x] = "pending" /\ x \notin Startable(t, f)
    BY <2>1, GateWaits DEF Sound, Untried
  <2>3. x \in Steppable(t)
    BY OrderFacts, BranchFacts
  <2> QED
    BY <1>1, <1>5, <2>2, <2>3
<1>12. \A batch \in g.batches : BatchOK(t, g, batch)
  <2> SUFFICES ASSUME NEW batch \in f.batches PROVE BatchOK(t, g, batch)
    BY <1>4
  <2>1. BatchOK(t, f, batch)
    BY DEF Sound
  <2>2. ASSUME NEW c \in Kids(t, batch.node) PROVE g.leaf[c] = f.leaf[c]
    <3>1. t.kind[c] = "condition" /\ f.leaf[c] = StatusOf[batch.results[c]]
          /\ batch.results[c] \in Outcomes /\ batch.node \in t.nodes
      BY <2>1, <2>2 DEF BatchOK, OfKind
    <3>2. c \in Steppable(t)
      BY <2>2, <3>1, TreeFacts DEF Steppable, OfKind, Kinds, Internal
    <3>3. f.leaf[c] \in {"completed", "failed", "pending"}
      BY <3>1, StatusOfIs
    <3>4. f.leaf[c] = "pending" => c \notin Startable(t, f)
      BY BatchWaits, <2>2
    <3> QED
      BY <1>1, <1>5, <1>7, <3>2, <3>3, <3>4
  <2> QED
    BY <2>1, <2>2 DEF BatchOK
<1>13. OneActive(t, g)
  <2>1. CASE target = "in_progress"
    <3>1. Active(t, f) = {}
      BY <1>1, <1>3, <2>1
    <3>2. Active(t, g) \subseteq {n}
      BY <1>5, <3>1 DEF Active
    <3> QED
      BY <3>2 DEF OneActive
  <2>2. CASE target # "in_progress"
    <3>1. Active(t, g) \subseteq Active(t, f)
      BY <1>5, <2>2 DEF Active
    <3> QED
      BY <3>1 DEF Sound, OneActive
  <2> QED
    BY <2>1, <2>2
<1>14. f.leaf[n] \notin Terminal
  BY <1>3 DEF Terminal, Stopped
<1> QED
  BY <1>6, <1>8, <1>9, <1>10, <1>11, <1>12, <1>13, <1>14 DEF Sound

-----------------------------------------------------------------------------
(* A batch is committed.                                                   *)

LEMMA ConditionsStep ==
  ASSUME NEW t, IsTaskTree(t), NEW c \in t.nodes, t.kind[c] \in {"condition", "verify"}
  PROVE  c \in Steppable(t)
BY DEF Steppable, OfKind, Kinds, Internal

BatchFile(f, p, results, seq) ==
    File(seq, WithBatch(f, p, results).leaf,
         f.batches \cup {[node |-> p, results |-> results]}, f.events)

LEMMA BatchKeeps ==
  ASSUME NEW t, IsTaskTree(t), NEW f, Sound(t, f), NEW p, BatchReady(t, f, p),
         NEW results \in [Kids(t, p) -> Outcomes], ~Blocked(results), NEW seq \in Nat \ {0},
         NEW g, g = BatchFile(f, p, results, seq)
  PROVE  /\ Sound(t, g)
         /\ \A c \in Kids(t, p) : c \in Steppable(t) /\ f.leaf[c] = "pending"
         /\ \A m \in Steppable(t) : m \notin Kids(t, p) => g.leaf[m] = f.leaf[m]
<1> DEFINE N == Kids(t, p)
           leaf == [c \in Steppable(t) |-> IF c \in N THEN StatusOf[results[c]] ELSE f.leaf[c]]
<1>1. /\ f.leaf \in [Steppable(t) -> StepStatuses] /\ f.events \in Seq(Decisions(t))
      /\ f.batches \subseteq [node : t.nodes, results : Partly(t)]
      /\ f = File(f.seq, f.leaf, f.batches, f.events)
  BY SoundFacts
<1>2. /\ p \in t.nodes /\ t.kind[p] = "parallel" /\ p \in OfKind(t, {"parallel"})
      /\ \A c \in N : t.kind[c] = "condition" /\ f.leaf[c] = "pending"
  BY DEF BatchReady, OfKind
<1>3. N \subseteq t.nodes /\ N \subseteq Steppable(t)
  BY <1>2, TreeFacts, ConditionsStep
<1>4. WithBatch(f, p, results).leaf = leaf
  <2>1. DOMAIN f.leaf = Steppable(t) /\ DOMAIN results = N
    BY <1>1
  <2> QED
    BY <1>1, <2>1 DEF WithBatch, File
<1>5. /\ g.seq = seq /\ g.leaf = leaf /\ g.events = f.events
      /\ g.batches = f.batches \cup {[node |-> p, results |-> results]}
  BY <1>4 DEF File, BatchFile
<1>6. /\ g.leaf \in [Steppable(t) -> StepStatuses]
      /\ \A c \in N : g.leaf[c] = StatusOf[results[c]]
                      /\ g.leaf[c] \in {"completed", "failed", "pending"}
      /\ \A m \in Steppable(t) : m \notin N => g.leaf[m] = f.leaf[m]
  <2>1. \A c \in N : StatusOf[results[c]] \in {"completed", "failed", "pending"}
    BY StatusOfIs
  <2>2. leaf \in [Steppable(t) -> StepStatuses]
    BY <1>1, <2>1 DEF StepStatuses
  <2> QED
    BY <1>3, <1>5, <2>1, <2>2
<1> HIDE DEF leaf
<1>15. g.events = f.events
  BY <1>5
<1>7. g \in Files(t)
  <2> DEFINE P == Partly(t)
  <2>1. results \in P
    BY <1>3 DEF Partly
  <2> DEFINE r == [node |-> p, results |-> results]
             D == [node : t.nodes, results : P]
  <2>3. r \in D
    <3> HIDE DEF P
    <3> QED
      BY <1>2, <2>1
  <2> HIDE DEF r, D
  <2>4. f.batches \cup {r} \subseteq D
    BY <1>1, <2>3 DEF D, P
  <2>2. g.batches \subseteq [node : t.nodes, results : Partly(t)]
    BY <1>5, <2>4 DEF r, D, P
  <2> QED
    BY <1>1, <1>5, <1>6, <2>2 DEF Files, File, BatchFile
<1>8. \A m \in Steppable(t) : f.leaf[m] \in {"completed", "failed"} => g.leaf[m] = f.leaf[m]
  BY <1>2, <1>6
<1>9. /\ g.events # <<>> => t.version = 4
      /\ \A i \in 1..Len(g.events) : EventOK(t, g.events[i]) /\ t.version = 4
      /\ Chained(g)
  <2>1. \A i \in 1..Len(f.events) : f.events # <<>>
    BY <1>1
  <2> QED
    BY <1>5, <2>1 DEF Sound, Chained
<1>10. ObservationsKept(g)
  <2> SUFFICES ASSUME NEW i \in 1..Len(f.events), f.events[i].fallback.observation # 0
               PROVE  g.leaf[f.events[i].fallback.observation] = "completed"
    BY <1>5 DEF ObservationsKept
  <2> DEFINE o == f.events[i].fallback.observation
  <2>1. f.leaf[o] = "completed"
    BY DEF Sound, ObservationsKept
  <2>2. o \in Steppable(t)
    <3>1. FallbackOK(t, f.events[i].fallback)
      BY DEF Sound, EventOK
    <3> QED
      BY <3>1 DEF FallbackOK
  <2> QED
    BY <1>8, <2>1, <2>2
<1>11. LastSaid(t, g)
  <2> SUFFICES ASSUME NEW i \in 1..Len(g.events), NEW m \in Wrote(t, g.events[i])
               PROVE  /\ g.leaf[m] \in {"completed", "failed"}
                      /\ (\A j \in i + 1..Len(g.events) : m \notin Wrote(t, g.events[j]))
                            => g.leaf[m] = Says(t, g.events[i], m)
    BY DEF LastSaid
  <2>1. m \in Steppable(t)
    BY <1>9, WroteAre
  <2>2. /\ f.leaf[m] \in {"completed", "failed"}
        /\ (\A j \in i + 1..Len(g.events) : m \notin Wrote(t, g.events[j]))
                => f.leaf[m] = Says(t, g.events[i], m)
    BY <1>15 DEF Sound, LastSaid
  <2> QED
    BY <1>8, <2>1, <2>2
<1>12. Untried(t, g)
  <2> SUFFICES ASSUME t.version = 4, NEW i \in 1..Len(Order(t)), AheadOf(t, g, i)
               PROVE  g.leaf[Gate(t, Order(t)[i])] = "pending"
    BY DEF Untried
  <2> DEFINE b == Order(t)[i]
             x == Gate(t, b)
  <2>1. AheadOf(t, f, i)
    BY <1>5 DEF AheadOf
  <2>2. f.leaf[x] = "pending"
    BY <2>1 DEF Sound, Untried
  <2>3. b \in Kids(t, Choice(t))
    BY OrderFacts
  <2>4. x \in Steppable(t) /\ x \in Kids(t, b) /\ t.kind[b] = "sequence" /\ b \in t.nodes
    BY <2>3, BranchFacts
  <2> HIDE DEF b, x
  <2>5. x \notin N
    BY <1>2, <2>4, ChildHasOneParent
  <2>6. g.leaf[x] = "pending"
    BY <1>6, <2>2, <2>4, <2>5
  <2> QED
    BY <2>6 DEF b, x
<1>13. \A batch \in g.batches : BatchOK(t, g, batch)
  <2>1. ASSUME NEW batch \in f.batches PROVE BatchOK(t, g, batch)
    <3>1. BatchOK(t, f, batch)
      BY DEF Sound
    <3> DEFINE q == batch.node
               r == batch.results
    <3>2. /\ q \in t.nodes /\ r \in [Kids(t, q) -> Outcomes] /\ ~Blocked(r)
          /\ \A c \in Kids(t, q) : t.kind[c] = "condition" /\ f.leaf[c] = StatusOf[r[c]]
      BY <3>1 DEF BatchOK, OfKind
    <3>3. q # p
      <4> SUFFICES ASSUME q = p PROVE FALSE
        OBVIOUS
      <4> HIDE DEF q, r
      <4>1. \A c \in N : r[c] \in Outcomes /\ StatusOf[r[c]] = "pending"
        BY <1>2, <3>2
      <4>2. \A c \in N : r[c] = "unavailable"
        BY <4>1, StatusOfIs DEF Outcomes
      <4>3. "unavailable" \notin Range(r)
        BY <3>2, <4>2 DEF Blocked, Range
      <4>4. N = {}
        BY <3>2, <4>2, <4>3 DEF Range
      <4>5. t.kids[p] # <<>> /\ t.kids[p] \in Seq(t.nodes)
        BY <1>2, TreeFacts DEF NodeValid, ShapeOK, Internal
      <4>6. t.kids[p][1] \in N
        BY <4>5 DEF Kids, Range
      <4> QED
        BY <4>4, <4>6
    <3>4. ASSUME NEW c \in Kids(t, q) PROVE g.leaf[c] = f.leaf[c]
      <4>1. c \notin N
        BY <1>2, <3>2, <3>3, <3>4, ChildHasOneParent
      <4>2. c \in Steppable(t)
        BY <3>2, <3>4, TreeFacts, ConditionsStep
      <4> QED
        BY <1>6, <4>1, <4>2
    <3> QED
      BY <3>1, <3>4 DEF BatchOK
  <2>2. BatchOK(t, g, [node |-> p, results |-> results])
    BY <1>2, <1>6 DEF BatchOK
  <2> QED
    BY <1>5, <2>1, <2>2
<1>14. OneActive(t, g)
  <2>1. Active(t, g) \subseteq Active(t, f)
    BY <1>6 DEF Active
  <2> QED
    BY <2>1 DEF Sound, OneActive
<1> QED
  BY <1>2, <1>3, <1>6, <1>7, <1>9, <1>10, <1>11, <1>12, <1>13, <1>14 DEF Sound

-----------------------------------------------------------------------------
(* The choice moves on.                                                    *)

LEMMA FallbackIs ==
  ASSUME NEW t, IsTaskTree(t), t.version = 4, NEW f, Sound(t, f),
         NEW fb, IF f.events = <<>> THEN fb = FirstTry ELSE fb \in Fallbacks(t, f)
  PROVE  /\ FallbackOK(t, fb)
         /\ fb \in [source : Nat, failure : Nat, observation : Nat]
         /\ fb.source \in Kids(t, Choice(t)) \cup {0}
         /\ f.events = <<>> => fb.source = 0
         /\ f.events # <<>> => /\ fb.source = Last(f.events).selected /\ fb.source # 0
                               /\ \/ f.leaf[fb.failure] = "completed"
                                     /\ fb.failure = Gate(t, fb.source)
                                  \/ f.leaf[fb.failure] \in {"pending", "in_progress"}
                                     /\ t.kind[fb.failure] = "verify"
         /\ fb.observation # 0 => f.leaf[fb.observation] = "completed"
<1>1. CASE f.events = <<>>
  BY <1>1 DEF FirstTry, FallbackOK
<1>2. CASE f.events # <<>>
  <2> DEFINE b == Last(f.events).selected
  <2>1. SelectedBranch(f) = b /\ fb \in Fallbacks(t, f)
    BY <1>2 DEF SelectedBranch
  <2>2. b # 0 /\ fb \in PreBoundary(t, f) \cup ReadOnlyMiss(t, f)
    BY <2>1 DEF Fallbacks
  <2>3. b \in Kids(t, Choice(t))
    BY <1>2, <2>2, SoundFacts DEF EventOK
  <2> HIDE DEF b
  <2>4. b \in t.nodes /\ Gate(t, b) \in Steppable(t) /\ ShapeOK(t)
        /\ Descendants(t, b) \subseteq t.nodes
    BY <2>3, BranchFacts, Below, TreeFacts
  <2>5. t.nodes \subseteq Nat \ {0} /\ Steppable(t) \subseteq t.nodes
    BY <2>4 DEF ShapeOK, Steppable, OfKind
  <2>6. CASE fb \in PreBoundary(t, f)
    <3>1. fb = [source |-> b, failure |-> Gate(t, b), observation |-> 0]
          /\ f.leaf[fb.failure] = "completed"
      BY <2>1, <2>6 DEF PreBoundary
    <3>2. fb.source = b /\ fb.failure = Gate(t, b) /\ fb.observation = 0
      BY <3>1
    <3>3. fb \in [source : Nat, failure : Nat, observation : Nat]
      BY <2>4, <2>5, <3>1
    <3> QED
      BY <1>2, <2>1, <2>2, <2>3, <2>4, <3>1, <3>2, <3>3 DEF FallbackOK, b
  <2>7. CASE fb \in ReadOnlyMiss(t, f)
    <3>1. /\ fb \in [source : {b}, failure : Descendants(t, b) \cap OfKind(t, {"verify"}),
                     observation : Descendants(t, b) \cap OfKind(t, {"tool_step", "subtree"})]
          /\ f.leaf[fb.observation] = "completed"
          /\ f.leaf[fb.failure] \in {"pending", "in_progress"}
      BY <2>1, <2>7 DEF ReadOnlyMiss
    <3>2. /\ fb.source = b
          /\ fb.failure \in Descendants(t, b) \cap OfKind(t, {"verify"})
          /\ fb.observation \in Descendants(t, b) \cap OfKind(t, {"tool_step", "subtree"})
      BY <3>1
    <3>3. /\ fb.failure \in t.nodes /\ t.kind[fb.failure] = "verify"
          /\ fb.observation \in t.nodes /\ t.kind[fb.observation] \in {"tool_step", "subtree"}
          /\ fb.failure \in Descendants(t, b)
      BY <3>2 DEF OfKind
    <3>4. fb.failure \in Steppable(t) /\ fb.observation \in Steppable(t)
      BY <3>3 DEF Steppable, OfKind, Kinds, Internal
    <3>5. fb \in [source : Nat, failure : Nat, observation : Nat]
      BY <2>4, <2>5, <3>1, <3>3
    <3> QED
      BY <1>2, <2>1, <2>2, <2>3, <3>1, <3>2, <3>3, <3>4, <3>5 DEF FallbackOK, b
  <2> QED
    BY <2>2, <2>6, <2>7
<1> QED
  BY <1>1, <1>2

LEMMA WithEventIs ==
  ASSUME NEW t, NEW f, f.leaf \in [Steppable(t) -> StepStatuses], 0 \notin t.nodes,
         f = File(f.seq, f.leaf, f.batches, f.events), NEW e
  PROVE  /\ WithEvent(t, f, e).leaf \in [Steppable(t) -> StepStatuses]
         /\ \A n \in Steppable(t) : WithEvent(t, f, e).leaf[n] =
                IF n \in Wrote(t, e) THEN Says(t, e, n) ELSE f.leaf[n]
         /\ WithEvent(t, f, e).events = Append(f.events, e)
         /\ WithEvent(t, f, e) = File(f.seq, WithEvent(t, f, e).leaf, f.batches,
                                      Append(f.events, e))
<1> DEFINE leaf == [n \in Steppable(t) |->
              IF n \in DecidedGates(t, e) THEN
                IF e.selected # 0 /\ n = Gate(t, e.selected) THEN "completed" ELSE "failed"
              ELSE IF n = e.fallback.failure THEN "failed" ELSE f.leaf[n]]
<1>1. DOMAIN f.leaf = Steppable(t)
  OBVIOUS
<1>2. WithEvent(t, f, e) = File(f.seq, leaf, f.batches, Append(f.events, e))
  <2> DEFINE ff == File(f.seq, f.leaf, f.batches, f.events)
             ev == Append(f.events, e)
  <2>1. WithEvent(t, f, e) = [f EXCEPT !.events = ev, !.leaf = leaf]
    BY <1>1 DEF WithEvent
  <2>2. WithEvent(t, f, e) = [ff EXCEPT !.events = ev, !.leaf = leaf]
    BY <2>1
  <2> HIDE DEF leaf, ev
  <2>3. [ff EXCEPT !.events = ev, !.leaf = leaf]
        = [[ff EXCEPT !.events = ev] EXCEPT !.leaf = leaf]
    OBVIOUS
  <2>4. [[ff EXCEPT !.events = ev] EXCEPT !.leaf = leaf] = File(f.seq, leaf, f.batches, ev)
    <3>1. [ff EXCEPT !.events = ev] = File(f.seq, f.leaf, f.batches, ev)
      BY SMT DEF File
    <3>2. [File(f.seq, f.leaf, f.batches, ev) EXCEPT !.leaf = leaf]
          = File(f.seq, leaf, f.batches, ev)
      BY SMT DEF File
    <3> QED
      BY <3>1, <3>2
  <2> QED
    BY <2>2, <2>3, <2>4 DEF ev
<1>3. WithEvent(t, f, e).leaf = leaf /\ WithEvent(t, f, e).events = Append(f.events, e)
  BY <1>2 DEF File
<1>4. \A n \in Steppable(t) : n # 0
  BY DEF Steppable, OfKind
<1>5. \A n \in Steppable(t) : leaf[n] = IF n \in Wrote(t, e) THEN Says(t, e, n) ELSE f.leaf[n]
  BY <1>4 DEF Wrote, Says
<1>6. leaf \in [Steppable(t) -> StepStatuses]
  BY DEF StepStatuses
<1> QED
  BY <1>2, <1>3, <1>5, <1>6

LEMMA ChoiceKeeps ==
  ASSUME NEW t, IsTaskTree(t), t.version = 4, NEW f, Sound(t, f),
         NEW fb, IF f.events = <<>> THEN fb = FirstTry ELSE fb \in Fallbacks(t, f),
         NEW results \in [Range(Candidates(t, fb)) -> Outcomes], NEW seq \in Nat \ {0},
         NEW e, e = ChoiceEvent(t, Candidates(t, fb), results, fb),
         NEW g, g = File(seq, WithEvent(t, f, e).leaf, f.batches, Append(f.events, e))
  PROVE  /\ Sound(t, g) /\ EventOK(t, e) /\ e \in Decisions(t)
         /\ \A n \in Steppable(t) : f.leaf[n] \in Terminal =>
                \/ g.leaf[n] = f.leaf[n]
                \/ n = fb.failure /\ f.leaf[n] = "completed" /\ g.leaf[n] = "failed"
<1> DEFINE branches == Candidates(t, fb)
           p == Nth(t, fb.source)
           q == IF e.selected = 0 THEN Len(Order(t)) ELSE Nth(t, e.selected)
           k == Len(f.events)
<1>1. /\ f.leaf \in [Steppable(t) -> StepStatuses] /\ f.events \in Seq(Decisions(t))
      /\ f.batches \subseteq [node : t.nodes, results : Partly(t)]
      /\ f = File(f.seq, f.leaf, f.batches, f.events) /\ k \in Nat
  BY SoundFacts
<1>2. /\ FallbackOK(t, fb)
      /\ fb \in [source : Nat, failure : Nat, observation : Nat]
      /\ fb.source \in Kids(t, Choice(t)) \cup {0}
      /\ f.events = <<>> => fb.source = 0
      /\ f.events # <<>> => /\ fb.source = Last(f.events).selected /\ fb.source # 0
                            /\ \/ f.leaf[fb.failure] = "completed"
                                  /\ fb.failure = Gate(t, fb.source)
                               \/ f.leaf[fb.failure] \in {"pending", "in_progress"}
                                  /\ t.kind[fb.failure] = "verify"
      /\ fb.observation # 0 => f.leaf[fb.observation] = "completed"
  BY FallbackIs
<1>3. /\ Order(t) \in Seq(t.nodes) /\ Len(Order(t)) \in Nat /\ 0 \notin t.nodes
      /\ \A i \in 1..Len(Order(t)) : /\ Order(t)[i] \in Kids(t, Choice(t))
                                     /\ Nth(t, Order(t)[i]) = i
  BY OrderFacts, NthIs
<1>4. /\ branches \in Seq(t.nodes) /\ Range(branches) \subseteq t.nodes
      /\ e.branches = branches /\ e.results = results /\ e.fallback = fb
      /\ e.selected \in Kids(t, Choice(t)) \cup {0}
      /\ e.selected # 0 => Nth(t, e.selected) > p
      /\ DecidedGates(t, e) = GatesIn(t, p, q)
  BY <1>2, ChoiceEventIs
<1>5. EventOK(t, e)
  BY <1>2, <1>4 DEF EventOK
<1>6. e \in Decisions(t)
  <2> DEFINE P == Partly(t)
             B == [source : Nat, failure : Nat, observation : Nat]
             s == e.selected
  <2>1. results \in P
    BY <1>4 DEF Partly
  <2>2. s \in t.nodes \cup {0}
    BY <1>4, BranchFacts
  <2>3. e = [selected |-> s, branches |-> branches, results |-> results, fallback |-> fb]
    <3>1. ChoiceEvent(t, branches, results, fb).selected
          = IF Deciding(branches, results) = 0 THEN 0 ELSE branches[Deciding(branches, results)]
      BY DEF ChoiceEvent
    <3> QED
      BY <3>1 DEF ChoiceEvent
  <2> HIDE DEF P, B, s, branches
  <2>4. e \in [selected : t.nodes \cup {0}, branches : Seq(t.nodes), results : P, fallback : B]
    BY <1>2, <1>4, <2>1, <2>2, <2>3 DEF B
  <2> QED
    BY <2>4 DEF Decisions, P, B
<1>7. p \in 0..Len(Order(t)) /\ q \in 0..Len(Order(t))
  BY <1>3, <1>2, <1>4, NthIs
<1> HIDE DEF branches, p, q, k
<1>8. ASSUME NEW i \in p + 1..q
      PROVE  f.leaf[Gate(t, Order(t)[i])] = "pending"
  <2>1. i \in 1..Len(Order(t)) /\ i > p
    BY <1>3, <1>7
  <2>2. AheadOf(t, f, i)
    BY <1>2, <2>1 DEF AheadOf, p
  <2> QED
    BY <2>1, <2>2 DEF Sound, Untried
<1>9. \A n \in DecidedGates(t, e) : f.leaf[n] = "pending"
  BY <1>4, <1>8 DEF GatesIn
<1>10. /\ g.seq = seq /\ g.batches = f.batches /\ g.events = Append(f.events, e)
       /\ Len(g.events) = k + 1 /\ g.events[k + 1] = e
       /\ \A i \in 1..k : g.events[i] = f.events[i]
       /\ Last(g.events) = e /\ g.events # <<>>
  <2>1. g.seq = seq /\ g.batches = f.batches /\ g.events = Append(f.events, e)
    BY DEF File
  <2> DEFINE D == Decisions(t)
             ev == f.events
  <2>2. ev \in Seq(D) /\ e \in D /\ k = Len(ev)
    BY <1>1, <1>6 DEF k
  <2> HIDE DEF D, ev
  <2>3. /\ Append(ev, e) \in Seq(D) /\ Len(Append(ev, e)) = k + 1
        /\ Append(ev, e)[k + 1] = e
        /\ \A i \in 1..k : Append(ev, e)[i] = ev[i]
    BY <2>2
  <2>4. Append(ev, e) # <<>> /\ Last(Append(ev, e)) = e
    BY <1>1, <2>3 DEF Last
  <2> QED
    BY <2>1, <2>3, <2>4 DEF ev
<1>11. /\ g.leaf \in [Steppable(t) -> StepStatuses]
       /\ \A n \in Steppable(t) : /\ n \in Wrote(t, e) => g.leaf[n] = Says(t, e, n)
                                  /\ n \notin Wrote(t, e) => g.leaf[n] = f.leaf[n]
  <2>1. g.leaf = WithEvent(t, f, e).leaf
    BY DEF File
  <2> QED
    BY <1>1, <1>3, <2>1, WithEventIs, SMTT(30)
<1>12. \A n \in Wrote(t, e) : /\ n \in Steppable(t) /\ t.kind[n] \in {"condition", "verify"}
                              /\ \/ \E b \in Kids(t, Choice(t)) : n = Gate(t, b)
                                 \/ t.kind[n] = "verify"
  BY <1>5, WroteAre
<1>13. \A n : Says(t, e, n) \in {"completed", "failed"}
  BY DEF Says
<1>14. g \in Files(t)
  <2>1. g.events \in Seq(Decisions(t))
    BY <1>1, <1>6, <1>10
  <2> QED
    BY <1>1, <1>10, <1>11, <2>1 DEF Files, File
<1>15. \A i \in 1..Len(g.events) : EventOK(t, g.events[i])
  BY <1>1, <1>5, <1>10 DEF Sound, k
<1>16. Chained(g)
  <2> SUFFICES ASSUME NEW i \in 1..k + 1
               PROVE  IF i = 1 THEN g.events[1].fallback.source = 0
                      ELSE /\ g.events[i].fallback.source = g.events[i - 1].selected
                           /\ g.events[i].fallback.source # 0
    BY <1>10 DEF Chained
  <2>1. CASE i \in 1..k
    <3>1. IF i = 1 THEN f.events[1].fallback.source = 0
          ELSE /\ f.events[i].fallback.source = f.events[i - 1].selected
               /\ f.events[i].fallback.source # 0
      BY <2>1 DEF Sound, Chained, k
    <3>2. i # 1 => i - 1 \in 1..k
      BY <1>1, <2>1
    <3> QED
      BY <1>10, <2>1, <3>1, <3>2
  <2>2. CASE i = k + 1
    <3>1. g.events[i].fallback.source = fb.source
      BY <1>4, <1>10, <2>2
    <3>2. CASE f.events = <<>>
      <4>1. k = 0
        BY <3>2 DEF k
      <4> QED
        BY <1>2, <2>2, <3>1, <3>2, <4>1
    <3>3. CASE f.events # <<>>
      <4>1. k \in 1..k /\ k + 1 # 1 /\ Last(f.events) = f.events[k] /\ i - 1 = k
        BY <1>1, <2>2, <3>3 DEF k, Last
      <4> QED
        BY <1>2, <1>10, <2>2, <3>1, <3>3, <4>1
    <3> QED
      BY <3>2, <3>3
  <2> QED
    BY <1>1, <2>1, <2>2
<1>17. ObservationsKept(g)
  <2> SUFFICES ASSUME NEW i \in 1..k + 1, g.events[i].fallback.observation # 0
               PROVE  g.leaf[g.events[i].fallback.observation] = "completed"
    BY <1>10 DEF ObservationsKept
  <2> DEFINE o == g.events[i].fallback.observation
  <2>1. f.leaf[o] = "completed"
    <3>1. CASE i \in 1..k
      BY <1>10, <3>1 DEF Sound, ObservationsKept, k
    <3>2. CASE i = k + 1
      BY <1>2, <1>4, <1>10, <3>2
    <3>3. i \in 1..k \/ i = k + 1
      BY <1>1
    <3> QED
      BY <3>1, <3>2, <3>3, Zenon
  <2>2. o \in Steppable(t) /\ t.kind[o] \in {"tool_step", "subtree"}
    <3>1. FallbackOK(t, g.events[i].fallback)
      BY <1>10, <1>15 DEF EventOK
    <3> QED
      BY <3>1 DEF FallbackOK
  <2> HIDE DEF o
  <2>3. o \notin Wrote(t, e)
    BY <1>12, <2>2
  <2>4. g.leaf[o] = "completed"
    BY <1>11, <2>1, <2>2, <2>3
  <2> QED
    BY <2>4 DEF o
<1>18. LastSaid(t, g)
  <2> SUFFICES ASSUME NEW i \in 1..k + 1, NEW m \in Wrote(t, g.events[i])
               PROVE  /\ g.leaf[m] \in {"completed", "failed"}
                      /\ (\A j \in i + 1..k + 1 : m \notin Wrote(t, g.events[j]))
                            => g.leaf[m] = Says(t, g.events[i], m)
    BY <1>10 DEF LastSaid
  <2>1. m \in Steppable(t)
    BY <1>10, <1>15, WroteAre
  <2>2. CASE i = k + 1
    BY <1>10, <1>11, <1>13, <2>1, <2>2
  <2>3. CASE i \in 1..k
    <3>1. /\ f.leaf[m] \in {"completed", "failed"}
          /\ (\A j \in i + 1..k : m \notin Wrote(t, f.events[j]))
                => f.leaf[m] = Says(t, f.events[i], m)
      BY <1>10, <2>3 DEF Sound, LastSaid, k
    <3>2. CASE m \in Wrote(t, e)
      <4>1. k + 1 \in i + 1..k + 1
        BY <1>1, <2>3
      <4> QED
        BY <1>10, <1>11, <1>13, <2>1, <3>2, <4>1
    <3>3. CASE m \notin Wrote(t, e)
      <4>1. \A j \in i + 1..k : j \in 1..k /\ j \in i + 1..k + 1
        BY <1>1, <2>3
      <4> QED
        BY <1>10, <1>11, <2>1, <2>3, <3>1, <3>3, <4>1
    <3> QED
      BY <3>2, <3>3
  <2> QED
    BY <1>1, <2>2, <2>3
<1>19. Untried(t, g)
  <2> SUFFICES ASSUME NEW i \in 1..Len(Order(t)), AheadOf(t, g, i)
               PROVE  g.leaf[Gate(t, Order(t)[i])] = "pending"
    BY DEF Untried
  <2> DEFINE b == Order(t)[i]
             x == Gate(t, b)
  <2>1. e.selected # 0 /\ i > q
    BY <1>10 DEF AheadOf, q
  <2>2. q > p /\ i > p
    BY <1>3, <1>4, <1>7, <2>1 DEF q
  <2>3. AheadOf(t, f, i)
    BY <1>2, <2>2 DEF AheadOf, p
  <2>4. f.leaf[x] = "pending"
    BY <2>3 DEF Sound, Untried
  <2>5. b \in Kids(t, Choice(t)) /\ Nth(t, b) = i
    BY <1>3
  <2> HIDE DEF b, x
  <2>6. /\ x \in Steppable(t) /\ t.kind[x] = "condition" /\ x \in Kids(t, b)
        /\ b \in t.nodes
    BY <2>5, BranchFacts DEF x
  <2>7. x \notin DecidedGates(t, e)
    <3> SUFFICES ASSUME NEW c \in Kids(t, Choice(t)), x = Gate(t, c), Nth(t, c) \in p + 1..q
                 PROVE  FALSE
      BY <1>4, <1>7, GatesInAre
    <3>1. x \in Kids(t, c) /\ c \in t.nodes
      BY BranchFacts
    <3>2. c = b
      BY <2>6, <3>1, ChildHasOneParent
    <3> QED
      BY <1>7, <2>1, <2>5, <3>2
  <2>8. x # fb.failure \/ fb.failure = 0
    BY <1>2, <2>4, <2>6 DEF FallbackOK
  <2>9. x \notin Wrote(t, e)
    BY <1>4, <2>7, <2>8 DEF Wrote
  <2>10. g.leaf[x] = "pending"
    BY <1>11, <2>4, <2>6, <2>9
  <2> QED
    BY <2>10 DEF x, b
<1>20. \A batch \in g.batches : BatchOK(t, g, batch)
  <2> SUFFICES ASSUME NEW batch \in f.batches PROVE BatchOK(t, g, batch)
    BY <1>10
  <2>1. BatchOK(t, f, batch)
    BY DEF Sound
  <2> DEFINE d == batch.node
  <2>2. /\ d \in t.nodes /\ t.kind[d] = "parallel"
        /\ \A c \in Kids(t, d) : t.kind[c] = "condition"
    BY <2>1 DEF BatchOK, OfKind
  <2>3. ASSUME NEW c \in Kids(t, d) PROVE g.leaf[c] = f.leaf[c]
    <3>1. c \in Steppable(t) /\ t.kind[c] = "condition"
      BY <2>2, <2>3, TreeFacts, ConditionsStep
    <3> HIDE DEF d
    <3>2. ASSUME NEW b \in Kids(t, Choice(t)) PROVE c # Gate(t, b)
      <4>1. Gate(t, b) \in Kids(t, b) /\ b \in t.nodes /\ t.kind[b] = "sequence"
        BY BranchFacts
      <4> QED
        BY <2>2, <2>3, <4>1, ChildHasOneParent
    <3>3. c \notin Wrote(t, e)
      BY <1>12, <3>1, <3>2
    <3> QED
      BY <1>11, <3>1, <3>3
  <2> QED
    BY <2>1, <2>3 DEF BatchOK
<1>21. OneActive(t, g)
  <2>1. Active(t, g) \subseteq Active(t, f)
    <3>1. \A n \in Steppable(t) : g.leaf[n] = "in_progress" => f.leaf[n] = "in_progress"
      BY <1>11, <1>13
    <3> QED
      BY <3>1 DEF Active
  <2> QED
    BY <2>1 DEF Sound, OneActive
<1>22. Sound(t, g)
  BY <1>14, <1>15, <1>16, <1>17, <1>18, <1>19, <1>20, <1>21 DEF Sound
<1>23. ASSUME NEW n \in Steppable(t), f.leaf[n] \in Terminal, g.leaf[n] # f.leaf[n]
       PROVE  n = fb.failure /\ f.leaf[n] = "completed" /\ g.leaf[n] = "failed"
  <2>1. n \in Wrote(t, e) /\ n \notin DecidedGates(t, e)
    BY <1>9, <1>11, <1>23 DEF Terminal, Stopped
  <2>2. n = fb.failure /\ n # 0 /\ g.leaf[n] = "failed"
    BY <1>4, <1>11, <2>1 DEF Wrote, Says
  <2>3. f.leaf[n] = "completed"
    BY <1>2, <1>23, <2>2 DEF FallbackOK, Terminal, Stopped
  <2> QED
    BY <2>2, <2>3
<1> QED
  BY <1>5, <1>6, <1>22, <1>23

-----------------------------------------------------------------------------
(* A write is a step of the stored tree, not only of a snapshot.           *)

MovedLeaf(t, f, g) ==
    \E n, target : /\ LeafMoves(t, f, n, target)
                   /\ g = File(f.seq + 1, [f.leaf EXCEPT ![n] = target], f.batches, f.events)
MovedBatch(t, f, g) ==
    \E p : /\ BatchReady(t, f, p)
           /\ \E results \in [Kids(t, p) -> Outcomes] :
                /\ ~Blocked(results)
                /\ g = File(f.seq + 1, WithBatch(f, p, results).leaf,
                            f.batches \cup {[node |-> p, results |-> results]}, f.events)
MovedChoice(t, f, g) ==
    /\ t.version = 4
    /\ \E fb : /\ IF f.events = <<>> THEN fb = FirstTry ELSE fb \in Fallbacks(t, f)
               /\ \E results \in [Range(Candidates(t, fb)) -> Outcomes] :
                    LET e == ChoiceEvent(t, Candidates(t, fb), results, fb)
                    IN g = File(f.seq + 1, WithEvent(t, f, e).leaf, f.batches,
                                Append(f.events, e))
TreeMoved(t, f, g) == MovedLeaf(t, f, g) \/ MovedBatch(t, f, g) \/ MovedChoice(t, f, g)

(* What a step may do to a leaf that is over.                              *)
Kept(t, f, g, n) ==
    \/ g.leaf[n] = f.leaf[n]
    \/ /\ Len(f.events) < Len(g.events)
       /\ n = Last(g.events).fallback.failure
       /\ f.leaf[n] = "completed" /\ g.leaf[n] = "failed"

LEMMA MovedKeeps ==
  ASSUME NEW t, IsTaskTree(t), NEW f, Sound(t, f), NEW g, TreeMoved(t, f, g)
  PROVE  /\ Sound(t, g) /\ g.seq = f.seq + 1
         /\ \A n \in Steppable(t) : f.leaf[n] \in Terminal => Kept(t, f, g, n)
<1>1. f.seq \in Nat \ {0} /\ f.seq + 1 \in Nat \ {0}
      /\ f.leaf \in [Steppable(t) -> StepStatuses] /\ f.events \in Seq(Decisions(t))
  <2>1. f.seq \in Nat \ {0} /\ f.leaf \in [Steppable(t) -> StepStatuses]
        /\ f.events \in Seq(Decisions(t))
    BY SoundFacts
  <2>2. f.seq + 1 \in Nat \ {0}
    BY <2>1
  <2> QED
    BY <2>1, <2>2
<1>2. CASE MovedLeaf(t, f, g)
  <2>1. PICK n, target : /\ LeafMoves(t, f, n, target)
                         /\ g = File(f.seq + 1, [f.leaf EXCEPT ![n] = target],
                                     f.batches, f.events)
    BY <1>2 DEF MovedLeaf
  <2>2. Sound(t, g) /\ f.leaf[n] \notin Terminal
    BY <1>1, <2>1, MoveKeeps
  <2>3. g.seq = f.seq + 1 /\ g.leaf = [f.leaf EXCEPT ![n] = target]
    BY <2>1 DEF File
  <2>4. \A m \in Steppable(t) : m # n => g.leaf[m] = f.leaf[m]
    BY <1>1, <2>3
  <2> QED
    BY <2>2, <2>3, <2>4 DEF Kept
<1>3. CASE MovedBatch(t, f, g)
  <2>1. PICK p : /\ BatchReady(t, f, p)
                 /\ \E results \in [Kids(t, p) -> Outcomes] :
                        /\ ~Blocked(results)
                        /\ g = File(f.seq + 1, WithBatch(f, p, results).leaf,
                                    f.batches \cup {[node |-> p, results |-> results]},
                                    f.events)
    BY <1>3 DEF MovedBatch
  <2>2. PICK results \in [Kids(t, p) -> Outcomes] :
                /\ ~Blocked(results)
                /\ g = File(f.seq + 1, WithBatch(f, p, results).leaf,
                            f.batches \cup {[node |-> p, results |-> results]}, f.events)
    BY <2>1
  <2> DEFINE s == f.seq + 1
  <2>6. s \in Nat \ {0} /\ g = BatchFile(f, p, results, s)
    BY <1>1, <2>2 DEF BatchFile
  <2>7. BatchReady(t, f, p) /\ ~Blocked(results)
    BY <2>1, <2>2
  <2> HIDE DEF s
  <2>3. /\ Sound(t, g)
        /\ \A c \in Kids(t, p) : c \in Steppable(t) /\ f.leaf[c] = "pending"
        /\ \A m \in Steppable(t) : m \notin Kids(t, p) => g.leaf[m] = f.leaf[m]
    BY <2>6, <2>7, BatchKeeps
  <2>4. g.seq = f.seq + 1
    BY <2>2 DEF File
  <2>5. ASSUME NEW n \in Steppable(t), f.leaf[n] \in Terminal PROVE n \notin Kids(t, p)
    BY <2>3, <2>5 DEF Terminal, Stopped
  <2> QED
    BY <2>3, <2>4, <2>5 DEF Kept
<1>4. CASE MovedChoice(t, f, g)
  <2>1. PICK fb : /\ IF f.events = <<>> THEN fb = FirstTry ELSE fb \in Fallbacks(t, f)
                  /\ \E results \in [Range(Candidates(t, fb)) -> Outcomes] :
                        LET e == ChoiceEvent(t, Candidates(t, fb), results, fb)
                        IN g = File(f.seq + 1, WithEvent(t, f, e).leaf, f.batches,
                                    Append(f.events, e))
    BY <1>4 DEF MovedChoice
  <2>2. PICK results \in [Range(Candidates(t, fb)) -> Outcomes] :
                LET e == ChoiceEvent(t, Candidates(t, fb), results, fb)
                IN g = File(f.seq + 1, WithEvent(t, f, e).leaf, f.batches, Append(f.events, e))
    BY <2>1
  <2> DEFINE e == ChoiceEvent(t, Candidates(t, fb), results, fb)
  <2>3. g = File(f.seq + 1, WithEvent(t, f, e).leaf, f.batches, Append(f.events, e))
    BY <2>2
  <2>4. e.fallback = fb
    BY DEF ChoiceEvent
  <2> DEFINE s == f.seq + 1
  <2>8. s \in Nat \ {0} /\ t.version = 4
        /\ g = File(s, WithEvent(t, f, e).leaf, f.batches, Append(f.events, e))
    BY <1>1, <1>4, <2>3 DEF MovedChoice
  <2>9. e = ChoiceEvent(t, Candidates(t, fb), results, fb)
    OBVIOUS
  <2> HIDE DEF e, s
  <2>5. /\ Sound(t, g) /\ e \in Decisions(t)
        /\ \A n \in Steppable(t) : f.leaf[n] \in Terminal =>
                \/ g.leaf[n] = f.leaf[n]
                \/ n = fb.failure /\ f.leaf[n] = "completed" /\ g.leaf[n] = "failed"
    BY <2>1, <2>8, <2>9, ChoiceKeeps
  <2>6. g.seq = f.seq + 1 /\ g.events = Append(f.events, e)
    BY <2>3 DEF File
  <2>7. Len(f.events) < Len(g.events) /\ Last(g.events) = e
    <3> DEFINE D == Decisions(t)
               ev == f.events
    <3>1. ev \in Seq(D) /\ e \in D
      BY <1>1, <2>5
    <3> HIDE DEF D, ev
    <3>2. Len(Append(ev, e)) = Len(ev) + 1 /\ Append(ev, e)[Len(ev) + 1] = e /\ Len(ev) \in Nat
      BY <3>1
    <3> QED
      BY <2>6, <3>2 DEF Last, ev
  <2> QED
    BY <2>4, <2>5, <2>6, <2>7 DEF Kept
<1> QED
  BY <1>2, <1>3, <1>4 DEF TreeMoved

-----------------------------------------------------------------------------
(* Of the snapshots that are held only the newest can be written back.     *)
StoredInv ==
    /\ compiled \in Trees
    /\ file = NoFile \/ Sound(compiled, file)
    /\ DOMAIN held = Hosts
    /\ \A h \in Hosts : held[h] # NoFile =>
            /\ file # NoFile /\ Sound(compiled, held[h])
            /\ held[h].seq <= file.seq
            /\ held[h].seq = file.seq => held[h] = file

Fresh(t) == File(1, [n \in Steppable(t) |-> "pending"], {}, <<>>)

LEMMA FreshIsSound ==
  ASSUME NEW t, IsTaskTree(t) PROVE Sound(t, Fresh(t))
<1> DEFINE f == Fresh(t)
           leaf == [n \in Steppable(t) |-> "pending"]
<1>1. f.seq = 1 /\ f.leaf = leaf /\ f.batches = {} /\ f.events = <<>>
  BY DEF Fresh, File
<1>2. f \in Files(t)
  <2>1. leaf \in [Steppable(t) -> StepStatuses]
    BY DEF StepStatuses
  <2>2. <<>> \in Seq(Decisions(t)) /\ 1 \in Nat \ {0}
    OBVIOUS
  <2> HIDE DEF leaf
  <2> QED
    BY <2>1, <2>2 DEF Files, Fresh, File, leaf
<1> HIDE DEF f
<1>3. \A i \in 1..Len(f.events) : FALSE
  BY <1>1
<1>4. Untried(t, f)
  BY <1>1, OrderFacts, BranchFacts DEF Untried
<1>5. OneActive(t, f)
  BY <1>1 DEF OneActive, Active
<1> QED
  BY <1>1, <1>2, <1>3, <1>4, <1>5 DEF Sound, Chained, ObservationsKept, LastSaid, f

LEMMA SoundIsStored == ASSUME NEW t, NEW f, Sound(t, f) PROVE f # NoFile
<1>1. f.seq # 0
  BY DEF Sound, Files
<1>2. NoFile.seq = 0
  BY DEF NoFile
<1> QED
  BY <1>1, <1>2

LEMMA AnswersAreOutcomes ==
  ASSUME NEW nodes, NEW results \in Answers(nodes) PROVE results \in [nodes -> Outcomes]
<1>1. \A fact : EvaluateFact(fact, Context) \in Outcomes
  BY DEF EvaluateFact, Outcomes
<1> QED
  BY <1>1 DEF Answers

LEMMA NextSeq ==
  ASSUME NEW w, NEW seq, NEW leaf, NEW batches, NEW events,
         w = File(seq, leaf, batches, events)
  PROVE  [w EXCEPT !.seq = @ + 1] = File(seq + 1, leaf, batches, events)
<1> DEFINE s == seq + 1
<1>1. w.seq + 1 = s
  BY DEF File
<1>2. [w EXCEPT !.seq = @ + 1] = [w EXCEPT !.seq = s]
  BY <1>1
<1> HIDE DEF s
<1>3. [w EXCEPT !.seq = s] = File(s, leaf, batches, events)
  BY SMT DEF File
<1> QED
  BY <1>2, <1>3 DEF s

LEMMA WithBatchIs ==
  ASSUME NEW f, NEW seq, NEW leaf, NEW batches, NEW events, NEW p, NEW results,
         f = File(seq, leaf, batches, events)
  PROVE  WithBatch(f, p, results)
            = File(seq, WithBatch(f, p, results).leaf,
                   batches \cup {[node |-> p, results |-> results]}, events)
<1> DEFINE new == [c \in DOMAIN f.leaf |->
                      IF c \in DOMAIN results THEN StatusOf[results[c]] ELSE f.leaf[c]]
           bs == batches \cup {[node |-> p, results |-> results]}
<1>1. WithBatch(f, p, results) = [[f EXCEPT !.batches = bs] EXCEPT !.leaf = new]
  <2>1. WithBatch(f, p, results) = [f EXCEPT !.batches = bs, !.leaf = new]
    BY DEF WithBatch, File
  <2> HIDE DEF bs, new
  <2> QED
    BY <2>1
<1> HIDE DEF bs, new
<1>2. [f EXCEPT !.batches = bs] = File(seq, leaf, bs, events)
  BY SMT DEF File
<1>3. [File(seq, leaf, bs, events) EXCEPT !.leaf = new] = File(seq, new, bs, events)
  BY SMT DEF File
<1>4. WithBatch(f, p, results) = File(seq, new, bs, events)
  BY <1>1, <1>2, <1>3
<1>5. WithBatch(f, p, results).leaf = new
  BY <1>4 DEF File
<1> QED
  BY <1>4, <1>5 DEF bs

HeldStep ==
    /\ DOMAIN held' = Hosts
    /\ \A h \in Hosts : held'[h] = held[h] \/ held'[h] = file'
FileStep ==
    \/ file' = file
    \/ file = NoFile /\ file' = Fresh(compiled)
    \/ Sound(compiled, file) /\ TreeMoved(compiled, file, file')

LEMMA SwapsAreNewest ==
  ASSUME StoredInv, NEW h \in Hosts, held[h] # NoFile, NEW new, CompareAndSwap(h, new)
  PROVE  /\ held[h] = file /\ Sound(compiled, file)
         /\ file = File(file.seq, file.leaf, file.batches, file.events)
         /\ file' = [new EXCEPT !.seq = @ + 1]
         /\ HeldStep /\ compiled' = compiled
<1>1. held[h] = file /\ Sound(compiled, file)
  BY DEF StoredInv, CompareAndSwap
<1>2. file = File(file.seq, file.leaf, file.batches, file.events)
  BY <1>1 DEF Sound, Files, File
<1>3. HeldStep
  BY DEF StoredInv, CompareAndSwap, HeldStep
<1> QED
  BY <1>1, <1>2, <1>3 DEF CompareAndSwap

LEMMA StepsMove ==
  ASSUME StoredInv, [TreeNext]_treeVars
  PROVE  compiled' = compiled /\ HeldStep /\ FileStep
<1> DEFINE t == compiled
<1>1. CASE UNCHANGED treeVars
  BY <1>1 DEF treeVars, StoredInv, HeldStep, FileStep
<1>2. ASSUME NEW h \in Hosts, Create(h) PROVE t' = t /\ HeldStep /\ FileStep
  <2>1. t' = t /\ HeldStep
    BY <1>2 DEF Create, StoredInv, HeldStep
  <2>2. file = NoFile /\ file' = Fresh(t)
    BY <1>2 DEF Create, Fresh, File
  <2> QED
    BY <2>1, <2>2 DEF FileStep
<1>3. ASSUME NEW h \in Hosts, Read(h) PROVE t' = t /\ HeldStep /\ FileStep
  BY <1>3 DEF Read, StoredInv, HeldStep, FileStep
<1>4. ASSUME NEW h \in Hosts, TransitionLeaf(h) PROVE t' = t /\ HeldStep /\ FileStep
  <2>1. PICK n \in Steppable(t), target \in StepStatuses :
            /\ LeafMoves(t, held[h], n, target)
            /\ CompareAndSwap(h, [held[h] EXCEPT !.leaf[n] = target])
    BY <1>4 DEF TransitionLeaf
  <2> DEFINE new == [held[h] EXCEPT !.leaf[n] = target]
  <2>2. held[h] # NoFile /\ CompareAndSwap(h, new)
    BY <1>4, <2>1 DEF TransitionLeaf
  <2> HIDE DEF new
  <2>3. /\ held[h] = file /\ Sound(t, file)
        /\ file = File(file.seq, file.leaf, file.batches, file.events)
        /\ file' = [new EXCEPT !.seq = @ + 1]
        /\ HeldStep /\ t' = t
    BY <2>2, SwapsAreNewest
  <2>4. file' = File(file.seq + 1, [file.leaf EXCEPT ![n] = target], file.batches, file.events)
    <3> DEFINE s == file.seq
               l == file.leaf
               b == file.batches
               ev == file.events
               wl == [l EXCEPT ![n] = target]
    <3>1. file = File(s, l, b, ev) /\ new = [file EXCEPT !.leaf[n] = target]
      BY <2>3 DEF new
    <3> HIDE DEF s, l, b, ev
    <3>2. new = File(s, wl, b, ev)
      <4>1. new = [file EXCEPT !.leaf = wl]
        BY <3>1 DEF File
      <4> HIDE DEF wl
      <4>2. [file EXCEPT !.leaf = wl] = File(s, wl, b, ev)
        BY <3>1, SMT DEF File
      <4> QED
        BY <4>1, <4>2
    <3> HIDE DEF wl
    <3>3. [new EXCEPT !.seq = @ + 1] = File(s + 1, wl, b, ev)
      BY <3>2, NextSeq
    <3> QED
      BY <2>3, <3>3 DEF wl, s, l, b, ev
  <2>5. LeafMoves(t, file, n, target)
    BY <2>1, <2>3
  <2>6. TreeMoved(t, file, file')
    BY <2>4, <2>5 DEF TreeMoved, MovedLeaf
  <2> QED
    BY <2>3, <2>6 DEF FileStep
<1>5. ASSUME NEW h \in Hosts, CommitBatch(h) PROVE t' = t /\ HeldStep /\ FileStep
  <2>1. PICK p \in t.nodes : /\ BatchReady(t, held[h], p)
                             /\ \E results \in Answers(Kids(t, p)) :
                                    /\ ~Blocked(results)
                                    /\ CompareAndSwap(h, WithBatch(held[h], p, results))
    BY <1>5 DEF CommitBatch
  <2>2. PICK results \in Answers(Kids(t, p)) :
                /\ ~Blocked(results)
                /\ CompareAndSwap(h, WithBatch(held[h], p, results))
    BY <2>1
  <2>3. held[h] # NoFile
    BY <1>5 DEF CommitBatch
  <2>4. /\ held[h] = file /\ Sound(t, file)
        /\ file = File(file.seq, file.leaf, file.batches, file.events)
        /\ file' = [WithBatch(held[h], p, results) EXCEPT !.seq = @ + 1]
        /\ HeldStep /\ t' = t
    BY <2>2, <2>3, SwapsAreNewest
  <2>5. file' = File(file.seq + 1, WithBatch(file, p, results).leaf,
                     file.batches \cup {[node |-> p, results |-> results]}, file.events)
    <3> DEFINE s == file.seq
               l == file.leaf
               b == file.batches
               ev == file.events
               w == WithBatch(file, p, results)
               r == [node |-> p, results |-> results]
               wl == w.leaf
               bs == b \cup {r}
    <3>1. file = File(s, l, b, ev)
      BY <2>4
    <3> HIDE DEF s, l, b, ev
    <3>2. w = File(s, wl, bs, ev)
      BY <3>1, WithBatchIs
    <3> HIDE DEF w, wl, bs
    <3>3. [w EXCEPT !.seq = @ + 1] = File(s + 1, wl, bs, ev)
      BY <3>2, NextSeq
    <3> QED
      BY <2>4, <3>3 DEF w, wl, bs, s, b, ev
  <2>6. BatchReady(t, file, p) /\ results \in [Kids(t, p) -> Outcomes]
    BY <2>1, <2>4, AnswersAreOutcomes
  <2>7. TreeMoved(t, file, file')
    BY <2>2, <2>5, <2>6 DEF TreeMoved, MovedBatch
  <2> QED
    BY <2>4, <2>7 DEF FileStep
<1>6. ASSUME NEW h \in Hosts, CommitChoice(h) PROVE t' = t /\ HeldStep /\ FileStep
  <2>1. PICK fb \in IF held[h].events = <<>> THEN {FirstTry} ELSE Fallbacks(t, held[h]) :
            \E results \in Answers(Range(Candidates(t, fb))) :
                CompareAndSwap(h, WithEvent(t, held[h],
                                    ChoiceEvent(t, Candidates(t, fb), results, fb)))
    BY <1>6 DEF CommitChoice
  <2>2. PICK results \in Answers(Range(Candidates(t, fb))) :
                CompareAndSwap(h, WithEvent(t, held[h],
                                    ChoiceEvent(t, Candidates(t, fb), results, fb)))
    BY <2>1
  <2>3. held[h] # NoFile /\ t.version = 4
    BY <1>6 DEF CommitChoice
  <2> DEFINE e == ChoiceEvent(t, Candidates(t, fb), results, fb)
  <2> HIDE DEF e
  <2>4. /\ held[h] = file /\ Sound(t, file)
        /\ file = File(file.seq, file.leaf, file.batches, file.events)
        /\ file' = [WithEvent(t, held[h], e) EXCEPT !.seq = @ + 1]
        /\ HeldStep /\ t' = t
    BY <2>2, <2>3, SwapsAreNewest DEF e
  <2>5. IsTaskTree(t)
    BY TreesAssumption DEF StoredInv
  <2>6. file' = File(file.seq + 1, WithEvent(t, file, e).leaf, file.batches,
                     Append(file.events, e))
    <3> DEFINE s == file.seq
               b == file.batches
               ev == Append(file.events, e)
               w == WithEvent(t, file, e)
               wl == w.leaf
    <3>1. w = File(s, wl, b, ev)
      <4>1. file.leaf \in [Steppable(t) -> StepStatuses] /\ 0 \notin t.nodes
        BY <2>4, <2>5, SoundFacts, TreeFacts DEF ShapeOK
      <4>2. file = File(file.seq, file.leaf, file.batches, file.events)
        BY <2>4
      <4>3. WithEvent(t, file, e) = File(file.seq, WithEvent(t, file, e).leaf, file.batches,
                                         Append(file.events, e))
        BY <4>1, <4>2, WithEventIs
      <4> QED
        BY <4>3
    <3> HIDE DEF w, wl, ev, s, b
    <3>2. [w EXCEPT !.seq = @ + 1] = File(s + 1, wl, b, ev)
      BY <3>1, NextSeq
    <3> QED
      BY <2>4, <3>2 DEF w, wl, s, b, ev
  <2>7. results \in [Range(Candidates(t, fb)) -> Outcomes]
    BY AnswersAreOutcomes
  <2>8. IF file.events = <<>> THEN fb = FirstTry ELSE fb \in Fallbacks(t, file)
    BY <2>1, <2>4
  <2>9. TreeMoved(t, file, file')
    BY <2>3, <2>6, <2>7, <2>8 DEF TreeMoved, MovedChoice, e
  <2> QED
    BY <2>4, <2>9 DEF FileStep
<1> QED
  BY <1>1, <1>2, <1>3, <1>4, <1>5, <1>6 DEF TreeNext, Step

LEMMA TreeStep ==
  ASSUME StoredInv, [TreeNext]_treeVars
  PROVE  StoredInv'
<1>1. compiled' = compiled /\ HeldStep /\ FileStep /\ IsTaskTree(compiled)
  BY StepsMove, TreesAssumption DEF StoredInv
<1>2. CASE file' = file
  <2>1. file # NoFile => Sound(compiled, file) /\ file.seq \in Nat
    BY DEF StoredInv, Sound, Files
  <2> QED
    BY <1>1, <1>2, <2>1 DEF StoredInv, HeldStep
<1>3. CASE file = NoFile /\ file' = Fresh(compiled)
  <2>1. Sound(compiled, file') /\ file' # NoFile
    BY <1>1, <1>3, FreshIsSound, SoundIsStored
  <2>2. file'.seq \in Nat
    BY <2>1 DEF Sound, Files
  <2> QED
    BY <1>1, <1>3, <2>1, <2>2 DEF StoredInv, HeldStep
<1>4. CASE Sound(compiled, file) /\ TreeMoved(compiled, file, file')
  <2>1. Sound(compiled, file') /\ file'.seq = file.seq + 1 /\ file' # NoFile
    BY <1>1, <1>4, MovedKeeps, SoundIsStored
  <2>2. file.seq \in Nat /\ \A h \in Hosts : held[h] # NoFile => held[h].seq \in Nat
    BY <1>4 DEF Sound, Files, StoredInv
  <2>3. ASSUME NEW h \in Hosts, held'[h] # NoFile
        PROVE  /\ Sound(compiled, held'[h]) /\ held'[h].seq <= file'.seq
               /\ held'[h].seq = file'.seq => held'[h] = file'
    <3>1. CASE held'[h] = held[h]
      BY <2>1, <2>2, <2>3, <3>1 DEF StoredInv
    <3>2. CASE held'[h] = file'
      BY <2>1, <2>2, <3>2
    <3> QED
      BY <1>1, <3>1, <3>2 DEF HeldStep
  <2> QED
    BY <1>1, <2>1, <2>3 DEF StoredInv, HeldStep
<1> QED
  BY <1>1, <1>2, <1>3, <1>4 DEF FileStep

LEMMA TreeAlways == TreeSpec => []StoredInv
<1>1. TreeInit => StoredInv
  BY DEF TreeInit, StoredInv
<1>2. StoredInv /\ [TreeNext]_treeVars => StoredInv'
  BY TreeStep
<1> QED
  BY <1>1, <1>2, PTL DEF TreeSpec

(* tree_store.py, compare_and_swap: whichever callers hold snapshots of    *)
(* whatever age, no write takes back the status of a leaf that is over;    *)
(* only an event of the choice may, of the gate of the branch it leaves.   *)
THEOREM NothingIsTakenBack == TreeSpec => NoLostTransition
<1>1. ASSUME StoredInv, [TreeNext]_treeVars
      PROVE  [Stored => \A n \in Steppable(compiled) :
                 \/ file.leaf[n] \notin Terminal
                 \/ file'.leaf[n] = file.leaf[n]
                 \/ Evidence(n)]_treeVars
  <2> SUFFICES ASSUME file # NoFile, NEW n \in Steppable(compiled), file.leaf[n] \in Terminal
               PROVE  file'.leaf[n] = file.leaf[n] \/ Evidence(n)
    BY DEF Stored
  <2>1. FileStep /\ IsTaskTree(compiled)
    BY <1>1, StepsMove, TreesAssumption DEF StoredInv
  <2>2. CASE file' = file
    BY <2>2
  <2>3. CASE Sound(compiled, file) /\ TreeMoved(compiled, file, file')
    <3>1. Kept(compiled, file, file', n)
      BY <2>1, <2>3, MovedKeeps
    <3> QED
      BY <3>1 DEF Kept, Evidence
  <2> QED
    BY <2>1, <2>2, <2>3 DEF FileStep
<1> QED
  BY <1>1, TreeAlways, PTL DEF TreeSpec, NoLostTransition

-----------------------------------------------------------------------------
(* What the events say, read back one after the other.                     *)

Preceding(L) == {e \in (0..L) \X (0..L) : e[2] = e[1] + 1}

LEMMA PrecedingIsAcyclic ==
  ASSUME NEW L \in Nat PROVE Acyclic(0..L, Preceding(L))
<1> SUFFICES ASSUME NEW S \in (SUBSET (0..L)) \ {{}}
             PROVE  \E n \in S : \A m \in S : <<m, n>> \notin Preceding(L)
  BY DEF Acyclic
<1>1. S \in SUBSET Nat /\ S # {}
  OBVIOUS
<1>2. Min(S) \in S /\ \A m \in S : Min(S) <= m
  BY <1>1, LeastOf
<1>3. \A m \in S : <<m, Min(S)>> \notin Preceding(L)
  <2> SUFFICES ASSUME NEW m \in S, <<m, Min(S)>> \in Preceding(L) PROVE FALSE
    OBVIOUS
  <2>1. Min(S) = m + 1 /\ Min(S) <= m /\ m \in Nat
    BY <1>1, <1>2 DEF Preceding
  <2> QED
    BY <2>1
<1> QED
  BY <1>2, <1>3

Replayed(t, f, leaf, e) == WithEvent(t, [f EXCEPT !.leaf = leaf], e).leaf
ReplayBody(t, f, v, i) ==
    IF i = 0 THEN f.leaf ELSE Replayed(t, f, v[i - 1], f.events[i])
IsReplay(t, f, v) == v = [i \in 0..Len(f.events) |-> ReplayBody(t, f, v, i)]

LEMMA DecidedIs ==
  Decided = (CHOOSE v : IsReplay(compiled, file, v))[Len(file.events)]
BY DEF Decided, IsReplay, ReplayBody, Replayed

LEMMA ReplayStep ==
  ASSUME NEW t, IsTaskTree(t), NEW f, Sound(t, f), NEW i \in 1..Len(f.events),
         NEW leaf \in [Steppable(t) -> StepStatuses]
  PROVE  /\ Replayed(t, f, leaf, f.events[i]) \in [Steppable(t) -> StepStatuses]
         /\ \A n \in Steppable(t) : Replayed(t, f, leaf, f.events[i])[n] =
                IF n \in Wrote(t, f.events[i]) THEN Says(t, f.events[i], n) ELSE leaf[n]
<1> DEFINE w == [f EXCEPT !.leaf = leaf]
           e == f.events[i]
<1>1. f = File(f.seq, f.leaf, f.batches, f.events) /\ 0 \notin t.nodes
  BY SoundFacts, TreeFacts DEF ShapeOK
<1>2. w = File(f.seq, leaf, f.batches, f.events)
  <2> DEFINE s == f.seq
             l == f.leaf
             b == f.batches
             ev == f.events
  <2>1. f = File(s, l, b, ev)
    BY <1>1
  <2> HIDE DEF s, l, b, ev
  <2>2. [f EXCEPT !.leaf = leaf] = File(s, leaf, b, ev)
    BY <2>1, SMT DEF File
  <2> QED
    BY <2>2 DEF s, b, ev
<1> HIDE DEF w
<1>3. w.leaf = leaf /\ w = File(w.seq, w.leaf, w.batches, w.events)
  <2>1. w.seq = f.seq /\ w.leaf = leaf /\ w.batches = f.batches /\ w.events = f.events
    BY <1>2 DEF File
  <2> QED
    BY <1>2, <2>1
<1> HIDE DEF e
<1>4. /\ WithEvent(t, w, e).leaf \in [Steppable(t) -> StepStatuses]
      /\ \A n \in Steppable(t) : WithEvent(t, w, e).leaf[n] =
            IF n \in Wrote(t, e) THEN Says(t, e, n) ELSE w.leaf[n]
  BY <1>1, <1>3, WithEventIs
<1> QED
  BY <1>3, <1>4 DEF w, e, Replayed

LEMMA ReplayExists ==
  ASSUME NEW t, IsTaskTree(t), NEW f, Sound(t, f)
  PROVE  \E v \in [0..Len(f.events) -> [Steppable(t) -> StepStatuses]] : IsReplay(t, f, v)
<1> DEFINE L == Len(f.events)
           N == 0..L
           V == [Steppable(t) -> StepStatuses]
           E == Preceding(L)
           G == [i \in N |-> [v \in [N -> V] |-> ReplayBody(t, f, v, i)]]
<1>1. L \in Nat /\ f.leaf \in V
  BY SoundFacts
<1>2. Acyclic(N, E)
  BY <1>1, PrecedingIsAcyclic
<1>3. \A i \in N : i # 0 => i \in 1..L /\ i - 1 \in N /\ <<i - 1, i>> \in E
  BY <1>1 DEF Preceding
<1>4. ASSUME NEW i \in N, NEW v \in [N -> V] PROVE ReplayBody(t, f, v, i) \in V
  <2>1. CASE i = 0
    BY <1>1, <2>1 DEF ReplayBody
  <2>2. CASE i # 0
    <3>1. i \in 1..L /\ v[i - 1] \in V
      BY <1>3, <2>2
    <3> QED
      BY <2>2, <3>1, ReplayStep DEF ReplayBody
  <2> QED
    BY <2>1, <2>2
<1>5. ASSUME NEW i \in N, NEW v \in [N -> V], NEW w \in [N -> V],
             \A m \in N : <<m, i>> \in E => v[m] = w[m]
      PROVE  ReplayBody(t, f, v, i) = ReplayBody(t, f, w, i)
  <2>1. CASE i = 0
    BY <2>1 DEF ReplayBody
  <2>2. CASE i # 0
    <3>1. v[i - 1] = w[i - 1]
      BY <1>3, <1>5, <2>2
    <3> QED
      BY <3>1 DEF ReplayBody
  <2> QED
    BY <2>1, <2>2
<1>6. \A i \in N : \A v \in [N -> V] : G[i][v] = ReplayBody(t, f, v, i)
  OBVIOUS
<1> HIDE DEF N, V, E, G
<1>7. TypedSteps(N, V, G)
  <2>1. V # {}
    BY <1>1 DEF V, L
  <2> QED
    BY <1>4, <1>6, <2>1 DEF TypedSteps
<1>8. Local(N, E, V, G)
  BY <1>5, <1>6 DEF Local
<1>9. PICK v \in [N -> V] : \A i \in N : v[i] = G[i][v]
  BY <1>2, <1>7, <1>8, Recursion
<1>10. IsReplay(t, f, v)
  BY <1>6, <1>9 DEF IsReplay, N
<1> QED
  BY <1>9, <1>10 DEF N, V

Unwritten(t, f, i, n) ==
    \A j \in i + 1..Len(f.events) : n \notin Wrote(t, f.events[j])

LEMMA ReplayAgrees ==
  ASSUME NEW t, IsTaskTree(t), NEW f, Sound(t, f), NEW v, IsReplay(t, f, v)
  PROVE  v[Len(f.events)] = f.leaf
<1> DEFINE L == Len(f.events)
           V == [Steppable(t) -> StepStatuses]
           Good(i) == /\ v[i] \in V
                      /\ \A n \in Steppable(t) : Unwritten(t, f, i, n) => v[i][n] = f.leaf[n]
           Bad == {i \in 0..L : ~Good(i)}
<1>1. L \in Nat /\ f.leaf \in V
  BY SoundFacts
<1>2. \A i \in 0..L : v[i] = ReplayBody(t, f, v, i)
  BY DEF IsReplay
<1>3. Bad = {}
  <2> SUFFICES ASSUME Bad # {} PROVE FALSE
    OBVIOUS
  <2> DEFINE i == Min(Bad)
  <2>1. Bad \in SUBSET Nat
    BY <1>1
  <2>2. i \in Bad /\ \A m \in Bad : i <= m
    <3> HIDE DEF Bad
    <3> QED
      BY <2>1, LeastOf
  <2> HIDE DEF i
  <2>3. i \in 0..L /\ ~Good(i)
    BY <2>2
  <2>4. CASE i = 0
    <3>1. v[i] = f.leaf
      BY <1>2, <2>3, <2>4 DEF ReplayBody
    <3> QED
      BY <1>1, <2>3, <2>4, <3>1
  <2>5. CASE i # 0
    <3>1. i \in 1..L /\ i - 1 \in 0..L /\ i - 1 < i
      BY <1>1, <2>3, <2>5
    <3>2. Good(i - 1)
      BY <2>2, <3>1
    <3> DEFINE e == f.events[i]
               leaf == v[i - 1]
    <3>3. leaf \in V /\ \A n \in Steppable(t) : Unwritten(t, f, i - 1, n) => leaf[n] = f.leaf[n]
      BY <3>2
    <3>4. v[i] = Replayed(t, f, leaf, e)
      BY <1>2, <2>3, <2>5 DEF ReplayBody
    <3>7. i \in 1..Len(f.events) /\ leaf \in [Steppable(t) -> StepStatuses]
      BY <3>1, <3>3
    <3>8. e = f.events[i]
      OBVIOUS
    <3> HIDE DEF leaf, e, L, V, Good, Bad
    <3>5. /\ v[i] \in V
          /\ \A n \in Steppable(t) :
                v[i][n] = IF n \in Wrote(t, e) THEN Says(t, e, n) ELSE leaf[n]
      <4>1. /\ v[i] \in [Steppable(t) -> StepStatuses]
            /\ \A n \in Steppable(t) :
                  v[i][n] = IF n \in Wrote(t, e) THEN Says(t, e, n) ELSE leaf[n]
        BY <3>4, <3>7, <3>8, ReplayStep
      <4> QED
        BY <4>1 DEF V
    <3>6. ASSUME NEW n \in Steppable(t), Unwritten(t, f, i, n) PROVE v[i][n] = f.leaf[n]
      <4>1. CASE n \in Wrote(t, e)
        <5>1. f.leaf[n] = Says(t, e, n)
          BY <3>6, <3>7, <3>8, <4>1 DEF Sound, LastSaid, Unwritten
        <5> QED
          BY <3>5, <4>1, <5>1
      <4>2. CASE n \notin Wrote(t, e)
        <5>1. Unwritten(t, f, i - 1, n)
          <6>1. \A j \in i - 1 + 1..L : j = i \/ j \in i + 1..L
            BY <1>1, <3>1
          <6> QED
            BY <3>6, <3>8, <4>2, <6>1 DEF Unwritten, L
        <5> QED
          BY <3>3, <3>5, <4>2, <5>1
      <4> QED
        BY <4>1, <4>2
    <3> QED
      BY <2>3, <3>5, <3>6 DEF Good
  <2> QED
    BY <2>4, <2>5
<1>4. Good(L)
  BY <1>1, <1>3
<1>5. \A n : Unwritten(t, f, L, n)
  <2>1. \A j \in L + 1..L : FALSE
    BY <1>1
  <2> QED
    BY <2>1 DEF Unwritten
<1>6. v[L] \in V /\ \A n \in Steppable(t) : v[L][n] = f.leaf[n]
  BY <1>4, <1>5
<1> HIDE DEF V, L
<1> QED
  BY <1>1, <1>6 DEF V, L

(* The stored tree can be read again.                                      *)
LEMMA CanonicalHere ==
  ASSUME StoredInv PROVE TreeCanonical
<1> DEFINE t == compiled
<1>1. IsTaskTree(t) /\ t \in Trees
  BY TreesAssumption DEF StoredInv
<1>2. ASSUME NEW f, Sound(t, f)
      PROVE  /\ f.seq \in Nat \ {0} /\ f.leaf \in [Steppable(t) -> StepStatuses]
             /\ \A i \in DOMAIN f.events :
                    /\ f.events[i].selected \in t.nodes \cup {0}
                    /\ f.events[i].results \in [Range(f.events[i].branches) -> Outcomes]
  <2>1. /\ f.seq \in Nat \ {0} /\ f.leaf \in [Steppable(t) -> StepStatuses]
        /\ DOMAIN f.events = 1..Len(f.events) /\ f.events \in Seq(Decisions(t))
    BY <1>1, <1>2, SoundFacts
  <2>2. ASSUME NEW i \in 1..Len(f.events)
        PROVE  /\ f.events[i].selected \in t.nodes \cup {0}
               /\ f.events[i].results \in [Range(f.events[i].branches) -> Outcomes]
    <3>1. EventOK(t, f.events[i])
      BY <1>2 DEF Sound
    <3>2. f.events[i] \in Decisions(t)
      BY <2>1
    <3> QED
      BY <3>1, <3>2 DEF EventOK, Decisions
  <2> QED
    BY <2>1, <2>2
<1>3. TreeTypeOK
  <2>1. \A h \in Hosts : held[h] # NoFile => Sound(t, held[h])
    BY DEF StoredInv
  <2>2. \A f \in {file} \cup Range(held) : f # NoFile => Sound(t, f)
    BY <2>1 DEF StoredInv, Range
  <2> QED
    BY <1>1, <1>2, <2>2 DEF TreeTypeOK
<1>4. ASSUME Stored
      PROVE  /\ file.leaf = Decided
             /\ \A batch \in file.batches : \A c \in DOMAIN batch.results :
                    file.leaf[c] = StatusOf[batch.results[c]]
             /\ \A i \in 2..Len(file.events) :
                    LET fallback == file.events[i].fallback IN
                    /\ fallback.source = file.events[i - 1].selected
                    /\ fallback.observation # 0 =>
                            file.leaf[fallback.observation] = "completed"
  <2>1. Sound(t, file)
    BY <1>4 DEF Stored, StoredInv
  <2>2. file.leaf = Decided
    <3> DEFINE v == CHOOSE v : IsReplay(t, file, v)
    <3>1. IsReplay(t, file, v)
      BY <1>1, <2>1, ReplayExists
    <3>2. Decided = v[Len(file.events)]
      BY DecidedIs
    <3> HIDE DEF v
    <3> QED
      BY <1>1, <2>1, <3>1, <3>2, ReplayAgrees
  <2>3. ASSUME NEW batch \in file.batches, NEW c \in DOMAIN batch.results
        PROVE  file.leaf[c] = StatusOf[batch.results[c]]
    <3>1. BatchOK(t, file, batch)
      BY <2>1 DEF Sound
    <3> QED
      BY <3>1 DEF BatchOK
  <2>4. ASSUME NEW i \in 2..Len(file.events)
        PROVE  /\ file.events[i].fallback.source = file.events[i - 1].selected
               /\ file.events[i].fallback.observation # 0 =>
                      file.leaf[file.events[i].fallback.observation] = "completed"
    <3>1. i \in 1..Len(file.events) /\ i # 1
      BY <1>1, <2>1, SoundFacts
    <3> QED
      BY <2>1, <3>1 DEF Sound, Chained, ObservationsKept
  <2> QED
    BY <2>2, <2>3, <2>4
<1> QED
  BY <1>3, <1>4 DEF TreeCanonical

-----------------------------------------------------------------------------
(* What is completed stays completed.                                      *)

LEMMA ReducedCompleted ==
  ASSUME NEW S, Reduced(S) = "completed" PROVE \A s \in S : s = "completed"
BY DEF Reduced

LEMMA ReducedAll ==
  ASSUME NEW S, S # {}, \A s \in S : s = "completed" PROVE Reduced(S) = "completed"
<1>1. S = {"completed"}
  OBVIOUS
<1> QED
  BY <1>1 DEF Reduced

LEMMA InnerCompleted ==
  ASSUME NEW t, IsTaskTree(t), NEW f, Readable(t, f), NEW n \in t.nodes, AtInner(t, f, n)
  PROVE  /\ Statuses(t, f)[n] = "completed"
                => \A c \in Kids(t, n) : Statuses(t, f)[c] = "completed"
         /\ (\A c \in Kids(t, n) : Statuses(t, f)[c] = "completed")
                => Statuses(t, f)[n] = "completed"
<1> DEFINE S == Statuses(t, f)
           K == {S[c] : c \in Kids(t, n)}
<1>1. S[n] = Reduced(K)
  <2>1. S[n] = StatusBody(t, f, S, n)
    BY StatusesAre
  <2> HIDE DEF S
  <2> QED
    BY <2>1 DEF AtInner
<1>2. K # {}
  <2>1. t.kids[n] # <<>> /\ t.kids[n] \in Seq(t.nodes)
    BY TreeFacts DEF NodeValid, ShapeOK, AtInner
  <2>2. t.kids[n][1] \in Kids(t, n)
    BY <2>1 DEF Kids, Range
  <2> QED
    BY <2>2
<1>3. S[n] = "completed" => \A c \in Kids(t, n) : S[c] = "completed"
  BY <1>1, ReducedCompleted
<1>4. (\A c \in Kids(t, n) : S[c] = "completed") => \A s \in K : s = "completed"
  OBVIOUS
<1> HIDE DEF K, S
<1>5. (\A s \in K : s = "completed") => S[n] = "completed"
  BY <1>1, <1>2, ReducedAll
<1> QED
  BY <1>3, <1>4, <1>5 DEF S

LEMMA LeafStatus ==
  ASSUME NEW t, IsTaskTree(t), NEW f, Readable(t, f), NEW n \in Steppable(t)
  PROVE  n \in t.nodes /\ Statuses(t, f)[n] = f.leaf[n]
<1> DEFINE S == Statuses(t, f)
<1>1. n \in t.nodes
  BY DEF Steppable, OfKind
<1>2. S[n] = StatusBody(t, f, S, n)
  BY <1>1, StatusesAre
<1> HIDE DEF S
<1>3. StatusBody(t, f, S, n) = f.leaf[n]
  <2>1. t.kind[n] \notin Internal /\ t.kind[n] # "join"
    BY DEF Steppable, OfKind
  <2> QED
    BY <2>1 DEF StatusBody, Internal
<1> QED
  BY <1>1, <1>2, <1>3 DEF S

(* A node with children that is not the choice.                            *)
LEMMA InnerHere ==
  ASSUME NEW t, IsTaskTree(t), NEW f, Readable(t, f), NEW n \in t.nodes,
         t.kind[n] \in Internal, t.kind[n] # "choice" \/ f.events = <<>>
  PROVE  AtInner(t, f, n)
<1>1. n \notin Steppable(t)
  BY DEF Steppable, OfKind
<1> QED
  BY <1>1, StatusCases DEF AtLeaf, AtFailed, AtChosen, AtJoin, Internal

(* Of a branch that is completed everything is.                            *)
LEMMA BranchCompleted ==
  ASSUME NEW t, IsTaskTree(t), t.version = 4, NEW f, Readable(t, f),
         NEW b \in Kids(t, Choice(t)), Statuses(t, f)[b] = "completed"
  PROVE  \A d \in Descendants(t, b) : Statuses(t, f)[d] = "completed"
<1> DEFINE S == Statuses(t, f)
           In == {b} \cup Descendants(t, b)
           Bad == {q \in In : S[q] = "completed"
                              /\ \E d \in Descendants(t, q) : S[d] # "completed"}
<1>1. SUFFICES ASSUME Bad # {} PROVE FALSE
  OBVIOUS
<1>2. Acyclic(t.nodes, Up(t)) /\ \A n \in t.nodes : Kids(t, n) \subseteq t.nodes
  BY TreeFacts
<1>3. b \in t.nodes /\ In \subseteq t.nodes /\ t.kind[b] = "sequence"
  BY BranchFacts, Below
<1>4. PICK q \in Bad : \A k \in Bad : <<k, q>> \notin Up(t)
  <2>1. Bad \in (SUBSET t.nodes) \ {{}}
    BY <1>1, <1>3
  <2> HIDE DEF Bad
  <2> QED
    BY <1>2, <2>1 DEF Acyclic
<1>5. q \in t.nodes /\ q \in In /\ S[q] = "completed"
  BY <1>3, <1>4
<1>6. PICK d \in Descendants(t, q) : S[d] # "completed"
  BY <1>4
<1>7. PICK c \in Kids(t, q) : d = c \/ d \in Descendants(t, c)
  BY <1>5, <1>6, Below
<1>8. c \in t.nodes /\ <<c, q>> \in Up(t) /\ c \in In
  <2>1. c \in Descendants(t, b)
    BY <1>3, <1>5, <1>7, Below, BelowIsInside
  <2> QED
    BY <1>2, <1>5, <1>7, <2>1 DEF Up
<1>9. AtInner(t, f, q)
  <2>1. t.kids[q] # <<>>
    <3>1. t.kids[q] \in Seq(t.nodes)
      BY <1>5, TreeFacts DEF ShapeOK
    <3> QED
      BY <1>7, <3>1 DEF Kids, Range
  <2>2. t.kind[q] \in Internal
    BY <1>5, <2>1, TreeFacts DEF NodeValid
  <2>3. t.kind[q] # "choice"
    <3>1. Descendants(t, b) \cap OfKind(t, {"choice"}) = {}
      BY TreeFacts DEF ChoiceShape
    <3> QED
      BY <1>3, <1>5, <3>1 DEF OfKind
  <2> QED
    BY <1>5, <2>2, <2>3, InnerHere
<1>10. S[c] = "completed"
  BY <1>5, <1>7, <1>9, InnerCompleted
<1> QED
  BY <1>4, <1>6, <1>7, <1>8, <1>10

(* No fallback leaves a branch that is completed.                          *)
LEMMA FallbackOpen ==
  ASSUME NEW t, IsTaskTree(t), t.version = 4, NEW f, Sound(t, f), f.events # <<>>,
         NEW fb \in Fallbacks(t, f)
  PROVE  Statuses(t, f)[Last(f.events).selected] # "completed"
<1> DEFINE S == Statuses(t, f)
           b == Last(f.events).selected
<1> SUFFICES ASSUME S[b] = "completed" PROVE FALSE
  OBVIOUS
<1>1. SelectedBranch(f) = b /\ Readable(t, f)
  BY SoundFacts DEF SelectedBranch
<1>2. b # 0 /\ fb \in PreBoundary(t, f) \cup ReadOnlyMiss(t, f)
  BY <1>1 DEF Fallbacks
<1>3. b \in Kids(t, Choice(t))
  BY <1>2, SoundFacts DEF EventOK
<1>4. \A d \in Descendants(t, b) : S[d] = "completed"
  BY <1>1, <1>3, BranchCompleted
<1> HIDE DEF b, S
<1>5. /\ b \in t.nodes /\ t.kids[b] \in Seq(t.nodes) /\ Len(t.kids[b]) >= 2
  BY <1>3, BranchFacts
<1>6. CASE fb \in PreBoundary(t, f)
  <2>1. fb.failure = Gate(t, b) /\ \A n \in Descendants(t, b) \ {fb.failure} : S[n] = "pending"
    BY <1>1, <1>6 DEF PreBoundary, S
  <2>2. Gate(t, b) = t.kids[b][1] /\ t.kids[b][2] \in Kids(t, b) /\ t.kids[b][2] # t.kids[b][1]
    <3>1. IsInjective(t.kids[b])
      BY <1>5, TreeFacts DEF NodeValid
    <3> QED
      BY <1>5, <3>1 DEF Gate, Kids, Range, IsInjective
  <2>3. t.kids[b][2] \in Descendants(t, b)
    BY <1>5, <2>2, Below
  <2> QED
    BY <1>4, <2>1, <2>2, <2>3
<1>7. CASE fb \in ReadOnlyMiss(t, f)
  <2>1. /\ fb \in [source : {b}, failure : Descendants(t, b) \cap OfKind(t, {"verify"}),
                   observation : Descendants(t, b) \cap OfKind(t, {"tool_step", "subtree"})]
        /\ f.leaf[fb.failure] \in {"pending", "in_progress"}
    BY <1>1, <1>7 DEF ReadOnlyMiss
  <2>2. fb.failure \in Descendants(t, b) /\ fb.failure \in t.nodes
        /\ t.kind[fb.failure] = "verify"
    BY <2>1 DEF OfKind
  <2>3. S[fb.failure] = f.leaf[fb.failure]
    BY <1>1, <2>2, ConditionsStep, LeafStatus DEF S
  <2> QED
    BY <1>4, <2>1, <2>2, <2>3
<1> QED
  BY <1>2, <1>6, <1>7

(* A step takes back the status of a completed leaf only for the gate of   *)
(* a branch that is still open, and leaves the choice only when it is.     *)
Onward(t, f, g) ==
    /\ \A n \in Steppable(t) : f.leaf[n] = "completed" =>
            \/ g.leaf[n] = "completed"
            \/ /\ t.version = 4
               /\ \E b \in Kids(t, Choice(t)) :
                    n = Gate(t, b) /\ Statuses(t, f)[b] # "completed"
    /\ \/ g.events = f.events
       \/ f.events = <<>> /\ t.version = 4
       \/ f.events # <<>> /\ Statuses(t, f)[Choice(t)] # "completed" /\ t.version = 4

LEMMA CompletedStays ==
  ASSUME NEW t, IsTaskTree(t), OrderGuarded(t), NEW f, Sound(t, f), NEW g, Readable(t, g),
         Onward(t, f, g)
  PROVE  \A p \in t.nodes \ Gates(t) :
            Statuses(t, f)[p] = "completed" => Statuses(t, g)[p] = "completed"
<1> DEFINE S == Statuses(t, f)
           U == Statuses(t, g)
           Bad == {p \in t.nodes \ Gates(t) : S[p] = "completed" /\ U[p] # "completed"}
<1>1. SUFFICES ASSUME Bad # {} PROVE FALSE
  OBVIOUS
<1>2. PICK p \in Bad : \A m \in Bad : <<m, p>> \notin KnownBefore(t)
  <2>1. Bad \in (SUBSET t.nodes) \ {{}}
    BY <1>1
  <2> HIDE DEF Bad
  <2> QED
    BY <2>1, BeforeIsAcyclic DEF Acyclic
<1>3. /\ p \in t.nodes \ Gates(t) /\ S[p] = "completed" /\ U[p] # "completed"
      /\ \A m \in t.nodes \ Gates(t) :
            <<m, p>> \in KnownBefore(t) /\ S[m] = "completed" => U[m] = "completed"
  BY <1>2
<1> HIDE DEF Bad
<1>4. /\ Readable(t, f) /\ Kids(t, p) \subseteq t.nodes /\ ShapeOK(t)
      /\ S[p] = StatusBody(t, f, S, p) /\ U[p] = StatusBody(t, g, U, p)
  BY <1>3, SoundFacts, StatusesAre, TreeFacts
<1>5. CASE p \in Steppable(t)
  <2>1. f.leaf[p] = "completed" /\ g.leaf[p] # "completed"
    BY <1>3, <1>4, <1>5, LeafStatus
  <2> QED
    BY <1>3, <1>5, <2>1 DEF Onward, Gates
<1>6. CASE t.kind[p] = "join"
  <2>1. AtJoin(t, f, p) /\ AtJoin(t, g, p)
    <3>1. p \notin Steppable(t)
      BY <1>6 DEF Steppable, OfKind
    <3> QED
      BY <1>3, <1>4, <1>6, <3>1, StatusCases
         DEF AtLeaf, AtFailed, AtChosen, AtInner, Internal
  <2> DEFINE P == Prerequisites(t, p)
  <2> HIDE DEF S, U
  <2>2. S[p] = Reduced({S[q] : q \in P}) /\ U[p] = Reduced({U[q] : q \in P})
        /\ \A q \in P : <<q, p>> \in KnownBefore(t)
    BY <1>4, <2>1 DEF AtJoin
  <2>3. P \subseteq t.nodes \ Gates(t)
    BY DEF OrderGuarded, Prerequisites
  <2>4. P # {}
    BY <1>3, <1>6, TreeFacts DEF DependenciesValid, OfKind
  <2> HIDE DEF P
  <2>5. \A s \in {S[q] : q \in P} : s = "completed"
    BY <1>3, <2>2, ReducedCompleted
  <2>6. \A q \in P : U[q] = "completed"
    BY <1>3, <2>2, <2>3, <2>5
  <2>7. Reduced({U[q] : q \in P}) = "completed"
    <3>1. {U[q] : q \in P} # {} /\ \A s \in {U[q] : q \in P} : s = "completed"
      BY <2>4, <2>6
    <3> QED
      BY <3>1, ReducedAll
  <2> QED
    BY <1>3, <2>2, <2>7
<1>7. CASE t.kind[p] = "choice" /\ f.events # <<>>
  <2>1. p \notin Steppable(t)
    BY <1>7 DEF Steppable, OfKind, Internal
  <2>2. AtFailed(t, f, p) \/ AtChosen(t, f, p)
    BY <1>3, <1>4, <1>7, <2>1, StatusCases DEF AtLeaf, AtJoin, AtInner
  <2> DEFINE b == Last(f.events).selected
  <2> HIDE DEF S, U
  <2>3. AtChosen(t, f, p)
    BY <1>3, <1>4, <2>2 DEF AtFailed
  <2>4. p = Choice(t) /\ S[p] = S[b] /\ b \in Kids(t, p) /\ b # 0 /\ <<b, p>> \in KnownBefore(t)
    BY <1>4, <2>3 DEF AtChosen
  <2>5. g.events = f.events /\ t.version = 4
    <3>1. t.version = 4
      BY <1>7, SoundFacts
    <3> QED
      BY <1>3, <1>7, <2>4, <3>1 DEF Onward, S
  <2>6. U[p] = U[b]
    BY <1>4, <1>7, <2>1, <2>4, <2>5 DEF StatusBody
  <2>7. b \notin Gates(t) /\ b \in t.nodes
    <3>1. \A c \in Kids(t, Choice(t)) : t.kind[c] = "sequence" /\ t.kind[Gate(t, c)] = "condition"
      BY <2>5, BranchFacts
    <3> QED
      BY <1>4, <2>4, <3>1 DEF Gates
  <2> QED
    BY <1>3, <2>4, <2>6, <2>7
<1>8. CASE t.kind[p] \in Internal /\ (t.kind[p] # "choice" \/ f.events = <<>>)
  <2>1. AtInner(t, f, p)
    BY <1>3, <1>4, <1>8, InnerHere
  <2>2. \A c \in Kids(t, p) : S[c] = "completed" /\ <<c, p>> \in KnownBefore(t)
    <3>1. \A c \in Kids(t, p) : <<c, p>> \in KnownBefore(t)
      BY <2>1 DEF AtInner
    <3> QED
      BY <1>3, <1>4, <2>1, <3>1, InnerCompleted
  <2>3. t.kind[p] # "choice" \/ g.events = <<>>
    <3> SUFFICES ASSUME t.kind[p] = "choice", f.events = <<>>, g.events # <<>> PROVE FALSE
      BY <1>8
    <3>1. t.version = 4
      BY DEF Onward
    <3>2. p = Choice(t)
      BY <1>3, <3>1, TreeFacts DEF OfKind
    <3>3. PICK b : b \in Kids(t, p)
      <4>1. t.kids[p] # <<>> /\ t.kids[p] \in Seq(t.nodes)
        BY <1>3, <1>4, <1>8, TreeFacts DEF NodeValid, ShapeOK
      <4>2. t.kids[p][1] \in Kids(t, p)
        BY <4>1 DEF Kids, Range
      <4> QED
        BY <4>2
    <3> DEFINE x == Gate(t, b)
    <3>4. /\ b \in t.nodes /\ t.kind[b] = "sequence" /\ x \in Kids(t, b) /\ x \in Steppable(t)
      BY <3>1, <3>2, <3>3, BranchFacts
    <3>5. S[x] = "completed"
      <4>1. AtInner(t, f, b)
        BY <1>4, <3>4, InnerHere DEF Internal
      <4> QED
        BY <1>4, <2>2, <3>3, <3>4, <4>1, InnerCompleted
    <3>6. f.leaf[x] = "pending"
      <4>1. Nth(t, b) \in 1..Len(Order(t)) /\ Order(t)[Nth(t, b)] = b
        BY <3>1, <3>2, <3>3, NthIs
      <4> QED
        BY <3>1, <4>1 DEF Sound, Untried, AheadOf
    <3> QED
      BY <1>4, <3>4, <3>5, <3>6, LeafStatus
  <2>4. AtInner(t, g, p)
    BY <1>3, <1>8, <2>3, InnerHere
  <2>5. ASSUME NEW c \in Kids(t, p) PROVE U[c] = "completed"
    <3>1. CASE c \notin Gates(t)
      BY <1>3, <1>4, <2>2, <2>5, <3>1
    <3>2. CASE c \in Gates(t)
      <4>1. t.version = 4 /\ \E b \in Kids(t, Choice(t)) : c = Gate(t, b)
        BY <3>2 DEF Gates
      <4>2. \A b \in Kids(t, Choice(t)) : /\ Gate(t, b) \in Kids(t, b) /\ b \in t.nodes
                                          /\ Gate(t, b) \in Steppable(t)
        BY <4>1, BranchFacts
      <4>3. \A b \in Kids(t, Choice(t)) : c = Gate(t, b) => b = p
        BY <1>3, <2>5, <4>2, ChildHasOneParent
      <4>4. c \in Steppable(t)
        BY <4>1, <4>2
      <4>5. f.leaf[c] = "completed"
        <5>1. Readable(t, f)
          BY <1>4
        <5>2. S[c] = f.leaf[c]
          BY <4>4, <5>1, LeafStatus
        <5> QED
          BY <2>2, <2>5, <5>2
      <4>6. g.leaf[c] = "completed"
        BY <1>3, <4>3, <4>4, <4>5 DEF Onward
      <4> QED
        BY <4>4, <4>6, LeafStatus
    <3> QED
      BY <3>1, <3>2
  <2> QED
    BY <1>3, <2>4, <2>5, InnerCompleted
<1> QED
  <2>1. t.kind[p] \in Kinds
    BY <1>3, <1>4 DEF ShapeOK
  <2>2. \/ p \in Steppable(t) \/ t.kind[p] = "join" \/ t.kind[p] \in Internal
    BY <1>3, <2>1 DEF Steppable, OfKind
  <2> QED
    BY <1>5, <1>6, <1>7, <1>8, <2>2

-----------------------------------------------------------------------------
(* What was started was started in order.                                  *)

LEMMA MovedOnward ==
  ASSUME NEW t, IsTaskTree(t), NEW f, Sound(t, f), NEW g, TreeMoved(t, f, g)
  PROVE  Onward(t, f, g)
<1>1. f.leaf \in [Steppable(t) -> StepStatuses] /\ Readable(t, f) /\ 0 \notin t.nodes
      /\ f.seq + 1 \in Nat \ {0} /\ f.events \in Seq(Decisions(t))
  <2>1. f.seq + 1 \in Nat \ {0}
    <3>1. f.seq \in Nat \ {0}
      BY SoundFacts
    <3> QED
      BY <3>1
  <2> QED
    BY <2>1, SoundFacts, TreeFacts DEF ShapeOK
<1>2. CASE MovedLeaf(t, f, g) \/ MovedBatch(t, f, g)
  <2>1. g.events = f.events
    BY <1>2 DEF MovedLeaf, MovedBatch, File
  <2>2. ~(Len(f.events) < Len(g.events))
    BY <1>1, <2>1
  <2>3. \A n \in Steppable(t) : f.leaf[n] = "completed" => g.leaf[n] = "completed"
    BY <1>2, <2>2, MovedKeeps DEF TreeMoved, Kept, Terminal
  <2> QED
    BY <2>1, <2>3 DEF Onward
<1>3. CASE MovedChoice(t, f, g)
  <2>1. t.version = 4
    BY <1>3 DEF MovedChoice
  <2>2. PICK fb : /\ IF f.events = <<>> THEN fb = FirstTry ELSE fb \in Fallbacks(t, f)
                  /\ \E results \in [Range(Candidates(t, fb)) -> Outcomes] :
                        LET e == ChoiceEvent(t, Candidates(t, fb), results, fb)
                        IN g = File(f.seq + 1, WithEvent(t, f, e).leaf, f.batches,
                                    Append(f.events, e))
    BY <1>3 DEF MovedChoice
  <2>3. PICK results \in [Range(Candidates(t, fb)) -> Outcomes] :
                LET e == ChoiceEvent(t, Candidates(t, fb), results, fb)
                IN g = File(f.seq + 1, WithEvent(t, f, e).leaf, f.batches, Append(f.events, e))
    BY <2>2
  <2> DEFINE e == ChoiceEvent(t, Candidates(t, fb), results, fb)
             s == f.seq + 1
  <2>4. /\ s \in Nat \ {0} /\ e = ChoiceEvent(t, Candidates(t, fb), results, fb)
        /\ g = File(s, WithEvent(t, f, e).leaf, f.batches, Append(f.events, e))
    BY <1>1, <2>3
  <2> HIDE DEF e, s
  <2>5. \A n \in Steppable(t) : f.leaf[n] \in Terminal =>
                \/ g.leaf[n] = f.leaf[n]
                \/ n = fb.failure /\ f.leaf[n] = "completed" /\ g.leaf[n] = "failed"
    BY <2>1, <2>2, <2>4, ChoiceKeeps
  <2>6. /\ FallbackOK(t, fb)
        /\ f.events = <<>> => fb.source = 0
        /\ f.events # <<>> => /\ fb.source = Last(f.events).selected /\ fb.source # 0
                              /\ \/ f.leaf[fb.failure] = "completed"
                                    /\ fb.failure = Gate(t, fb.source)
                                 \/ f.leaf[fb.failure] \in {"pending", "in_progress"}
                                    /\ t.kind[fb.failure] = "verify"
    BY <2>1, <2>2, FallbackIs
  <2>7. CASE f.events = <<>>
    <3>1. fb.failure = 0
      BY <2>6, <2>7 DEF FallbackOK
    <3>2. \A n \in Steppable(t) : n # 0
      BY <1>1 DEF Steppable, OfKind
    <3>3. \A n \in Steppable(t) : f.leaf[n] = "completed" => g.leaf[n] = "completed"
      BY <2>5, <3>1, <3>2 DEF Terminal
    <3> QED
      BY <2>1, <2>7, <3>3 DEF Onward
  <2>8. CASE f.events # <<>>
    <3> DEFINE b == Last(f.events).selected
               S == Statuses(t, f)
               C == Choice(t)
    <3>1. S[b] # "completed"
      BY <2>1, <2>2, <2>8, FallbackOpen
    <3>2. b # 0 /\ b \in Kids(t, C) /\ C \in t.nodes /\ t.kind[C] = "choice"
      <4>1. b # 0 /\ b \in Kids(t, C)
        BY <2>6, <2>8, SoundFacts DEF EventOK
      <4>2. OfKind(t, {"choice"}) = {C}
        BY <2>1, TreeFacts
      <4> QED
        BY <4>1, <4>2 DEF OfKind
    <3>3. S[C] = S[b]
      <4>1. S[C] = StatusBody(t, f, S, C)
        BY <1>1, <3>2, StatusesAre
      <4>2. C \notin Steppable(t)
        BY <3>2 DEF Steppable, OfKind, Internal
      <4> HIDE DEF S, C
      <4> QED
        BY <2>8, <3>2, <4>1, <4>2 DEF StatusBody
    <3>4. fb.source = b
      BY <2>6, <2>8
    <3> HIDE DEF b, S, C
    <3>5. ASSUME NEW n \in Steppable(t), f.leaf[n] = "completed", g.leaf[n] # "completed"
          PROVE  n = Gate(t, b)
      BY <2>5, <2>6, <2>8, <3>4, <3>5 DEF Terminal
    <3> QED
      BY <2>1, <2>8, <3>1, <3>2, <3>3, <3>5 DEF Onward, C, S
  <2> QED
    BY <2>7, <2>8
<1> QED
  BY <1>2, <1>3 DEF TreeMoved

Selected(f, b) == \E i \in DOMAIN f.events : f.events[i].selected = b
BranchTaken(t, f, n) ==
    t.version = 4 => \A b \in Kids(t, Choice(t)) :
        n \in Descendants(t, b) \ {Gate(t, b)} => Selected(f, b)
PrereqsDone(t, f, n) == \A p \in Prerequisites(t, n) : Statuses(t, f)[p] = "completed"
OrderOK(t, f) ==
    \A n \in Steppable(t) : f.leaf[n] # "pending" => PrereqsDone(t, f, n) /\ BranchTaken(t, f, n)

LEMMA LastIsSelected ==
  ASSUME NEW t, IsTaskTree(t), NEW f, Sound(t, f), f.events # <<>>
  PROVE  Selected(f, Last(f.events).selected)
<1>1. f.events \in Seq(Decisions(t)) /\ Len(f.events) \in 1..Len(f.events)
  BY SoundFacts
<1> QED
  BY <1>1 DEF Selected, Last

LEMMA BranchNotTaken ==
  ASSUME NEW t, IsTaskTree(t), t.version = 4, NEW f, Sound(t, f),
         NEW b \in Kids(t, Choice(t)), ~Selected(f, b), NEW n \in Descendants(t, b)
  PROVE  n \notin Startable(t, f)
<1> DEFINE X == {b} \cup Descendants(t, b)
           C == Choice(t)
<1>1. C \in t.nodes /\ b \in t.nodes /\ t.root \notin X /\ Readable(t, f)
  BY BranchFacts, SoundFacts
<1>2. OfKind(t, {"choice"}) = {C}
  BY TreeFacts
<1>3. ASSUME NEW m \in t.nodes \ X, NEW c \in Kids(t, m) \cap X, Passes(t, f, m, c)
      PROVE  FALSE
  <2>1. c # b => m \in X
    BY <1>1, <1>3, AboveIsInside
  <2>2. c = b /\ m = C
    BY <1>1, <1>3, <2>1, ChildHasOneParent
  <2>3. t.kind[m] = "choice"
    BY <1>2, <2>2 DEF OfKind
  <2>4. f.events # <<>> /\ b = Last(f.events).selected
    BY <1>3, <2>2, <2>3 DEF Passes
  <2> QED
    BY <2>4, LastIsSelected
<1>4. n \in X
  OBVIOUS
<1> HIDE DEF X
<1> QED
  BY <1>1, <1>3, <1>4, NoWayIn

LEMMA StartedLeaf ==
  ASSUME NEW t, IsTaskTree(t), NEW f, Sound(t, f), NEW g, MovedLeaf(t, f, g),
         NEW n \in Steppable(t), f.leaf[n] = "pending", g.leaf[n] # "pending"
  PROVE  PrereqsDone(t, f, n) /\ BranchTaken(t, f, n)
<1>1. PICK m, target : /\ LeafMoves(t, f, m, target)
                       /\ g = File(f.seq + 1, [f.leaf EXCEPT ![m] = target],
                                   f.batches, f.events)
  BY DEF MovedLeaf
<1>2. g.leaf = [f.leaf EXCEPT ![m] = target]
  BY <1>1 DEF File
<1>3. f.leaf \in [Steppable(t) -> StepStatuses] /\ Readable(t, f)
  BY SoundFacts
<1>4. m = n
  BY <1>2, <1>3
<1>5. n \in Startable(t, f)
  BY <1>1, <1>4, StartsAreStartable
<1>6. PrereqsDone(t, f, n)
  BY <1>3, <1>5, StartableFound DEF Found, PrereqsDone
<1> QED
  BY <1>5, <1>6, BranchNotTaken DEF BranchTaken

LEMMA StartedBatch ==
  ASSUME NEW t, IsTaskTree(t), OrderGuarded(t), NEW f, Sound(t, f), NEW g,
         MovedBatch(t, f, g),
         NEW n \in Steppable(t), f.leaf[n] = "pending", g.leaf[n] # "pending"
  PROVE  PrereqsDone(t, f, n) /\ BranchTaken(t, f, n)
<1>1. PICK p : /\ BatchReady(t, f, p)
               /\ \E results \in [Kids(t, p) -> Outcomes] :
                     /\ ~Blocked(results)
                     /\ g = File(f.seq + 1, WithBatch(f, p, results).leaf,
                                 f.batches \cup {[node |-> p, results |-> results]}, f.events)
  BY DEF MovedBatch
<1>2. PICK results \in [Kids(t, p) -> Outcomes] :
                g = File(f.seq + 1, WithBatch(f, p, results).leaf,
                         f.batches \cup {[node |-> p, results |-> results]}, f.events)
  BY <1>1
<1>3. g.leaf = WithBatch(f, p, results).leaf
  BY <1>2 DEF File
<1>4. f.leaf \in [Steppable(t) -> StepStatuses]
      /\ f = File(f.seq, f.leaf, f.batches, f.events)
  BY SoundFacts
<1>5. WithBatch(f, p, results).leaf =
            [c \in Steppable(t) |-> IF c \in Kids(t, p) THEN StatusOf[results[c]]
                                    ELSE f.leaf[c]]
  <2>1. DOMAIN f.leaf = Steppable(t) /\ DOMAIN results = Kids(t, p)
    BY <1>4
  <2> QED
    BY <1>4, <2>1 DEF WithBatch, File
<1>6. n \in Kids(t, p)
  BY <1>3, <1>5
<1>7. n \in BatchLeaves(t)
  BY <1>1, <1>6 DEF BatchReady, BatchLeaves
<1>8. Prerequisites(t, n) = {}
  BY <1>7 DEF OrderGuarded, Prerequisites
<1> QED
  BY <1>7, <1>8 DEF OrderGuarded, PrereqsDone, BranchTaken

LEMMA StartedChoice ==
  ASSUME NEW t, IsTaskTree(t), OrderGuarded(t), NEW f, Sound(t, f), NEW g,
         MovedChoice(t, f, g),
         NEW n \in Steppable(t), f.leaf[n] = "pending", g.leaf[n] # "pending"
  PROVE  PrereqsDone(t, f, n) /\ BranchTaken(t, f, n)
<1>1. t.version = 4
  BY DEF MovedChoice
<1>2. PICK fb : /\ IF f.events = <<>> THEN fb = FirstTry ELSE fb \in Fallbacks(t, f)
                /\ \E results \in [Range(Candidates(t, fb)) -> Outcomes] :
                      LET e == ChoiceEvent(t, Candidates(t, fb), results, fb)
                      IN g = File(f.seq + 1, WithEvent(t, f, e).leaf, f.batches,
                                  Append(f.events, e))
  BY DEF MovedChoice
<1>3. PICK results \in [Range(Candidates(t, fb)) -> Outcomes] :
                LET e == ChoiceEvent(t, Candidates(t, fb), results, fb)
                IN g = File(f.seq + 1, WithEvent(t, f, e).leaf, f.batches, Append(f.events, e))
  BY <1>2
<1> DEFINE e == ChoiceEvent(t, Candidates(t, fb), results, fb)
<1>4. g.leaf = WithEvent(t, f, e).leaf /\ e.fallback = fb
  BY <1>3 DEF File, ChoiceEvent
<1>5. /\ FallbackOK(t, fb) /\ fb.source \in Kids(t, Choice(t)) \cup {0}
      /\ fb.source # 0 => f.events # <<>> /\ fb.source = Last(f.events).selected
  BY <1>1, <1>2, FallbackIs
<1>6. DecidedGates(t, e) = GatesIn(t, Nth(t, fb.source),
                                   IF e.selected = 0 THEN Len(Order(t)) ELSE Nth(t, e.selected))
      /\ e.selected \in Kids(t, Choice(t)) \cup {0}
  BY <1>1, <1>5, ChoiceEventIs
<1> HIDE DEF e
<1>7. n \in Wrote(t, e)
  <2>1. f.leaf \in [Steppable(t) -> StepStatuses] /\ 0 \notin t.nodes
        /\ f = File(f.seq, f.leaf, f.batches, f.events)
    BY SoundFacts, TreeFacts DEF ShapeOK
  <2>2. WithEvent(t, f, e).leaf[n] = IF n \in Wrote(t, e) THEN Says(t, e, n) ELSE f.leaf[n]
    BY <2>1, WithEventIs
  <2> QED
    BY <1>4, <2>2
<1>8. \/ \E b \in Kids(t, Choice(t)) : n = Gate(t, b)
      \/ /\ t.kind[n] = "verify" /\ n \in Descendants(t, fb.source)
         /\ fb.source \in Kids(t, Choice(t)) /\ Selected(f, fb.source)
  <2>1. CASE n \in DecidedGates(t, e)
    <3>1. /\ Nth(t, fb.source) \in 0..Len(Order(t))
          /\ (IF e.selected = 0 THEN Len(Order(t)) ELSE Nth(t, e.selected)) \in 0..Len(Order(t))
      BY <1>1, <1>5, <1>6, OrderFacts, NthIs
    <3> QED
      BY <1>1, <1>6, <2>1, <3>1, GatesInAre
  <2>2. CASE n = fb.failure /\ fb.failure # 0
    <3>1. fb.source # 0
      BY <1>5, <2>2 DEF FallbackOK
    <3>2. Selected(f, fb.source)
      BY <1>5, <3>1, LastIsSelected
    <3> QED
      BY <1>5, <2>2, <3>1, <3>2 DEF FallbackOK
  <2> QED
    BY <1>4, <1>7, <2>1, <2>2 DEF Wrote
<1>9. n \in Gates(t) \cup Missable(t)
  <2>1. n \in t.nodes
    BY DEF Steppable, OfKind
  <2> QED
    BY <1>1, <1>8, <2>1 DEF Gates, Missable, OfKind
<1>10. Prerequisites(t, n) = {}
  BY <1>9 DEF OrderGuarded, Prerequisites
<1>11. ASSUME NEW b \in Kids(t, Choice(t)), n \in Descendants(t, b) \ {Gate(t, b)}
       PROVE  Selected(f, b)
  <2>1. CASE \E c \in Kids(t, Choice(t)) : n = Gate(t, c)
    <3>1. PICK c \in Kids(t, Choice(t)) : n = Gate(t, c)
      BY <2>1
    <3>2. n \in Descendants(t, c) /\ c # b
      BY <1>1, <1>11, <3>1, BranchFacts
    <3> QED
      BY <1>1, <1>11, <3>2, BranchesApart
  <2>2. CASE /\ n \in Descendants(t, fb.source)
             /\ fb.source \in Kids(t, Choice(t)) /\ Selected(f, fb.source)
    <3>1. fb.source = b
      BY <1>1, <1>11, <2>2, BranchesApart
    <3> QED
      BY <2>2, <3>1
  <2> QED
    BY <1>8, <2>1, <2>2
<1> QED
  BY <1>10, <1>11 DEF PrereqsDone, BranchTaken

LEMMA OrderStep ==
  ASSUME NEW t, IsTaskTree(t), OrderGuarded(t), NEW f, Sound(t, f), OrderOK(t, f),
         NEW g, TreeMoved(t, f, g)
  PROVE  OrderOK(t, g)
<1>1. Sound(t, g) /\ Readable(t, g)
  BY MovedKeeps, SoundFacts
<1>2. \A p \in t.nodes \ Gates(t) :
            Statuses(t, f)[p] = "completed" => Statuses(t, g)[p] = "completed"
  BY <1>1, MovedOnward, CompletedStays
<1>3. \A n : Prerequisites(t, n) \subseteq t.nodes \ Gates(t)
  BY DEF Prerequisites, OrderGuarded
<1>4. \A b : Selected(f, b) => Selected(g, b)
  <2>1. f.events \in Seq(Decisions(t)) /\ g.events \in Seq(Decisions(t))
    BY <1>1, SoundFacts
  <2>2. g.events = f.events \/ \E e \in Decisions(t) : g.events = Append(f.events, e)
    <3>1. CASE MovedLeaf(t, f, g) \/ MovedBatch(t, f, g)
      BY <3>1 DEF MovedLeaf, MovedBatch, File
    <3>2. CASE MovedChoice(t, f, g)
      <4>1. PICK e : g.events = Append(f.events, e)
        BY <3>2 DEF MovedChoice, File
      <4>2. e = g.events[Len(f.events) + 1] /\ Len(f.events) + 1 \in 1..Len(g.events)
        BY <2>1, <4>1
      <4>3. e \in Decisions(t)
        BY <2>1, <4>2
      <4> QED
        BY <4>1, <4>3
    <3> QED
      BY <3>1, <3>2 DEF TreeMoved
  <2>3. \A i \in DOMAIN f.events : i \in DOMAIN g.events /\ g.events[i] = f.events[i]
    <3> DEFINE D == Decisions(t)
    <3> HIDE DEF D
    <3> QED
      BY <2>1, <2>2 DEF D
  <2> QED
    BY <2>3 DEF Selected
<1>5. ASSUME NEW n, PrereqsDone(t, f, n) /\ BranchTaken(t, f, n)
      PROVE  PrereqsDone(t, g, n) /\ BranchTaken(t, g, n)
  BY <1>2, <1>3, <1>4, <1>5 DEF PrereqsDone, BranchTaken
<1>6. ASSUME NEW n \in Steppable(t), g.leaf[n] # "pending"
      PROVE  PrereqsDone(t, f, n) /\ BranchTaken(t, f, n)
  <2>1. CASE f.leaf[n] # "pending"
    BY <2>1 DEF OrderOK
  <2>2. CASE f.leaf[n] = "pending"
    BY <1>6, <2>2, StartedLeaf, StartedBatch, StartedChoice DEF TreeMoved
  <2> QED
    BY <2>1, <2>2
<1> QED
  BY <1>5, <1>6 DEF OrderOK

OrderInv == file = NoFile \/ OrderOK(compiled, file)

LEMMA OrderHere ==
  ASSUME StoredInv, OrderInv PROVE StartedInOrder
<1> SUFFICES ASSUME file # NoFile PROVE StartedInOrder
  BY DEF StartedInOrder, Stored
<1>1. Sound(compiled, file) /\ OrderOK(compiled, file)
  BY DEF StoredInv, OrderInv
<1>2. Cardinality(Active(compiled, file)) <= 1
  <2>1. PICK a : Active(compiled, file) \subseteq {a}
    BY <1>1 DEF Sound, OneActive
  <2>2. Active(compiled, file) = {} \/ Active(compiled, file) = {a}
    BY <2>1
  <2>3. Cardinality({}) = 0
    BY FS_EmptySet
  <2>4. Cardinality({a}) = 1
    BY FS_Singleton
  <2> QED
    BY <2>2, <2>3, <2>4
<1> QED
  BY <1>1, <1>2 DEF StartedInOrder, OrderOK, PrereqsDone, BranchTaken, Selected

LEMMA OrderInvStep ==
  ASSUME StoredInv, OrderInv, \A t \in Trees : OrderGuarded(t), [TreeNext]_treeVars
  PROVE  OrderInv'
<1>1. compiled' = compiled /\ FileStep /\ IsTaskTree(compiled) /\ OrderGuarded(compiled)
  BY StepsMove, TreesAssumption DEF StoredInv
<1>2. CASE file' = file
  BY <1>1, <1>2 DEF OrderInv
<1>3. CASE file = NoFile /\ file' = Fresh(compiled)
  <2>1. file'.leaf = [n \in Steppable(compiled) |-> "pending"]
    BY <1>3 DEF Fresh, File
  <2>2. OrderOK(compiled, file')
    BY <2>1 DEF OrderOK
  <2> QED
    BY <1>1, <2>2 DEF OrderInv
<1>4. CASE Sound(compiled, file) /\ TreeMoved(compiled, file, file')
  <2>1. OrderOK(compiled, file)
    BY <1>4, SoundIsStored DEF OrderInv
  <2>2. OrderOK(compiled, file')
    BY <1>1, <1>4, <2>1, OrderStep
  <2> QED
    BY <1>1, <2>2 DEF OrderInv
<1> QED
  BY <1>1, <1>2, <1>3, <1>4 DEF FileStep

(* TaskTree.__post_init__ would read back every tree that is ever stored:  *)
(* its leaves say what the batches and the chain of events say.            *)
LEMMA TreesStayCanonical == TreeSpec => []TreeCanonical
BY TreeAlways, CanonicalHere, PTL

(* compile_next_leaf: in trees in which no batch and no event decides a    *)
(* leaf with prerequisites, and no gate is one, the stored tree is at every*)
(* time one that can be read again, and whatever was started was started   *)
(* after its prerequisites and in a branch that an event selected.         *)
THEOREM TreesAreSound ==
  (\A t \in Trees : OrderGuarded(t)) => (TreeSpec => []TreeSound)
<1> SUFFICES ASSUME \A t \in Trees : OrderGuarded(t) PROVE TreeSpec => []TreeSound
  OBVIOUS
<1>1. TreeInit => OrderInv
  BY DEF TreeInit, OrderInv
<1>2. StoredInv /\ OrderInv /\ [TreeNext]_treeVars => OrderInv'
  BY OrderInvStep
<1>3. StoredInv /\ OrderInv => TreeSound
  BY CanonicalHere, OrderHere DEF TreeSound
<1> QED
  BY <1>1, <1>2, <1>3, TreeAlways, PTL DEF TreeSpec
=============================================================================
