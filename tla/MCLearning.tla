----------------------------- MODULE MCLearning -----------------------------
(* Two parts that share nothing: the rollout of a procedure, and the facts *)
(* that operators are asked to confirm.                                    *)
EXTENDS AdaptiveRollout, FactQuarantine

CONSTANTS h1, h2
MCHosts == {h1, h2}

Observe(op, ok) == [op |-> op, tool |-> "find", kind |-> "observation",
                    ok |-> ok, bad |-> SafeStop, post |-> NoValue]
Act(ok) == [op |-> "press", tool |-> "click", kind |-> "action",
            ok |-> ok, bad |-> SafeStop, post |-> NoValue]
Check(bad) == [op |-> "check", tool |-> "ui_snapshot", kind |-> "verify",
               ok |-> VerifiedSuccess, bad |-> bad, post |-> 1]

Procedure(id, steps) ==
    [id |-> id, scope |-> "dialog", sources |-> {"e1"}, pre |-> [open |-> 1],
     steps |-> steps]

MCDefinitions ==
    <<Procedure(1, <<Observe("look", 2), Observe("look_again", 3), Act(4), Check(SafeStop)>>),
      Procedure(2, <<Observe("look", 2), Act(3), Check(SafeStop)>>)>>

Cost(kind) ==
    [f \in CostFields |->
        CASE f \in {"calls", "tokens"} -> 1
          [] f \in {"effects", "approvals"} -> IF kind = "action" THEN 1 ELSE 0
          [] OTHER -> IF kind = "action" THEN 0 ELSE 1]

Answer(kind, outcome, allowed, value) ==
    [outcome |-> outcome, sent |-> IF outcome = "unknown" THEN "unknown" ELSE "dispatched",
     approved |-> allowed, fresh |-> TRUE, value |-> value,
     cost |-> [Cost(kind) EXCEPT !.approvals = IF allowed THEN @ ELSE 0]]

Fixture(id, press, check) ==
    [id |-> id, heldOut |-> TRUE, source |-> "e2", scope |-> "dialog",
     facts |-> [open |-> 1],
     ops |-> (<<"look", "find">> :> Answer("observation", "success", FALSE, NoValue))
          @@ (<<"look_again", "find">> :> Answer("observation", "success", FALSE, NoValue))
          @@ (<<"press", "click">> :> press)
          @@ (<<"check", "ui_snapshot">> :> check)]

Pressed == Answer("action", "success", TRUE, NoValue)
Checked == Answer("observation", "success", FALSE, 1)

(* both procedures pass; the candidate is not verified; it escapes approval *)
MCSuites ==
    {<<Fixture(1, Pressed, Checked), Fixture(2, Pressed, Checked)>>,
     <<Fixture(1, Pressed, Checked),
       Fixture(2, Pressed, Answer("observation", "success", FALSE, 0))>>,
     <<Fixture(1, Pressed, Checked),
       Fixture(2, Answer("action", "success", FALSE, NoValue), Checked)>>,
     <<Fixture(1, Answer("action", "unknown", TRUE, NoValue), Checked),
       Fixture(2, Pressed, Checked)>>}

MCContexts ==
    {[scope |-> "dialog", low |-> TRUE], [scope |-> "dialog", low |-> FALSE],
     [scope |-> "other", low |-> TRUE]}
MCWeights == [f \in CostFields |-> IF f = "tokens" THEN 2 ELSE 0]

CONSTANTS o1, o2
MCOperators == {o1, o2}
MCIds == {"a", "b", "c", "d"}
MCSymmetry == Permutations(MCHosts) \cup Permutations(MCOperators)

Result(effect, status, dispatch) ==
    [effect |-> effect, status |-> status, dispatch |-> dispatch]
Run(phase, used, results, item) ==
    [id |-> "run", epoch |-> 1, phase |-> phase, used |-> used,
     calls |-> 2, results |-> results, turns |-> [charged |-> 2, seen |-> 2],
     item |-> item]
Read == Result(FALSE, "success", "dispatched")
Written == Result(TRUE, "success", "dispatched")

(* a and b may be remembered; the effect of c is unknown and the campaign  *)
(* says that d failed                                                      *)
MCRuns ==
    [a |-> Run("success", 0, <<Read, Read>>, "none"),
     b |-> Run("success", 1, <<Written, Read>>, "committed"),
     c |-> Run("success", 1, <<Result(TRUE, "unknown_outcome", "unknown"), Read>>, "none"),
     d |-> Run("success", 1, <<Written, Read>>, "retryable")]
MCObserved ==
    [i \in MCIds |->
        [knowledge |-> "known", type |-> "integer", value |-> 0, scope |-> "run",
         window |-> 0, observation_epoch |-> 1, mcp_generation |-> 1,
         captured_at |-> 0, max_age |-> 10]]
MCContext ==
    [i \in MCIds |->
        [observation_epoch |-> 1, mcp_generation |-> 1, now |-> 5, window |-> 0]]

VARIABLE part
LearningInit ==
    /\ Init /\ FactInit /\ part \in {"rollout", "facts"}
    /\ part = "facts" => suite = CHOOSE s \in Suites : TRUE
LearningNext ==
    \/ part = "rollout" /\ Next /\ UNCHANGED <<part, factVars>>
    \/ part = "facts" /\ FactNext /\ UNCHANGED <<part, vars>>
LearningSpec == LearningInit /\ [][LearningNext]_<<part, vars, factVars>>
=============================================================================
