------------------------------ MODULE TaskPlan ------------------------------
(***************************************************************************)
(* computer_use_agent/planning.py and plan_store.py: the statuses of an    *)
(* ordered plan, which of them may change, and the shapes of plan that an  *)
(* executor session accepts.  A plan is the sequence of the kinds of its   *)
(* steps; its digest and its sequence number are functions of the statuses *)
(* (every status is reached by one number of writes), so a snapshot is the *)
(* sequence of statuses, and <<>> stands for a plan that was never stored. *)
(***************************************************************************)
EXTENDS Naturals, Sequences

StepKinds == {"observation", "side_effect", "final_response"}
StepStatuses ==
    {"pending", "in_progress", "completed", "failed", "blocked", "cancelled"}
Stopped == {"failed", "blocked", "cancelled"}

(* compile_task_plan and TaskPlan: tool steps within the host's scope, and *)
(* exactly one final response, at the end.                                 *)
IsTaskPlan(kinds) ==
    /\ kinds \in Seq(StepKinds)
    /\ Len(kinds) > 0
    /\ \A i \in DOMAIN kinds : kinds[i] = "final_response" <=> i = Len(kinds)

(* The linear tree without side effects: observations and a final response *)
ObservesOnly(kinds) == \A i \in DOMAIN kinds : kinds[i] # "side_effect"

(* validate_bounded_side_effect_plan                                       *)
IsBoundedSideEffect(kinds) ==
    kinds = <<"observation", "side_effect", "observation", "final_response">>

AllPending(kinds) == [i \in DOMAIN kinds |-> "pending"]

(* The first step that is not completed, or one past the end.              *)
NextStep(status) ==
    CHOOSE i \in 1..Len(status) + 1 :
        /\ i \in DOMAIN status => status[i] # "completed"
        /\ \A j \in 1..i - 1 : status[j] = "completed"

(* TaskPlan._validate_status_order                                         *)
Ordered(status) ==
    \A i \in DOMAIN status : i > NextStep(status) => status[i] = "pending"

(* TaskPlan.status                                                         *)
PlanStatus(status) ==
    LET among == {status[i] : i \in DOMAIN status} IN
    IF "failed" \in among THEN "failed"
      ELSE IF "blocked" \in among THEN "blocked"
      ELSE IF "cancelled" \in among THEN "cancelled"
      ELSE IF among = {"completed"} THEN "completed"
      ELSE IF among \cap {"in_progress", "completed"} # {} THEN "in_progress"
      ELSE "pending"

Targets ==
    [s \in StepStatuses |->
        CASE s = "pending" -> {"in_progress", "blocked", "cancelled"}
          [] s = "in_progress" ->
                {"completed", "failed", "blocked", "cancelled"}
          [] OTHER -> {}]

(* transition_plan_step, transition_tree_leaf                              *)
MayMove(status, i, target) ==
    /\ PlanStatus(status) \in {"pending", "in_progress"}
    /\ i = NextStep(status)
    /\ target \in Targets[status[i]]

Moved(status, i, target) == [status EXCEPT ![i] = target]
=============================================================================
