----------------------------- MODULE WorldState -----------------------------
(***************************************************************************)
(* computer_use_agent/world_state.py: when a fact that was read off the    *)
(* desktop may still be believed, and what a condition on it comes to.     *)
(***************************************************************************)
EXTENDS Naturals

Outcomes == {"true", "false", "unavailable"}
Missing == [knowledge |-> "missing"]
MaxFactAgeMs == 300000

(* WorldStateContext: where the host is now.                               *)
IsContext(context) ==
    /\ context.observation_epoch \in Nat \ {0}
    /\ {context.mcp_generation, context.now} \subseteq Nat

(* ObservationEvidence and WorldFact: a fact of the scope "window" has a   *)
(* window (0 is none), one of the scope "run" has none.                    *)
IsFact(fact) ==
    \/ fact = Missing
    \/ /\ IsContext([observation_epoch |-> fact.observation_epoch,
                     mcp_generation |-> fact.mcp_generation,
                     now |-> fact.captured_at])
       /\ fact.knowledge \in {"known", "unknown"}
       /\ (fact.scope = "window") <=> (fact.window # 0)
       /\ fact.max_age \in 1..MaxFactAgeMs

(* inspect_world_fact, in the order of its returns                         *)
Availability(fact, type, context) ==
    IF fact = Missing THEN "missing"
      ELSE IF fact.knowledge = "unknown" THEN "unknown"
      ELSE IF fact.type # type THEN "type_mismatch"
      ELSE IF fact.observation_epoch # context.observation_epoch THEN "epoch_changed"
      ELSE IF fact.mcp_generation # context.mcp_generation THEN "generation_changed"
      ELSE IF fact.scope = "window" /\ context.window # fact.window THEN "window_changed"
      ELSE IF context.now < fact.captured_at THEN "clock_invalid"
      ELSE IF context.now - fact.captured_at > fact.max_age THEN "expired"
      ELSE "fresh"

(* evaluate_fact_condition: the condition expects TRUE of a boolean fact   *)
EvaluateFact(fact, context) ==
    IF Availability(fact, "boolean", context) # "fresh" THEN "unavailable"
      ELSE IF fact.value THEN "true"
      ELSE "false"
=============================================================================
