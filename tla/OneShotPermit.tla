---------------------------- MODULE OneShotPermit ----------------------------
(* What a compile gate promises about the text it discloses: it is used at  *)
(* most once, after the operator said COMPILE and in the step that uses the *)
(* permit up, and a refusal is final.                                      *)
VARIABLES state, used
Init == state = "none" /\ used = 0
Disclose == state = "none" /\ state' = "ready" /\ UNCHANGED used
Agree == state = "ready" /\ state' = "permitted" /\ UNCHANGED used
Refuse == state \in {"ready", "permitted"} /\ state' = "cancelled" /\ UNCHANGED used
Use == state = "permitted" /\ state' = "consumed" /\ used' \in {0, 1}
AgreeAndUse == state = "ready" /\ state' = "consumed" /\ used' \in {0, 1}
Next == Disclose \/ Agree \/ Refuse \/ Use \/ AgreeAndUse
Spec == Init /\ [][Next]_<<state, used>>
=============================================================================
