------------------------------- MODULE MCPlans -------------------------------
(* Three parts that share nothing: a run under a plan, with or without a   *)
(* tree that follows it, a tree that several callers move on, and a run    *)
(* under the fixed workflow of the public page and the Word document.      *)
EXTENDS PlannedRun, TreeRun, PublicWebWord

O == "observation"
MCPlans ==
    {<<O, "final_response">>, <<O, O, "final_response">>,
     <<O, "side_effect", O, "final_response">>,
     <<O, O, O, O, "final_response">>}

(* A goal of a parallel pair of conditions, then a tool step and the final *)
(* response; contract 2.                                                   *)
Batched ==
    [version |-> 2, nodes |-> 1..6, root |-> 1,
     kind |-> <<"goal", "parallel", "condition", "condition", "tool_step",
                "final_response">>,
     kids |-> <<<<2, 5, 6>>, <<3, 4>>, <<>>, <<>>, <<>>, <<>>>>,
     deps |-> {}, effects |-> {5}]

(* Two steps that may run in either order, joined; contract 3              *)
Joined ==
    [version |-> 3, nodes |-> 1..7, root |-> 1,
     kind |-> <<"goal", "parallel", "tool_step", "condition", "condition", "join",
                "final_response">>,
     kids |-> <<<<2, 6, 7>>, <<3, 4, 5>>, <<>>, <<>>, <<>>, <<>>, <<>>>>,
     deps |-> {<<4, 3>>, <<3, 6>>, <<4, 6>>}, effects |-> {3}]

(* Two branches, one that only looks and one that acts; contract 4         *)
Choosing(effects) ==
    [version |-> 4, nodes |-> 1..12, root |-> 1,
     kind |-> <<"goal", "choice", "sequence", "condition", "tool_step", "tool_step",
                "verify", "sequence", "condition", "tool_step", "verify",
                "final_response">>,
     kids |-> <<<<2, 12>>, <<3, 8>>, <<4, 5, 6, 7>>, <<>>, <<>>, <<>>, <<>>,
                <<9, 10, 11>>, <<>>, <<>>, <<>>, <<>>>>,
     deps |-> {}, effects |-> effects]

(* A parallel pair beside the choice                                       *)
Mixed ==
    [version |-> 4, nodes |-> 1..11, root |-> 1,
     kind |-> <<"sequence", "parallel", "condition", "condition", "choice",
                "sequence", "condition", "final_response", "sequence",
                "condition", "tool_step">>,
     kids |-> <<<<2, 5>>, <<3, 4>>, <<>>, <<>>, <<6, 9>>, <<7, 8>>, <<>>, <<>>,
                <<10, 11>>, <<>>, <<>>>>,
     deps |-> {}, effects |-> {11}]

MCTrees == {Batched, Joined, Choosing({10}), Choosing({6}), Mixed}
ASSUME MCTreesAssumption == \A t \in Trees : OrderGuarded(t)
MCContext == [observation_epoch |-> 2, mcp_generation |-> 1, window |-> 7,
              now |-> 1000]
Fresh ==
    [knowledge |-> "known", type |-> "boolean", value |-> TRUE, scope |-> "window",
     window |-> 7, observation_epoch |-> 2, mcp_generation |-> 1,
     captured_at |-> 900, max_age |-> 100]
MCFacts ==
    {Missing, Fresh,
     [Fresh EXCEPT !.value = FALSE],
     [Fresh EXCEPT !.value = FALSE, !.scope = "run", !.window = 0],
     [Fresh EXCEPT !.knowledge = "unknown"],
     [Fresh EXCEPT !.type = "text"],
     [Fresh EXCEPT !.observation_epoch = 1],
     [Fresh EXCEPT !.mcp_generation = 2],
     [Fresh EXCEPT !.window = 8],
     [Fresh EXCEPT !.captured_at = 1001],
     [Fresh EXCEPT !.captured_at = 899]}

VARIABLE part
PlansInit ==
    /\ Init /\ TreeInit /\ WordInit /\ part \in {"plan", "tree", "word"}
    /\ part # "tree" => compiled = Batched
    /\ part # "plan" => kinds = <<O, "final_response">> /\ mode = "linear"
PlansNext ==
    \/ part = "plan" /\ Next /\ UNCHANGED <<part, treeVars, wordVars>>
    \/ part = "tree" /\ TreeNext /\ UNCHANGED <<part, vars, wordVars>>
    \/ part = "word" /\ WordNext /\ UNCHANGED <<part, vars, treeVars>>
PlansSpec == PlansInit /\ [][PlansNext]_<<part, vars, treeVars, wordVars>>
=============================================================================
