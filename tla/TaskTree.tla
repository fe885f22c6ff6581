------------------------------ MODULE TaskTree ------------------------------
(***************************************************************************)
(* computer_use_agent/hierarchical_control.py, hierarchical_compiler.py,   *)
(* hierarchical_parallel.py, hierarchical_choice.py and tree_store.py: the *)
(* stored task tree of one run.  A tree is a record: its nodes are numbers *)
(* in the order of their identifiers, "effects" the nodes whose budget has *)
(* a side effect, "deps" the pairs <<prerequisite, dependent>>.            *)
(***************************************************************************)
EXTENDS TaskPlan, WorldState, FiniteSets, SequencesExt

Internal == {"goal", "sequence", "choice", "parallel"}
Kinds ==
    Internal \cup {"tool_step", "final_response", "subtree", "condition", "verify",
                  "join"}
Terminal == Stopped \cup {"completed"}

Kids(t, n) == Range(t.kids[n])
OfKind(t, kinds) == {n \in t.nodes : t.kind[n] \in kinds}
Steppable(t) == OfKind(t, Kinds \ (Internal \cup {"join"}))
Prerequisites(t, n) == {p \in t.nodes : <<p, n>> \in t.deps}

Descendants(t, n) ==
    LET below[m \in t.nodes] ==
            Kids(t, m) \cup UNION {below[c] : c \in Kids(t, m)}
    IN below[n]

(* _validate_acyclic_graph: there is no cycle through the edges            *)
Acyclic(nodes, edges) ==
    \A S \in (SUBSET nodes) \ {{}} :
        \E n \in S : \A m \in S : <<m, n>> \notin edges

(* from a child to its parent                                              *)
Up(t) == {e \in t.nodes \X t.nodes : e[1] \in Kids(t, e[2])}

(* _validate_dependency_graph: no cycle in the order of starting, none in  *)
(* the order of reducing                                                   *)
DependenciesValid(t) ==
    LET down == {e \in t.nodes \X t.nodes : e[2] \in Kids(t, e[1])}
        next == {e \in t.nodes \X t.nodes :
                    \E n \in OfKind(t, {"goal", "sequence"}) :
                        \E i \in 1..Len(t.kids[n]) - 1 :
                            e = <<t.kids[n][i], t.kids[n][i + 1]>>}
    IN /\ t.deps # {}
       /\ \A e \in t.deps : t.kids[e[2]] = <<>>
       /\ OfKind(t, {"join"}) # {}
       /\ \A j \in OfKind(t, {"join"}) : Prerequisites(t, j) # {}
       /\ Acyclic(t.nodes, down \cup next \cup t.deps)
       /\ Acyclic(t.nodes, Up(t) \cup t.deps)

(* branches are sequences that start with a condition of their own         *)
ChoiceShape(t, n) ==
    /\ Len(t.kids[n]) \in 2..16
    /\ \A b \in Kids(t, n) :
        /\ t.kind[b] = "sequence" /\ Len(t.kids[b]) >= 2
        /\ t.kind[Head(t.kids[b])] = "condition"
        /\ Descendants(t, b) \cap OfKind(t, {"choice"}) = {}

(* TreeNode.__post_init__: control nodes have children, leaves none        *)
NodeValid(t, n) ==
    /\ t.kind[n] \in Internal <=> t.kids[n] # <<>>
    /\ IsInjective(t.kids[n])

(* The parts of a tree; 0 is no node                                       *)
ShapeOK(t) ==
    /\ t.nodes \subseteq Nat \ {0} /\ IsFiniteSet(t.nodes) /\ t.root \in t.nodes
    /\ t.kind \in [t.nodes -> Kinds] /\ t.kids \in [t.nodes -> Seq(t.nodes)]
    /\ t.deps \subseteq t.nodes \X t.nodes /\ t.effects \subseteq t.nodes
    /\ t.version \in 1..4

(* TaskTree.__post_init__, as far as the structure                         *)
IsTaskTree(t) ==
    LET joins == OfKind(t, {"join"})
        parallels == OfKind(t, {"parallel"})
        choices == OfKind(t, {"choice"})
    IN /\ ShapeOK(t)
       /\ \A n \in t.nodes : NodeValid(t, n)
       /\ t.kind[t.root] \in Internal
       /\ Cardinality(OfKind(t, {"final_response"})) = 1
       /\ UNION {Kids(t, n) : n \in t.nodes} = t.nodes \ {t.root}
       /\ \A m, n \in t.nodes : m # n => Kids(t, m) \cap Kids(t, n) = {}
       /\ Acyclic(t.nodes, Up(t))
       /\ t.version = 1 => parallels \cup joins = {} /\ t.deps = {}
       /\ t.version = 2 => /\ parallels # {} /\ joins = {} /\ t.deps = {}
                           /\ \A n \in parallels :
                                \A c \in Kids(t, n) : t.kind[c] = "condition"
       /\ \A n \in parallels : Len(t.kids[n]) >= 2
       /\ t.version = 4 => \E n \in choices : choices = {n} /\ ChoiceShape(t, n)
       /\ t.version = 3 \/ (t.version = 4 /\ t.deps # {}) => DependenciesValid(t)
       /\ t.version = 4 /\ t.deps = {} => joins = {}
-----------------------------------------------------------------------------
(* The mutable part: the statuses of the steppable leaves, the committed   *)
(* batches (a set of [node, results]) and the choice events in order, each *)
(* [selected, results, failure, observation]: selected is 0 for the failed *)
(* choice, failure the node whose evidence led away from the branch before *)
(* (0 for the first event).                                                *)

(* reduce_child_statuses                                                   *)
Reduced(statuses) ==
    IF "failed" \in statuses THEN "failed"
      ELSE IF "blocked" \in statuses THEN "blocked"
      ELSE IF "cancelled" \in statuses THEN "cancelled"
      ELSE IF statuses = {"completed"} THEN "completed"
      ELSE IF statuses \cap {"in_progress", "completed"} # {} THEN "in_progress"
      ELSE "pending"

(* reduce_tree_statuses: a choice is what its selected branch is           *)
Statuses(t, f) ==
    LET status[n \in t.nodes] ==
            CASE n \in Steppable(t) -> f.leaf[n]
              [] t.kind[n] = "join" ->
                    Reduced({status[p] : p \in Prerequisites(t, n)})
              [] t.kind[n] = "choice" /\ f.events # <<>> ->
                    IF Last(f.events).selected = 0 THEN "failed"
                    ELSE status[Last(f.events).selected]
              [] OTHER -> Reduced({status[c] : c \in Kids(t, n)})
    IN status

Active(t, f) == {n \in Steppable(t) : f.leaf[n] = "in_progress"}

FirstOpen(t, n, status) ==
    t.kids[n][SelectInSeq(t.kids[n], LAMBDA c : status[c] # "completed")]

(* _next_ordered_leaf, contracts 1 and 2: none where a choice or a         *)
(* parallel node is next                                                   *)
NextOrderedLeaf(t, f) ==
    LET status == Statuses(t, f)
        visit[n \in t.nodes] ==
            IF status[n] \in Terminal THEN {}
              ELSE IF n \in Steppable(t) THEN {n}
              ELSE IF t.kind[n] \in {"goal", "sequence"} THEN visit[FirstOpen(t, n, status)]
              ELSE {}
    IN visit[t.root]

ReadyLeaves_DependenciesIgnored(t, f) ==
    LET status == Statuses(t, f)
        visit[n \in t.nodes] ==
            IF status[n] \in Terminal \/ t.kind[n] = "join" THEN {}
              ELSE IF n \in Steppable(t) THEN {n}
              ELSE IF t.kind[n] = "choice" /\ f.events # <<>> THEN
                    visit[Last(f.events).selected]
              ELSE IF t.kind[n] \in {"goal", "sequence"} THEN visit[FirstOpen(t, n, status)]
              ELSE IF t.kind[n] = "parallel" THEN UNION {visit[c] : c \in Kids(t, n)}
              ELSE {}
    IN visit[t.root]
(* _v3_ready_leaves, contracts 3 and 4                                     *)
ReadyLeaves(t, f) ==
    LET status == Statuses(t, f)
        visit[n \in t.nodes] ==
            IF status[n] \in Terminal THEN {}
              ELSE IF n \in Steppable(t) THEN
                    IF \A p \in Prerequisites(t, n) : status[p] = "completed"
                    THEN {n} ELSE {}
              ELSE IF t.kind[n] = "choice" /\ f.events # <<>> THEN
                    visit[Last(f.events).selected]
              ELSE IF t.kind[n] \in {"goal", "sequence"} THEN visit[FirstOpen(t, n, status)]
              ELSE IF t.kind[n] = "parallel" THEN UNION {visit[c] : c \in Kids(t, n)}
              ELSE {}
    IN visit[t.root]

(* compile_next_leaf: the one leaf that may start, if any                  *)
Boundary(t, f) ==
    LET ready == IF t.version < 3 THEN NextOrderedLeaf(t, f) ELSE ReadyLeaves(t, f) IN
    {n \in ready : /\ Statuses(t, f)[t.root] \notin Terminal
                   /\ Active(t, f) = {}
                   /\ \A m \in ready : n <= m}

(* transition_tree_leaf                                                    *)
LeafMoves(t, f, n, target) ==
    /\ Statuses(t, f)[t.root] \notin Terminal
    /\ n \in Steppable(t)
    /\ target \in Targets[f.leaf[n]]
    /\ IF f.leaf[n] = "pending" THEN Boundary(t, f) = {n} ELSE Active(t, f) = {n}

-----------------------------------------------------------------------------
(* A parallel node of conditions, evaluated in one batch                   *)

(* _parallel_node: nothing of it was started                               *)
BatchReady(t, f, p) ==
    /\ t.version >= 2 /\ p \in OfKind(t, {"parallel"})
    /\ \A c \in Kids(t, p) : t.kind[c] = "condition" /\ f.leaf[c] = "pending"

(* evaluate_parallel_conditions: a batch is blocked, and not stored, when  *)
(* a condition has no answer and none is false                             *)
Blocked(results) ==
    LET outcomes == Range(results) IN
    "unavailable" \in outcomes /\ "false" \notin outcomes

StatusOf == [o \in Outcomes |->
    CASE o = "true" -> "completed" [] o = "false" -> "failed" [] OTHER -> "pending"]

(* apply_parallel_condition_batch                                          *)
WithBatch(f, p, results) ==
    [f EXCEPT !.batches = @ \cup {[node |-> p, results |-> results]},
              !.leaf = [c \in DOMAIN f.leaf |->
                            IF c \in DOMAIN results THEN StatusOf[results[c]]
                            ELSE f.leaf[c]]]

-----------------------------------------------------------------------------
(* The choice                                                              *)

Choice(t) == CHOOSE n \in t.nodes : t.kind[n] = "choice"
Gate(t, b) == Head(t.kids[b])
Effects(t, b) == Descendants(t, b) \cap t.effects

FirstTry == [source |-> 0, failure |-> 0, observation |-> 0]

(* _selected_branch: a failed choice has none                              *)
SelectedBranch(f) == IF f.events = <<>> THEN 0 ELSE Last(f.events).selected

(* build_pre_boundary_false_fallback                                       *)
PreBoundary(t, f) ==
    LET b == SelectedBranch(f) IN
    {fb \in {[source |-> b, failure |-> Gate(t, b), observation |-> 0]} :
        /\ f.leaf[fb.failure] = "completed"
        /\ \A n \in Descendants(t, b) \ {fb.failure} :
                Statuses(t, f)[n] = "pending"}

ReadOnlyMiss_WithEffects(t, f) ==
    LET b == SelectedBranch(f) IN
    {fb \in [source : {b}, failure : Descendants(t, b) \cap OfKind(t, {"verify"}),
             observation : Descendants(t, b) \cap OfKind(t, {"tool_step", "subtree"})] :
        /\ f.leaf[fb.observation] = "completed"
        /\ f.leaf[fb.failure] \in {"pending", "in_progress"}}
ReadOnlyMiss_Unobserved(t, f) ==
    LET b == SelectedBranch(f) IN
    {fb \in [source : {b}, failure : Descendants(t, b) \cap OfKind(t, {"verify"}),
             observation : Descendants(t, b) \cap OfKind(t, {"tool_step", "subtree"})] :
        /\ f.leaf[fb.failure] \in {"pending", "in_progress"}
        /\ Effects(t, b) = {}}
(* build_verified_read_only_miss_fallback                                  *)
ReadOnlyMiss(t, f) ==
    LET b == SelectedBranch(f) IN
    {fb \in [source : {b}, failure : Descendants(t, b) \cap OfKind(t, {"verify"}),
             observation : Descendants(t, b) \cap OfKind(t, {"tool_step", "subtree"})] :
        /\ f.leaf[fb.observation] = "completed"
        /\ f.leaf[fb.failure] \in {"pending", "in_progress"}
        /\ Effects(t, b) = {}}

(* The fallbacks a caller can build.  Both need evidence that the condition*)
(* of the failure is fresh and false, the second from the observation: the *)
(* caller supplies it, or the fallback is refused.                         *)
Fallbacks(t, f) ==
    IF SelectedBranch(f) = 0 THEN {} ELSE PreBoundary(t, f) \cup ReadOnlyMiss(t, f)

Place(seq, x) == SelectInSeq(seq, LAMBDA y : y = x)

(* evaluate_choice_event: the branches that are tried, in the host's order *)
Candidates(t, fb) ==
    LET branches == t.kids[Choice(t)] IN
    SubSeq(branches, Place(branches, fb.source) + 1, Len(branches))

(* the first gate that is not false decides                                *)
Deciding(branches, results) ==
    SelectInSeq(branches, LAMBDA b : results[b] # "false")

ChoiceEvent(t, branches, results, fb) ==
    LET d == Deciding(branches, results) IN
    [selected |-> IF d = 0 THEN 0 ELSE branches[d], branches |-> branches,
     results |-> results, fallback |-> fb]

DecidedGates(t, e) ==
    LET last == IF e.selected = 0 THEN Len(e.branches)
                ELSE Place(e.branches, e.selected)
    IN {Gate(t, e.branches[i]) : i \in 1..last}

(* apply_choice_event                                                      *)
WithEvent(t, f, e) ==
    [f EXCEPT
        !.events = Append(@, e),
        !.leaf = [n \in DOMAIN f.leaf |->
            IF n \in DecidedGates(t, e) THEN
                IF e.selected # 0 /\ n = Gate(t, e.selected) THEN "completed"
                ELSE "failed"
            ELSE IF n = e.fallback.failure THEN "failed"
            ELSE f.leaf[n]]]
=============================================================================
