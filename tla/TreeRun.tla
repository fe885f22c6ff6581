------------------------------- MODULE TreeRun -------------------------------
(***************************************************************************)
(* The stored tree of one run and the callers that move it on: each works  *)
(* on a snapshot that it read, and its write is a compare and swap.  The   *)
(* facts a caller brings may be of any age; a write may be refused.        *)
(***************************************************************************)
EXTENDS TaskTree

CONSTANTS
    Hosts,      \* the callers, who hold snapshots of different age
    Trees,      \* the trees the host may compile
    Facts,      \* what a caller may bring as a fact
    Context     \* where the host is when it evaluates

ASSUME TreesAssumption == \A t \in Trees : IsTaskTree(t)
ASSUME FactsAssumption ==
    IsContext(Context) /\ \A fact \in Facts : IsFact(fact)

VARIABLES
    compiled,       \* the structure, which no write may change
    file,       \* task-tree.json: [seq, leaf, batches, events], or NoFile
    held        \* host -> the snapshot it works on, NoFile for none

treeVars == <<compiled, file, held>>

NoFile == [seq |-> 0]

TreeInit ==
    /\ compiled \in Trees
    /\ file = NoFile
    /\ held = [h \in Hosts |-> NoFile]

(* TaskTreeStore.create: once, with nothing started                        *)
Create(h) ==
    /\ file = NoFile
    /\ file' = [seq |-> 1, leaf |-> [n \in Steppable(compiled) |-> "pending"],
                batches |-> {}, events |-> <<>>]
    /\ held' = [held EXCEPT ![h] = file']
    /\ UNCHANGED compiled

(* TaskTreeStore.read, also what a restarted process does                  *)
Read(h) ==
    /\ file # NoFile
    /\ held[h] # file
    /\ held' = [held EXCEPT ![h] = file]
    /\ UNCHANGED <<compiled, file>>

CompareAndSwap_Blind(h, new) ==
    /\ new # held[h]
    /\ file' = [new EXCEPT !.seq = @ + 1]
    /\ held' = [held EXCEPT ![h] = file']
    /\ UNCHANGED compiled
(* TaskTreeStore.compare_and_swap: a snapshot of another sequence number   *)
(* is stale; a write that changes nothing is refused.                      *)
CompareAndSwap(h, new) ==
    /\ held[h].seq = file.seq
    /\ new # held[h]
    /\ file' = [new EXCEPT !.seq = @ + 1]
    /\ held' = [held EXCEPT ![h] = file']
    /\ UNCHANGED compiled

(* transition_tree_leaf on the snapshot, then the write                    *)
TransitionLeaf(h) ==
    /\ held[h] # NoFile
    /\ \E n \in Steppable(compiled), target \in StepStatuses :
        /\ LeafMoves(compiled, held[h], n, target)
        /\ CompareAndSwap(h, [held[h] EXCEPT !.leaf[n] = target])

Answers(nodes) ==
    [nodes -> {EvaluateFact(fact, Context) : fact \in Facts}]

(* evaluate_and_commit_parallel_conditions                                 *)
CommitBatch(h) ==
    /\ held[h] # NoFile
    /\ \E p \in compiled.nodes :
        /\ BatchReady(compiled, held[h], p)
        /\ \E results \in Answers(Kids(compiled, p)) :
            /\ ~Blocked(results)
            /\ CompareAndSwap(h, WithBatch(held[h], p, results))

Unanswered(branches, results) ==
    LET d == Deciding(branches, results) IN
    d # 0 /\ results[branches[d]] = "unavailable"

(* evaluate_and_commit_choice: the first choice, or one that falls back    *)
CommitChoice(h) ==
    /\ held[h] # NoFile /\ compiled.version = 4
    /\ \E fallback \in IF held[h].events = <<>> THEN {FirstTry}
                       ELSE Fallbacks(compiled, held[h]) :
        LET branches == Candidates(compiled, fallback) IN
        \E results \in Answers(Range(branches)) :
            LET event == ChoiceEvent(compiled, branches, results, fallback) IN
            /\ ~Unanswered(branches, results)
            /\ CompareAndSwap(h, WithEvent(compiled, held[h], event))

Step(h) == TransitionLeaf(h) \/ CommitBatch(h) \/ CommitChoice(h)

TreeNext == \E h \in Hosts : Create(h) \/ Read(h) \/ Step(h)

TreeSpec == TreeInit /\ [][TreeNext]_treeVars
-----------------------------------------------------------------------------
Stored == file # NoFile
Root == Statuses(compiled, file)[compiled.root]

TreeTypeOK ==
    /\ compiled \in Trees
    /\ \A f \in {file} \cup Range(held) :
        f # NoFile => /\ f.seq \in Nat \ {0}
                      /\ f.leaf \in [Steppable(compiled) -> StepStatuses]
                      /\ \A i \in DOMAIN f.events :
                            /\ f.events[i].selected \in compiled.nodes \cup {0}
                            /\ f.events[i].results
                                    \in [Range(f.events[i].branches) -> Outcomes]

(* What the events have decided so far, the later ones over the earlier    *)
Decided ==
    LET upTo[i \in 0..Len(file.events)] ==
            IF i = 0 THEN file.leaf
            ELSE WithEvent(compiled, [file EXCEPT !.leaf = upTo[i - 1]],
                           file.events[i]).leaf
    IN upTo[Len(file.events)]

(* TaskTree.__post_init__ reads its statuses back out of the evidence: on  *)
(* whatever steps follow a batch or a choice, the stored leaves still say  *)
(* what the batches and the chain of events say, each fallback leaves the  *)
(* branch that was selected, and one observed by it stayed completed; a    *)
(* tree of which that is not true could not be read again.                 *)
TreeCanonical ==
    Stored =>
        /\ TreeTypeOK
        /\ file.leaf = Decided
        /\ \A batch \in file.batches : \A c \in DOMAIN batch.results :
                file.leaf[c] = StatusOf[batch.results[c]]
        /\ \A i \in 2..Len(file.events) :
            LET fallback == file.events[i].fallback IN
            /\ fallback.source = file.events[i - 1].selected
            /\ fallback.observation # 0 =>
                    file.leaf[fallback.observation] = "completed"

(* compile_next_leaf: whoever moves the tree and however often it falls    *)
(* back, at most one leaf is active; a leaf behind a gate was started only *)
(* in a branch that an event selected on a true gate, and one with         *)
(* prerequisites only after they were completed.                           *)
StartedInOrder ==
    Stored =>
        /\ Cardinality(Active(compiled, file)) <= 1
        /\ \A n \in Steppable(compiled) : file.leaf[n] # "pending" =>
            /\ \A p \in Prerequisites(compiled, n) : Statuses(compiled, file)[p] = "completed"
            /\ compiled.version = 4 => \A b \in Kids(compiled, Choice(compiled)) :
                n \in Descendants(compiled, b) \ {Gate(compiled, b)} =>
                    \E i \in DOMAIN file.events : file.events[i].selected = b

(* What a batch or an event of the choice decides: neither looks at the    *)
(* prerequisites of such a leaf, nor a batch at the branch it is in.       *)
Gates(t) ==
    IF t.version = 4 THEN {Gate(t, b) : b \in Kids(t, Choice(t))} ELSE {}
BatchLeaves(t) ==
    UNION {Kids(t, p) : p \in {q \in OfKind(t, {"parallel"}) :
                                \A c \in Kids(t, q) : t.kind[c] = "condition"}}
Missable(t) ==
    IF t.version = 4 THEN {d \in OfKind(t, {"verify"}) :
                              \E b \in Kids(t, Choice(t)) : d \in Descendants(t, b)}
    ELSE {}

(* The trees in which that does not matter: StartedInOrder holds of them.  *)
OrderGuarded(t) ==
    /\ \A e \in t.deps :
        /\ e[1] \notin Gates(t)
        /\ e[2] \notin Gates(t) \cup BatchLeaves(t) \cup Missable(t)
    /\ t.version = 4 => \A b \in Kids(t, Choice(t)) :
            Descendants(t, b) \cap BatchLeaves(t) = {}

(* The gate of a branch that is left                                       *)
Evidence(n) ==
    /\ Len(file.events) < Len(file'.events)
    /\ n = Last(file'.events).fallback.failure
    /\ file.leaf[n] = "completed" /\ file'.leaf[n] = "failed"

(* A leaf's status is never taken back: not by a caller that works on an   *)
(* old snapshot, not by a batch, and by a choice only for the gate of the  *)
(* branch that it leaves.                                                  *)
NoLostTransition ==
    [][Stored => \A n \in Steppable(compiled) :
            \/ file.leaf[n] \notin Terminal
            \/ file'.leaf[n] = file.leaf[n]
            \/ Evidence(n)]_treeVars

Trail == IF Stored THEN file.events ELSE <<>>
InChoice == compiled.version = 4 /\ Trail # <<>>

(* The choice of the tree is an ordered choice                             *)
Ordered4 == INSTANCE OrderedChoice WITH
    Branches <- 2,
    chosen <- IF ~InChoice THEN 0
              ELSE IF Last(Trail).selected = 0 THEN 3
              ELSE Place(compiled.kids[Choice(compiled)], Last(Trail).selected),
    touched <- InChoice /\ SelectedBranch(file) # 0
               /\ \E n \in Effects(compiled, SelectedBranch(file)) \cap Steppable(compiled) :
                    file.leaf[n] # "pending"

ImplementsChoice == Ordered4!OcSpec

(* docs/HIERARCHICAL_TASK_AND_BEHAVIOR_TREES.md on the stored tree:        *)
(* "terminal state cannot re-enter".                                       *)
TerminalStays ==
    [][Stored /\ Root \in Terminal => Root' \in Terminal]_treeVars

(* What the run checks of every state of the stored tree.                  *)
TreeSound == TreeCanonical /\ StartedInOrder
=============================================================================
