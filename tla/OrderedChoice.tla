---------------------------- MODULE OrderedChoice ----------------------------
(***************************************************************************)
(* What the host promises of a choice: branches are tried in its order,    *)
(* one that was left is never come back to, and none is left in which a    *)
(* side effect was started.  One past the last branch is the failed choice.*)
(***************************************************************************)
EXTENDS Naturals

CONSTANT Branches       \* the number of branches

VARIABLES
    chosen,     \* the branch the run is in, 0 before the first choice
    touched     \* a side effect of that branch was started

OcVars == <<chosen, touched>>

OcInit == chosen = 0 /\ touched = FALSE

Choose ==
    /\ ~touched
    /\ chosen' \in chosen + 1..Branches + 1
    /\ touched' = FALSE

Touch ==
    /\ chosen \in 1..Branches
    /\ touched' = TRUE
    /\ UNCHANGED chosen

OcNext == Choose \/ Touch

OcSpec == OcInit /\ [][OcNext]_OcVars
=============================================================================
