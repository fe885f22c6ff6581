-------------------------- MODULE CampaignProgress --------------------------
(***************************************************************************)
(* What a campaign's files promise, without files: a cursor over ordered   *)
(* items.  One worker at a time holds the item at the cursor; committing   *)
(* it is the only way the cursor advances, and the campaign is closed only *)
(* behind the last item.                                                   *)
(***************************************************************************)
EXTENDS Integers, FiniteSets

CONSTANTS
    Run,        \* workers
    NoRun       \* no worker

VARIABLES
    size,       \* items discovered
    done,       \* ordinals committed
    worker,     \* the run that holds the item at the cursor, or NoRun
    closed

progressVars == <<size, done, worker, closed>>

Cursor == Cardinality(done) + 1

ProgressInit ==
    /\ size = 0
    /\ done = {}
    /\ worker = NoRun
    /\ closed = FALSE

(* Items are added before any work has begun.                              *)
Add ==
    /\ ~closed
    /\ done = {}
    /\ worker = NoRun
    /\ size' = size + 1
    /\ UNCHANGED <<done, worker, closed>>

Take(r) ==
    /\ ~closed
    /\ worker = NoRun
    /\ Cursor <= size
    /\ worker' = r
    /\ UNCHANGED <<size, done, closed>>

(* The worker is gone; its item is at the cursor still.                    *)
Lose ==
    /\ worker # NoRun
    /\ worker' = NoRun
    /\ UNCHANGED <<size, done, closed>>

Advance ==
    /\ ~closed
    /\ worker # NoRun
    /\ done' = done \cup {Cursor}
    /\ worker' = NoRun
    /\ UNCHANGED <<size, closed>>

Close ==
    /\ ~closed
    /\ size > 0
    /\ worker = NoRun
    /\ Cursor = size + 1
    /\ closed' = TRUE
    /\ UNCHANGED <<size, done, worker>>

ProgressNext == Add \/ (\E r \in Run : Take(r)) \/ Lose \/ Advance \/ Close

ProgressSpec == ProgressInit /\ [][ProgressNext]_progressVars
=============================================================================
