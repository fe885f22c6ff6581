----------------------------- MODULE PresenceHalo ----------------------------
(***************************************************************************)
(* presence_lifecycle.py, presence.py and presence_window.py: the halo     *)
(* that tells the operator who holds the desktop.  The runner's thread     *)
(* reports its phases through a latch (FailSilentLifecycle) to the         *)
(* RunPresenceCoordinator, whose worker thread owns the window and takes   *)
(* what is pending once per turn of its loop.                              *)
(***************************************************************************)
EXTENDS Integers

CONSTANT MaxPhases      \* bound: phases the runner reports

VARIABLES
    stage,      \* the runner: "idle", "holding" the desktop, "pausing",
                \* "yielded" to the operator, "finished"; phases reported
    lane,       \* released: the latches of FailSilentLifecycle and of the
                \* coordinator; failed: the coordinator's own
    loop,       \* the worker: its thread, what it took, what is pending
    halo        \* what the window shows: "none", "held" or "waiting"

haloVars == <<stage, lane, loop, halo>>

HaloInit ==
    /\ stage = [at |-> "idle", phases |-> 0]
    /\ lane = [released |-> FALSE, failed |-> FALSE]
    /\ loop = [thread |-> "none", stop |-> FALSE, pending |-> "none", close |-> FALSE,
               taken |-> "none"]
    /\ halo = "none"

-----------------------------------------------------------------------------
(* on_phase of an active phase, _enqueue: the newest projection replaces   *)
(* what is pending and a close that is pending; the first starts the       *)
(* thread.                                                                 *)
Enqueue(snapshot) ==
    loop' = IF lane.released \/ lane.failed THEN loop
            ELSE [loop EXCEPT !.pending = snapshot, !.close = FALSE,
                     !.thread = IF @ = "none" THEN "turn" ELSE @]

(* _close before the end: only asks the worker, and leaves what is pending *)
RequestClose ==
    loop' = IF lane.released \/ lane.failed \/ loop.thread = "none" THEN loop
            ELSE [loop EXCEPT !.close = TRUE]

StopWorker_LatchOnly ==
    /\ lane' = [lane EXCEPT !.released = TRUE]
    /\ UNCHANGED loop

(* estop, release and the terminal phases: both latches, and _stop_worker; *)
(* its join gives up after two seconds if the worker is in a native call.  *)
StopWorker ==
    /\ lane' = [lane EXCEPT !.released = TRUE]
    /\ loop' = IF lane.failed THEN loop ELSE [loop EXCEPT !.stop = TRUE]

Reports(at) ==
    /\ stage.phases < MaxPhases
    /\ stage' = [at |-> at, phases |-> stage.phases + 1]

(* runner.record: observing, planning, executing, verifying.               *)
RecordHolding ==
    /\ stage.at \in {"idle", "holding", "yielded"}
    /\ Reports("holding")
    /\ Enqueue("held")
    /\ UNCHANGED <<lane, halo>>

YieldAuthority_AsRelease ==
    /\ stage.at \in {"holding", "pausing"}
    /\ Reports("yielded")
    /\ StopWorker
    /\ UNCHANGED halo
(* yield_authority before a decision card, and after a cooperative pause.  *)
YieldAuthority ==
    /\ stage.at \in {"holding", "pausing"}
    /\ Reports("yielded")
    /\ Enqueue("waiting")
    /\ UNCHANGED <<lane, halo>>

(* record(PAUSED), which is followed by the yield.                         *)
RecordPaused ==
    /\ stage.at = "holding"
    /\ Reports("pausing")
    /\ RequestClose
    /\ UNCHANGED <<lane, halo>>

(* A terminal phase, an emergency stop, human activity, the final release. *)
FinishRun ==
    /\ stage.at # "finished"
    /\ stage' = [stage EXCEPT !.at = "finished"]
    /\ StopWorker
    /\ UNCHANGED halo

-----------------------------------------------------------------------------
(* _run: takes what is pending, unless it is told to stop.                 *)
TakePending ==
    /\ loop.thread = "turn"
    /\ IF loop.stop
       THEN loop' = [loop EXCEPT !.thread = "leaving"] /\ UNCHANGED halo
       ELSE /\ loop' = [loop EXCEPT !.thread = "drawing", !.taken = loop.pending,
                           !.pending = "none", !.close = FALSE]
            /\ halo' = IF loop.close THEN "none" ELSE halo
    /\ UNCHANGED <<stage, lane>>

(* surface.sync, pump, and the wait; anything may raise (_fail_closed).    *)
DrawTaken ==
    /\ loop.thread = "drawing"
    /\ halo' = IF loop.taken = "none" THEN halo ELSE loop.taken
    /\ loop' = [loop EXCEPT !.thread = "turn", !.taken = "none"]
    /\ UNCHANGED <<stage, lane>>
DrawRaises ==
    /\ loop.thread = "drawing"
    /\ loop' = [loop EXCEPT !.thread = "leaving", !.taken = "none"]
    /\ lane' = [lane EXCEPT !.failed = TRUE]
    /\ halo' = "none"
    /\ UNCHANGED stage
LeaveLoop ==
    /\ loop.thread = "leaving"
    /\ loop' = [loop EXCEPT !.thread = "ended"]
    /\ halo' = "none"
    /\ UNCHANGED <<stage, lane>>

HaloWorker == TakePending \/ DrawTaken \/ LeaveLoop
HaloNext ==
    \/ RecordHolding \/ YieldAuthority \/ RecordPaused \/ FinishRun
    \/ HaloWorker \/ DrawRaises

HaloSpec == HaloInit /\ [][HaloNext]_haloVars

-----------------------------------------------------------------------------
(* Once the worker has taken what was pending, the halo says who holds the *)
(* desktop: it does not claim it while the operator decides, it is back    *)
(* when the run goes on (RunPresenceCoordinator; after a failure there is  *)
(* no halo).                                                               *)
HaloTells ==
    loop.thread \in {"turn", "ended"} /\ loop.pending = "none" /\ ~lane.failed =>
        CASE stage.at = "holding" -> halo = "held"
          [] stage.at = "yielded" -> halo = "waiting"
          [] OTHER -> TRUE

(* E-stop, human activity and the end of the run take the halo down, and   *)
(* nothing shows it again (FailSilentLifecycle and _stop_worker).          *)
HaloGoes == stage.at = "finished" ~> [](halo = "none")

-----------------------------------------------------------------------------
(* What the window ought to show, once everything pending was taken.       *)
Wanted == IF stage.at = "holding" THEN "held" ELSE "waiting"

Loops == [thread : {"none", "turn", "drawing", "leaving", "ended"}, stop : BOOLEAN,
          pending : {"none", "held", "waiting"}, close : BOOLEAN,
          taken : {"none", "held", "waiting"}]
Stages == [at : {"idle", "holding", "pausing", "yielded", "finished"}, phases : Int]

HaloTypes ==
    /\ stage \in Stages /\ loop \in Loops
    /\ lane \in [released : BOOLEAN, failed : BOOLEAN]
    /\ halo \in {"none", "held", "waiting"}

(* The last projection is on its way: pending, taken, or shown; and a close *)
(* cannot come between it and the window.  The worker leaves only when it  *)
(* was told to or has failed.                                              *)
HaloInv ==
    /\ HaloTypes
    /\ lane.released \/ loop.stop => stage.at = "finished"
    /\ loop.thread \in {"leaving", "ended"} => loop.stop \/ lane.failed
    /\ stage.at \in {"holding", "yielded"} /\ ~lane.failed =>
          /\ ~loop.close
          /\ \/ loop.pending = Wanted
             \/ loop.pending = "none" /\ loop.thread = "drawing" /\ loop.taken = Wanted
             \/ /\ loop.pending = "none" /\ halo = Wanted
                /\ \/ loop.thread = "turn"
                   \/ loop.thread = "drawing" /\ loop.taken = "none"
=============================================================================
