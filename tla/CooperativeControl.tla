------------------------- MODULE CooperativeControl -------------------------
(***************************************************************************)
(* Pause, Takeover and Resume of a live run: cooperative_control.py and    *)
(* the calls runner.py makes to it.  The runs share one application lease  *)
(* (RunLock); every run has a control.json of its own, which its Runner    *)
(* and any number of operator commands change under a lock that is never   *)
(* waited for.  A Runner or a command may die between any two steps.       *)
(*                                                                         *)
(* The Runner is the path of one call at a time through the four           *)
(* boundaries; ContinuedRun has its budgets, phases and results.           *)
(***************************************************************************)
EXTENDS Naturals, FiniteSets

(***************************************************************************)
(* The record control.json of one run: what may be written in it, and what *)
(* each call makes of it.  Identity fields, timestamps and the sequence    *)
(* number are left out; the checkpoint sequence of a run without           *)
(* continuation is always the same.                                        *)
(***************************************************************************)
Kinds == {"pause", "takeover"}
Boundaries ==
    {"before_provider", "before_tool", "after_authorization", "after_approval"}
Statuses ==
    {"absent", "active", "pause_requested", "paused", "resume_requested",
     "resuming", "closed"}

(* request 0 stands for no request, status "absent" for no file.           *)
Records ==
    [status : Statuses, request : Nat, kind : Kinds \cup {"none"},
     authority : {"agent", "released", "none"}, fresh_required : BOOLEAN,
     boundary : Boundaries \cup {"none"}]

NoRecord ==
    [status |-> "absent", request |-> 0, kind |-> "none", authority |-> "none",
     fresh_required |-> FALSE, boundary |-> "none"]

(* start                                                                   *)
Started ==
    [status |-> "active", request |-> 0, kind |-> "none", authority |-> "agent",
     fresh_required |-> FALSE, boundary |-> "none"]

(* The combinations CooperativeControlSnapshot accepts; building any other *)
(* raises COOPERATIVE_CONTROL_RECORD_INVALID.                              *)
Valid(c) ==
    /\ (c.request = 0) = (c.kind = "none")
    /\ c.status = "active" =>
          c.request = 0 /\ c.authority = "agent" /\ ~c.fresh_required
                        /\ c.boundary = "none"
    /\ c.status = "pause_requested" =>
          c.request # 0 /\ c.authority = "agent" /\ ~c.fresh_required
                        /\ c.boundary = "none"
    /\ c.status \in {"paused", "resume_requested"} =>
          c.request # 0 /\ c.authority = "released" /\ c.fresh_required
                        /\ c.boundary # "none"
    /\ c.status = "resuming" =>
          c.request # 0 /\ c.authority = "agent" /\ c.fresh_required
                        /\ c.boundary # "none"
    /\ c.status = "closed" => c.authority = "none"

(* The record _active_run_id counts.                                       *)
IsOpen(c) == c.status \notin {"absent", "closed"}

IsPending_TakeoverOnly(c) ==
    c.status = "pause_requested" /\ c.kind = "takeover"
(* pending_request                                                         *)
IsPending(c) == c.status = "pause_requested"

(* request_from_runner and request_pause                                   *)
Requested(c, kind, id) ==
    [c EXCEPT !.status = "pause_requested", !.kind = kind, !.request = id]

(* acknowledge_paused                                                      *)
Paused(c, boundary) ==
    [c EXCEPT !.status = "paused", !.authority = "released",
              !.fresh_required = TRUE, !.boundary = boundary]

(* request_resume                                                          *)
ResumeRequested(c) == [c EXCEPT !.status = "resume_requested"]

(* acknowledge_resumed                                                     *)
Resuming(c) == [c EXCEPT !.status = "resuming", !.authority = "agent"]

Reobserved_KeepsRequest(c) ==
    [c EXCEPT !.status = "active", !.fresh_required = FALSE,
              !.boundary = "none"]
(* acknowledge_fresh_observation                                           *)
Reobserved(c) ==
    [c EXCEPT !.status = "active", !.request = 0, !.kind = "none",
              !.fresh_required = FALSE, !.boundary = "none"]

ClosedRecord_Outcome(c) == [c EXCEPT !.status = "success", !.authority = "none"]
(* close                                                                   *)
ClosedRecord(c) == [c EXCEPT !.status = "closed", !.authority = "none"]

-----------------------------------------------------------------------------
CONSTANTS
    Runs,           \* runs started with a control port
    Operators,      \* task pause / takeover / resume commands
    Free, Other,    \* the lease is free, or held by a run without control
    MaxRequests     \* bound: requests ever made

ASSUME ControlAssumption ==
    /\ Runs \cap Operators = {}
    /\ Free \notin Runs \cup Operators \cup {Other}
    /\ Other \notin Runs \cup Operators
    /\ MaxRequests \in Nat

VARIABLES
    lease,          \* owner of the application run lock
    control,        \* each run's control.json
    mutex,          \* holder of each run's .control-lock
    checkpoint,     \* [phase, reobserve] in each run's state.json
    requests,       \* history: requests made, the source of request ids
    pc,             \* where each Runner is
    call,           \* the call it is handling
    at,             \* the boundary it is pausing at
    handling,       \* the request it is pausing for
    reobserve,      \* its state.recovery_status is REQUIRES_REOBSERVATION
    grounded,       \* its GroundingState holds an observation
    failure,        \* how its loop ended
    op,             \* where each operator command is
    fresh           \* history: nobody changed the desktop since the run's
                    \* last successful observation

record == <<control, mutex, requests>>
runner == <<pc, call, at, handling, reobserve, grounded, failure>>
vars == <<lease, record, checkpoint, runner, op, fresh>>

ControlCalls ==
    {"acknowledging", "resuming", "observed", "taking_over", "closing"}
Steps ==
    {"new", "starting", "provider", "authorizing", "approving", "executing",
     "pausing", "paused", "resumed", "closed", "ended", "dead"}
        \cup Boundaries \cup ControlCalls

Checkpoints ==
    [phase : {"none", "PLANNING", "OBSERVING", "PAUSED", "SUCCESS", "FAILED"},
     reobserve : BOOLEAN]

RunnerTypes ==
    /\ checkpoint \in [Runs -> Checkpoints]
    /\ pc \in [Runs -> Steps]
    /\ call \in [Runs -> {"none", "observe", "act"}]
    /\ at \in [Runs -> Boundaries \cup {"none"}]
    /\ handling \in [Runs -> Nat]
    /\ reobserve \in [Runs -> BOOLEAN]
    /\ grounded \in [Runs -> BOOLEAN]
    /\ failure \in [Runs -> {"none", "run", "control"}]

TypeOK ==
    /\ RunnerTypes
    /\ lease \in Runs \cup {Free, Other}
    /\ control \in [Runs -> Records]
    /\ mutex \in [Runs -> Runs \cup Operators \cup {Free}]
    /\ requests \in Nat
    /\ op \in [Operators ->
          [step : {"idle", "resolved", "locked"},
           command : Kinds \cup {"resume"}, run : Runs \cup {Free}]]
    /\ fresh \in [Runs -> BOOLEAN]

Idle == [step |-> "idle", command |-> "resume", run |-> Free]

Init ==
    /\ lease = Free
    /\ control = [r \in Runs |-> NoRecord]
    /\ mutex = [r \in Runs |-> Free]
    /\ checkpoint = [r \in Runs |-> [phase |-> "none", reobserve |-> FALSE]]
    /\ requests = 0
    /\ pc = [r \in Runs |-> "new"]
    /\ call = [r \in Runs |-> "none"]
    /\ at = [r \in Runs |-> "none"]
    /\ handling = [r \in Runs |-> 0]
    /\ reobserve = [r \in Runs |-> FALSE]
    /\ grounded = [r \in Runs |-> FALSE]
    /\ failure = [r \in Runs |-> "none"]
    /\ op = [o \in Operators |-> Idle]
    /\ fresh = [r \in Runs |-> FALSE]

Live(r) == pc[r] \notin {"new", "ended", "dead"}

Goto(r, step) == pc' = [pc EXCEPT ![r] = step]

(* recorder.record: the phase, with the recovery status of the state.      *)
Checkpoint(r, phase, mustReobserve) ==
    checkpoint' = [checkpoint EXCEPT
                     ![r] = [phase |-> phase, reobserve |-> mustReobserve]]

Write(r, c) == control' = [control EXCEPT ![r] = c]
Unlock(r) == mutex' = [mutex EXCEPT ![r] = Free]

(* The handlers of Runner.run: the last checkpoint, then the finally.      *)
EndRun(r, how) ==
    /\ Goto(r, "closing")
    /\ failure' = [failure EXCEPT ![r] = how]
    /\ Checkpoint(r, IF how = "none" THEN "SUCCESS" ELSE "FAILED", reobserve[r])
    /\ UNCHANGED <<call, at, handling, reobserve, grounded>>

(* The loop is over: its local state is gone.                              *)
Forget(r, step) ==
    /\ Goto(r, step)
    /\ call' = [call EXCEPT ![r] = "none"]
    /\ at' = [at EXCEPT ![r] = "none"]
    /\ handling' = [handling EXCEPT ![r] = 0]
    /\ reobserve' = [reobserve EXCEPT ![r] = FALSE]
    /\ grounded' = [grounded EXCEPT ![r] = FALSE]
    /\ UNCHANGED failure

-----------------------------------------------------------------------------
(* Runner: prepare takes the lease; recorder.start, control.start and      *)
(* discovery follow.                                                       *)
Prepare(r) ==
    /\ pc[r] = "new"
    /\ lease = Free
    /\ lease' = r
    /\ Goto(r, "starting")
    /\ UNCHANGED <<record, checkpoint, call, at, handling, reobserve, grounded,
                   failure, op, fresh>>

Start(r) ==
    /\ pc[r] = "starting"
    /\ mutex[r] = Free
    /\ Write(r, Started)
    /\ Checkpoint(r, "PLANNING", FALSE)
    /\ Goto(r, "before_provider")
    /\ UNCHANGED <<lease, mutex, requests, call, at, handling, reobserve,
                   grounded, failure, op, fresh>>

NextStep(r) ==
    CASE pc[r] = "before_provider" -> "provider"
      [] pc[r] = "before_tool" ->
            IF call[r] = "observe" THEN "executing" ELSE "authorizing"
      [] OTHER -> "executing"

Poll_AcknowledgesFirst(r) ==
    /\ pc[r] \in Boundaries
    /\ IF IsPending(control[r])
       THEN /\ Goto(r, "acknowledging")
            /\ at' = [at EXCEPT ![r] = pc[r]]
            /\ handling' = [handling EXCEPT ![r] = control[r].request]
       ELSE Goto(r, NextStep(r)) /\ UNCHANGED <<at, handling>>
    /\ UNCHANGED <<lease, record, checkpoint, call, reobserve, grounded,
                   failure, op, fresh>>
(* pending_request at the start of _cooperative_pause_boundary.            *)
Poll(r) ==
    /\ pc[r] \in Boundaries
    /\ IF IsPending(control[r])
       THEN /\ Goto(r, "pausing")
            /\ at' = [at EXCEPT ![r] = pc[r]]
            /\ handling' = [handling EXCEPT ![r] = control[r].request]
       ELSE Goto(r, NextStep(r)) /\ UNCHANGED <<at, handling>>
    /\ UNCHANGED <<lease, record, checkpoint, call, reobserve, grounded,
                   failure, op, fresh>>

(* create_turn answers: observations, one action, or the final text.       *)
(* While an observation is due only observation tools are advertised, and  *)
(* a final answer is refused.  The provider may also fail.                 *)
AdvertisesActions(r) == ~reobserve[r]

Provider(r) ==
    /\ pc[r] = "provider"
    /\ \/ \E c \in {"observe", "act"} :
            /\ c = "act" => AdvertisesActions(r)
            /\ call' = [call EXCEPT ![r] = c]
            /\ Goto(r, "before_tool")
            /\ UNCHANGED <<checkpoint, at, handling, reobserve, grounded,
                           failure>>
       \/ ~reobserve[r] /\ EndRun(r, "none")
       \/ EndRun(r, "run")
    /\ UNCHANGED <<lease, record, op, fresh>>

(* Policy: an action needs a valid grounding and no observation due; it is *)
(* then allowed by the Host (low risk) or put to the operator.             *)
Authorize(r) ==
    /\ pc[r] = "authorizing"
    /\ IF reobserve[r] \/ ~grounded[r]
       THEN EndRun(r, "run")
       ELSE /\ \/ Goto(r, "after_authorization") \/ Goto(r, "approving")
            /\ UNCHANGED <<checkpoint, call, at, handling, reobserve, grounded,
                           failure>>
    /\ UNCHANGED <<lease, record, op, fresh>>

MustReobserve(r) ==
    /\ reobserve' = [reobserve EXCEPT ![r] = TRUE]
    /\ grounded' = [grounded EXCEPT ![r] = FALSE]

(* request_approval returns: allow, reobserve, takeover, or an ending      *)
(* (deny, defer, a mismatch, the card's timeout, cancellation).            *)
Decide(r) ==
    /\ pc[r] = "approving"
    /\ \/ /\ \/ Goto(r, "after_approval") \/ Goto(r, "taking_over")
          /\ UNCHANGED <<checkpoint, call, at, handling, reobserve, grounded,
                         failure>>
       \/ /\ Goto(r, "before_provider")
          /\ MustReobserve(r)
          /\ Checkpoint(r, "PLANNING", TRUE)
          /\ UNCHANGED <<call, at, handling, failure>>
       \/ EndRun(r, "run")
    /\ UNCHANGED <<lease, record, op, fresh>>

(* desktop.call_tool returns.  An action may be known not dispatched, with *)
(* or without the gate's objection; dispatched; or of unknown outcome.     *)
Execute(r) ==
    /\ pc[r] = "executing"
    /\ \/ /\ call[r] = "observe"
          /\ Goto(r, "observed")
          /\ reobserve' = [reobserve EXCEPT ![r] = FALSE]
          /\ grounded' = [grounded EXCEPT ![r] = TRUE]
          /\ fresh' = [fresh EXCEPT ![r] = TRUE]
          /\ Checkpoint(r, "OBSERVING", FALSE)
          /\ UNCHANGED <<call, at, handling, failure>>
       \/ /\ Goto(r, "before_provider")
          /\ Checkpoint(r, "PLANNING", reobserve[r])
          /\ UNCHANGED <<call, at, handling, reobserve, grounded, failure,
                         fresh>>
       \/ /\ call[r] = "act"
          /\ Goto(r, "before_provider")
          /\ MustReobserve(r)
          /\ Checkpoint(r, "PLANNING", TRUE)
          /\ fresh' \in {fresh, [s \in Runs |-> FALSE]}
          /\ UNCHANGED <<call, at, handling, failure>>
       \/ /\ EndRun(r, "run")
          /\ fresh' = IF call[r] = "act" THEN [s \in Runs |-> FALSE] ELSE fresh
    /\ UNCHANGED <<lease, record, op>>

-----------------------------------------------------------------------------
(* The pause boundary: the PAUSED checkpoint comes first.                  *)
Pause_WithoutInvalidation(r) ==
    /\ pc[r] = "pausing"
    /\ Checkpoint(r, "PAUSED", TRUE)
    /\ Goto(r, "acknowledging")
    /\ UNCHANGED <<lease, record, call, at, handling, reobserve, grounded,
                   failure, op, fresh>>
Pause(r) ==
    /\ pc[r] = "pausing"
    /\ MustReobserve(r)
    /\ Checkpoint(r, "PAUSED", TRUE)
    /\ Goto(r, "acknowledging")
    /\ UNCHANGED <<lease, record, call, at, handling, failure, op, fresh>>

(* wait_for_resume returns at the first read that shows the request.       *)
Wakes_ForActive(r) == control[r].status = "active"
Wakes(r) ==
    /\ control[r].request = handling[r]
    /\ control[r].status = "resume_requested"

WaitForResume(r) ==
    /\ pc[r] = "paused"
    /\ Wakes(r)
    /\ Goto(r, "resuming")
    /\ UNCHANGED <<lease, record, checkpoint, call, at, handling, reobserve,
                   grounded, failure, op, fresh>>

(* The wait is cancelled.                                                  *)
CancelWait(r) ==
    /\ pc[r] = "paused"
    /\ EndRun(r, "run")
    /\ UNCHANGED <<lease, record, op, fresh>>

(* After the resumption the stale call is rejected, the turn abandoned.    *)
Resumed(r) ==
    /\ pc[r] = "resumed"
    /\ Checkpoint(r, "PLANNING", reobserve[r])
    /\ Goto(r, IF at[r] = "before_provider" THEN "provider"
               ELSE "before_provider")
    /\ at' = [at EXCEPT ![r] = "none"]
    /\ handling' = [handling EXCEPT ![r] = 0]
    /\ UNCHANGED <<lease, record, call, reobserve, grounded, failure, op,
                   fresh>>

-----------------------------------------------------------------------------
(* _locked: every mutation asks for the run's control lock once.           *)
LockControl(r) ==
    /\ pc[r] \in ControlCalls
    /\ mutex[r] = Free
    /\ mutex' = [mutex EXCEPT ![r] = r]
    /\ UNCHANGED <<lease, control, requests, checkpoint, runner, op, fresh>>

(* COOPERATIVE_CONTROL_BUSY fails the run; while it closes, the error is   *)
(* swallowed if there is another one and raised out of the finally         *)
(* otherwise, before the lease is released.                                *)
Busy(r) ==
    /\ pc[r] \in ControlCalls
    /\ mutex[r] \notin {Free, r}
    /\ IF pc[r] = "closing"
       THEN /\ Forget(r, IF failure[r] = "none" THEN "ended" ELSE "closed")
            /\ UNCHANGED checkpoint
       ELSE EndRun(r, "control")
    /\ UNCHANGED <<lease, record, op, fresh>>

(* One mutation of the Runner: c under guard, else the run fails.          *)
Mutate(r, guard, c, step) ==
    /\ mutex[r] = r
    /\ Unlock(r)
    /\ IF guard
       THEN /\ Write(r, c)
            /\ Goto(r, step)
            /\ UNCHANGED <<checkpoint, call, at, handling, reobserve, grounded,
                           failure>>
       ELSE EndRun(r, "control") /\ UNCHANGED control
    /\ UNCHANGED <<lease, requests, op, fresh>>

AcknowledgePaused(r) ==
    /\ pc[r] = "acknowledging"
    /\ Mutate(r, IsPending(control[r]) /\ control[r].request = handling[r],
              Paused(control[r], at[r]), "paused")

AcknowledgeResumed(r) ==
    /\ pc[r] = "resuming"
    /\ Mutate(r, control[r].status = "resume_requested"
                    /\ control[r].request = handling[r],
              Resuming(control[r]), "resumed")

(* The next call of the same turn, or the next turn, follows.              *)
AcknowledgeFreshObservation(r) ==
    /\ pc[r] = "observed"
    /\ \E step \in {"before_tool", "before_provider"} :
          Mutate(r, control[r].status \in {"active", "pause_requested",
                                           "resuming"},
                 IF control[r].status = "resuming" THEN Reobserved(control[r])
                 ELSE control[r], step)

(* request_from_runner, for a Decision Card answered with takeover.        *)
RequestFromRunner(r) ==
    /\ pc[r] = "taking_over"
    /\ mutex[r] = r
    /\ Unlock(r)
    /\ IF control[r].status = "active"
       THEN /\ requests < MaxRequests
            /\ requests' = requests + 1
            /\ Write(r, Requested(control[r], "takeover", requests + 1))
            /\ Goto(r, "after_approval")
            /\ UNCHANGED <<checkpoint, call, at, handling, reobserve, grounded,
                           failure>>
       ELSE EndRun(r, "control") /\ UNCHANGED <<control, requests>>
    /\ UNCHANGED <<lease, op, fresh>>

CloseControl(r) ==
    /\ pc[r] = "closing"
    /\ mutex[r] = r
    /\ Unlock(r)
    /\ Write(r, ClosedRecord(control[r]))
    /\ Forget(r, "closed")
    /\ UNCHANGED <<lease, requests, checkpoint, op, fresh>>

(* prepared.close                                                          *)
ReleaseLease(r) ==
    /\ pc[r] = "closed"
    /\ lease' = Free
    /\ Forget(r, "ended")
    /\ UNCHANGED <<record, checkpoint, op, fresh>>

(* The process exits or dies; the operating system frees its locks.        *)
Crash(r) ==
    /\ Live(r) \/ lease = r
    /\ lease' = IF lease = r THEN Free ELSE lease
    /\ mutex' = [mutex EXCEPT ![r] = IF @ = r THEN Free ELSE @]
    /\ Forget(r, "dead")
    /\ UNCHANGED <<control, requests, checkpoint, op, fresh>>

-----------------------------------------------------------------------------
(* Another command of the same root (a run without control, a recovery, a  *)
(* cancellation) takes and releases the lease.                             *)
OtherTakes ==
    /\ lease = Free
    /\ lease' = Other
    /\ UNCHANGED <<record, checkpoint, runner, op, fresh>>

OtherLeaves ==
    /\ lease = Other
    /\ lease' = Free
    /\ UNCHANGED <<record, checkpoint, runner, op, fresh>>

(* _resolve_live: somebody holds the lease and this is the only open       *)
(* record; a run named on the command line must be that one.               *)
Resolves_AnyOpen(r) == lease # Free /\ IsOpen(control[r])
Resolves(r) ==
    /\ lease # Free
    /\ {s \in Runs : IsOpen(control[s])} = {r}

Command(o) ==
    /\ op[o].step = "idle"
    /\ \E c \in Kinds \cup {"resume"}, r \in Runs :
          /\ Resolves(r)
          /\ op' = [op EXCEPT ![o] = [step |-> "resolved", command |-> c,
                                      run |-> r]]
    /\ UNCHANGED <<lease, record, checkpoint, runner, fresh>>

LockCommand(o) ==
    /\ op[o].step = "resolved"
    /\ IF mutex[op[o].run] = Free
       THEN /\ mutex' = [mutex EXCEPT ![op[o].run] = o]
            /\ op' = [op EXCEPT ![o].step = "locked"]
       ELSE op' = [op EXCEPT ![o] = Idle] /\ UNCHANGED mutex
    /\ UNCHANGED <<lease, control, requests, checkpoint, runner, fresh>>

(* The command is over, with its result or an error.                       *)
Finish(o) ==
    /\ Unlock(op[o].run)
    /\ op' = [op EXCEPT ![o] = Idle]

(* request_pause: a repeated request of the same kind changes nothing.     *)
ApplyPause(o) ==
    LET r == op[o].run IN
    /\ op[o].step = "locked"
    /\ op[o].command \in Kinds
    /\ Finish(o)
    /\ IF Resolves(r) /\ control[r].status = "active"
       THEN /\ requests < MaxRequests
            /\ requests' = requests + 1
            /\ Write(r, Requested(control[r], op[o].command, requests + 1))
       ELSE UNCHANGED <<control, requests>>
    /\ UNCHANGED <<lease, checkpoint, runner, fresh>>

(* request_resume: only from a PAUSED checkpoint that requires the         *)
(* observation.                                                            *)
MayResume(r) ==
    /\ control[r].status = "paused"
    /\ checkpoint[r] = [phase |-> "PAUSED", reobserve |-> TRUE]

ApplyResume(o) ==
    LET r == op[o].run IN
    /\ op[o].step = "locked"
    /\ op[o].command = "resume"
    /\ Finish(o)
    /\ IF Resolves(r) /\ MayResume(r)
       THEN Write(r, ResumeRequested(control[r]))
       ELSE UNCHANGED control
    /\ UNCHANGED <<lease, requests, checkpoint, runner, fresh>>

(* The command is killed while it holds the control lock.                  *)
KillCommand(o) ==
    /\ op[o].step = "locked"
    /\ Finish(o)
    /\ UNCHANGED <<lease, control, requests, checkpoint, runner, fresh>>

(* An operator who is shown paused/released uses the desktop.              *)
HumanActs ==
    /\ \E r \in Runs : Resolves(r) /\ control[r].status = "paused"
    /\ fresh' = [r \in Runs |-> FALSE]
    /\ UNCHANGED <<lease, record, checkpoint, runner, op>>

-----------------------------------------------------------------------------
RunnerStep(r) ==
    \/ Prepare(r) \/ Start(r) \/ Poll(r) \/ Provider(r) \/ Authorize(r)
    \/ Decide(r) \/ Execute(r) \/ Pause(r) \/ WaitForResume(r) \/ Resumed(r)
    \/ LockControl(r) \/ Busy(r) \/ AcknowledgePaused(r)
    \/ AcknowledgeResumed(r) \/ AcknowledgeFreshObservation(r)
    \/ RequestFromRunner(r) \/ CloseControl(r) \/ ReleaseLease(r)

OperatorStep(o) ==
    \/ Command(o) \/ LockCommand(o) \/ ApplyPause(o) \/ ApplyResume(o)
    \/ KillCommand(o)

Next ==
    \/ \E r \in Runs : RunnerStep(r) \/ CancelWait(r) \/ Crash(r)
    \/ \E o \in Operators : OperatorStep(o)
    \/ OtherTakes \/ OtherLeaves \/ HumanActs

Spec == Init /\ [][Next]_vars

(* A Runner that lives goes on: the provider and the desktop are called    *)
(* with a timeout, an approval card expires, a control call never waits.   *)
(* Operators, crashes and cancellations promise nothing.                   *)
FairSpec == Spec /\ \A r \in Runs : WF_vars(RunnerStep(r))

-----------------------------------------------------------------------------
(* What the proofs need.  The steps of a Runner at which the agent may use *)
(* the desktop or ask for it, and those at which an action is authorised.  *)
Working ==
    Boundaries \cup {"provider", "authorizing", "approving", "executing",
                     "taking_over", "pausing", "observed"}
Authorised == {"after_authorization", "approving", "taking_over",
               "after_approval"}
Acting(r) == pc[r] \in Authorised \/ (pc[r] = "executing" /\ call[r] = "act")

(* Where the Runner is and what the control record says of it.             *)
RecordAgrees(r) ==
    /\ pc[r] \in {"new", "starting"} => control[r].status = "absent"
    /\ pc[r] \in Working =>
          control[r].status \in {"active", "pause_requested", "resuming"}
    /\ pc[r] \in {"pausing", "acknowledging"} =>
          /\ control[r].status = "pause_requested"
          /\ control[r].request = handling[r]
          /\ at[r] # "none"
    /\ pc[r] = "paused" =>
          control[r].status \in {"paused", "resume_requested"}
    /\ pc[r] = "resuming" => control[r].status = "resume_requested"
    /\ pc[r] = "resumed" => control[r].status = "resuming"
    /\ pc[r] = "closing" => IsOpen(control[r])
    /\ pc[r] \in {"acknowledging", "paused", "resuming"} =>
          checkpoint[r] = [phase |-> "PAUSED", reobserve |-> TRUE]
    /\ Valid(control[r])
    /\ control[r].authority = "released" =>
          control[r].status \in {"paused", "resume_requested"}

(* What the Runner remembers of its observations, and what is so.          *)
MemoryAgrees(r) ==
    /\ grounded[r] => pc[r] \in Working \cup {"closing"}
    /\ grounded[r] /\ control[r].status = "resuming" =>
          pc[r] \in {"observed", "closing"}
    /\ control[r].status \in {"paused", "resume_requested"} => ~grounded[r]
    /\ pc[r] = "acknowledging" => ~grounded[r]
    /\ pc[r] \in {"before_tool", "executing", "observed"} => call[r] # "none"
    /\ pc[r] = "authorizing" \/ pc[r] \in Authorised => call[r] = "act"
    /\ Acting(r) => grounded[r]
    /\ grounded[r] /\ pc[r] # "closing" => fresh[r]

ControlInv ==
    \A r \in Runs :
        /\ Live(r) => lease = r
        /\ RecordAgrees(r)
        /\ MemoryAgrees(r)

-----------------------------------------------------------------------------
(* No transition builds a record that the snapshot class rejects, whoever  *)
(* makes it: an operator's request may fall between any two of the Runner's *)
(* calls, and the raised COOPERATIVE_CONTROL_RECORD_INVALID would end the  *)
(* run.                                                                    *)
RecordsValid == \A r \in Runs : Valid(control[r])

(* While the record an operator is shown says the desktop is released, no  *)
(* controlled Runner is inside a desktop call (COOPERATIVE_CONTROL.md:     *)
(* "Only that acknowledged state means the operator owns the desktop       *)
(* lane"); also across a crash and the start of another run.               *)
ExclusiveDesktop ==
    \A r, s \in Runs :
        Resolves(r) /\ control[r].authority = "released" => pc[s] # "executing"

(* An action is in the desktop call only if the run has observed the       *)
(* desktop since anybody, itself or a released operator, changed it.       *)
(* Grounding, recovery status and the control record are three separate    *)
(* places where the runner keeps that fact.                                *)
ActsOnFreshObservation ==
    \A r \in Runs : pc[r] = "executing" /\ call[r] = "act" => fresh[r]

(* An action is in progress only while no observation is outstanding in    *)
(* the control record (the record returns to active first).                *)
ActsUnderActiveRecord ==
    \A r \in Runs :
        pc[r] = "executing" /\ call[r] = "act" =>
            control[r].authority = "agent" /\ ~control[r].fresh_required

(* "The durable paused checkpoint is published before the control record   *)
(* can claim that desktop authority has been released" (runner.py).        *)
DurableBeforeReleased ==
    [][\A r \in Runs :
          control[r].authority # "released" /\ control'[r].authority = "released"
              => checkpoint[r] = [phase |-> "PAUSED", reobserve |-> TRUE]]_vars

(* What the run checks of every state: the record, the Runner and the      *)
(* desktop agree, whoever steps and wherever it dies.                      *)
ControlSafe ==
    /\ TypeOK /\ ControlInv
    /\ RecordsValid /\ ExclusiveDesktop
    /\ ActsOnFreshObservation /\ ActsUnderActiveRecord

(* A request for a pause or a takeover is acknowledged, and a request to   *)
(* resume wakes the Runner that waits for it, or the run ends: no step     *)
(* leads from the one to the other (request_pause, wait_for_resume).       *)
Unanswered(r) ==
    Live(r) /\ control[r].status \in {"pause_requested", "resume_requested"}
CommandsAnswered == \A r \in Runs : Unanswered(r) ~> ~Unanswered(r)

-----------------------------------------------------------------------------
(* COOPERATIVE_CONTROL.md: a command "requires the main Agent run lease to  *)
(* be held and exactly one live control record", so the live run, named,   *)
(* can be controlled.  The record a crashed run leaves open makes every    *)
(* command ambiguous, with or without the name.                            *)
LiveRunResolves ==
    \A r \in Runs :
        Live(r) /\ pc[r] \notin {"starting", "closed"} => Resolves(r)

(* OPERATOR_EXPERIENCE.md: "pause_requested is a notification to the live  *)
(* Runner, not an interrupt": the command never makes the run fail.        *)
NotAnInterrupt == \A r \in Runs : failure[r] # "control"
=============================================================================
