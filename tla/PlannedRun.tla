----------------------------- MODULE PlannedRun -----------------------------
(***************************************************************************)
(* computer_use_agent/executor*.py and hierarchical_runtime.py: a session  *)
(* that executes one stored plan step by step and mirrors it in a linear   *)
(* task tree; the write-ahead records of its tool calls (continuation) and *)
(* of its final response; the trace and checkpoint of the run; and the     *)
(* reconcilers that settle, under the same run lock, what a session that   *)
(* failed or died has left.  Any write may fail, before or after it took   *)
(* effect, and the process may die between any two of them.                *)
(***************************************************************************)
EXTENDS TaskPlan, SequencesExt

CONSTANTS
    Plans,              \* the plans a caller may open
    MaxSessionSteps     \* MAX_EXECUTOR_SESSION_STEPS

ASSUME PlansAssumption ==
    (\A kinds \in Plans : IsTaskPlan(kinds)) /\ MaxSessionSteps \in Nat

VARIABLES
    kinds,      \* the kinds of the steps of the plan
    mode,       \* no tree, an observing tree (H4) or an acting one (H7)
    plan,       \* task-plan.json: the statuses, <<>> when absent
    tree,       \* task-tree.json: the statuses of its leaves
    cont,       \* continuation.json: the last tool boundary
    final,      \* final-response.json: the stage of the provider request
    rec,        \* state.json, and the lines of the final turn in the trace
    ses,        \* the executor session, in memory
    sent        \* the calls and the request that left the host, in order,
                \* and what they came to

vars == <<kinds, mode, plan, tree, cont, final, rec, ses, sent>>

Modes == {"linear", "observing", "acting"}
NoBoundary == [stage |-> "none", step |-> 0, result |-> "none"]
Absent == [NoBoundary EXCEPT !.stage = "absent"]
NoSession ==
    [pc |-> "closed", step |-> 0, seen |-> <<>>, calls |-> 0,
     outstanding |-> FALSE, result |-> "none", goal |-> "none",
     turn |-> FALSE, note |-> <<"none", "none">>, keep |-> FALSE]

(* What a dispatched call comes to: RunFailure, MCPCallCancelled or any    *)
(* other exception after the dispatch leave its outcome unknown.           *)
Results == {"success", "action_error", "rejected", "unknown"}

Init ==
    /\ kinds \in Plans
    /\ mode \in Modes
    /\ plan = <<>> /\ tree = <<>>
    /\ cont = Absent
    /\ final = "absent"
    /\ rec = [phase |-> "absent", code |-> "none", turn |-> FALSE, lines |-> 0]
    /\ ses = NoSession
    /\ sent = <<>>

HasTree == mode # "linear"
MaySideEffect == mode = "acting"

(* A durable write: done, or refused with the file old or new.             *)
Durably(file, new, onDone, onFailure) ==
    \/ file' = new /\ onDone
    \/ file' \in {file, new} /\ onFailure

Goto(pc) == ses' = [ses EXCEPT !.pc = pc]
Note(phase, code, keep) ==
    ses' = [ses EXCEPT !.pc = "record", !.note = <<phase, code>>, !.keep = keep]
Fail(code, keep) == Note("FAILED", code, keep)

-----------------------------------------------------------------------------
(* _open_runtime_executor_session                                          *)

(* A plan is stored once: a run that has one is refused before anything is *)
(* written, so there is one session per run.                               *)
OpenPlan ==
    /\ ses.pc = "closed" /\ plan = <<>>
    /\ mode = "observing" => ObservesOnly(kinds)
    /\ mode = "acting" => IsBoundedSideEffect(kinds)
    /\ Durably(plan, AllPending(kinds),
               Goto(IF HasTree THEN "openTree" ELSE "openRecord"),
               UNCHANGED ses)
    /\ UNCHANGED <<kinds, mode, tree, cont, final, rec, sent>>

(* LinearTaskTreeProjection.create and create_bounded_side_effect          *)
OpenTree ==
    /\ ses.pc = "openTree"
    /\ Durably(tree, plan, Goto("openRecord"), Goto("closed"))
    /\ UNCHANGED <<kinds, mode, plan, cont, final, rec, sent>>

(* recorder.start, then OBSERVING                                          *)
OpenRecord ==
    /\ ses.pc = "openRecord"
    /\ \/ rec' = [rec EXCEPT !.phase = "OBSERVING"] /\ Goto("openDesktop")
       \/ rec' \in {rec, [rec EXCEPT !.phase = "CREATED"]} /\ Goto("closed")
    /\ UNCHANGED <<kinds, mode, plan, tree, cont, final, sent>>

(* discover_tools, the first continuation, PLANNING; or OPEN_FAILED        *)
OpenDesktop ==
    /\ ses.pc = "openDesktop"
    /\ \/ /\ cont' = NoBoundary
          /\ rec' = [rec EXCEPT !.phase = "PLANNING"]
          /\ Goto("idle")
       \/ /\ cont' \in {Absent, NoBoundary}
          /\ rec' \in {rec, [rec EXCEPT !.phase = "FAILED",
                                       !.code = "EXECUTOR_RUNTIME_OPEN_FAILED"]}
          /\ ses' = NoSession
    /\ UNCHANGED <<kinds, mode, plan, tree, final, sent>>

-----------------------------------------------------------------------------
(* RuntimeExecutorSession.execute_next_tool                                *)

(* compile_plan_tool_preflight                                             *)
Preflight(i) ==
    /\ i \in DOMAIN plan
    /\ plan[i] = "pending"
    /\ kinds[i] # "final_response"

(* BoundedExecutorSession.prepare_next                                     *)
PrepareNext ==
    /\ ses.pc = "idle"
    /\ ~ses.outstanding
    /\ ses.calls < MaxSessionSteps
    /\ LET i == NextStep(plan) IN
        /\ Preflight(i)
        /\ kinds[i] = "side_effect" => MaySideEffect
        /\ ses' = [ses EXCEPT !.pc = IF HasTree THEN "treeStart" ELSE "planStart",
                              !.step = i, !.seen = plan, !.outstanding = TRUE,
                              !.calls = @ + 1]
    /\ UNCHANGED <<kinds, mode, plan, tree, cont, final, rec, sent>>

(* LinearTaskTreeProjection.start_step                                     *)
StartStep(next, refused) ==
    LET i == ses.step IN
    IF plan[i] = "pending" /\ MayMove(tree, i, "in_progress")
    THEN Durably(tree, Moved(tree, i, "in_progress"), Goto(next), refused)
    ELSE UNCHANGED tree /\ refused

(* LinearTaskTreeProjection.finish_step                                    *)
FinishStep(goal, next, refused) ==
    LET i == ses.step IN
    IF plan[i] = goal /\ tree[i] = "in_progress" /\ MayMove(tree, i, goal)
    THEN Durably(tree, Moved(tree, i, goal), Goto(next), refused)
    ELSE UNCHANGED tree /\ refused

TreeStart ==
    /\ ses.pc = "treeStart"
    /\ StartStep("planStart", Fail("EXECUTOR_TREE_PREPARE_FAILED", FALSE))
    /\ UNCHANGED <<kinds, mode, plan, cont, final, rec, sent>>

(* TaskPlanStore.transition: a compare and swap on the snapshot            *)
Transition(i, goal, next, refused) ==
    IF plan = ses.seen /\ MayMove(plan, i, goal)
    THEN Durably(plan, Moved(plan, i, goal), next, refused)
    ELSE UNCHANGED plan /\ refused

PlanStart_RefusalIgnored ==
    /\ ses.pc = "planStart"
    /\ LET started == ses' = [ses EXCEPT !.pc = "boundary",
                              !.seen = Moved(plan, ses.step, "in_progress")]
       IN Transition(ses.step, "in_progress", started, started)
    /\ UNCHANGED <<kinds, mode, tree, cont, final, rec, sent>>
(* Without a tree the refusal leaves the session open, its call            *)
(* outstanding for good.                                                   *)
PlanStart ==
    /\ ses.pc = "planStart"
    /\ Transition(ses.step, "in_progress",
           ses' = [ses EXCEPT !.pc = "boundary",
                              !.seen = Moved(plan, ses.step, "in_progress")],
           Goto(IF HasTree THEN "repairStart" ELSE "idle"))
    /\ UNCHANGED <<kinds, mode, tree, cont, final, rec, sent>>

(* LinearTaskTreeProjection.reconcile_from_plan                            *)
FromPlan(next) ==
    /\ tree' \in {tree, plan}
    /\ next

RepairStart ==
    /\ ses.pc = "repairStart"
    /\ FromPlan(Fail("EXECUTOR_PLAN_PREPARE_FAILED", FALSE))
    /\ UNCHANGED <<kinds, mode, plan, cont, final, rec, sent>>

Outcome(result, goal, code, keep) ==
    [ses EXCEPT !.pc = "planTarget", !.result = result, !.goal = goal,
                !.note = <<IF goal = "blocked" /\ ~keep THEN "PAUSED"
                           ELSE "FAILED", code>>,
                !.keep = keep]

(* AgentRunner._execute_requested_call_boundary, before the call: refused  *)
(* by policy, budget, grounding or the operator; deferred; looked at anew. *)
BoundaryRefuses ==
    /\ ses.pc = "boundary"
    /\ \/ ses' = Outcome("rejected", "failed", "REFUSED", FALSE)
       \/ /\ kinds[ses.step] = "side_effect"
          /\ \/ ses' = Outcome("rejected", "blocked", "APPROVAL_DEFERRED", FALSE)
             \/ ses' = Outcome("rejected", "blocked",
                               "EXECUTOR_VERIFICATION_REQUIRED", TRUE)
    /\ UNCHANGED <<kinds, mode, plan, tree, cont, final, rec, sent>>

(* prepare_tool and dispatch_tool: a write that fails refuses the call     *)
BoundaryWrite(from, stage, next) ==
    /\ ses.pc = from
    /\ Durably(cont, [stage |-> stage, step |-> ses.step, result |-> "none"],
               Goto(next),
               ses' = Outcome("rejected", "failed", "CONTINUATION_WRITE_FAILED",
                              FALSE))
    /\ rec' = [rec EXCEPT !.phase = "EXECUTING"]
    /\ UNCHANGED <<kinds, mode, plan, tree, final, sent>>

BoundaryCall_Retries ==
    /\ ses.pc = "call"
    /\ \E result \in Results :
        /\ sent' = Append(sent, [step |-> ses.step, result |-> result])
        /\ ses' = [ses EXCEPT !.pc = IF result = "unknown" THEN "call" ELSE "complete",
                              !.result = result]
    /\ Len(sent) < Len(kinds)
    /\ UNCHANGED <<kinds, mode, plan, tree, cont, final, rec>>
(* ports.desktop.call_tool; the server may turn an action away undone      *)
BoundaryCall ==
    /\ ses.pc = "call"
    /\ \E result \in Results :
        /\ result = "rejected" => kinds[ses.step] = "side_effect"
        /\ sent' = IF result = "rejected" THEN sent
                   ELSE Append(sent, [step |-> ses.step, result |-> result])
        /\ ses' = [ses EXCEPT !.pc = "complete", !.result = result]
    /\ UNCHANGED <<kinds, mode, plan, tree, cont, final, rec>>

AfterCall_UnknownFails ==
    ses' = IF ses.result = "success"
           THEN [Outcome("success", "completed", "none", TRUE) EXCEPT
                    !.note = <<"none", "none">>]
           ELSE Outcome(ses.result, "failed", "EXECUTOR_TOOL_FAILED", FALSE)
(* accept_boundary_outcome keeps an unknown outcome where it is: the step  *)
(* stays in progress and nothing is deleted.                               *)
AfterCall ==
    LET result == ses.result IN
    IF result = "unknown" THEN Note("UNKNOWN_OUTCOME", "UNKNOWN_OUTCOME", TRUE)
    ELSE ses' = IF result = "success" THEN
                       [Outcome(result, "completed", "none", TRUE) EXCEPT
                           !.note = <<"none", "none">>]
                  ELSE IF kinds[ses.step] = "side_effect" THEN
                       Outcome(result, "blocked",
                               "EXECUTOR_VERIFICATION_REQUIRED", TRUE)
                  ELSE
                       Outcome(result, "failed", "EXECUTOR_TOOL_FAILED", FALSE)

(* complete_tool, and the phase the boundary ends in                       *)
BoundaryComplete ==
    /\ ses.pc = "complete"
    /\ Durably(cont,
           [stage |-> "completed", step |-> ses.step, result |-> ses.result],
           AfterCall,
           Note("UNKNOWN_OUTCOME", "EXECUTOR_RUNTIME_UNCERTAIN", TRUE))
    /\ rec' = [rec EXCEPT !.phase = "PLANNING"]
    /\ UNCHANGED <<kinds, mode, plan, tree, final, sent>>

(* The session is open for the next step, or the outcome ends it.          *)
Done == IF ses.goal = "completed" THEN "idle" ELSE "record"

(* BoundedExecutorSession.accept_boundary_outcome                          *)
Accepts(goal, result) ==
    CASE goal = "completed" -> result = "success"
      [] goal = "failed" -> result \in {"action_error", "rejected"}
      [] goal = "blocked" -> result # "success" /\ result # "unknown"

PlanTarget ==
    /\ ses.pc = "planTarget"
    /\ Transition(ses.step, ses.goal,
           IF Accepts(ses.goal, ses.result)
           THEN ses' = [ses EXCEPT !.pc = IF HasTree THEN "treeFinish" ELSE Done,
                                   !.outstanding = FALSE]
           ELSE ses' = [ses EXCEPT !.pc = "shutdown", !.keep = TRUE],
           Fail("EXECUTOR_PLAN_COMMIT_FAILED", TRUE))
    /\ UNCHANGED <<kinds, mode, tree, cont, final, rec, sent>>

TreeFinish ==
    /\ ses.pc = "treeFinish"
    /\ FinishStep(ses.goal, Done, Fail("EXECUTOR_TREE_COMMIT_FAILED", TRUE))
    /\ UNCHANGED <<kinds, mode, plan, cont, final, rec, sent>>

-----------------------------------------------------------------------------
(* RunRecorder.record appends to the trace and then writes the checkpoint. *)
(* It appends what the last checkpoint does not count, so a checkpoint     *)
(* that fails has the line of the final turn written again.  A record that *)
(* raises inside a handler leaves the session open.                        *)

NotRecorded ==
    Goto(IF ses.note[1] = "SUCCESS" THEN "repairFinal" ELSE "idle")

RecordTrace ==
    /\ ses.pc = "record"
    /\ \/ /\ rec' = [rec EXCEPT !.lines =
                         IF ses.turn /\ ~rec.turn /\ @ < 2 THEN @ + 1 ELSE @]
          /\ Goto("checkpoint")
       \/ NotRecorded /\ UNCHANGED rec
    /\ UNCHANGED <<kinds, mode, plan, tree, cont, final, sent>>

RecordCheckpoint ==
    /\ ses.pc = "checkpoint"
    /\ \/ /\ rec' = [rec EXCEPT !.phase = ses.note[1], !.code = ses.note[2],
                                !.turn = ses.turn]
          /\ Goto("shutdown")
       \/ NotRecorded /\ UNCHANGED rec
    /\ UNCHANGED <<kinds, mode, plan, tree, cont, final, sent>>

Shutdown_Deletes ==
    /\ ses.pc = "shutdown"
    /\ cont' \in {cont, Absent}
    /\ ses' = NoSession
    /\ UNCHANGED <<kinds, mode, plan, tree, final, rec, sent>>
(* RuntimeExecutorSession._shutdown                                        *)
Shutdown ==
    /\ ses.pc = "shutdown"
    /\ IF ses.keep THEN UNCHANGED cont ELSE cont' \in {cont, Absent}
    /\ ses' = NoSession
    /\ UNCHANGED <<kinds, mode, plan, tree, final, rec, sent>>

-----------------------------------------------------------------------------
(* RuntimeExecutorSession.execute_final_response                           *)

(* compile_final_response_request: every tool step completed, the last of  *)
(* them an observation, and nothing but observations unless the session is *)
(* the bounded one.                                                        *)
FinalReady(status) ==
    LET last == Len(status) IN
    /\ last \in 2..MaxSessionSteps + 1
    /\ \A i \in 1..last - 1 : status[i] = "completed"
    /\ status[last] = "pending"
    /\ kinds[last - 1] = "observation"
    /\ IF MaySideEffect THEN IsBoundedSideEffect(kinds) ELSE ObservesOnly(kinds)

PrepareFinal ==
    /\ ses.pc = "idle"
    /\ FinalReady(plan)
    /\ ses' = [ses EXCEPT !.pc = IF HasTree THEN "treeStartFinal" ELSE "finalCreate",
                          !.step = Len(plan), !.seen = plan, !.goal = "none"]
    /\ UNCHANGED <<kinds, mode, plan, tree, cont, final, rec, sent>>

TreeStartFinal ==
    /\ ses.pc = "treeStartFinal"
    /\ StartStep("finalCreate", Fail("EXECUTOR_TREE_PREPARE_FAILED", FALSE))
    /\ UNCHANGED <<kinds, mode, plan, cont, final, rec, sent>>

(* Before the intent is on record a failure is PREPARE_FAILED, after it    *)
(* UNCERTAIN; both keep the continuation and the final record.             *)
FinalFails(intent) ==
    ses' = [ses EXCEPT !.pc = "repairFinal",
                       !.goal = IF intent THEN "intent" ELSE "none"]

(* FinalResponseStore.create, bound to the plan and to the continuation    *)
FinalCreate ==
    /\ ses.pc = "finalCreate"
    /\ IF final = "absent" /\ cont.stage # "absent"
       THEN Durably(final, "prepared", Goto("finalStart"), FinalFails(FALSE))
       ELSE UNCHANGED final /\ FinalFails(FALSE)
    /\ UNCHANGED <<kinds, mode, plan, tree, cont, rec, sent>>

FinalStart ==
    /\ ses.pc = "finalStart"
    /\ Transition(ses.step, "in_progress",
           ses' = [ses EXCEPT !.pc = "finalIntent",
                              !.seen = Moved(plan, ses.step, "in_progress")],
           FinalFails(FALSE))
    /\ UNCHANGED <<kinds, mode, tree, cont, final, rec, sent>>

(* FinalResponseStore.mark_dispatch_intent                                 *)
FinalIntent ==
    /\ ses.pc = "finalIntent"
    /\ Durably(final, "dispatch_intent", Goto("finalCall"), FinalFails(FALSE))
    /\ UNCHANGED <<kinds, mode, plan, tree, cont, rec, sent>>

(* FinalResponsePort.create_final_response                                 *)
FinalCall ==
    /\ ses.pc = "finalCall"
    /\ \E result \in {"success", "unknown"} :
        /\ sent' = Append(sent, [step |-> ses.step, result |-> result])
        /\ IF result = "success" THEN Goto("finalComplete") ELSE FinalFails(TRUE)
    /\ UNCHANGED <<kinds, mode, plan, tree, cont, final, rec>>

(* FinalResponseStore.complete; then the turn is consumed in memory, which *)
(* the budgets may refuse.                                                 *)
FinalComplete ==
    /\ ses.pc = "finalComplete"
    /\ \/ /\ final' = "completed"
          /\ \/ ses' = [ses EXCEPT !.pc = "finalFinish", !.turn = TRUE]
             \/ FinalFails(TRUE)
       \/ UNCHANGED final /\ FinalFails(TRUE)
    /\ UNCHANGED <<kinds, mode, plan, tree, cont, rec, sent>>

FinalFinish ==
    /\ ses.pc = "finalFinish"
    /\ Transition(ses.step, "completed",
           ses' = [ses EXCEPT !.pc = IF HasTree THEN "treeFinishFinal"
                                     ELSE "record",
                              !.goal = "completed",
                              !.note = <<"SUCCESS", "none">>, !.keep = FALSE],
           FinalFails(TRUE))
    /\ UNCHANGED <<kinds, mode, tree, cont, final, rec, sent>>

TreeFinishFinal ==
    /\ ses.pc = "treeFinishFinal"
    /\ FinishStep("completed", "record", FinalFails(TRUE))
    /\ UNCHANGED <<kinds, mode, plan, cont, final, rec, sent>>

(* The handlers of CancelledError and of every other exception             *)
RepairFinal ==
    /\ ses.pc = "repairFinal"
    /\ IF HasTree THEN tree' \in {tree, plan} ELSE UNCHANGED tree
    /\ Fail(IF ses.goal = "none" THEN "EXECUTOR_FINAL_PREPARE_FAILED"
            ELSE "EXECUTOR_FINAL_UNCERTAIN", TRUE)
    /\ UNCHANGED <<kinds, mode, plan, cont, final, rec, sent>>

-----------------------------------------------------------------------------
(* RuntimeExecutorSession.cancel and preserve_and_close                    *)

Cancel ==
    /\ ses.pc = "idle"
    /\ PlanStatus(plan) # "completed" /\ plan[NextStep(plan)] = "pending"
    /\ Durably(plan, Moved(plan, NextStep(plan), "cancelled"),
           ses' = [ses EXCEPT !.pc = IF HasTree THEN "treeCancel" ELSE "record",
                              !.step = NextStep(plan), !.keep = FALSE,
                              !.note = <<"CANCELLED", "EXECUTOR_CANCELLED">>],
           UNCHANGED ses)
    /\ UNCHANGED <<kinds, mode, tree, cont, final, rec, sent>>

(* LinearTaskTreeProjection.cancel_pending_step                            *)
TreeCancel ==
    /\ ses.pc = "treeCancel"
    /\ IF tree[ses.step] = "pending" /\ MayMove(tree, ses.step, "cancelled")
       THEN Durably(tree, Moved(tree, ses.step, "cancelled"), Goto("record"),
                    Fail("EXECUTOR_TREE_COMMIT_FAILED", TRUE))
       ELSE UNCHANGED tree /\ Fail("EXECUTOR_TREE_COMMIT_FAILED", TRUE)
    /\ UNCHANGED <<kinds, mode, plan, cont, final, rec, sent>>

PreserveAndClose ==
    /\ ses.pc = "idle"
    /\ Fail("EXECUTOR_SESSION_PRESERVED", TRUE)
    /\ UNCHANGED <<kinds, mode, plan, tree, cont, final, rec, sent>>

Crash ==
    /\ ses.pc # "closed"
    /\ ses' = NoSession
    /\ UNCHANGED <<kinds, mode, plan, tree, cont, final, rec, sent>>

-----------------------------------------------------------------------------
(* The reconcilers, under the lock that a closed session has given back.   *)

(* compile_observation_reconciliation, reconcile_completed_observation     *)
ReconcileObservation ==
    LET i == NextStep(plan) IN
    /\ ses.pc = "closed" /\ i \in DOMAIN plan
    /\ plan[i] = "in_progress" /\ kinds[i] = "observation"
    /\ cont.stage = "completed" /\ cont.step = i
    /\ cont.result \in {"success", "action_error"}
    /\ plan' = Moved(plan, i,
                     IF cont.result = "success" THEN "completed" ELSE "failed")
    /\ UNCHANGED <<kinds, mode, tree, cont, final, rec, ses, sent>>

ReconcileFromPlan ==
    /\ ses.pc = "closed" /\ tree # <<>>
    /\ tree # plan /\ tree' = plan
    /\ UNCHANGED <<kinds, mode, plan, cont, final, rec, ses, sent>>

(* read_run_record                                                         *)
RecordComplete == rec.lines = IF rec.turn THEN 1 ELSE 0

(* _reconstruct_state: the continuation is that of the last observation    *)
LedgerComplete ==
    /\ ObservesOnly(kinds)
    /\ cont.stage = "completed" /\ cont.result = "success"
    /\ cont.step = Len(plan) - 1

(* the checkpoint shapes it takes for a crash after the completed request  *)
CheckpointFits ==
    /\ RecordComplete
    /\ \/ rec.turn /\ rec.phase = "SUCCESS"
       \/ ~rec.turn /\ rec.phase = "PLANNING"
       \/ rec.phase = "FAILED" /\ rec.code = "EXECUTOR_FINAL_UNCERTAIN"

(* compile_final_response_reconciliation                                   *)
FinalReconcilable ==
    /\ plan # <<>> /\ plan[Len(plan)] \in {"in_progress", "completed"}
    /\ final = "completed"
    /\ LedgerComplete
    /\ CheckpointFits

(* apply_completed_final_response_reconciliation: the plan, the terminal   *)
(* record (reconcile_final_success), the continuation.                     *)
ReconcileFinal ==
    /\ ses.pc = "closed"
    /\ FinalReconcilable
    /\ plan' \in {plan, Moved(plan, Len(plan), "completed")}
    /\ ses' = IF plan'[Len(plan)] = "completed"
              THEN [NoSession EXCEPT !.pc = IF rec.phase = "SUCCESS"
                                            THEN "reconciled" ELSE "reconcile"]
              ELSE ses
    /\ UNCHANGED <<kinds, mode, tree, cont, final, rec, sent>>

ReconcileFinalSuccess ==
    \/ /\ ses.pc = "reconcile"
       /\ rec' = [rec EXCEPT !.lines = 1]
       /\ Goto("reconciled_trace")
       /\ UNCHANGED <<kinds, mode, plan, tree, cont, final, sent>>
    \/ /\ ses.pc = "reconciled_trace"
       /\ rec' = [phase |-> "SUCCESS", code |-> "none", turn |-> TRUE,
                  lines |-> rec.lines]
       /\ Goto("reconciled")
       /\ UNCHANGED <<kinds, mode, plan, tree, cont, final, sent>>
    \/ /\ ses.pc = "reconciled"
       /\ cont' = Absent
       /\ Goto("closed")
       /\ UNCHANGED <<kinds, mode, plan, tree, final, rec, sent>>

Open == OpenPlan \/ OpenTree \/ OpenRecord \/ OpenDesktop
ExecuteNextTool ==
    \/ PrepareNext \/ TreeStart \/ PlanStart \/ RepairStart
    \/ BoundaryRefuses
    \/ BoundaryWrite("boundary", "prepared", "dispatch")
    \/ BoundaryWrite("dispatch", "dispatched", "call")
    \/ BoundaryCall \/ BoundaryComplete
    \/ PlanTarget \/ TreeFinish
Record == RecordTrace \/ RecordCheckpoint \/ Shutdown
ExecuteFinalResponse ==
    \/ PrepareFinal \/ TreeStartFinal \/ FinalCreate \/ FinalStart
    \/ FinalIntent \/ FinalCall \/ FinalComplete \/ FinalFinish
    \/ TreeFinishFinal \/ RepairFinal
Reconcile ==
    \/ ReconcileObservation \/ ReconcileFromPlan
    \/ ReconcileFinal \/ ReconcileFinalSuccess

Next ==
    \/ Open \/ ExecuteNextTool \/ Record \/ ExecuteFinalResponse
    \/ Cancel \/ TreeCancel \/ PreserveAndClose \/ Crash \/ Reconcile

Spec == Init /\ [][Next]_vars
-----------------------------------------------------------------------------
Pcs == {"closed", "openTree", "openRecord", "openDesktop", "idle", "treeStart",
        "planStart", "repairStart", "boundary", "dispatch", "call", "complete",
        "planTarget", "treeFinish", "record", "checkpoint", "shutdown",
        "treeStartFinal", "finalCreate", "finalStart", "finalIntent",
        "finalCall", "finalComplete", "finalFinish", "treeFinishFinal",
        "repairFinal", "treeCancel", "reconcile", "reconciled_trace",
        "reconciled"}

TypeOK ==
    /\ kinds \in Plans /\ mode \in Modes
    /\ \A s \in {plan, tree} : s = <<>> \/ s \in [DOMAIN kinds -> StepStatuses]
    /\ cont.step \in 0..Len(kinds) /\ cont.result \in Results \cup {"none"}
    /\ final \in {"absent", "prepared", "dispatch_intent", "completed"}
    /\ rec.turn \in BOOLEAN /\ rec.lines \in 0..2
    /\ ses.pc \in Pcs /\ ses.step \in 0..Len(kinds)
    /\ ses.calls \in 0..MaxSessionSteps

ResultsOf(i) == {sent[n].result : n \in {m \in DOMAIN sent : sent[m].step = i}}

(* Whatever fails, dies or is reconciled, the stored plan never says more  *)
(* than what happened: a completed step succeeded, a failed or blocked one *)
(* did not, a pending or cancelled one was never sent, and the statuses    *)
(* stay in the order that TaskPlan._validate_status_order demands.         *)
PlanHonest ==
    /\ TypeOK
    /\ Ordered(plan)
    /\ \A i \in DOMAIN plan :
        CASE plan[i] = "completed" -> ResultsOf(i) = {"success"}
          [] plan[i] \in {"failed", "blocked"} -> ResultsOf(i) \subseteq {"action_error"}
          [] plan[i] \in {"pending", "cancelled"} -> ResultsOf(i) = {}
          [] OTHER -> TRUE

(* LinearTaskTreeProjection: the tree never says that a step ended before  *)
(* the plan does, never starts a step while an earlier one is not over in  *)
(* the plan, and falls behind only where reconcile_from_plan can bring it  *)
(* back; a session that still holds a step for its call agrees with it.    *)
TreeBehindPlan ==
    tree # <<>> =>
        /\ Ordered(tree)
        /\ \A i \in DOMAIN tree :
            /\ tree[i] \in Stopped \cup {"completed"} => plan[i] = tree[i]
            /\ tree[i] = "in_progress" => \A j \in 1..i - 1 : plan[j] = "completed"
            /\ tree[i] = "pending" => plan[i] \in {"pending", "cancelled"}
        /\ ses.pc \in {"boundary", "dispatch", "call", "complete", "finalIntent",
                       "finalCall", "finalComplete"} => tree = plan

(* The final response: requested only behind its intent, reported as       *)
(* SUCCESS only when plan, record and provider agree, and the continuation *)
(* that a reconciliation needs is kept as long as SUCCESS is not on record.*)
FinalOnRecord ==
    LET last == Len(kinds) IN
    /\ ResultsOf(last) # {} => final \in {"dispatch_intent", "completed"}
    /\ final = "completed" => ResultsOf(last) = {"success"}
    /\ plan # <<>> /\ plan[last] = "completed" => final = "completed"
    /\ rec.phase = "SUCCESS" => plan[last] = "completed"
    /\ final = "completed" /\ rec.phase # "SUCCESS" => cont.stage = "completed"

(* The steps of a plan are the operations of OperationLog: sent one after  *)
(* another, none twice, and none after one whose outcome the plan does not *)
(* record.                                                                 *)
Log == INSTANCE OperationLog WITH
    Operation <- UNION {DOMAIN k : k \in Plans},
    issued <- [n \in DOMAIN sent |-> sent[n].step],
    settled <- sent = <<>> \/ plan[Last(sent).step] # "in_progress"

ImplementsLog == Log!LogSpec

(* What the run checks of every state: plan, tree and final response say   *)
(* no more than the execution records do.                                  *)
PlanRecordsAgree == PlanHonest /\ TreeBehindPlan /\ FinalOnRecord
=============================================================================
