---------------------------- MODULE ContinuedRun ----------------------------
(***************************************************************************)
(* One Agent run with continuation enabled: AgentRunner.run writes its     *)
(* checkpoint and its write-ahead continuation around every provider       *)
(* request and tool call; it may fail, be cancelled or die at any step;    *)
(* `recover` continues it read-only from what is on disk, and `cancel`     *)
(* closes it.  The three hold the run lock, but the runner gives it back   *)
(* before it deletes its continuation.                                     *)
(*                                                                         *)
(* The lock is the operating system's; the lease on disk is RunLock's      *)
(* subject.  Cooperative pause is off: the runner refuses to combine it    *)
(* with continuation.                                                      *)
(***************************************************************************)
EXTENDS RecoveryPlan, FiniteSets

CONSTANT Turns      \* the turns a provider may return: sequences of effects

ASSUME TurnsAssumption == Turns \subseteq Seq(Effects)

VARIABLES
    checkpoint,     \* runs/<id>/state.json
    wal,            \* runs/<id>/continuation.json
    torn,           \* the trace holds events the checkpoint does not count
    lock,           \* who holds the run lock
    live,           \* the runner: its step and its local state
    cmd,            \* the recover or cancel command
    sent,           \* history: the operations that left the host
    open,           \* history: the outcome of the last is not on record
    stale,          \* history: the desktop moved since it was last observed
    ending          \* history: how the runner left

disk == <<checkpoint, wal, torn>>
history == <<sent, open, stale, ending>>
vars == <<disk, lock, live, cmd, history>>

LiveSteps ==
    {"absent", "created", "discover", "loop", "write", "intent", "sending",
     "asking", "finish", "call", "authorize", "approval", "execute", "prepare",
     "waiting", "settle", "replan", "closing", "gone"}

CmdSteps ==
    {"idle", "plan", "intent", "intended", "send", "reply", "completed",
     "finalize", "delete", "cancel", "cancelled"}

NotRunning ==
    [pc |-> "absent", run |-> FreshRun, outer |-> FreshRun,
     at |-> Boundary("none", "none"), news |-> <<>>, calls |-> <<>>,
     grounded |-> FALSE, dying |-> FALSE]

NoCommand == [pc |-> "idle", action |-> "none", seen |-> NoWal]

Init ==
    /\ checkpoint = Absent
    /\ wal = NoWal
    /\ torn = FALSE
    /\ lock = "free"
    /\ live = NotRunning
    /\ cmd = NoCommand
    /\ sent = <<>>
    /\ open = FALSE
    /\ stale = FALSE
    /\ ending = "none"

-----------------------------------------------------------------------------
(* What the runner's steps have in common.                                 *)
At(pc) == live.pc = pc

Goto(pc) == live' = [live EXCEPT !.pc = pc]

Record(phase, r) ==
    /\ Accepts(checkpoint, phase, r)
    /\ checkpoint' = Recorded(checkpoint, phase, r)
    /\ UNCHANGED <<wal, torn, lock, cmd, sent, open, ending>>

Charged(r, budget) == [r EXCEPT !.used[budget] = @ + 1]
WithEvents(r, n) == [r EXCEPT !.events = @ + n]

(* The checkpoint moves to the next sequence, then the boundary is written *)
(* under that sequence: two files, so a crash leaves them apart.           *)
AdvanceTo(l, boundary, news) ==
    /\ checkpoint' = Sequenced(checkpoint, l.run)
    /\ live' = [l EXCEPT !.pc = "write", !.at = boundary, !.news = news]
    /\ UNCHANGED <<wal, torn, lock, cmd>>

Terminate_KeepsLock(phase, r, how) ==
    /\ checkpoint' = IF Accepts(checkpoint, phase, r)
                     THEN Recorded(checkpoint, phase, r) ELSE checkpoint
    /\ lock' = IF how = "success" THEN lock ELSE "free"
    /\ live' = [NotRunning EXCEPT !.pc = "closing"]
    /\ ending' = how
    /\ UNCHANGED <<wal, torn, cmd, sent, open, stale>>

(* The handlers of run() record the last phase if the recorder accepts it, *)
(* and its finally block gives the lock back before anything else.         *)
Terminate(phase, r, how) ==
    /\ checkpoint' = IF Accepts(checkpoint, phase, r)
                     THEN Recorded(checkpoint, phase, r) ELSE checkpoint
    /\ lock' = "free"
    /\ live' = [NotRunning EXCEPT !.pc = "closing"]
    /\ ending' = how
    /\ UNCHANGED <<wal, torn, cmd, sent, open, stale>>

Fail(r) == Terminate("FAILED", r, "failure")

-----------------------------------------------------------------------------
(* prepare and RunRecorder.start, or attach_initial for resume_initial.    *)
Start ==
    /\ At("absent")
    /\ lock = "free"
    /\ checkpoint = Absent
    /\ checkpoint' = Recorded(checkpoint, "CREATED", FreshRun)
    /\ lock' = "run"
    /\ Goto("created")
    /\ UNCHANGED <<wal, torn, cmd, history>>

Resume ==
    /\ At("gone")
    /\ lock = "free"
    /\ ResumeAllowed(checkpoint)
    /\ ~torn
    /\ lock' = "run"
    /\ live' = [NotRunning EXCEPT !.pc = "created"]
    /\ ending' = "none"
    /\ UNCHANGED <<disk, cmd, sent, open, stale>>

Observe ==
    /\ At("created")
    /\ Record("OBSERVING", live.run)
    /\ Goto("discover")
    /\ UNCHANGED stale

Discover ==
    /\ At("discover")
    /\ Record("PLANNING", live.run)
    /\ Goto("loop")
    /\ UNCHANGED stale

-----------------------------------------------------------------------------
(* One provider turn: three boundaries around one request.                 *)
BeginTurn ==
    /\ At("loop")
    /\ live.run.used.turns < MaxTurns
    /\ AdvanceTo(live, Boundary("provider", "prepared"), <<>>)
    /\ UNCHANGED history

AfterWrite_SkipsIntent(at, calls) ==
    CASE at.stage \in {"prepared", "dispatch_intent"} -> "sending"
      [] at.stage = "completed" /\ at.kind = "provider" ->
            IF calls = <<>> THEN "finish" ELSE "call"
      [] at.stage = "completed" /\ at.kind = "tool" -> "settle"

AfterWrite(at, calls) ==
    CASE at.stage = "prepared" -> "intent"
      [] at.stage = "dispatch_intent" -> "sending"
      [] at.stage = "completed" /\ at.kind = "provider" ->
            IF calls = <<>> THEN "finish" ELSE "call"
      [] at.stage = "completed" /\ at.kind = "tool" -> "settle"

(* RuntimeContinuationRecorder._write: the whole envelope is replaced.     *)
WriteBoundary ==
    /\ At("write")
    /\ wal' = [seq |-> checkpoint.seq, ledger |-> Folded(wal.ledger, live.news),
               used |-> live.run.used, verified |-> live.run.verified,
               at |-> live.at]
    /\ Goto(AfterWrite(live.at, live.calls))
    /\ open' = (open /\ ~(live.at.stage = "completed"
                            /\ live.run.recovery # "unknown_outcome"))
    /\ UNCHANGED <<checkpoint, torn, lock, cmd, sent, stale, ending>>

Intend ==
    /\ At("intent")
    /\ AdvanceTo(live, [live.at EXCEPT !.stage = "dispatch_intent"], <<>>)
    /\ UNCHANGED history

(* The request leaves the host.  A call is named by its turn and, counted  *)
(* from the end, its place in it; a recovery only takes up single calls.   *)
(* The look that must follow an action is named by the turn of the action, *)
(* where recovery.py puts the sequence: a second look would be a repeat.   *)
Leaves(kind, turns, place, effect, who) ==
    /\ sent' = Append(sent,
            [op |-> IF kind = "provider" THEN <<"turn", turns + 1>>
                    ELSE IF kind = "mandatory" THEN <<"reobserve", turns>>
                    ELSE <<"call", turns, place>>,
             effect |-> effect, by |-> who])
    /\ open' = TRUE
    /\ UNCHANGED <<stale, ending>>

(* create_turn or call_tool is entered and hands the request over.         *)
Send ==
    /\ At("sending")
    /\ Leaves(live.at.kind, live.run.used.turns, Len(live.calls),
              IF live.at.kind = "provider" THEN "provider" ELSE Head(live.calls), "run")
    /\ Goto(IF live.at.kind = "provider" THEN "asking" ELSE "waiting")
    /\ UNCHANGED <<disk, lock, cmd>>

Serial(calls) == Len(calls) > 1 => ~HasAct(calls)

Answer(calls) ==
    /\ At("asking")
    /\ Serial(calls)
    /\ LET r == WithEvents(Charged(live.run, "turns"), 1)
       IN  AdvanceTo([live EXCEPT !.run = r, !.outer = r, !.calls = calls],
                     Boundary("provider", "completed"), <<TurnEvent(calls)>>)
    /\ UNCHANGED history

(* The tools cannot be discovered, a budget or the context is exhausted,   *)
(* the provider fails, times out or returns a turn that is not accepted.   *)
FailTurn ==
    /\ live.pc \in {"discover", "loop", "sending", "asking"}
    /\ At("sending") => live.at.kind = "provider"
    /\ Fail(live.run)

Finish_Unverified ==
    /\ At("finish")
    /\ Terminate("SUCCESS", live.run, "success")

(* A final text, refused while the last action has not been verified.      *)
Finish ==
    /\ At("finish")
    /\ live.run.recovery # "requires_reobservation"
    /\ Terminate("SUCCESS", live.run, "success")

FailFinish ==
    /\ At("finish")
    /\ Fail(live.run)

-----------------------------------------------------------------------------
(* _execute_requested_call_boundary: one call of the turn.  A failure      *)
(* inside it carries the boundary's own state; run() still holds `outer`,  *)
(* the state from before the call.                                         *)
Call == Head(live.calls)

EnterCall_OffByOne ==
    /\ At("call")
    /\ live.run.used.calls <= MaxCalls
    /\ live' = [live EXCEPT !.pc = "authorize",
                            !.run = WithEvents(Charged(@, "calls"), 1)]
    /\ UNCHANGED <<disk, lock, cmd, history>>

EnterCall ==
    /\ At("call")
    /\ live.run.used.calls < MaxCalls
    /\ live' = [live EXCEPT !.pc = "authorize",
                            !.run = WithEvents(Charged(@, "calls"), 1)]
    /\ UNCHANGED <<disk, lock, cmd, history>>

(* The budget is used up, or arguments or privacy forbid the call.         *)
RefuseCall ==
    /\ At("call")
    /\ Fail(live.run)

(* What an action needs before it may be asked for: a fresh observation it *)
(* is grounded in, and enough budget left to verify it afterwards.         *)
Permitted ==
    /\ live.run.recovery # "requires_reobservation"
    /\ live.grounded
    /\ live.run.used.acts < MaxActs
    /\ live.run.used.turns < MaxTurns
    /\ live.run.used.calls < MaxCalls

AllowObservation ==
    /\ At("authorize")
    /\ Call = "observation"
    /\ Goto("execute")
    /\ UNCHANGED <<disk, lock, cmd, history>>

ChargedAct_Free(r) == WithEvents(r, 1)

(* _record_policy_decision and _consume_side_effect.                       *)
ChargedAct(r) == WithEvents(Charged(r, "acts"), 1)

\* high_risk_only: the host's policy allows a low-risk action by itself.
AllowAct ==
    /\ At("authorize")
    /\ Call = "side_effect"
    /\ Permitted
    /\ live' = [live EXCEPT !.pc = "execute", !.run = ChargedAct(@)]
    /\ UNCHANGED <<disk, lock, cmd, history>>

AskApproval ==
    /\ At("authorize")
    /\ Call = "side_effect"
    /\ Permitted
    /\ Record("WAITING_APPROVAL", live.run)
    /\ Goto("approval")
    /\ UNCHANGED stale

(* Denied by policy, ungrounded, unverified or without budget.             *)
DenyCall ==
    /\ At("authorize")
    /\ Fail(WithEvents(live.run, 1))

Approve ==
    /\ At("approval")
    /\ Record("WAITING_APPROVAL", WithEvents(live.run, 1))
    /\ live' = [live EXCEPT !.pc = "execute", !.run = ChargedAct(@)]
    /\ UNCHANGED stale

(* Denied, taken over, answered by another decision than the one asked     *)
(* for, or the grounding is gone when the decision arrives.                *)
Disapprove ==
    /\ At("approval")
    /\ \E n \in 1..2 : Fail(WithEvents(live.run, n))

(* The operator wants a new look first: the rest of the turn is abandoned. *)
Reobserve ==
    /\ At("approval")
    /\ LET r == [WithEvents(live.run, 2) EXCEPT !.verified = FALSE,
                    !.recovery = "requires_reobservation"]
       IN  /\ Record("PLANNING", r)
           /\ live' = [live EXCEPT !.pc = "loop", !.run = r, !.outer = r,
                                   !.calls = <<>>, !.grounded = FALSE]
    /\ stale' = TRUE

Defer ==
    /\ At("approval")
    /\ Terminate("PAUSED",
                 [WithEvents(live.run, 2) EXCEPT !.recovery = "stopped"], "failure")

Execute ==
    /\ At("execute")
    /\ Record("EXECUTING", live.run)
    /\ Goto("prepare")
    /\ UNCHANGED stale

Prepare ==
    /\ At("prepare")
    /\ AdvanceTo(live, Boundary("tool", "prepared"), <<CallEvent(Call)>>)
    /\ UNCHANGED history

(* _record_result.                                                         *)
RecordResult(r, effect, outcome) ==
    [WithEvents(r, IF Seen(effect, outcome) THEN 2 ELSE 1)
        EXCEPT !.recovery = StatusAfter(effect, outcome, @),
               !.verified = VerifiedAfter(effect, outcome, @)]

CompleteCall(outcome, dying) ==
    /\ AdvanceTo([live EXCEPT !.run = RecordResult(@, Call, outcome),
                              !.grounded = VerifiedAfter(Call, outcome, @),
                              !.dying = dying],
                 Boundary("tool", "completed"), <<ResultEvent(outcome)>>)
    /\ UNCHANGED <<sent, open, ending>>

(* The session is gone or not verified: the call never reaches the SDK.    *)
NotEntered ==
    /\ At("sending")
    /\ live.at.kind = "tool"
    /\ CompleteCall("rejected", FALSE)
    /\ UNCHANGED stale

(* The desktop after a result: looked at, or changed since.  A rejected    *)
(* action did nothing; after a takeover the human did.                     *)
StaleAfter(effect, outcome) ==
    CASE effect = "observation" -> stale /\ outcome # "ok"
      [] effect = "side_effect" -> stale \/ outcome # "rejected"

(* A timeout or a cancellation after the dispatch has an unknown outcome.  *)
Return(outcome, dying) ==
    /\ At("waiting")
    /\ dying => outcome = "unknown"
    /\ outcome = "yielded" => Call = "side_effect"
    /\ CompleteCall(outcome, dying)
    /\ stale' = StaleAfter(Call, outcome)

(* The call cannot be handed over, or its result is not one of this call   *)
(* or may not be kept: whether it was made is then not known.              *)
RefuseResult ==
    /\ At("waiting") \/ (At("sending") /\ live.at.kind = "tool")
    /\ \/ Terminate("UNKNOWN_OUTCOME", live.run, "failure")
       \/ Fail(live.run)

SettledPhase ==
    IF Seen(Call, live.news[1].outcome) THEN "OBSERVING"
    ELSE IF Call = "side_effect" /\ live.news[1].outcome \notin NotDispatched
    THEN "VERIFYING" ELSE "PLANNING"

Unknown == live.run.recovery = "unknown_outcome"

EndUnknown ==
    Terminate("UNKNOWN_OUTCOME", live.run, IF live.dying THEN "cancel" ELSE "failure")

Settle ==
    /\ At("settle")
    /\ ~Unknown
    /\ Record(SettledPhase, live.run)
    /\ Goto("replan")
    /\ UNCHANGED stale

SettleUnknown ==
    /\ At("settle")
    /\ Unknown
    /\ EndUnknown

Replan ==
    /\ At("replan")
    /\ Record("PLANNING", live.run)
    /\ live' = [live EXCEPT !.pc = IF Tail(live.calls) = <<>> THEN "loop" ELSE "call",
                            !.calls = Tail(@), !.outer = live.run]
    /\ UNCHANGED stale

-----------------------------------------------------------------------------
(* The continuation cannot be written.  Before the dispatch the call is    *)
(* recorded as rejected; after it, an outcome that is known only to the    *)
(* boundary is lost with the boundary's state.                             *)
WriteFails ==
    /\ At("write")
    /\ CASE live.at.kind = "provider" -> Fail(live.run)
         [] live.at.kind = "tool" /\ live.at.stage # "completed" ->
                Fail(WithEvents(live.run, 1))
         [] live.at.kind = "tool" /\ live.at.stage = "completed" ->
                IF Unknown THEN EndUnknown
                ELSE Terminate("FAILED", live.outer, "error")

(* The recorder itself fails: run() leaves with the TraceError, perhaps    *)
(* after the events reached the trace.                                     *)
Records == {"created", "discover", "loop", "intent", "asking", "authorize",
            "approval", "execute", "prepare", "waiting", "settle", "replan",
            "finish"}

Tears == torn' \in BOOLEAN /\ (torn' => live.run.events > checkpoint.events)

Leave(how) ==
    /\ lock' = "free"
    /\ Tears
    /\ live' = [NotRunning EXCEPT !.pc = "closing"]
    /\ ending' = how
    /\ UNCHANGED <<checkpoint, wal, cmd, sent, open, stale>>

RecordFails ==
    /\ live.pc \in Records
    /\ Leave("error")

(* The task is cancelled where it waits (with a result in hand: for the    *)
(* redaction of its images): the handler of run() records `outer`.         *)
Cancel ==
    /\ \/ live.pc \in {"discover", "sending", "asking", "finish", "approval"}
       \/ At("waiting") /\ Call = "observation"
    /\ Terminate("CANCELLED", live.outer, "cancel")

(* The tail of run(), after the lock is free.                              *)
DeleteWal ==
    /\ At("closing")
    /\ wal' = NoWal
    /\ Goto("gone")
    /\ UNCHANGED <<checkpoint, torn, lock, cmd, history>>

(* The process dies; whoever comes next recovers its stale lock.           *)
Crash ==
    /\ live.pc \notin {"absent", "gone"}
    /\ live' = [NotRunning EXCEPT !.pc = "gone"]
    /\ IF At("closing")
       THEN UNCHANGED <<torn, lock, ending>>
       ELSE /\ Tears
            /\ lock' = "free"
            /\ ending' = "crash"
    /\ UNCHANGED <<checkpoint, wal, cmd, sent, open, stale>>

-----------------------------------------------------------------------------
(* `recover`: one or more read-only steps under the run lock.  Before each *)
(* write _current compares both files with what was read last.             *)
BeginRecover ==
    /\ cmd.pc = "idle"
    /\ lock = "free"
    /\ wal # NoWal
    /\ lock' = "recover"
    /\ cmd' = [cmd EXCEPT !.pc = "plan"]
    /\ UNCHANGED <<disk, live, history>>

Stops ==
    /\ cmd' = NoCommand
    /\ lock' = "free"

RecoverPlan ==
    /\ cmd.pc = "plan"
    /\ LET action == Plan(checkpoint, wal)
       IN  IF wal # NoWal /\ action \in Executable \cup Finalizing
           THEN /\ cmd' = [pc |-> IF action \in Finalizing THEN "finalize" ELSE "intent",
                           action |-> action, seen |-> wal]
                /\ UNCHANGED lock
           ELSE Stops
    /\ UNCHANGED <<disk, live, history>>

Current == wal = cmd.seen /\ checkpoint.seq = cmd.seen.seq

IntentWal ==
    /\ cmd.pc = "intent"
    /\ Current
    /\ wal' = Intended(wal, cmd.action)
    /\ cmd' = [cmd EXCEPT !.pc = "intended", !.seen = wal']
    /\ UNCHANGED <<checkpoint, torn, lock, live, history>>

IntentCheckpoint ==
    /\ cmd.pc = "intended"
    /\ Advanceable(checkpoint, cmd.seen.seq - 1)
    /\ checkpoint' = Advanced(checkpoint, IntentPhase(cmd.action), cmd.seen.used,
                              IntentStatus(cmd.action, checkpoint.recovery),
                              cmd.seen.verified)
    /\ cmd' = [cmd EXCEPT !.pc = "send"]
    /\ UNCHANGED <<wal, torn, lock, live, history>>

RecoverSend ==
    /\ cmd.pc = "send"
    /\ LET w == cmd.seen
       IN  Leaves(IF w.ledger.mandatory THEN "mandatory" ELSE w.at.kind, w.used.turns, 1,
                  IF w.at.kind = "provider" THEN "provider" ELSE w.ledger.effect, "recover")
    /\ cmd' = [cmd EXCEPT !.pc = "reply"]
    /\ UNCHANGED <<disk, lock, live>>

CompletionWal(w) ==
    /\ cmd.pc = "reply"
    /\ Current
    /\ wal' = w
    /\ cmd' = [cmd EXCEPT !.pc = "completed", !.seen = w]
    /\ UNCHANGED <<checkpoint, torn, lock, live, sent, ending>>

RecoveredResult(outcome) ==
    /\ cmd.action # "continue_provider"
    /\ CompletionWal(CompletedCall(cmd.seen, outcome))
    /\ open' = (outcome = "unknown")
    /\ stale' = StaleAfter("observation", outcome)

\* Only observation tools are offered to a recovered provider.
RecoveredTurn(calls) ==
    /\ cmd.action = "continue_provider"
    /\ ~HasAct(calls)
    /\ CompletionWal(CompletedTurn(cmd.seen, calls))
    /\ open' = FALSE
    /\ UNCHANGED stale

CompletionCheckpoint ==
    /\ cmd.pc = "completed"
    /\ Advanceable(checkpoint, cmd.seen.seq - 1)
    /\ LET recovery == CompletionStatus(cmd.action, cmd.seen, checkpoint.recovery)
           final == cmd.action = "continue_provider"
                        /\ cmd.seen.ledger.asked = <<>>
       IN  /\ checkpoint' = Advanced(checkpoint, CompletionPhase(cmd.action, recovery),
                                     cmd.seen.used, recovery, cmd.seen.verified)
           /\ \/ /\ final
                 /\ cmd' = [cmd EXCEPT !.pc = "finalize", !.action = "finalize_success"]
                 /\ UNCHANGED lock
              \/ /\ ~final
                 /\ recovery \notin {"unknown_outcome", "stopped"}
                 /\ cmd' = [NoCommand EXCEPT !.pc = "plan"]
                 /\ UNCHANGED lock
              \/ ~final /\ Stops
    /\ UNCHANGED <<wal, torn, live, history>>

FinalizeRun ==
    /\ cmd.pc = "finalize"
    /\ Current
    /\ Plan(checkpoint, wal) = cmd.action
    /\ CASE cmd.action = "finalize_success" ->
                /\ MaySucceed(checkpoint, wal.seq)
                /\ checkpoint' = Succeeded(checkpoint)
         [] cmd.action = "finalize_blocked" ->
                /\ MayBlock(checkpoint, wal.seq)
                /\ checkpoint' = Blocked(checkpoint)
    /\ cmd' = [cmd EXCEPT !.pc = "delete"]
    /\ UNCHANGED <<wal, torn, lock, live, history>>

FinalizeDelete ==
    /\ cmd.pc = "delete"
    /\ wal' = NoWal
    /\ Stops
    /\ UNCHANGED <<checkpoint, torn, live, history>>

(* `cancel`: the continuation is deleted first, then the checkpoint closed. *)
BeginCancel ==
    /\ cmd.pc = "idle"
    /\ lock = "free"
    /\ Cancellable(checkpoint)
    /\ ~torn
    /\ lock' = "cancel"
    /\ cmd' = [cmd EXCEPT !.pc = "cancel"]
    /\ UNCHANGED <<disk, live, history>>

CancelDelete ==
    /\ cmd.pc = "cancel"
    /\ wal' = NoWal
    /\ cmd' = [cmd EXCEPT !.pc = "cancelled"]
    /\ UNCHANGED <<checkpoint, torn, lock, live, history>>

CancelRecord ==
    /\ cmd.pc = "cancelled"
    /\ checkpoint' = Cancelled(checkpoint)
    /\ Stops
    /\ UNCHANGED <<wal, torn, live, history>>

(* A refusal, an error or the death of the command's process.              *)
CommandStops ==
    /\ cmd.pc # "idle"
    /\ Stops
    /\ UNCHANGED <<disk, live, history>>

-----------------------------------------------------------------------------
LiveStep ==
    \/ Observe \/ Discover \/ BeginTurn \/ WriteBoundary \/ Intend \/ Send
    \/ \E calls \in Turns : Answer(calls)
    \/ Finish \/ FailFinish \/ FailTurn
    \/ EnterCall \/ RefuseCall \/ AllowObservation \/ AllowAct \/ AskApproval
    \/ DenyCall \/ Approve \/ Disapprove \/ Reobserve \/ Defer
    \/ Execute \/ Prepare \/ NotEntered
    \/ \E outcome \in Outcomes, dying \in BOOLEAN : Return(outcome, dying)
    \/ RefuseResult \/ Settle \/ SettleUnknown \/ Replan

CommandStep ==
    \/ RecoverPlan \/ IntentWal \/ IntentCheckpoint \/ RecoverSend
    \/ \E outcome \in Outcomes \ {"yielded"} : RecoveredResult(outcome)
    \/ \E calls \in Turns : RecoveredTurn(calls)
    \/ CompletionCheckpoint \/ FinalizeRun \/ FinalizeDelete
    \/ CancelDelete \/ CancelRecord \/ CommandStops

Next ==
    \/ Start \/ Resume \/ LiveStep \/ DeleteWal
    \/ WriteFails \/ RecordFails \/ Cancel \/ Crash
    \/ BeginRecover \/ BeginCancel \/ CommandStep

Spec == Init /\ [][Next]_vars

(* A process that runs takes its steps: provider and desktop calls are     *)
(* under a timeout, and the operator answers an approval card.             *)
FairSpec == Spec /\ WF_vars(LiveStep) /\ WF_vars(CommandStep)

-----------------------------------------------------------------------------
Actions ==
    {"none", "refuse", "fail_closed", "start_new_run", "human_reobserve"}
        \cup Executable \cup Finalizing

Operations ==
    ({"turn", "reobserve"} \X Nat) \cup ({"call"} \X Nat \X Nat)

Requests ==
    [op : Operations, effect : Effects \cup {"provider", "none"},
     by : {"run", "recover"}]

Runners ==
    [pc : LiveSteps, run : RunStates, outer : RunStates, at : Boundaries,
     news : Seq(Events), calls : Seq(Effects), grounded : BOOLEAN, dying : BOOLEAN]

(* Every field stays within its range; in the checkpoint, the continuation *)
(* and the runner every budget stays within its limit.                     *)
TypeOK ==
    /\ checkpoint \in Checkpoints
    /\ wal \in Continuations
    /\ torn \in BOOLEAN
    /\ lock \in {"free", "run", "recover", "cancel"}
    /\ live \in Runners
    /\ cmd \in [pc : CmdSteps, action : Actions, seen : Continuations]
    /\ sent \in Seq(Requests)
    /\ open \in BOOLEAN
    /\ stale \in BOOLEAN
    /\ ending \in {"none", "success", "failure", "error", "cancel", "crash"}

Running == live.pc \notin {"absent", "closing", "gone"}

\* A step of a tool call that lies before its dispatch.
Undispatched ==
    \/ live.pc \in {"approval", "execute", "prepare"}
    \/ /\ live.pc \in {"write", "intent", "sending"}
       /\ live.at.kind = "tool"
       /\ live.at.stage # "completed"

\* A step of a provider turn that lies before its answer.
Unanswered ==
    \/ live.pc = "asking"
    \/ /\ live.pc \in {"write", "intent", "sending"}
       /\ live.at.kind = "provider"
       /\ live.at.stage # "completed"

InCall ==
    \/ live.pc \in {"call", "authorize", "waiting", "settle", "replan"}
    \/ Undispatched
    \/ live.pc = "write" /\ live.at.kind = "tool"

(* The runner and the commands exclude each other, and what runs has not   *)
(* ended: neither a runner nor a cancellation is about a terminal run.     *)
LockInv ==
    /\ Running => lock = "run" /\ checkpoint.phase \notin Terminal
    /\ cmd.pc # "idle" => lock \in {"recover", "cancel"}
    /\ cmd.pc \in {"cancel", "cancelled"} => checkpoint.phase \notin Terminal

(* Where the runner is, its boundary, its turn and its budgets agree.      *)
StepInv ==
    /\ live.pc \in {"write", "intent", "sending"} =>
        live.at.kind # "none" /\ live.at.stage # "none"
    /\ live.pc \in {"intent", "sending"} => live.at.stage # "completed"
    /\ Unanswered => live.run.used.turns < MaxTurns
    /\ live.pc = "approval" => live.run.used.acts < MaxActs
    /\ InCall => live.calls # <<>>

(* Grounding is knowledge: a runner that is grounded has seen the desktop  *)
(* as it is, and an action that is not dispatched yet is grounded.         *)
GroundingInv ==
    /\ live.grounded => Running /\ ~stale
    /\ Undispatched /\ Call = "side_effect" => live.grounded

(* A ledger that is closed ends with a turn.                               *)
LedgerInv(f) == f.closed => f.effect = "none"

(* What a recovery read justifies what it is about to do.                  *)
CommandInv ==
    /\ wal.at.stage = "none" => wal = NoWal
    /\ LedgerInv(wal.ledger) /\ LedgerInv(cmd.seen.ledger)
    /\ cmd.pc = "intent" =>
        /\ cmd.seen.at.stage # "none"
        /\ cmd.action = ClassifyStage(cmd.seen.at, cmd.seen.ledger)
        /\ Affordable(cmd.action, cmd.seen.at, cmd.seen.used)
        /\ cmd.seen.ledger.valid
        /\ cmd.seen.ledger.recovery \notin {"unknown_outcome", "stopped"}
    /\ cmd.pc \in {"intent", "intended", "send", "reply"} =>
        /\ cmd.action \in Executable
        /\ cmd.action = "continue_provider" => cmd.seen.used.turns < MaxTurns
    /\ cmd.pc \in {"intended", "send"} =>
        cmd.seen.at.kind = "provider" \/ cmd.seen.ledger.effect # "side_effect"
    /\ cmd.pc = "finalize" => cmd.action \in Finalizing

(* The inductive invariant of the proofs: the lock decides who may move    *)
(* the checkpoint, and the runner's step, its budgets, its grounding and   *)
(* what a recovery has read justify the next request.                      *)
RunInv == LockInv /\ StepInv /\ GroundingInv /\ CommandInv

(* No request has been made yet for the run.                               *)
Fresh == wal = NoWal /\ sent = <<>> /\ ~open /\ ~stale

\* The runner prepares, sends or awaits an operation of this kind.
About(kind) == live.pc \in {"write", "intent", "sending"} /\ live.at.kind = kind

\* The step of a call from its dispatch on record to its result on record.
Dispatching == live.pc \in {"prepare", "waiting", "settle"} \/ About("tool")

(* The phase on record follows the runner's step, and nothing has been     *)
(* requested as long as the run may still be started from its checkpoint.  *)
PhaseInv ==
    /\ At("absent") => checkpoint = Absent /\ live = NotRunning /\ cmd.pc = "idle"
    /\ At("absent") \/ ResumeAllowed(checkpoint) => Fresh
    /\ live.pc \in {"created", "discover"} => Fresh /\ live.run = FreshRun
    /\ live.pc \in {"loop", "asking", "finish", "call", "authorize"} \/ About("provider") =>
        checkpoint.phase = "PLANNING"
    /\ At("approval") => checkpoint.phase = "WAITING_APPROVAL"
    /\ Dispatching => checkpoint.phase = "EXECUTING"
    /\ Running => checkpoint.phase # "PAUSED" /\ checkpoint.seq > 0
    /\ checkpoint.phase = "PAUSED" => checkpoint.recovery = "stopped"

(* What the runner holds is ahead of what is on record, and the state from *)
(* before a call is behind it as soon as the call is asked for.            *)
EventsInv ==
    /\ Running =>
        /\ checkpoint.events <= live.run.events
        /\ checkpoint.used.calls <= live.run.used.calls
        /\ checkpoint.used.acts <= live.run.used.acts
        /\ live.outer.events > 0
    /\ live.pc \in {"created", "discover", "loop", "asking", "finish", "call"}
            \/ About("provider") => live.outer = live.run
    /\ live.pc \in {"authorize", "execute", "replan"} => live.outer.events < live.run.events
    /\ At("approval") \/ Dispatching => live.outer.events < checkpoint.events

(* Nothing in the continuation may be continued: it is gone, it ends in a  *)
(* dispatch, or its ledger is broken or records an uncertain outcome.      *)
Barred(w) ==
    \/ w = NoWal
    \/ w.at.stage = "dispatch_intent"
    \/ ~w.ledger.valid
    \/ w.ledger.recovery \in {"unknown_outcome", "stopped"}

(* The boundary on disk is the one before the runner's, and an operation   *)
(* is out only behind a boundary that bars a recovery.                     *)
AheadInv ==
    /\ Running => wal.seq <= checkpoint.seq
    /\ At("write") =>
        /\ wal.seq < checkpoint.seq
        /\ live.at.stage = "prepared" => wal.at.stage \in {"none", "completed"}
        /\ live.at.stage = "dispatch_intent" => wal.at.stage = "prepared"
        /\ live.at.stage = "completed" => wal.at.stage = "dispatch_intent"
    /\ At("intent") => live.at.stage = "prepared" /\ wal.at.stage = "prepared"
    /\ At("sending") => live.at.stage = "dispatch_intent"
    /\ live.pc \in {"sending", "asking", "waiting"} => wal.at.stage = "dispatch_intent"
    /\ live.pc \in {"loop", "finish", "call", "authorize", "approval", "execute",
                    "prepare", "settle", "replan"} => wal.at.stage \in {"none", "completed"}
    /\ Running /\ live.run.recovery \in {"unknown_outcome", "stopped"} =>
        /\ live.run.recovery = "unknown_outcome"
        /\ \/ At("settle")
           \/ /\ At("write") /\ live.at = Boundary("tool", "completed")
              /\ live.news = <<ResultEvent("unknown")>>
    /\ open =>
        /\ Barred(wal)
        /\ Running => \/ live.pc \in {"asking", "waiting"}
                      \/ At("write") /\ live.at.stage = "completed"
                      \/ At("settle") /\ live.run.recovery = "unknown_outcome"

Count(S) == Cardinality({i \in DOMAIN sent : sent[i].effect \in S})

CallsSent == Count(Effects)
ActsSent == Count({"side_effect"})

\* The budget covers what was sent, and one request of these effects more.
Covers(used, effects) ==
    /\ CallsSent + (IF effects = {} THEN 0 ELSE 1) <= used.calls
    /\ ActsSent + (IF "side_effect" \in effects THEN 1 ELSE 0) <= used.acts

(* What is sent is paid for on record, and a call that is asked for or     *)
(* prepared has been charged before it is sent.                            *)
ChargeInv ==
    /\ Covers(checkpoint.used, {})
    /\ live.pc \in {"authorize", "approval"} => Covers(live.run.used, {"observation"})
    /\ live.pc \in {"execute", "prepare"} => Covers(live.run.used, {Call})
    /\ About("tool") /\ live.at.stage # "completed" => Covers(checkpoint.used, {Call})
    /\ wal.at = Boundary("tool", "prepared") /\ wal.seq = checkpoint.seq =>
        Covers(checkpoint.used, {"observation"})

(* What a recovery has read, and what it has written, covers what it is    *)
(* about to send, and nothing is out when it sends.                        *)
RecoverInv ==
    /\ cmd.pc = "cancelled" => wal = NoWal
    /\ cmd.pc \in {"intended", "send", "reply", "completed"} => wal \in {cmd.seen, NoWal}
    /\ cmd.pc \in {"intended", "send", "reply"} => cmd.seen.at.stage = "dispatch_intent"
    /\ cmd.pc = "completed" => cmd.seen.at.stage = "completed"
    /\ cmd.pc \in {"intent", "intended", "send"} \/ (cmd.pc = "completed"
                                /\ cmd.action = "continue_provider") => ~open
    /\ cmd.pc \in {"intent", "intended"} =>
        /\ checkpoint.recovery \notin {"unknown_outcome", "stopped"}
        /\ checkpoint.used.calls <= cmd.seen.used.calls
        /\ checkpoint.used.acts = cmd.seen.used.acts
    /\ cmd.pc = "intent" =>
        /\ checkpoint.used = cmd.seen.used
        /\ cmd.seen.at.stage = "prepared" => Covers(cmd.seen.used, {"observation"})
    /\ cmd.pc \in {"intended", "send"} /\ cmd.seen.at.kind # "provider" =>
        Covers(cmd.seen.used, {"observation"})
    /\ cmd.pc \in {"send", "reply", "completed"} =>
        /\ checkpoint.phase \in {"PLANNING", "EXECUTING", "VERIFYING"}
        /\ checkpoint.used.calls = cmd.seen.used.calls
        /\ checkpoint.used.acts = cmd.seen.used.acts

\* A ledger nothing is concluded from any more.
Lost(w) == w = NoWal \/ ~w.ledger.valid

(* A desktop that has moved is on record as not observed, or no recovery   *)
(* can close the run as a success.                                         *)
StaleInv ==
    /\ stale =>
        /\ Running => live.run.recovery # "ready" /\ checkpoint.recovery # "ready"
        /\ \/ checkpoint.recovery # "ready"
           \/ checkpoint.phase \in Terminal
           \/ Lost(wal)
    /\ cmd.pc = "completed" /\ cmd.action # "continue_provider"
        /\ cmd.seen.ledger.outcome = "ok" => ~stale \/ Lost(cmd.seen)

(* The inductive invariant about the records: with RunInv it says what the *)
(* checkpoint and the continuation hold at every step of the runner and    *)
(* of a recovery, so that a crash between two writes is covered as well.   *)
RecordInv ==
    PhaseInv /\ EventsInv /\ AheadInv /\ ChargeInv /\ RecoverInv /\ StaleInv

\* The names of what has been sent.
Made == {sent[i].op : i \in DOMAIN sent}

\* No request, or no call, of turn n or of a later turn has been sent.
Before(kind, n) == \A op \in Made : op[1] = kind => op[2] < n

\* Nor any of the last k calls of turn n.
Untouched(n, k) == \A op \in Made : op[1] = "call" /\ op[2] = n => op[3] > k

NoLook == \A op \in Made : op[1] # "reobserve"

\* Places a call may have in a turn.
Places == {1} \cup UNION {DOMAIN calls : calls \in Turns}

\* The calls of the runner's turn that are still to be sent.
Left ==
    IF \/ live.pc \in {"waiting", "settle", "replan"}
       \/ At("write") /\ live.at = Boundary("tool", "completed")
    THEN Tail(live.calls) ELSE live.calls

(* The ledger event the runner writes with a boundary.                     *)
NewsInv ==
    At("write") =>
        \/ live.news = <<>> /\ live.at \in {Boundary("provider", "prepared"),
                Boundary("provider", "dispatch_intent"), Boundary("tool", "dispatch_intent")}
        \/ live.news = <<TurnEvent(live.calls)>> /\ live.at = Boundary("provider", "completed")
        \/ live.news = <<CallEvent(Call)>> /\ live.at = Boundary("tool", "prepared")
        \/ /\ live.at = Boundary("tool", "completed")
           /\ \E outcome \in Outcomes : live.news = <<ResultEvent(outcome)>>

(* What the runner is about to send has not been sent.                     *)
RunnerNames ==
    Running =>
        /\ NoLook /\ ~wal.ledger.mandatory
        /\ Before("turn", live.run.used.turns + (IF At("asking") THEN 2 ELSE 1))
        /\ Before("call", live.run.used.turns
                + (IF At("write") /\ live.at = Boundary("provider", "completed") THEN 0 ELSE 1))
        /\ Untouched(live.run.used.turns, Len(Left))
        /\ live.calls # <<>> => Len(live.calls) \in Places
        /\ NewsInv

(* Nor has what a continuation that may be continued still asks for.       *)
Continuable(w) ==
    /\ NoLook /\ ~w.ledger.mandatory
    /\ Before("turn", w.used.turns + 1)
    /\ Before("call", w.used.turns + (IF w.at = Boundary("provider", "completed") THEN 0 ELSE 1))
    /\ w.at = Boundary("tool", "prepared") => Untouched(w.used.turns, 1)
    /\ w.at.kind # "provider" => ~w.ledger.closed

(* Nor what a recovery has put on record to send.                          *)
CommandNames ==
    /\ cmd.pc \in {"intended", "send", "reply"} =>
        /\ cmd.seen.at.kind = IF cmd.action = "continue_provider" THEN "provider" ELSE "tool"
        /\ cmd.seen.at.kind = "provider" => ~cmd.seen.ledger.mandatory
        /\ Before("turn", cmd.seen.used.turns
                + (IF cmd.pc = "reply" /\ cmd.seen.at.kind = "provider" THEN 2 ELSE 1))
        /\ Before("call", cmd.seen.used.turns + 1)
        /\ NoLook \/ (cmd.pc = "reply" /\ cmd.seen.ledger.mandatory)
    /\ cmd.pc \in {"intended", "send"} /\ cmd.seen.at.kind = "tool"
            /\ ~cmd.seen.ledger.mandatory => Untouched(cmd.seen.used.turns, 1)
    /\ cmd.pc = "reply" => open

(* The inductive invariant about the names of the operations: whoever is   *)
(* about to send one, or may be after a crash, sends it for the first time. *)
NamesInv ==
    RunnerNames /\ (~Barred(wal) => Continuable(wal)) /\ CommandNames

(* The continuation is written ahead: while an operation is out, or its    *)
(* outcome was never put on record, whoever reads the files after a crash  *)
(* finds nothing in them that may be continued or closed as a success.     *)
WriteAhead == open => Plan(checkpoint, wal) \notin Executable \cup Finalizing

(* A recovery never sends an action to the desktop, whatever the           *)
(* interrupted run had prepared, been allowed or been asked to do.         *)
RecoveredReadOnly ==
    \A i \in DOMAIN sent : sent[i].by = "recover" => sent[i].effect # "side_effect"

(* Whatever left the host had been charged in the durable checkpoint       *)
(* before: a crash gives no tool call and no action back to the budget.    *)
ChargedBeforeSent ==
    /\ CallsSent <= checkpoint.used.calls
    /\ ActsSent <= checkpoint.used.acts

(* A run is a success, by its runner or by recovery, only when every       *)
(* operation has an outcome on record and the desktop has been observed    *)
(* since it last changed.                                                  *)
SuccessIsCertain == checkpoint.phase = "SUCCESS" => ~open /\ ~stale

(* A run that ends by itself leaves a checkpoint that says so: no run is   *)
(* over and on record as still planning, executing or verifying.           *)
FailureRecorded ==
    At("closing") /\ ending \in {"success", "failure"} =>
        checkpoint.phase \in Terminal \cup {"PAUSED"}

(* A run that is cancelled leaves a checkpoint that says so.               *)
CancellationRecorded ==
    At("closing") /\ ending = "cancel" =>
        checkpoint.phase \in {"CANCELLED", "UNKNOWN_OUTCOME"}

(* No action leaves the host unless the desktop has been observed since    *)
(* the last action, the last takeover and the operator's last demand.      *)
ActsOnSeenDesktop ==
    [][\A i \in DOMAIN sent' \ DOMAIN sent :
            sent'[i].effect = "side_effect" => ~stale]_vars

(* The last phase of a run is final: neither its runner nor a command      *)
(* rewrites a terminal checkpoint.                                         *)
TerminalIsFinal ==
    [][checkpoint.phase \in Terminal => checkpoint' = checkpoint]_checkpoint

(* One operation at a time, none twice, and nothing after an operation     *)
(* whose outcome is not on record, across the runner and its recoveries.   *)
Log == INSTANCE OperationLog WITH
    Operation <- (({"turn"} \X (1..MaxTurns))
                    \cup ({"call"} \X (0..MaxTurns) \X Places)
                    \cup ({"reobserve"} \X (0..MaxTurns))),
    issued <- [i \in DOMAIN sent |-> sent[i].op],
    settled <- ~open

ImplementsLog == Log!LogSpec

(* Nobody keeps the run lock for ever.                                     *)
LockReleased == (lock # "free") ~> (lock = "free")

(* What the run checks of every state, and the proofs show: a Runner owns  *)
(* the run it works for and knows what it has seen, and no recovery acts.  *)
RunSafe == TypeOK /\ RunInv /\ RecordInv /\ NamesInv /\ RecoveredReadOnly

(* What it checks of the records: what is out is on record and paid for    *)
(* before it is sent, and the last phase says what came of it.             *)
RecordsTruthful ==
    WriteAhead /\ ChargedBeforeSent /\ SuccessIsCertain /\ FailureRecorded

(* What it checks of every step, and the proofs show.                      *)
StepsSafe == ActsOnSeenDesktop /\ TerminalIsFinal
=============================================================================
