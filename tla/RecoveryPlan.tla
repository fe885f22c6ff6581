---------------------------- MODULE RecoveryPlan ----------------------------
(***************************************************************************)
(* The write-ahead continuation of a run (continuation.py) and what a      *)
(* recovery may do with it (reconstruction.py, recovery.py): the ledger is *)
(* folded, compared with the boundary, the budget and the checkpoint, and  *)
(* the last durable boundary decides on at most one read-only step.        *)
(*                                                                         *)
(* A ledger event is a model turn with the effects of its calls, a tool    *)
(* call, or a result.  The append-only ledger is kept as what the fold     *)
(* makes of it.  Identities, digests and provider state are left out:      *)
(* every writer in src/ derives them from the ledger itself.               *)
(***************************************************************************)
EXTENDS Naturals, Sequences

(***************************************************************************)
(* The checkpoint of one run (trace.py): the phase machine, the recorder   *)
(* that appends events and replaces state.json, and the four functions     *)
(* other commands use to move a run's checkpoint.  A run state carries the *)
(* number of its events, the budgets it used, its recovery status and      *)
(* whether it holds a verified observation (verified_observation_epoch is  *)
(* None or the current epoch).  A checkpoint is a run state with a phase   *)
(* and a sequence.                                                         *)
(***************************************************************************)
CONSTANTS
    MaxTurns,       \* policy.max_model_turns
    MaxCalls,       \* policy.max_tool_calls
    MaxActs         \* policy.max_side_effects

ASSUME BudgetAssumption == MaxTurns \in Nat /\ MaxCalls \in Nat /\ MaxActs \in Nat

Terminal == {"SUCCESS", "FAILED", "UNKNOWN_OUTCOME", "CANCELLED"}

Transitions ==
    [CREATED          |-> {"OBSERVING", "FAILED", "CANCELLED"},
     OBSERVING        |-> {"PLANNING", "FAILED", "UNKNOWN_OUTCOME", "CANCELLED"},
     PLANNING         |-> {"WAITING_APPROVAL", "PAUSED", "EXECUTING", "SUCCESS",
                           "FAILED", "CANCELLED"},
     WAITING_APPROVAL |-> {"PLANNING", "EXECUTING", "PAUSED", "FAILED", "CANCELLED"},
     PAUSED           |-> {"OBSERVING", "FAILED", "UNKNOWN_OUTCOME", "CANCELLED"},
     EXECUTING        |-> {"OBSERVING", "PLANNING", "VERIFYING", "FAILED",
                           "UNKNOWN_OUTCOME", "CANCELLED"},
     VERIFYING        |-> {"PLANNING", "SUCCESS", "FAILED", "UNKNOWN_OUTCOME",
                           "CANCELLED"}]

Phases == DOMAIN Transitions \cup Terminal

Statuses == {"ready", "requires_reobservation", "unknown_outcome", "stopped"}

Budgets == [turns : 0 .. MaxTurns, calls : 0 .. MaxCalls, acts : 0 .. MaxActs]

Unused == [turns |-> 0, calls |-> 0, acts |-> 0]

RunStates ==
    [events : Nat, used : Budgets, recovery : Statuses, verified : BOOLEAN]

Checkpoints ==
    [phase : Phases, seq : Nat, events : Nat, used : Budgets,
     recovery : Statuses, verified : BOOLEAN]

\* The state prepare() builds: the user task is the only event.
FreshRun == [events |-> 1, used |-> Unused, recovery |-> "ready", verified |-> FALSE]

\* A run state in a phase: the checkpoint _checkpoint writes.
Checkpoint(phase, seq, r) ==
    [phase |-> phase, seq |-> seq, events |-> r.events, used |-> r.used,
     recovery |-> r.recovery, verified |-> r.verified]

\* No state.json yet; the recorder of such a run is in CREATED at sequence 0.
Absent == Checkpoint("CREATED", 0, [FreshRun EXCEPT !.events = 0])

MayBecome_NotUnknownFromExecuting(p, q) ==
    /\ p \notin Terminal
    /\ q \in Transitions[p]
    /\ p = "EXECUTING" => q # "UNKNOWN_OUTCOME"

MayBecome(p, q) == p \notin Terminal /\ q \in Transitions[p]

-----------------------------------------------------------------------------
(* RunRecorder.record: refused for a phase that may not follow the one on  *)
(* record and for an event log shorter than the recorded one.              *)
Accepts(c, phase, r) ==
    /\ phase = c.phase \/ MayBecome(c.phase, phase)
    /\ c.events <= r.events

Recorded(c, phase, r) == Checkpoint(phase, IF c.seq = 0 THEN 1 ELSE c.seq, r)

\* The same with advance_checkpoint_sequence, which keeps the phase.
Sequenced(c, r) == Checkpoint(c.phase, c.seq + 1, r)

-----------------------------------------------------------------------------
(* classify_run_recovery allows resume_initial: no external work yet.      *)
ResumeAllowed(c) ==
    /\ c.seq > 0
    /\ c.phase \in {"CREATED", "OBSERVING"}
    /\ c.events = 1
    /\ c.used = Unused
    /\ c.recovery = "ready"
    /\ ~c.verified

(* cancel_run_record, after read_run_record has found the trace complete.  *)
Cancellable(c) == c.seq > 0 /\ c.phase \notin Terminal

Cancelled(c) == [c EXCEPT !.phase = "CANCELLED", !.seq = @ + 1]

Advanceable_AnyPhase(c, seq) == c.seq = seq

(* advance_recovery_checkpoint compares the sequence it read and refuses a *)
(* terminal run; it does not consult the phase machine.                    *)
Advanceable(c, seq) == c.seq = seq /\ c.phase \notin Terminal

Advanced(c, phase, used, recovery, verified) ==
    [c EXCEPT !.phase = phase, !.seq = @ + 1, !.used = used,
              !.recovery = recovery, !.verified = verified]

(* finalize_recovery_success and finalize_recovery_blocked_action.         *)
MaySucceed(c, seq) == c.seq = seq /\ c.phase = "PLANNING" /\ c.recovery = "ready"

Succeeded(c) == [c EXCEPT !.phase = "SUCCESS", !.seq = @ + 1]

MayBlock(c, seq) == c.seq = seq /\ c.phase = "PLANNING"

Blocked(c) ==
    [c EXCEPT !.phase = "FAILED", !.seq = @ + 1, !.recovery = "stopped"]

-----------------------------------------------------------------------------
Effects == {"observation", "side_effect"}

(* What a call came to: SUCCESS, ACTION_ERROR, rejected or lost before the *)
(* dispatch, rejected because a human is active or a gate denied it, and   *)
(* UNKNOWN_OUTCOME.                                                        *)
Outcomes == {"ok", "error", "rejected", "yielded", "unknown"}

NotDispatched == {"rejected", "yielded"}

HasAct(calls) == \E i \in DOMAIN calls : calls[i] = "side_effect"

TurnEvent(calls) == [type |-> "turn", calls |-> calls]
CallEvent(effect) == [type |-> "call", effect |-> effect, mandatory |-> FALSE]
MandatoryCall ==
    [type |-> "call", effect |-> "observation", mandatory |-> TRUE]
ResultEvent(outcome) == [type |-> "result", outcome |-> outcome]

Boundary(kind, stage) == [kind |-> kind, stage |-> stage]

Events ==
    [type : {"turn"}, calls : Seq(Effects)]
        \cup [type : {"call"}, effect : Effects, mandatory : BOOLEAN]
        \cup [type : {"result"}, outcome : Outcomes]

Boundaries ==
    [kind : {"none", "provider", "tool"},
     stage : {"none", "prepared", "dispatch_intent", "completed"}]

Unsettles_ByDispatch(effect, outcome) ==
    effect = "side_effect" /\ outcome \notin NotDispatched

(* A result after which the old observation says nothing about the desktop *)
(* any more: the action was dispatched, or a human took over.              *)
Unsettles(effect, outcome) == effect = "side_effect" /\ outcome # "rejected"

-----------------------------------------------------------------------------
(* _fold_recovery_ledger and _fold_budget.                                 *)
EmptyLedger ==
    [valid |-> TRUE, closed |-> FALSE, recovery |-> "ready", verified |-> FALSE,
     used |-> Unused,
     asked |-> <<>>,            \* the calls of the last turn
     awaiting |-> <<>>,         \* those no tool_call event has taken up
     effect |-> "none", mandatory |-> FALSE,    \* of the last tool_call
     pending |-> FALSE,         \* it has no result
     outcome |-> "none"]        \* the last result

Ledgers ==
    [valid : BOOLEAN, closed : BOOLEAN, recovery : Statuses, verified : BOOLEAN,
     used : [turns : Nat, calls : Nat, acts : Nat],
     asked : Seq(Effects), awaiting : Seq(Effects),
     effect : Effects \cup {"none"}, mandatory : BOOLEAN, pending : BOOLEAN,
     outcome : Outcomes \cup {"none"}]

Continuations ==
    [seq : Nat, ledger : Ledgers, used : Budgets, verified : BOOLEAN,
     at : Boundaries]

TurnSpent(used) == [used EXCEPT !.turns = @ + 1]

CallSpent(used, effect) ==
    [used EXCEPT !.calls = @ + 1,
                 !.acts = IF effect = "side_effect" THEN @ + 1 ELSE @]

FoldTurn(f, e) ==
    [f EXCEPT !.valid = f.awaiting = <<>> /\ ~f.pending,
              !.used = TurnSpent(@),
              !.asked = e.calls, !.awaiting = e.calls,
              !.effect = "none", !.mandatory = FALSE,
              !.closed = \/ e.calls = <<>>
                         \/ Len(e.calls) > 1 /\ HasAct(e.calls)]

FoldCall(f, e) ==
    [f EXCEPT !.valid = /\ ~f.pending
                        /\ IF f.awaiting = <<>>
                           THEN e.mandatory /\ f.effect = "side_effect"
                           ELSE Head(f.awaiting) = e.effect,
              !.awaiting = IF @ = <<>> THEN @ ELSE Tail(@),
              !.pending = TRUE, !.effect = e.effect, !.mandatory = e.mandatory,
              !.used = CallSpent(@, e.effect),
              !.recovery = IF e.mandatory THEN "requires_reobservation" ELSE @,
              !.verified = @ /\ ~e.mandatory]

(* _record_result of the runner and the tool_result case of the fold give  *)
(* a result the same meaning.                                              *)
Seen(effect, outcome) == effect = "observation" /\ outcome = "ok"

StatusAfter(effect, outcome, recovery) ==
    IF outcome = "unknown" THEN "unknown_outcome"
    ELSE IF Seen(effect, outcome) THEN "ready"
    ELSE IF Unsettles(effect, outcome) THEN "requires_reobservation"
    ELSE recovery

VerifiedAfter(effect, outcome, verified) ==
    Seen(effect, outcome) \/ (verified /\ ~Unsettles(effect, outcome))

FoldResult(f, e) ==
    [f EXCEPT !.valid = f.pending, !.pending = FALSE, !.outcome = e.outcome,
              !.verified = VerifiedAfter(f.effect, e.outcome, @),
              !.recovery = IF f.mandatory /\ e.outcome # "unknown" THEN "stopped"
                           ELSE StatusAfter(f.effect, e.outcome, @)]

FoldEvent(f, e) ==
    IF ~f.valid \/ f.closed \/ f.recovery \in {"unknown_outcome", "stopped"}
    THEN [f EXCEPT !.valid = FALSE]
    ELSE IF e.type = "turn" THEN FoldTurn(f, e)
    ELSE IF e.type = "call" THEN FoldCall(f, e)
    ELSE FoldResult(f, e)

Folded(ledger, news) == IF news = <<>> THEN ledger ELSE FoldEvent(ledger, Head(news))

\* No continuation.json.
NoWal == [seq |-> 0, ledger |-> EmptyLedger, used |-> Unused, verified |-> FALSE,
          at |-> Boundary("none", "none")]

-----------------------------------------------------------------------------
(* _validated_recovery_topology and the two observation checks of          *)
(* plan_read_only_recovery: a continuation the recovery code will read.    *)
(* Of a turn with several observations only the uncertain ones are         *)
(* accepted, because the rest of the turn could not be continued.          *)
SingleOrUncertain(f, at) ==
    Len(f.asked) > 1 /\ ~HasAct(f.asked) =>
        \/ at.stage = "dispatch_intent"
        \/ at.kind = "tool" /\ at.stage = "completed" /\ f.outcome = "unknown"
        \/ at.kind = "provider" /\ at.stage = "prepared"

Readable(w) ==
    LET f == w.ledger
    IN  /\ w # NoWal
        /\ f.valid
        /\ SingleOrUncertain(f, w.at)
        /\ w.verified => f.verified

(* _checkpoint_status_preserves_ledger.                                    *)
Preserves(ledger, recovery) ==
    CASE ledger = "ready" -> TRUE
      [] ledger = "requires_reobservation" -> recovery # "ready"
      [] ledger = "unknown_outcome" -> recovery = "unknown_outcome"
      [] ledger = "stopped" -> recovery \in {"stopped", "unknown_outcome"}

(* identity_matches, for the fields a run can change.                      *)
Matches(c, w) ==
    LET f == w.ledger
    IN  /\ f.used = w.used
        /\ c.used = w.used
        /\ c.verified = w.verified
        /\ Preserves(f.recovery, c.recovery)
        /\ c.recovery = "requires_reobservation" => ~w.verified
        /\ w.verified = f.verified \/ (c.recovery # "ready" /\ ~w.verified)

-----------------------------------------------------------------------------
ClassifyStage_AnyPrepared(at, f) ==
    CASE at.stage = "dispatch_intent" -> "human_reobserve"
      [] at.stage = "prepared" ->
            IF at.kind = "tool" THEN "dispatch_observation" ELSE "start_new_run"
      [] at.stage = "completed" ->
            IF at.kind = "provider"
            THEN IF f.asked = <<>> THEN "finalize_success"
                 ELSE IF HasAct(f.asked) THEN "finalize_blocked"
                 ELSE "dispatch_observation"
            ELSE IF f.outcome = "unknown" THEN "human_reobserve"
            ELSE IF f.effect = "observation" THEN "continue_provider"
            ELSE "mandatory_reobserve"

ClassifyStage_Reissue(at, f) ==
    CASE at.stage \in {"prepared", "dispatch_intent"} ->
            IF at.kind = "tool" /\ f.effect = "observation"
            THEN "dispatch_observation" ELSE "start_new_run"
      [] at.stage = "completed" ->
            IF at.kind = "provider"
            THEN IF f.asked = <<>> THEN "finalize_success"
                 ELSE IF HasAct(f.asked) THEN "finalize_blocked"
                 ELSE "dispatch_observation"
            ELSE IF f.outcome = "unknown" THEN "human_reobserve"
            ELSE IF f.effect = "observation" THEN "continue_provider"
            ELSE "mandatory_reobserve"

(* classify_operation_state, for a boundary that is current and trusted.   *)
ClassifyStage(at, f) ==
    CASE at.stage = "dispatch_intent" -> "human_reobserve"
      [] at.stage = "prepared" ->
            IF at.kind = "tool" /\ f.effect = "observation"
            THEN "dispatch_observation" ELSE "start_new_run"
      [] at.stage = "completed" ->
            IF at.kind = "provider"
            THEN IF f.asked = <<>> THEN "finalize_success"
                 ELSE IF HasAct(f.asked) THEN "finalize_blocked"
                 ELSE "dispatch_observation"
            ELSE IF f.outcome = "unknown" THEN "human_reobserve"
            ELSE IF f.effect = "observation" THEN "continue_provider"
            ELSE "mandatory_reobserve"

(* _recovery_budget_available: a prepared call is already paid for.        *)
Affordable(action, at, used) ==
    /\ action = "continue_provider" => used.turns < MaxTurns
    /\ action \in {"dispatch_observation", "mandatory_reobserve"} =>
        IF at.stage = "prepared" THEN used.calls <= MaxCalls
                                 ELSE used.calls < MaxCalls

(* What the checkpoint's own status forbids, whatever the boundary says.   *)
Overridden(c, w, f) ==
    \/ c.recovery = "stopped"
    \/ c.recovery = "requires_reobservation" /\ f.closed
          /\ f.asked = <<>>

(* plan_read_only_recovery.                                                *)
Plan(c, w) ==
    LET f == w.ledger
        action == ClassifyStage(w.at, f)
    IN  IF ~Readable(w) THEN "refuse"
        ELSE IF ~Matches(c, w) THEN "start_new_run"
        ELSE IF c.seq # w.seq THEN "fail_closed"
        ELSE IF c.recovery = "unknown_outcome" THEN "human_reobserve"
        ELSE IF Overridden(c, w, f) THEN "start_new_run"
        ELSE IF ~Affordable(action, w.at, w.used) THEN "start_new_run"
        ELSE action

Executable == {"dispatch_observation", "mandatory_reobserve", "continue_provider"}

Finalizing == {"finalize_success", "finalize_blocked"}

-----------------------------------------------------------------------------
(* LockedRecoveryPersistence: the continuation a step writes before its    *)
(* I/O and after it, and the checkpoint fields that go with each.          *)
(* commit_intent: only a call that was not prepared yet is charged.        *)
Intended(w, action) ==
    LET event == IF action = "mandatory_reobserve" THEN MandatoryCall
                 ELSE CallEvent(w.ledger.asked[1])
        charged == action # "continue_provider" /\ w.at.stage # "prepared"
    IN  [seq |-> w.seq + 1,
         ledger |-> IF charged THEN FoldEvent(w.ledger, event) ELSE w.ledger,
         used |-> IF charged THEN [w.used EXCEPT !.calls = @ + 1] ELSE w.used,
         verified |-> w.verified /\ action # "mandatory_reobserve",
         at |-> Boundary(IF action = "continue_provider" THEN "provider" ELSE "tool",
                         "dispatch_intent")]

IntentPhase(action) ==
    CASE action = "continue_provider" -> "PLANNING"
      [] action = "dispatch_observation" -> "EXECUTING"
      [] action = "mandatory_reobserve" -> "VERIFYING"

IntentStatus(action, recovery) ==
    IF action = "mandatory_reobserve" THEN "requires_reobservation" ELSE recovery

(* commit_completion, for a model turn and for a tool result.              *)
CompletedTurn(w, calls) ==
    [w EXCEPT !.seq = @ + 1, !.ledger = FoldEvent(@, TurnEvent(calls)),
              !.used = TurnSpent(@), !.at = Boundary(@.kind, "completed")]

CompletedCall(w, outcome) ==
    [w EXCEPT !.seq = @ + 1, !.ledger = FoldEvent(@, ResultEvent(outcome)),
              !.verified = @ \/ outcome = "ok", !.at = Boundary(@.kind, "completed")]

CompletionPhase(action, recovery) ==
    IF recovery = "unknown_outcome" THEN "UNKNOWN_OUTCOME"
    ELSE IF action = "mandatory_reobserve" THEN "VERIFYING" ELSE "PLANNING"

CompletionStatus(action, w, recovery) ==
    LET outcome == w.ledger.outcome
    IN  IF action = "continue_provider" THEN recovery
        ELSE IF outcome = "unknown" THEN "unknown_outcome"
        ELSE IF action = "mandatory_reobserve" THEN "stopped"
        ELSE IF outcome = "ok" THEN "ready"
        ELSE recovery
=============================================================================
