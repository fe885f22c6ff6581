------------------------- MODULE ContinuedRunProofs -------------------------
(***************************************************************************)
(* Theorems about ContinuedRun, for every budget and every set of turns a  *)
(* provider may return.                                                    *)
(***************************************************************************)
EXTENDS ContinuedRun, TLAPS, FiniteSetTheorems, SequenceTheorems

(* What the runner and the recorder compute has the type of a run state    *)
(* or of a checkpoint.                                                     *)
LEMMA RunStateTypes ==
  ASSUME NEW r \in RunStates, NEW n \in Nat
  PROVE  /\ WithEvents(r, n) \in RunStates
         /\ r.used.turns < MaxTurns => Charged(r, "turns") \in RunStates
         /\ r.used.calls < MaxCalls => Charged(r, "calls") \in RunStates
         /\ r.used.acts < MaxActs => Charged(r, "acts") \in RunStates
BY BudgetAssumption DEF WithEvents, Charged, RunStates, Budgets

(* The state of a new run is a run state.                                  *)
LEMMA FreshTypes == FreshRun \in RunStates
BY BudgetAssumption DEF FreshRun, RunStates, Budgets, Unused, Statuses

(* What the recorder writes is a checkpoint, in the phase it was given.    *)
LEMMA CheckpointTypes ==
  ASSUME NEW c \in Checkpoints, NEW r \in RunStates, NEW phase \in Phases
  PROVE  /\ Recorded(c, phase, r) \in Checkpoints
         /\ Sequenced(c, r) \in Checkpoints
         /\ Recorded(c, phase, r).phase = phase
         /\ Sequenced(c, r).phase = c.phase
BY DEF Recorded, Sequenced, Checkpoint, Checkpoints, RunStates

(* A recorded result leaves a run state.                                   *)
LEMMA ResultTypes ==
  ASSUME NEW r \in RunStates, NEW effect \in Effects, NEW outcome \in Outcomes
  PROVE  RecordResult(r, effect, outcome) \in RunStates
<1>1. StatusAfter(effect, outcome, r.recovery) \in Statuses
  BY DEF StatusAfter, Statuses, RunStates
<1>2. VerifiedAfter(effect, outcome, r.verified) \in BOOLEAN
  BY DEF VerifiedAfter, Seen, Unsettles, RunStates
<1>3. (IF Seen(effect, outcome) THEN 2 ELSE 1) \in Nat
  OBVIOUS
<1> DEFINE s == WithEvents(r, IF Seen(effect, outcome) THEN 2 ELSE 1)
<1>4. s \in RunStates /\ s.recovery = r.recovery /\ s.verified = r.verified
  BY <1>3 DEF WithEvents, RunStates
<1> HIDE DEF s
<1>5. [s EXCEPT !.recovery = StatusAfter(effect, outcome, @),
                !.verified = VerifiedAfter(effect, outcome, @)] \in RunStates
  BY <1>1, <1>2, <1>4 DEF RunStates
<1> QED
  BY <1>5 DEF RecordResult, s

(* A call event moves the folded budget within its type.                   *)
LEMMA SpentTypes ==
  ASSUME NEW u \in [turns : Nat, calls : Nat, acts : Nat], NEW effect \in Effects
  PROVE  CallSpent(u, effect) \in [turns : Nat, calls : Nat, acts : Nat]
<1> DEFINE acts == IF effect = "side_effect" THEN u.acts + 1 ELSE u.acts
           calls == u.calls + 1
<1>1. acts \in Nat /\ calls \in Nat
  OBVIOUS
<1>2. CallSpent(u, effect) = [u EXCEPT !.calls = calls, !.acts = acts]
  BY DEF CallSpent
<1> HIDE DEF acts, calls
<1> QED
  BY <1>1, <1>2

(* The fold keeps the ledger's type, and a closed ledger closed.           *)
LEMMA FoldTypes ==
  ASSUME NEW f \in Ledgers, NEW e \in Events
  PROVE  /\ FoldEvent(f, e) \in Ledgers
         /\ LedgerInv(f) => LedgerInv(FoldEvent(f, e))
<1>1. CASE ~f.valid \/ f.closed \/ f.recovery \in {"unknown_outcome", "stopped"}
  BY <1>1 DEF FoldEvent, Ledgers, LedgerInv
<1>2. CASE /\ ~(~f.valid \/ f.closed \/ f.recovery \in {"unknown_outcome", "stopped"})
           /\ e.type = "turn"
  <2>1. FoldEvent(f, e) = FoldTurn(f, e)
    BY <1>2 DEF FoldEvent
  <2>2. e.calls \in Seq(Effects)
    BY <1>2 DEF Events
  <2> DEFINE used == TurnSpent(f.used)
             valid == f.awaiting = <<>> /\ ~f.pending
             closed == \/ e.calls = <<>>
                       \/ Len(e.calls) > 1 /\ HasAct(e.calls)
             calls == e.calls
  <2>3. /\ used \in [turns : Nat, calls : Nat, acts : Nat]
        /\ valid \in BOOLEAN
        /\ closed \in BOOLEAN
    BY DEF Ledgers, HasAct, TurnSpent
  <2>4. FoldTurn(f, e) = [f EXCEPT !.valid = valid, !.used = used, !.asked = calls,
                                   !.awaiting = calls, !.effect = "none",
                                   !.mandatory = FALSE, !.closed = closed]
    BY DEF FoldTurn
  <2>5. calls \in Seq(Effects)
    BY <2>2
  <2> HIDE DEF used, valid, closed, calls
  <2>6. FoldTurn(f, e) \in Ledgers
    BY <2>3, <2>4, <2>5 DEF Ledgers
  <2>7. FoldTurn(f, e).effect = "none"
    BY <2>4 DEF Ledgers
  <2> QED
    BY <2>1, <2>6, <2>7 DEF LedgerInv
<1>3. CASE /\ ~(~f.valid \/ f.closed \/ f.recovery \in {"unknown_outcome", "stopped"})
           /\ e.type = "call"
  <2>1. FoldEvent(f, e) = FoldCall(f, e)
    BY <1>3 DEF FoldEvent
  <2>2. e.effect \in Effects /\ e.mandatory \in BOOLEAN
    BY <1>3 DEF Events
  <2> DEFINE valid == /\ ~f.pending
                      /\ IF f.awaiting = <<>>
                         THEN e.mandatory /\ f.effect = "side_effect"
                         ELSE Head(f.awaiting) = e.effect
             left == IF f.awaiting = <<>> THEN f.awaiting ELSE Tail(f.awaiting)
             used == CallSpent(f.used, e.effect)
             recovery == IF e.mandatory THEN "requires_reobservation" ELSE f.recovery
             verified == f.verified /\ ~e.mandatory
             effect == e.effect
             mandatory == e.mandatory
  <2>3. FoldCall(f, e) = [f EXCEPT !.valid = valid, !.awaiting = left,
                                   !.pending = TRUE, !.effect = effect,
                                   !.mandatory = mandatory, !.used = used,
                                   !.recovery = recovery, !.verified = verified]
    BY DEF FoldCall
  <2>4. /\ valid \in BOOLEAN
        /\ verified \in BOOLEAN
        /\ effect \in Effects
        /\ mandatory \in BOOLEAN
    BY <2>2
  <2>7. left \in Seq(Effects)
    BY DEF Ledgers
  <2>8. used \in [turns : Nat, calls : Nat, acts : Nat]
    BY <2>2, SpentTypes DEF Ledgers
  <2>9. recovery \in Statuses
    BY DEF Ledgers, Statuses
  <2> HIDE DEF valid, left, used, recovery, verified, effect, mandatory
  <2>5. FoldCall(f, e) \in Ledgers
    BY <2>3, <2>4, <2>7, <2>8, <2>9, ZenonT(60) DEF Ledgers
  <2>6. FoldCall(f, e).closed = f.closed
    BY <2>3 DEF Ledgers
  <2> QED
    BY <1>3, <2>1, <2>5, <2>6 DEF LedgerInv
<1>4. CASE /\ ~(~f.valid \/ f.closed \/ f.recovery \in {"unknown_outcome", "stopped"})
           /\ e.type = "result"
  <2>1. FoldEvent(f, e) = FoldResult(f, e)
    BY <1>4 DEF FoldEvent
  <2>2. e.outcome \in Outcomes
    BY <1>4 DEF Events
  <2> QED
    BY <1>4, <2>1, <2>2, ZenonT(60) DEF FoldResult, VerifiedAfter, StatusAfter, Seen, Unsettles,
                            Ledgers, LedgerInv, Statuses
<1> QED
  BY <1>1, <1>2, <1>3, <1>4 DEF Events

(* The effect a ledger ends with after a call event: that of the call, or  *)
(* none if the ledger was closed.                                          *)
LEMMA FoldCallEffect ==
  ASSUME NEW f \in Ledgers, NEW e \in Events, e.type = "call",
         f.valid, f.recovery \notin {"unknown_outcome", "stopped"}, LedgerInv(f)
  PROVE  FoldEvent(f, e).effect \in {e.effect, "none"}
<1>1. CASE f.closed
  BY <1>1 DEF FoldEvent, Ledgers, LedgerInv
<1>2. CASE ~f.closed
  <2>1. FoldEvent(f, e) = FoldCall(f, e)
    BY <1>2 DEF FoldEvent
  <2> QED
    BY <2>1 DEF FoldCall, Ledgers
<1> QED
  BY <1>1, <1>2

-----------------------------------------------------------------------------
(* A recovery acts only on a plan that was neither overridden nor too      *)
(* expensive, over a ledger that is valid and still open.                  *)
LEMMA PlanExecutable ==
  ASSUME NEW c \in Checkpoints, NEW w \in Continuations,
         Plan(c, w) \in Executable \cup Finalizing
  PROVE  /\ Plan(c, w) = ClassifyStage(w.at, w.ledger)
         /\ Affordable(Plan(c, w), w.at, w.used)
         /\ w.ledger.valid
         /\ w.ledger.recovery \notin {"unknown_outcome", "stopped"}
<1>1. /\ Readable(w) /\ Matches(c, w)
      /\ c.recovery # "unknown_outcome" /\ ~Overridden(c, w, w.ledger)
      /\ Plan(c, w) = ClassifyStage(w.at, w.ledger)
      /\ Affordable(Plan(c, w), w.at, w.used)
  BY DEF Plan, Executable, Finalizing
<1>2. w.ledger.recovery \notin {"unknown_outcome", "stopped"}
  BY <1>1 DEF Matches, Preserves, Overridden, Continuations, Ledgers, Statuses
<1> QED
  BY <1>1, <1>2 DEF Readable

(* The continuation a recovery step writes before its I/O.                 *)
LEMMA IntendedTypes ==
  ASSUME NEW w \in Continuations, NEW action \in Executable,
         action = ClassifyStage(w.at, w.ledger), w.at.stage # "none",
         Affordable(action, w.at, w.used), w.ledger.valid,
         w.ledger.recovery \notin {"unknown_outcome", "stopped"}, LedgerInv(w.ledger)
  PROVE  LET v == Intended(w, action)
         IN  /\ v \in Continuations
             /\ LedgerInv(v.ledger)
             /\ v.at.stage = "dispatch_intent"
             /\ v.at.kind = "provider" \/ v.ledger.effect # "side_effect"
             /\ v.used.turns = w.used.turns
<1> DEFINE f == w.ledger
           v == Intended(w, action)
           event == IF action = "mandatory_reobserve" THEN MandatoryCall
                    ELSE CallEvent(w.ledger.asked[1])
<1>0. /\ f \in Ledgers /\ w.at \in Boundaries /\ w.seq \in Nat
      /\ w.used \in Budgets /\ w.verified \in BOOLEAN
  BY DEF Continuations
<1>1. v = [seq |-> w.seq + 1, ledger |-> v.ledger, used |-> v.used,
           verified |-> v.verified, at |-> v.at]
  BY DEF Intended
<1>2. /\ v.at \in Boundaries
      /\ v.at.stage = "dispatch_intent"
      /\ v.at.kind = IF action = "continue_provider" THEN "provider" ELSE "tool"
      /\ v.verified \in BOOLEAN
  BY <1>0 DEF Intended, Boundary, Boundaries
<1>3. CASE action = "continue_provider" \/ w.at.stage = "prepared"
  <2>1. v.ledger = f /\ v.used = w.used
    BY <1>3 DEF Intended
  <2>2. action = "continue_provider" \/ f.effect = "observation"
    BY <1>3 DEF ClassifyStage, Executable
  <2> QED
    BY <1>0, <1>1, <1>2, <2>1, <2>2 DEF Continuations
<1>4. CASE action # "continue_provider" /\ w.at.stage # "prepared"
  <2>1. v.ledger = FoldEvent(f, event) /\ v.used = [w.used EXCEPT !.calls = @ + 1]
    BY <1>4 DEF Intended
  <2>2. v.used \in Budgets /\ v.used.turns = w.used.turns
    BY <1>0, <1>4, <2>1, BudgetAssumption DEF Budgets, Affordable, Executable
  <2>3. event \in Events /\ event.type = "call" /\ event.effect = "observation"
    <3>1. CASE action = "mandatory_reobserve"
      BY <3>1 DEF MandatoryCall, Events, Effects
    <3>2. CASE action = "dispatch_observation"
      <4>1. /\ f.asked # <<>> /\ ~HasAct(f.asked)
        BY <1>0, <1>4, <3>2 DEF ClassifyStage, Boundaries
      <4>2. f.asked[1] \in Effects /\ 1 \in DOMAIN f.asked
        BY <1>0, <4>1 DEF Ledgers
      <4>3. f.asked[1] = "observation"
        BY <4>1, <4>2 DEF HasAct, Effects
      <4> QED
        BY <3>2, <4>3 DEF CallEvent, Events, Effects
    <3> QED
      BY <1>4, <3>1, <3>2 DEF Executable
  <2>4. v.ledger \in Ledgers /\ LedgerInv(v.ledger)
    BY <1>0, <2>1, <2>3, FoldTypes
  <2>5. v.ledger.effect \in {"observation", "none"}
    BY <1>0, <2>1, <2>3, FoldCallEffect
  <2> QED
    BY <1>0, <1>1, <1>2, <2>2, <2>4, <2>5 DEF Continuations
<1> QED
  BY <1>3, <1>4

(* The continuation a recovery step writes after its I/O.                  *)
LEMMA CompletedTurnTypes ==
  ASSUME NEW w \in Continuations, LedgerInv(w.ledger),
         NEW calls \in Seq(Effects), w.used.turns < MaxTurns
  PROVE  /\ CompletedTurn(w, calls) \in Continuations
         /\ LedgerInv(CompletedTurn(w, calls).ledger)
         /\ CompletedTurn(w, calls).at.stage = "completed"
<1> DEFINE ledger == FoldEvent(w.ledger, TurnEvent(calls))
           used == TurnSpent(w.used)
           seq == w.seq + 1
           at == Boundary(w.at.kind, "completed")
<1>1. TurnEvent(calls) \in Events
  BY DEF TurnEvent, Events
<1>2. ledger \in Ledgers /\ LedgerInv(ledger)
  BY <1>1, FoldTypes DEF Continuations
<1>3. used \in Budgets /\ seq \in Nat
  BY BudgetAssumption DEF Continuations, Budgets, TurnSpent
<1>5. at \in Boundaries /\ at.stage = "completed"
  BY DEF Continuations, Boundaries, Boundary
<1>4. CompletedTurn(w, calls) =
        [w EXCEPT !.seq = seq, !.ledger = ledger, !.used = used, !.at = at]
  BY DEF CompletedTurn
<1> HIDE DEF ledger, used, seq, at
<1> QED
  BY <1>2, <1>3, <1>4, <1>5 DEF Continuations

(* The same for the result of a recovered call.                            *)
LEMMA CompletedCallTypes ==
  ASSUME NEW w \in Continuations, LedgerInv(w.ledger), NEW outcome \in Outcomes
  PROVE  /\ CompletedCall(w, outcome) \in Continuations
         /\ LedgerInv(CompletedCall(w, outcome).ledger)
         /\ CompletedCall(w, outcome).at.stage = "completed"
<1> DEFINE ledger == FoldEvent(w.ledger, ResultEvent(outcome))
           verified == w.verified \/ outcome = "ok"
           seq == w.seq + 1
           at == Boundary(w.at.kind, "completed")
<1>1. ResultEvent(outcome) \in Events
  BY DEF ResultEvent, Events
<1>2. ledger \in Ledgers /\ LedgerInv(ledger)
  BY <1>1, FoldTypes DEF Continuations
<1>3. verified \in BOOLEAN /\ seq \in Nat
  BY DEF Continuations
<1>5. at \in Boundaries /\ at.stage = "completed"
  BY DEF Continuations, Boundaries, Boundary
<1>4. CompletedCall(w, outcome) =
        [w EXCEPT !.seq = seq, !.ledger = ledger, !.verified = verified,
                  !.at = at]
  BY DEF CompletedCall
<1> HIDE DEF ledger, verified, seq, at
<1> QED
  BY <1>2, <1>3, <1>4, <1>5 DEF Continuations

-----------------------------------------------------------------------------
(* The values of an absent continuation, runner and command have their     *)
(* types.                                                                  *)
LEMMA RestTypes ==
  /\ NoWal \in Continuations /\ LedgerInv(NoWal.ledger)
  /\ NotRunning \in Runners
  /\ NoCommand \in [pc : CmdSteps, action : Actions, seen : Continuations]
<1>1. EmptyLedger \in Ledgers
  BY DEF EmptyLedger, Ledgers, Unused, Statuses
<1>2. Unused \in Budgets
  BY BudgetAssumption DEF Unused, Budgets
<1>3. NoWal \in Continuations
  BY <1>1, <1>2 DEF NoWal, Continuations, Boundaries, Boundary
<1>4. LedgerInv(NoWal.ledger)
  BY DEF NoWal, LedgerInv, EmptyLedger
<1>5. NotRunning \in Runners
  BY FreshTypes DEF NotRunning, Runners, LiveSteps, Boundaries, Boundary
<1>6. NoCommand \in [pc : CmdSteps, action : Actions, seen : Continuations]
  BY <1>3 DEF NoCommand, CmdSteps, Actions
<1> QED
  BY <1>3, <1>4, <1>5, <1>6

(* The invariant holds before the run begins.                              *)
LEMMA InitHolds ==
  ASSUME Init
  PROVE  TypeOK /\ RunInv
<1>1. Absent \in Checkpoints /\ Absent.phase = "CREATED"
  BY BudgetAssumption DEF Absent, Checkpoint, Checkpoints, FreshRun, Unused, Budgets,
                          Statuses, Phases, Transitions
<1>2. TypeOK
  <2>1. checkpoint \in Checkpoints /\ wal \in Continuations /\ live \in Runners
    BY <1>1, RestTypes DEF Init
  <2>2. cmd \in [pc : CmdSteps, action : Actions, seen : Continuations]
    BY RestTypes DEF Init
  <2>3. sent \in Seq(Requests)
    BY DEF Init
  <2> QED
    BY <2>1, <2>2, <2>3 DEF Init, TypeOK
<1>3. LockInv
  BY DEF Init, LockInv, Running, NotRunning, NoCommand
<1>4. StepInv /\ GroundingInv
  BY DEF Init, StepInv, GroundingInv, Unanswered, InCall, Undispatched, NotRunning
<1>5. CommandInv
  BY RestTypes DEF Init, CommandInv, NoCommand
<1> QED
  BY <1>2, <1>3, <1>4, <1>5 DEF RunInv

(* A runner that runs holds the lock, so no command is under way.          *)
LEMMA RunsAlone ==
  ASSUME TypeOK, LockInv, Running
  PROVE  lock = "run" /\ cmd.pc = "idle" /\ checkpoint.phase \notin Terminal
BY DEF LockInv

(* Every step that ends the runner's hold on the run.                      *)
LEMMA TerminateStep ==
  ASSUME TypeOK, RunInv, Running, NEW phase \in Phases, NEW r \in RunStates,
         NEW how \in {"success", "failure", "error", "cancel"},
         Terminate(phase, r, how)
  PROVE  TypeOK' /\ RunInv'
<1>1. [NotRunning EXCEPT !.pc = "closing"] \in Runners
  BY RestTypes DEF Runners, LiveSteps
<1>2. checkpoint' \in Checkpoints
  BY CheckpointTypes DEF Terminate, TypeOK
<1>3. TypeOK'
  BY <1>1, <1>2 DEF Terminate, TypeOK
<1>4. LockInv'
  BY RunsAlone DEF Terminate, LockInv, Running, NotRunning, RunInv
<1>5. StepInv' /\ GroundingInv'
  BY DEF Terminate, StepInv, GroundingInv, Unanswered, InCall, Undispatched, NotRunning
<1>6. CommandInv'
  BY DEF Terminate, CommandInv, RunInv
<1> QED
  BY <1>3, <1>4, <1>5, <1>6 DEF RunInv

(* A run is started, or resumed before its first request.                  *)
LEMMA StartSteps ==
  ASSUME TypeOK, RunInv, Start \/ Resume
  PROVE  TypeOK' /\ RunInv'
<1>1. CASE Start
  <2>1. checkpoint' \in Checkpoints /\ checkpoint'.phase = "CREATED"
    BY <1>1, FreshTypes, CheckpointTypes DEF Start, TypeOK, Phases, Transitions
  <2>2. live' \in Runners
    BY <1>1 DEF Start, Goto, TypeOK, Runners, LiveSteps
  <2>3. TypeOK'
    BY <1>1, <2>1, <2>2 DEF Start, TypeOK, history
  <2>4. LockInv'
    BY <1>1, <2>1 DEF Start, LockInv, RunInv, Terminal
  <2>5. StepInv' /\ GroundingInv'
    BY <1>1 DEF Start, Goto, At, TypeOK, Runners, RunInv, StepInv, GroundingInv, Unanswered,
                InCall, Undispatched, Running, history
  <2>6. CommandInv'
    BY <1>1 DEF Start, CommandInv, RunInv
  <2> QED
    BY <2>3, <2>4, <2>5, <2>6 DEF RunInv
<1>2. CASE Resume
  <2>1. live' \in Runners
    BY <1>2, RestTypes DEF Resume, Runners, LiveSteps
  <2>2. TypeOK'
    BY <1>2, <2>1 DEF Resume, TypeOK, disk
  <2>3. LockInv'
    BY <1>2 DEF Resume, LockInv, RunInv, ResumeAllowed, Terminal, disk
  <2>4. StepInv' /\ GroundingInv'
    BY <1>2 DEF Resume, NotRunning, StepInv, GroundingInv, Unanswered, InCall, Undispatched
  <2>5. CommandInv'
    BY <1>2 DEF Resume, CommandInv, RunInv, disk
  <2> QED
    BY <2>2, <2>3, <2>4, <2>5 DEF RunInv
<1> QED
  BY <1>1, <1>2

(* What a step of the runner has to show: the commands' part of the        *)
(* invariant is not touched while the runner holds the lock.               *)
LEMMA RunnerStep ==
  ASSUME TypeOK, RunInv, Running, UNCHANGED <<wal, torn, lock, cmd, ending>>,
         checkpoint' \in Checkpoints, checkpoint'.phase \notin Terminal,
         live' \in Runners, sent' \in Seq(Requests), open' \in BOOLEAN, stale' \in BOOLEAN,
         StepInv', GroundingInv'
  PROVE  TypeOK' /\ RunInv'
<1>1. TypeOK'
  BY DEF TypeOK
<1>2. LockInv'
  BY RunsAlone DEF LockInv, RunInv
<1>3. CommandInv'
  BY DEF CommandInv, RunInv
<1> QED
  BY <1>1, <1>2, <1>3 DEF RunInv

(* A step of the runner that records a phase.                              *)
LEMMA RecordStep ==
  ASSUME TypeOK, RunInv, Running, NEW phase \in Phases \ Terminal, NEW r \in RunStates,
         Record(phase, r), live' \in Runners, stale' \in BOOLEAN,
         StepInv', GroundingInv'
  PROVE  TypeOK' /\ RunInv'
<1>1. checkpoint' \in Checkpoints /\ checkpoint'.phase \notin Terminal
  BY CheckpointTypes DEF Record, TypeOK
<1> QED
  BY <1>1, RunnerStep DEF Record, TypeOK

(* A step of the runner that moves the checkpoint to the next boundary.    *)
LEMMA AdvanceStep ==
  ASSUME TypeOK, RunInv, Running, NEW l \in Runners, NEW boundary \in Boundaries,
         NEW news \in Seq(Events), AdvanceTo(l, boundary, news),
         UNCHANGED <<sent, open, ending>>, stale' \in BOOLEAN,
         StepInv', GroundingInv'
  PROVE  TypeOK' /\ RunInv'
<1>1. checkpoint' \in Checkpoints /\ checkpoint'.phase \notin Terminal
  <2>1. checkpoint \in Checkpoints /\ checkpoint.phase \in Phases /\ l.run \in RunStates
    BY DEF TypeOK, Checkpoints, Runners
  <2> QED
    BY <2>1, RunsAlone, CheckpointTypes DEF AdvanceTo, RunInv
<1>2. live' \in Runners
  BY DEF AdvanceTo, Runners, LiveSteps
<1> QED
  BY <1>1, <1>2, RunnerStep DEF AdvanceTo, TypeOK

\* A step that moves the runner only.
LEMMA LocalStep ==
  ASSUME TypeOK, RunInv, Running, live' \in Runners,
         UNCHANGED <<disk, lock, cmd, history>>, StepInv', GroundingInv'
  PROVE  TypeOK' /\ RunInv'
BY RunsAlone, RunnerStep DEF TypeOK, RunInv, disk, history

(* A step that ends the run as failed.                                     *)
LEMMA FailStep ==
  ASSUME TypeOK, RunInv, Running, NEW r \in RunStates, Fail(r)
  PROVE  TypeOK' /\ RunInv'
BY TerminateStep DEF Fail, Phases, Terminal

-----------------------------------------------------------------------------
(* The steps of a provider turn.                                           *)
LEMMA TurnSteps ==
  ASSUME TypeOK, RunInv,
         \/ Observe \/ Discover \/ BeginTurn \/ Intend
         \/ FailTurn \/ Finish \/ FailFinish
  PROVE  TypeOK' /\ RunInv'
<1> USE DEF At, Goto
<1>0. live \in Runners /\ live.run \in RunStates
  BY DEF TypeOK, Runners
<1>1. CASE Observe
  <2>1. live' \in Runners
    BY <1>1, <1>0 DEF Observe, Runners, LiveSteps
  <2>2. StepInv' /\ GroundingInv'
    BY <1>1, <1>0 DEF Observe, Record, Runners, RunInv, StepInv, GroundingInv, Running,
                      Unanswered, InCall, Undispatched
  <2> QED
    BY <1>1, <1>0, <2>1, <2>2, RecordStep
       DEF Observe, Running, Phases, Transitions, Terminal, TypeOK
<1>2. CASE Discover
  <2>1. live' \in Runners
    BY <1>2, <1>0 DEF Discover, Runners, LiveSteps
  <2>2. StepInv' /\ GroundingInv'
    BY <1>2, <1>0 DEF Discover, Record, Runners, RunInv, StepInv, GroundingInv, Running,
                      Unanswered, InCall, Undispatched
  <2> QED
    BY <1>2, <1>0, <2>1, <2>2, RecordStep
       DEF Discover, Running, Phases, Transitions, Terminal, TypeOK
<1>3. CASE BeginTurn
  <2>1. Boundary("provider", "prepared") \in Boundaries /\ <<>> \in Seq(Events)
    BY DEF Boundary, Boundaries
  <2>2. StepInv' /\ GroundingInv'
    BY <1>3, <1>0 DEF BeginTurn, AdvanceTo, Boundary, Runners, RunInv, StepInv, GroundingInv,
                      Running, Unanswered, InCall, Undispatched, history
  <2> QED
    BY <1>3, <1>0, <2>1, <2>2, AdvanceStep DEF BeginTurn, Running, TypeOK, history
<1>4. CASE Intend
  <2>1. [live.at EXCEPT !.stage = "dispatch_intent"] \in Boundaries /\ <<>> \in Seq(Events)
    BY <1>0 DEF Runners, Boundaries
  <2>2. StepInv' /\ GroundingInv'
    BY <1>4, <1>0 DEF Intend, AdvanceTo, Runners, Boundaries, RunInv, StepInv, GroundingInv,
                      Running, Unanswered, InCall, Undispatched, Call, history
  <2> QED
    BY <1>4, <1>0, <2>1, <2>2, AdvanceStep DEF Intend, Running, TypeOK, history
<1>5. CASE FailTurn
  BY <1>5, <1>0, FailStep DEF FailTurn, Running
<1>6. CASE Finish
  BY <1>6, <1>0, TerminateStep DEF Finish, Running, Phases, Terminal
<1>7. CASE FailFinish
  BY <1>7, <1>0, FailStep DEF FailFinish, Running
<1> QED
  BY <1>1, <1>2, <1>3, <1>4, <1>5, <1>6, <1>7

(* The boundary is written: its ledger is the old one or that with one     *)
(* event more.                                                             *)
LEMMA WriteSteps ==
  ASSUME TypeOK, RunInv, WriteBoundary
  PROVE  TypeOK' /\ RunInv'
<1> USE DEF WriteBoundary, At, Goto
<1>0. /\ live \in Runners /\ live.run \in RunStates /\ live.at \in Boundaries
      /\ live.at.kind # "none" /\ live.at.stage # "none"
  BY DEF TypeOK, Runners, RunInv, StepInv
<1>1. /\ Folded(wal.ledger, live.news) \in Ledgers
      /\ LedgerInv(Folded(wal.ledger, live.news))
  <2>1. wal.ledger \in Ledgers /\ LedgerInv(wal.ledger)
    BY DEF TypeOK, Continuations, RunInv, CommandInv
  <2>2. CASE live.news = <<>>
    BY <2>1, <2>2 DEF Folded
  <2>3. CASE live.news # <<>>
    <3>1. Head(live.news) \in Events
      BY <1>0, <2>3 DEF Runners
    <3> QED
      BY <2>1, <2>3, <3>1, FoldTypes DEF Folded
  <2> QED
    BY <2>2, <2>3
<1>2. /\ wal' \in Continuations
      /\ LedgerInv(wal'.ledger)
      /\ wal'.at.stage # "none"
  BY <1>0, <1>1 DEF TypeOK, Checkpoints, Continuations, RunStates
<1>3. /\ AfterWrite(live.at, live.calls) \in LiveSteps
      /\ live.pc = "write"
      /\ live' = [live EXCEPT !.pc = AfterWrite(live.at, live.calls)]
  BY <1>0 DEF AfterWrite, LiveSteps, Boundaries
<1>4. live' \in Runners
  BY <1>0, <1>3 DEF Runners
<1>5. TypeOK'
  BY <1>2, <1>4 DEF TypeOK
<1>6. LockInv'
  BY <1>3, RunsAlone DEF LockInv, RunInv, Running
<1>7. StepInv'
  BY <1>0, <1>3 DEF AfterWrite, Runners, Boundaries, RunInv, StepInv, Unanswered, InCall, Undispatched
<1>8. GroundingInv'
  BY <1>0, <1>3 DEF AfterWrite, Runners, Boundaries, RunInv, StepInv, GroundingInv, Running,
                    Undispatched, Call
<1>9. CommandInv'
  BY <1>2, <1>3, RunsAlone DEF RunInv, CommandInv, Running, TypeOK
<1> QED
  BY <1>5, <1>6, <1>7, <1>8, <1>9 DEF RunInv

(* A request that is handed over is of its type.                           *)
LEMMA LeavesTypes ==
  ASSUME TypeOK, NEW kind \in {"none", "provider", "tool", "mandatory"}, NEW turns \in Nat,
         NEW place \in Nat, NEW effect \in Effects \cup {"provider", "none"},
         NEW who \in {"run", "recover"}, Leaves(kind, turns, place, effect, who)
  PROVE  sent' \in Seq(Requests) /\ open' \in BOOLEAN
<1> DEFINE op == IF kind = "provider" THEN <<"turn", turns + 1>>
                 ELSE IF kind = "mandatory" THEN <<"reobserve", turns>>
                 ELSE <<"call", turns, place>>
<1>1. op \in Operations
  BY DEF Operations
<1>2. [op |-> op, effect |-> effect, by |-> who] \in Requests
  BY <1>1 DEF Requests
<1> QED
  BY <1>2 DEF Leaves, TypeOK

(* The runner hands a request over.                                        *)
LEMMA SendStep ==
  ASSUME TypeOK, RunInv, Send
  PROVE  TypeOK' /\ RunInv'
<1> USE DEF Send, At, Goto
<1>0. /\ live \in Runners /\ live.run \in RunStates /\ live.at \in Boundaries
      /\ live.calls \in Seq(Effects)
      /\ live.at.kind \in {"provider", "tool"}
  BY DEF TypeOK, Runners, RunInv, StepInv, Boundaries
<1>1. live.at.kind # "provider" => live.calls # <<>> /\ Head(live.calls) \in Effects
  BY <1>0 DEF RunInv, StepInv, InCall, Undispatched
<1>2. Len(live.calls) \in Nat /\ live.run.used.turns \in Nat
  BY <1>0, BudgetAssumption DEF RunStates, Budgets
<1>3. sent' \in Seq(Requests) /\ open' \in BOOLEAN
  BY <1>0, <1>1, <1>2, LeavesTypes
<1>4. live' \in Runners
  BY <1>0 DEF Runners, LiveSteps
<1>5. StepInv' /\ GroundingInv'
  BY <1>0, <1>1 DEF Leaves, Runners, RunInv, StepInv, GroundingInv, Running, Unanswered,
                    InCall, Undispatched
<1> QED
  BY <1>3, <1>4, <1>5, RunnerStep, RunsAlone DEF Leaves, disk, Running, RunInv, TypeOK

(* The provider's turn is accepted.                                        *)
LEMMA AnswerStep ==
  ASSUME TypeOK, RunInv, NEW calls \in Turns, Answer(calls)
  PROVE  TypeOK' /\ RunInv'
<1> DEFINE r == WithEvents(Charged(live.run, "turns"), 1)
           l == [live EXCEPT !.run = r, !.outer = r, !.calls = calls]
           at == Boundary("provider", "completed")
           news == <<TurnEvent(calls)>>
<1> USE DEF At
<1>0. live \in Runners /\ live.run \in RunStates /\ live.run.used.turns < MaxTurns
  BY DEF Answer, TypeOK, Runners, RunInv, StepInv, Unanswered
<1>1. calls \in Seq(Effects)
  BY TurnsAssumption
<1>2. at \in Boundaries /\ at.kind = "provider" /\ at.stage = "completed"
  BY DEF Boundary, Boundaries
<1>3. news \in Seq(Events)
  BY <1>1 DEF TurnEvent, Events
<1>4. r \in RunStates
  BY <1>0, RunStateTypes
<1>5. AdvanceTo(l, at, news) /\ UNCHANGED history
  BY DEF Answer
<1> HIDE DEF r, news, at
<1>6. l \in Runners
  BY <1>0, <1>1, <1>4 DEF Runners
<1>7. live'.pc = "write" /\ live'.at = at /\ live'.grounded = live.grounded
  BY <1>0, <1>5 DEF AdvanceTo, Runners
<1>8. StepInv' /\ GroundingInv'
  BY <1>2, <1>5, <1>7 DEF Answer, RunInv, StepInv, GroundingInv, Running, Unanswered, InCall, Undispatched,
           history
<1> QED
  BY <1>2, <1>3, <1>5, <1>6, <1>8, AdvanceStep DEF Answer, Running, TypeOK, history

-----------------------------------------------------------------------------
(* The steps of a tool call up to its dispatch.                            *)
LEMMA GuardSteps ==
  ASSUME TypeOK, RunInv,
         EnterCall \/ RefuseCall \/ AllowObservation \/ AllowAct \/ DenyCall
  PROVE  TypeOK' /\ RunInv'
<1> USE DEF At, Goto
<1>0. live \in Runners /\ live.run \in RunStates
  BY DEF TypeOK, Runners
<1>1. CASE EnterCall
  <2> DEFINE r == WithEvents(Charged(live.run, "calls"), 1)
  <2>1. r \in RunStates
    BY <1>1, <1>0, RunStateTypes DEF EnterCall
  <2>2. live' = [live EXCEPT !.pc = "authorize", !.run = r] /\ live.pc = "call"
    BY <1>1 DEF EnterCall
  <2> HIDE DEF r
  <2>3. live' \in Runners
    BY <1>0, <2>1, <2>2 DEF Runners, LiveSteps
  <2>4. StepInv' /\ GroundingInv'
    BY <1>1, <1>0, <2>2 DEF EnterCall, Runners, RunInv, StepInv, GroundingInv, Running,
                            Unanswered, InCall, Undispatched, history
  <2> QED
    BY <1>1, <2>2, <2>3, <2>4, LocalStep DEF EnterCall, Running
<1>2. CASE RefuseCall
  BY <1>2, <1>0, FailStep DEF RefuseCall, Running
<1>3. CASE AllowObservation
  <2>1. live' \in Runners
    BY <1>3, <1>0 DEF AllowObservation, Runners, LiveSteps
  <2>2. StepInv' /\ GroundingInv'
    BY <1>3, <1>0 DEF AllowObservation, Runners, RunInv, StepInv, GroundingInv, Running,
                      Unanswered, InCall, Undispatched, Call, history
  <2> QED
    BY <1>3, <2>1, <2>2, LocalStep DEF AllowObservation, Running
<1>4. CASE AllowAct
  <2> DEFINE r == ChargedAct(live.run)
  <2>1. r \in RunStates
    BY <1>4, <1>0, RunStateTypes DEF AllowAct, Permitted, ChargedAct
  <2>2. live' = [live EXCEPT !.pc = "execute", !.run = r] /\ live.pc = "authorize"
    BY <1>4 DEF AllowAct
  <2> HIDE DEF r
  <2>3. live' \in Runners
    BY <1>0, <2>1, <2>2 DEF Runners, LiveSteps
  <2>4. StepInv' /\ GroundingInv'
    BY <1>4, <1>0, <2>2 DEF AllowAct, Permitted, Runners, RunInv, StepInv, GroundingInv,
                            Running, Unanswered, InCall, Undispatched, history
  <2> QED
    BY <1>4, <2>2, <2>3, <2>4, LocalStep DEF AllowAct, Running
<1>5. CASE DenyCall
  BY <1>5, <1>0, FailStep, RunStateTypes DEF DenyCall, Running
<1> QED
  BY <1>1, <1>2, <1>3, <1>4, <1>5

(* The steps around an approval.                                           *)
LEMMA ApprovalSteps ==
  ASSUME TypeOK, RunInv,
         AskApproval \/ Approve \/ Disapprove \/ Reobserve \/ Defer
  PROVE  TypeOK' /\ RunInv'
<1> USE DEF At, Goto
<1>0. live \in Runners /\ live.run \in RunStates
  BY DEF TypeOK, Runners
<1>00. {"WAITING_APPROVAL", "PLANNING", "EXECUTING"} \subseteq Phases \ Terminal
  BY DEF Phases, Transitions, Terminal
<1>1. CASE AskApproval
  <2>1. live' \in Runners
    BY <1>1, <1>0 DEF AskApproval, Runners, LiveSteps
  <2>2. StepInv' /\ GroundingInv'
    BY <1>1, <1>0 DEF AskApproval, Permitted, Runners, RunInv, StepInv, GroundingInv,
                      Running, Unanswered, InCall, Undispatched
  <2> QED
    BY <1>1, <1>0, <1>00, <2>1, <2>2, RecordStep DEF AskApproval, Running, TypeOK
<1>2. CASE Approve
  <2> DEFINE r == ChargedAct(live.run)
             s == WithEvents(live.run, 1)
  <2>1. r \in RunStates /\ s \in RunStates
    BY <1>2, <1>0, RunStateTypes DEF Approve, RunInv, StepInv, ChargedAct
  <2>2. /\ live' = [live EXCEPT !.pc = "execute", !.run = r] /\ live.pc = "approval"
        /\ Record("WAITING_APPROVAL", s)
        /\ UNCHANGED stale
    BY <1>2 DEF Approve
  <2> HIDE DEF r, s
  <2>3. live' \in Runners
    BY <1>0, <2>1, <2>2 DEF Runners, LiveSteps
  <2>4. StepInv' /\ GroundingInv'
    BY <1>0, <2>2 DEF Runners, RunInv, StepInv, GroundingInv, Running, Unanswered, InCall,
                      Undispatched, Call
  <2> QED
    BY <1>00, <2>1, <2>2, <2>3, <2>4, RecordStep DEF Running, TypeOK
<1>3. CASE Disapprove
  BY <1>3, <1>0, FailStep, RunStateTypes DEF Disapprove, Running
<1>4. CASE Reobserve
  <2> DEFINE r == [WithEvents(live.run, 2) EXCEPT !.verified = FALSE,
                        !.recovery = "requires_reobservation"]
  <2>1. r \in RunStates
    <3>1. WithEvents(live.run, 2) \in RunStates
      BY <1>0, RunStateTypes
    <3> QED
      BY <3>1 DEF RunStates, Statuses
  <2>2. /\ live' = [live EXCEPT !.pc = "loop", !.run = r, !.outer = r, !.calls = <<>>,
                                !.grounded = FALSE]
        /\ live.pc = "approval"
        /\ Record("PLANNING", r)
        /\ stale' = TRUE
    BY <1>4 DEF Reobserve
  <2> HIDE DEF r
  <2>3. live' \in Runners
    <3>1. [live EXCEPT !.run = r, !.outer = r] \in Runners
      BY <1>0, <2>1 DEF Runners
    <3>2. <<>> \in Seq(Effects)
      OBVIOUS
    <3> QED
      BY <1>0, <2>1, <2>2, <3>2 DEF Runners, LiveSteps
  <2>4. StepInv' /\ GroundingInv'
    BY <1>0, <2>2 DEF Runners, RunInv, StepInv, GroundingInv, Running, Unanswered, InCall,
                      Undispatched
  <2> QED
    BY <1>00, <2>1, <2>2, <2>3, <2>4, RecordStep DEF Running
<1>5. CASE Defer
  <2> DEFINE r == [WithEvents(live.run, 2) EXCEPT !.recovery = "stopped"]
  <2>1. r \in RunStates
    <3>1. WithEvents(live.run, 2) \in RunStates
      BY <1>0, RunStateTypes
    <3> QED
      BY <3>1 DEF RunStates, Statuses
  <2>2. Terminate("PAUSED", r, "failure") /\ live.pc = "approval"
    BY <1>5 DEF Defer
  <2> HIDE DEF r
  <2> QED
    BY <2>1, <2>2, TerminateStep DEF Running, Phases, Transitions
<1> QED
  BY <1>1, <1>2, <1>3, <1>4, <1>5

(* The dispatch of a call is recorded and prepared.                        *)
LEMMA ExecuteSteps ==
  ASSUME TypeOK, RunInv, Execute \/ Prepare
  PROVE  TypeOK' /\ RunInv'
<1> USE DEF At, Goto
<1>0. live \in Runners /\ live.run \in RunStates
  BY DEF TypeOK, Runners
<1>1. CASE Execute
  <2>1. live' \in Runners
    BY <1>1, <1>0 DEF Execute, Runners, LiveSteps
  <2>2. StepInv' /\ GroundingInv'
    BY <1>1, <1>0 DEF Execute, Record, Runners, RunInv, StepInv, GroundingInv, Running,
                      Unanswered, InCall, Undispatched, Call
  <2> QED
    BY <1>1, <1>0, <2>1, <2>2, RecordStep
       DEF Execute, Running, Phases, Transitions, Terminal, TypeOK
<1>2. CASE Prepare
  <2> DEFINE at == Boundary("tool", "prepared")
             news == <<CallEvent(Call)>>
  <2>1. at \in Boundaries /\ at.kind = "tool" /\ at.stage = "prepared"
    BY DEF Boundary, Boundaries
  <2>2. Call \in Effects
    BY <1>2, <1>0 DEF Prepare, RunInv, StepInv, InCall, Undispatched, Call, Runners
  <2>3. news \in Seq(Events)
    BY <2>2 DEF CallEvent, Events
  <2>4. AdvanceTo(live, at, news) /\ UNCHANGED history /\ live.pc = "prepare"
    BY <1>2 DEF Prepare
  <2> HIDE DEF at, news
  <2>5. live' = [live EXCEPT !.pc = "write", !.at = at, !.news = news]
    BY <2>4 DEF AdvanceTo
  <2>6. StepInv' /\ GroundingInv'
    BY <1>0, <2>1, <2>4, <2>5 DEF Runners, RunInv, StepInv, GroundingInv, Running,
                            Unanswered, InCall, Undispatched, Call, history
  <2> QED
    BY <1>0, <2>1, <2>3, <2>4, <2>6, AdvanceStep DEF Running, TypeOK, history
<1> QED
  BY <1>1, <1>2

-----------------------------------------------------------------------------
(* The result of a call: grounding is kept only by a result after which    *)
(* the desktop is what was seen.                                           *)
LEMMA CompleteStep ==
  ASSUME TypeOK, RunInv, NEW outcome \in Outcomes, NEW dying \in BOOLEAN,
         CompleteCall(outcome, dying),
         live.pc = "waiting" \/ (live.pc = "sending" /\ live.at.kind = "tool"),
         stale' \in BOOLEAN,
         VerifiedAfter(Call, outcome, live.grounded) => ~stale'
  PROVE  TypeOK' /\ RunInv'
<1> DEFINE r == RecordResult(live.run, Call, outcome)
           grounded == VerifiedAfter(Call, outcome, live.grounded)
           l == [live EXCEPT !.run = r, !.grounded = grounded, !.dying = dying]
           at == Boundary("tool", "completed")
           news == <<ResultEvent(outcome)>>
<1>0. live \in Runners /\ live.run \in RunStates /\ live.calls # <<>>
  BY DEF TypeOK, Runners, RunInv, StepInv, InCall, Undispatched
<1>1. Call \in Effects
  BY <1>0 DEF Call, Runners
<1>2. r \in RunStates
  BY <1>0, <1>1, ResultTypes
<1>3. grounded \in BOOLEAN
  BY <1>0 DEF VerifiedAfter, Seen, Unsettles, Runners
<1>4. at \in Boundaries /\ at.kind = "tool" /\ at.stage = "completed"
  BY DEF Boundary, Boundaries
<1>5. news \in Seq(Events)
  BY DEF ResultEvent, Events
<1>6. AdvanceTo(l, at, news) /\ UNCHANGED <<sent, open, ending>>
  BY DEF CompleteCall
<1>7. grounded => ~stale'
  OBVIOUS
<1> HIDE DEF r, grounded, at, news
<1>8. l \in Runners
  BY <1>0, <1>2, <1>3 DEF Runners
<1>9. /\ live'.pc = "write" /\ live'.at = at /\ live'.grounded = grounded
      /\ live'.calls = live.calls
  BY <1>0, <1>6 DEF AdvanceTo, Runners
<1>10. StepInv' /\ GroundingInv'
  BY <1>0, <1>4, <1>7, <1>9 DEF StepInv, GroundingInv, Running, Unanswered, InCall, Undispatched
<1> QED
  BY <1>4, <1>5, <1>6, <1>8, <1>10, AdvanceStep DEF Running

(* A call is not entered, returns, or its result is refused.               *)
LEMMA ResultSteps ==
  ASSUME TypeOK, RunInv,
         \/ NotEntered \/ RefuseResult
         \/ \E outcome \in Outcomes, dying \in BOOLEAN : Return(outcome, dying)
  PROVE  TypeOK' /\ RunInv'
<1> USE DEF At
<1>0. live \in Runners /\ live.run \in RunStates /\ stale \in BOOLEAN
  BY DEF TypeOK, Runners
<1>1. CASE NotEntered
  <2>1. VerifiedAfter(Call, "rejected", live.grounded) => ~stale
    BY DEF VerifiedAfter, Seen, RunInv, GroundingInv
  <2> QED
    BY <1>1, <1>0, <2>1, CompleteStep DEF NotEntered, Outcomes
<1>2. CASE RefuseResult
  BY <1>2, <1>0, FailStep, TerminateStep DEF RefuseResult, Running, Phases, Terminal
<1>3. ASSUME NEW outcome \in Outcomes, NEW dying \in BOOLEAN, Return(outcome, dying)
      PROVE  TypeOK' /\ RunInv'
  <2>1. live.pc = "waiting" /\ CompleteCall(outcome, dying) /\ stale' = StaleAfter(Call, outcome)
    BY <1>3 DEF Return
  <2>2. Call \in Effects
    BY <1>0, <2>1 DEF Call, Runners, RunInv, StepInv, InCall
  <2>3. stale' \in BOOLEAN
    BY <1>0, <2>1, <2>2 DEF StaleAfter, Effects
  <2>4. VerifiedAfter(Call, outcome, live.grounded) => ~stale'
    BY <1>0, <2>1, <2>2 DEF StaleAfter, Effects, VerifiedAfter, Seen, Unsettles, RunInv,
                            GroundingInv
  <2> QED
    BY <2>1, <2>3, <2>4, CompleteStep
<1> QED
  BY <1>1, <1>2, <1>3

(* The phases recorded after a result.                                     *)
LEMMA SettleSteps ==
  ASSUME TypeOK, RunInv, Settle \/ SettleUnknown \/ Replan
  PROVE  TypeOK' /\ RunInv'
<1> USE DEF At, Goto
<1>0. live \in Runners /\ live.run \in RunStates
  BY DEF TypeOK, Runners
<1>00. {"OBSERVING", "VERIFYING", "PLANNING"} \subseteq Phases \ Terminal
  BY DEF Phases, Transitions, Terminal
<1>1. CASE Settle
  <2>1. live' \in Runners
    BY <1>1, <1>0 DEF Settle, Runners, LiveSteps
  <2>2. StepInv' /\ GroundingInv'
    BY <1>1, <1>0 DEF Settle, Record, Runners, RunInv, StepInv, GroundingInv, Running,
                      Unanswered, InCall, Undispatched
  <2>3. SettledPhase \in {"OBSERVING", "VERIFYING", "PLANNING"}
    BY DEF SettledPhase
  <2> QED
    BY <1>1, <1>0, <1>00, <2>1, <2>2, <2>3, RecordStep DEF Settle, Running, TypeOK
<1>2. CASE SettleUnknown
  BY <1>2, <1>0, TerminateStep DEF SettleUnknown, EndUnknown, Running, Phases, Terminal
<1>3. CASE Replan
  <2> DEFINE rest == Tail(live.calls)
             pc == IF rest = <<>> THEN "loop" ELSE "call"
  <2>1. rest \in Seq(Effects)
    BY <1>3, <1>0 DEF Replan, RunInv, StepInv, InCall, Runners
  <2>2. pc \in {"loop", "call"} /\ (pc = "call" => rest # <<>>)
    OBVIOUS
  <2>3. /\ live' = [live EXCEPT !.pc = pc, !.calls = rest, !.outer = live.run]
        /\ live.pc = "replan" /\ Record("PLANNING", live.run) /\ UNCHANGED stale
    BY <1>3 DEF Replan
  <2> HIDE DEF rest, pc
  <2>4. live' \in Runners
    BY <1>0, <2>1, <2>2, <2>3 DEF Runners, LiveSteps
  <2>5. StepInv' /\ GroundingInv'
    BY <1>0, <2>2, <2>3 DEF Runners, RunInv, StepInv, GroundingInv, Running, Unanswered,
                            InCall, Undispatched
  <2> QED
    BY <1>0, <1>00, <2>3, <2>4, <2>5, RecordStep DEF Running, TypeOK
<1> QED
  BY <1>1, <1>2, <1>3

(* Failures, cancellation and crashes.                                     *)
LEMMA EndSteps ==
  ASSUME TypeOK, RunInv, WriteFails \/ RecordFails \/ Cancel \/ DeleteWal \/ Crash
  PROVE  TypeOK' /\ RunInv'
<1> USE DEF At, Goto
<1>0. /\ live \in Runners /\ live.run \in RunStates /\ live.outer \in RunStates
      /\ live.at \in Boundaries
  BY DEF TypeOK, Runners
<1>1. CASE WriteFails
  <2>1. live.pc = "write" /\ live.at.kind \in {"provider", "tool"}
    BY <1>1, <1>0 DEF WriteFails, RunInv, StepInv, Boundaries
  <2>2. CASE Fail(live.run) \/ Fail(WithEvents(live.run, 1))
    BY <1>0, <2>1, <2>2, FailStep, RunStateTypes DEF Running
  <2>3. CASE EndUnknown \/ Terminate("FAILED", live.outer, "error")
    BY <1>0, <2>1, <2>3, TerminateStep DEF EndUnknown, Running, Phases, Terminal
  <2> QED
    BY <1>1, <2>1, <2>2, <2>3 DEF WriteFails
<1>2. CASE RecordFails \/ (Crash /\ live.pc # "closing")
  <2>1. /\ Running /\ lock' = "free" /\ UNCHANGED <<checkpoint, wal, cmd, sent, open, stale>>
        /\ torn' \in BOOLEAN
        /\ ending' \in {"error", "crash"}
        /\ \E pc \in {"closing", "gone"} : live' = [NotRunning EXCEPT !.pc = pc]
    <3>1. CASE RecordFails
      BY <3>1 DEF RecordFails, Leave, Tears, Running, Records
    <3>2. CASE Crash /\ live.pc # "closing"
      BY <3>2 DEF Crash, Tears, Running
    <3> QED
      BY <1>2, <3>1, <3>2
  <2>2. live' \in Runners /\ live'.pc \in {"closing", "gone"} /\ ~live'.grounded
    BY <2>1, RestTypes DEF Runners, LiveSteps, NotRunning
  <2>3. TypeOK'
    BY <2>1, <2>2 DEF TypeOK
  <2>4. LockInv'
    BY <2>1, <2>2, RunsAlone DEF LockInv, Running, RunInv
  <2>5. StepInv' /\ GroundingInv'
    BY <2>2 DEF StepInv, GroundingInv, Unanswered, InCall, Undispatched
  <2>6. CommandInv'
    BY <2>1 DEF CommandInv, RunInv
  <2> QED
    BY <2>3, <2>4, <2>5, <2>6 DEF RunInv
<1>3. CASE Cancel
  BY <1>3, <1>0, TerminateStep DEF Cancel, Running, Phases, Terminal
<1>4. CASE DeleteWal
  <2>1. live' \in Runners /\ live'.pc = "gone" /\ live'.grounded = live.grounded
    BY <1>4, <1>0 DEF DeleteWal, Runners, LiveSteps
  <2>2. TypeOK'
    BY <1>4, <2>1, RestTypes DEF DeleteWal, TypeOK, history
  <2>3. LockInv'
    BY <1>4, <2>1 DEF DeleteWal, LockInv, Running, RunInv
  <2>4. StepInv' /\ GroundingInv'
    BY <1>4, <2>1 DEF DeleteWal, RunInv, StepInv, GroundingInv, Running, Unanswered, InCall,
                      Undispatched
  <2>5. CommandInv'
    BY <1>4, RestTypes DEF DeleteWal, CommandInv, RunInv, history
  <2> QED
    BY <2>2, <2>3, <2>4, <2>5 DEF RunInv
<1>5. CASE Crash /\ live.pc = "closing"
  <2>1. /\ live' = [NotRunning EXCEPT !.pc = "gone"]
        /\ UNCHANGED <<torn, lock, ending, checkpoint, wal, cmd, sent, open, stale>>
    BY <1>5 DEF Crash
  <2>2. live' \in Runners /\ live'.pc = "gone" /\ ~live'.grounded
    BY <2>1, RestTypes DEF Runners, LiveSteps, NotRunning
  <2>3. TypeOK'
    BY <2>1, <2>2 DEF TypeOK
  <2>4. LockInv'
    BY <2>1, <2>2 DEF LockInv, Running, RunInv
  <2>5. StepInv' /\ GroundingInv'
    BY <2>2 DEF StepInv, GroundingInv, Unanswered, InCall, Undispatched
  <2>6. CommandInv'
    BY <2>1 DEF CommandInv, RunInv
  <2> QED
    BY <2>3, <2>4, <2>5, <2>6 DEF RunInv
<1> QED
  BY <1>1, <1>2, <1>3, <1>4, <1>5

-----------------------------------------------------------------------------
(* The types of what a command remembers.                                  *)
LEMMA CommandTypes ==
  ASSUME TypeOK
  PROVE  /\ cmd.pc \in CmdSteps /\ cmd.action \in Actions /\ cmd.seen \in Continuations
         /\ cmd.seen.used \in Budgets /\ cmd.seen.ledger \in Ledgers
         /\ cmd.seen.at \in Boundaries /\ cmd.seen.verified \in BOOLEAN
         /\ cmd.seen.seq \in Nat
BY DEF TypeOK, Continuations

(* What a step of a command has to show: the runner is not running, so its *)
(* part of the invariant is not touched.                                   *)
LEMMA CommandStepHolds ==
  ASSUME TypeOK, RunInv, cmd.pc # "idle", UNCHANGED <<torn, live, ending>>,
         checkpoint' \in Checkpoints, wal' \in Continuations,
         cmd' \in [pc : CmdSteps, action : Actions, seen : Continuations],
         sent' \in Seq(Requests), open' \in BOOLEAN, stale' \in BOOLEAN,
         \/ UNCHANGED lock /\ cmd'.pc \notin {"cancel", "cancelled"}
         \/ /\ UNCHANGED <<lock, checkpoint>>
            /\ cmd'.pc \in {"cancel", "cancelled"} =>
                cmd.pc \in {"cancel", "cancelled"}
         \/ lock' = "free" /\ cmd'.pc = "idle",
         CommandInv'
  PROVE  TypeOK' /\ RunInv'
<1>1. ~Running /\ lock \in {"recover", "cancel"}
  BY DEF LockInv, RunInv
<1>2. TypeOK'
  BY <1>1 DEF TypeOK
<1>3. LockInv'
  BY <1>1 DEF LockInv, Running, RunInv
<1>4. StepInv'
  BY DEF StepInv, RunInv, Unanswered, InCall, Undispatched
<1>5. GroundingInv'
  <2>1. ~live.grounded /\ ~Undispatched
    BY <1>1 DEF GroundingInv, RunInv, Undispatched, Running
  <2> QED
    BY <2>1 DEF GroundingInv, Undispatched
<1> QED
  BY <1>2, <1>3, <1>4, <1>5 DEF RunInv

\* A command that stops, whatever it did to the files before.
LEMMA StopsStep ==
  ASSUME TypeOK, RunInv, cmd.pc # "idle", Stops,
         UNCHANGED <<torn, live, history>>,
         checkpoint' \in Checkpoints, wal' \in {wal, NoWal}
  PROVE  TypeOK' /\ RunInv'
<1>1. wal' \in Continuations /\ LedgerInv(wal'.ledger)
  BY RestTypes DEF TypeOK, RunInv, CommandInv
<1>2. CommandInv'
  BY <1>1, RestTypes DEF Stops, NoCommand, CommandInv, RunInv
<1> QED
  BY <1>1, <1>2, CommandStepHolds, RestTypes DEF Stops, NoCommand, history, TypeOK

(* What advance_recovery_checkpoint writes is a checkpoint.                *)
LEMMA AdvancedTypes ==
  ASSUME NEW c \in Checkpoints, NEW phase \in Phases, NEW used \in Budgets,
         NEW recovery \in Statuses, NEW verified \in BOOLEAN
  PROVE  Advanced(c, phase, used, recovery, verified) \in Checkpoints
<1> DEFINE seq == c.seq + 1
<1>1. seq \in Nat
  BY DEF Checkpoints
<1>2. Advanced(c, phase, used, recovery, verified) =
        [c EXCEPT !.phase = phase, !.seq = seq, !.used = used,
                  !.recovery = recovery, !.verified = verified]
  BY DEF Advanced
<1> HIDE DEF seq
<1> QED
  BY <1>1, <1>2 DEF Checkpoints

(* What cancel and the finalizations write is a checkpoint.                *)
LEMMA ClosedTypes ==
  ASSUME NEW c \in Checkpoints
  PROVE  /\ Cancelled(c) \in Checkpoints
         /\ Succeeded(c) \in Checkpoints
         /\ Blocked(c) \in Checkpoints
<1> DEFINE seq == c.seq + 1
<1>1. seq \in Nat /\ {"CANCELLED", "SUCCESS", "FAILED"} \subseteq Phases
      /\ "stopped" \in Statuses
  BY DEF Checkpoints, Phases, Terminal, Statuses
<1>2. /\ Cancelled(c) = [c EXCEPT !.phase = "CANCELLED", !.seq = seq]
      /\ Succeeded(c) = [c EXCEPT !.phase = "SUCCESS", !.seq = seq]
      /\ Blocked(c) = [c EXCEPT !.phase = "FAILED", !.seq = seq, !.recovery = "stopped"]
  BY DEF Cancelled, Succeeded, Blocked
<1> HIDE DEF seq
<1> QED
  BY <1>1, <1>2 DEF Checkpoints

-----------------------------------------------------------------------------
(* A command takes the lock, plans, and closes or cancels the run.         *)
LEMMA BeginSteps ==
  ASSUME TypeOK, RunInv, BeginRecover \/ BeginCancel
  PROVE  TypeOK' /\ RunInv'
<1>1. /\ cmd.pc = "idle" /\ lock = "free" /\ UNCHANGED <<disk, live, history>>
      /\ \E pc \in {"plan", "cancel"} : cmd' = [cmd EXCEPT !.pc = pc]
      /\ lock' \in {"recover", "cancel"}
      /\ cmd'.pc = "cancel" => checkpoint.phase \notin Terminal
  BY DEF BeginRecover, BeginCancel, Cancellable, TypeOK
<1>2. /\ cmd' \in [pc : CmdSteps, action : Actions, seen : Continuations]
      /\ cmd'.pc \in {"plan", "cancel"} /\ cmd'.seen = cmd.seen
  BY <1>1 DEF TypeOK, CmdSteps
<1>3. ~Running
  BY <1>1 DEF LockInv, RunInv
<1>4. TypeOK'
  BY <1>1, <1>2 DEF TypeOK, disk, history
<1>5. LockInv'
  BY <1>1, <1>2, <1>3 DEF LockInv, Running, disk
<1>6. StepInv' /\ GroundingInv'
  BY <1>1 DEF StepInv, GroundingInv, RunInv, Unanswered, InCall, Undispatched, Running, Call,
              history
<1>7. CommandInv'
  BY <1>1, <1>2 DEF CommandInv, RunInv, disk
<1> QED
  BY <1>4, <1>5, <1>6, <1>7 DEF RunInv

(* A recovery plans from the files it reads.                               *)
LEMMA PlanStep ==
  ASSUME TypeOK, RunInv, RecoverPlan
  PROVE  TypeOK' /\ RunInv'
<1> DEFINE action == Plan(checkpoint, wal)
           pc == IF action \in Finalizing THEN "finalize" ELSE "intent"
<1>1. CASE wal # NoWal /\ action \in Executable \cup Finalizing
  <2>1. /\ action = ClassifyStage(wal.at, wal.ledger)
        /\ Affordable(action, wal.at, wal.used)
        /\ wal.ledger.valid
        /\ wal.ledger.recovery \notin {"unknown_outcome", "stopped"}
    BY <1>1, PlanExecutable DEF TypeOK
  <2>2. cmd' = [pc |-> pc, action |-> action, seen |-> wal]
        /\ UNCHANGED <<lock, disk, live, history>>
    BY <1>1 DEF RecoverPlan
  <2>3. action \in Actions /\ (pc = "intent" => action \in Executable)
        /\ (pc = "finalize" => action \in Finalizing) /\ pc \in {"intent", "finalize"}
    BY <1>1 DEF Actions
  <2>4. wal.at.stage # "none"
    BY <1>1 DEF RunInv, CommandInv
  <2>5. action = "continue_provider" => wal.used.turns < MaxTurns
    BY <2>1 DEF Affordable
  <2> HIDE DEF action, pc
  <2>6. cmd' \in [pc : CmdSteps, action : Actions, seen : Continuations]
    BY <2>2, <2>3 DEF TypeOK, CmdSteps
  <2>7. CommandInv'
    BY <2>1, <2>2, <2>3, <2>4, <2>5 DEF RunInv, CommandInv, disk
  <2> QED
    BY <2>2, <2>3, <2>6, <2>7, CommandStepHolds DEF RecoverPlan, TypeOK, disk, history
<1>2. CASE ~(wal # NoWal /\ action \in Executable \cup Finalizing)
  BY <1>2, StopsStep DEF RecoverPlan, TypeOK, disk
<1> QED
  BY <1>1, <1>2

(* A recovery finalizes, a cancellation closes, a command stops.           *)
LEMMA CloseSteps ==
  ASSUME TypeOK, RunInv,
         \/ FinalizeRun \/ FinalizeDelete \/ CancelDelete \/ CancelRecord \/ CommandStops
  PROVE  TypeOK' /\ RunInv'
<1>1. CASE FinalizeRun
  <2>1. checkpoint' \in Checkpoints
    BY <1>1, ClosedTypes DEF FinalizeRun, TypeOK, RunInv, CommandInv, Finalizing
  <2>2. /\ cmd' \in [pc : CmdSteps, action : Actions, seen : Continuations]
        /\ cmd'.pc = "delete" /\ cmd'.seen = cmd.seen
    BY <1>1 DEF FinalizeRun, TypeOK, CmdSteps
  <2>3. CommandInv'
    BY <1>1, <2>2 DEF FinalizeRun, CommandInv, RunInv
  <2> QED
    BY <1>1, <2>1, <2>2, <2>3, CommandStepHolds DEF FinalizeRun, TypeOK, history
<1>2. CASE FinalizeDelete
  BY <1>2, StopsStep DEF FinalizeDelete, TypeOK
<1>3. CASE CancelDelete
  <2>1. /\ cmd' \in [pc : CmdSteps, action : Actions, seen : Continuations]
        /\ cmd'.pc = "cancelled" /\ cmd'.seen = cmd.seen
    BY <1>3 DEF CancelDelete, TypeOK, CmdSteps
  <2>2. CommandInv'
    BY <1>3, <2>1, RestTypes DEF CancelDelete, CommandInv, RunInv
  <2> QED
    BY <1>3, <2>1, <2>2, CommandStepHolds, RestTypes DEF CancelDelete, TypeOK, history
<1>4. CASE CancelRecord
  BY <1>4, StopsStep, ClosedTypes DEF CancelRecord, TypeOK
<1>5. CASE CommandStops
  BY <1>5, StopsStep DEF CommandStops, TypeOK, disk
<1> QED
  BY <1>1, <1>2, <1>3, <1>4, <1>5

(* The two writes before the I/O of a recovery step, and its request.      *)
LEMMA IntentSteps ==
  ASSUME TypeOK, RunInv, IntentWal \/ IntentCheckpoint \/ RecoverSend
  PROVE  TypeOK' /\ RunInv'
<1>1. CASE IntentWal
  <2> DEFINE w == Intended(wal, cmd.action)
  <2>1. /\ w \in Continuations
        /\ LedgerInv(w.ledger)
        /\ w.at.stage = "dispatch_intent"
        /\ w.at.kind = "provider" \/ w.ledger.effect # "side_effect"
        /\ w.used.turns = wal.used.turns
    BY <1>1, IntendedTypes DEF IntentWal, Current, RunInv, CommandInv, TypeOK
  <2>2. wal' = w /\ cmd' = [cmd EXCEPT !.pc = "intended", !.seen = w] /\ cmd.pc = "intent"
        /\ cmd.seen = wal
    BY <1>1 DEF IntentWal, Current
  <2> HIDE DEF w
  <2>3. /\ cmd' \in [pc : CmdSteps, action : Actions, seen : Continuations]
        /\ cmd'.pc = "intended" /\ cmd'.seen = w /\ cmd'.action = cmd.action
    BY <2>1, <2>2 DEF TypeOK, CmdSteps
  <2>4. CommandInv'
    BY <2>1, <2>2, <2>3 DEF CommandInv, RunInv
  <2> QED
    BY <1>1, <2>1, <2>2, <2>3, <2>4, CommandStepHolds DEF IntentWal, TypeOK, history
<1>2. CASE IntentCheckpoint
  <2>1. cmd.pc = "intended" /\ cmd.action \in Executable
    BY <1>2 DEF IntentCheckpoint, RunInv, CommandInv
  <2>2. /\ IntentPhase(cmd.action) \in Phases
        /\ IntentStatus(cmd.action, checkpoint.recovery) \in Statuses
    BY <2>1 DEF IntentPhase, IntentStatus, Executable, Phases, Transitions, Statuses,
                TypeOK, Checkpoints
  <2>3. checkpoint' \in Checkpoints
    BY <1>2, <2>2, AdvancedTypes, CommandTypes DEF IntentCheckpoint, TypeOK
  <2>4. /\ cmd' \in [pc : CmdSteps, action : Actions, seen : Continuations]
        /\ cmd'.pc = "send" /\ cmd'.seen = cmd.seen /\ cmd'.action = cmd.action
    BY <1>2 DEF IntentCheckpoint, TypeOK, CmdSteps
  <2>5. CommandInv'
    BY <1>2, <2>1, <2>4 DEF IntentCheckpoint, CommandInv, RunInv
  <2> QED
    BY <1>2, <2>1, <2>3, <2>4, <2>5, CommandStepHolds DEF IntentCheckpoint, TypeOK, history
<1>3. CASE RecoverSend
  <2>1. cmd.pc = "send" /\ UNCHANGED <<disk, lock, live, stale, ending>>
    BY <1>3 DEF RecoverSend, Leaves
  <2>2. sent' \in Seq(Requests) /\ open' \in BOOLEAN
    <3> DEFINE kind == IF cmd.seen.ledger.mandatory THEN "mandatory" ELSE cmd.seen.at.kind
               turns == cmd.seen.used.turns
               effect == IF cmd.seen.at.kind = "provider" THEN "provider"
                         ELSE cmd.seen.ledger.effect
    <3>1. kind \in {"none", "provider", "tool", "mandatory"}
      BY CommandTypes DEF Boundaries
    <3>2. turns \in Nat
      BY CommandTypes, BudgetAssumption DEF Budgets
    <3>3. effect \in Effects \cup {"provider", "none"}
      BY CommandTypes DEF Ledgers
    <3>4. Leaves(kind, turns, 1, effect, "recover")
      BY <1>3 DEF RecoverSend
    <3> HIDE DEF kind, turns, effect
    <3> QED
      BY <3>1, <3>2, <3>3, <3>4, LeavesTypes
  <2>3. /\ cmd' \in [pc : CmdSteps, action : Actions, seen : Continuations]
        /\ cmd'.pc = "reply" /\ cmd'.seen = cmd.seen /\ cmd'.action = cmd.action
    BY <1>3 DEF RecoverSend, TypeOK, CmdSteps
  <2>4. CommandInv'
    BY <2>1, <2>3 DEF CommandInv, RunInv, disk
  <2> QED
    BY <2>1, <2>2, <2>3, <2>4, CommandStepHolds DEF TypeOK, disk
<1> QED
  BY <1>1, <1>2, <1>3

(* The two writes after it.                                                *)
LEMMA CompletionStep ==
  ASSUME TypeOK, RunInv, NEW w \in Continuations, CompletionWal(w),
         LedgerInv(w.ledger), w.at.stage = "completed",
         open' \in BOOLEAN, stale' \in BOOLEAN
  PROVE  TypeOK' /\ RunInv'
<1>1. /\ cmd' \in [pc : CmdSteps, action : Actions, seen : Continuations]
      /\ cmd'.pc = "completed" /\ cmd'.seen = w
  BY DEF CompletionWal, TypeOK, CmdSteps
<1>2. CommandInv'
  BY <1>1 DEF CompletionWal, CommandInv, RunInv
<1> QED
  BY <1>1, <1>2, CommandStepHolds DEF CompletionWal, TypeOK

(* A recovery's request is answered.                                       *)
LEMMA ReplySteps ==
  ASSUME TypeOK, RunInv,
         \/ \E outcome \in Outcomes \ {"yielded"} : RecoveredResult(outcome)
         \/ \E calls \in Turns : RecoveredTurn(calls)
  PROVE  TypeOK' /\ RunInv'
<1>0. cmd.seen \in Continuations /\ LedgerInv(cmd.seen.ledger)
  BY CommandTypes DEF RunInv, CommandInv
<1>1. ASSUME NEW outcome \in Outcomes \ {"yielded"}, RecoveredResult(outcome)
      PROVE  TypeOK' /\ RunInv'
  <2>1. stale' \in BOOLEAN /\ open' \in BOOLEAN
    BY <1>1 DEF RecoveredResult, StaleAfter, TypeOK
  <2> QED
    BY <1>0, <1>1, <2>1, CompletedCallTypes, CompletionStep DEF RecoveredResult
<1>2. ASSUME NEW calls \in Turns, RecoveredTurn(calls)
      PROVE  TypeOK' /\ RunInv'
  <2>1. calls \in Seq(Effects)
    BY TurnsAssumption
  <2>2. cmd.seen.used.turns < MaxTurns
    BY <1>2 DEF RecoveredTurn, CompletionWal, RunInv, CommandInv
  <2> QED
    BY <1>0, <1>2, <2>1, <2>2, CompletedTurnTypes, CompletionStep DEF RecoveredTurn, TypeOK
<1> QED
  BY <1>1, <1>2

(* The checkpoint follows the continuation.                                *)
LEMMA CompletionCheckpointStep ==
  ASSUME TypeOK, RunInv, CompletionCheckpoint
  PROVE  TypeOK' /\ RunInv'
<1> DEFINE recovery == CompletionStatus(cmd.action, cmd.seen, checkpoint.recovery)
           phase == CompletionPhase(cmd.action, recovery)
<1>1. recovery \in Statuses
  BY DEF CompletionStatus, Statuses, TypeOK, Checkpoints
<1>2. phase \in Phases
  BY DEF CompletionPhase, Phases, Transitions, Terminal
<1>3. /\ cmd.pc = "completed"
      /\ checkpoint' = Advanced(checkpoint, phase, cmd.seen.used, recovery,
                                cmd.seen.verified)
      /\ UNCHANGED <<wal, torn, live, history>>
      /\ \/ /\ cmd' = [cmd EXCEPT !.pc = "finalize", !.action = "finalize_success"]
            /\ UNCHANGED lock
         \/ cmd' = [NoCommand EXCEPT !.pc = "plan"] /\ UNCHANGED lock
         \/ Stops
  BY DEF CompletionCheckpoint
<1> HIDE DEF recovery, phase
<1>4. checkpoint' \in Checkpoints
  BY <1>1, <1>2, <1>3, AdvancedTypes, CommandTypes DEF TypeOK
<1>5. CASE Stops
  BY <1>3, <1>4, <1>5, StopsStep
<1>6. CASE /\ \/ cmd' = [cmd EXCEPT !.pc = "finalize", !.action = "finalize_success"]
              \/ cmd' = [NoCommand EXCEPT !.pc = "plan"]
           /\ UNCHANGED lock
  <2>1. /\ cmd' \in [pc : CmdSteps, action : Actions, seen : Continuations]
        /\ \/ cmd'.pc = "finalize" /\ cmd'.action \in Finalizing
           \/ cmd'.pc = "plan"
        /\ cmd'.seen \in {cmd.seen, NoWal}
    BY <1>6, RestTypes DEF TypeOK, CmdSteps, Actions, Finalizing, NoCommand
  <2>2. CommandInv'
    BY <1>3, <2>1, RestTypes DEF CommandInv, RunInv
  <2> QED
    BY <1>3, <1>4, <1>6, <2>1, <2>2, CommandStepHolds DEF TypeOK, history
<1> QED
  BY <1>3, <1>5, <1>6

-----------------------------------------------------------------------------
(* Every step keeps the types and the invariant.                           *)
LEMMA NextHolds ==
  ASSUME TypeOK, RunInv, [Next]_vars
  PROVE  TypeOK' /\ RunInv'
<1>1. CASE Start \/ Resume
  BY <1>1, StartSteps
<1>2. CASE LiveStep
  BY <1>2, TurnSteps, WriteSteps, SendStep, AnswerStep, GuardSteps, ApprovalSteps,
     ExecuteSteps, ResultSteps, SettleSteps DEF LiveStep
<1>3. CASE DeleteWal \/ WriteFails \/ RecordFails \/ Cancel \/ Crash
  BY <1>3, EndSteps
<1>4. CASE BeginRecover \/ BeginCancel
  BY <1>4, BeginSteps
<1>5. CASE CommandStep
  BY <1>5, PlanStep, IntentSteps, ReplySteps, CompletionCheckpointStep, CloseSteps
     DEF CommandStep
<1>6. CASE UNCHANGED vars
  <2>1. UNCHANGED <<checkpoint, wal, torn, lock, live, cmd, sent, open, stale, ending>>
    BY <1>6 DEF vars, disk, history
  <2>2. TypeOK'
    BY <2>1 DEF TypeOK
  <2>3. LockInv' /\ CommandInv'
    BY <2>1 DEF RunInv, LockInv, CommandInv, Running
  <2>4. StepInv' /\ GroundingInv'
    BY <2>1 DEF RunInv, StepInv, GroundingInv, Running, Unanswered, InCall, Undispatched, Call
  <2> QED
    BY <2>2, <2>3, <2>4 DEF RunInv
<1> QED
  BY <1>1, <1>2, <1>3, <1>4, <1>5, <1>6 DEF Next

(* Types, with every budget within its limit, and the inductive invariant: *)
(* whoever runs holds the lock of a run that has not ended, a runner's     *)
(* grounding is a fresh look at the desktop, and a recovery step is        *)
(* justified by the files it has read.                                     *)
THEOREM RunInvariant == Spec => [](TypeOK /\ RunInv)
<1>1. Init => TypeOK /\ RunInv
  BY InitHolds
<1>2. (TypeOK /\ RunInv) /\ [Next]_vars => (TypeOK /\ RunInv)'
  BY NextHolds
<1> QED
  BY <1>1, <1>2, PTL DEF Spec

-----------------------------------------------------------------------------
(* The request a step hands over, if it hands one over: an action is the   *)
(* runner's and the desktop is as it was seen.                             *)
LEMMA Requested ==
  ASSUME TypeOK, RunInv, [Next]_vars
  PROVE  \/ sent' = sent
         \/ \E request \in Requests :
                /\ sent' = Append(sent, request)
                /\ request.effect = "side_effect" =>
                    request.by = "run" /\ ~stale
<1>1. CASE Send
  <2> DEFINE request == sent'[Len(sent) + 1]
  <2>0. sent \in Seq(Requests) /\ sent' \in Seq(Requests)
    BY <1>1, SendStep DEF TypeOK
  <2>1. /\ sent' = Append(sent, request)
        /\ request \in Requests /\ request.by = "run"
        /\ request.effect = IF live.at.kind = "provider" THEN "provider" ELSE Call
    BY <1>1, <2>0 DEF Send, Leaves, Call
  <2>2. request.effect = "side_effect" => ~stale
    BY <1>1, <2>1 DEF Send, At, TypeOK, Runners, Boundaries, RunInv, StepInv, GroundingInv,
                      Undispatched
  <2> HIDE DEF request
  <2> QED
    BY <2>1, <2>2
<1>2. CASE RecoverSend
  <2> DEFINE request == sent'[Len(sent) + 1]
  <2>0. sent \in Seq(Requests) /\ sent' \in Seq(Requests)
    BY <1>2, IntentSteps DEF TypeOK
  <2>1. /\ sent' = Append(sent, request)
        /\ request \in Requests
        /\ request.effect = IF cmd.seen.at.kind = "provider" THEN "provider"
                            ELSE cmd.seen.ledger.effect
    BY <1>2, <2>0 DEF RecoverSend, Leaves
  <2>2. request.effect # "side_effect"
    BY <1>2, <2>1 DEF RecoverSend, RunInv, CommandInv
  <2> HIDE DEF request
  <2> QED
    BY <2>1, <2>2
<1>3. CASE \/ Start \/ Resume \/ (LiveStep /\ ~Send)
           \/ DeleteWal \/ WriteFails \/ RecordFails \/ Cancel \/ Crash
           \/ BeginRecover \/ BeginCancel \/ (CommandStep /\ ~RecoverSend)
           \/ UNCHANGED vars
  <2>1. sent' = sent
    <3>1. CASE (LiveStep /\ ~Send)
      BY <3>1 DEF LiveStep, Observe, Discover, BeginTurn, WriteBoundary, Intend, Answer, Finish,
                  FailFinish, FailTurn, EnterCall, RefuseCall, AllowObservation, AllowAct,
                  AskApproval, DenyCall, Approve, Disapprove, Reobserve, Defer, Execute,
                  Prepare, NotEntered, Return, RefuseResult, Settle, SettleUnknown, Replan,
                  Record, AdvanceTo, Terminate, Fail, EndUnknown, CompleteCall, history
    <3>2. CASE CommandStep /\ ~RecoverSend
      BY <3>2 DEF CommandStep, RecoverPlan, IntentWal, IntentCheckpoint, RecoveredResult,
                  RecoveredTurn, CompletionWal, CompletionCheckpoint, FinalizeRun,
                  FinalizeDelete, CancelDelete, CancelRecord, CommandStops, history
    <3>3. CASE \/ Start \/ Resume \/ DeleteWal \/ WriteFails \/ RecordFails \/ Cancel
               \/ Crash \/ BeginRecover \/ BeginCancel \/ UNCHANGED vars
      <4>1. live.pc = "write" => live.at.kind \in {"provider", "tool"}
        BY DEF TypeOK, Runners, Boundaries, RunInv, StepInv
      <4> QED
        BY <3>3, <4>1 DEF Start, Resume, DeleteWal, WriteFails, At, RecordFails, Leave, Cancel,
                  Crash, BeginRecover, BeginCancel, Fail, EndUnknown, Terminate, vars, history
    <3> QED
      BY <1>3, <3>1, <3>2, <3>3
  <2> QED
    BY <2>1
<1> QED
  BY <1>1, <1>2, <1>3 DEF Next

(* No action leaves the host unless the desktop has been observed since    *)
(* the last action, the last takeover and the operator's last demand.      *)
THEOREM ActionsOnSeenDesktop == Spec => ActsOnSeenDesktop
<1>1. TypeOK /\ RunInv /\ [Next]_vars =>
        [\A i \in DOMAIN sent' \ DOMAIN sent :
            sent'[i].effect = "side_effect" => ~stale]_vars
  <2> SUFFICES ASSUME TypeOK, RunInv, [Next]_vars,
                      NEW i \in DOMAIN sent' \ DOMAIN sent
               PROVE  sent'[i].effect = "side_effect" => ~stale
    OBVIOUS
  <2>1. PICK request \in Requests :
            /\ sent' = Append(sent, request)
            /\ request.effect = "side_effect" => request.by = "run" /\ ~stale
    BY Requested
  <2>2. sent'[i] = request
    BY <2>1 DEF TypeOK
  <2> QED
    BY <2>1, <2>2
<1> QED
  BY <1>1, RunInvariant, PTL DEF Spec, ActsOnSeenDesktop

(* A recovery never sends an action, whatever the interrupted run had      *)
(* prepared, been allowed or been asked to do.                             *)
THEOREM RecoveryReadOnly == Spec => []RecoveredReadOnly
<1>1. Init => RecoveredReadOnly
  BY DEF Init, RecoveredReadOnly
<1>2. TypeOK /\ RunInv /\ RecoveredReadOnly /\ [Next]_vars => RecoveredReadOnly'
  <2> SUFFICES ASSUME TypeOK, RunInv, RecoveredReadOnly, [Next]_vars,
                      NEW i \in DOMAIN sent', sent'[i].by = "recover"
               PROVE  sent'[i].effect # "side_effect"
    BY DEF RecoveredReadOnly
  <2>1. CASE sent' = sent
    BY <2>1 DEF RecoveredReadOnly
  <2>2. ASSUME NEW request \in Requests, sent' = Append(sent, request),
               request.effect = "side_effect" => request.by = "run" /\ ~stale
        PROVE  sent'[i].effect # "side_effect"
    <3>1. CASE i = Len(sent) + 1
      BY <2>2, <3>1 DEF TypeOK
    <3>2. CASE i # Len(sent) + 1
      BY <2>2, <3>2 DEF TypeOK, RecoveredReadOnly
    <3> QED
      BY <3>1, <3>2
  <2> QED
    BY <2>1, <2>2, Requested
<1> QED
  BY <1>1, <1>2, RunInvariant, PTL DEF Spec

(* The last phase of a run is final: neither its runner nor a command      *)
(* rewrites a terminal checkpoint.                                         *)
THEOREM TerminalStays == Spec => TerminalIsFinal
<1>1. TypeOK /\ RunInv /\ [Next]_vars =>
        [checkpoint.phase \in Terminal => checkpoint' = checkpoint]_checkpoint
  <2> SUFFICES ASSUME TypeOK, RunInv, [Next]_vars, checkpoint.phase \in Terminal
               PROVE  checkpoint' = checkpoint
    OBVIOUS
  <2>1. live.pc \in {"absent", "closing", "gone"}
    BY DEF RunInv, LockInv, Running
  <2>2. cmd.pc \notin {"cancel", "cancelled"}
    BY DEF RunInv, LockInv
  <2>3. CASE LiveStep
    <3>1. FALSE
      BY <2>1, <2>3 DEF LiveStep, Observe, Discover, BeginTurn, WriteBoundary, Intend, Send,
                  Answer, Finish, FailFinish, FailTurn, EnterCall, RefuseCall,
                  AllowObservation, AllowAct, AskApproval, DenyCall, Approve, Disapprove,
                  Reobserve, Defer, Execute, Prepare, NotEntered, Return, RefuseResult,
                  Settle, SettleUnknown, Replan, At
    <3> QED
      BY <3>1
  <2>4. CASE \/ Start \/ Resume \/ DeleteWal \/ WriteFails \/ RecordFails \/ Cancel
             \/ Crash \/ BeginRecover \/ BeginCancel \/ UNCHANGED vars
    <3>1. ~Start
      BY DEF Start, Absent, Checkpoint, Terminal
    <3> QED
      BY <2>1, <2>4, <3>1 DEF Resume, DeleteWal, WriteFails, RecordFails, Records, Leave, Cancel,
              Crash, BeginRecover, BeginCancel, At, disk, vars
  <2>5. CASE CommandStep
    BY <2>2, <2>5 DEF CommandStep, RecoverPlan, IntentWal, IntentCheckpoint, RecoverSend,
              RecoveredResult, RecoveredTurn, CompletionWal, CompletionCheckpoint, FinalizeRun,
              FinalizeDelete, CancelDelete, CancelRecord, CommandStops, Advanceable,
              MaySucceed, MayBlock, Terminal, Finalizing, RunInv, CommandInv, disk
  <2> QED
    BY <2>3, <2>4, <2>5 DEF Next
<1> QED
  BY <1>1, RunInvariant, PTL DEF Spec, TerminalIsFinal

-----------------------------------------------------------------------------
(* What is counted of the requests, and how one request more counts.       *)
LEMMA CountTypes ==
  ASSUME TypeOK
  PROVE  CallsSent \in Nat /\ ActsSent \in Nat
<1>1. ASSUME NEW S
      PROVE  Count(S) \in Nat
  <2>1. IsFiniteSet(1 .. Len(sent))
    BY FS_Interval DEF TypeOK
  <2>2. {i \in DOMAIN sent : sent[i].effect \in S} \subseteq 1 .. Len(sent)
    BY DEF TypeOK
  <2> QED
    BY <2>1, <2>2, FS_Subset, FS_CardinalityType DEF Count
<1> QED
  BY <1>1 DEF CallsSent, ActsSent

LEMMA CountKept ==
  ASSUME sent' = sent
  PROVE  CallsSent' = CallsSent /\ ActsSent' = ActsSent
BY DEF CallsSent, ActsSent, Count

LEMMA CountGrows ==
  ASSUME TypeOK, NEW request \in Requests, sent' = Append(sent, request)
  PROVE  /\ CallsSent' = CallsSent + (IF request.effect \in Effects THEN 1 ELSE 0)
         /\ ActsSent' = ActsSent + (IF request.effect = "side_effect" THEN 1 ELSE 0)
<1>1. ASSUME NEW S
      PROVE  Count(S)' = Count(S) + (IF request.effect \in S THEN 1 ELSE 0)
  <2> DEFINE T == {i \in DOMAIN sent : sent[i].effect \in S}
             n == Len(sent) + 1
  <2>1. IsFiniteSet(T) /\ Cardinality(T) \in Nat /\ n \notin T
    <3>1. IsFiniteSet(1 .. Len(sent))
      BY FS_Interval DEF TypeOK
    <3>2. T \subseteq 1 .. Len(sent)
      BY DEF TypeOK
    <3> QED
      BY <3>1, <3>2, FS_Subset, FS_CardinalityType DEF TypeOK
  <2>2. {i \in DOMAIN sent' : sent'[i].effect \in S} =
            IF request.effect \in S THEN T \cup {n} ELSE T
    <3>1. /\ DOMAIN sent' = DOMAIN sent \cup {n}
          /\ \A i \in DOMAIN sent : sent'[i] = sent[i]
          /\ sent'[n] = request
          /\ n \notin DOMAIN sent
      BY DEF TypeOK
    <3> HIDE DEF n
    <3> QED
      BY <3>1
  <2>3. Count(S)' = Cardinality(IF request.effect \in S THEN T \cup {n} ELSE T)
    BY <2>2 DEF Count
  <2>4. Count(S) = Cardinality(T)
    BY DEF Count
  <2> HIDE DEF T, n
  <2>5. Cardinality(T \cup {n}) = Cardinality(T) + 1
    BY <2>1, FS_AddElement
  <2>6. CASE request.effect \in S
    BY <2>3, <2>4, <2>5, <2>6
  <2>7. CASE request.effect \notin S
    BY <2>1, <2>3, <2>4, <2>7
  <2> QED
    BY <2>6, <2>7
<1> QED
  BY <1>1 DEF CallsSent, ActsSent

(* The types of what the proofs compare.                                   *)
LEMMA Numbers ==
  ASSUME TypeOK
  PROVE  /\ CallsSent \in Nat /\ ActsSent \in Nat
         /\ checkpoint.events \in Nat /\ checkpoint.seq \in Nat /\ wal.seq \in Nat
         /\ checkpoint.used.calls \in Nat /\ checkpoint.used.acts \in Nat
         /\ live.run.events \in Nat /\ live.outer.events \in Nat
         /\ live.run.used.calls \in Nat /\ live.run.used.acts \in Nat
         /\ live.outer.used.calls \in Nat /\ live.outer.used.acts \in Nat
<1>1. /\ checkpoint \in Checkpoints /\ wal \in Continuations
      /\ live.run \in RunStates /\ live.outer \in RunStates
  BY DEF TypeOK, Runners
<1>2. checkpoint.used \in Budgets /\ live.run.used \in Budgets /\ live.outer.used \in Budgets
  BY <1>1 DEF Checkpoints, RunStates
<1>3. ASSUME NEW u \in Budgets PROVE u.calls \in Nat /\ u.acts \in Nat
  BY BudgetAssumption DEF Budgets
<1> QED
  BY <1>1, <1>2, <1>3, CountTypes DEF Checkpoints, RunStates, Continuations

(* A larger budget covers what a smaller one does.                         *)
LEMMA CoversMore ==
  ASSUME TypeOK, NEW u \in Budgets, NEW v \in Budgets, NEW effects, Covers(u, effects),
         u.calls <= v.calls, u.acts <= v.acts
  PROVE  Covers(v, effects)
<1>1. u.calls \in Nat /\ u.acts \in Nat /\ v.calls \in Nat /\ v.acts \in Nat
  BY BudgetAssumption DEF Budgets
<1> QED
  BY <1>1, Numbers DEF Covers

(* The records and what is said of a run that is over.                     *)
Truthful == RecordInv /\ SuccessIsCertain /\ FailureRecorded

(* A step of the runner that leaves it running: no command is under way    *)
(* and the run has not ended.                                              *)
LEMMA StillRunning ==
  ASSUME TypeOK, RunInv, Truthful, RunInv', Running, Running', cmd' = cmd,
         PhaseInv', EventsInv', AheadInv', ChargeInv',
         stale' => live'.run.recovery # "ready" /\ checkpoint'.recovery # "ready"
  PROVE  Truthful'
<1>1. cmd.pc = "idle" /\ checkpoint'.phase \notin Terminal
  BY RunsAlone DEF RunInv, LockInv
<1>2. RecoverInv'
  BY <1>1 DEF RecoverInv
<1>3. StaleInv'
  BY <1>1 DEF StaleInv, Lost
<1>4. SuccessIsCertain' /\ FailureRecorded'
  BY <1>1 DEF SuccessIsCertain, FailureRecorded, Terminal, Running, At
<1> QED
  BY <1>2, <1>3, <1>4 DEF Truthful, RecordInv

(* A runner that ends leaves what is on record or records more than it.    *)
LEMMA EndedRecords ==
  ASSUME TypeOK, RunInv, Truthful, TypeOK', Running,
         NEW phase \in Terminal \cup {"PAUSED"}, NEW r \in RunStates,
         NEW how \in {"success", "failure", "error", "cancel"},
         Terminate(phase, r, how),
         checkpoint.events <= r.events =>
            checkpoint.used.calls <= r.used.calls /\ checkpoint.used.acts <= r.used.acts,
         phase = "PAUSED" => r.recovery = "stopped",
         how \in {"success", "failure"} => Accepts(checkpoint, phase, r),
         phase = "SUCCESS" => ~open /\ ~stale
  PROVE  Truthful'
<1>1. /\ \/ checkpoint' = checkpoint /\ how \notin {"success", "failure"}
         \/ /\ checkpoint'.phase = phase /\ checkpoint'.recovery = r.recovery
            /\ checkpoint'.used = r.used /\ checkpoint.events <= r.events
            /\ checkpoint'.seq = checkpoint.seq
      /\ live'.pc = "closing" /\ ending' = how
      /\ UNCHANGED <<wal, torn, cmd, sent, open, stale>>
  BY DEF Terminate, Accepts, Recorded, Checkpoint, NotRunning, Truthful, RecordInv, PhaseInv
<1>2. cmd.pc = "idle" /\ checkpoint.phase \notin Terminal
  BY RunsAlone DEF RunInv
<1>3. ~Running' /\ ~At("absent")'
  BY <1>1 DEF Running, At
<1>4. PhaseInv'
  BY <1>1, <1>3 DEF Truthful, RecordInv, PhaseInv, ResumeAllowed, Fresh, At, About, Dispatching,
                    Terminal
<1>5. EventsInv'
  BY <1>1, <1>3 DEF EventsInv, At, About, Dispatching
<1>6. AheadInv'
  BY <1>1, <1>3 DEF Truthful, RecordInv, AheadInv, Barred, At
<1>7. ChargeInv'
  <2>1. CallsSent' = CallsSent /\ ActsSent' = ActsSent /\ CallsSent \in Nat /\ ActsSent \in Nat
    BY <1>1, CountKept, CountTypes
  <2>2. /\ checkpoint.used.calls <= checkpoint'.used.calls
        /\ checkpoint.used.acts <= checkpoint'.used.acts
        /\ checkpoint.used.calls \in Nat /\ checkpoint'.used.calls \in Nat
        /\ checkpoint.used.acts \in Nat /\ checkpoint'.used.acts \in Nat
        /\ checkpoint'.seq = checkpoint.seq
    BY <1>1, BudgetAssumption DEF TypeOK, Checkpoints, Budgets
  <2> QED
    BY <1>1, <2>1, <2>2 DEF Truthful, RecordInv, ChargeInv, Covers, About
<1>8. RecoverInv'
  BY <1>1, <1>2 DEF RecoverInv
<1>9. StaleInv'
  BY <1>1, <1>2, <1>3 DEF Truthful, RecordInv, StaleInv, Lost, Terminal
<1>10. SuccessIsCertain'
  BY <1>1, <1>2 DEF SuccessIsCertain, Terminal
<1>11. FailureRecorded'
  BY <1>1 DEF FailureRecorded
<1> QED
  BY <1>4, <1>5, <1>6, <1>7, <1>8, <1>9, <1>10, <1>11 DEF Truthful, RecordInv

(* A run that is not over may fail, whatever its phase.                    *)
LEMMA MayFail ==
  ASSUME NEW c \in Checkpoints, c.phase \notin Terminal
  PROVE  MayBecome(c.phase, "FAILED")
BY DEF MayBecome, Checkpoints, Phases, Transitions

(* A failure of the runner, with the state it holds or a later one.        *)
LEMMA FailRecords ==
  ASSUME TypeOK, RunInv, Truthful, TypeOK', Running, NEW n \in Nat,
         Fail(WithEvents(live.run, n)) \/ Fail(live.run)
  PROVE  Truthful'
<1>0. /\ live.run \in RunStates /\ live.run.events \in Nat /\ checkpoint.events \in Nat
      /\ checkpoint \in Checkpoints
  BY DEF TypeOK, Runners, RunStates, Checkpoints
<1>1. PICK r \in RunStates : /\ Fail(r)
                             /\ r.events >= live.run.events /\ r.used = live.run.used
  <2>1. CASE Fail(live.run)
    BY <1>0, <2>1
  <2>2. CASE Fail(WithEvents(live.run, n))
    <3>1. WithEvents(live.run, n) \in RunStates
      BY <1>0, RunStateTypes
    <3>2. /\ WithEvents(live.run, n).events = live.run.events + n
          /\ WithEvents(live.run, n).used = live.run.used
      BY <1>0 DEF WithEvents, RunStates
    <3> QED
      BY <1>0, <2>2, <3>1, <3>2
  <2> QED
    BY <2>1, <2>2
<1>2. /\ checkpoint.events <= live.run.events
      /\ checkpoint.used.calls <= live.run.used.calls
      /\ checkpoint.used.acts <= live.run.used.acts
  BY DEF Truthful, RecordInv, EventsInv
<1>3. r.events \in Nat
  BY DEF RunStates
<1>4. Accepts(checkpoint, "FAILED", r)
  BY <1>0, <1>1, <1>2, <1>3, RunsAlone, MayFail DEF Accepts, RunInv
<1> QED
  BY <1>1, <1>2, <1>4, EndedRecords DEF Fail, Terminal

(* The steps by which a runner leaves its run.                             *)
LEMMA LeaveSteps ==
  ASSUME TypeOK, RunInv, Truthful, TypeOK', RunInv',
         \/ FailTurn \/ Finish \/ FailFinish \/ RefuseCall \/ DenyCall \/ Disapprove
         \/ Defer \/ RefuseResult \/ SettleUnknown \/ WriteFails \/ Cancel
  PROVE  Truthful'
<1> USE DEF At
<1>0. /\ live \in Runners /\ live.run \in RunStates /\ live.outer \in RunStates
      /\ live.run.events \in Nat /\ live.outer.events \in Nat /\ checkpoint.events \in Nat
      /\ checkpoint \in Checkpoints
  BY DEF TypeOK, Runners, RunStates, Checkpoints
<1>1. CASE FailTurn \/ FailFinish \/ RefuseCall \/ DenyCall \/ Disapprove
  <2>1. Running
    BY <1>1 DEF FailTurn, FailFinish, RefuseCall, DenyCall, Disapprove, Running
  <2>2. \E n \in Nat : Fail(WithEvents(live.run, n)) \/ Fail(live.run)
    BY <1>1 DEF FailTurn, FailFinish, RefuseCall, DenyCall, Disapprove
  <2> QED
    BY <2>1, <2>2, FailRecords
<1>2. CASE Finish
  <2>1. /\ Running /\ live.run.recovery # "requires_reobservation"
        /\ Terminate("SUCCESS", live.run, "success")
        /\ live.pc = "finish"
    BY <1>2 DEF Finish, Running
  <2>2. Accepts(checkpoint, "SUCCESS", live.run)
    BY <2>1 DEF Truthful, RecordInv, PhaseInv, EventsInv, Accepts, MayBecome, Transitions, Terminal
  <2>3. ~open /\ ~stale
    BY <1>0, <2>1 DEF Truthful, RecordInv, AheadInv, StaleInv, RunStates, Statuses, TypeOK
  <2> QED
    BY <1>0, <2>1, <2>2, <2>3, EndedRecords DEF Truthful, RecordInv, EventsInv, Terminal
<1>3. CASE Defer
  <2> DEFINE r == [WithEvents(live.run, 2) EXCEPT !.recovery = "stopped"]
  <2>1. r \in RunStates /\ r.recovery = "stopped" /\ r.used = live.run.used
        /\ r.events = live.run.events + 2
    <3>1. WithEvents(live.run, 2) \in RunStates
      BY <1>0, RunStateTypes
    <3> QED
      BY <1>0, <3>1 DEF RunStates, Statuses, WithEvents
  <2>2. Terminate("PAUSED", r, "failure") /\ live.pc = "approval"
    BY <1>3 DEF Defer
  <2> HIDE DEF r
  <2>3. Running
    BY <2>2 DEF Running
  <2>4. Accepts(checkpoint, "PAUSED", r)
    BY <1>0, <2>1, <2>2, <2>3
       DEF Truthful, RecordInv, PhaseInv, EventsInv, Accepts, MayBecome, Transitions, Terminal
  <2> QED
    BY <2>1, <2>2, <2>3, <2>4, EndedRecords DEF Truthful, RecordInv, EventsInv
<1>4. ASSUME NEW how \in {"failure", "cancel"}, Terminate("UNKNOWN_OUTCOME", live.run, how),
             Dispatching, Running
      PROVE  Truthful'
  <2>1. Accepts(checkpoint, "UNKNOWN_OUTCOME", live.run)
    BY <1>4 DEF Truthful, RecordInv, PhaseInv, EventsInv, Accepts, MayBecome, Transitions, Terminal
  <2> QED
    BY <1>0, <1>4, <2>1, EndedRecords DEF Truthful, RecordInv, EventsInv, Terminal
<1>5. CASE RefuseResult
  <2>1. Running /\ Dispatching
    BY <1>5 DEF RefuseResult, Running, Dispatching, About
  <2> QED
    BY <1>4, <1>5, <2>1, FailRecords DEF RefuseResult
<1>6. CASE SettleUnknown
  <2>1. Running /\ Dispatching
    BY <1>6 DEF SettleUnknown, Running, Dispatching
  <2> QED
    BY <1>4, <1>6, <2>1 DEF SettleUnknown, EndUnknown
<1>7. ASSUME NEW phase \in {"FAILED", "CANCELLED"}, NEW how \in {"error", "cancel"},
             Terminate(phase, live.outer, how), Running,
             live.outer = live.run \/ live.outer.events < checkpoint.events
      PROVE  Truthful'
  BY <1>0, <1>7, EndedRecords DEF Truthful, RecordInv, EventsInv, Terminal
<1>8. CASE WriteFails
  <2>1. live.pc = "write" /\ Running /\ live.at.kind \in {"provider", "tool"}
    BY <1>0, <1>8 DEF WriteFails, Running, RunInv, StepInv, Runners, Boundaries
  <2>2. CASE live.at.kind = "provider" \/ live.at.stage # "completed"
    <3>1. Fail(live.run) \/ Fail(WithEvents(live.run, 1))
      BY <1>8, <2>1, <2>2 DEF WriteFails
    <3> QED
      BY <2>1, <3>1, FailRecords
  <2>3. CASE live.at.kind = "tool" /\ live.at.stage = "completed"
    <3>1. Dispatching /\ live.outer.events < checkpoint.events
      BY <2>1, <2>3 DEF Dispatching, About, Truthful, RecordInv, EventsInv
    <3>2. EndUnknown \/ Terminate("FAILED", live.outer, "error")
      BY <1>8, <2>3 DEF WriteFails
    <3> QED
      BY <1>4, <1>7, <2>1, <3>1, <3>2 DEF EndUnknown
  <2> QED
    BY <2>1, <2>2, <2>3
<1>9. CASE Cancel
  <2>1. Running /\ Terminate("CANCELLED", live.outer, "cancel")
    BY <1>9 DEF Cancel, Running
  <2>2. live.pc = "sending" => live.at.kind \in {"provider", "tool"}
    BY <1>0 DEF RunInv, StepInv, Runners, Boundaries
  <2>3. live.outer = live.run \/ live.outer.events < checkpoint.events
    <3>1. EventsInv
      BY DEF Truthful, RecordInv
    <3>2. CASE live.pc \in {"discover", "asking", "finish"}
      BY <3>1, <3>2 DEF EventsInv
    <3>3. CASE live.pc \in {"approval", "waiting"}
      BY <3>1, <3>3 DEF EventsInv, Dispatching
    <3>4. CASE live.pc = "sending"
      BY <2>2, <3>1, <3>4 DEF EventsInv, Dispatching, About
    <3> QED
      BY <1>9, <3>2, <3>3, <3>4 DEF Cancel
  <2> QED
    BY <1>7, <2>1, <2>3
<1> QED
  BY <1>1, <1>2, <1>3, <1>5, <1>6, <1>8, <1>9

(* The runner is gone, or its continuation is, and nothing else changes.   *)
LEMMA OffRecord ==
  ASSUME TypeOK, RunInv, Truthful,
         live'.pc \in {"closing", "gone"}, wal' \in {wal, NoWal},
         live'.pc = "closing" => ending' \notin {"success", "failure"},
         UNCHANGED <<checkpoint, cmd, sent, open, stale>>
  PROVE  Truthful'
<1>1. ~Running' /\ ~At("absent")'
  BY DEF Running, At
<1>2. CallsSent' = CallsSent /\ ActsSent' = ActsSent
  BY CountKept
<1>3. PhaseInv'
  BY <1>1 DEF Truthful, RecordInv, PhaseInv, Fresh, At, About, Dispatching
<1>4. EventsInv' /\ AheadInv'
  BY <1>1 DEF Truthful, RecordInv, EventsInv, AheadInv, Barred, At, About, Dispatching
<1>5. ChargeInv'
  BY <1>1, <1>2 DEF Truthful, RecordInv, ChargeInv, Covers, About, NoWal, Boundary
<1>6. RecoverInv'
  BY <1>2 DEF Truthful, RecordInv, RecoverInv, Covers
<1>7. StaleInv'
  BY <1>1 DEF Truthful, RecordInv, StaleInv, Lost
<1>8. SuccessIsCertain' /\ FailureRecorded'
  BY DEF Truthful, SuccessIsCertain, FailureRecorded, At
<1> QED
  BY <1>3, <1>4, <1>5, <1>6, <1>7, <1>8 DEF Truthful, RecordInv

(* The recorder fails, the continuation is deleted, the process dies.      *)
LEMMA GoneSteps ==
  ASSUME TypeOK, RunInv, Truthful, RecordFails \/ DeleteWal \/ Crash
  PROVE  Truthful'
<1>1. CASE RecordFails
  BY <1>1, OffRecord DEF RecordFails, Leave, NotRunning
<1>2. CASE DeleteWal
  BY <1>2, OffRecord DEF DeleteWal, Goto, TypeOK, Runners, history
<1>3. CASE Crash
  BY <1>3, OffRecord DEF Crash, NotRunning
<1> QED
  BY <1>1, <1>2, <1>3

(* A run starts, or starts again before its first request.                 *)
LEMMA BegunRecords ==
  ASSUME TypeOK, RunInv, Truthful, TypeOK', RunInv', Start \/ Resume
  PROVE  Truthful'
<1>1. cmd.pc = "idle" /\ cmd' = cmd /\ Fresh /\ UNCHANGED <<wal, sent, open, stale>>
  BY DEF Start, Resume, RunInv, LockInv, Truthful, RecordInv, PhaseInv, disk, history
<1>2. /\ live'.pc = "created" /\ live'.run = FreshRun /\ live'.outer = FreshRun
      /\ checkpoint'.phase \in {"CREATED", "OBSERVING"} /\ checkpoint'.seq > 0
      /\ checkpoint'.events = 1 /\ checkpoint'.used = Unused
  <2>1. CASE Start
    BY <2>1 DEF Start, Goto, At, NotRunning, Truthful, RecordInv, PhaseInv, Recorded, Checkpoint,
                Absent, FreshRun
  <2>2. CASE Resume
    BY <2>2 DEF Resume, NotRunning, ResumeAllowed, disk
  <2> QED
    BY <2>1, <2>2
<1>3. CallsSent' = 0 /\ ActsSent' = 0
  <2>1. sent' = <<>>
    BY <1>1 DEF Fresh
  <2>2. ASSUME NEW S PROVE {i \in DOMAIN sent' : sent'[i].effect \in S} = {}
    BY <2>1
  <2> QED
    BY <2>2, FS_EmptySet DEF CallsSent, ActsSent, Count
<1>4. PhaseInv'
  BY <1>1, <1>2 DEF PhaseInv, Fresh, At, About, Dispatching, Running
<1>5. EventsInv'
  BY <1>2 DEF EventsInv, At, About, Dispatching, FreshRun, Unused
<1>6. AheadInv'
  BY <1>1, <1>2 DEF AheadInv, Fresh, At, FreshRun, NoWal, TypeOK, Checkpoints
<1>7. ChargeInv'
  BY <1>1, <1>2, <1>3 DEF ChargeInv, Covers, Fresh, At, About, Unused, NoWal, Boundary
<1>8. RecoverInv' /\ StaleInv'
  BY <1>1 DEF RecoverInv, StaleInv, Fresh
<1>9. SuccessIsCertain' /\ FailureRecorded'
  BY <1>2 DEF SuccessIsCertain, FailureRecorded, At
<1> QED
  BY <1>4, <1>5, <1>6, <1>7, <1>8, <1>9 DEF Truthful, RecordInv

(* What the recorder has on disk after a phase.                            *)
LEMMA RecordView ==
  ASSUME TypeOK, Truthful, Running, NEW phase, NEW r, Record(phase, r)
  PROVE  /\ checkpoint'.phase = phase /\ checkpoint'.seq = checkpoint.seq
         /\ checkpoint'.events = r.events /\ checkpoint'.used = r.used
         /\ checkpoint'.recovery = r.recovery
         /\ UNCHANGED <<wal, cmd, sent, open, ending>>
         /\ CallsSent' = CallsSent /\ ActsSent' = ActsSent
BY CountKept DEF Record, Recorded, Checkpoint, Truthful, RecordInv, PhaseInv

(* A phase is recorded before or after a request.                          *)
LEMMA PlainRecords ==
  ASSUME TypeOK, RunInv, Truthful, RunInv', Observe \/ Discover \/ AskApproval \/ Execute
  PROVE  Truthful'
<1> USE DEF At, Goto
<1>0. live \in Runners /\ Running
  BY DEF TypeOK, Observe, Discover, AskApproval, Execute, Running
<1>1. PICK phase \in {"OBSERVING", "PLANNING", "WAITING_APPROVAL", "EXECUTING"} :
        /\ Record(phase, live.run) /\ UNCHANGED stale
        /\ \/ /\ live.pc = "created" /\ live' = [live EXCEPT !.pc = "discover"]
              /\ phase = "OBSERVING"
           \/ /\ live.pc = "discover" /\ live' = [live EXCEPT !.pc = "loop"]
              /\ phase = "PLANNING"
           \/ /\ live.pc = "authorize" /\ live' = [live EXCEPT !.pc = "approval"]
              /\ phase = "WAITING_APPROVAL"
           \/ /\ live.pc = "execute" /\ live' = [live EXCEPT !.pc = "prepare"]
              /\ phase = "EXECUTING"
  BY DEF Observe, Discover, AskApproval, Execute
<1>2. /\ live'.run = live.run /\ live'.outer = live.outer /\ live'.calls = live.calls
      /\ live'.pc \in {"discover", "loop", "approval", "prepare"}
      /\ live.pc = "created" <=> live'.pc = "discover"
      /\ live.pc = "discover" <=> live'.pc = "loop"
      /\ live.pc = "authorize" <=> live'.pc = "approval"
      /\ live.pc = "execute" <=> live'.pc = "prepare"
  BY <1>0, <1>1 DEF Runners
<1>3. /\ checkpoint'.phase = phase /\ checkpoint'.seq = checkpoint.seq
      /\ checkpoint'.events = live.run.events /\ checkpoint'.used = live.run.used
      /\ checkpoint'.recovery = live.run.recovery
      /\ UNCHANGED <<wal, cmd, sent, open, ending, stale>>
      /\ CallsSent' = CallsSent /\ ActsSent' = ActsSent
  BY <1>0, <1>1, RecordView
<1>4. PhaseInv'
  BY <1>1, <1>2, <1>3, Numbers
     DEF Truthful, RecordInv, PhaseInv, EventsInv, ResumeAllowed, Fresh, About, Dispatching, Running
<1>5. EventsInv'
  BY <1>0, <1>1, <1>2, <1>3, Numbers
     DEF Truthful, RecordInv, EventsInv, About, Dispatching, Running
<1>6. AheadInv'
  BY <1>0, <1>1, <1>2, <1>3
     DEF Truthful, RecordInv, PhaseInv, AheadInv, Fresh, NoWal, Boundary, Running
<1>7. ChargeInv'
  <2>2. Covers(checkpoint.used, {})'
    BY <1>0, <1>3, Numbers DEF Covers, Truthful, RecordInv, EventsInv, ChargeInv
  <2>3. wal'.at.stage # "prepared"
    BY <1>0, <1>1, <1>3
       DEF Truthful, RecordInv, PhaseInv, AheadInv, Fresh, NoWal, Boundary
  <2>4. /\ Call' = Call /\ live'.run = live.run
        /\ live'.pc = "prepare" => live.pc = "execute"
        /\ live'.pc = "approval" => live.pc = "authorize"
        /\ live'.pc \notin {"authorize", "execute", "write", "intent", "sending"}
    BY <1>2 DEF Call
  <2> QED
    BY <1>3, <2>2, <2>3, <2>4 DEF Truthful, RecordInv, ChargeInv, Covers, About, Boundary
<1>8. Running'
  BY <1>2 DEF Running
<1> QED
  BY <1>0, <1>2, <1>3, <1>4, <1>5, <1>6, <1>7, <1>8, StillRunning
     DEF Truthful, RecordInv, StaleInv, Lost

(* The charged run state: what a decision or a call adds to it.            *)
LEMMA ChargedView ==
  ASSUME NEW r \in RunStates, NEW n \in Nat
  PROVE  /\ WithEvents(r, n).events = r.events + n /\ WithEvents(r, n).used = r.used
         /\ WithEvents(r, n).recovery = r.recovery
         /\ Charged(r, "calls").events = r.events /\ Charged(r, "calls").recovery = r.recovery
         /\ Charged(r, "calls").used.calls = r.used.calls + 1
         /\ Charged(r, "calls").used.acts = r.used.acts
         /\ ChargedAct(r).events = r.events + 1 /\ ChargedAct(r).recovery = r.recovery
         /\ ChargedAct(r).used.calls = r.used.calls
         /\ ChargedAct(r).used.acts = r.used.acts + 1
BY DEF WithEvents, Charged, ChargedAct, RunStates, Budgets

(* The operator's decision about an action.                                *)
LEMMA DecisionRecords ==
  ASSUME TypeOK, RunInv, Truthful, RunInv', Approve \/ Reobserve
  PROVE  Truthful'
<1> USE DEF At, Goto
<1>0. live \in Runners /\ live.run \in RunStates /\ Running /\ live.pc = "approval"
  BY DEF TypeOK, Runners, Approve, Reobserve, Running
<1>1. CASE Approve
  <2> DEFINE r == ChargedAct(live.run)
             s == WithEvents(live.run, 1)
  <2>1. /\ live' = [live EXCEPT !.pc = "execute", !.run = r]
        /\ Record("WAITING_APPROVAL", s) /\ stale' = stale
    BY <1>1 DEF Approve
  <2>2. /\ r.events = live.run.events + 1 /\ r.recovery = live.run.recovery
        /\ r.used.calls = live.run.used.calls /\ r.used.acts = live.run.used.acts + 1
        /\ s.events = live.run.events + 1 /\ s.recovery = live.run.recovery
        /\ s.used = live.run.used
    BY <1>0, ChargedView
  <2> HIDE DEF r, s
  <2>3. /\ checkpoint'.phase = "WAITING_APPROVAL" /\ checkpoint'.seq = checkpoint.seq
        /\ checkpoint'.events = s.events /\ checkpoint'.used = s.used
        /\ checkpoint'.recovery = s.recovery
        /\ UNCHANGED <<wal, cmd, sent, open, ending>>
        /\ CallsSent' = CallsSent /\ ActsSent' = ActsSent
    BY <1>0, <2>1, RecordView
  <2>4. /\ live'.run = r /\ live'.outer = live.outer /\ live'.calls = live.calls
        /\ live'.pc = "execute"
    BY <1>0, <2>1 DEF Runners
  <2>5. PhaseInv'
    BY <1>0, <2>3, <2>4, Numbers
       DEF Truthful, RecordInv, PhaseInv, ResumeAllowed, About, Dispatching
  <2>6. EventsInv'
    BY <1>0, <2>2, <2>3, <2>4, Numbers
       DEF Truthful, RecordInv, EventsInv, About, Dispatching
  <2>7. AheadInv'
    BY <1>0, <2>2, <2>3, <2>4 DEF Truthful, RecordInv, AheadInv
  <2>8. ChargeInv'
    <3>1. Covers(live.run.used, {"observation"}) /\ wal.at.stage # "prepared"
      BY <1>0 DEF Truthful, RecordInv, ChargeInv, AheadInv
    <3>2. Covers(live.run.used, {Call})' /\ Covers(checkpoint.used, {})'
      BY <2>2, <2>3, <2>4, <3>1, Numbers DEF Covers
    <3> QED
      BY <2>3, <2>4, <3>1, <3>2 DEF ChargeInv, About, Boundary
  <2>9. stale => live.run.recovery # "ready"
    BY <1>0 DEF Truthful, RecordInv, StaleInv
  <2> QED
    BY <1>0, <2>1, <2>2, <2>3, <2>4, <2>5, <2>6, <2>7, <2>8, <2>9, StillRunning DEF Running
<1>2. CASE Reobserve
  <2> DEFINE r == [WithEvents(live.run, 2) EXCEPT !.verified = FALSE,
                        !.recovery = "requires_reobservation"]
  <2>1. /\ live' = [live EXCEPT !.pc = "loop", !.run = r, !.outer = r, !.calls = <<>>,
                                !.grounded = FALSE]
        /\ Record("PLANNING", r)
    BY <1>2 DEF Reobserve
  <2>2. /\ r.events = live.run.events + 2 /\ r.recovery = "requires_reobservation"
        /\ r.used = live.run.used
    BY <1>0 DEF WithEvents, RunStates
  <2> HIDE DEF r
  <2>3. /\ checkpoint'.phase = "PLANNING" /\ checkpoint'.seq = checkpoint.seq
        /\ checkpoint'.events = r.events /\ checkpoint'.used = r.used
        /\ checkpoint'.recovery = r.recovery
        /\ UNCHANGED <<wal, cmd, sent, open, ending>>
        /\ CallsSent' = CallsSent /\ ActsSent' = ActsSent
    BY <1>0, <2>1, RecordView
  <2>4. live'.run = r /\ live'.outer = r /\ live'.pc = "loop"
    BY <1>0, <2>1 DEF Runners
  <2>5. PhaseInv'
    BY <1>0, <2>3, <2>4, Numbers
       DEF Truthful, RecordInv, PhaseInv, ResumeAllowed, About, Dispatching
  <2>6. EventsInv'
    BY <1>0, <2>2, <2>3, <2>4, Numbers
       DEF Truthful, RecordInv, EventsInv, About, Dispatching
  <2>7. AheadInv'
    BY <1>0, <2>2, <2>3, <2>4 DEF Truthful, RecordInv, AheadInv
  <2>8. ChargeInv'
    <3>1. Covers(live.run.used, {"observation"}) /\ wal.at.stage # "prepared"
      BY <1>0 DEF Truthful, RecordInv, ChargeInv, AheadInv
    <3>2. Covers(checkpoint.used, {})'
      BY <2>2, <2>3, <3>1, Numbers DEF Covers
    <3> QED
      BY <2>3, <2>4, <3>1, <3>2 DEF ChargeInv, About, Boundary
  <2> QED
    BY <1>0, <2>1, <2>2, <2>3, <2>4, <2>5, <2>6, <2>7, <2>8, StillRunning DEF Running
<1> QED
  BY <1>1, <1>2

(* The phases recorded after a result.                                     *)
LEMMA SettledRecords ==
  ASSUME TypeOK, RunInv, Truthful, RunInv', Settle \/ Replan
  PROVE  Truthful'
<1> USE DEF At, Goto
<1>0. live \in Runners /\ live.run \in RunStates /\ Running
  BY DEF TypeOK, Runners, Settle, Replan, Running
<1>1. PICK phase \in {"OBSERVING", "VERIFYING", "PLANNING"} :
        /\ Record(phase, live.run) /\ UNCHANGED stale
        /\ \/ /\ live.pc = "settle" /\ live'.pc = "replan" /\ live'.outer = live.outer
              /\ live'.run = live.run /\ live.run.recovery # "unknown_outcome"
           \/ /\ live.pc = "replan" /\ live'.pc \in {"loop", "call"}
              /\ live'.run = live.run /\ live'.outer = live.run
              /\ phase = "PLANNING"
  <2>1. CASE Settle
    BY <1>0, <2>1 DEF Settle, SettledPhase, Unknown, Runners
  <2>2. CASE Replan
    BY <1>0, <2>2 DEF Replan, Runners
  <2> QED
    BY <2>1, <2>2
<1>2. /\ checkpoint'.phase = phase /\ checkpoint'.seq = checkpoint.seq
      /\ checkpoint'.events = live.run.events /\ checkpoint'.used = live.run.used
      /\ checkpoint'.recovery = live.run.recovery
      /\ UNCHANGED <<wal, cmd, sent, open, ending, stale>>
      /\ CallsSent' = CallsSent /\ ActsSent' = ActsSent
  BY <1>0, <1>1, RecordView
<1>3. PhaseInv'
  <2>1. live.run.events > 1 \/ phase # "OBSERVING"
    BY <1>0, <1>1, Numbers DEF Truthful, RecordInv, EventsInv, Dispatching
  <2> QED
    BY <1>0, <1>1, <1>2, <2>1, Numbers
       DEF Truthful, RecordInv, PhaseInv, ResumeAllowed, About, Dispatching
<1>4. EventsInv'
  BY <1>0, <1>1, <1>2, Numbers
     DEF Truthful, RecordInv, EventsInv, About, Dispatching
<1>5. AheadInv'
  BY <1>0, <1>1, <1>2 DEF Truthful, RecordInv, AheadInv
<1>6. ChargeInv'
  <2>1. Covers(checkpoint.used, {}) /\ wal.at.stage # "prepared"
    BY <1>0, <1>1 DEF Truthful, RecordInv, ChargeInv, AheadInv
  <2>2. Covers(checkpoint.used, {})'
    BY <1>0, <1>2, <2>1, Numbers DEF Covers, Truthful, RecordInv, EventsInv
  <2> QED
    BY <1>1, <1>2, <2>1, <2>2 DEF ChargeInv, About, Boundary
<1>7. stale => live.run.recovery # "ready"
  BY <1>0 DEF Truthful, RecordInv, StaleInv
<1> QED
  BY <1>0, <1>1, <1>2, <1>3, <1>4, <1>5, <1>6, <1>7, StillRunning DEF Running

(* What is on disk when the runner moves to its next boundary.             *)
LEMMA AdvanceView ==
  ASSUME TypeOK, NEW l \in Runners, NEW boundary, NEW news, AdvanceTo(l, boundary, news),
         UNCHANGED sent
  PROVE  /\ checkpoint'.phase = checkpoint.phase /\ checkpoint'.seq = checkpoint.seq + 1
         /\ checkpoint'.events = l.run.events /\ checkpoint'.used = l.run.used
         /\ checkpoint'.recovery = l.run.recovery
         /\ live'.pc = "write" /\ live'.run = l.run /\ live'.outer = l.outer
         /\ live'.at = boundary /\ live'.news = news /\ live'.calls = l.calls
         /\ UNCHANGED <<wal, cmd>>
         /\ CallsSent' = CallsSent /\ ActsSent' = ActsSent
BY CountKept DEF AdvanceTo, Sequenced, Checkpoint, Runners

(* A step to the next boundary: the checkpoint takes over the runner's     *)
(* state, and the continuation is behind it until the boundary is written. *)
LEMMA BoundaryRecords ==
  ASSUME TypeOK, RunInv, Truthful, RunInv', Running, NEW l \in Runners, NEW boundary, NEW news,
         AdvanceTo(l, boundary, news), UNCHANGED <<sent, open, ending>>,
         checkpoint.events <= l.run.events, l.outer.events > 0,
         checkpoint.used.calls <= l.run.used.calls, checkpoint.used.acts <= l.run.used.acts,
         \/ /\ boundary.kind = "provider" /\ checkpoint.phase = "PLANNING"
            /\ l.outer = l.run
         \/ /\ boundary.kind = "tool" /\ checkpoint.phase = "EXECUTING"
            /\ l.outer.events < l.run.events
            /\ boundary.stage # "completed" => Covers(l.run.used, {Head(l.calls)}),
         AheadInv', stale' => l.run.recovery # "ready"
  PROVE  Truthful'
<1>1. /\ checkpoint'.phase = checkpoint.phase /\ checkpoint'.seq = checkpoint.seq + 1
      /\ checkpoint'.events = l.run.events /\ checkpoint'.used = l.run.used
      /\ checkpoint'.recovery = l.run.recovery
      /\ live'.pc = "write" /\ live'.run = l.run /\ live'.outer = l.outer
      /\ live'.at = boundary /\ live'.calls = l.calls
      /\ UNCHANGED <<wal, cmd>>
      /\ CallsSent' = CallsSent /\ ActsSent' = ActsSent
  BY AdvanceView
<1>2. l.run.used \in Budgets /\ l.run.events \in Nat
  BY DEF Runners, RunStates
<1>3. Running' /\ wal.seq < checkpoint'.seq
  BY <1>1, Numbers DEF Running, Truthful, RecordInv, AheadInv
<1>4. PhaseInv'
  BY <1>1, Numbers
     DEF Truthful, RecordInv, PhaseInv, ResumeAllowed, At, About, Dispatching, Running
<1>5. EventsInv'
  BY <1>1, <1>2, BudgetAssumption DEF EventsInv, At, About, Dispatching, Budgets
<1>6. ChargeInv'
  <2>1. Covers(checkpoint.used, {})'
    BY <1>1, <1>2, Numbers, BudgetAssumption
       DEF Truthful, RecordInv, ChargeInv, Covers, Budgets
  <2>2. About("tool")' /\ live'.at.stage # "completed" => Covers(checkpoint.used, {Call})'
    BY <1>1 DEF About, Covers, Call
  <2>3. wal'.seq # checkpoint'.seq
    BY <1>1, <1>3, Numbers
  <2> QED
    BY <1>1, <2>1, <2>2, <2>3 DEF ChargeInv, At
<1> QED
  BY <1>1, <1>3, <1>4, <1>5, <1>6, StillRunning

(* The next boundary of a provider turn.                                   *)
LEMMA TurnBoundaries ==
  ASSUME TypeOK, RunInv, Truthful, RunInv',
         BeginTurn \/ \E calls \in Turns : Answer(calls)
  PROVE  Truthful'
<1> USE DEF At, Goto
<1>0. live \in Runners /\ live.run \in RunStates
  BY DEF TypeOK, Runners
<1>1. CASE BeginTurn
  <2>1. /\ live.pc = "loop" /\ Running /\ AdvanceTo(live, Boundary("provider", "prepared"), <<>>)
        /\ UNCHANGED <<sent, open, stale, ending>>
    BY <1>1 DEF BeginTurn, Running, history
  <2>2. AheadInv'
    BY <1>0, <2>1, AdvanceView, Numbers DEF Truthful, RecordInv, AheadInv, Boundary
  <2> QED
    BY <1>0, <2>1, <2>2, BoundaryRecords, Numbers
       DEF Boundary, Truthful, RecordInv, PhaseInv, EventsInv, StaleInv
<1>2. ASSUME NEW calls \in Turns, Answer(calls)
      PROVE  Truthful'
  <2> DEFINE r == WithEvents(Charged(live.run, "turns"), 1)
             l == [live EXCEPT !.run = r, !.outer = r, !.calls = calls]
  <2>1. /\ live.pc = "asking" /\ Running
        /\ AdvanceTo(l, Boundary("provider", "completed"), <<TurnEvent(calls)>>)
        /\ UNCHANGED <<sent, open, stale, ending>>
    BY <1>2 DEF Answer, Running, history
  <2>2. /\ r \in RunStates /\ r.events = live.run.events + 1 /\ r.recovery = live.run.recovery
        /\ r.used.calls = live.run.used.calls /\ r.used.acts = live.run.used.acts
    <3>1. live.run.used.turns < MaxTurns
      BY <2>1 DEF RunInv, StepInv, Unanswered
    <3>2. Charged(live.run, "turns") \in RunStates
      BY <1>0, <3>1, RunStateTypes
    <3>3. r \in RunStates
      BY <3>2, RunStateTypes
    <3> QED
      BY <1>0, <3>3 DEF WithEvents, Charged, RunStates, Budgets
  <2>3. l \in Runners /\ l.run = r /\ l.outer = r
    <3>1. calls \in Seq(Effects)
      BY TurnsAssumption
    <3> HIDE DEF r
    <3> QED
      BY <1>0, <2>2, <3>1 DEF Runners
  <2> HIDE DEF r, l
  <2>4. AheadInv'
    BY <2>1, <2>2, <2>3, AdvanceView, Numbers DEF Truthful, RecordInv, AheadInv, Boundary
  <2>5. /\ checkpoint.events <= r.events /\ r.events > 0
        /\ checkpoint.used.calls <= r.used.calls /\ checkpoint.used.acts <= r.used.acts
        /\ checkpoint.phase = "PLANNING"
        /\ stale' => r.recovery # "ready"
    BY <2>1, <2>2, Numbers DEF Truthful, RecordInv, PhaseInv, EventsInv, StaleInv
  <2> QED
    BY <2>1, <2>3, <2>4, <2>5, BoundaryRecords DEF Boundary
<1> QED
  BY <1>1, <1>2

(* The boundary before a dispatch, and that of a call.                     *)
LEMMA DispatchBoundaries ==
  ASSUME TypeOK, RunInv, Truthful, RunInv', Intend \/ Prepare
  PROVE  Truthful'
<1> USE DEF At, Goto
<1>0. live \in Runners /\ live.run \in RunStates /\ live.at \in Boundaries
  BY DEF TypeOK, Runners
<1>1. CASE Intend
  <2> DEFINE at == [live.at EXCEPT !.stage = "dispatch_intent"]
  <2>1. /\ live.pc = "intent" /\ Running /\ AdvanceTo(live, at, <<>>)
        /\ UNCHANGED <<sent, open, stale, ending>>
    BY <1>1 DEF Intend, Running, history
  <2>2. at.kind = live.at.kind /\ at.stage = "dispatch_intent" /\ live.at.kind \in {"provider", "tool"}
        /\ live.at.stage = "prepared"
    BY <1>0, <2>1 DEF Boundaries, RunInv, StepInv, Truthful, RecordInv, AheadInv
  <2> HIDE DEF at
  <2>3. AheadInv'
    BY <1>0, <2>1, <2>2, AdvanceView, Numbers, SMTT(30)
       DEF Truthful, RecordInv, AheadInv, Boundary, Running
  <2>4. \/ /\ at.kind = "provider" /\ checkpoint.phase = "PLANNING"
           /\ live.outer = live.run
        \/ /\ at.kind = "tool" /\ checkpoint.phase = "EXECUTING"
           /\ live.outer.events < live.run.events
           /\ Covers(live.run.used, {Head(live.calls)})
    <3>1. CASE live.at.kind = "provider"
      BY <2>1, <2>2, <3>1 DEF Truthful, RecordInv, PhaseInv, EventsInv, About
    <3>2. CASE live.at.kind = "tool"
      <4>1. /\ checkpoint.phase = "EXECUTING" /\ live.outer.events < live.run.events
            /\ Covers(checkpoint.used, {Head(live.calls)})
            /\ checkpoint.used.calls <= live.run.used.calls
            /\ checkpoint.used.acts <= live.run.used.acts
        BY <2>1, <2>2, <3>2, Numbers
           DEF Truthful, RecordInv, PhaseInv, EventsInv, ChargeInv, About, Dispatching, Call
      <4>2. checkpoint.used \in Budgets /\ live.run.used \in Budgets
        BY <1>0 DEF TypeOK, Checkpoints, RunStates
      <4> QED
        BY <2>2, <3>2, <4>1, <4>2, CoversMore
    <3> QED
      BY <2>2, <3>1, <3>2
  <2> QED
    BY <1>0, <2>1, <2>3, <2>4, BoundaryRecords, Numbers
       DEF Truthful, RecordInv, EventsInv, StaleInv
<1>2. CASE Prepare
  <2>1. /\ live.pc = "prepare" /\ Running
        /\ AdvanceTo(live, Boundary("tool", "prepared"), <<CallEvent(Call)>>)
        /\ UNCHANGED <<sent, open, stale, ending>>
    BY <1>2 DEF Prepare, Running, history
  <2>2. AheadInv'
    BY <1>0, <2>1, AdvanceView, Numbers DEF Truthful, RecordInv, AheadInv, Boundary
  <2>3. /\ checkpoint.phase = "EXECUTING" /\ live.outer.events < live.run.events
        /\ Covers(live.run.used, {Head(live.calls)})
    BY <2>1, Numbers
       DEF Truthful, RecordInv, PhaseInv, EventsInv, ChargeInv, Dispatching, Call
  <2> QED
    BY <1>0, <2>1, <2>2, <2>3, BoundaryRecords, Numbers
       DEF Boundary, Truthful, RecordInv, EventsInv, StaleInv
<1> QED
  BY <1>1, <1>2

(* The result of a call.                                                   *)
LEMMA CompletedRecords ==
  ASSUME TypeOK, RunInv, Truthful, RunInv', NEW outcome \in Outcomes, NEW dying \in BOOLEAN,
         CompleteCall(outcome, dying),
         live.pc = "waiting" \/ (live.pc = "sending" /\ live.at.kind = "tool"),
         outcome = "unknown" => live.pc = "waiting",
         stale' => StatusAfter(Call, outcome, live.run.recovery) # "ready"
  PROVE  Truthful'
<1> DEFINE r == RecordResult(live.run, Call, outcome)
           l == [live EXCEPT !.run = r,
                             !.grounded = VerifiedAfter(Call, outcome, @), !.dying = dying]
           news == <<ResultEvent(outcome)>>
<1>0. live \in Runners /\ live.run \in RunStates /\ live.calls # <<>> /\ Running
  BY DEF TypeOK, Runners, RunInv, StepInv, InCall, Undispatched, Running
<1>1. Call \in Effects
  BY <1>0 DEF Call, Runners
<1>2. /\ r \in RunStates /\ r.used = live.run.used
      /\ r.recovery = StatusAfter(Call, outcome, live.run.recovery)
      /\ r.events > live.run.events
  <2>1. r \in RunStates
    BY <1>0, <1>1, ResultTypes
  <2> QED
    BY <1>0, <2>1 DEF RecordResult, WithEvents, RunStates
<1>3. AdvanceTo(l, Boundary("tool", "completed"), news) /\ UNCHANGED <<sent, open, ending>>
  BY DEF CompleteCall
<1>4. l \in Runners /\ l.run = r /\ l.outer = live.outer
  <2>1. VerifiedAfter(Call, outcome, live.grounded) \in BOOLEAN
    BY <1>0 DEF VerifiedAfter, Seen, Unsettles, Runners
  <2> HIDE DEF r
  <2> QED
    BY <1>0, <1>2, <2>1 DEF Runners
<1>5. /\ live.run.recovery \notin {"unknown_outcome", "stopped"}
      /\ r.recovery # "stopped"
      /\ r.recovery = "unknown_outcome" => outcome = "unknown"
  BY <1>0, <1>2 DEF StatusAfter, Truthful, RecordInv, AheadInv, At
<1>6. /\ checkpoint.phase = "EXECUTING" /\ live.outer.events < checkpoint.events
      /\ checkpoint.events <= live.run.events /\ live.outer.events > 0
      /\ checkpoint.used.calls <= live.run.used.calls
      /\ checkpoint.used.acts <= live.run.used.acts
  BY <1>0 DEF Truthful, RecordInv, PhaseInv, EventsInv, Dispatching, About
<1> HIDE DEF r, l, news
<1>7. AheadInv'
  <2>1. /\ live'.pc = "write" /\ live'.run = r /\ live'.at = Boundary("tool", "completed")
        /\ live'.news = news /\ UNCHANGED wal /\ checkpoint'.seq = checkpoint.seq + 1
    BY <1>3, <1>4, AdvanceView
  <2>2. wal.at.stage = "dispatch_intent" /\ wal.seq <= checkpoint.seq
    BY <1>0 DEF Truthful, RecordInv, AheadInv
  <2>3. open' => Barred(wal)'
    BY <1>3, <2>1 DEF Truthful, RecordInv, AheadInv, Barred
  <2>4. news = <<ResultEvent("unknown")>> \/ outcome # "unknown"
    BY DEF news
  <2> QED
    BY <1>5, <2>1, <2>2, <2>3, <2>4, Numbers DEF AheadInv, At, Boundary
<1>8. /\ checkpoint.events <= r.events /\ live.outer.events < r.events
  BY <1>0, <1>2, <1>6, Numbers DEF RunStates
<1> QED
  BY <1>0, <1>2, <1>3, <1>4, <1>6, <1>7, <1>8, BoundaryRecords DEF Boundary

(* A call is not entered, or returns.                                      *)
LEMMA ReturnedRecords ==
  ASSUME TypeOK, RunInv, Truthful, RunInv',
         \/ NotEntered
         \/ \E outcome \in Outcomes, dying \in BOOLEAN : Return(outcome, dying)
  PROVE  Truthful'
<1> USE DEF At
<1>0. live \in Runners /\ live.run \in RunStates /\ stale \in BOOLEAN
  BY DEF TypeOK, Runners
<1>1. ASSUME Running, live.calls # <<>>, NEW outcome \in Outcomes
      PROVE  /\ Call \in Effects
             /\ StaleAfter(Call, outcome) => StatusAfter(Call, outcome, live.run.recovery) # "ready"
  <2>1. Call \in Effects
    BY <1>0, <1>1 DEF Call, Runners
  <2>2. stale => live.run.recovery # "ready"
    BY <1>1 DEF Truthful, RecordInv, StaleInv
  <2> QED
    BY <1>0, <2>1, <2>2 DEF StaleAfter, StatusAfter, Seen, Unsettles, Effects
<1>2. CASE NotEntered
  <2>1. Running /\ live.calls # <<>> /\ "rejected" \in Outcomes /\ stale' = stale
    BY <1>2 DEF NotEntered, Running, RunInv, StepInv, InCall, Undispatched, Outcomes
  <2>2. stale => live.run.recovery # "ready"
    BY <2>1 DEF Truthful, RecordInv, StaleInv
  <2>3. stale' => StatusAfter(Call, "rejected", live.run.recovery) # "ready"
    BY <2>1, <2>2 DEF StatusAfter, Seen, Unsettles
  <2> QED
    BY <1>2, <2>1, <2>3, CompletedRecords DEF NotEntered
<1>3. ASSUME NEW outcome \in Outcomes, NEW dying \in BOOLEAN, Return(outcome, dying)
      PROVE  Truthful'
  <2>1. live.pc = "waiting" /\ CompleteCall(outcome, dying) /\ stale' = StaleAfter(Call, outcome)
    BY <1>3 DEF Return
  <2>2. Running /\ live.calls # <<>>
    BY <2>1 DEF Running, RunInv, StepInv, InCall
  <2> QED
    BY <1>1, <2>1, <2>2, CompletedRecords
<1> QED
  BY <1>2, <1>3

(* The guards of a call move the runner only.                              *)
LEMMA GuardRecords ==
  ASSUME TypeOK, RunInv, Truthful, TypeOK', RunInv', EnterCall \/ AllowObservation \/ AllowAct
  PROVE  Truthful'
<1> USE DEF At, Goto
<1>0. /\ live \in Runners /\ live.run \in RunStates /\ Running
      /\ UNCHANGED <<checkpoint, wal, cmd, sent, open, stale, ending>>
      /\ CallsSent' = CallsSent /\ ActsSent' = ActsSent
  BY CountKept
     DEF TypeOK, Runners, EnterCall, AllowObservation, AllowAct, Running, disk, history
<1>1. PICK r :
        /\ live'.run = r /\ live'.outer = live.outer /\ live'.calls = live.calls
        /\ r.events >= live.run.events /\ r.recovery = live.run.recovery
        /\ \/ /\ live.pc = "call" /\ live'.pc = "authorize"
              /\ r.events = live.run.events + 1
              /\ r.used.calls = live.run.used.calls + 1 /\ r.used.acts = live.run.used.acts
           \/ /\ live.pc = "authorize" /\ live'.pc = "execute" /\ r.used.calls = live.run.used.calls
              /\ \/ Call # "side_effect" /\ r.used.acts = live.run.used.acts
                 \/ r.used.acts = live.run.used.acts + 1
  <2>1. CASE EnterCall
    <3> DEFINE r == WithEvents(Charged(live.run, "calls"), 1)
    <3>1. /\ r.events = live.run.events + 1 /\ r.recovery = live.run.recovery
          /\ r.used.calls = live.run.used.calls + 1 /\ r.used.acts = live.run.used.acts
      BY <1>0 DEF WithEvents, Charged, RunStates, Budgets
    <3>2. live' = [live EXCEPT !.pc = "authorize", !.run = r] /\ live.pc = "call"
      BY <2>1 DEF EnterCall
    <3> HIDE DEF r
    <3> QED
      BY <1>0, <3>1, <3>2, Numbers DEF Runners
  <2>2. CASE AllowObservation
    BY <1>0, <2>2, Numbers DEF AllowObservation, Runners
  <2>3. CASE AllowAct
    <3> DEFINE r == ChargedAct(live.run)
    <3>1. /\ r.events = live.run.events + 1 /\ r.recovery = live.run.recovery
          /\ r.used.calls = live.run.used.calls /\ r.used.acts = live.run.used.acts + 1
      BY <1>0, ChargedView
    <3>2. live' = [live EXCEPT !.pc = "execute", !.run = r] /\ live.pc = "authorize"
      BY <2>3 DEF AllowAct
    <3> HIDE DEF r
    <3> QED
      BY <1>0, <3>1, <3>2, Numbers DEF Runners
  <2> QED
    BY <2>1, <2>2, <2>3
<1>2. /\ checkpoint.phase = "PLANNING" /\ live.outer.events > 0
      /\ checkpoint.events <= live.run.events
      /\ checkpoint.used.calls <= live.run.used.calls
      /\ checkpoint.used.acts <= live.run.used.acts
      /\ live.outer.events <= live.run.events
      /\ live.pc = "authorize" => live.outer.events < live.run.events
  BY <1>0, <1>1, Numbers DEF Truthful, RecordInv, PhaseInv, EventsInv
<1>3. PhaseInv'
  BY <1>0, <1>1, <1>2 DEF Truthful, RecordInv, PhaseInv, Fresh, About, Dispatching
<1>4. EventsInv'
  <2>0. r.events \in Nat
    BY <1>1 DEF TypeOK, Runners, RunStates
  <2>1. /\ checkpoint.events <= r.events /\ live.outer.events < r.events
        /\ checkpoint.used.calls <= r.used.calls /\ checkpoint.used.acts <= r.used.acts
    BY <1>1, <1>2, <2>0, Numbers
  <2> QED
    BY <1>0, <1>1, <1>2, <2>1 DEF EventsInv, About, Dispatching
<1>5. AheadInv'
  BY <1>0, <1>1 DEF Truthful, RecordInv, AheadInv, Barred, Running
<1>6. ChargeInv'
  <2>1. Covers(checkpoint.used, {}) /\ wal.at.stage # "prepared"
    BY <1>0, <1>1 DEF Truthful, RecordInv, ChargeInv, AheadInv
  <2>2. live.pc = "call" => Covers(live.run.used, {"observation"})'
    BY <1>0, <1>1, <1>2, <2>1, Numbers DEF Covers
  <2>3. live.pc = "authorize" => Covers(live.run.used, {"observation"})
    BY DEF Truthful, RecordInv, ChargeInv
  <2>4. live.pc = "authorize" => Covers(live.run.used, {Call})'
    <3> SUFFICES ASSUME live.pc = "authorize"
                 PROVE  Covers(live.run.used, {Call})'
      OBVIOUS
    <3>1. Call' = Call
      BY <1>1 DEF Call
    <3> QED
      BY <1>0, <1>1, <2>3, <3>1, Numbers DEF Covers
  <2>5. Covers(checkpoint.used, {})'
    BY <1>0, <2>1 DEF Covers
  <2> QED
    BY <1>0, <1>1, <2>1, <2>2, <2>4, <2>5 DEF ChargeInv, About, Boundary
<1> QED
  BY <1>0, <1>1, <1>3, <1>4, <1>5, <1>6, StillRunning DEF Running, Truthful, RecordInv, StaleInv

(* The boundary is written.  An outcome that stays open is one the ledger  *)
(* now holds as uncertain, or a ledger nothing may be continued from.      *)
LEMMA WrittenRecords ==
  ASSUME TypeOK, RunInv, Truthful, RunInv', WriteBoundary
  PROVE  Truthful'
<1> USE DEF At, Goto
<1>0. /\ live \in Runners /\ live.pc = "write" /\ Running
      /\ live.at \in Boundaries /\ live.at.kind # "none" /\ live.at.stage # "none"
  BY DEF WriteBoundary, TypeOK, Runners, Running, RunInv, StepInv
<1>1. /\ wal'.seq = checkpoint.seq /\ wal'.at = live.at
      /\ wal'.ledger = Folded(wal.ledger, live.news)
      /\ open' = (open /\ ~(live.at.stage = "completed"
                              /\ live.run.recovery # "unknown_outcome"))
      /\ UNCHANGED <<checkpoint, cmd, sent, stale, ending>>
      /\ CallsSent' = CallsSent /\ ActsSent' = ActsSent
  BY CountKept DEF WriteBoundary
<1>2. /\ live'.pc = AfterWrite(live.at, live.calls)
      /\ live'.run = live.run /\ live'.outer = live.outer /\ live'.at = live.at
      /\ live'.calls = live.calls
  BY <1>0 DEF WriteBoundary, Runners
<1>3. \/ live.at.stage = "prepared" /\ live'.pc = "intent"
      \/ live.at.stage = "dispatch_intent" /\ live'.pc = "sending"
      \/ /\ live.at.stage = "completed" /\ live.at.kind = "provider"
         /\ live'.pc \in {"finish", "call"}
      \/ live.at.stage = "completed" /\ live.at.kind = "tool" /\ live'.pc = "settle"
  BY <1>0, <1>2 DEF AfterWrite, Boundaries
<1>4. live.at.kind \in {"provider", "tool"}
  BY <1>0 DEF Boundaries
<1>5. PhaseInv'
  BY <1>0, <1>1, <1>2, <1>3, <1>4
     DEF Truthful, RecordInv, PhaseInv, ResumeAllowed, About, Dispatching, Running
<1>6. EventsInv'
  BY <1>0, <1>1, <1>2, <1>3, <1>4 DEF Truthful, RecordInv, EventsInv, About, Dispatching
<1>7. AheadInv'
  <2>1. open' => Barred(wal)' /\ live'.pc = "settle" /\ live'.run.recovery = "unknown_outcome"
    <3> SUFFICES ASSUME open'
                 PROVE  Barred(wal)' /\ live'.pc = "settle" /\ live'.run.recovery = "unknown_outcome"
      OBVIOUS
    <3>0. open /\ ~(live.at.stage = "completed" /\ live.run.recovery # "unknown_outcome")
      BY <1>1, Zenon
    <3>1. /\ live.at.stage = "completed" /\ live.run.recovery = "unknown_outcome"
          /\ live.at.kind = "tool" /\ live.news = <<ResultEvent("unknown")>>
      BY <1>0, <3>0 DEF Truthful, RecordInv, AheadInv, Boundary
    <3>2. wal.ledger \in Ledgers
      BY DEF TypeOK, Continuations
    <3>3. wal'.ledger = FoldEvent(wal.ledger, ResultEvent("unknown"))
      BY <1>1, <3>1 DEF Folded
    <3>4. ~wal'.ledger.valid \/ wal'.ledger.recovery = "unknown_outcome"
      BY <3>2, <3>3 DEF FoldEvent, FoldResult, ResultEvent, StatusAfter, Ledgers
    <3> QED
      BY <1>2, <1>3, <3>1, <3>4 DEF Barred
  <2>2. Running' /\ live'.run.recovery \in {"unknown_outcome", "stopped"} =>
            live'.run.recovery = "unknown_outcome" /\ live'.pc = "settle"
    BY <1>0, <1>2, <1>3 DEF Truthful, RecordInv, AheadInv, Boundary
  <2> QED
    BY <1>1, <1>2, <1>3, <2>1, <2>2, Numbers DEF AheadInv
<1>8. ChargeInv'
  <2>1. Covers(checkpoint.used, {})'
    BY <1>1 DEF Truthful, RecordInv, ChargeInv, Covers
  <2>2. live.at.kind = "tool" /\ live.at.stage # "completed" => Covers(checkpoint.used, {Call})'
    BY <1>0, <1>1, <1>2 DEF Truthful, RecordInv, ChargeInv, Covers, About, Call
  <2>3. live.at.kind = "tool" /\ live.at.stage # "completed" =>
            Covers(checkpoint.used, {"observation"})'
    BY <1>0, <1>1, Numbers DEF Truthful, RecordInv, ChargeInv, Covers, About
  <2> QED
    BY <1>1, <1>2, <1>3, <2>1, <2>2, <2>3 DEF ChargeInv, About, Boundary
<1>9. Running'
  BY <1>3 DEF Running
<1> QED
  BY <1>0, <1>1, <1>2, <1>5, <1>6, <1>7, <1>8, <1>9, StillRunning
     DEF Truthful, RecordInv, StaleInv

(* The runner hands a request over that is paid for on record.             *)
LEMMA SentRecords ==
  ASSUME TypeOK, RunInv, Truthful, TypeOK', RunInv', Send
  PROVE  Truthful'
<1> USE DEF At, Goto
<1>0. /\ live \in Runners /\ live.pc = "sending" /\ Running
      /\ live.at.kind \in {"provider", "tool"} /\ live.at.stage = "dispatch_intent"
      /\ wal.at.stage = "dispatch_intent"
      /\ UNCHANGED <<checkpoint, wal, cmd, stale, ending>> /\ open'
  BY DEF Send, Leaves, TypeOK, Runners, Running, RunInv, StepInv, Boundaries, Truthful,
         RecordInv, AheadInv, disk
<1>1. /\ live'.pc = IF live.at.kind = "provider" THEN "asking" ELSE "waiting"
      /\ live'.run = live.run /\ live'.outer = live.outer /\ live'.calls = live.calls
      /\ live'.at = live.at
  BY <1>0 DEF Send, Runners
<1>2. \E request \in Requests :
        /\ sent' = Append(sent, request)
        /\ request.effect = IF live.at.kind = "provider" THEN "provider" ELSE Call
  <2> DEFINE request == sent'[Len(sent) + 1]
  <2>1. sent \in Seq(Requests) /\ sent' \in Seq(Requests)
    BY DEF TypeOK
  <2>2. /\ sent' = Append(sent, request) /\ request \in Requests
        /\ request.effect = IF live.at.kind = "provider" THEN "provider" ELSE Call
    BY <2>1 DEF Send, Leaves, Call
  <2> HIDE DEF request
  <2> QED
    BY <2>2
<1>3. PhaseInv'
  BY <1>0, <1>1 DEF Truthful, RecordInv, PhaseInv, ResumeAllowed, About, Dispatching
<1>4. EventsInv'
  BY <1>0, <1>1 DEF Truthful, RecordInv, EventsInv, About, Dispatching
<1>5. AheadInv'
  BY <1>0, <1>1 DEF Truthful, RecordInv, AheadInv, Barred, Running
<1>6. ChargeInv'
  <2>1. Covers(checkpoint.used, {}) /\ (live.at.kind = "tool" => Covers(checkpoint.used, {Call}))
    BY <1>0 DEF Truthful, RecordInv, ChargeInv, About
  <2>2. live.at.kind = "tool" => Call \in Effects
    BY <1>0 DEF Call, RunInv, StepInv, InCall, Undispatched, Runners
  <2>3. Covers(checkpoint.used, {})'
    <3>1. PICK request \in Requests :
            /\ sent' = Append(sent, request)
            /\ request.effect = IF live.at.kind = "provider" THEN "provider" ELSE Call
      BY <1>2
    <3>2. /\ CallsSent' = CallsSent + (IF request.effect \in Effects THEN 1 ELSE 0)
          /\ ActsSent' = ActsSent + (IF request.effect = "side_effect" THEN 1 ELSE 0)
      BY <3>1, CountGrows
    <3>3. CASE live.at.kind = "provider"
      BY <1>0, <2>1, <3>1, <3>2, <3>3, Numbers DEF Covers, Effects
    <3>4. CASE live.at.kind = "tool"
      BY <1>0, <2>1, <2>2, <3>1, <3>2, <3>4, Numbers DEF Covers, Effects
    <3> QED
      BY <1>0, <3>3, <3>4
  <2> QED
    BY <1>0, <1>1, <2>3 DEF ChargeInv, About, Boundary
<1> QED
  BY <1>0, <1>1, <1>3, <1>4, <1>5, <1>6, StillRunning DEF Running, Truthful, RecordInv, StaleInv

-----------------------------------------------------------------------------
(* What a step of a command leaves alone: no runner runs.                  *)
LEMMA CommandAlone ==
  ASSUME TypeOK, RunInv, cmd.pc # "idle"
  PROVE  ~Running
BY DEF RunInv, LockInv

(* A command step leaves the runner where it is.                           *)
LEMMA CommandRecords ==
  ASSUME TypeOK, RunInv, Truthful, ~Running, ~At("absent"), UNCHANGED <<live, ending>>,
         ResumeAllowed(checkpoint') => Fresh',
         checkpoint'.phase = "PAUSED" => checkpoint'.recovery = "stopped",
         open' => Barred(wal'),
         Covers(checkpoint.used, {})',
         wal'.at # Boundary("tool", "prepared") \/ wal'.seq # checkpoint'.seq
            \/ Covers(checkpoint.used, {"observation"})',
         RecoverInv', StaleInv', SuccessIsCertain',
         At("closing") /\ ending \in {"success", "failure"} =>
            checkpoint'.phase \in Terminal \cup {"PAUSED"}
  PROVE  Truthful'
<1>1. ~Running' /\ ~At("absent")'
  BY DEF Running, At
<1>2. PhaseInv'
  BY <1>1 DEF Running, At, PhaseInv, About, Dispatching
<1>3. EventsInv' /\ AheadInv'
  BY <1>1 DEF Running, At, EventsInv, AheadInv, About, Dispatching
<1>4. ChargeInv'
  BY <1>1 DEF Running, At, ChargeInv, About
<1>5. FailureRecorded'
  BY DEF FailureRecorded, At
<1> QED
  BY <1>2, <1>3, <1>4, <1>5 DEF Truthful, RecordInv

\* A command step that at most deletes the continuation.
LEMMA QuietCommand ==
  ASSUME TypeOK, RunInv, Truthful, ~Running, ~At("absent"),
         UNCHANGED <<checkpoint, live, sent, open, stale, ending>>, wal' \in {wal, NoWal},
         RecoverInv', cmd'.pc # "completed"
  PROVE  Truthful'
<1>1. CallsSent' = CallsSent /\ ActsSent' = ActsSent
  BY CountKept
<1>2. /\ ResumeAllowed(checkpoint') => Fresh'
      /\ checkpoint'.phase = "PAUSED" => checkpoint'.recovery = "stopped"
  BY DEF Truthful, RecordInv, PhaseInv, Fresh
<1>3. open' => Barred(wal')
  BY DEF Truthful, RecordInv, AheadInv, Barred
<1>4. Covers(checkpoint.used, {})'
  BY <1>1 DEF Truthful, RecordInv, ChargeInv, Covers
<1>5. \/ wal'.at # Boundary("tool", "prepared") \/ wal'.seq # checkpoint'.seq
      \/ Covers(checkpoint.used, {"observation"})'
  BY <1>1 DEF Truthful, RecordInv, ChargeInv, Covers, NoWal, Boundary
<1>6. StaleInv'
  BY DEF Truthful, RecordInv, StaleInv, Lost, Running
<1>7. SuccessIsCertain'
  BY DEF Truthful, SuccessIsCertain
<1>8. At("closing") /\ ending \in {"success", "failure"} =>
            checkpoint'.phase \in Terminal \cup {"PAUSED"}
  BY DEF Truthful, FailureRecorded
<1> QED
  BY <1>2, <1>3, <1>4, <1>5, <1>6, <1>7, <1>8, CommandRecords

(* What a plan that may be executed says of the files.                     *)
LEMMA PlanCurrent ==
  ASSUME NEW c \in Checkpoints, NEW w \in Continuations,
         Plan(c, w) \in Executable \cup Finalizing
  PROVE  /\ w # NoWal /\ w.ledger.valid /\ c.used = w.used /\ c.seq = w.seq
         /\ c.recovery \notin {"unknown_outcome", "stopped"}
         /\ ~Barred(w)
<1>1. /\ Readable(w) /\ Matches(c, w) /\ c.seq = w.seq
      /\ c.recovery # "unknown_outcome" /\ ~Overridden(c, w, w.ledger)
      /\ Plan(c, w) = ClassifyStage(w.at, w.ledger)
  BY DEF Plan, Executable, Finalizing
<1>2. w.at.stage # "dispatch_intent"
  BY <1>1 DEF ClassifyStage, Executable, Finalizing
<1>3. w.ledger.valid /\ w.ledger.recovery \notin {"unknown_outcome", "stopped"}
  BY PlanExecutable
<1> QED
  BY <1>1, <1>2, <1>3 DEF Readable, Matches, Overridden, Barred

(* A command begins, plans or stops.                                       *)
LEMMA PlannedRecords ==
  ASSUME TypeOK, RunInv, Truthful,
         BeginRecover \/ BeginCancel \/ RecoverPlan \/ CommandStops
  PROVE  Truthful'
<1>0. checkpoint \in Checkpoints /\ wal \in Continuations
  BY DEF TypeOK
<1>1. CASE BeginRecover \/ BeginCancel
  <2>1. ~Running /\ ~At("absent") /\ cmd'.pc \in {"plan", "cancel"}
    BY <1>1 DEF BeginRecover, BeginCancel, RunInv, LockInv, Truthful, RecordInv, PhaseInv,
                Fresh, Cancellable, Absent, Checkpoint, TypeOK
  <2>2. RecoverInv'
    BY <2>1 DEF RecoverInv
  <2> QED
    BY <1>1, <2>1, <2>2, QuietCommand DEF BeginRecover, BeginCancel, disk, history
<1>2. CASE CommandStops
  <2>1. ~Running /\ ~At("absent") /\ cmd'.pc = "idle"
    BY <1>2, CommandAlone DEF CommandStops, Stops, NoCommand, Truthful, RecordInv, PhaseInv
  <2>2. RecoverInv'
    BY <2>1 DEF RecoverInv
  <2> QED
    BY <1>2, <2>1, <2>2, QuietCommand DEF CommandStops, disk, history
<1>3. CASE RecoverPlan
  <2>1. ~Running /\ ~At("absent") /\ UNCHANGED <<disk, live, history>>
    BY <1>3, CommandAlone DEF RecoverPlan, Truthful, RecordInv, PhaseInv
  <2>2. CASE Stops
    <3>1. cmd'.pc = "idle"
      BY <2>2 DEF Stops, NoCommand
    <3>2. RecoverInv'
      BY <3>1 DEF RecoverInv
    <3> QED
      BY <2>1, <3>1, <3>2, QuietCommand DEF disk, history
  <2>3. CASE /\ Plan(checkpoint, wal) \in Executable \cup Finalizing
             /\ cmd' = [pc |-> IF Plan(checkpoint, wal) \in Finalizing
                               THEN "finalize" ELSE "intent",
                        action |-> Plan(checkpoint, wal), seen |-> wal]
    <3>1. /\ checkpoint.used = wal.used /\ checkpoint.seq = wal.seq
          /\ checkpoint.recovery \notin {"unknown_outcome", "stopped"} /\ ~Barred(wal)
      BY <1>0, <2>3, PlanCurrent
    <3>2. ~open
      BY <3>1 DEF Truthful, RecordInv, AheadInv
    <3>3. cmd'.pc = "intent" /\ wal.at.stage = "prepared" => wal.at = Boundary("tool", "prepared")
      <4>1. Plan(checkpoint, wal) = ClassifyStage(wal.at, wal.ledger)
        BY <1>0, <2>3, PlanExecutable
      <4> QED
        BY <1>0, <2>3, <4>1 DEF ClassifyStage, Executable, Finalizing, Continuations,
                                Boundaries, Boundary
    <3>4. cmd'.pc = "intent" /\ wal.at.stage = "prepared" => Covers(wal.used, {"observation"})
      BY <3>1, <3>3 DEF Truthful, RecordInv, ChargeInv
    <3>5. CallsSent' = CallsSent /\ ActsSent' = ActsSent
      BY <2>1, CountKept DEF history
    <3>6. RecoverInv'
      BY <1>0, <2>1, <2>3, <3>1, <3>2, <3>4, <3>5, Numbers
         DEF RecoverInv, Covers, disk, history
    <3> QED
      BY <2>1, <2>3, <3>6, QuietCommand DEF disk, history
  <2> QED
    BY <1>3, <2>2, <2>3 DEF RecoverPlan
<1> QED
  BY <1>1, <1>2, <1>3

(* The continuation and the checkpoint of a recovery's intent: what is     *)
(* about to be sent is paid for before it is sent.                         *)
LEMMA IntentRecords ==
  ASSUME TypeOK, RunInv, Truthful, TypeOK', IntentWal \/ IntentCheckpoint
  PROVE  Truthful'
<1>0. /\ ~Running /\ ~At("absent") /\ checkpoint \in Checkpoints
      /\ cmd.seen \in Continuations /\ cmd.seen.used \in Budgets
      /\ checkpoint.used \in Budgets
  BY CommandAlone, CommandTypes
     DEF IntentWal, IntentCheckpoint, Truthful, RecordInv, PhaseInv, TypeOK, Checkpoints
<1>1. CASE IntentWal
  <2> DEFINE w == Intended(cmd.seen, cmd.action)
  <2>1. /\ cmd.pc = "intent" /\ wal = cmd.seen /\ wal' = w /\ cmd' = [cmd EXCEPT !.pc = "intended", !.seen = w]
        /\ UNCHANGED <<checkpoint, torn, lock, live, sent, open, stale, ending>>
    BY <1>1 DEF IntentWal, Current, history
  <2>2. /\ w.at.stage = "dispatch_intent"
        /\ w.at.kind = (IF cmd.action = "continue_provider" THEN "provider" ELSE "tool")
        /\ w.used.acts = cmd.seen.used.acts
        /\ \/ w.used.calls = cmd.seen.used.calls + 1 /\ cmd.action # "continue_provider"
           \/ /\ w.used.calls = cmd.seen.used.calls
              /\ cmd.action = "continue_provider" \/ cmd.seen.at.stage = "prepared"
        /\ w.used = cmd.seen.used \/ cmd.seen.at.stage # "prepared"
    BY <1>0 DEF Intended, Boundary, Budgets
  <2> HIDE DEF w
  <2>3. /\ checkpoint.used = cmd.seen.used /\ ~open
        /\ checkpoint.recovery \notin {"unknown_outcome", "stopped"}
        /\ cmd.seen.at.stage = "prepared" => Covers(cmd.seen.used, {"observation"})
        /\ cmd.seen.at.stage # "none"
    BY <2>1 DEF Truthful, RecordInv, RecoverInv, RunInv, CommandInv
  <2>4. CallsSent' = CallsSent /\ ActsSent' = ActsSent
    BY <2>1, CountKept
  <2>5. wal # NoWal
    BY <2>1, <2>3 DEF NoWal, Boundary
  <2>6. cmd'.pc = "intended" /\ cmd'.seen = w
    BY <2>1 DEF TypeOK
  <2>7. RecoverInv'
    <3>1. Covers(checkpoint.used, {})
      BY DEF Truthful, RecordInv, ChargeInv
    <3>2. w.at.kind # "provider" => Covers(cmd.seen.used, {"observation"})'
      BY <2>2, <2>3, <2>4, <2>6, <3>1, Numbers DEF Covers
    <3>3. checkpoint.used.calls <= w.used.calls /\ checkpoint.used.acts = w.used.acts
      BY <2>2, <2>3, Numbers
    <3> QED
      BY <2>1, <2>2, <2>3, <2>6, <3>2, <3>3 DEF RecoverInv
  <2>8. StaleInv'
    <3>1. ~Lost(wal)
      BY <2>1, <2>5 DEF Lost, RunInv, CommandInv
    <3>2. stale => checkpoint.recovery # "ready" \/ checkpoint.phase \in Terminal
      BY <3>1 DEF Truthful, RecordInv, StaleInv
    <3> QED
      BY <1>0, <2>1, <2>6, <3>2 DEF StaleInv, Running
  <2>9. Covers(checkpoint.used, {})'
    BY <2>1, <2>4 DEF Covers, Truthful, RecordInv, ChargeInv
  <2>10. ResumeAllowed(checkpoint') => Fresh'
    BY <2>1, <2>5 DEF Truthful, RecordInv, PhaseInv, Fresh
  <2> QED
    BY <1>0, <2>1, <2>2, <2>3, <2>7, <2>8, <2>9, <2>10, CommandRecords
       DEF Truthful, RecordInv, PhaseInv, Barred, Boundary, SuccessIsCertain, FailureRecorded
<1>2. CASE IntentCheckpoint
  <2>1. /\ cmd.pc = "intended" /\ checkpoint.phase \notin Terminal
        /\ cmd.action \in Executable
        /\ cmd' = [cmd EXCEPT !.pc = "send"]
        /\ UNCHANGED <<wal, torn, lock, live, sent, open, stale, ending>>
    BY <1>2 DEF IntentCheckpoint, Advanceable, RunInv, CommandInv, history
  <2>2. /\ checkpoint'.phase \in {"PLANNING", "EXECUTING", "VERIFYING"}
        /\ checkpoint'.used = cmd.seen.used
        /\ checkpoint'.recovery \in {checkpoint.recovery, "requires_reobservation"}
    BY <1>0, <1>2, <2>1
       DEF IntentCheckpoint, Advanced, Checkpoints, IntentPhase, IntentStatus, Executable
  <2>3. /\ wal \in {cmd.seen, NoWal} /\ cmd.seen.at.stage = "dispatch_intent" /\ ~open
        /\ checkpoint.recovery # "stopped"
        /\ checkpoint.used.calls <= cmd.seen.used.calls
        /\ checkpoint.used.acts = cmd.seen.used.acts
        /\ cmd.seen.at.kind # "provider" => Covers(cmd.seen.used, {"observation"})
    BY <2>1 DEF Truthful, RecordInv, RecoverInv
  <2>4. CallsSent' = CallsSent /\ ActsSent' = ActsSent
    BY <2>1, CountKept
  <2>5. cmd'.pc = "send" /\ cmd'.seen = cmd.seen
    BY <2>1 DEF TypeOK
  <2>6. Covers(checkpoint.used, {})'
    <3>1. checkpoint.used.acts <= cmd.seen.used.acts
      BY <2>3, Numbers
    <3>2. Covers(cmd.seen.used, {})
      BY <1>0, <2>3, <3>1, CoversMore DEF Truthful, RecordInv, ChargeInv
    <3> QED
      BY <2>2, <2>4, <3>2 DEF Covers
  <2>7. RecoverInv'
    <3>1. cmd.seen.at.kind # "provider" => Covers(cmd.seen.used, {"observation"})'
      BY <2>3, <2>4, <2>5 DEF Covers
    <3> QED
      BY <2>1, <2>2, <2>3, <2>5, <3>1 DEF RecoverInv
  <2>8. StaleInv'
    BY <1>0, <2>1, <2>2, <2>5 DEF Truthful, RecordInv, StaleInv, Running, Terminal
  <2>9. checkpoint.phase # "PAUSED"
    BY <2>3 DEF Truthful, RecordInv, PhaseInv
  <2>10. wal'.at # Boundary("tool", "prepared")
    BY <2>1, <2>3 DEF Boundary, NoWal
  <2>11. /\ ~ResumeAllowed(checkpoint') /\ checkpoint'.phase # "PAUSED" /\ SuccessIsCertain'
    BY <2>2 DEF ResumeAllowed, SuccessIsCertain
  <2>12. ~(At("closing") /\ ending \in {"success", "failure"})
    BY <2>1, <2>9 DEF Truthful, FailureRecorded
  <2> QED
    BY <1>0, <2>1, <2>3, <2>6, <2>7, <2>8, <2>10, <2>11, <2>12, CommandRecords
<1> QED
  BY <1>1, <1>2

(* A recovery hands its request over: behind a boundary that bars another. *)
LEMMA RecoverSent ==
  ASSUME TypeOK, RunInv, Truthful, TypeOK', RecoverSend
  PROVE  Truthful'
<1>1. /\ ~Running /\ ~At("absent") /\ cmd.pc = "send" /\ cmd' = [cmd EXCEPT !.pc = "reply"]
      /\ open' /\ UNCHANGED <<checkpoint, wal, lock, live, stale, ending>>
  BY CommandAlone DEF RecoverSend, Leaves, Truthful, RecordInv, PhaseInv, disk
<1>2. /\ wal \in {cmd.seen, NoWal} /\ cmd.seen.at.stage = "dispatch_intent"
      /\ checkpoint.phase \in {"PLANNING", "EXECUTING", "VERIFYING"}
      /\ checkpoint.used.calls = cmd.seen.used.calls /\ checkpoint.used.acts = cmd.seen.used.acts
      /\ cmd.seen.at.kind # "provider" => Covers(cmd.seen.used, {"observation"})
  BY <1>1 DEF Truthful, RecordInv, RecoverInv
<1>3. cmd'.pc = "reply" /\ cmd'.seen = cmd.seen /\ cmd'.action = cmd.action
  BY <1>1 DEF TypeOK
<1>4. Covers(checkpoint.used, {})'
  <2> DEFINE effect == IF cmd.seen.at.kind = "provider" THEN "provider" ELSE cmd.seen.ledger.effect
             request == sent'[Len(sent) + 1]
  <2>1. sent \in Seq(Requests) /\ sent' \in Seq(Requests)
    BY DEF TypeOK
  <2>2. sent' = Append(sent, request) /\ request \in Requests /\ request.effect = effect
    BY <2>1 DEF RecoverSend, Leaves
  <2>3. effect # "side_effect" /\ (cmd.seen.at.kind = "provider" => effect \notin Effects)
    BY <1>1 DEF RunInv, CommandInv, Effects
  <2> HIDE DEF effect, request
  <2>4. /\ CallsSent' = CallsSent + (IF effect \in Effects THEN 1 ELSE 0)
        /\ ActsSent' = ActsSent
    BY <2>2, <2>3, CountGrows, Numbers
  <2>5. Covers(checkpoint.used, {})
    BY DEF Truthful, RecordInv, ChargeInv
  <2> QED
    BY <1>1, <1>2, <2>3, <2>4, <2>5, Numbers DEF Covers
<1>5. RecoverInv'
  BY <1>1, <1>2, <1>3 DEF RecoverInv
<1>6. StaleInv'
  BY <1>1, <1>3 DEF Truthful, RecordInv, StaleInv, Running
<1>7. Barred(wal') /\ wal'.at # Boundary("tool", "prepared")
  BY <1>1, <1>2 DEF Barred, Boundary, NoWal
<1>8. ~ResumeAllowed(checkpoint') /\ checkpoint'.phase # "PAUSED" /\ SuccessIsCertain'
  BY <1>1, <1>2 DEF ResumeAllowed, SuccessIsCertain
<1>9. ~(At("closing") /\ ending \in {"success", "failure"})
  BY <1>2 DEF Truthful, FailureRecorded, Terminal
<1> QED
  BY <1>1, <1>4, <1>5, <1>6, <1>7, <1>8, <1>9, CommandRecords

(* A ledger nothing is concluded from stays one, and the result of a       *)
(* recovered call is the ledger's last unless it is one of those.          *)
LEMMA LedgerStaysLost ==
  ASSUME NEW f \in Ledgers, NEW e \in Events
  PROVE  /\ ~f.valid => ~FoldEvent(f, e).valid
         /\ e.type = "result" /\ FoldEvent(f, e).valid =>
                /\ FoldEvent(f, e).outcome = e.outcome
                /\ e.outcome = "unknown" => FoldEvent(f, e).recovery = "unknown_outcome"
<1>1. CASE ~f.valid \/ f.closed \/ f.recovery \in {"unknown_outcome", "stopped"}
  BY <1>1 DEF FoldEvent, Ledgers
<1>2. CASE ~(~f.valid \/ f.closed \/ f.recovery \in {"unknown_outcome", "stopped"})
  <2>1. e.type = "result" =>
            /\ FoldEvent(f, e).outcome = e.outcome
            /\ e.outcome = "unknown" => FoldEvent(f, e).recovery = "unknown_outcome"
    BY <1>2 DEF FoldEvent, FoldResult, StatusAfter, Ledgers
  <2> QED
    BY <1>2, <2>1
<1> QED
  BY <1>1, <1>2

(* The answer of a recovery's request is on record before the checkpoint   *)
(* follows it: an unknown result bars whatever comes next.                 *)
LEMMA CompletionRecords ==
  ASSUME TypeOK, RunInv, Truthful, NEW w \in Continuations, NEW e \in Events,
         CompletionWal(w), open' \in BOOLEAN, stale' \in BOOLEAN,
         w.ledger = FoldEvent(cmd.seen.ledger, e), w.at.stage = "completed",
         w.used.calls = cmd.seen.used.calls, w.used.acts = cmd.seen.used.acts,
         open' => e.type = "result" /\ e.outcome = "unknown",
         cmd.action = "continue_provider" => ~open',
         cmd.action # "continue_provider" => e.type = "result",
         stale' => stale /\ (e.type = "result" => e.outcome # "ok")
  PROVE  Truthful'
<1>0. cmd.seen.ledger \in Ledgers /\ w.ledger \in Ledgers
  BY CommandTypes DEF Continuations
<1>1. /\ ~Running /\ ~At("absent") /\ cmd.pc = "reply" /\ wal = cmd.seen /\ wal' = w
      /\ cmd'.pc = "completed" /\ cmd'.seen = w /\ cmd'.action = cmd.action
      /\ UNCHANGED <<checkpoint, live, sent, ending>>
  BY CommandAlone DEF CompletionWal, Current, Truthful, RecordInv, PhaseInv, TypeOK
<1>2. /\ cmd.seen.at.stage = "dispatch_intent"
      /\ checkpoint.phase \in {"PLANNING", "EXECUTING", "VERIFYING"}
      /\ checkpoint.used.calls = cmd.seen.used.calls
      /\ checkpoint.used.acts = cmd.seen.used.acts
  BY <1>1 DEF Truthful, RecordInv, RecoverInv
<1>3. Lost(wal) => Lost(w)
  <2>1. wal # NoWal
    BY <1>1, <1>2 DEF NoWal, Boundary
  <2> QED
    BY <1>0, <1>1, <2>1, LedgerStaysLost DEF Lost
<1>4. open' => Barred(wal')
  BY <1>0, <1>1, LedgerStaysLost DEF Barred
<1>5. RecoverInv'
  BY <1>1, <1>2 DEF RecoverInv
<1>6. StaleInv'
  <2>1. stale' => checkpoint.recovery # "ready" \/ Lost(w)
    BY <1>1, <1>2, <1>3 DEF Truthful, RecordInv, StaleInv, Terminal
  <2>2. cmd.action # "continue_provider" /\ w.ledger.outcome = "ok" => ~stale' \/ Lost(w)
    BY <1>0, LedgerStaysLost DEF Lost
  <2> QED
    BY <1>1, <2>1, <2>2 DEF StaleInv, Running
<1>7. Covers(checkpoint.used, {})'
  BY <1>1, CountKept DEF Truthful, RecordInv, ChargeInv, Covers
<1>8. ~ResumeAllowed(checkpoint') /\ checkpoint'.phase # "PAUSED" /\ SuccessIsCertain'
  BY <1>1, <1>2 DEF ResumeAllowed, SuccessIsCertain
<1>9. ~(At("closing") /\ ending \in {"success", "failure"})
  BY <1>2 DEF Truthful, FailureRecorded, Terminal
<1> QED
  BY <1>1, <1>4, <1>5, <1>6, <1>7, <1>8, <1>9, CommandRecords DEF Boundary

LEMMA ReplyRecords ==
  ASSUME TypeOK, RunInv, Truthful, TypeOK',
         \/ \E outcome \in Outcomes \ {"yielded"} : RecoveredResult(outcome)
         \/ \E calls \in Turns : RecoveredTurn(calls)
  PROVE  Truthful'
<1>0. /\ cmd.seen \in Continuations /\ LedgerInv(cmd.seen.ledger)
      /\ open' \in BOOLEAN /\ stale' \in BOOLEAN
  BY CommandTypes DEF RunInv, CommandInv, TypeOK
<1>1. ASSUME NEW outcome \in Outcomes \ {"yielded"}, RecoveredResult(outcome)
      PROVE  Truthful'
  <2> DEFINE w == CompletedCall(cmd.seen, outcome)
             e == ResultEvent(outcome)
  <2>1. e \in Events /\ e.type = "result" /\ e.outcome = outcome
    BY DEF ResultEvent, Events
  <2>2. w \in Continuations /\ w.at.stage = "completed"
    BY <1>0, CompletedCallTypes
  <2>3. w.ledger = FoldEvent(cmd.seen.ledger, e) /\ w.used = cmd.seen.used
    BY <1>0 DEF CompletedCall, Continuations
  <2>4. /\ CompletionWal(w) /\ cmd.action # "continue_provider"
        /\ open' => outcome = "unknown"
        /\ stale' => stale /\ outcome # "ok"
    BY <1>1 DEF RecoveredResult, StaleAfter
  <2> HIDE DEF w, e
  <2> QED
    BY <1>0, <2>1, <2>2, <2>3, <2>4, CompletionRecords
<1>2. ASSUME NEW calls \in Turns, RecoveredTurn(calls)
      PROVE  Truthful'
  <2> DEFINE w == CompletedTurn(cmd.seen, calls)
             e == TurnEvent(calls)
  <2>1. e \in Events /\ e.type = "turn"
    BY TurnsAssumption DEF TurnEvent, Events
  <2>2. /\ CompletionWal(w) /\ cmd.action = "continue_provider"
        /\ ~open' /\ stale' = stale
    BY <1>2 DEF RecoveredTurn
  <2>3. cmd.seen.used.turns < MaxTurns
    BY <1>2 DEF RecoveredTurn, CompletionWal, RunInv, CommandInv
  <2>4. w \in Continuations /\ w.at.stage = "completed"
    BY <1>0, <2>3, CompletedTurnTypes, TurnsAssumption
  <2>5. /\ w.ledger = FoldEvent(cmd.seen.ledger, e)
        /\ w.used.calls = cmd.seen.used.calls /\ w.used.acts = cmd.seen.used.acts
    BY <1>0 DEF CompletedTurn, TurnSpent, Continuations, Budgets
  <2> HIDE DEF w, e
  <2> QED
    BY <1>0, <2>1, <2>2, <2>4, <2>5, CompletionRecords
<1> QED
  BY <1>1, <1>2

(* The checkpoint follows, and never closes a run by itself: what it says  *)
(* of the observation is what the result said.                             *)
LEMMA CheckpointRecords ==
  ASSUME TypeOK, RunInv, Truthful, TypeOK', CompletionCheckpoint
  PROVE  Truthful'
<1> DEFINE recovery == CompletionStatus(cmd.action, cmd.seen, checkpoint.recovery)
           phase == CompletionPhase(cmd.action, recovery)
<1>1. /\ cmd.pc = "completed"
      /\ checkpoint' = Advanced(checkpoint, phase, cmd.seen.used, recovery, cmd.seen.verified)
      /\ UNCHANGED <<wal, torn, live, sent, open, stale, ending>>
      /\ cmd'.pc \in {"finalize", "plan", "idle"}
  <2>1. /\ cmd.pc = "completed"
        /\ checkpoint' = Advanced(checkpoint, phase, cmd.seen.used, recovery, cmd.seen.verified)
        /\ UNCHANGED <<wal, torn, live, sent, open, stale, ending>>
        /\ \/ cmd' = [cmd EXCEPT !.pc = "finalize", !.action = "finalize_success"]
           \/ cmd' = [NoCommand EXCEPT !.pc = "plan"]
           \/ cmd' = NoCommand
    BY DEF CompletionCheckpoint, Stops, history
  <2> HIDE DEF phase, recovery
  <2>2. cmd'.pc \in {"finalize", "plan", "idle"}
    <3>1. /\ cmd \in [pc : CmdSteps, action : Actions, seen : Continuations]
          /\ NoCommand = [pc |-> "idle", action |-> "none", seen |-> NoWal]
      BY DEF TypeOK, NoCommand
    <3>2. [cmd EXCEPT !.pc = "finalize", !.action = "finalize_success"].pc = "finalize"
      BY <3>1
    <3>3. [NoCommand EXCEPT !.pc = "plan"].pc = "plan" /\ NoCommand.pc = "idle"
      BY <3>1
    <3> QED
      BY <2>1, <3>2, <3>3
  <2> QED
    BY <2>1, <2>2
<1>2. phase \in {"UNKNOWN_OUTCOME", "VERIFYING", "PLANNING"}
  BY DEF CompletionPhase
<1>3. /\ wal \in {cmd.seen, NoWal} /\ cmd.seen.at.stage = "completed"
      /\ checkpoint.phase \in {"PLANNING", "EXECUTING", "VERIFYING"}
      /\ checkpoint.used.calls = cmd.seen.used.calls
      /\ checkpoint.used.acts = cmd.seen.used.acts
      /\ ~Running /\ ~At("absent")
  BY <1>1, CommandAlone DEF Truthful, RecordInv, RecoverInv, PhaseInv
<1>4. recovery = "ready" => checkpoint.recovery = "ready"
                            \/ (cmd.action # "continue_provider" /\ cmd.seen.ledger.outcome = "ok")
  BY DEF CompletionStatus
<1> HIDE DEF phase, recovery
<1>5. checkpoint'.phase = phase /\ checkpoint'.recovery = recovery
      /\ checkpoint'.used = cmd.seen.used
  BY <1>1 DEF Advanced, TypeOK, Checkpoints
<1>6. RecoverInv'
  BY <1>1 DEF RecoverInv
<1>7. StaleInv'
  <2>1. stale /\ recovery = "ready" => Lost(wal)
    <3>1. CASE checkpoint.recovery = "ready"
      BY <1>3, <3>1 DEF Truthful, RecordInv, StaleInv, Terminal
    <3>2. CASE cmd.action # "continue_provider" /\ cmd.seen.ledger.outcome = "ok"
      BY <1>1, <1>3, <3>2 DEF Truthful, RecordInv, StaleInv, Lost
    <3> QED
      BY <1>4, <3>1, <3>2
  <2> QED
    BY <1>1, <1>3, <1>5, <2>1 DEF StaleInv, Running
<1>8. Covers(checkpoint.used, {})'
  BY <1>1, <1>3, <1>5, CountKept DEF Truthful, RecordInv, ChargeInv, Covers
<1>9. ~ResumeAllowed(checkpoint') /\ checkpoint'.phase # "PAUSED" /\ SuccessIsCertain'
  BY <1>2, <1>5 DEF ResumeAllowed, SuccessIsCertain
<1>10. ~(At("closing") /\ ending \in {"success", "failure"})
  BY <1>3 DEF Truthful, FailureRecorded, Terminal
<1>11. wal'.at # Boundary("tool", "prepared") /\ (open' => Barred(wal'))
  BY <1>1, <1>3 DEF Boundary, NoWal, Truthful, RecordInv, AheadInv
<1> QED
  BY <1>1, <1>3, <1>6, <1>7, <1>8, <1>9, <1>10, <1>11, CommandRecords

(* A recovery closes a run that nothing is out of, and as a success only   *)
(* one whose desktop has been observed; a cancellation deletes first.      *)
LEMMA ClosedRecords ==
  ASSUME TypeOK, RunInv, Truthful, TypeOK',
         FinalizeRun \/ FinalizeDelete \/ CancelDelete \/ CancelRecord
  PROVE  Truthful'
<1>0. /\ ~Running /\ ~At("absent") /\ checkpoint \in Checkpoints /\ wal \in Continuations
  BY CommandAlone DEF FinalizeRun, FinalizeDelete, CancelDelete, CancelRecord, Truthful,
                      RecordInv, PhaseInv, TypeOK
<1>1. CASE FinalizeRun
  <2>1. /\ cmd.pc = "finalize" /\ cmd.action \in Finalizing
        /\ Plan(checkpoint, wal) = cmd.action
        /\ cmd' = [cmd EXCEPT !.pc = "delete"]
        /\ UNCHANGED <<wal, torn, lock, live, sent, open, stale, ending>>
    BY <1>1 DEF FinalizeRun, RunInv, CommandInv, history
  <2>2. /\ wal # NoWal /\ wal.ledger.valid /\ checkpoint.seq = wal.seq /\ ~Barred(wal)
    BY <1>0, <2>1, PlanCurrent
  <2>3. /\ checkpoint'.phase \in {"SUCCESS", "FAILED"}
        /\ checkpoint'.phase = "SUCCESS" => checkpoint.recovery = "ready"
        /\ checkpoint.phase = "PLANNING"
        /\ checkpoint'.used = checkpoint.used /\ checkpoint'.seq = checkpoint.seq + 1
    BY <1>0, <1>1, <2>1 DEF FinalizeRun, Finalizing, Succeeded, Blocked, MaySucceed, MayBlock,
                            Checkpoints
  <2>4. cmd'.pc = "delete"
    BY <2>1 DEF TypeOK
  <2>5. ~open
    BY <2>2 DEF Truthful, RecordInv, AheadInv
  <2>6. checkpoint.recovery = "ready" => ~stale
    BY <2>2, <2>3 DEF Truthful, RecordInv, StaleInv, Lost, Terminal
  <2>7. wal'.seq # checkpoint'.seq
    BY <2>1, <2>2, <2>3, Numbers
  <2>8. RecoverInv' /\ StaleInv'
    BY <1>0, <2>1, <2>3, <2>4 DEF RecoverInv, StaleInv, Running, Terminal
  <2>9. Covers(checkpoint.used, {})'
    BY <2>1, <2>3, CountKept DEF Truthful, RecordInv, ChargeInv, Covers
  <2>10. SuccessIsCertain' /\ ~ResumeAllowed(checkpoint') /\ checkpoint'.phase \in Terminal
    BY <2>1, <2>3, <2>5, <2>6 DEF SuccessIsCertain, ResumeAllowed, Terminal
  <2> QED
    BY <1>0, <2>1, <2>3, <2>5, <2>7, <2>8, <2>9, <2>10, CommandRecords
<1>2. CASE FinalizeDelete
  <2>1. cmd'.pc = "idle" /\ wal' = NoWal
    BY <1>2 DEF FinalizeDelete, Stops, NoCommand
  <2>2. RecoverInv'
    BY <2>1 DEF RecoverInv
  <2> QED
    BY <1>0, <1>2, <2>1, <2>2, QuietCommand DEF FinalizeDelete, history
<1>3. CASE CancelDelete
  <2>1. cmd'.pc = "cancelled" /\ wal' = NoWal
    BY <1>3 DEF CancelDelete, TypeOK
  <2>2. RecoverInv'
    BY <2>1 DEF RecoverInv
  <2> QED
    BY <1>0, <1>3, <2>1, <2>2, QuietCommand DEF CancelDelete, history
<1>4. CASE CancelRecord
  <2>1. /\ cmd'.pc = "idle" /\ wal = NoWal /\ checkpoint' = Cancelled(checkpoint)
        /\ UNCHANGED <<wal, torn, live, sent, open, stale, ending>>
    BY <1>4 DEF CancelRecord, Stops, NoCommand, Truthful, RecordInv, RecoverInv, history
  <2>2. checkpoint'.phase = "CANCELLED" /\ checkpoint'.used = checkpoint.used
    BY <1>0, <2>1 DEF Cancelled, Checkpoints
  <2>3. RecoverInv' /\ StaleInv'
    BY <1>0, <2>1, <2>2 DEF RecoverInv, StaleInv, Running, Terminal
  <2>4. Covers(checkpoint.used, {})'
    BY <2>1, <2>2, CountKept DEF Truthful, RecordInv, ChargeInv, Covers
  <2>5. SuccessIsCertain' /\ ~ResumeAllowed(checkpoint') /\ checkpoint'.phase \in Terminal
    BY <2>2 DEF SuccessIsCertain, ResumeAllowed, Terminal
  <2>6. wal'.at # Boundary("tool", "prepared") /\ Barred(wal')
    BY <2>1 DEF NoWal, Boundary, Barred
  <2> QED
    BY <1>0, <2>1, <2>2, <2>3, <2>4, <2>5, <2>6, CommandRecords
<1> QED
  BY <1>1, <1>2, <1>3, <1>4

-----------------------------------------------------------------------------
(* The records are true before the run begins.                             *)
LEMMA InitRecords ==
  ASSUME Init
  PROVE  Truthful
<1>1. CallsSent = 0 /\ ActsSent = 0
  <2>1. ASSUME NEW S PROVE Count(S) = 0
    <3>1. {i \in DOMAIN sent : sent[i].effect \in S} = {}
      BY DEF Init
    <3> QED
      BY <3>1, FS_EmptySet DEF Count
  <2> QED
    BY <2>1 DEF CallsSent, ActsSent
<1>2. live = NotRunning /\ live.pc = "absent" /\ ~Running /\ cmd.pc = "idle"
  BY DEF Init, NotRunning, NoCommand, Running
<1>3. /\ checkpoint = Absent /\ checkpoint.phase = "CREATED" /\ checkpoint.used = Unused
      /\ checkpoint.recovery = "ready"
      /\ wal = NoWal /\ wal.at = Boundary("none", "none") /\ ~open /\ ~stale /\ sent = <<>>
  BY DEF Init, Absent, Checkpoint, FreshRun, NoWal
<1>4. PhaseInv
  BY <1>2, <1>3 DEF PhaseInv, Fresh, At, About, Dispatching, Running
<1>5. EventsInv /\ AheadInv
  BY <1>2, <1>3 DEF EventsInv, AheadInv, At, About, Dispatching, Running
<1>6. ChargeInv
  BY <1>1, <1>2, <1>3 DEF ChargeInv, Covers, About, Unused, Boundary
<1>7. RecoverInv /\ StaleInv
  BY <1>2, <1>3 DEF RecoverInv, StaleInv
<1>8. SuccessIsCertain /\ FailureRecorded
  BY <1>2, <1>3 DEF SuccessIsCertain, FailureRecorded, At
<1> QED
  BY <1>4, <1>5, <1>6, <1>7, <1>8 DEF Truthful, RecordInv

(* Every step keeps the records true.                                      *)
LEMMA NextRecords ==
  ASSUME TypeOK, RunInv, Truthful, [Next]_vars
  PROVE  Truthful'
<1>0. TypeOK' /\ RunInv'
  BY NextHolds
<1>1. CASE Start \/ Resume
  BY <1>0, <1>1, BegunRecords
<1>2. CASE LiveStep
  BY <1>0, <1>2, PlainRecords, TurnBoundaries, DispatchBoundaries, WrittenRecords, SentRecords,
     LeaveSteps, GuardRecords, DecisionRecords, ReturnedRecords, SettledRecords DEF LiveStep
<1>3. CASE WriteFails \/ Cancel
  BY <1>0, <1>3, LeaveSteps
<1>4. CASE DeleteWal \/ RecordFails \/ Crash
  BY <1>0, <1>4, GoneSteps
<1>5. CASE BeginRecover \/ BeginCancel
  BY <1>5, PlannedRecords
<1>6. CASE CommandStep
  BY <1>0, <1>6, PlannedRecords, IntentRecords, RecoverSent, ReplyRecords, CheckpointRecords,
     ClosedRecords DEF CommandStep
<1>7. CASE UNCHANGED vars
  <2>1. UNCHANGED <<checkpoint, wal, torn, lock, live, cmd, sent, open, stale, ending>>
    BY <1>7 DEF vars, disk, history
  <2>2. CallsSent' = CallsSent /\ ActsSent' = ActsSent
    BY <2>1, CountKept
  <2>3. PhaseInv' /\ EventsInv' /\ AheadInv'
    BY <2>1 DEF Truthful, RecordInv, PhaseInv, EventsInv, AheadInv, Fresh, Barred, Running, At,
                About, Dispatching
  <2>4. ChargeInv'
    BY <2>1, <2>2 DEF Truthful, RecordInv, ChargeInv, Covers, About, Call
  <2>5. RecoverInv' /\ StaleInv'
    BY <2>1, <2>2 DEF Truthful, RecordInv, RecoverInv, StaleInv, Covers, Lost, Running
  <2>6. SuccessIsCertain' /\ FailureRecorded'
    BY <2>1 DEF Truthful, SuccessIsCertain, FailureRecorded, At
  <2> QED
    BY <2>3, <2>4, <2>5, <2>6 DEF Truthful, RecordInv
<1> QED
  BY <1>1, <1>2, <1>3, <1>4, <1>5, <1>6, <1>7 DEF Next

(* At every step of a runner and of a recovery the checkpoint and the      *)
(* continuation say what the step has done: what is out is barred, what is *)
(* asked for is paid for, and a moved desktop is on record as not seen.    *)
THEOREM RecordsInvariant == Spec => []Truthful
<1>1. Init => Truthful
  BY InitRecords
<1>2. TypeOK /\ RunInv /\ Truthful /\ [Next]_vars => Truthful'
  BY NextRecords
<1> QED
  BY <1>1, <1>2, RunInvariant, PTL DEF Spec

(* What is out is barred, charged and never called a success, and a run    *)
(* that ends by itself says so (runner.py, recovery.py, trace.py).         *)
THEOREM RecordsTruth == Spec => []RecordsTruthful
<1>1. TypeOK /\ Truthful => RecordsTruthful
  <2> SUFFICES ASSUME TypeOK, Truthful
               PROVE  RecordsTruthful
    OBVIOUS
  <2>1. WriteAhead
    BY PlanCurrent DEF WriteAhead, TypeOK, Truthful, RecordInv, AheadInv
  <2>2. ChargedBeforeSent
    BY Numbers DEF ChargedBeforeSent, Truthful, RecordInv, ChargeInv, Covers
  <2> QED
    BY <2>1, <2>2 DEF RecordsTruthful, Truthful
<1> QED
  BY <1>1, RunInvariant, RecordsInvariant, PTL

-----------------------------------------------------------------------------
(* The names of the operations: what they are made of, and how a request   *)
(* adds one.                                                               *)
LEMMA NameTypes ==
  ASSUME TypeOK
  PROVE  /\ Made \subseteq Operations
         /\ \A op \in Made : op[2] \in Nat /\ (op[1] = "call" => op[3] \in Nat)
         /\ live.run.used.turns \in Nat /\ wal.used.turns \in Nat
         /\ cmd.seen.used.turns \in Nat
         /\ live.calls \in Seq(Effects)
<1>1. ASSUME NEW op \in Made PROVE op \in Operations
  <2>1. PICK i \in DOMAIN sent : op = sent[i].op
    BY DEF Made
  <2>2. sent[i] \in Requests
    BY DEF TypeOK
  <2> QED
    BY <2>1, <2>2 DEF Requests
<1>2. ASSUME NEW op \in Operations
      PROVE  op[2] \in Nat /\ (op[1] = "call" => op[3] \in Nat)
  BY DEF Operations
<1>3. \A u \in Budgets : u.turns \in Nat
  BY BudgetAssumption DEF Budgets
<1> QED
  BY <1>1, <1>2, <1>3 DEF TypeOK, Runners, RunStates, Continuations

LEMMA MadeKept ==
  ASSUME sent' = sent
  PROVE  Made' = Made
BY DEF Made

LEMMA MadeGrows ==
  ASSUME TypeOK, NEW request \in Requests, sent' = Append(sent, request)
  PROVE  Made' = Made \cup {request.op}
<1>1. /\ DOMAIN sent' = DOMAIN sent \cup {Len(sent) + 1}
      /\ \A i \in DOMAIN sent : sent'[i] = sent[i]
      /\ sent'[Len(sent) + 1] = request
  BY DEF TypeOK
<1> DEFINE n == Len(sent) + 1
<1> HIDE DEF n
<1>2. /\ DOMAIN sent' = DOMAIN sent \cup {n}
      /\ \A i \in DOMAIN sent : sent'[i] = sent[i]
      /\ sent'[n] = request
  BY <1>1 DEF n
<1> QED
  BY <1>2 DEF Made

(* What was not sent before a later turn or among fewer calls.             *)
LEMMA BeforeMore ==
  ASSUME TypeOK, NEW kind, NEW m \in Nat, NEW n \in Nat, m <= n, Before(kind, m)
  PROVE  Before(kind, n)
BY NameTypes DEF Before

LEMMA UntouchedMore ==
  ASSUME TypeOK, NEW n, NEW j \in Nat, NEW k \in Nat, k <= j, Untouched(n, j)
  PROVE  Untouched(n, k)
BY NameTypes DEF Untouched

(* No call of a turn that has not been sent is sent.                       *)
LEMMA UntouchedTurn ==
  ASSUME TypeOK, NEW n \in Nat, Before("call", n), NEW k
  PROVE  Untouched(n, k)
BY NameTypes DEF Before, Untouched

(* The names stay as they are as long as nothing is sent.                  *)
LEMMA NamesKept ==
  ASSUME sent' = sent
  PROVE  /\ NoLook' <=> NoLook
         /\ \A kind, n : (\A op \in Made' : op[1] = kind => op[2] < n) <=> Before(kind, n)
         /\ \A n, k : (\A op \in Made' : op[1] = "call" /\ op[2] = n => op[3] > k)
                            <=> Untouched(n, k)
BY MadeKept DEF NoLook, Before, Untouched

LEMMA ContinuableKept ==
  ASSUME sent' = sent, wal' = wal
  PROVE  (~Barred(wal) => Continuable(wal))' <=> (~Barred(wal) => Continuable(wal))
BY MadeKept DEF Barred, Continuable, NoLook, Before, Untouched

LEMMA CommandNamesKept ==
  ASSUME sent' = sent, cmd' = cmd, CommandNames, open' = open
  PROVE  CommandNames'
BY MadeKept DEF CommandNames, NoLook, Before, Untouched

(* A runner that ends leaves at most what is on record.                    *)
LEMMA EndedNames ==
  ASSUME TypeOK, RunInv, NamesInv, ~Running', wal' \in {wal, NoWal},
         UNCHANGED <<sent, cmd, open>>
  PROVE  NamesInv'
<1>1. RunnerNames'
  BY DEF RunnerNames
<1>2. (~Barred(wal) => Continuable(wal))'
  <2>1. CASE wal' = NoWal
    BY <2>1 DEF Barred
  <2>2. CASE wal' = wal
    BY <2>2, ContinuableKept DEF NamesInv
  <2> QED
    BY <2>1, <2>2
<1>3. CommandNames'
  BY CommandNamesKept DEF NamesInv
<1> QED
  BY <1>1, <1>2, <1>3 DEF NamesInv

(* A runner without a command.                                             *)
LEMMA RunningNames ==
  ASSUME TypeOK, RunInv, NamesInv, Running, cmd' = cmd, RunnerNames',
         (~Barred(wal) => Continuable(wal))'
  PROVE  NamesInv'
<1>1. cmd.pc = "idle"
  BY RunsAlone DEF RunInv
<1>2. CommandNames'
  BY <1>1 DEF CommandNames
<1> QED
  BY <1>2 DEF NamesInv

\* The boundary after the answer of a provider, and after a result.
Answered == At("write") /\ live.at = Boundary("provider", "completed")

(* A step of the runner that sends and writes nothing, in the same turn,   *)
(* and leaves no more calls to be sent than there were.                    *)
LEMMA RunnerKept ==
  ASSUME TypeOK, TypeOK', RunInv, NamesInv, Running, UNCHANGED <<wal, cmd, sent>>,
         live'.run.used.turns = live.run.used.turns,
         ~At("asking"), live'.pc # "asking", Answered' => Answered,
         Len(Left') <= Len(Left), Left \in Seq(Effects), Left' \in Seq(Effects),
         live'.calls # <<>> => Len(live'.calls) \in Places, NewsInv'
  PROVE  NamesInv'
<1>1. RunnerNames
  BY DEF NamesInv
<1> DEFINE turns == live.run.used.turns
           m == turns + (IF Answered THEN 0 ELSE 1)
           n == turns + (IF Answered' THEN 0 ELSE 1)
<1>2. turns \in Nat /\ m \in Nat /\ n \in Nat /\ m <= n
  BY NameTypes
<1>3. /\ NoLook /\ ~wal.ledger.mandatory /\ Before("turn", turns + 1)
      /\ Before("call", m) /\ Untouched(turns, Len(Left))
  BY <1>1 DEF RunnerNames, Answered, At
<1>4. Len(Left) \in Nat /\ Len(Left') \in Nat
  OBVIOUS
<1> HIDE DEF m, n
<1>5. Before("call", n) /\ Untouched(turns, Len(Left'))
  BY <1>2, <1>3, <1>4, BeforeMore, UntouchedMore
<1>6. RunnerNames'
  <2>1. /\ NoLook' /\ ~wal'.ledger.mandatory
        /\ (\A op \in Made' : op[1] = "turn" => op[2] < turns + 1)
        /\ (\A op \in Made' : op[1] = "call" => op[2] < n)
        /\ (\A op \in Made' : op[1] = "call" /\ op[2] = turns => op[3] > Len(Left'))
    BY <1>3, <1>5, MadeKept DEF NoLook, Before, Untouched
  <2> QED
    BY <2>1 DEF RunnerNames, Before, Untouched, Answered, At, n
<1>7. (~Barred(wal) => Continuable(wal))'
  BY ContinuableKept DEF NamesInv
<1> QED
  BY <1>6, <1>7, RunningNames

(* What is left to be sent, and its place in its turn.                     *)
LEMMA LeftTypes ==
  ASSUME TypeOK, RunInv
  PROVE  /\ live.calls \in Seq(Effects) /\ Len(live.calls) \in Nat
         /\ live.calls # <<>> => /\ Tail(live.calls) \in Seq(Effects)
                                 /\ Len(Tail(live.calls)) = Len(live.calls) - 1
                                 /\ Len(live.calls) > 0
         /\ Left \in Seq(Effects) /\ Len(Left) \in Nat
<1>1. /\ live.calls \in Seq(Effects) /\ live \in Runners
      /\ live.calls # <<>> => /\ Tail(live.calls) \in Seq(Effects)
                              /\ Len(Tail(live.calls)) = Len(live.calls) - 1
                              /\ Len(live.calls) > 0
  BY NameTypes DEF TypeOK
<1>2. live.pc \in {"waiting", "settle", "replan"}
        \/ (At("write") /\ live.at = Boundary("tool", "completed")) => live.calls # <<>>
  BY DEF RunInv, StepInv, InCall, At, Boundary
<1>3. Left \in {live.calls, Tail(live.calls)} /\ (Left # live.calls => live.calls # <<>>)
  BY <1>2 DEF Left, RunInv, StepInv, InCall, At, Boundary
<1> QED
  BY <1>1, <1>3

LEMMA PlacesDown ==
  ASSUME NEW calls \in Seq(Effects), Len(calls) \in Places, calls # <<>>, Tail(calls) # <<>>
  PROVE  Len(Tail(calls)) \in Places
<1>1. Len(Tail(calls)) = Len(calls) - 1 /\ Len(calls) \in Nat /\ Len(calls) > 1
  OBVIOUS
<1>2. PICK turn \in Turns : Len(calls) \in DOMAIN turn
  BY <1>1 DEF Places
<1>3. DOMAIN turn = 1..Len(turn) /\ Len(turn) \in Nat
  BY TurnsAssumption
<1>4. Len(calls) - 1 \in DOMAIN turn
  BY <1>1, <1>2, <1>3
<1> QED
  BY <1>1, <1>4 DEF Places

\* The budget of turns as the runner's steps leave it.
LEMMA TurnsKept ==
  ASSUME NEW r \in RunStates, NEW n \in Nat, NEW effect \in Effects, NEW outcome \in Outcomes
  PROVE  /\ WithEvents(r, n).used.turns = r.used.turns
         /\ WithEvents(Charged(r, "calls"), 1).used.turns = r.used.turns
         /\ ChargedAct(r).used.turns = r.used.turns
         /\ RecordResult(r, effect, outcome).used.turns = r.used.turns
<1>1. /\ WithEvents(r, n).used.turns = r.used.turns
      /\ WithEvents(Charged(r, "calls"), 1).used.turns = r.used.turns
      /\ ChargedAct(r).used.turns = r.used.turns
  BY DEF WithEvents, Charged, ChargedAct, RunStates, Budgets
<1>2. RecordResult(r, effect, outcome).used = r.used
  BY ResultTypes DEF RecordResult, WithEvents, RunStates
<1> QED
  BY <1>1, <1>2

(* A phase is recorded, a call is charged or allowed.                      *)
LEMMA PlainNames ==
  ASSUME TypeOK, TypeOK', RunInv, RunInv', NamesInv,
         \/ Observe \/ Discover \/ AskApproval \/ Execute \/ Approve
         \/ EnterCall \/ AllowObservation \/ AllowAct
  PROVE  NamesInv'
<1> USE DEF At, Goto
<1>0. live \in Runners /\ live.run \in RunStates /\ Running
  BY DEF TypeOK, Runners, Observe, Discover, AskApproval, Execute, Approve, EnterCall,
         AllowObservation, AllowAct, Running
<1>1. PICK r \in {live.run, WithEvents(Charged(live.run, "calls"), 1), ChargedAct(live.run)},
           pc \in {"discover", "loop", "approval", "prepare", "execute", "authorize"} :
        live' = [live EXCEPT !.pc = pc, !.run = r]
  <2>1. ASSUME NEW pc, live' = [live EXCEPT !.pc = pc]
        PROVE  live' = [live EXCEPT !.pc = pc, !.run = live.run]
    BY <1>0, <2>1 DEF Runners
  <2> QED
    BY <2>1 DEF Observe, Discover, AskApproval, Execute, Approve, EnterCall,
                AllowObservation, AllowAct
<1>2. /\ live'.pc \in {"discover", "loop", "approval", "prepare", "execute", "authorize"}
      /\ live'.calls = live.calls /\ live'.run = r
  BY <1>0, <1>1 DEF Runners
<1>3. live'.run.used.turns = live.run.used.turns
  <2>1. "observation" \in Effects /\ "ok" \in Outcomes
    BY DEF Effects, Outcomes
  <2> QED
    BY <1>0, <1>1, <1>2, <2>1, TurnsKept
<1>4. /\ UNCHANGED <<wal, cmd, sent>>
      /\ live.pc \in {"created", "discover", "authorize", "execute", "approval", "call"}
  BY DEF Observe, Discover, AskApproval, Execute, Approve, EnterCall, Record,
         AllowObservation, AllowAct, disk, history
<1>5. Left = live.calls /\ Left' = live.calls
  BY <1>2, <1>4 DEF Left
<1>6. NewsInv' /\ ~Answered'
  BY <1>2 DEF NewsInv, Answered
<1>7. live'.calls # <<>> => Len(live'.calls) \in Places
  BY <1>0, <1>2 DEF NamesInv, RunnerNames
<1> QED
  BY <1>0, <1>2, <1>3, <1>4, <1>5, <1>6, <1>7, LeftTypes, RunnerKept

(* A call is given up or done, and the turn goes on.                       *)
LEMMA TurnGoesOn ==
  ASSUME TypeOK, TypeOK', RunInv, RunInv', NamesInv, Reobserve \/ Settle \/ Replan
  PROVE  NamesInv'
<1> USE DEF At, Goto
<1>0. live \in Runners /\ live.run \in RunStates /\ Running
  BY DEF TypeOK, Runners, Reobserve, Settle, Replan, Running
<1>1. UNCHANGED <<wal, cmd, sent>> /\ live.pc \in {"approval", "settle", "replan"}
  BY DEF Reobserve, Settle, Replan, Record
<1>2. live.calls # <<>>
  BY <1>1 DEF RunInv, StepInv, InCall, Undispatched
<1>3. /\ live'.pc \in {"loop", "replan", "call"}
      /\ live'.run.used.turns = live.run.used.turns
      /\ live'.calls \in {<<>>, live.calls, Tail(live.calls)}
      /\ live'.pc = "replan" <=> live.pc = "settle"
      /\ live'.pc = "replan" => live'.calls = live.calls
      /\ live.pc = "replan" => live'.calls = Tail(live.calls)
      /\ live.pc = "approval" => live'.calls = <<>>
  <2>1. CASE Reobserve
    <3> DEFINE r == [WithEvents(live.run, 2) EXCEPT !.verified = FALSE,
                        !.recovery = "requires_reobservation"]
    <3>1. /\ live' = [live EXCEPT !.pc = "loop", !.run = r, !.outer = r, !.calls = <<>>,
                                  !.grounded = FALSE]
          /\ live.pc = "approval"
      BY <2>1 DEF Reobserve
    <3>2. r.used = live.run.used
      BY <1>0 DEF WithEvents, RunStates
    <3> HIDE DEF r
    <3> QED
      BY <1>0, <3>1, <3>2 DEF Runners
  <2>2. CASE Settle
    BY <1>0, <2>2 DEF Settle, Runners
  <2>3. CASE Replan
    BY <1>0, <2>3 DEF Replan, Runners
  <2> QED
    BY <2>1, <2>2, <2>3
<1>4. NewsInv' /\ ~Answered'
  BY <1>3 DEF NewsInv, Answered
<1>5. Len(Left') <= Len(Left)
  <2>1. CASE live.pc = "approval"
    <3>1. Left = live.calls /\ Left' = <<>> /\ Len(Left') = 0
      BY <1>3, <2>1 DEF Left
    <3> QED
      BY <1>0, <3>1, LeftTypes
  <2>2. CASE live.pc = "settle" \/ live.pc = "replan"
    <3>1. Left' = Left
      BY <1>1, <1>3, <2>2 DEF Left
    <3> QED
      BY <3>1, LeftTypes
  <2> QED
    BY <1>1, <2>1, <2>2
<1>6. live'.calls # <<>> => Len(live'.calls) \in Places
  BY <1>0, <1>2, <1>3, LeftTypes, PlacesDown DEF NamesInv, RunnerNames
<1>7. Left \in Seq(Effects) /\ Left' \in Seq(Effects)
  <2>1. live'.calls \in Seq(Effects) /\ (live'.pc = "replan" => live'.calls # <<>>)
    BY <1>2, <1>3 DEF TypeOK, Runners
  <2>2. Left' \in {live'.calls, Tail(live'.calls)} /\ (Left' # live'.calls => live'.calls # <<>>)
    BY <1>3, <2>1 DEF Left
  <2>3. ASSUME NEW s \in Seq(Effects), s # <<>> PROVE Tail(s) \in Seq(Effects)
    BY <2>3, HeadTailProperties
  <2> QED
    BY <2>1, <2>2, <2>3, LeftTypes
<1> QED
  BY <1>0, <1>1, <1>3, <1>4, <1>5, <1>6, <1>7, RunnerKept

(* The next boundary of a runner in the same turn.                         *)
LEMMA BoundaryNames ==
  ASSUME TypeOK, TypeOK', RunInv, RunInv', NamesInv, Running, live.pc # "asking",
         NEW l \in Runners, NEW boundary, NEW news, AdvanceTo(l, boundary, news),
         UNCHANGED sent, l.calls = live.calls,
         l.run.used.turns = live.run.used.turns, boundary # Boundary("provider", "completed"),
         boundary = Boundary("tool", "completed") => live.calls # <<>>,
         ~(live.pc = "write" \/ live.pc = "settle" \/ live.pc = "replan"),
         live.pc = "waiting" => boundary = Boundary("tool", "completed"),
         NewsInv'
  PROVE  NamesInv'
<1> USE DEF At
<1>1. /\ live'.pc = "write" /\ live'.run = l.run /\ live'.at = boundary
      /\ live'.calls = live.calls /\ UNCHANGED <<wal, cmd>>
  BY AdvanceView
<1>2. ~Answered'
  BY <1>1 DEF Answered
<1>3. /\ Left = IF live.pc = "waiting" THEN Tail(live.calls) ELSE live.calls
      /\ Left' = IF boundary = Boundary("tool", "completed") THEN Tail(live.calls) ELSE live.calls
  BY <1>1 DEF Left
<1>4. Len(Left') <= Len(Left) /\ Left \in Seq(Effects) /\ Left' \in Seq(Effects)
  BY <1>3, LeftTypes
<1>5. live'.calls # <<>> => Len(live'.calls) \in Places
  BY <1>1 DEF NamesInv, RunnerNames
<1> QED
  BY <1>1, <1>2, <1>4, <1>5, RunnerKept

LEMMA AdvanceNames ==
  ASSUME TypeOK, TypeOK', RunInv, RunInv', Truthful, NamesInv,
         \/ BeginTurn \/ Intend \/ Prepare \/ NotEntered
         \/ \E outcome \in Outcomes, dying \in BOOLEAN : Return(outcome, dying)
  PROVE  NamesInv'
<1> USE DEF At
<1>0. live \in Runners /\ live.run \in RunStates /\ live.at \in Boundaries
  BY DEF TypeOK, Runners
<1>1. ASSUME NEW boundary, NEW news, AdvanceTo(live, boundary, news), UNCHANGED sent
      PROVE  live'.pc = "write" /\ live'.at = boundary /\ live'.news = news
             /\ live'.calls = live.calls
  BY <1>0, <1>1, AdvanceView
<1>2. CASE BeginTurn
  <2>1. /\ live.pc = "loop" /\ Running /\ AdvanceTo(live, Boundary("provider", "prepared"), <<>>)
        /\ UNCHANGED sent
    BY <1>2 DEF BeginTurn, Running, history
  <2>2. NewsInv'
    BY <1>1, <2>1 DEF NewsInv
  <2> QED
    BY <1>0, <2>1, <2>2, BoundaryNames DEF Boundary
<1>3. CASE Intend
  <2> DEFINE at == [live.at EXCEPT !.stage = "dispatch_intent"]
  <2>1. live.pc = "intent" /\ Running /\ AdvanceTo(live, at, <<>>) /\ UNCHANGED sent
    BY <1>3 DEF Intend, Running, history
  <2>2. at \in {Boundary("provider", "dispatch_intent"), Boundary("tool", "dispatch_intent")}
    BY <1>0, <2>1 DEF Boundaries, Boundary, RunInv, StepInv
  <2> HIDE DEF at
  <2>3. NewsInv'
    BY <1>1, <2>1, <2>2 DEF NewsInv
  <2> QED
    BY <1>0, <2>1, <2>2, <2>3, BoundaryNames DEF Boundary
<1>4. CASE Prepare
  <2>1. /\ live.pc = "prepare" /\ Running
        /\ AdvanceTo(live, Boundary("tool", "prepared"), <<CallEvent(Call)>>)
        /\ UNCHANGED sent
    BY <1>4 DEF Prepare, Running, history
  <2>2. NewsInv'
    BY <1>1, <2>1 DEF NewsInv, Call
  <2> QED
    BY <1>0, <2>1, <2>2, BoundaryNames DEF Boundary
<1>5. ASSUME NEW outcome \in Outcomes, NEW dying \in BOOLEAN, CompleteCall(outcome, dying),
             live.pc = "waiting" \/ (live.pc = "sending" /\ live.at.kind = "tool")
      PROVE  NamesInv'
  <2> DEFINE r == RecordResult(live.run, Call, outcome)
             l == [live EXCEPT !.run = r,
                               !.grounded = VerifiedAfter(Call, outcome, @), !.dying = dying]
  <2>1. Running /\ live.calls # <<>>
    BY <1>5 DEF Running, RunInv, StepInv, InCall, Undispatched, Truthful, RecordInv, AheadInv
  <2>2. Call \in Effects
    BY <1>0, <2>1 DEF Call, Runners
  <2>3. r \in RunStates /\ r.used.turns = live.run.used.turns
    BY <1>0, <2>2, ResultTypes, TurnsKept
  <2>4. AdvanceTo(l, Boundary("tool", "completed"), <<ResultEvent(outcome)>>) /\ UNCHANGED sent
    BY <1>5 DEF CompleteCall
  <2>5. l \in Runners /\ l.run = r /\ l.calls = live.calls
    <3>1. VerifiedAfter(Call, outcome, live.grounded) \in BOOLEAN
      BY <1>0 DEF VerifiedAfter, Seen, Unsettles, Runners
    <3> HIDE DEF r
    <3> QED
      BY <1>0, <2>3, <3>1 DEF Runners
  <2> HIDE DEF r, l
  <2>6. NewsInv'
    BY <2>4, <2>5, AdvanceView DEF NewsInv
  <2> QED
    BY <1>5, <2>1, <2>3, <2>4, <2>5, <2>6, BoundaryNames DEF Boundary
<1>6. CASE NotEntered
  BY <1>5, <1>6 DEF NotEntered, Outcomes
<1>7. ASSUME NEW outcome \in Outcomes, NEW dying \in BOOLEAN, Return(outcome, dying)
      PROVE  NamesInv'
  BY <1>5, <1>7 DEF Return
<1> QED
  BY <1>2, <1>3, <1>4, <1>6, <1>7

(* A request that is sent under a new name is a step of the log.           *)
LEMMA IssueNames ==
  ASSUME TypeOK, TypeOK', ~open, open', NEW request \in Requests, sent' = Append(sent, request),
         request.op \notin Made,
         request.op \in (({"turn"} \X (1..MaxTurns))
                    \cup ({"call"} \X (0..MaxTurns) \X Places)
                    \cup ({"reobserve"} \X (0..MaxTurns)))
  PROVE  Log!LogNext
<1> DEFINE op == request.op
           issued == [i \in DOMAIN sent |-> sent[i].op]
           after == [i \in DOMAIN sent' |-> sent'[i].op]
<1>1. /\ DOMAIN sent = 1..Len(sent) /\ Len(sent) \in Nat
      /\ DOMAIN sent' = 1..Len(sent) + 1
      /\ \A i \in 1..Len(sent) : sent'[i] = sent[i] /\ sent[i] \in Requests
      /\ sent'[Len(sent) + 1] = request
  BY DEF TypeOK
<1>2. after = Append(issued, op)
  <2>1. issued \in Seq(Operations) /\ Len(issued) = Len(sent) /\ op \in Operations
    <3>1. \A r \in Requests : r.op \in Operations
      BY DEF Requests
    <3> QED
      BY <1>1, <3>1
  <2>2. PICK a : a = Append(issued, op)
    OBVIOUS
  <2>3. /\ DOMAIN a = 1..Len(sent) + 1 /\ a[Len(sent) + 1] = op
        /\ \A i \in 1..Len(sent) : a[i] = issued[i]
        /\ a = [i \in DOMAIN a |-> a[i]]
    <3> HIDE DEF issued, op
    <3>1. /\ a \in Seq(Operations) /\ Len(a) = Len(issued) + 1 /\ a[Len(issued) + 1] = op
          /\ \A i \in 1..Len(issued) : a[i] = issued[i]
      BY <2>1, <2>2, AppendProperties
    <3> QED
      BY <1>1, <2>1, <3>1
  <2>4. \A i \in 1..Len(sent) + 1 : a[i] = after[i]
    BY <1>1, <2>3
  <2>5. DOMAIN after = 1..Len(sent) + 1 /\ after = [i \in DOMAIN after |-> after[i]]
    BY <1>1
  <2> HIDE DEF issued, after
  <2> QED
    BY <2>2, <2>3, <2>4, <2>5
<1>3. \A i \in DOMAIN issued : issued[i] # op
  BY DEF Made
<1>4. Log!Issue(op)
  BY <1>2, <1>3 DEF Log!Issue
<1> QED
  BY <1>4 DEF Log!LogNext

(* A provider's turn is answered: none of its calls has been sent.         *)
LEMMA AnswerNames ==
  ASSUME TypeOK, TypeOK', RunInv, RunInv', NamesInv, NEW calls \in Turns, Answer(calls)
  PROVE  NamesInv'
<1> USE DEF At
<1> DEFINE r == WithEvents(Charged(live.run, "turns"), 1)
           l == [live EXCEPT !.run = r, !.outer = r, !.calls = calls]
           turns == live.run.used.turns
<1>0. /\ live \in Runners /\ live.run \in RunStates /\ calls \in Seq(Effects)
      /\ turns \in Nat
  BY TurnsAssumption, NameTypes DEF TypeOK, Runners
<1>1. /\ live.pc = "asking" /\ Running
      /\ AdvanceTo(l, Boundary("provider", "completed"), <<TurnEvent(calls)>>)
      /\ UNCHANGED sent
  BY DEF Answer, Running, history
<1>2. r \in RunStates /\ r.used.turns = turns + 1
  <2>1. live.run.used.turns < MaxTurns
    BY <1>1 DEF RunInv, StepInv, Unanswered
  <2>2. Charged(live.run, "turns") \in RunStates
    BY <1>0, <2>1, RunStateTypes
  <2>3. r \in RunStates
    BY <2>2, RunStateTypes
  <2> QED
    BY <1>0, <2>3 DEF WithEvents, Charged, RunStates, Budgets
<1>3. l \in Runners /\ l.run = r /\ l.calls = calls
  <2> HIDE DEF r
  <2> QED
    BY <1>0, <1>2 DEF Runners
<1> HIDE DEF r, l
<1>4. /\ live'.pc = "write" /\ live'.run = r /\ live'.calls = calls
      /\ live'.at = Boundary("provider", "completed") /\ live'.news = <<TurnEvent(calls)>>
      /\ UNCHANGED <<wal, cmd>>
  BY <1>1, <1>3, AdvanceView
<1>5. Left' = calls /\ Len(calls) \in Nat
  BY <1>0, <1>4 DEF Left, Boundary
<1>6. /\ NoLook /\ ~wal.ledger.mandatory
      /\ Before("turn", turns + 2) /\ Before("call", turns + 1)
  BY <1>1 DEF NamesInv, RunnerNames
<1>7. Untouched(turns + 1, Len(calls))
  BY <1>0, <1>6, UntouchedTurn
<1>8. calls # <<>> => Len(calls) \in Places
  <2>1. calls # <<>> => Len(calls) \in DOMAIN calls
    BY <1>0
  <2> QED
    BY <2>1 DEF Places
<1>9. RunnerNames'
  <2>1. live'.run.used.turns = turns + 1
    BY <1>2, <1>4
  <2>2. /\ NoLook' /\ ~wal'.ledger.mandatory
        /\ (\A op \in Made' : op[1] = "turn" => op[2] < turns + 2)
        /\ (\A op \in Made' : op[1] = "call" => op[2] < turns + 1)
        /\ (\A op \in Made' : op[1] = "call" /\ op[2] = turns + 1 => op[3] > Len(Left'))
    BY <1>1, <1>4, <1>5, <1>6, <1>7, MadeKept DEF NoLook, Before, Untouched
  <2>3. NewsInv'
    BY <1>4 DEF NewsInv
  <2>4. turns + 2 = live'.run.used.turns + 1 /\ turns + 1 = live'.run.used.turns + 0
    BY <1>0, <2>1
  <2> QED
    BY <1>4, <1>5, <1>8, <2>1, <2>2, <2>3, <2>4 DEF RunnerNames, Before, Untouched
<1>10. (~Barred(wal) => Continuable(wal))'
  BY <1>1, <1>4, ContinuableKept DEF NamesInv
<1> QED
  BY <1>1, <1>4, <1>9, <1>10, RunningNames

(* What an event makes of a ledger from which a run may be continued.      *)
LEMMA FoldNames ==
  ASSUME NEW f \in Ledgers, NEW e \in Events, FoldEvent(f, e).valid
  PROVE  /\ FoldEvent(f, e).mandatory =
                IF e.type = "turn" THEN FALSE
                ELSE IF e.type = "call" THEN e.mandatory ELSE f.mandatory
         /\ e.type # "turn" => ~FoldEvent(f, e).closed
         /\ e.type = "result" /\ f.mandatory =>
                FoldEvent(f, e).recovery \in {"unknown_outcome", "stopped"}
<1>1. ~(~f.valid \/ f.closed \/ f.recovery \in {"unknown_outcome", "stopped"})
  BY DEF FoldEvent, Ledgers
<1>2. e.type \in {"turn", "call", "result"}
  BY DEF Events
<1>3. CASE e.type = "turn"
  BY <1>1, <1>3 DEF FoldEvent, FoldTurn, Ledgers
<1>4. CASE e.type = "call"
  <2>1. FoldEvent(f, e) = FoldCall(f, e)
    BY <1>1, <1>4 DEF FoldEvent
  <2>2. FoldCall(f, e).mandatory = e.mandatory /\ FoldCall(f, e).closed = f.closed
    BY DEF FoldCall, Ledgers
  <2> QED
    BY <1>1, <1>4, <2>1, <2>2
<1>5. CASE e.type = "result"
  BY <1>1, <1>5 DEF FoldEvent, FoldResult, StatusAfter, Ledgers
<1> QED
  BY <1>2, <1>3, <1>4, <1>5

(* A runner writes no ledger that asks for a look of its own, and on one   *)
(* from which the run may be continued everything is still to be sent.     *)
LEMMA WrittenNames ==
  ASSUME TypeOK, TypeOK', RunInv, RunInv', NamesInv, WriteBoundary
  PROVE  NamesInv'
<1> USE DEF At
<1> DEFINE turns == live.run.used.turns
<1>0. /\ live \in Runners /\ live.pc = "write" /\ Running
      /\ live.at \in Boundaries /\ live.at.kind # "none" /\ live.at.stage # "none"
      /\ wal.ledger \in Ledgers /\ turns \in Nat
  BY NameTypes DEF WriteBoundary, TypeOK, Runners, Running, RunInv, StepInv, Continuations
<1>1. /\ wal'.at = live.at /\ wal'.used = live.run.used
      /\ wal'.ledger = Folded(wal.ledger, live.news)
      /\ UNCHANGED <<cmd, sent>>
  BY DEF WriteBoundary
<1>2. /\ live'.pc = AfterWrite(live.at, live.calls)
      /\ live'.run = live.run /\ live'.calls = live.calls
  BY <1>0 DEF WriteBoundary, Goto, Runners
<1>3. \/ live.at.stage = "prepared" /\ live'.pc = "intent"
      \/ live.at.stage = "dispatch_intent" /\ live'.pc = "sending"
      \/ /\ live.at.stage = "completed" /\ live.at.kind = "provider"
         /\ live'.pc \in {"finish", "call"}
      \/ live.at.stage = "completed" /\ live.at.kind = "tool" /\ live'.pc = "settle"
  BY <1>0, <1>2 DEF AfterWrite, Boundaries
<1>4. /\ NoLook /\ ~wal.ledger.mandatory /\ NewsInv
      /\ Before("turn", turns + 1) /\ Before("call", turns + (IF Answered THEN 0 ELSE 1))
      /\ Untouched(turns, Len(Left))
      /\ live.calls # <<>> => Len(live.calls) \in Places
  BY <1>0 DEF NamesInv, RunnerNames, Answered
<1>5. Left' = Left /\ Len(Left) \in Nat
  <2>1. Left' = Left
    BY <1>0, <1>2, <1>3 DEF Left, Boundary, Boundaries
  <2> QED
    BY <2>1, LeftTypes
<1>6. Before("call", turns + 1)
  BY <1>0, <1>4, BeforeMore
<1>7. \/ live.news = <<>> /\ wal'.ledger = wal.ledger
      \/ \E e \in Events : /\ wal'.ledger = FoldEvent(wal.ledger, e)
                           /\ \/ e.type = "turn" /\ live.at.kind = "provider"
                              \/ e.type = "call" /\ ~e.mandatory
                              \/ e.type = "result"
  <2>1. live.at.kind = "tool" => Call \in Effects
    BY <1>0 DEF Call, RunInv, StepInv, InCall, Runners, Boundaries
  <2>2. CASE live.news = <<>>
    BY <1>1, <2>2 DEF Folded
  <2>3. CASE live.news = <<TurnEvent(live.calls)>> /\ live.at = Boundary("provider", "completed")
    <3>1. TurnEvent(live.calls) \in Events /\ TurnEvent(live.calls).type = "turn"
      BY <1>0 DEF TurnEvent, Events, Runners
    <3> QED
      BY <1>1, <2>3, <3>1 DEF Folded, Boundary
  <2>4. CASE live.news = <<CallEvent(Call)>> /\ live.at = Boundary("tool", "prepared")
    <3>1. /\ CallEvent(Call) \in Events /\ CallEvent(Call).type = "call"
          /\ ~CallEvent(Call).mandatory
      BY <2>1, <2>4 DEF CallEvent, Events, Boundary
    <3> QED
      BY <1>1, <2>4, <3>1 DEF Folded
  <2>5. ASSUME NEW outcome \in Outcomes, live.news = <<ResultEvent(outcome)>>
        PROVE  \E e \in Events : wal'.ledger = FoldEvent(wal.ledger, e) /\ e.type = "result"
    <3>1. ResultEvent(outcome) \in Events /\ ResultEvent(outcome).type = "result"
      BY DEF ResultEvent, Events
    <3> QED
      BY <1>1, <2>5, <3>1 DEF Folded
  <2> QED
    BY <1>0, <1>4, <2>2, <2>3, <2>4, <2>5 DEF NewsInv
<1>8. ~wal'.ledger.mandatory
  <2>1. ASSUME NEW e \in Events, wal'.ledger = FoldEvent(wal.ledger, e),
               e.type = "call" => ~e.mandatory
        PROVE  ~wal'.ledger.mandatory
    <3>1. FoldEvent(wal.ledger, e).mandatory \in {FALSE, wal.ledger.mandatory}
      BY <1>0, <2>1 DEF FoldEvent, FoldTurn, FoldCall, FoldResult, Ledgers, Events
    <3> QED
      BY <1>4, <2>1, <3>1
  <2> QED
    BY <1>4, <1>7, <2>1
<1>9. RunnerNames'
  <2>1. ~(live'.pc = "asking") /\ ~(live'.pc = "write") /\ NewsInv'
    BY <1>3 DEF NewsInv
  <2>2. /\ NoLook'
        /\ (\A op \in Made' : op[1] = "turn" => op[2] < turns + 1)
        /\ (\A op \in Made' : op[1] = "call" => op[2] < turns + 1)
        /\ (\A op \in Made' : op[1] = "call" /\ op[2] = turns => op[3] > Len(Left'))
    BY <1>1, <1>4, <1>5, <1>6, MadeKept DEF NoLook, Before, Untouched
  <2> QED
    BY <1>2, <1>4, <1>8, <2>1, <2>2 DEF RunnerNames, Before, Untouched
<1>10. (~Barred(wal) => Continuable(wal))'
  <2> SUFFICES ASSUME ~Barred(wal')
               PROVE  Continuable(wal)'
    BY DEF Barred
  <2>1. wal'.ledger.valid /\ wal'.at.stage # "dispatch_intent"
    BY DEF Barred
  <2>2. live.at = Boundary("tool", "prepared") => Untouched(turns, 1)
    <3>1. live.at = Boundary("tool", "prepared") => Left = live.calls /\ live.calls # <<>>
      BY <1>0 DEF Left, Boundary, RunInv, StepInv, InCall
    <3>2. live.calls # <<>> => 1 <= Len(live.calls) /\ Len(live.calls) \in Nat
      BY LeftTypes
    <3> QED
      BY <1>4, <3>1, <3>2, UntouchedMore
  <2>3. live.at.kind = "tool" => ~wal'.ledger.closed
    <3>1. live.at.kind = "tool" => live.news # <<>>
      <4>1. \A x : <<x>> # <<>>
        OBVIOUS
      <4>2. live.at.kind = "tool" /\ live.at.stage # "dispatch_intent" => live.news # <<>>
        <5>1. \/ live.news = <<>> /\ live.at \in {Boundary("provider", "prepared"),
                 Boundary("provider", "dispatch_intent"), Boundary("tool", "dispatch_intent")}
              \/ live.news # <<>>
          BY <1>0, <1>4, <4>1 DEF NewsInv
        <5> QED
          BY <5>1 DEF Boundary
      <4> QED
        BY <1>1, <2>1, <4>2
    <3> QED
      BY <1>0, <1>7, <2>1, <3>1, FoldNames
  <2>4. /\ NoLook'
        /\ (\A op \in Made' : op[1] = "turn" => op[2] < turns + 1)
        /\ (\A op \in Made' : op[1] = "call" => op[2] < turns + (IF Answered THEN 0 ELSE 1))
        /\ live.at = Boundary("tool", "prepared") =>
                (\A op \in Made' : op[1] = "call" /\ op[2] = turns => op[3] > 1)
    BY <1>1, <1>4, <2>2, MadeKept DEF NoLook, Before, Untouched
  <2>5. live.at.kind # "provider" => ~wal'.ledger.closed
    BY <1>0, <2>3 DEF Boundaries
  <2> QED
    BY <1>0, <1>1, <1>8, <2>4, <2>5 DEF Continuable, Before, Untouched, Answered
<1>11. Running'
  BY <1>3 DEF Running
<1> QED
  BY <1>0, <1>1, <1>9, <1>10, RunningNames

(* The runner hands a request over that has not been sent before.          *)
LEMMA SentNames ==
  ASSUME TypeOK, TypeOK', RunInv, RunInv', Truthful, NamesInv, Send
  PROVE  NamesInv' /\ ~open /\ Log!LogNext
<1> USE DEF At, Goto
<1> DEFINE turns == live.run.used.turns
           op == IF live.at.kind = "provider" THEN <<"turn", turns + 1>>
                 ELSE <<"call", turns, Len(live.calls)>>
<1>0. /\ live \in Runners /\ live.pc = "sending" /\ Running
      /\ live.at.kind \in {"provider", "tool"} /\ live.at.stage = "dispatch_intent"
      /\ wal.at.stage = "dispatch_intent"
      /\ UNCHANGED <<wal, cmd>> /\ open' /\ turns \in Nat
  BY NameTypes
     DEF Send, Leaves, TypeOK, Runners, Running, RunInv, StepInv, Boundaries, Truthful,
         RecordInv, AheadInv, disk
<1>1. /\ live'.pc = IF live.at.kind = "provider" THEN "asking" ELSE "waiting"
      /\ live'.run = live.run /\ live'.calls = live.calls
  BY <1>0 DEF Send, Runners
<1>2. PICK request \in Requests : sent' = Append(sent, request) /\ request.op = op
  <2> DEFINE request == sent'[Len(sent) + 1]
  <2>1. sent \in Seq(Requests) /\ sent' \in Seq(Requests)
    BY DEF TypeOK
  <2>2. sent' = Append(sent, request) /\ request \in Requests /\ request.op = op
    BY <1>0, <2>1 DEF Send, Leaves
  <2> HIDE DEF request
  <2> QED
    BY <2>2
<1>3. Made' = Made \cup {op}
  BY <1>2, MadeGrows
<1>4. /\ NoLook /\ ~wal.ledger.mandatory
      /\ Before("turn", turns + 1) /\ Before("call", turns + 1)
      /\ Untouched(turns, Len(Left))
      /\ live.calls # <<>> => Len(live.calls) \in Places
  BY <1>0 DEF NamesInv, RunnerNames
<1>5. /\ Left = live.calls
      /\ Left' = IF live.at.kind = "provider" THEN live.calls ELSE Tail(live.calls)
      /\ live.at.kind = "tool" => live.calls # <<>>
  BY <1>0, <1>1 DEF Left, RunInv, StepInv, InCall, Undispatched
<1>6. /\ Len(live.calls) \in Nat /\ Len(Left') \in Nat /\ Len(Left') <= Len(live.calls)
      /\ live.at.kind = "tool" => Len(Left') < Len(live.calls)
  BY <1>0, <1>5, LeftTypes
<1>7. op \notin Made
  <2>1. ASSUME op \in Made PROVE FALSE
    <3>1. CASE live.at.kind = "provider"
      <4>1. op[1] = "turn" /\ op[2] = turns + 1
        BY <3>1
      <4> QED
        BY <1>0, <1>4, <2>1, <4>1 DEF Before
    <3>2. CASE live.at.kind = "tool"
      <4>1. op[1] = "call" /\ op[2] = turns /\ op[3] = Len(live.calls)
        BY <3>2
      <4>2. op[3] > Len(live.calls)
        BY <1>4, <1>5, <2>1, <4>1 DEF Untouched
      <4> QED
        BY <1>6, <4>1, <4>2
    <3> QED
      BY <1>0, <3>1, <3>2
  <2> QED
    BY <2>1
<1>8. RunnerNames'
  <2>1. /\ NoLook'
        /\ (\A o \in Made' : o[1] = "turn" =>
                o[2] < turns + (IF live'.pc = "asking" THEN 2 ELSE 1))
        /\ (\A o \in Made' : o[1] = "call" => o[2] < turns + 1)
    <3>1. CASE live.at.kind = "provider"
      <4>1. op[1] = "turn" /\ op[2] = turns + 1
        BY <3>1
      <4> HIDE DEF op
      <4> QED
        BY <1>0, <1>1, <1>3, <1>4, <3>1, <4>1, NameTypes DEF NoLook, Before
    <3>2. CASE live.at.kind = "tool"
      <4>1. op[1] = "call" /\ op[2] = turns
        BY <3>2
      <4> HIDE DEF op
      <4> QED
        BY <1>0, <1>1, <1>3, <1>4, <3>2, <4>1, NameTypes DEF NoLook, Before
    <3> QED
      BY <1>0, <3>1, <3>2
  <2>2. \A o \in Made' : o[1] = "call" /\ o[2] = turns => o[3] > Len(Left')
    <3>1. \A o \in Made : o[1] = "call" /\ o[2] = turns => o[3] > Len(Left')
      BY <1>4, <1>5, <1>6, NameTypes DEF Untouched
    <3>2. op[1] = "call" => op[3] > Len(Left')
      BY <1>0, <1>6
    <3> HIDE DEF op
    <3> QED
      BY <1>3, <3>1, <3>2
  <2>3. NewsInv'
    BY <1>1 DEF NewsInv
  <2> QED
    BY <1>0, <1>1, <1>4, <2>1, <2>2, <2>3 DEF RunnerNames, Before, Untouched
<1>9. (~Barred(wal) => Continuable(wal))'
  BY <1>0 DEF Barred
<1>10. NamesInv'
  BY <1>0, <1>8, <1>9, RunningNames
<1>11. ~open
  BY <1>0 DEF Truthful, RecordInv, AheadInv
<1>12. op \in (({"turn"} \X (1..MaxTurns))
                    \cup ({"call"} \X (0..MaxTurns) \X Places)
                    \cup ({"reobserve"} \X (0..MaxTurns)))
  <2>1. live.run.used.turns \in 0..MaxTurns
    BY <1>0 DEF Runners, RunStates, Budgets
  <2>2. live.at.kind = "provider" => turns < MaxTurns
    BY <1>0 DEF RunInv, StepInv, Unanswered
  <2> QED
    BY <1>0, <1>4, <1>5, <2>1, <2>2, BudgetAssumption
<1>13. Log!LogNext
  BY <1>0, <1>2, <1>7, <1>11, <1>12, IssueNames
<1> QED
  BY <1>10, <1>11, <1>13

(* A run begins, or begins again, before anything has been sent.           *)
LEMMA BegunNames ==
  ASSUME TypeOK, RunInv, Truthful, Start \/ Resume
  PROVE  NamesInv' /\ UNCHANGED <<sent, open>>
<1>1. cmd.pc = "idle" /\ Fresh /\ UNCHANGED <<wal, cmd, sent, open>>
  BY DEF Start, Resume, RunInv, LockInv, Truthful, RecordInv, PhaseInv, disk, history
<1>2. /\ live'.pc = "created" /\ live'.run = FreshRun /\ live'.calls = <<>>
  BY DEF Start, Resume, Goto, At, NotRunning, Truthful, RecordInv, PhaseInv
<1>3. Made' = {} /\ wal' = NoWal /\ live'.run.used.turns = 0 /\ ~wal'.ledger.mandatory
  BY <1>1, <1>2 DEF Made, Fresh, FreshRun, Unused, NoWal, EmptyLedger
<1>4. RunnerNames'
  BY <1>2, <1>3 DEF RunnerNames, NoLook, Before, Untouched, NewsInv, At
<1>5. CommandNames' /\ (~Barred(wal) => Continuable(wal))'
  BY <1>1, <1>3 DEF CommandNames, Barred
<1> QED
  BY <1>1, <1>4, <1>5 DEF NamesInv

(* A run ends, is given up or dies: it sends nothing and puts no outcome   *)
(* on record.                                                              *)
LEMMA LeftNames ==
  ASSUME TypeOK, RunInv, NamesInv,
         \/ Finish \/ FailFinish \/ FailTurn \/ RefuseCall \/ DenyCall \/ Disapprove
         \/ Defer \/ RefuseResult \/ SettleUnknown \/ Cancel \/ WriteFails
         \/ RecordFails \/ Crash \/ DeleteWal
  PROVE  NamesInv' /\ UNCHANGED <<sent, open>>
<1>1. ASSUME NEW phase, NEW r, NEW how, Terminate(phase, r, how)
      PROVE  NamesInv' /\ UNCHANGED <<sent, open>>
  <2>1. live'.pc = "closing" /\ UNCHANGED <<wal, sent, cmd, open>>
    BY <1>1 DEF Terminate, NotRunning
  <2> QED
    BY <2>1, EndedNames DEF Running
<1>2. CASE \/ Finish \/ FailFinish \/ FailTurn \/ RefuseCall \/ DenyCall \/ Disapprove
           \/ Defer \/ RefuseResult \/ SettleUnknown \/ Cancel
  BY <1>1, <1>2 DEF Finish, FailFinish, FailTurn, RefuseCall, DenyCall, Disapprove, Defer,
                    RefuseResult, SettleUnknown, EndUnknown, Cancel, Fail
<1>3. CASE WriteFails
  <2>1. live.at.kind \in {"provider", "tool"}
    BY <1>3 DEF WriteFails, RunInv, StepInv, At, TypeOK, Runners, Boundaries
  <2>2. Fail(live.run) \/ Fail(WithEvents(live.run, 1)) \/ EndUnknown
            \/ Terminate("FAILED", live.outer, "error")
    BY <1>3, <2>1 DEF WriteFails
  <2> QED
    BY <1>1, <2>2 DEF Fail, EndUnknown
<1>4. CASE RecordFails \/ Crash \/ DeleteWal
  <2>1. /\ live'.pc \in {"closing", "gone"} /\ wal' \in {wal, NoWal}
        /\ UNCHANGED <<sent, cmd, open>>
    BY <1>4 DEF RecordFails, Leave, Crash, DeleteWal, Goto, NotRunning, TypeOK, Runners, history
  <2> QED
    BY <2>1, EndedNames DEF Running
<1> QED
  BY <1>2, <1>3, <1>4

(* A command that sends nothing, and whose next step sends nothing.        *)
LEMMA QuietNames ==
  ASSUME TypeOK, RunInv, NamesInv, ~Running, UNCHANGED <<live, sent, open>>,
         wal' \in {wal, NoWal}, cmd'.pc \notin {"intended", "send", "reply"}
  PROVE  NamesInv'
<1>1. RunnerNames' /\ CommandNames'
  BY DEF RunnerNames, CommandNames, Running
<1>2. (~Barred(wal) => Continuable(wal))'
  BY ContinuableKept DEF NamesInv, Barred
<1> QED
  BY <1>1, <1>2 DEF NamesInv

LEMMA QuietSteps ==
  ASSUME TypeOK, RunInv, NamesInv,
         \/ BeginRecover \/ BeginCancel \/ RecoverPlan \/ CommandStops
         \/ CompletionCheckpoint \/ FinalizeRun \/ FinalizeDelete \/ CancelDelete \/ CancelRecord
  PROVE  NamesInv' /\ UNCHANGED <<sent, open>>
<1>1. ~Running
  BY DEF BeginRecover, BeginCancel, RecoverPlan, CommandStops, CompletionCheckpoint,
         FinalizeRun, FinalizeDelete, CancelDelete, CancelRecord, RunInv, LockInv
<1>2. UNCHANGED <<live, sent, open>> /\ wal' \in {wal, NoWal}
  BY DEF BeginRecover, BeginCancel, RecoverPlan, CommandStops, CompletionCheckpoint,
         FinalizeRun, FinalizeDelete, CancelDelete, CancelRecord, disk, history
<1>3. cmd'.pc \notin {"intended", "send", "reply"}
  <2>1. CASE RecoverPlan
    BY <2>1 DEF RecoverPlan, Stops, NoCommand
  <2>2. CASE CompletionCheckpoint
    <3>1. \/ cmd' = [cmd EXCEPT !.pc = "finalize", !.action = "finalize_success"]
          \/ cmd' = [NoCommand EXCEPT !.pc = "plan"]
          \/ Stops
      BY <2>2 DEF CompletionCheckpoint
    <3>2. CASE cmd' = [cmd EXCEPT !.pc = "finalize", !.action = "finalize_success"]
      BY <3>2 DEF TypeOK
    <3>3. CASE cmd' = [NoCommand EXCEPT !.pc = "plan"] \/ Stops
      BY <3>3 DEF Stops, NoCommand
    <3> QED
      BY <3>1, <3>2, <3>3
  <2>3. CASE BeginRecover \/ BeginCancel \/ FinalizeRun \/ CancelDelete
    BY <2>3 DEF BeginRecover, BeginCancel, FinalizeRun, CancelDelete, TypeOK
  <2>4. CASE CommandStops \/ FinalizeDelete \/ CancelRecord
    BY <2>4 DEF CommandStops, FinalizeDelete, CancelRecord, Stops, NoCommand
  <2> QED
    BY <2>1, <2>2, <2>3, <2>4
<1> QED
  BY <1>1, <1>2, <1>3, QuietNames

(* A recovery puts on record what it is about to send: nothing that has    *)
(* been sent.                                                              *)
LEMMA IntentNames ==
  ASSUME TypeOK, TypeOK', RunInv, RunInv', Truthful, NamesInv, IntentWal
  PROVE  NamesInv' /\ UNCHANGED <<sent, open>>
<1> DEFINE w == cmd.seen
           v == Intended(w, cmd.action)
           f == w.ledger
           turns == w.used.turns
<1>0. /\ ~Running /\ w \in Continuations /\ f \in Ledgers /\ w.at \in Boundaries
      /\ turns \in Nat
  BY CommandAlone, CommandTypes, NameTypes DEF IntentWal, Continuations
<1>1. /\ cmd.pc = "intent" /\ wal = w /\ wal' = v
      /\ cmd'.pc = "intended" /\ cmd'.seen = v /\ cmd'.action = cmd.action
      /\ UNCHANGED <<live, sent, open>>
  BY DEF IntentWal, Current, TypeOK, history
<1>2. /\ w.at.stage # "none" /\ cmd.action = ClassifyStage(w.at, f) /\ cmd.action \in Executable
      /\ Affordable(cmd.action, w.at, w.used) /\ LedgerInv(f)
      /\ f.valid /\ f.recovery \notin {"unknown_outcome", "stopped"}
  BY <1>1 DEF RunInv, CommandInv
<1>3. w.at.stage # "dispatch_intent"
  BY <1>2 DEF ClassifyStage, Executable
<1>4. Continuable(wal)
  <2>1. ~Barred(wal)
    BY <1>1, <1>2, <1>3 DEF Barred, NoWal, Boundary
  <2> QED
    BY <2>1 DEF NamesInv
<1>5. /\ NoLook /\ ~f.mandatory /\ Before("turn", turns + 1) /\ Before("call", turns + 1)
      /\ w.at = Boundary("provider", "completed") => Before("call", turns)
      /\ w.at = Boundary("tool", "prepared") => Untouched(turns, 1)
      /\ w.at.kind # "provider" => ~f.closed
  BY <1>0, <1>1, <1>4, BeforeMore DEF Continuable
<1>6. v.used.turns = turns /\ v.at.stage = "dispatch_intent"
  BY <1>0, <1>2, IntendedTypes
<1>7. /\ v.at.kind = IF cmd.action = "continue_provider" THEN "provider" ELSE "tool"
      /\ cmd.action = "continue_provider" => v.ledger = f
  BY DEF Intended, Boundary
<1>8. cmd.action = "dispatch_observation" => Untouched(turns, 1)
  <2>1. cmd.action = "dispatch_observation" =>
            w.at \in {Boundary("tool", "prepared"), Boundary("provider", "completed")}
    BY <1>0, <1>2, <1>3 DEF ClassifyStage, Boundaries, Boundary
  <2> QED
    BY <1>0, <1>5, <2>1, UntouchedTurn
<1>9. cmd.action = "mandatory_reobserve" => v.ledger.mandatory
  <2> SUFFICES ASSUME cmd.action = "mandatory_reobserve"
               PROVE  v.ledger.mandatory
    OBVIOUS
  <2>1. w.at.stage = "completed" /\ w.at.kind # "provider"
    BY <1>0, <1>2 DEF ClassifyStage, Boundaries
  <2>2. v.ledger = FoldEvent(f, MandatoryCall)
    BY <2>1 DEF Intended
  <2>3. FoldEvent(f, MandatoryCall) = FoldCall(f, MandatoryCall)
    BY <1>2, <1>5, <2>1 DEF FoldEvent, MandatoryCall
  <2>4. FoldCall(f, MandatoryCall).mandatory
    BY <1>0 DEF FoldCall, MandatoryCall, Ledgers
  <2> QED
    BY <2>2, <2>3, <2>4
<1> HIDE DEF v, w
<1>10. CommandNames'
  <2>1. /\ NoLook'
        /\ (\A op \in Made' : op[1] = "turn" => op[2] < turns + 1)
        /\ (\A op \in Made' : op[1] = "call" => op[2] < turns + 1)
        /\ cmd.action = "dispatch_observation" =>
                (\A op \in Made' : op[1] = "call" /\ op[2] = turns => op[3] > 1)
    BY <1>1, <1>5, <1>8, MadeKept DEF NoLook, Before, Untouched
  <2> HIDE DEF turns, f
  <2> QED
    BY <1>1, <1>2, <1>5, <1>6, <1>7, <1>9, <2>1
       DEF CommandNames, Before, Untouched, Executable
<1>11. RunnerNames' /\ (~Barred(wal) => Continuable(wal))'
  BY <1>0, <1>1, <1>6 DEF RunnerNames, Running, Barred
<1> QED
  BY <1>1, <1>10, <1>11 DEF NamesInv

LEMMA IntentKept ==
  ASSUME TypeOK, TypeOK', RunInv, NamesInv, IntentCheckpoint
  PROVE  NamesInv' /\ UNCHANGED <<sent, open>>
<1>1. /\ cmd.pc = "intended" /\ cmd'.pc = "send" /\ cmd'.seen = cmd.seen
      /\ cmd'.action = cmd.action /\ UNCHANGED <<wal, live, sent, open>> /\ ~Running
  BY CommandAlone DEF IntentCheckpoint, TypeOK, history
<1>2. CommandNames'
  BY <1>1, MadeKept DEF NamesInv, CommandNames, NoLook, Before, Untouched
<1>3. RunnerNames' /\ (~Barred(wal) => Continuable(wal))'
  BY <1>1, ContinuableKept DEF NamesInv, RunnerNames, Running
<1> QED
  BY <1>1, <1>2, <1>3 DEF NamesInv

(* A recovery hands over a request that has not been sent before.          *)
LEMMA RecoveredNames ==
  ASSUME TypeOK, TypeOK', RunInv, RunInv', Truthful, NamesInv, RecoverSend
  PROVE  NamesInv' /\ Log!LogNext
<1> DEFINE w == cmd.seen
           turns == w.used.turns
           kind == IF w.ledger.mandatory THEN "mandatory" ELSE w.at.kind
           op == IF kind = "provider" THEN <<"turn", turns + 1>>
                 ELSE IF kind = "mandatory" THEN <<"reobserve", turns>>
                 ELSE <<"call", turns, 1>>
<1>0. /\ ~Running /\ turns \in 0..MaxTurns /\ turns \in Nat
      /\ w.ledger.mandatory \in BOOLEAN
  BY CommandAlone, CommandTypes, NameTypes DEF RecoverSend, Budgets, Ledgers
<1>1. /\ cmd.pc = "send" /\ cmd'.pc = "reply" /\ cmd'.seen = w /\ cmd'.action = cmd.action
      /\ UNCHANGED <<wal, live>> /\ open'
  BY DEF RecoverSend, Leaves, TypeOK, disk
<1>2. /\ w.at.kind = IF cmd.action = "continue_provider" THEN "provider" ELSE "tool"
      /\ w.at.kind = "provider" => ~w.ledger.mandatory
      /\ Before("turn", turns + 1) /\ Before("call", turns + 1) /\ NoLook
      /\ w.at.kind = "tool" /\ ~w.ledger.mandatory => Untouched(turns, 1)
  BY <1>1 DEF NamesInv, CommandNames
<1>3. wal \in {w, NoWal} /\ w.at.stage = "dispatch_intent" /\ ~open
  BY <1>1 DEF Truthful, RecordInv, RecoverInv
<1>4. PICK request \in Requests : sent' = Append(sent, request) /\ request.op = op
  <2> DEFINE request == sent'[Len(sent) + 1]
  <2>1. sent \in Seq(Requests) /\ sent' \in Seq(Requests)
    BY DEF TypeOK
  <2>2. sent' = Append(sent, request) /\ request \in Requests /\ request.op = op
    BY <2>1 DEF RecoverSend, Leaves
  <2> HIDE DEF request
  <2> QED
    BY <2>2
<1>5. Made' = Made \cup {op}
  BY <1>4, MadeGrows
<1>6. \/ kind = "provider" /\ op = <<"turn", turns + 1>> /\ turns < MaxTurns
            /\ w.at.kind = "provider"
      \/ kind = "mandatory" /\ op = <<"reobserve", turns>> /\ w.ledger.mandatory
            /\ w.at.kind = "tool"
      \/ kind = "tool" /\ op = <<"call", turns, 1>> /\ Untouched(turns, 1)
            /\ w.at.kind = "tool"
  <2>1. w.at.kind = "provider" => turns < MaxTurns
    BY <1>1, <1>2 DEF RunInv, CommandInv
  <2> QED
    BY <1>0, <1>2, <2>1
<1> HIDE DEF op, kind, turns, w
<1>7. op \notin Made
  <2>1. op = <<"turn", turns + 1>> => op \notin Made
    BY <1>0, <1>2 DEF Before
  <2>2. op = <<"reobserve", turns>> => op \notin Made
    BY <1>2 DEF NoLook
  <2>3. op = <<"call", turns, 1>> /\ Untouched(turns, 1) => op \notin Made
    BY DEF Untouched
  <2> QED
    BY <1>6, <2>1, <2>2, <2>3
<1>8. op \in (({"turn"} \X (1..MaxTurns))
                    \cup ({"call"} \X (0..MaxTurns) \X Places)
                    \cup ({"reobserve"} \X (0..MaxTurns)))
  <2>1. 1 \in Places
    BY DEF Places
  <2> QED
    BY <1>0, <1>6, <2>1, BudgetAssumption
<1>9. CommandNames'
  <2>1. /\ \A o \in Made' : o[1] = "turn" =>
                o[2] < turns + (IF w.at.kind = "provider" THEN 2 ELSE 1)
        /\ \A o \in Made' : o[1] = "call" => o[2] < turns + 1
        /\ NoLook' \/ w.ledger.mandatory
    <3>1. /\ \A o \in Made : o[1] = "turn" =>
                o[2] < turns + (IF w.at.kind = "provider" THEN 2 ELSE 1)
          /\ \A o \in Made : o[1] = "call" => o[2] < turns + 1
      BY <1>0, <1>2, NameTypes DEF Before
    <3>2. /\ op[1] = "turn" => op[2] < turns + (IF w.at.kind = "provider" THEN 2 ELSE 1)
          /\ op[1] = "call" => op[2] < turns + 1
          /\ op[1] # "reobserve" \/ w.ledger.mandatory
      BY <1>0, <1>6
    <3> QED
      BY <1>2, <1>5, <3>1, <3>2 DEF NoLook
  <2> QED
    BY <1>1, <1>2, <2>1 DEF CommandNames, Before, turns, w
<1>10. RunnerNames' /\ (~Barred(wal) => Continuable(wal))'
  BY <1>0, <1>1, <1>3 DEF RunnerNames, Running, Barred
<1>11. Log!LogNext
  BY <1>1, <1>3, <1>4, <1>7, <1>8, IssueNames
<1> QED
  BY <1>9, <1>10, <1>11 DEF NamesInv

(* What a recovery puts on record of its request may be continued with     *)
(* what has not been sent; of a mandatory look, nothing may.               *)
LEMMA CompletedNames ==
  ASSUME TypeOK, TypeOK', RunInv, RunInv', NamesInv,
         NEW w, CompletionWal(w), (~Barred(wal) => Continuable(wal))'
  PROVE  NamesInv'
<1>1. ~Running /\ cmd'.pc = "completed" /\ UNCHANGED live
  BY CommandAlone DEF CompletionWal, TypeOK
<1>2. RunnerNames' /\ CommandNames'
  BY <1>1 DEF RunnerNames, CommandNames, Running
<1> QED
  BY <1>2 DEF NamesInv

LEMMA ReplyNames ==
  ASSUME TypeOK, TypeOK', RunInv, RunInv', NamesInv,
         \/ \E outcome \in Outcomes \ {"yielded"} : RecoveredResult(outcome)
         \/ \E calls \in Turns : RecoveredTurn(calls)
  PROVE  NamesInv' /\ sent' = sent /\ (open' => open)
<1> DEFINE turns == cmd.seen.used.turns
           f == cmd.seen.ledger
<1>0. /\ cmd.seen \in Continuations /\ LedgerInv(f) /\ f \in Ledgers /\ turns \in Nat
      /\ cmd.pc = "reply" /\ sent' = sent /\ open
  BY CommandTypes, NameTypes
     DEF RunInv, CommandInv, RecoveredResult, RecoveredTurn, CompletionWal, NamesInv,
         CommandNames, Continuations
<1>1. /\ cmd.seen.at.kind = IF cmd.action = "continue_provider" THEN "provider" ELSE "tool"
      /\ cmd.seen.at.kind = "provider" => ~f.mandatory
      /\ Before("turn", turns + (IF cmd.seen.at.kind = "provider" THEN 2 ELSE 1))
      /\ Before("call", turns + 1)
      /\ f.mandatory \/ NoLook
  BY <1>0 DEF NamesInv, CommandNames
<1>2. ASSUME NEW outcome \in Outcomes, RecoveredResult(outcome)
      PROVE  NamesInv'
  <2> DEFINE w == CompletedCall(cmd.seen, outcome)
             e == ResultEvent(outcome)
  <2>1. e \in Events /\ e.type = "result"
    BY DEF ResultEvent, Events
  <2>2. /\ w \in Continuations /\ w.ledger = FoldEvent(f, e) /\ w.used = cmd.seen.used
        /\ w.at = Boundary("tool", "completed") /\ CompletionWal(w)
        /\ wal' = w
    <3>1. cmd.seen.at.kind = "tool" /\ CompletionWal(w)
      BY <1>1, <1>2 DEF RecoveredResult
    <3>2. w.at = Boundary(cmd.seen.at.kind, "completed")
      BY <1>0 DEF CompletedCall, Continuations
    <3> QED
      BY <1>0, <3>1, <3>2, CompletedCallTypes DEF CompletedCall, Continuations, CompletionWal
  <2> HIDE DEF w, e
  <2>3. ASSUME ~Barred(wal)' PROVE Continuable(wal)'
    <3>1. w.ledger.valid /\ w.ledger.recovery \notin {"unknown_outcome", "stopped"}
      BY <2>2, <2>3 DEF Barred
    <3>2. ~f.mandatory /\ ~w.ledger.mandatory /\ ~w.ledger.closed
      BY <1>0, <2>1, <2>2, <3>1, FoldNames
    <3>3. /\ NoLook' /\ (\A op \in Made' : op[1] = "turn" => op[2] < turns + 1)
          /\ (\A op \in Made' : op[1] = "call" => op[2] < turns + 1)
      BY <1>0, <1>1, <1>2, <3>2, MadeKept DEF NoLook, Before, RecoveredResult
    <3> QED
      BY <2>2, <3>2, <3>3 DEF Continuable, Before, Boundary
  <2> QED
    BY <2>2, <2>3, CompletedNames
<1>3. ASSUME NEW calls \in Turns, RecoveredTurn(calls)
      PROVE  NamesInv'
  <2> DEFINE w == CompletedTurn(cmd.seen, calls)
             e == TurnEvent(calls)
  <2>1. e \in Events /\ e.type = "turn"
    BY TurnsAssumption DEF TurnEvent, Events
  <2>2. /\ w \in Continuations /\ w.ledger = FoldEvent(f, e) /\ w.used.turns = turns + 1
        /\ w.at = Boundary("provider", "completed") /\ CompletionWal(w)
        /\ wal' = w
    <3>1. cmd.seen.at.kind = "provider" /\ CompletionWal(w) /\ turns < MaxTurns
      BY <1>0, <1>1, <1>3 DEF RecoveredTurn, RunInv, CommandInv
    <3>2. /\ w.at = Boundary(cmd.seen.at.kind, "completed")
          /\ w.ledger = FoldEvent(f, e) /\ w.used = TurnSpent(cmd.seen.used)
      BY <1>0 DEF CompletedTurn, Continuations
    <3>3. TurnSpent(cmd.seen.used).turns = turns + 1
      BY <1>0 DEF TurnSpent, Continuations, Budgets
    <3> QED
      BY <1>0, <3>1, <3>2, <3>3, CompletedTurnTypes, TurnsAssumption DEF CompletionWal
  <2> HIDE DEF w, e
  <2>3. ASSUME ~Barred(wal)' PROVE Continuable(wal)'
    <3>1. w.ledger.valid
      BY <2>2, <2>3 DEF Barred
    <3>2. ~f.mandatory /\ ~w.ledger.mandatory /\ cmd.seen.at.kind = "provider"
      BY <1>0, <1>1, <1>3, <2>1, <2>2, <3>1, FoldNames DEF RecoveredTurn
    <3>3. /\ NoLook' /\ (\A op \in Made' : op[1] = "turn" => op[2] < (turns + 1) + 1)
          /\ (\A op \in Made' : op[1] = "call" => op[2] < (turns + 1) + 0)
      BY <1>0, <1>1, <3>2, MadeKept, NameTypes DEF NoLook, Before
    <3> QED
      BY <2>2, <3>2, <3>3 DEF Continuable, Before, Boundary
  <2> QED
    BY <2>2, <2>3, CompletedNames
<1> QED
  BY <1>0, <1>2, <1>3

-----------------------------------------------------------------------------
(* The runner sends nothing but by Send, and puts nothing out of record.   *)
LEMMA NothingSent ==
  ASSUME TypeOK, LiveStep, ~Send
  PROVE  sent' = sent /\ (open' => open)
<1>1. CASE WriteBoundary
  BY <1>1 DEF WriteBoundary
<1>2. CASE \/ Observe \/ Discover \/ AskApproval \/ Execute \/ Approve \/ Reobserve
           \/ Settle \/ Replan
  BY <1>2 DEF Observe, Discover, AskApproval, Execute, Approve, Reobserve, Settle, Replan, Record
<1>3. CASE EnterCall \/ AllowObservation \/ AllowAct \/ BeginTurn \/ Intend \/ Prepare
  BY <1>3 DEF EnterCall, AllowObservation, AllowAct, BeginTurn, Intend, Prepare, history
<1>4. CASE \/ NotEntered
           \/ \E outcome \in Outcomes, dying \in BOOLEAN : Return(outcome, dying)
           \/ \E calls \in Turns : Answer(calls)
  <2>1. ASSUME NEW outcome, NEW dying, CompleteCall(outcome, dying)
        PROVE  sent' = sent /\ open' = open
    BY <2>1 DEF CompleteCall
  <2>2. CASE \E calls \in Turns : Answer(calls)
    BY <2>2 DEF Answer, history
  <2> QED
    BY <1>4, <2>1, <2>2 DEF NotEntered, Return
<1>5. CASE \/ Finish \/ FailFinish \/ FailTurn \/ RefuseCall \/ DenyCall \/ Disapprove
           \/ Defer \/ RefuseResult \/ SettleUnknown
  BY <1>5 DEF Finish, FailFinish, FailTurn, RefuseCall, DenyCall, Disapprove, Defer,
              RefuseResult, SettleUnknown, EndUnknown, Fail, Terminate
<1> QED
  BY <1>1, <1>2, <1>3, <1>4, <1>5 DEF LiveStep

(* A step that sends nothing is a step of the log, or none.                *)
LEMMA LogKept ==
  ASSUME TypeOK, TypeOK', sent' = sent, open' => open
  PROVE  [Log!LogNext]_(Log!logVars)
<1>1. open \in BOOLEAN /\ open' \in BOOLEAN
  BY DEF TypeOK
<1>2. [i \in DOMAIN sent |-> sent[i].op]' = [i \in DOMAIN sent |-> sent[i].op]
  OBVIOUS
<1>3. CASE open' = open
  BY <1>2, <1>3 DEF Log!logVars
<1>4. CASE open /\ ~open'
  BY <1>2, <1>4 DEF Log!LogNext, Log!Settle
<1> QED
  BY <1>1, <1>3, <1>4

(* Every step keeps the names apart, and is a step of the log or none.     *)
LEMMA NextNames ==
  ASSUME TypeOK, RunInv, Truthful, NamesInv, [Next]_vars
  PROVE  NamesInv' /\ [Log!LogNext]_(Log!logVars)
<1>0. TypeOK' /\ RunInv'
  BY NextHolds
<1>1. CASE Start \/ Resume
  BY <1>0, <1>1, BegunNames, LogKept
<1>2. CASE LiveStep
  <2>1. NamesInv'
    BY <1>0, <1>2, PlainNames, TurnGoesOn, AdvanceNames, AnswerNames, WrittenNames, SentNames,
       LeftNames DEF LiveStep
  <2> QED
    BY <1>0, <1>2, <2>1, NothingSent, LogKept, SentNames
<1>3. CASE WriteFails \/ RecordFails \/ Cancel \/ Crash \/ DeleteWal
  BY <1>0, <1>3, LeftNames, LogKept
<1>4. CASE BeginRecover \/ BeginCancel
  BY <1>0, <1>4, QuietSteps, LogKept
<1>5. CASE CommandStep
  <2>1. CASE \/ RecoverPlan \/ CommandStops \/ CompletionCheckpoint \/ FinalizeRun
             \/ FinalizeDelete \/ CancelDelete \/ CancelRecord
    BY <1>0, <2>1, QuietSteps, LogKept
  <2>2. CASE IntentWal \/ IntentCheckpoint
    BY <1>0, <2>2, IntentNames, IntentKept, LogKept
  <2>3. CASE RecoverSend
    BY <1>0, <2>3, RecoveredNames
  <2>4. CASE \/ \E outcome \in Outcomes \ {"yielded"} : RecoveredResult(outcome)
             \/ \E calls \in Turns : RecoveredTurn(calls)
    BY <1>0, <2>4, ReplyNames, LogKept
  <2> QED
    BY <1>5, <2>1, <2>2, <2>3, <2>4 DEF CommandStep
<1>6. CASE UNCHANGED vars
  <2>1. UNCHANGED <<wal, live, cmd, sent, open>>
    BY <1>6 DEF vars, disk, history
  <2>2. RunnerNames'
    BY <2>1, MadeKept DEF NamesInv, RunnerNames, Running, NoLook, Before, Untouched, Left,
                          NewsInv, At, Call
  <2>3. CommandNames' /\ (~Barred(wal) => Continuable(wal))'
    BY <2>1, CommandNamesKept, ContinuableKept DEF NamesInv
  <2> QED
    BY <1>0, <2>1, <2>2, <2>3, LogKept DEF NamesInv
<1> QED
  BY <1>1, <1>2, <1>3, <1>4, <1>5, <1>6 DEF Next

(* Nothing has a name before the run begins.                               *)
LEMMA InitNames ==
  ASSUME Init
  PROVE  NamesInv
BY DEF Init, NotRunning, NoCommand, NamesInv, RunnerNames, CommandNames, Running, Barred

(* Whoever is about to send a request, or may be after a crash at any      *)
(* step, holds one that has not been sent (runner.py, recovery.py).        *)
THEOREM NamesInvariant == Spec => []NamesInv
<1>1. Init => NamesInv
  BY InitNames
<1>2. TypeOK /\ RunInv /\ Truthful /\ NamesInv /\ [Next]_vars => NamesInv'
  BY NextNames
<1> QED
  BY <1>1, <1>2, RunInvariant, RecordsInvariant, PTL DEF Spec

(* The run, its crashes and its recoveries implement the operation log: no *)
(* request and no call leaves the host twice, and none while the outcome   *)
(* of the one before it is not on record (runner.py, recovery.py).         *)
THEOREM RunKeepsTheLog == Spec => ImplementsLog
<1>1. Init => Log!LogInit
  BY DEF Init, Log!LogInit
<1>2. TypeOK /\ RunInv /\ Truthful /\ NamesInv /\ [Next]_vars => [Log!LogNext]_(Log!logVars)
  BY NextNames
<1> QED
  BY <1>1, <1>2, RunInvariant, RecordsInvariant, NamesInvariant, PTL
     DEF Spec, ImplementsLog, Log!LogSpec

-----------------------------------------------------------------------------
(* For every budget and every set of turns: types, the agreement of runner, *)
(* files and commands, and a recovery that only reads (recovery.py).       *)
THEOREM RunSafety == Spec => []RunSafe
BY RunInvariant, RecoveryReadOnly, RecordsInvariant, NamesInvariant, PTL DEF RunSafe, Truthful

(* No action without a fresh look at the desktop, and no write over a       *)
(* terminal checkpoint (runner.py, trace.py).                              *)
THEOREM StepsSafety == Spec => StepsSafe
BY ActionsOnSeenDesktop, TerminalStays, PTL DEF StepsSafe
=============================================================================
