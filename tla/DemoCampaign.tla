---------------------------- MODULE DemoCampaign ----------------------------
(***************************************************************************)
(* demo_campaign.py: a campaign whose items have a side effect.  One       *)
(* process at a time works through the items; it may be killed between any *)
(* two writes, and a fresh process then classifies what it left behind     *)
(* from the durable ledger and the two-phase sink alone.                   *)
(*                                                                         *)
(* The code counts seconds on a clock of its own (clock + 1 per boundary); *)
(* the store's clock is that clock, and runs on while no process is alive. *)
(***************************************************************************)
EXTENDS CampaignStore

VARIABLES
    proc,       \* the process: its next write, run id, item, planned items
    sink,       \* durable outcome per idempotency key
    performer,  \* history: the run whose dispatch wrote the intent
    duplicate   \* history: a key was dispatched a second time

demoVars == <<proc, sink, performer, duplicate>>
vars == <<storeVars, demoVars>>

WorkSteps == {"claim", "beat", "observe", "dispatch", "effect", "extract",
              "commit"}
ProcSteps == WorkSteps \cup
    {"discover", "heartbeat", "reconcile", "close", "recover", "open"}

TypeOK ==
    /\ StoreTypeOK
    /\ proc \in [at : ProcSteps \cup {"returned", "killed"},
                 run : Run \cup {NoRun}, item : 0..(N + 1), plan : SUBSET Item]
    /\ sink \in [Item -> {"none", "pending", "accepted"}]
    /\ performer \in [Item -> Run \cup {NoRun}]
    /\ duplicate \in BOOLEAN

Gone(how) == [at |-> how, run |-> NoRun, item |-> 0, plan |-> {}]

Init ==
    /\ StoreInit
    /\ proc = Gone("returned")
    /\ sink = [i \in Item |-> "none"]
    /\ performer = [i \in Item |-> NoRun]
    /\ duplicate = FALSE

Proceed(step) ==
    /\ proc' = [proc EXCEPT !.at = step]
    /\ UNCHANGED <<sink, performer, duplicate>>
Return ==
    /\ proc' = Gone("returned")
    /\ UNCHANGED <<sink, performer, duplicate>>
Alive == proc.at \in ProcSteps
me == proc.run

-----------------------------------------------------------------------------
(* prepare_demo_campaign: manifest, an append per item, heartbeat.         *)
Prepare(r) ==
    /\ ~Alive
    /\ create(clock)
    /\ proc' = [at |-> "discover", run |-> r, item |-> 1, plan |-> {}]
    /\ UNCHANGED <<sink, performer, duplicate>>

Discover ==
    /\ proc.at = "discover"
    /\ append(proc.item, "DISCOVERED", NoRun, clock)
    /\ proc' = [proc EXCEPT !.item = IF @ = N THEN 0 ELSE @ + 1,
                            !.at = IF proc.item = N THEN "heartbeat" ELSE @]
    /\ UNCHANGED <<sink, performer, duplicate>>

FirstHeartbeat ==
    /\ proc.at = "heartbeat"
    /\ write_heartbeat(me, clock)
    /\ Proceed("open")

-----------------------------------------------------------------------------
(* run_demo_campaign(resumed=True) in a fresh process.                     *)
Restart(r) ==
    /\ ~Alive
    /\ manifest.status # "ABSENT"
    /\ proc' = [at |-> "reconcile", run |-> r, item |-> 1, plan |-> {}]
    /\ UNCHANGED <<storeVars, sink, performer, duplicate>>

Visit(i) == proc.at = "reconcile" /\ proc.item = i
NextItem == proc' = [proc EXCEPT !.item = @ + 1]

CatchUp ==
    [CLAIMED |-> "OBSERVED", OBSERVED |-> "EXTRACTED", EXTRACTED |-> "COMMITTED"]

(* accepted: the ledger is caught up from the receipt, for its own run.    *)
Caught_CreditedHere(i) ==
    /\ Visit(i)
    /\ i \in InFlight
    /\ sink[i] = "accepted"
    /\ append(i, CatchUp[items[i].status], me, clock)
    /\ IF items[i].status = "EXTRACTED" THEN NextItem ELSE UNCHANGED proc
    /\ UNCHANGED <<sink, performer, duplicate>>
Caught(i) ==
    /\ Visit(i)
    /\ i \in InFlight
    /\ sink[i] = "accepted"
    /\ append(i, CatchUp[items[i].status], items[i].run, clock)
    /\ IF items[i].status = "EXTRACTED" THEN NextItem ELSE UNCHANGED proc
    /\ UNCHANGED <<sink, performer, duplicate>>

(* pending: nobody knows; the item waits for a human for good.             *)
Parked_Retried(i) ==
    /\ Visit(i)
    /\ i \in InFlight
    /\ sink[i] = "pending"
    /\ append(i, "RETRYABLE", items[i].run, clock)
    /\ NextItem
    /\ UNCHANGED <<sink, performer, duplicate>>
Parked_Trusted(i) ==
    /\ Visit(i)
    /\ i \in InFlight
    /\ sink[i] = "pending"
    /\ append(i, CatchUp[items[i].status], items[i].run, clock)
    /\ IF items[i].status = "EXTRACTED" THEN NextItem ELSE UNCHANGED proc
    /\ UNCHANGED <<sink, performer, duplicate>>
Parked(i) ==
    /\ Visit(i)
    /\ i \in InFlight
    /\ sink[i] = "pending"
    /\ append(i, "UNCERTAIN", items[i].run, clock)
    /\ NextItem
    /\ UNCHANGED <<sink, performer, duplicate>>

(* no record: a claim is released once its lease has expired.              *)
Released(i) ==
    /\ Visit(i)
    /\ sink[i] = "none"
    /\ LeaseStale(i, clock)
    /\ append(i, "RETRYABLE", items[i].run, clock)
    /\ NextItem
    /\ UNCHANGED <<sink, performer, duplicate>>

(* Everything else is left as it is.                                       *)
Left(i) ==
    /\ Visit(i)
    /\ i \notin InFlight \/ (sink[i] = "none" /\ ~LeaseStale(i, clock))
    /\ NextItem
    /\ UNCHANGED <<storeVars, sink, performer, duplicate>>

Reconciled ==
    /\ Visit(N + 1)
    /\ Proceed("close")
    /\ UNCHANGED storeVars

(* _take_over_from_dead_owner: FINISHED (OWNER_LOST), then the heartbeat.  *)
CloseBatch ==
    /\ proc.at = "close"
    /\ IF batch.active /\ batch.run # me
       THEN AppendFinished(batch.run) ELSE UNCHANGED storeVars
    /\ Proceed("recover")

TakeHeartbeat ==
    /\ proc.at = "recover"
    /\ \/ heartbeat.run \in {NoRun, me} /\ UNCHANGED storeVars
       \/ heartbeat.run # NoRun /\ recover_stale_heartbeat(heartbeat.run, me, clock)
    /\ Proceed("open")

TakeoverBlocked ==
    /\ proc.at = "recover"
    /\ heartbeat.run \notin {NoRun, me}
    /\ StaleRunState(clock) # "STALE" \/ \E i \in Item : LeaseStale(i, clock)
    /\ Return
    /\ UNCHANGED storeVars

-----------------------------------------------------------------------------
(* open_batch over every eligible item; a batch that is active, an id that *)
(* was used or an empty plan ends the run.                                 *)
OpenBatch ==
    /\ proc.at = "open"
    /\ Eligible # {}
    /\ AppendStarted(me)
    /\ proc' = [proc EXCEPT !.at = "claim", !.plan = Eligible]
    /\ UNCHANGED <<sink, performer, duplicate>>

NoBatch ==
    /\ proc.at = "open"
    /\ Eligible = {} \/ batch.active \/ me \in batch.ids
    /\ Return
    /\ UNCHANGED storeVars

(* Every boundary of _process_batch is a second after the one before it.   *)
now == clock + 1
Append(i, status) ==
    /\ clock < MaxTime
    /\ clock' = now
    /\ Transition(i, status, me, now)
    /\ UNCHANGED <<manifest, batch, heartbeat, handoff>>

OwnsBatch_NoHeartbeat ==
    /\ manifest.status = "RUNNING"
    /\ batch.active
    /\ batch.run = me
OwnsBatch ==
    /\ manifest.status = "RUNNING"
    /\ batch.active
    /\ batch.run = me
    /\ heartbeat.run = me
    /\ Fresh(now)

(* inspect_continuation: the plan is this run's commits, then what is      *)
(* eligible.                                                               *)
ClaimReady ==
    /\ OwnsBatch
    /\ InFlight = {}
    /\ proc.plan = CommittedBy(me) \cup Eligible

Claim ==
    /\ proc.at = "claim"
    /\ Eligible # {}
    /\ ClaimReady
    /\ \E i \in Item :
          /\ IsFirstEligible(i)
          /\ Append(i, "CLAIMED")
          /\ proc' = [proc EXCEPT !.at = "beat", !.item = i]
    /\ UNCHANGED <<sink, performer, duplicate>>

(* The loop ends when the plan is committed, and breaks when a claim is    *)
(* refused; the batch is left STARTED either way.                          *)
EndOfRun ==
    /\ proc.at = "claim"
    /\ CommittedBy(me) = proc.plan \/ ~ClaimReady
    /\ Return
    /\ UNCHANGED storeVars

Beat_Skipped ==
    /\ proc.at = "beat"
    /\ Proceed("observe")
    /\ UNCHANGED storeVars
Beat ==
    /\ proc.at = "beat"
    /\ write_heartbeat(heartbeat.run, clock)
    /\ Proceed("observe")

OnlyInFlight(status) ==
    /\ items[proc.item].status = status
    /\ items[proc.item].run = me
    /\ InFlight = {proc.item}

Observe ==
    /\ proc.at = "observe"
    /\ OwnsBatch
    /\ OnlyInFlight("CLAIMED")
    /\ LeaseActive(proc.item, now)
    /\ Append(proc.item, "OBSERVED")
    /\ Proceed("dispatch")

(* DurableFakeSideEffectSink.dispatch: a key it has seen is recorded as a  *)
(* duplicate and rejected; otherwise intent, effect and result.            *)
Dispatch ==
    /\ proc.at = "dispatch"
    /\ IF sink[proc.item] = "none"
       THEN /\ sink' = [sink EXCEPT ![proc.item] = "pending"]
            /\ performer' = [performer EXCEPT ![proc.item] = me]
            /\ proc' = [proc EXCEPT !.at = "effect"]
            /\ UNCHANGED duplicate
       ELSE /\ duplicate' = TRUE
            /\ proc' = Gone("returned")
            /\ UNCHANGED <<sink, performer>>
    /\ UNCHANGED storeVars

Effect ==
    /\ proc.at = "effect"
    /\ sink' = [sink EXCEPT ![proc.item] = "accepted"]
    /\ proc' = [proc EXCEPT !.at = "extract"]
    /\ UNCHANGED <<storeVars, performer, duplicate>>

Extract ==
    /\ proc.at = "extract"
    /\ OwnsBatch
    /\ OnlyInFlight("OBSERVED")
    /\ Append(proc.item, "EXTRACTED")
    /\ Proceed("commit")

Commit ==
    /\ proc.at = "commit"
    /\ OwnsBatch
    /\ OnlyInFlight("EXTRACTED")
    /\ Append(proc.item, "COMMITTED")
    /\ Proceed("claim")

Kill ==
    /\ Alive
    /\ proc' = Gone("killed")
    /\ UNCHANGED <<storeVars, sink, performer, duplicate>>

Second ==
    /\ ~Alive
    /\ Tick
    /\ UNCHANGED demoVars

ProcStep ==
    \/ Discover \/ FirstHeartbeat
    \/ \E i \in Item :
          Caught(i) \/ Parked(i) \/ Released(i) \/ Left(i)
    \/ Reconciled \/ CloseBatch \/ TakeHeartbeat \/ TakeoverBlocked
    \/ OpenBatch \/ NoBatch \/ Claim \/ EndOfRun \/ Beat \/ Observe
    \/ Dispatch \/ Effect \/ Extract \/ Commit

Next ==
    \/ ProcStep
    \/ \E r \in Run : Prepare(r) \/ Restart(r)
    \/ Kill \/ Second

Spec == Init /\ [][Next]_vars

(* A process that is not killed goes on; nobody has to start another.      *)
FairSpec == Spec /\ WF_vars(ProcStep)

-----------------------------------------------------------------------------
(* No side effect is dispatched twice, however often the process is killed *)
(* and restarted (reconcile_after_restart, run_demo_campaign).             *)
NoDuplicateDispatch == ~duplicate

(* The ledger never says more than the sink: a committed item's effect     *)
(* was accepted, and a parked item's outcome stays unknown                 *)
(* (_process_batch, reconcile_after_restart).                              *)
LedgerBacked ==
    \A i \in Item :
        /\ items[i].status = "COMMITTED" => sink[i] = "accepted"
        /\ items[i].status = "UNCERTAIN" => sink[i] = "pending"

(* "Reconciled work is attributed to the run that actually performed it"   *)
(* (reconcile_after_restart).                                              *)
CreditedToPerformer ==
    \A i \in WithStatus({"COMMITTED", "UNCERTAIN"}) : items[i].run = performer[i]

(* The process that touches the sink owns the claim, the active batch and  *)
(* the heartbeat: a takeover never leaves two owners                       *)
(* (_take_over_from_dead_owner, recover_stale_heartbeat).                  *)
DispatchedByOwner ==
    [][\A i \in Item : sink'[i] # sink[i] =>
         /\ items[i].run = me
         /\ batch.active /\ batch.run = me
         /\ heartbeat.run = me]_vars

(* A process that finds nothing in flight, and is not killed, leaves no    *)
(* item of its plan behind (_process_batch and _beat_heartbeat).           *)
UnkilledRunSettles ==
    proc.at = "claim" /\ ClaimReady
        ~> proc.at = "killed" \/ InFlight \cup Eligible = {} \/ clock = MaxTime

(* What the run checks of every state: however often the process is killed, *)
(* an effect happens once and the ledger credits it to who performed it.   *)
EffectsAccounted ==
    TypeOK /\ NoDuplicateDispatch /\ LedgerBacked /\ CreditedToPerformer

-----------------------------------------------------------------------------
(* A claim of the documentation that the code does not keep.               *)

(* "Every in-flight item lands in exactly one class", and one with no sink *)
(* record "is released for a normal retry": once a new run has taken over  *)
(* from a dead one, no item is still in flight.                            *)
EveryItemClassified ==
    proc.at = "open" /\ me \notin batch.ids => InFlight = {}
=============================================================================
