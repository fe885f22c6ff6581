------------------------- MODULE ApplicationCampaign ------------------------
(***************************************************************************)
(* application_campaign_runtime.py over batch_coordinator.py and           *)
(* campaign.py: a campaign of reviewed read-only items, one item per batch *)
(* and one run per batch.  Every command works under the run lock, but     *)
(* writes one file at a time and may die after any of them; executing an   *)
(* item takes the lock three times (inspect the claim, let the Agent run,  *)
(* commit), and other commands get in between.                             *)
(***************************************************************************)
EXTENDS CampaignStore

VARIABLES
    host,       \* the holder of the run lock: its next write, run and clock
    work,       \* per run: how far execute_claimed_application_item is when
                \* it is not holding the lock, and the `now` it was given
    traced      \* the runs whose Agent trace exists

vars == <<storeVars, host, work, traced>>

Idle == [at |-> "idle", run |-> NoRun, now |-> 0]
NoWork == [at |-> "none", now |-> 0]

ExecuteSteps == {"agent", "observe", "extract", "commit", "finish", "handoff"}
HostSteps == ExecuteSteps \cup
    {"discover", "open", "claim", "resumed", "terminal", "retire"}

TypeOK ==
    /\ StoreTypeOK
    /\ host \in [at : HostSteps \cup {"idle", "orphaned"},
                 run : Run \cup {NoRun}, now : Time]
    /\ work \in [Run -> [at : {"none", "inspected", "running", "extracted"},
                         now : Time]]
    /\ traced \in SUBSET Run

Init ==
    /\ StoreInit
    /\ host = Idle
    /\ work = [r \in Run |-> NoWork]
    /\ traced = {}

(* RunLock seen from the commands: a plain acquire succeeds only over a    *)
(* released lock; finally: releases it at the end of the command.          *)
LockFree == host.at = "idle"
Proceed(step) == host' = [host EXCEPT !.at = step]
Release == host' = Idle
Work(r, step) == work' = [work EXCEPT ![r].at = step]
Drop(r) == work' = [work EXCEPT ![r] = NoWork]

-----------------------------------------------------------------------------
(* prepare_application_campaign: the manifest, then an append per item.    *)
Prepare(r) ==
    /\ LockFree
    /\ r \notin traced
    /\ create(clock)
    /\ host' = [at |-> "discover", run |-> r, now |-> clock]
    /\ UNCHANGED <<work, traced>>

Discover ==
    /\ host.at = "discover"
    /\ LET next == Cardinality(Ledger) + 1
       IN  /\ append(next, "DISCOVERED", NoRun, host.now)
           /\ IF next = N THEN Release ELSE Proceed("discover")
    /\ UNCHANGED <<work, traced>>

-----------------------------------------------------------------------------
(* start_application_campaign_batch.                                       *)
StartAllowed(r) ==
    /\ r \notin traced
    /\ manifest.status = "RUNNING"
    /\ Ledger # {}
    /\ Ledger = Eligible
    /\ batch.run = NoRun
    /\ heartbeat.run = NoRun
    /\ handoff.run = NoRun

Start(r) ==
    /\ LockFree
    /\ StartAllowed(r)
    /\ write_heartbeat(r, clock)
    /\ host' = [at |-> "open", run |-> r, now |-> clock]
    /\ UNCHANGED <<work, traced>>

(* open_batch and open_resumed_batch: append_batch rejects an id it has.   *)
OpenBatch ==
    /\ host.at = "open"
    /\ Eligible # {}
    /\ AppendStarted(host.run)
    /\ Proceed("claim")
    /\ UNCHANGED <<work, traced>>

RefuseOpen_IdsForgotten ==
    /\ host.at = "open"
    /\ Eligible = {} \/ batch.active
    /\ Release
    /\ UNCHANGED <<storeVars, work, traced>>

RefuseOpen ==
    /\ host.at = "open"
    /\ Eligible = {} \/ batch.active \/ host.run \in batch.ids
    /\ Release
    /\ UNCHANGED <<storeVars, work, traced>>

(* _inspect_batch_ownership.                                               *)
OwnsBatch(r, now) ==
    /\ manifest.status = "RUNNING"
    /\ batch.active
    /\ batch.run = r
    /\ heartbeat.run = r
    /\ Fresh(now)

Claim_WholePlan ==
    /\ host.at = "claim"
    /\ OwnsBatch(host.run, host.now)
    /\ InFlight = {}
    /\ Eligible # {}
    /\ items' = [i \in Item |->
          IF i \in Eligible
          THEN [status |-> "CLAIMED", run |-> host.run,
                lease |-> host.now + LeaseTime]
          ELSE items[i]]
    /\ Release
    /\ UNCHANGED <<clock, manifest, batch, heartbeat, handoff, work, traced>>

(* inspect_continuation at index 0, and the CLAIMED append.                *)
Claim ==
    /\ host.at = "claim"
    /\ OwnsBatch(host.run, host.now)
    /\ InFlight = {}
    /\ CommittedBy(host.run) = {}
    /\ \E i \in Item :
          /\ IsFirstEligible(i)
          /\ append(i, "CLAIMED", host.run, host.now)
    /\ Release
    /\ UNCHANGED <<work, traced>>

-----------------------------------------------------------------------------
(* execute_claimed_application_item.                                       *)
ClaimedBy(r) == {i \in WithStatus({"CLAIMED"}) : items[i].run = r}

(* _claimed_application_session: neither freshness nor lease is looked at. *)
ClaimedSession(r) ==
    /\ manifest.status = "RUNNING"
    /\ batch.active
    /\ batch.run = r
    /\ heartbeat.run = r
    /\ Cardinality(ClaimedBy(r)) = 1

InspectClaim(r) ==
    /\ LockFree
    /\ work[r].at = "none"
    /\ ClaimedSession(r)
    /\ work' = [work EXCEPT ![r] = [at |-> "inspected", now |-> clock]]
    /\ UNCHANGED <<storeVars, host, traced>>

(* runner.run: a second run of the same id is refused by its trace.        *)
BeginAgentRun(r) ==
    /\ LockFree
    /\ work[r].at = "inspected"
    /\ r \notin traced
    /\ traced' = traced \cup {r}
    /\ Work(r, "running")
    /\ host' = [at |-> "agent", run |-> r, now |-> work[r].now]
    /\ UNCHANGED storeVars

(* It returns an extraction, or raises, blocks or lacks evidence.          *)
EndAgentRun ==
    /\ host.at = "agent"
    /\ \/ Work(host.run, "extracted")
       \/ Drop(host.run)
    /\ Release
    /\ UNCHANGED <<storeVars, traced>>

BeginCommit_WithoutRun(r) ==
    /\ LockFree
    /\ work[r].at # "none"
    /\ ClaimedSession(r)
    /\ host' = [at |-> "observe", run |-> r, now |-> work[r].now]
    /\ UNCHANGED <<storeVars, work, traced>>

(* The lock is taken again and the session rebuilt; every check from here  *)
(* on is against the `now` from before the Agent run.                      *)
BeginCommit(r) ==
    /\ LockFree
    /\ work[r].at = "extracted"
    /\ ClaimedSession(r)
    /\ host' = [at |-> "observe", run |-> r, now |-> work[r].now]
    /\ UNCHANGED <<storeVars, work, traced>>

(* Any execute that fails, is refused (its lock or its claim is taken, its *)
(* trace exists) or dies without the lock: what the Agent returned is lost. *)
Abandon(r) ==
    /\ work[r].at \in {"inspected", "extracted"}
    /\ ~(host.run = r /\ host.at \in ExecuteSteps)
    /\ Drop(r)
    /\ UNCHANGED <<storeVars, host, traced>>

(* record_next_*: inspect_claimed_item, inspect_observed_item and          *)
(* inspect_extracted_item ask for the only item in flight, in this status. *)
OnlyInFlight(i, status, r) ==
    /\ items[i].status = status
    /\ items[i].run = r
    /\ InFlight = {i}

ObserveReady(i) ==
    /\ OwnsBatch(host.run, host.now)
    /\ OnlyInFlight(i, "CLAIMED", host.run)
    /\ LeaseActive(i, host.now)

Observe ==
    /\ host.at = "observe"
    /\ \E i \in Item :
          ObserveReady(i) /\ append(i, "OBSERVED", host.run, host.now)
    /\ Proceed("extract")
    /\ UNCHANGED <<work, traced>>

RefuseObserve ==
    /\ host.at = "observe"
    /\ ~ \E i \in Item : ObserveReady(i)
    /\ Release
    /\ Drop(host.run)
    /\ UNCHANGED <<storeVars, traced>>

Extract ==
    /\ host.at = "extract"
    /\ OwnsBatch(host.run, host.now)
    /\ \E i \in Item :
          /\ OnlyInFlight(i, "OBSERVED", host.run)
          /\ append(i, "EXTRACTED", host.run, host.now)
    /\ Proceed("commit")
    /\ UNCHANGED <<work, traced>>

Commit ==
    /\ host.at = "commit"
    /\ OwnsBatch(host.run, host.now)
    /\ \E i \in Item :
          /\ OnlyInFlight(i, "EXTRACTED", host.run)
          /\ append(i, "COMMITTED", host.run, host.now)
    /\ Proceed("finish")
    /\ UNCHANGED <<work, traced>>

(* finish_continued_batch at ITEM_LIMIT: one committed item per run.       *)
Finish ==
    /\ host.at = "finish"
    /\ OwnsBatch(host.run, host.now)
    /\ InFlight = {}
    /\ Cardinality(CommittedBy(host.run)) = 1
    /\ AppendFinished(host.run)
    /\ Proceed("handoff")
    /\ UNCHANGED <<work, traced>>

FinishedBy(r) == ~batch.active /\ batch.run = r

(* write_finished_handoff: an accepted handoff of this run is kept.        *)
WriteHandoff ==
    /\ host.at = "handoff"
    /\ manifest.status = "RUNNING"
    /\ FinishedBy(host.run)
    /\ heartbeat.run = host.run
    /\ Fresh(host.now)
    /\ InFlight = {}
    /\ IF HandoffValid /\ handoff.run = host.run
       THEN UNCHANGED storeVars
       ELSE write_handoff(host.run)
    /\ Release
    /\ Drop(host.run)
    /\ UNCHANGED traced

-----------------------------------------------------------------------------
FinishedSession_HeartbeatOnly ==
    /\ manifest.status = "RUNNING"
    /\ batch.run # NoRun
    /\ heartbeat.run = batch.run

(* resume_application_campaign_batch: _finished_application_session, then  *)
(* the heartbeat is transferred to the replacement run.                    *)
FinishedSession ==
    /\ HandoffValid
    /\ manifest.status = "RUNNING"
    /\ batch.run # NoRun
    /\ ~batch.active
    /\ Cardinality(CommittedBy(batch.run)) = 1
    /\ handoff.run = batch.run
    /\ heartbeat.run = batch.run

ResumeAllowed(r) == FinishedSession /\ r # batch.run

Resume(r) ==
    /\ LockFree
    /\ ResumeAllowed(r)
    /\ \/ /\ StaleRunState(clock) = "STALE"
          /\ recover_stale_heartbeat(batch.run, r, clock)
       \/ /\ StaleRunState(clock) = "FRESH_HEARTBEAT"
          /\ InFlight = {}
          /\ replace_heartbeat_owner(batch.run, r, clock)
    /\ host' = [at |-> "resumed", run |-> r, now |-> clock]
    /\ UNCHANGED <<work, traced>>

(* inspect_campaign_resume for the run that now owns the heartbeat.        *)
ResumeReady(r, now) ==
    /\ HandoffValid
    /\ manifest.status = "RUNNING"
    /\ heartbeat.run = r
    /\ Fresh(now)
    /\ ~batch.active
    /\ InFlight = {}

Continue ==
    /\ host.at = "resumed"
    /\ ResumeReady(host.run, host.now)
    /\ Eligible # {}
    /\ Proceed("open")
    /\ UNCHANGED <<storeVars, work, traced>>

(* complete_exhausted_campaign after NO_ELIGIBLE_ITEMS.                    *)
Complete ==
    /\ host.at = "resumed"
    /\ ResumeReady(host.run, host.now)
    /\ Eligible = {}
    /\ complete_campaign(host.now)
    /\ Proceed("terminal")
    /\ UNCHANGED <<work, traced>>

(* write_completed_campaign_handoff.                                       *)
WriteTerminalHandoff ==
    /\ host.at = "terminal"
    /\ manifest.status = "COMPLETED"
    /\ heartbeat.run = host.run
    /\ Fresh(host.now)
    /\ Ledger # {}
    /\ Ledger = WithStatus({"COMMITTED"})
    /\ IF HandoffValid /\ handoff.run = host.run
       THEN UNCHANGED storeVars
       ELSE write_handoff(host.run)
    /\ Proceed("retire")
    /\ UNCHANGED <<work, traced>>

(* remove_completed_campaign_heartbeat.                                    *)
RetireHeartbeat ==
    /\ host.at = "retire"
    /\ remove_completed_heartbeat(host.run)
    /\ Release
    /\ UNCHANGED <<work, traced>>

-----------------------------------------------------------------------------
(* The operator's commands: each one write under the lock.                 *)
Pause ==
    /\ LockFree
    /\ transition_pause_state("PAUSED", clock)
    /\ UNCHANGED <<host, work, traced>>

Unpause ==
    /\ LockFree
    /\ transition_pause_state("RUNNING", clock)
    /\ UNCHANGED <<host, work, traced>>

ReleaseStaleClaim(i, r) ==
    /\ LockFree
    /\ release_stale_claim(i, r, clock)
    /\ UNCHANGED <<host, work, traced>>

(* The process holding the lock dies: its owner record stays in the file,  *)
(* and every plain acquire is refused until some command of the Agent root *)
(* acquires with recover_stale and releases.                               *)
Crash ==
    /\ host.at \in HostSteps
    /\ host' = [Idle EXCEPT !.at = "orphaned"]
    /\ IF host.at \in ExecuteSteps
       THEN Drop(host.run) ELSE UNCHANGED work
    /\ UNCHANGED <<storeVars, traced>>

RecoverLock ==
    /\ host.at = "orphaned"
    /\ Release
    /\ UNCHANGED <<storeVars, work, traced>>

Second == Tick /\ UNCHANGED <<host, work, traced>>

HostStep ==
    \/ Discover \/ OpenBatch \/ RefuseOpen \/ Claim \/ EndAgentRun
    \/ Observe \/ RefuseObserve \/ Extract \/ Commit \/ Finish \/ WriteHandoff
    \/ Continue \/ Complete \/ WriteTerminalHandoff \/ RetireHeartbeat

Next ==
    \/ HostStep
    \/ \E r \in Run :
          \/ Prepare(r) \/ Start(r) \/ InspectClaim(r) \/ BeginAgentRun(r)
          \/ BeginCommit(r) \/ Abandon(r) \/ Resume(r)
          \/ \E i \in Item : ReleaseStaleClaim(i, r)
    \/ Pause \/ Unpause \/ Crash \/ RecoverLock \/ Second

Spec == Init /\ [][Next]_vars

(* A command that holds the lock goes on: its steps are plain calls, and   *)
(* the Agent run is bounded by its own budgets.                            *)
FairSpec == Spec /\ WF_vars(HostStep)

-----------------------------------------------------------------------------
(* ADR-007: at most one item of a campaign holds an active claim, although *)
(* claims outlive the process that made them and are released by others    *)
(* (BatchCoordinator.inspect_continuation).                                *)
OneInFlight == Cardinality(InFlight) <= 1

(* A claim, the active batch and the heartbeat name the same run, although *)
(* they are written one after the other and any command may die in between *)
(* (start and resume_application_campaign_batch).                          *)
InFlightOwned ==
    \A i \in InFlight :
        batch.active /\ batch.run = items[i].run /\ heartbeat.run = items[i].run

(* No run commits two items, and none commits without its Agent run: the   *)
(* trace a commit rests on is that of this item alone                      *)
(* (execute_claimed_application_item).                                     *)
OneCommitPerAgentRun ==
    \A r \in Run :
        /\ Cardinality(CommittedBy(r)) <= 1
        /\ CommittedBy(r) # {} => r \in traced

(* Ownership of the heartbeat moves only between batches: never while an   *)
(* item is in flight or a batch is active                                  *)
(* (recover_stale_heartbeat, replace_heartbeat_owner).                     *)
OwnerMovesBetweenBatches ==
    [][heartbeat'.run # heartbeat.run => InFlight = {} /\ ~batch.active]_vars

(* A handoff that read_handoff accepts while no batch is active was left   *)
(* by the run of the last batch, over a ledger without claims; once the    *)
(* campaign is completed, by the run that completed it                     *)
(* (write_finished_handoff, write_completed_campaign_handoff).             *)
HandoffTruth ==
    HandoffValid /\ ~batch.active =>
        /\ InFlight = {}
        /\ manifest.status # "COMPLETED" => handoff.run = batch.run
        /\ manifest.status = "COMPLETED" =>
              handoff.run # batch.run /\ heartbeat.run \in {NoRun, handoff.run}

(* The durable files implement the campaign's cursor: items are committed  *)
(* in order, one worker at a time, and the campaign is closed when all of  *)
(* them are (the whole module).                                            *)
Worker == IF InFlight = {} THEN NoRun ELSE items[Min(InFlight)].run
Progress == INSTANCE CampaignProgress WITH
    size <- Cardinality(Ledger),
    done <- WithStatus({"COMMITTED"}),
    worker <- Worker,
    closed <- manifest.status = "COMPLETED"
ImplementsProgress == Progress!ProgressSpec

(* Every command that took the lock comes to an end: no step is left that  *)
(* is neither taken nor refused (the finally: clauses).                    *)
CommandsEnd == host.at \in HostSteps ~> host.at \notin HostSteps

(* What the run checks of every state: one owned item in flight, one commit *)
(* per Agent run, and a hand-off that tells the truth.                     *)
CampaignSafe ==
    /\ TypeOK
    /\ OneInFlight /\ InFlightOwned /\ OneCommitPerAgentRun /\ HandoffTruth

(* What it checks of every step: the cursor moves by commits alone, and    *)
(* the heartbeat changes hands between batches.                            *)
CursorKept == ImplementsProgress /\ OwnerMovesBetweenBatches

-----------------------------------------------------------------------------
(* A claim of the documentation that the code does not keep.               *)

(* "A crash before the commit causes re-observation": when the lock is     *)
(* free, the campaign runs, and an item was released after its lease       *)
(* expired, then some command can claim it again.                          *)
InterruptedItemReobserved ==
    LockFree /\ manifest.status = "RUNNING" /\ WithStatus({"RETRYABLE"}) # {}
        => \E r \in Run \ traced : StartAllowed(r) \/ ResumeAllowed(r)
=============================================================================
