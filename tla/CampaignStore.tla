--------------------------- MODULE CampaignStore ----------------------------
(***************************************************************************)
(* computer_use_agent/campaign.py and the inspectors that read it: the     *)
(* durable control state of one campaign.  Five files, each replaced       *)
(* atomically under the run lock: manifest.json, items.jsonl,              *)
(* batches.jsonl, heartbeat.json and handoff.json.  No two of them change  *)
(* together, so a writer may die between any two of the operations below.  *)
(*                                                                         *)
(* The ledgers are kept as their projections (reduce_item_ledger and       *)
(* reduce_batch_ledger).  Item keys are the ordinals, and a batch has the  *)
(* run's name: both runtimes derive batch_id from run_id.                  *)
(***************************************************************************)
EXTENDS Integers, FiniteSets, FiniteSetsExt

CONSTANTS
    N,              \* the items a campaign may be given
    Run,            \* run identifiers
    NoRun,          \* no run
    LeaseTime,      \* seconds a claim's lease and a heartbeat stay fresh
    MaxTime         \* the last second of the clock

ASSUME StoreAssumption ==
    /\ N \in Nat \ {0}
    /\ NoRun \notin Run
    /\ LeaseTime \in Nat \ {0}
    /\ MaxTime \in Nat

VARIABLES
    clock,          \* wall-clock seconds; timestamps have no finer grain
    manifest,       \* status and updated_at
    items,          \* latest transition of every ordinal
    batch,          \* last batch, whether it is active, and the ids used
    heartbeat,      \* its owner and fresh_until
    handoff         \* last_run_id, the view it was written from, updated_at

storeVars == <<clock, manifest, items, batch, heartbeat, handoff>>

Item == 1..N
Time == 0..MaxTime

CampaignStatus == {"ABSENT", "RUNNING", "PAUSED", "COMPLETED"}

(* _ALLOWED_TRANSITIONS, with "ABSENT" for a key that is not in the ledger. *)
Successors ==
    [ABSENT |-> {"DISCOVERED"},
     DISCOVERED |-> {"CLAIMED"},
     CLAIMED |-> {"OBSERVED", "RETRYABLE"},
     OBSERVED |-> {"EXTRACTED", "RETRYABLE", "CHALLENGE", "UNCERTAIN"},
     EXTRACTED |-> {"COMMITTED", "SKIPPED", "RETRYABLE", "CHALLENGE",
                    "UNCERTAIN"},
     RETRYABLE |-> {"CLAIMED"},
     COMMITTED |-> {}, SKIPPED |-> {}, CHALLENGE |-> {}, UNCERTAIN |-> {}]

ItemStatus == DOMAIN Successors

(* _CLAIM_ACTIVE_STATUSES: a claim is held until the item commits.         *)
ClaimActive == {"CLAIMED", "OBSERVED", "EXTRACTED"}

-----------------------------------------------------------------------------
(* What the ledgers say.                                                   *)
Ledger == {i \in Item : items[i].status # "ABSENT"}
WithStatus(S) == {i \in Item : items[i].status \in S}
InFlight == WithStatus(ClaimActive)
Eligible == WithStatus({"DISCOVERED", "RETRYABLE"})
CommittedBy(r) == {i \in WithStatus({"COMMITTED"}) : items[i].run = r}

IsFirstEligible_Unsorted(i) == i \in Eligible

(* plan_batch: the lowest eligible ordinal comes first.                    *)
IsFirstEligible(i) == i \in Eligible /\ \A j \in Eligible : i <= j

NextOrdinal_PastEnd ==
    LET incomplete == Ledger \ WithStatus({"COMMITTED"})
    IN  IF incomplete = {} THEN Cardinality(Ledger) + 2 ELSE Min(incomplete)

(* The part of a handoff that is derived from manifest and item ledger:    *)
(* directives, next_item_ordinal and the three counts.                     *)
NextOrdinal ==
    LET incomplete == Ledger \ WithStatus({"COMMITTED"})
    IN  IF incomplete = {} THEN Cardinality(Ledger) + 1 ELSE Min(incomplete)

LedgerView ==
    [status |-> manifest.status,
     next |-> NextOrdinal,
     completed |-> Cardinality(WithStatus({"COMMITTED"})),
     retryable |-> Cardinality(WithStatus({"RETRYABLE"})),
     uncertain |-> Cardinality(WithStatus({"UNCERTAIN"}))]

View == [status : CampaignStatus, next : 1..(N + 1), completed : 0..N,
         retryable : 0..N, uncertain : 0..N]

HandoffValid_NotCompared == handoff.run # NoRun

(* read_handoff: the record must still agree with the durable state.       *)
HandoffValid ==
    /\ handoff.run # NoRun
    /\ handoff.view = LedgerView
    /\ handoff.at >= manifest.at

(* inspect_heartbeat and inspect_claim_leases.                             *)
Fresh(now) == heartbeat.run # NoRun /\ now < heartbeat.until
LeaseActive(i, now) == items[i].status = "CLAIMED" /\ now < items[i].lease
LeaseStale(i, now) == items[i].status = "CLAIMED" /\ now >= items[i].lease

(* inspect_stale_control_state.                                            *)
StaleRunState(now) ==
    CASE manifest.status = "PAUSED" -> "PAUSED"
      [] manifest.status \in {"ABSENT", "COMPLETED"} -> "NOT_RUNNING"
      [] manifest.status = "RUNNING" /\ heartbeat.run = NoRun ->
            "MISSING_HEARTBEAT"
      [] OTHER ->
            IF \E i \in WithStatus({"CLAIMED"}) : items[i].run # heartbeat.run
            THEN "INCONSISTENT_OWNER"
            ELSE IF Fresh(now) THEN "FRESH_HEARTBEAT"
            ELSE IF \E i \in Item : LeaseActive(i, now) THEN "ACTIVE_LEASE"
            ELSE "STALE"

-----------------------------------------------------------------------------
(* The writing operations of CampaignStore.  Each replaces one file.       *)
StoreInit ==
    /\ clock = 0
    /\ manifest = [status |-> "ABSENT", at |-> 0]
    /\ items = [i \in Item |->
                  [status |-> "ABSENT", run |-> NoRun, lease |-> 0]]
    /\ batch = [run |-> NoRun, active |-> FALSE, ids |-> {}]
    /\ heartbeat = [run |-> NoRun, until |-> 0]
    /\ handoff = [run |-> NoRun, view |-> LedgerView, at |-> 0]

WriteManifest(status, now) ==
    /\ now >= manifest.at
    /\ manifest' = [status |-> status, at |-> now]
    /\ UNCHANGED <<clock, items, batch, heartbeat, handoff>>

create(now) == manifest.status = "ABSENT" /\ WriteManifest("RUNNING", now)

transition_pause_state(status, now) ==
    /\ {manifest.status, status} = {"RUNNING", "PAUSED"}
    /\ WriteManifest(status, now)

complete_campaign(now) ==
    /\ manifest.status = "RUNNING"
    /\ WriteManifest("COMPLETED", now)

(* append: the ledger is read again and reduced with the new entry, so a   *)
(* transition that is not allowed is never written, and a claim is         *)
(* released only when its lease has expired.                               *)
Transition(i, status, r, now) ==
    /\ manifest.status # "ABSENT"
    /\ status \in Successors[items[i].status]
    /\ items[i].status = "CLAIMED" /\ status = "RETRYABLE" =>
          now >= items[i].lease
    /\ items' = [items EXCEPT ![i] =
                   [status |-> status, run |-> r,
                    lease |-> IF status = "CLAIMED"
                              THEN now + LeaseTime ELSE 0]]

append(i, status, r, now) ==
    /\ Transition(i, status, r, now)
    /\ UNCHANGED <<clock, manifest, batch, heartbeat, handoff>>

AppendStarted(r) ==
    /\ ~batch.active
    /\ r \notin batch.ids
    /\ batch' = [run |-> r, active |-> TRUE, ids |-> batch.ids \cup {r}]
    /\ UNCHANGED <<clock, manifest, items, heartbeat, handoff>>

AppendFinished(r) ==
    /\ batch.active
    /\ batch.run = r
    /\ batch' = [batch EXCEPT !.active = FALSE]
    /\ UNCHANGED <<clock, manifest, items, heartbeat, handoff>>

PutHeartbeat(r, until) ==
    /\ heartbeat' = [run |-> r, until |-> until]
    /\ UNCHANGED <<clock, manifest, items, batch, handoff>>

write_heartbeat_Doubled(r, now) ==
    /\ heartbeat.run \in {NoRun, r}
    /\ PutHeartbeat(r, now + 2 * LeaseTime)
write_heartbeat(r, now) ==
    /\ heartbeat.run \in {NoRun, r}
    /\ PutHeartbeat(r, now + LeaseTime)

recover_stale_heartbeat(old, r, now) ==
    /\ r # old
    /\ StaleRunState(now) = "STALE"
    /\ ~ \E i \in Item : LeaseStale(i, now)
    /\ heartbeat.run = old
    /\ PutHeartbeat(r, now + LeaseTime)

replace_heartbeat_owner(old, r, now) ==
    /\ r # old
    /\ heartbeat.run = old
    /\ PutHeartbeat(r, now + LeaseTime)

remove_completed_heartbeat(r) ==
    /\ manifest.status = "COMPLETED"
    /\ Ledger # {}
    /\ Ledger = WithStatus({"COMMITTED"})
    /\ HandoffValid
    /\ handoff.run = r
    /\ heartbeat.run = r
    /\ PutHeartbeat(NoRun, 0)

write_handoff(r) ==
    /\ manifest.status # "ABSENT"
    /\ handoff' = [run |-> r, view |-> LedgerView, at |-> clock]
    /\ UNCHANGED <<clock, manifest, items, batch, heartbeat>>

(* lease_recovery.release_stale_claim, on the store's own lock.            *)
release_stale_claim(i, r, now) ==
    /\ LeaseStale(i, now)
    /\ append(i, "RETRYABLE", r, now)

Tick ==
    /\ clock < MaxTime
    /\ clock' = clock + 1
    /\ UNCHANGED <<manifest, items, batch, heartbeat, handoff>>

-----------------------------------------------------------------------------
StoreTypeOK ==
    /\ clock \in Time
    /\ manifest \in [status : CampaignStatus, at : Time]
    /\ items \in [Item -> [status : ItemStatus, run : Run \cup {NoRun},
                           lease : 0..(MaxTime + LeaseTime)]]
    /\ batch \in [run : Run \cup {NoRun}, active : BOOLEAN, ids : SUBSET Run]
    /\ heartbeat \in [run : Run \cup {NoRun}, until : 0..(MaxTime + LeaseTime)]
    /\ handoff \in [run : Run \cup {NoRun}, view : View, at : Time]
=============================================================================
