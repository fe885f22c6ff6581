---------------------- MODULE ApplicationCampaignProofs ---------------------
(***************************************************************************)
(* The theorems about ApplicationCampaign, for any number of items, runs   *)
(* and seconds.                                                            *)
(***************************************************************************)
EXTENDS ApplicationCampaign, FiniteSetTheorems, TLAPS

(* What the ledger is like at every moment: the items were added and are   *)
(* committed in order, and only the one at the cursor is in flight.        *)
Committed == WithStatus({"COMMITTED"})
Reached == {"ABSENT", "DISCOVERED", "CLAIMED", "OBSERVED", "EXTRACTED", "RETRYABLE", "COMMITTED"}

LedgerInv ==
    /\ \A i \in Item : items[i].status \in Reached
    /\ Ledger = 1..Cardinality(Ledger)
    /\ Committed = 1..Cardinality(Committed)
    /\ InFlight \subseteq {Cardinality(Committed) + 1}
    /\ manifest.status = "ABSENT" => Ledger = {}

(* Claims belong to the active batch and the heartbeat; a run that         *)
(* committed was traced, had its batch, and holds no other item.           *)
OwnerInv ==
    /\ InFlightOwned
    /\ batch.active => batch.run # NoRun
    /\ batch.run # NoRun => batch.run \in batch.ids
    /\ \A i \in InFlight : items[i].run \in Run
    /\ \A i \in InFlight, j \in Committed : items[i].run # items[j].run
    /\ \A i \in Committed : items[i].run \in traced \cap batch.ids
    /\ \A i, j \in Committed : items[i].run = items[j].run => i = j

(* What the holder of the lock may rely on between two of its writes, and  *)
(* a run between two of its commands.                                      *)
HostInv ==
    /\ host.at \in HostSteps => host.run \in Run
    /\ host.at \in ExecuteSteps => host.run \in traced
    /\ host.at = "discover" =>
          /\ manifest.status = "RUNNING"
          /\ InFlight = {} /\ Committed = {} /\ Cardinality(Ledger) < N
    /\ host.at = "open" => manifest.status = "RUNNING"
    /\ host.at \in {"resumed", "terminal", "retire"} => host.run # batch.run
    /\ host.at = "resumed" => Committed # {}
    /\ \A r \in Run : work[r].at \in {"running", "extracted"} => r \in traced

(* A hand-off is as old as the counts in it: once the active batch has     *)
(* committed, the hand-off of the batch before it is behind the ledger.    *)
HandoffInv ==
    /\ manifest.status = "COMPLETED" => ~batch.active
    /\ handoff.view.status = "COMPLETED" => manifest.status = "COMPLETED"
    /\ handoff.run # NoRun =>
          /\ handoff.view.completed <= Cardinality(Committed)
          /\ batch.active =>
                \/ CommittedBy(batch.run) = {}
                \/ handoff.view.completed < Cardinality(Committed)
          /\ ~batch.active /\ manifest.status # "COMPLETED" =>
                \/ handoff.run = batch.run
                \/ handoff.view.completed < Cardinality(Committed)
          /\ handoff.view.status = "COMPLETED" =>
                handoff.run # batch.run /\ heartbeat.run \in {NoRun, handoff.run}

CampaignInv == TypeOK /\ LedgerInv /\ OwnerInv /\ HostInv /\ HandoffInv

-----------------------------------------------------------------------------
(* Counting ordinals.                                                      *)

LEMMA ItemsCounted ==
  ASSUME NEW S \in SUBSET Item
  PROVE  IsFiniteSet(S) /\ Cardinality(S) \in Nat /\ Cardinality(S) <= N
<1>1. N \in Nat \ {0}
  BY StoreAssumption
<1>2. IsFiniteSet(Item) /\ Cardinality(Item) = N
  BY <1>1, FS_Interval DEF Item
<1>3. IsFiniteSet(S) /\ Cardinality(S) <= Cardinality(Item)
  BY <1>2, FS_Subset
<1>4. Cardinality(S) \in Nat
  BY <1>3, FS_CardinalityType
<1> QED
  BY <1>1, <1>2, <1>3, <1>4

(* The ledger's sets are sets of items.                                    *)
LEMMA LedgerSets ==
  /\ \A S : WithStatus(S) \in SUBSET Item
  /\ Ledger \in SUBSET Item /\ InFlight \in SUBSET Item
  /\ Committed \in SUBSET Item /\ Eligible \in SUBSET Item
  /\ \A r \in Run : CommittedBy(r) \in SUBSET Committed
  BY DEF WithStatus, Ledger, InFlight, Committed, Eligible, CommittedBy

LEMMA PrefixGrows ==
  ASSUME NEW n \in Nat, NEW T, T = (1..n) \cup {n + 1}
  PROVE  Cardinality(T) = n + 1 /\ T = 1..Cardinality(T)
<1>1. T = 1..(n + 1)
  OBVIOUS
<1>2. Cardinality(1..(n + 1)) = n + 1
  BY FS_Interval
<1> QED
  BY <1>1, <1>2

LEMMA LeastIs ==
  ASSUME NEW S, NEW m \in S, S \subseteq Int, \A x \in S : m <= x
  PROVE  Min(S) = m
<1>1. \E x \in S : \A y \in S : x <= y
  OBVIOUS
<1>2. Min(S) \in S /\ \A y \in S : Min(S) <= y
  BY <1>1 DEF Min
<1>3. m \in Int /\ Min(S) \in Int /\ m <= Min(S) /\ Min(S) <= m
  BY <1>2
<1> QED
  BY <1>3

(* What is written into a hand-off is a view, and counts the commits.      *)
LEMMA ViewTyped ==
  ASSUME TypeOK, LedgerInv
  PROVE  /\ LedgerView \in View
         /\ LedgerView.completed = Cardinality(Committed)
         /\ LedgerView.status = manifest.status
<1>1. /\ Cardinality(Committed) \in 0..N
      /\ Cardinality(WithStatus({"RETRYABLE"})) \in 0..N
      /\ Cardinality(WithStatus({"UNCERTAIN"})) \in 0..N
      /\ Cardinality(Ledger) \in 0..N /\ N \in Nat
  BY ItemsCounted, LedgerSets, StoreAssumption
<1>2. NextOrdinal \in 1..(N + 1)
  <2> DEFINE incomplete == Ledger \ Committed
             c == Cardinality(Committed)
             n == Cardinality(Ledger)
  <2>1. NextOrdinal = IF incomplete = {} THEN n + 1 ELSE Min(incomplete)
    BY DEF NextOrdinal, Committed
  <2>2. CASE incomplete = {}
    BY <1>1, <2>1, <2>2
  <2>3. CASE incomplete # {}
    <3>1. incomplete = (c + 1)..n /\ c < n
      BY <1>1, <2>3 DEF LedgerInv
    <3>2. Min(incomplete) = c + 1
      BY <1>1, <3>1, LeastIs
    <3> QED
      BY <1>1, <2>1, <2>3, <3>1, <3>2
  <2> QED
    BY <2>2, <2>3
<1>3. manifest.status \in CampaignStatus
  BY DEF TypeOK, StoreTypeOK
<1> QED
  BY <1>1, <1>2, <1>3 DEF LedgerView, View, Committed

-----------------------------------------------------------------------------
(* Types.                                                                  *)

(* What one append changes.                                                *)
LEMMA Moved ==
  ASSUME TypeOK, NEW i \in Item, NEW status \in ItemStatus, NEW r \in Run \cup {NoRun},
         NEW now \in Time, Transition(i, status, r, now)
  PROVE  /\ items' \in [Item -> [status : ItemStatus, run : Run \cup {NoRun},
                                lease : 0..(MaxTime + LeaseTime)]]
         /\ items'[i].status = status /\ items'[i].run = r
         /\ \A j \in Item : j # i => items'[j] = items[j]
         /\ status \in Successors[items[i].status]
<1>1. MaxTime \in Nat /\ LeaseTime \in Nat
  BY StoreAssumption
<1> DEFINE new == [status |-> status, run |-> r,
                   lease |-> IF status = "CLAIMED" THEN now + LeaseTime ELSE 0]
<1>2. items' = [items EXCEPT ![i] = new] /\ status \in Successors[items[i].status]
  BY DEF Transition
<1>3. /\ new \in [status : ItemStatus, run : Run \cup {NoRun}, lease : 0..(MaxTime + LeaseTime)]
      /\ new.status = status /\ new.run = r
  BY <1>1 DEF Time
<1> HIDE DEF new
<1> QED
  BY <1>2, <1>3 DEF TypeOK, StoreTypeOK

(* Moving on under the lock, giving it back, and a run's own progress.     *)
LEMMA HostTypes ==
  ASSUME TypeOK
  PROVE  /\ \A step \in HostSteps : Proceed(step) =>
              host' \in [at : HostSteps \cup {"idle", "orphaned"},
                        run : Run \cup {NoRun}, now : Time]
              /\ host'.at = step /\ host'.run = host.run /\ host'.now = host.now
         /\ Release => host' \in [at : HostSteps \cup {"idle", "orphaned"},
                                  run : Run \cup {NoRun}, now : Time]
                       /\ host'.at = "idle" /\ host'.run = NoRun
  BY StoreAssumption DEF TypeOK, Proceed, Release, Idle, Time

WorkTypes == [Run -> [at : {"none", "inspected", "running", "extracted"}, now : Time]]

LEMMA WorkTyped ==
  ASSUME TypeOK, NEW r \in Run
  PROVE  /\ \A step \in {"running", "extracted"} : Work(r, step) =>
              work' \in WorkTypes /\ work'[r].at = step
              /\ \A s \in Run \ {r} : work'[s] = work[s]
         /\ Drop(r) => work' \in WorkTypes /\ work'[r].at = "none"
                        /\ \A s \in Run \ {r} : work'[s] = work[s]
  BY StoreAssumption DEF TypeOK, Work, Drop, NoWork, WorkTypes, Time

(* The actions that append to the item ledger.                             *)
LedgerStep ==
    \/ Discover \/ Claim \/ Observe \/ Extract \/ Commit
    \/ \E r \in Run, i \in Item : ReleaseStaleClaim(i, r)

LEMMA LedgerStepTypes ==
  ASSUME TypeOK, HostInv, LedgerStep
  PROVE  TypeOK'
<1> USE DEF TypeOK, StoreTypeOK
<1>0. Cardinality(Ledger) \in Nat /\ N \in Nat
  BY ItemsCounted, LedgerSets, StoreAssumption
<1>s. {"DISCOVERED", "CLAIMED", "OBSERVED", "EXTRACTED", "COMMITTED", "RETRYABLE"} \subseteq ItemStatus
  BY DEF ItemStatus, Successors
<1>1. CASE Discover
  <2>1. Cardinality(Ledger) + 1 \in Item
    BY <1>0, <1>1 DEF Discover, HostInv, Item
  <2>2. Transition(Cardinality(Ledger) + 1, "DISCOVERED", NoRun, host.now)
        /\ UNCHANGED <<clock, manifest, batch, heartbeat, handoff, work, traced>>
    BY <1>1 DEF Discover, append
  <2>3. Release \/ Proceed("discover")
    BY <1>1 DEF Discover
  <2> QED
    BY <1>s, <2>1, <2>2, <2>3, Moved, HostTypes DEF HostSteps
<1>2. CASE Claim
  <2>1. PICK i \in Item : append(i, "CLAIMED", host.run, host.now)
    BY <1>2 DEF Claim
  <2>2. Release /\ UNCHANGED <<work, traced>>
    BY <1>2 DEF Claim
  <2> QED
    BY <1>s, <2>1, <2>2, Moved, HostTypes DEF append
<1>3. CASE Observe
  <2>1. PICK i \in Item : append(i, "OBSERVED", host.run, host.now)
    BY <1>3 DEF Observe
  <2>2. Proceed("extract") /\ UNCHANGED <<work, traced>>
    BY <1>3 DEF Observe
  <2> QED
    BY <1>s, <2>1, <2>2, Moved, HostTypes DEF append, HostSteps, ExecuteSteps
<1>4. CASE Extract
  <2>1. PICK i \in Item : append(i, "EXTRACTED", host.run, host.now)
    BY <1>4 DEF Extract
  <2>2. Proceed("commit") /\ UNCHANGED <<work, traced>>
    BY <1>4 DEF Extract
  <2> QED
    BY <1>s, <2>1, <2>2, Moved, HostTypes DEF append, HostSteps, ExecuteSteps
<1>5. CASE Commit
  <2>1. PICK i \in Item : append(i, "COMMITTED", host.run, host.now)
    BY <1>5 DEF Commit
  <2>2. Proceed("finish") /\ UNCHANGED <<work, traced>>
    BY <1>5 DEF Commit
  <2> QED
    BY <1>s, <2>1, <2>2, Moved, HostTypes DEF append, HostSteps, ExecuteSteps
<1>6. ASSUME NEW r \in Run, NEW i \in Item, ReleaseStaleClaim(i, r) PROVE TypeOK'
  <2>1. append(i, "RETRYABLE", r, clock) /\ UNCHANGED <<host, work, traced>>
    BY <1>6 DEF ReleaseStaleClaim, release_stale_claim
  <2> QED
    BY <1>s, <2>1, Moved DEF append
<1> QED
  BY <1>1, <1>2, <1>3, <1>4, <1>5, <1>6 DEF LedgerStep

(* The actions that append to the batch ledger or write the heartbeat.     *)
OwnerStep ==
    \/ OpenBatch \/ Finish \/ RetireHeartbeat
    \/ \E r \in Run : Start(r) \/ Resume(r)

LEMMA OwnerStepTypes ==
  ASSUME TypeOK, HostInv, OwnerStep
  PROVE  TypeOK'
<1> USE StoreAssumption DEF TypeOK, StoreTypeOK
<1>1. CASE OpenBatch
  <2>1. AppendStarted(host.run) /\ Proceed("claim") /\ UNCHANGED <<work, traced>> /\ host.run \in Run
    BY <1>1 DEF OpenBatch, HostInv, HostSteps
  <2> QED
    BY <2>1, HostTypes DEF AppendStarted, HostSteps
<1>2. CASE Finish
  <2>1. AppendFinished(host.run) /\ Proceed("handoff") /\ UNCHANGED <<work, traced>>
    BY <1>2 DEF Finish
  <2> QED
    BY <2>1, HostTypes DEF AppendFinished, HostSteps, ExecuteSteps
<1>3. CASE RetireHeartbeat
  <2>1. PutHeartbeat(NoRun, 0) /\ Release /\ UNCHANGED <<work, traced>>
    BY <1>3 DEF RetireHeartbeat, remove_completed_heartbeat
  <2> QED
    BY <2>1, HostTypes DEF PutHeartbeat
<1>4. ASSUME NEW r \in Run, Start(r) \/ Resume(r) PROVE TypeOK'
  <2>1. PutHeartbeat(r, clock + LeaseTime) /\ UNCHANGED <<work, traced>>
    BY <1>4 DEF Start, Resume, write_heartbeat, recover_stale_heartbeat, replace_heartbeat_owner
  <2>2. \E step \in {"open", "resumed"} : host' = [at |-> step, run |-> r, now |-> clock]
    BY <1>4 DEF Start, Resume
  <2> QED
    BY <2>1, <2>2 DEF PutHeartbeat, HostSteps, Time
<1> QED
  BY <1>1, <1>2, <1>3, <1>4 DEF OwnerStep

(* The actions that write the manifest.                                    *)
ManifestStep == Complete \/ Pause \/ Unpause \/ \E r \in Run : Prepare(r)

LEMMA ManifestStepTypes ==
  ASSUME TypeOK, ManifestStep
  PROVE  TypeOK'
<1> USE StoreAssumption DEF TypeOK, StoreTypeOK, WriteManifest, CampaignStatus, Time
<1>1. CASE Complete
  <2>1. WriteManifest("COMPLETED", host.now) /\ Proceed("terminal") /\ UNCHANGED <<work, traced>>
    BY <1>1 DEF Complete, complete_campaign
  <2> QED
    BY <2>1, HostTypes DEF HostSteps
<1>2. CASE Pause \/ Unpause
  BY <1>2 DEF Pause, Unpause, transition_pause_state
<1>3. ASSUME NEW r \in Run, Prepare(r) PROVE TypeOK'
  <2>1. WriteManifest("RUNNING", clock) /\ UNCHANGED <<work, traced>>
        /\ host' = [at |-> "discover", run |-> r, now |-> clock]
    BY <1>3 DEF Prepare, create
  <2> QED
    BY <2>1 DEF HostSteps
<1> QED
  BY <1>1, <1>2, <1>3 DEF ManifestStep

(* The actions that write the hand-off, or keep the one they accept.       *)
HandoffStep == WriteHandoff \/ WriteTerminalHandoff

LEMMA HandoffStepTypes ==
  ASSUME TypeOK, LedgerInv, HostInv, HandoffStep
  PROVE  TypeOK'
<1>1. host.run \in Run
  BY DEF HandoffStep, WriteHandoff, WriteTerminalHandoff, HostInv, HostSteps, ExecuteSteps
<1>2. write_handoff(host.run) \/ UNCHANGED storeVars
  BY DEF HandoffStep, WriteHandoff, WriteTerminalHandoff
<1>3. StoreTypeOK'
  <2>1. CASE write_handoff(host.run)
    BY <1>1, <2>1, ViewTyped DEF write_handoff, TypeOK, StoreTypeOK
  <2>2. CASE UNCHANGED storeVars
    BY <2>2 DEF storeVars, TypeOK, StoreTypeOK
  <2> QED
    BY <1>2, <2>1, <2>2
<1>4. CASE WriteHandoff
  <2>1. Release /\ Drop(host.run) /\ UNCHANGED traced
    BY <1>4 DEF WriteHandoff
  <2> QED
    BY <1>1, <1>3, <2>1, HostTypes, WorkTyped DEF TypeOK, WorkTypes
<1>5. CASE WriteTerminalHandoff
  <2>1. Proceed("retire") /\ UNCHANGED <<work, traced>>
    BY <1>5 DEF WriteTerminalHandoff
  <2> QED
    BY <1>3, <2>1, HostTypes DEF TypeOK, HostSteps
<1> QED
  BY <1>4, <1>5 DEF HandoffStep

(* The actions that leave the files alone, and the clock.                  *)
OtherStep ==
    \/ RefuseOpen \/ EndAgentRun \/ RefuseObserve \/ Continue
    \/ \E r \in Run : InspectClaim(r) \/ BeginAgentRun(r) \/ BeginCommit(r) \/ Abandon(r)
    \/ Crash \/ RecoverLock \/ Second

LEMMA OtherStepTypes ==
  ASSUME TypeOK, HostInv, OtherStep
  PROVE  TypeOK'
<1>1. CASE Second
  BY <1>1, StoreAssumption DEF Second, Tick, TypeOK, StoreTypeOK, Time
<1>2. StoreTypeOK' \/ Second
  BY DEF OtherStep, RefuseOpen, EndAgentRun, RefuseObserve, Continue, InspectClaim, BeginAgentRun,
         BeginCommit, Abandon, Crash, RecoverLock, storeVars, TypeOK, StoreTypeOK
<1>3. CASE StoreTypeOK' /\ (RefuseOpen \/ RecoverLock \/ Continue)
  <2>1. (Release \/ Proceed("open")) /\ UNCHANGED <<work, traced>>
    BY <1>3 DEF RefuseOpen, RecoverLock, Continue
  <2> QED
    BY <1>3, <2>1, HostTypes DEF TypeOK, HostSteps
<1>4. CASE StoreTypeOK' /\ (EndAgentRun \/ RefuseObserve)
  <2>1. host.run \in Run
    BY <1>4 DEF EndAgentRun, RefuseObserve, HostInv, HostSteps, ExecuteSteps
  <2>2. (Work(host.run, "extracted") \/ Drop(host.run)) /\ Release /\ UNCHANGED traced
    BY <1>4 DEF EndAgentRun, RefuseObserve
  <2> QED
    BY <1>4, <2>1, <2>2, HostTypes, WorkTyped DEF TypeOK, WorkTypes
<1>5. CASE StoreTypeOK' /\ Crash
  <2>1. host' \in [at : HostSteps \cup {"idle", "orphaned"}, run : Run \cup {NoRun}, now : Time]
    BY <1>5, StoreAssumption DEF Crash, Idle, Time
  <2>2. (host.run \in Run /\ Drop(host.run)) \/ UNCHANGED work
    BY <1>5 DEF Crash, HostInv, HostSteps
  <2>3. UNCHANGED traced
    BY <1>5 DEF Crash
  <2> QED
    BY <1>5, <2>1, <2>2, <2>3, WorkTyped DEF TypeOK, WorkTypes
<1>6. ASSUME StoreTypeOK', NEW r \in Run, InspectClaim(r) PROVE TypeOK'
  BY <1>6 DEF InspectClaim, TypeOK, StoreTypeOK
<1>7. ASSUME StoreTypeOK', NEW r \in Run, BeginAgentRun(r) PROVE TypeOK'
  <2>1. /\ Work(r, "running") /\ traced' = traced \cup {r}
        /\ host' = [at |-> "agent", run |-> r, now |-> work[r].now]
    BY <1>7 DEF BeginAgentRun
  <2> QED
    BY <1>7, <2>1, WorkTyped DEF TypeOK, WorkTypes, HostSteps, ExecuteSteps
<1>8. ASSUME StoreTypeOK', NEW r \in Run, BeginCommit(r) PROVE TypeOK'
  BY <1>8 DEF BeginCommit, TypeOK, HostSteps, ExecuteSteps
<1>9. ASSUME StoreTypeOK', NEW r \in Run, Abandon(r) PROVE TypeOK'
  <2>1. Drop(r) /\ UNCHANGED <<host, traced>>
    BY <1>9 DEF Abandon
  <2> QED
    BY <1>9, <2>1, WorkTyped DEF TypeOK, WorkTypes
<1> QED
  BY <1>1, <1>2, <1>3, <1>4, <1>5, <1>6, <1>7, <1>8, <1>9 DEF OtherStep

(* Every step is one of these.                                             *)
LEMMA Steps ==
  Next => LedgerStep \/ OwnerStep \/ ManifestStep \/ HandoffStep \/ OtherStep
  BY DEF Next, HostStep, LedgerStep, OwnerStep, ManifestStep, HandoffStep, OtherStep

LEMMA TypesKept ==
  ASSUME CampaignInv, Next
  PROVE  TypeOK'
  BY Steps, LedgerStepTypes, OwnerStepTypes, ManifestStepTypes, HandoffStepTypes, OtherStepTypes
  DEF CampaignInv

-----------------------------------------------------------------------------
(* The ledger.                                                             *)

(* What one append does to the sets of the ledger.                         *)
LEMMA SetsMoved ==
  ASSUME TypeOK, LedgerInv, NEW i \in Item, NEW status \in Reached \ {"ABSENT"},
         NEW r \in Run \cup {NoRun}, NEW now \in Time, Transition(i, status, r, now)
  PROVE  /\ Ledger' = Ledger \cup {i}
         /\ Committed' = IF status = "COMMITTED" THEN Committed \cup {i} ELSE Committed
         /\ InFlight' = IF status \in ClaimActive THEN InFlight \cup {i} ELSE InFlight \ {i}
         /\ \A j \in Item : items'[j].status \in Reached
         /\ i \notin Committed
         /\ status = "DISCOVERED" => i \notin Ledger
         /\ \A j \in Item : j # i => items'[j] = items[j]
         /\ items'[i].run = r
<1>1. status \in ItemStatus
  BY DEF Reached, ItemStatus, Successors
<1>2. /\ items'[i].status = status /\ items'[i].run = r
      /\ \A j \in Item : j # i => items'[j] = items[j]
      /\ status \in Successors[items[i].status]
  BY <1>1, Moved
<1>3. items[i].status \in Reached \ {"COMMITTED"}
  BY <1>2 DEF LedgerInv, Successors, Reached
<1>4. status = "DISCOVERED" => items[i].status = "ABSENT"
  BY <1>2, <1>3 DEF Successors, Reached
<1>5. i \notin Committed /\ (status = "DISCOVERED" => i \notin Ledger)
  BY <1>3, <1>4 DEF Committed, WithStatus, Ledger
<1>6. \A j \in Item : items'[j].status = IF j = i THEN status ELSE items[j].status
  BY <1>2
<1>7. Ledger' = Ledger \cup {i}
  BY <1>6 DEF Ledger
<1>8. Committed' = IF status = "COMMITTED" THEN Committed \cup {i} ELSE Committed
  BY <1>5, <1>6 DEF Committed, WithStatus
<1>9. InFlight' = IF status \in ClaimActive THEN InFlight \cup {i} ELSE InFlight \ {i}
  BY <1>6 DEF InFlight, WithStatus
<1> QED
  BY <1>2, <1>5, <1>6, <1>7, <1>8, <1>9 DEF LedgerInv

(* A status in flight, and what an item in flight implies.                 *)
LEMMA FlightKnown ==
  ASSUME TypeOK, LedgerInv
  PROVE  /\ \A i \in Item : items[i].status \in ClaimActive <=> i \in InFlight
         /\ \A i \in Item : items[i].status = "CLAIMED" => i \in InFlight
         /\ InFlight \subseteq Ledger /\ InFlight \cap Committed = {}
         /\ Committed \subseteq Ledger
         /\ Cardinality(Committed) \in Nat /\ Cardinality(Ledger) \in Nat
         /\ Cardinality(Committed) <= Cardinality(Ledger) /\ Cardinality(Ledger) <= N
         /\ N \in Nat
<1>1. /\ Cardinality(Committed) \in Nat /\ Cardinality(Ledger) \in Nat
      /\ Cardinality(Ledger) <= N /\ N \in Nat
  BY ItemsCounted, LedgerSets, StoreAssumption
<1>2. Committed \subseteq Ledger
  BY DEF Committed, Ledger, WithStatus
<1>3. Cardinality(Committed) <= Cardinality(Ledger)
  BY <1>2, FS_Subset, ItemsCounted, LedgerSets
<1> QED
  BY <1>1, <1>2, <1>3 DEF InFlight, WithStatus, ClaimActive, Ledger, Committed

(* The first eligible item is the one at the cursor.                       *)
LEMMA FirstAtCursor ==
  ASSUME TypeOK, LedgerInv, InFlight = {}, NEW i \in Item, IsFirstEligible(i)
  PROVE  i = Cardinality(Committed) + 1 /\ i \in Ledger
<1> DEFINE c == Cardinality(Committed)
           n == Cardinality(Ledger)
<1>1. c \in Nat /\ n \in Nat /\ n <= N /\ N \in Nat
  BY FlightKnown
<1>2. \A j \in Item : j \in Ledger => j \in Committed \/ j \in Eligible
  BY DEF LedgerInv, Reached, Ledger, Committed, Eligible, InFlight, ClaimActive, WithStatus
<1>3. i \in Eligible /\ i \in Ledger /\ i \notin Committed /\ i \in Int
  BY DEF IsFirstEligible, Eligible, Ledger, Committed, WithStatus, Item
<1>4. c < i /\ i <= n
  BY <1>1, <1>3 DEF LedgerInv, Item
<1>5. c + 1 \in Ledger /\ c + 1 \notin Committed /\ c + 1 \in Item
  BY <1>1, <1>3, <1>4 DEF LedgerInv, Item
<1>6. i <= c + 1
  BY <1>2, <1>5 DEF IsFirstEligible
<1> QED
  BY <1>1, <1>3, <1>4, <1>6

(* Who appends, from what to what.                                         *)
LEMMA LedgerStepCases ==
  ASSUME TypeOK, LedgerInv, HostInv, LedgerStep
  PROVE  \E i \in Item, status \in Reached \ {"ABSENT"}, r \in Run \cup {NoRun}, now \in Time :
           /\ Transition(i, status, r, now)
           /\ UNCHANGED <<clock, manifest, batch, heartbeat, handoff, work, traced>>
           /\ \/ /\ Discover /\ status = "DISCOVERED" /\ i = Cardinality(Ledger) + 1
                 /\ host.at = "discover"
              \/ /\ Claim /\ status = "CLAIMED" /\ r = host.run
                 /\ InFlight = {} /\ i = Cardinality(Committed) + 1 /\ i \in Ledger
                 /\ OwnsBatch(r, now) /\ CommittedBy(r) = {} /\ r \in Run
              \/ /\ (Observe /\ status = "OBSERVED") \/ (Extract /\ status = "EXTRACTED")
                 /\ r = host.run /\ InFlight = {i} /\ items[i].run = r /\ OwnsBatch(r, now)
                 /\ r \in Run
              \/ /\ Commit /\ status = "COMMITTED" /\ r = host.run /\ InFlight = {i}
                 /\ items[i].run = r /\ OwnsBatch(r, now) /\ r \in Run /\ r \in traced
              \/ /\ UNCHANGED host /\ status = "RETRYABLE" /\ i \in InFlight
<1>0. host.now \in Time /\ clock \in Time
  BY DEF TypeOK, StoreTypeOK
<1>s. {"DISCOVERED", "CLAIMED", "OBSERVED", "EXTRACTED", "COMMITTED", "RETRYABLE"}
        \subseteq Reached \ {"ABSENT"}
  BY DEF Reached
<1>1. CASE Discover
  <2>1. Cardinality(Ledger) + 1 \in Item
    BY <1>1, FlightKnown DEF Discover, HostInv, Item
  <2> QED
    BY <1>0, <1>1, <1>s, <2>1 DEF Discover, append
<1>2. CASE Claim
  <2>1. PICK i \in Item : IsFirstEligible(i) /\ append(i, "CLAIMED", host.run, host.now)
    BY <1>2 DEF Claim
  <2>2. /\ InFlight = {} /\ OwnsBatch(host.run, host.now) /\ CommittedBy(host.run) = {}
        /\ UNCHANGED <<work, traced>> /\ host.run \in Run
    BY <1>2 DEF Claim, HostInv, HostSteps
  <2>3. i = Cardinality(Committed) + 1 /\ i \in Ledger
    BY <2>1, <2>2, FirstAtCursor
  <2> QED
    BY <1>0, <1>2, <1>s, <2>1, <2>2, <2>3 DEF append
<1>3. CASE Observe
  <2>1. PICK i \in Item : ObserveReady(i) /\ append(i, "OBSERVED", host.run, host.now)
    BY <1>3 DEF Observe
  <2>2. UNCHANGED <<work, traced>> /\ host.run \in Run
    BY <1>3 DEF Observe, HostInv, HostSteps, ExecuteSteps
  <2> QED
    BY <1>0, <1>3, <1>s, <2>1, <2>2 DEF append, ObserveReady, OnlyInFlight
<1>4. CASE Extract
  <2>1. PICK i \in Item : /\ OnlyInFlight(i, "OBSERVED", host.run)
                          /\ append(i, "EXTRACTED", host.run, host.now)
    BY <1>4 DEF Extract
  <2>2. UNCHANGED <<work, traced>> /\ host.run \in Run /\ OwnsBatch(host.run, host.now)
    BY <1>4 DEF Extract, HostInv, HostSteps, ExecuteSteps
  <2> QED
    BY <1>0, <1>4, <1>s, <2>1, <2>2 DEF append, OnlyInFlight
<1>5. CASE Commit
  <2>1. PICK i \in Item : /\ OnlyInFlight(i, "EXTRACTED", host.run)
                          /\ append(i, "COMMITTED", host.run, host.now)
    BY <1>5 DEF Commit
  <2>2. /\ UNCHANGED <<work, traced>> /\ host.run \in Run /\ OwnsBatch(host.run, host.now)
        /\ host.run \in traced
    BY <1>5 DEF Commit, HostInv, HostSteps, ExecuteSteps
  <2> QED
    BY <1>0, <1>5, <1>s, <2>1, <2>2 DEF append, OnlyInFlight
<1>6. CASE \E r \in Run, i \in Item : ReleaseStaleClaim(i, r)
  <2>1. PICK r \in Run, i \in Item : ReleaseStaleClaim(i, r)
    BY <1>6
  <2>2. /\ append(i, "RETRYABLE", r, clock) /\ UNCHANGED <<host, work, traced>>
        /\ items[i].status = "CLAIMED"
    BY <2>1 DEF ReleaseStaleClaim, release_stale_claim, LeaseStale
  <2>3. i \in InFlight
    BY <2>2, FlightKnown
  <2> QED
    BY <1>0, <1>s, <2>2, <2>3 DEF append
<1> QED
  BY <1>1, <1>2, <1>3, <1>4, <1>5, <1>6 DEF LedgerStep

LEMMA LedgerStepKeeps ==
  ASSUME CampaignInv, LedgerStep, TypeOK'
  PROVE  LedgerInv' /\ OwnerInv' /\ HostInv' /\ HandoffInv'
<1>0. TypeOK /\ LedgerInv /\ OwnerInv /\ HostInv /\ HandoffInv
  BY DEF CampaignInv
<1> DEFINE c == Cardinality(Committed)
           n == Cardinality(Ledger)
<1>1. PICK i \in Item, status \in Reached \ {"ABSENT"}, r \in Run \cup {NoRun}, now \in Time :
        /\ Transition(i, status, r, now)
        /\ UNCHANGED <<clock, manifest, batch, heartbeat, handoff, work, traced>>
        /\ \/ /\ Discover /\ status = "DISCOVERED" /\ i = n + 1
              /\ host.at = "discover"
           \/ /\ Claim /\ status = "CLAIMED" /\ r = host.run
              /\ InFlight = {} /\ i = c + 1 /\ i \in Ledger
              /\ OwnsBatch(r, now) /\ CommittedBy(r) = {} /\ r \in Run
           \/ /\ (Observe /\ status = "OBSERVED") \/ (Extract /\ status = "EXTRACTED")
              /\ r = host.run /\ InFlight = {i} /\ items[i].run = r /\ OwnsBatch(r, now)
              /\ r \in Run
           \/ /\ Commit /\ status = "COMMITTED" /\ r = host.run /\ InFlight = {i}
              /\ items[i].run = r /\ OwnsBatch(r, now) /\ r \in Run /\ r \in traced
           \/ /\ UNCHANGED host /\ status = "RETRYABLE" /\ i \in InFlight
  BY <1>0, LedgerStepCases
<1>2. /\ Ledger' = Ledger \cup {i}
      /\ Committed' = IF status = "COMMITTED" THEN Committed \cup {i} ELSE Committed
      /\ InFlight' = IF status \in ClaimActive THEN InFlight \cup {i} ELSE InFlight \ {i}
      /\ \A j \in Item : items'[j].status \in Reached
      /\ i \notin Committed
      /\ \A j \in Item : j # i => items'[j] = items[j]
      /\ items'[i].run = r
  BY <1>0, <1>1, SetsMoved
<1>3. /\ InFlight \subseteq Ledger /\ InFlight \cap Committed = {}
      /\ c \in Nat /\ n \in Nat /\ N \in Nat
      /\ Committed \subseteq Item /\ InFlight \subseteq Item
  BY <1>0, FlightKnown, LedgerSets
<1>4. manifest'.status # "ABSENT"
  BY <1>1 DEF Transition
<1>a. CASE Discover /\ status = "DISCOVERED" /\ i = n + 1 /\ host.at = "discover"
  <2>1. InFlight' = {} /\ Committed' = {} /\ Committed = {} /\ InFlight = {}
    BY <1>0, <1>2, <1>a DEF HostInv, ClaimActive
  <2>2. Ledger' = (1..n) \cup {n + 1}
    BY <1>0, <1>2, <1>a DEF LedgerInv
  <2>3. Cardinality(Ledger') = n + 1 /\ Ledger' = 1..Cardinality(Ledger')
    BY <1>3, <2>2, PrefixGrows
  <2>4. LedgerInv'
    BY <1>0, <1>2, <1>4, <2>1, <2>3 DEF LedgerInv
  <2>5. OwnerInv'
    BY <1>0, <1>1, <2>1 DEF OwnerInv, InFlightOwned
  <2>6. HostInv'
    <3>1. n < N /\ host.run \in Run /\ manifest.status = "RUNNING"
          /\ \A s \in Run : work[s].at \in {"running", "extracted"} => s \in traced
      BY <1>0, <1>a DEF HostInv, HostSteps
    <3>2. IF n + 1 = N THEN Release ELSE Proceed("discover")
      BY <1>a DEF Discover
    <3>3. CASE n + 1 = N
      <4>1. host'.at = "idle"
        BY <1>0, <3>2, <3>3, HostTypes
      <4> QED
        BY <1>1, <3>1, <4>1 DEF HostInv, HostSteps, ExecuteSteps
    <3>4. CASE n + 1 # N
      <4>1. host'.at = "discover" /\ host'.run = host.run
        BY <1>0, <3>2, <3>4, HostTypes DEF HostSteps
      <4>2. Cardinality(Ledger') < N
        BY <1>3, <2>3, <3>1, <3>4
      <4> QED
        BY <1>1, <2>1, <3>1, <4>1, <4>2 DEF HostInv, HostSteps, ExecuteSteps
    <3> QED
      BY <3>3, <3>4
  <2>7. HandoffInv'
    <3>1. CommittedBy(batch.run) = {} /\ CommittedBy(batch.run)' = {}
      BY <2>1 DEF CommittedBy, Committed
    <3>2. Committed' = Committed
      BY <2>1
    <3> QED
      BY <1>0, <1>1, <3>1, <3>2 DEF HandoffInv
  <2> QED
    BY <2>4, <2>5, <2>6, <2>7
<1>b. ASSUME status # "DISCOVERED", status # "COMMITTED",
             \/ status \in ClaimActive /\ r \in Run /\ OwnsBatch(r, now)
                  /\ \/ InFlight = {} /\ i = c + 1 /\ i \in Ledger /\ CommittedBy(r) = {}
                     \/ InFlight = {i} /\ items[i].run = r
             \/ status \notin ClaimActive /\ i \in InFlight,
             \/ UNCHANGED host /\ status \notin ClaimActive
             \/ host'.at = "idle"
             \/ host'.at \in {"extract", "commit"} /\ host'.run = host.run
                  /\ host.at \in ExecuteSteps
      PROVE  LedgerInv' /\ OwnerInv' /\ HostInv' /\ HandoffInv'
  <2>1. Committed' = Committed /\ Ledger' = Ledger
    BY <1>2, <1>3, <1>b
  <2>2. \A j \in Committed : items'[j] = items[j]
    BY <1>2, <1>3
  <2>3. \A j \in InFlight' : \/ j = i /\ status \in ClaimActive
                             \/ j \in InFlight /\ j # i /\ j \in Item
    BY <1>2, <1>3
  <2>4. LedgerInv'
    <3>1. InFlight' \subseteq {c + 1}
      BY <1>0, <1>2, <1>b DEF LedgerInv
    <3> QED
      BY <1>0, <1>2, <1>4, <2>1, <3>1 DEF LedgerInv
  <2>5. OwnerInv'
    <3>1. InFlightOwned'
      BY <1>0, <1>1, <1>2, <1>b, <2>3 DEF OwnerInv, InFlightOwned, OwnsBatch
    <3>2. \A j \in InFlight' : items'[j].run \in Run
      BY <1>0, <1>2, <1>b, <2>3 DEF OwnerInv
    <3>3. \A j \in InFlight', k \in Committed : items'[j].run # items'[k].run
      <4>1. status \in ClaimActive => \A k \in Committed : items[k].run # r
        BY <1>0, <1>b DEF OwnerInv, CommittedBy, Committed
      <4> QED
        BY <1>0, <1>2, <2>2, <2>3, <4>1 DEF OwnerInv
    <3> QED
      BY <1>0, <1>1, <2>1, <2>2, <3>1, <3>2, <3>3 DEF OwnerInv
  <2>6. HostInv'
    <3>1. host'.at # "discover"
      BY <1>0, <1>1, <1>b DEF HostInv, ExecuteSteps
    <3> QED
      BY <1>0, <1>1, <1>b, <2>1, <3>1 DEF HostInv, HostSteps, ExecuteSteps
  <2>7. HandoffInv'
    <3>1. CommittedBy(batch.run)' = CommittedBy(batch.run)
      BY <1>1, <2>1, <2>2 DEF CommittedBy, Committed
    <3> QED
      BY <1>0, <1>1, <2>1, <3>1 DEF HandoffInv
  <2> QED
    BY <2>4, <2>5, <2>6, <2>7
<1>d. CASE Commit /\ status = "COMMITTED" /\ r = host.run /\ InFlight = {i}
           /\ items[i].run = r /\ OwnsBatch(r, now) /\ r \in Run /\ r \in traced
  <2>1. i = c + 1 /\ i \in Ledger
    BY <1>0, <1>3, <1>d DEF LedgerInv
  <2>2. InFlight' = {} /\ Committed' = Committed \cup {i} /\ Ledger' = Ledger
    BY <1>2, <1>d, <2>1 DEF ClaimActive
  <2>3. Cardinality(Committed') = c + 1 /\ Committed' = 1..Cardinality(Committed')
    <3>1. Committed' = (1..c) \cup {c + 1}
      BY <1>0, <2>1, <2>2 DEF LedgerInv
    <3> QED
      BY <1>3, <3>1, PrefixGrows
  <2>4. LedgerInv'
    BY <1>0, <1>2, <1>4, <2>2, <2>3 DEF LedgerInv
  <2>5. OwnerInv'
    <3>1. batch.active /\ batch.run = r /\ r \in traced \cap batch.ids
      BY <1>0, <1>d, StoreAssumption DEF OwnerInv, OwnsBatch
    <3>2. \A j \in Committed : items[j].run # r /\ items'[j] = items[j]
      BY <1>0, <1>2, <1>3, <1>d DEF OwnerInv
    <3>3. \A j, k \in Committed' : items'[j].run = items'[k].run => j = k
      BY <1>0, <1>2, <2>2, <3>2 DEF OwnerInv
    <3>4. \A j \in Committed' : items'[j].run \in traced \cap batch.ids
      BY <1>0, <1>2, <2>2, <3>1, <3>2 DEF OwnerInv
    <3> QED
      BY <1>0, <1>1, <2>2, <3>3, <3>4 DEF OwnerInv, InFlightOwned
  <2>6. HostInv'
    <3>1. host'.at = "finish" /\ host'.run = host.run
      BY <1>0, <1>d, HostTypes DEF Commit, HostSteps, ExecuteSteps
    <3> QED
      BY <1>0, <1>1, <1>d, <3>1 DEF HostInv, HostSteps, ExecuteSteps
  <2>7. HandoffInv'
    <3>1. handoff.view.completed \in Nat /\ batch.active
      BY <1>0, <1>d, StoreAssumption DEF TypeOK, StoreTypeOK, View, OwnsBatch
    <3>2. handoff.run # NoRun => handoff.view.completed <= c
      BY <1>0 DEF HandoffInv
    <3>3. handoff.run # NoRun =>
              /\ handoff.view.completed <= Cardinality(Committed')
              /\ handoff.view.completed < Cardinality(Committed')
      BY <1>3, <2>3, <3>1, <3>2
    <3> QED
      BY <1>0, <1>1, <3>1, <3>3 DEF HandoffInv
  <2> QED
    BY <2>4, <2>5, <2>6, <2>7
<1>e. CASE Claim /\ status = "CLAIMED" /\ r = host.run
           /\ InFlight = {} /\ i = c + 1 /\ i \in Ledger
           /\ OwnsBatch(r, now) /\ CommittedBy(r) = {} /\ r \in Run
  <2>1. host'.at = "idle"
    BY <1>0, <1>e, HostTypes DEF Claim
  <2> QED
    BY <1>b, <1>e, <2>1 DEF ClaimActive
<1>f. CASE /\ (Observe /\ status = "OBSERVED") \/ (Extract /\ status = "EXTRACTED")
           /\ r = host.run /\ InFlight = {i} /\ items[i].run = r /\ OwnsBatch(r, now)
           /\ r \in Run
  <2>1. host'.at \in {"extract", "commit"} /\ host'.run = host.run /\ host.at \in ExecuteSteps
    BY <1>0, <1>f, HostTypes DEF Observe, Extract, HostSteps, ExecuteSteps
  <2> QED
    BY <1>b, <1>f, <2>1 DEF ClaimActive
<1>g. CASE UNCHANGED host /\ status = "RETRYABLE" /\ i \in InFlight
  BY <1>b, <1>g DEF ClaimActive
<1> QED
  BY <1>1, <1>a, <1>d, <1>e, <1>f, <1>g
-----------------------------------------------------------------------------
(* The files that the other steps write.                                   *)

LEMMA SameLedger ==
  ASSUME LedgerInv, UNCHANGED items, manifest'.status = "ABSENT" => manifest.status = "ABSENT"
  PROVE  /\ LedgerInv'
         /\ Ledger' = Ledger /\ Committed' = Committed /\ InFlight' = InFlight
         /\ \A r : CommittedBy(r)' = CommittedBy(r)
         /\ Cardinality(Committed') = Cardinality(Committed)
  BY DEF LedgerInv, Ledger, Committed, InFlight, WithStatus, CommittedBy

(* No claim without its batch; what a run committed has its batch.         *)
LEMMA BetweenBatches ==
  ASSUME OwnerInv
  PROVE  /\ ~batch.active => InFlight = {}
         /\ \A r \in Run : r \notin batch.ids => CommittedBy(r) = {}
         /\ \A r : Cardinality(CommittedBy(r)) = 1 => CommittedBy(r) # {} /\ Committed # {}
<1>1. ~batch.active => InFlight = {}
  BY DEF OwnerInv, InFlightOwned
<1>2. \A r \in Run : r \notin batch.ids => CommittedBy(r) = {}
  BY DEF OwnerInv, CommittedBy, Committed
<1>3. \A r : Cardinality(CommittedBy(r)) = 1 => CommittedBy(r) # {} /\ Committed # {}
  BY FS_EmptySet DEF CommittedBy, Committed
<1> QED
  BY <1>1, <1>2, <1>3

LEMMA OwnerStepKeeps ==
  ASSUME CampaignInv, OwnerStep, TypeOK'
  PROVE  LedgerInv' /\ OwnerInv' /\ HostInv' /\ HandoffInv'
<1>0. TypeOK /\ LedgerInv /\ OwnerInv /\ HostInv /\ HandoffInv
  BY DEF CampaignInv
<1>1. UNCHANGED <<items, manifest, handoff, work, traced>>
  BY DEF OwnerStep, OpenBatch, AppendStarted, Finish, AppendFinished, RetireHeartbeat,
         remove_completed_heartbeat, Start, Resume, write_heartbeat, recover_stale_heartbeat,
         replace_heartbeat_owner, PutHeartbeat
<1>2. /\ LedgerInv'
      /\ Ledger' = Ledger /\ Committed' = Committed /\ InFlight' = InFlight
      /\ \A r : CommittedBy(r)' = CommittedBy(r)
      /\ Cardinality(Committed') = Cardinality(Committed)
  BY <1>0, <1>1, SameLedger
<1>3. CASE OpenBatch
  <2>1. /\ ~batch.active /\ host.run \notin batch.ids /\ UNCHANGED heartbeat
        /\ batch' = [run |-> host.run, active |-> TRUE, ids |-> batch.ids \cup {host.run}]
        /\ Proceed("claim") /\ host.run \in Run /\ manifest.status = "RUNNING"
    BY <1>0, <1>3 DEF OpenBatch, AppendStarted, HostInv, HostSteps
  <2>2. InFlight = {} /\ CommittedBy(host.run) = {}
    BY <1>0, <2>1, BetweenBatches
  <2>3. OwnerInv'
    BY <1>0, <1>1, <1>2, <2>1, <2>2, StoreAssumption DEF OwnerInv, InFlightOwned
  <2>4. HostInv'
    <3>1. host'.at = "claim" /\ host'.run = host.run
      BY <1>0, <2>1, HostTypes DEF HostSteps
    <3> QED
      BY <1>0, <1>1, <2>1, <3>1 DEF HostInv, HostSteps, ExecuteSteps
  <2>5. HandoffInv'
    <3>1. batch'.active /\ batch'.run = host.run
      BY <2>1
    <3> QED
      BY <1>0, <1>1, <1>2, <2>1, <2>2, <3>1 DEF HandoffInv
  <2> QED
    BY <1>2, <2>3, <2>4, <2>5
<1>4. CASE Finish
  <2>1. /\ batch.active /\ batch.run = host.run /\ UNCHANGED heartbeat
        /\ batch'.active = FALSE /\ batch'.run = batch.run /\ batch'.ids = batch.ids
        /\ Proceed("handoff") /\ host.run \in Run /\ host.run \in traced
        /\ InFlight = {} /\ Cardinality(CommittedBy(host.run)) = 1
        /\ manifest.status = "RUNNING"
    BY <1>0, <1>4 DEF Finish, AppendFinished, OwnsBatch, HostInv, HostSteps, ExecuteSteps,
                      TypeOK, StoreTypeOK
  <2>2. CommittedBy(batch.run) # {}
    BY <1>0, <2>1, BetweenBatches
  <2>3. OwnerInv'
    BY <1>0, <1>1, <1>2, <2>1 DEF OwnerInv, InFlightOwned
  <2>4. HostInv'
    <3>1. host'.at = "handoff" /\ host'.run = host.run
      BY <1>0, <2>1, HostTypes DEF HostSteps, ExecuteSteps
    <3> QED
      BY <1>0, <1>1, <2>1, <3>1 DEF HostInv, HostSteps, ExecuteSteps
  <2>5. HandoffInv'
    BY <1>0, <1>1, <1>2, <2>1, <2>2 DEF HandoffInv
  <2> QED
    BY <1>2, <2>3, <2>4, <2>5
<1>5. CASE RetireHeartbeat
  <2>1. manifest.status = "COMPLETED" /\ UNCHANGED batch /\ heartbeat'.run = NoRun /\ Release
    BY <1>5 DEF RetireHeartbeat, remove_completed_heartbeat, PutHeartbeat
  <2>2. InFlight = {} /\ ~batch.active
    BY <1>0, <2>1, BetweenBatches DEF HandoffInv
  <2>3. OwnerInv'
    BY <1>0, <1>1, <1>2, <2>1, <2>2 DEF OwnerInv, InFlightOwned
  <2>4. HostInv'
    <3>1. host'.at = "idle"
      BY <1>0, <2>1, HostTypes
    <3> QED
      BY <1>0, <1>1, <3>1 DEF HostInv, HostSteps, ExecuteSteps
  <2>5. HandoffInv'
    BY <1>0, <1>1, <1>2, <2>1 DEF HandoffInv
  <2> QED
    BY <1>2, <2>3, <2>4, <2>5
<1>6. ASSUME NEW r \in Run, Start(r)
      PROVE  OwnerInv' /\ HostInv' /\ HandoffInv'
  <2>1. /\ manifest.status = "RUNNING" /\ Ledger = Eligible /\ handoff.run = NoRun
        /\ UNCHANGED batch /\ host'.at = "open" /\ host'.run = r
    BY <1>6 DEF Start, StartAllowed, write_heartbeat, PutHeartbeat
  <2>2. InFlight = {}
    BY <2>1 DEF InFlight, Ledger, Eligible, WithStatus, ClaimActive
  <2>3. OwnerInv'
    BY <1>0, <1>1, <1>2, <2>1, <2>2 DEF OwnerInv, InFlightOwned
  <2>4. HostInv'
    BY <1>0, <1>1, <2>1 DEF HostInv, HostSteps, ExecuteSteps
  <2>5. HandoffInv'
    BY <1>0, <1>1, <1>2, <2>1 DEF HandoffInv
  <2> QED
    BY <2>3, <2>4, <2>5
<1>7. ASSUME NEW r \in Run, Resume(r)
      PROVE  OwnerInv' /\ HostInv' /\ HandoffInv'
  <2>1. /\ manifest.status = "RUNNING" /\ ~batch.active /\ r # batch.run
        /\ Cardinality(CommittedBy(batch.run)) = 1
        /\ UNCHANGED batch /\ host'.at = "resumed" /\ host'.run = r
    BY <1>7 DEF Resume, ResumeAllowed, FinishedSession, recover_stale_heartbeat,
                replace_heartbeat_owner, PutHeartbeat
  <2>2. InFlight = {} /\ Committed # {}
    BY <1>0, <2>1, BetweenBatches
  <2>3. OwnerInv'
    BY <1>0, <1>1, <1>2, <2>1, <2>2 DEF OwnerInv, InFlightOwned
  <2>4. HostInv'
    BY <1>0, <1>1, <1>2, <2>1, <2>2 DEF HostInv, HostSteps, ExecuteSteps
  <2>5. HandoffInv'
    BY <1>0, <1>1, <1>2, <2>1 DEF HandoffInv
  <2> QED
    BY <2>3, <2>4, <2>5
<1> QED
  BY <1>2, <1>3, <1>4, <1>5, <1>6, <1>7 DEF OwnerStep

LEMMA ManifestStepKeeps ==
  ASSUME CampaignInv, ManifestStep, TypeOK'
  PROVE  LedgerInv' /\ OwnerInv' /\ HostInv' /\ HandoffInv'
<1>0. TypeOK /\ LedgerInv /\ OwnerInv /\ HostInv /\ HandoffInv
  BY DEF CampaignInv
<1>1. /\ UNCHANGED <<items, batch, heartbeat, handoff, work, traced>>
      /\ manifest'.status # "ABSENT"
  BY DEF ManifestStep, Complete, complete_campaign, Pause, Unpause, transition_pause_state,
         Prepare, create, WriteManifest
<1>2. /\ LedgerInv'
      /\ Ledger' = Ledger /\ Committed' = Committed /\ InFlight' = InFlight
      /\ \A r : CommittedBy(r)' = CommittedBy(r)
      /\ Cardinality(Committed') = Cardinality(Committed)
      /\ Cardinality(Ledger') = Cardinality(Ledger)
  BY <1>0, <1>1, SameLedger
<1>3. OwnerInv'
  BY <1>0, <1>1, <1>2 DEF OwnerInv, InFlightOwned
<1>4. CASE Complete
  <2>1. /\ manifest.status = "RUNNING" /\ manifest'.status = "COMPLETED"
        /\ ~batch.active /\ HandoffValid /\ Proceed("terminal")
        /\ host.at = "resumed" /\ host.run # batch.run /\ host.run \in Run
    BY <1>0, <1>4 DEF Complete, complete_campaign, WriteManifest, ResumeReady, HostInv, HostSteps
  <2>2. handoff.view.status = "RUNNING"
    BY <1>0, <2>1, ViewTyped DEF HandoffValid
  <2>3. host'.at = "terminal" /\ host'.run = host.run
    BY <1>0, <2>1, HostTypes DEF HostSteps
  <2>4. HostInv'
    BY <1>0, <1>1, <2>1, <2>3 DEF HostInv, HostSteps, ExecuteSteps
  <2>5. HandoffInv'
    BY <1>0, <1>1, <1>2, <2>1, <2>2 DEF HandoffInv
  <2> QED
    BY <1>2, <1>3, <2>4, <2>5
<1>5. CASE Pause \/ Unpause
  <2>1. /\ manifest.status \in {"RUNNING", "PAUSED"} /\ manifest'.status \in {"RUNNING", "PAUSED"}
        /\ host.at = "idle" /\ UNCHANGED host
    BY <1>5 DEF Pause, Unpause, transition_pause_state, WriteManifest, LockFree
  <2>2. HostInv'
    BY <1>0, <1>1, <2>1 DEF HostInv, HostSteps, ExecuteSteps
  <2>3. HandoffInv'
    BY <1>0, <1>1, <1>2, <2>1 DEF HandoffInv
  <2> QED
    BY <1>2, <1>3, <2>2, <2>3
<1>6. ASSUME NEW r \in Run, Prepare(r)
      PROVE  HostInv' /\ HandoffInv'
  <2>1. /\ manifest.status = "ABSENT" /\ manifest'.status = "RUNNING"
        /\ host'.at = "discover" /\ host'.run = r
    BY <1>6 DEF Prepare, create, WriteManifest
  <2>2. InFlight = {} /\ Committed = {} /\ Cardinality(Ledger) = 0 /\ N > 0
    <3>1. Ledger = {}
      BY <1>0, <2>1 DEF LedgerInv
    <3> QED
      BY <1>0, <3>1, FlightKnown, FS_EmptySet, StoreAssumption
  <2>3. HostInv'
    BY <1>0, <1>1, <1>2, <2>1, <2>2 DEF HostInv, HostSteps, ExecuteSteps
  <2>4. HandoffInv'
    BY <1>0, <1>1, <1>2, <2>1 DEF HandoffInv
  <2> QED
    BY <2>3, <2>4
<1> QED
  BY <1>2, <1>3, <1>4, <1>5, <1>6 DEF ManifestStep

LEMMA HandoffStepKeeps ==
  ASSUME CampaignInv, HandoffStep, TypeOK'
  PROVE  LedgerInv' /\ OwnerInv' /\ HostInv' /\ HandoffInv'
<1>0. TypeOK /\ LedgerInv /\ OwnerInv /\ HostInv /\ HandoffInv
  BY DEF CampaignInv
<1>1. UNCHANGED <<items, manifest, batch, heartbeat, traced>> /\ ~batch.active
  BY <1>0 DEF HandoffStep, WriteHandoff, WriteTerminalHandoff, write_handoff, storeVars, FinishedBy,
              HandoffInv
<1>2. /\ LedgerInv'
      /\ Ledger' = Ledger /\ Committed' = Committed /\ InFlight' = InFlight
      /\ \A r : CommittedBy(r)' = CommittedBy(r)
      /\ Cardinality(Committed') = Cardinality(Committed)
  BY <1>0, <1>1, SameLedger
<1>3. OwnerInv'
  BY <1>0, <1>1, <1>2 DEF OwnerInv, InFlightOwned
<1>4. LedgerView.completed = Cardinality(Committed) /\ LedgerView.status = manifest.status
      /\ Cardinality(Committed) \in Nat
  BY <1>0, ViewTyped, FlightKnown
<1>5. CASE WriteHandoff
  <2>1. /\ manifest.status = "RUNNING" /\ batch.run = host.run /\ host.run \in Run
        /\ (UNCHANGED handoff \/ (handoff'.run = host.run /\ handoff'.view = LedgerView))
        /\ Release /\ Drop(host.run)
    BY <1>0, <1>5 DEF WriteHandoff, FinishedBy, write_handoff, storeVars, HostInv, HostSteps,
                      ExecuteSteps
  <2>2. HostInv'
    <3>1. host'.at = "idle" /\ \A s \in Run : work'[s] = work[s] \/ work'[s].at = "none"
      BY <1>0, <2>1, HostTypes, WorkTyped
    <3> QED
      BY <1>0, <1>1, <3>1 DEF HostInv, HostSteps, ExecuteSteps
  <2>3. HandoffInv'
    BY <1>0, <1>1, <1>2, <1>4, <2>1 DEF HandoffInv
  <2> QED
    BY <1>2, <1>3, <2>2, <2>3
<1>6. CASE WriteTerminalHandoff
  <2>1. /\ manifest.status = "COMPLETED" /\ heartbeat.run = host.run /\ host.run # batch.run
        /\ (UNCHANGED handoff \/ (handoff'.run = host.run /\ handoff'.view = LedgerView))
        /\ Proceed("retire") /\ UNCHANGED work /\ host.run \in Run
    BY <1>0, <1>6 DEF WriteTerminalHandoff, write_handoff, storeVars, HostInv, HostSteps
  <2>2. HostInv'
    <3>1. host'.at = "retire" /\ host'.run = host.run
      BY <1>0, <2>1, HostTypes DEF HostSteps
    <3> QED
      BY <1>0, <1>1, <2>1, <3>1 DEF HostInv, HostSteps, ExecuteSteps
  <2>3. HandoffInv'
    BY <1>0, <1>1, <1>2, <1>4, <2>1 DEF HandoffInv
  <2> QED
    BY <1>2, <1>3, <2>2, <2>3
<1> QED
  BY <1>5, <1>6 DEF HandoffStep

LEMMA OtherStepKeeps ==
  ASSUME CampaignInv, OtherStep, TypeOK'
  PROVE  LedgerInv' /\ OwnerInv' /\ HostInv' /\ HandoffInv'
<1>0. TypeOK /\ LedgerInv /\ OwnerInv /\ HostInv /\ HandoffInv
  BY DEF CampaignInv
<1>1. UNCHANGED <<items, manifest, batch, heartbeat, handoff>> /\ traced \subseteq traced'
  BY DEF OtherStep, RefuseOpen, EndAgentRun, RefuseObserve, Continue, InspectClaim, BeginAgentRun,
         BeginCommit, Abandon, Crash, RecoverLock, Second, Tick, storeVars
<1>2. /\ LedgerInv'
      /\ Ledger' = Ledger /\ Committed' = Committed /\ InFlight' = InFlight
      /\ \A r : CommittedBy(r)' = CommittedBy(r)
      /\ Cardinality(Committed') = Cardinality(Committed)
  BY <1>0, <1>1, SameLedger
<1>3. OwnerInv'
  BY <1>0, <1>1, <1>2 DEF OwnerInv, InFlightOwned
<1>4. HandoffInv'
  BY <1>0, <1>1, <1>2 DEF HandoffInv
<1>5. \A s \in Run : work[s].at \in {"running", "extracted"} => s \in traced'
  BY <1>0, <1>1 DEF HostInv
<1> HIDE <1>1
<1>6. CASE RefuseOpen \/ RecoverLock \/ Crash \/ RefuseObserve \/ EndAgentRun
  <2>1. host'.at \in {"idle", "orphaned"}
    <3>1. Release \/ host' = [Idle EXCEPT !.at = "orphaned"]
      BY <1>6 DEF RefuseOpen, RecoverLock, Crash, RefuseObserve, EndAgentRun
    <3> QED
      BY <1>0, <3>1, HostTypes DEF Idle
  <2>2. \A s \in Run : work'[s].at \in {"running", "extracted"} => s \in traced'
    <3>1. \/ UNCHANGED work
          \/ host.run \in Run /\ Drop(host.run)
          \/ host.run \in Run /\ host.run \in traced /\ Work(host.run, "extracted")
      BY <1>0, <1>6 DEF RefuseOpen, RecoverLock, Crash, RefuseObserve, EndAgentRun, HostInv,
                        HostSteps, ExecuteSteps
    <3>2. \A s \in Run : work'[s] = work[s] \/ work'[s].at = "none" \/ s \in traced
      BY <1>0, <3>1, WorkTyped
    <3> QED
      BY <1>1, <1>5, <3>2
  <2> QED
    BY <1>2, <1>3, <1>4, <2>1, <2>2 DEF HostInv, HostSteps, ExecuteSteps
<1>7. CASE Continue
  <2>1. /\ host'.at = "open" /\ host'.run = host.run /\ manifest.status = "RUNNING"
        /\ host.run \in Run /\ UNCHANGED work
    BY <1>0, <1>7, HostTypes DEF Continue, ResumeReady, HostInv, HostSteps
  <2> QED
    BY <1>1, <1>2, <1>3, <1>4, <1>5, <2>1 DEF HostInv, HostSteps, ExecuteSteps
<1>8. ASSUME NEW r \in Run, InspectClaim(r) \/ Abandon(r) PROVE HostInv'
  <2>1. UNCHANGED <<host, traced>>
    BY <1>8 DEF InspectClaim, Abandon
  <2>2. \A s \in Run : work'[s] = work[s] \/ work'[s].at \in {"none", "inspected"}
    <3>1. CASE InspectClaim(r)
      BY <1>0, <3>1 DEF InspectClaim, TypeOK
    <3>2. CASE Abandon(r)
      BY <1>0, <3>2, WorkTyped DEF Abandon
    <3> QED
      BY <1>8, <3>1, <3>2
  <2> QED
    BY <1>0, <1>1, <1>2, <2>1, <2>2 DEF HostInv
<1>9. ASSUME NEW r \in Run, BeginAgentRun(r) PROVE HostInv'
  <2>1. /\ host'.at = "agent" /\ host'.run = r /\ r \in traced'
        /\ Work(r, "running")
    BY <1>9 DEF BeginAgentRun
  <2>2. \A s \in Run : work'[s] = work[s] \/ s \in traced'
    BY <1>0, <2>1, WorkTyped
  <2> QED
    BY <1>5, <2>1, <2>2 DEF HostInv, HostSteps, ExecuteSteps
<1>10. ASSUME NEW r \in Run, BeginCommit(r) PROVE HostInv'
  <2>1. host'.at = "observe" /\ host'.run = r /\ r \in traced /\ UNCHANGED <<work, traced>>
    BY <1>0, <1>10 DEF BeginCommit, HostInv
  <2> QED
    BY <1>5, <2>1 DEF HostInv, HostSteps, ExecuteSteps
<1>11. CASE Second
  <2>1. UNCHANGED <<host, work, traced>>
    BY <1>11 DEF Second
  <2> QED
    BY <1>0, <1>1, <1>2, <1>3, <1>4, <2>1 DEF HostInv
<1> QED
  BY <1>2, <1>3, <1>4, <1>6, <1>7, <1>8, <1>9, <1>10, <1>11 DEF OtherStep

LEMMA InitKept == Init => CampaignInv
<1> SUFFICES ASSUME Init PROVE CampaignInv
  OBVIOUS
<1>1. Ledger = {} /\ Committed = {} /\ InFlight = {}
  BY DEF Init, StoreInit, Ledger, Committed, InFlight, WithStatus, ClaimActive
<1>2. Cardinality(Ledger) = 0 /\ Cardinality(Committed) = 0
  BY <1>1, FS_EmptySet
<1>3. LedgerInv
  BY <1>1, <1>2 DEF LedgerInv, Init, StoreInit, Reached
<1>4. TypeOK
  <2>1. /\ Cardinality(WithStatus({"RETRYABLE"})) \in 0..N
        /\ Cardinality(WithStatus({"UNCERTAIN"})) \in 0..N
    BY ItemsCounted, LedgerSets, StoreAssumption
  <2>2. NextOrdinal = 1
    BY <1>1, <1>2 DEF NextOrdinal
  <2>3. LedgerView \in View
    BY <1>1, <1>2, <2>1, <2>2, StoreAssumption
       DEF LedgerView, View, CampaignStatus, Init, StoreInit, Committed
  <2> QED
    BY <2>3, StoreAssumption
       DEF Init, StoreInit, TypeOK, StoreTypeOK, Idle, NoWork, Time, CampaignStatus, ItemStatus,
           Successors
<1>5. OwnerInv /\ HostInv /\ HandoffInv
  BY <1>1 DEF Init, StoreInit, OwnerInv, InFlightOwned, HostInv, HostSteps, ExecuteSteps, Idle, NoWork,
              HandoffInv, LedgerView
<1> QED
  BY <1>3, <1>4, <1>5 DEF CampaignInv

LEMMA InvKept == CampaignInv /\ [Next]_vars => CampaignInv'
<1> SUFFICES ASSUME CampaignInv, [Next]_vars PROVE CampaignInv'
  OBVIOUS
<1>1. CASE Next
  BY <1>1, Steps, TypesKept, LedgerStepKeeps, OwnerStepKeeps, ManifestStepKeeps, HandoffStepKeeps,
     OtherStepKeeps DEF CampaignInv
<1>2. CASE UNCHANGED vars
  <2>1. UNCHANGED <<clock, items, manifest, batch, heartbeat, handoff, host, work, traced>>
    BY <1>2 DEF vars, storeVars
  <2>2. CampaignInv => LedgerInv' /\ TypeOK' /\ OwnerInv' /\ HostInv' /\ HandoffInv'
    BY <2>1 DEF CampaignInv, TypeOK, StoreTypeOK, LedgerInv, OwnerInv, InFlightOwned, HostInv,
       HandoffInv, Ledger, Committed, InFlight, WithStatus, CommittedBy
  <2> QED
    BY <2>2 DEF CampaignInv
<1> QED
  BY <1>1, <1>2

(* Every reachable state of a campaign satisfies the inductive invariant:  *)
(* the ledger is a prefix, its claim is owned, the holder of the lock      *)
(* knows what it needs, and the hand-off is as old as its counts.          *)
THEOREM CampaignInvariant == Spec => []CampaignInv
  BY InitKept, InvKept, PTL DEF Spec

-----------------------------------------------------------------------------
(* What follows from the invariant.                                        *)

LEMMA SmallSets ==
  /\ \A S : S = {} => Cardinality(S) = 0
  /\ \A S, x : S = {x} => Cardinality(S) = 1
  BY FS_EmptySet, FS_Singleton

LEMMA SafeFollows == CampaignInv => CampaignSafe
<1> SUFFICES ASSUME CampaignInv PROVE CampaignSafe
  OBVIOUS
<1>0. TypeOK /\ LedgerInv /\ OwnerInv /\ HandoffInv
  BY DEF CampaignInv
<1>1. OneInFlight
  <2>1. InFlight = {} \/ InFlight = {Cardinality(Committed) + 1}
    BY <1>0 DEF LedgerInv
  <2> QED
    BY <2>1, SmallSets DEF OneInFlight
<1>2. OneCommitPerAgentRun
  <2> SUFFICES ASSUME NEW r \in Run
               PROVE  Cardinality(CommittedBy(r)) <= 1 /\ (CommittedBy(r) # {} => r \in traced)
    BY DEF OneCommitPerAgentRun
  <2>1. \A i \in CommittedBy(r) : i \in Committed /\ items[i].run = r
    BY DEF CommittedBy, Committed
  <2>2. CommittedBy(r) = {} \/ \E i : CommittedBy(r) = {i}
    BY <1>0, <2>1 DEF OwnerInv
  <2>3. Cardinality(CommittedBy(r)) \in {0, 1}
    BY <2>2, SmallSets, Zenon
  <2> QED
    BY <1>0, <2>1, <2>3 DEF OwnerInv
<1>3. HandoffTruth
  <2> SUFFICES ASSUME HandoffValid, ~batch.active
               PROVE  /\ InFlight = {}
                      /\ manifest.status # "COMPLETED" => handoff.run = batch.run
                      /\ manifest.status = "COMPLETED" =>
                            handoff.run # batch.run /\ heartbeat.run \in {NoRun, handoff.run}
    BY DEF HandoffTruth
  <2>1. InFlight = {}
    BY <1>0, BetweenBatches
  <2>2. /\ handoff.run # NoRun /\ handoff.view.completed = Cardinality(Committed)
        /\ handoff.view.status = manifest.status /\ Cardinality(Committed) \in Nat
    BY <1>0, ViewTyped, FlightKnown DEF HandoffValid
  <2> QED
    BY <1>0, <2>1, <2>2 DEF HandoffInv
<1> QED
  BY <1>0, <1>1, <1>2, <1>3 DEF CampaignSafe, OwnerInv

(* One owned item in flight, one commit per Agent run and a truthful       *)
(* hand-off, whichever command dies between which of its writes and        *)
(* whatever other commands get in between (application_campaign_runtime).  *)
THEOREM CampaignIsSafe == Spec => []CampaignSafe
  BY CampaignInvariant, SafeFollows, PTL

(* Only start, resume and retire write the heartbeat's run.                *)
LEMMA OwnerStays ==
  ASSUME Next, heartbeat'.run # heartbeat.run
  PROVE  RetireHeartbeat \/ \E r \in Run : Start(r) \/ Resume(r)
<1>1. LedgerStep => UNCHANGED heartbeat
  BY DEF LedgerStep, Discover, Claim, Observe, Extract, Commit, ReleaseStaleClaim,
         release_stale_claim, append
<1>2. ManifestStep => UNCHANGED heartbeat
  BY DEF ManifestStep, Complete, complete_campaign, Pause, Unpause, transition_pause_state, Prepare,
         create, WriteManifest
<1>3. HandoffStep => UNCHANGED heartbeat
  BY DEF HandoffStep, WriteHandoff, WriteTerminalHandoff, write_handoff, storeVars
<1>4. OtherStep => UNCHANGED heartbeat
  BY DEF OtherStep, RefuseOpen, EndAgentRun, RefuseObserve, Continue, InspectClaim, BeginAgentRun,
         BeginCommit, Abandon, Crash, RecoverLock, Second, Tick, storeVars
<1>5. OpenBatch \/ Finish => UNCHANGED heartbeat
  BY DEF OpenBatch, AppendStarted, Finish, AppendFinished
<1> QED
  BY <1>1, <1>2, <1>3, <1>4, <1>5, Steps DEF OwnerStep

(* The heartbeat changes hands only between batches: start, resume and     *)
(* retire find neither a claim nor an active batch.                        *)
THEOREM OwnerMoves == Spec => OwnerMovesBetweenBatches
<1>1. CampaignInv /\ [Next]_vars =>
        [heartbeat'.run # heartbeat.run => InFlight = {} /\ ~batch.active]_vars
  <2> SUFFICES ASSUME CampaignInv, Next, heartbeat'.run # heartbeat.run
               PROVE  InFlight = {} /\ ~batch.active
    OBVIOUS
  <2>0. OwnerInv /\ HandoffInv
    BY DEF CampaignInv
  <2>1. ~batch.active
    <3>1. RetireHeartbeat => ~batch.active
      BY <2>0 DEF RetireHeartbeat, remove_completed_heartbeat, HandoffInv
    <3>2. \A r \in Run : Start(r) => ~batch.active
      BY <2>0 DEF Start, StartAllowed, OwnerInv
    <3>3. \A r \in Run : Resume(r) => ~batch.active
      BY DEF Resume, ResumeAllowed, FinishedSession
    <3> QED
      BY <3>1, <3>2, <3>3, OwnerStays
  <2> QED
    BY <2>0, <2>1, BetweenBatches
<1> QED
  BY <1>1, CampaignInvariant, PTL DEF Spec, OwnerMovesBetweenBatches

-----------------------------------------------------------------------------
(* The files implement the cursor.                                         *)

LEMMA WorkerIs ==
  /\ InFlight = {} => Worker = NoRun
  /\ \A i \in Item : InFlight = {i} => Worker = items[i].run
<1>1. \A i \in Item : Min({i}) = i
  BY LeastIs DEF Item
<1> QED
  BY <1>1 DEF Worker

LEMMA WorkerThen ==
  /\ InFlight' = {} => Worker' = NoRun
  /\ \A i \in Item : InFlight' = {i} => Worker' = items'[i].run
<1>1. \A i \in Item : Min({i}) = i
  BY LeastIs DEF Item
<1> QED
  BY <1>1 DEF Worker

LEMMA CursorIs == Progress!Cursor = Cardinality(Committed) + 1
  BY DEF Progress!Cursor, Progress!Cardinality, Cardinality, Committed

LEMMA StartsAtCursor == Init => Progress!ProgressInit
<1>1. Init => Ledger = {} /\ WithStatus({"COMMITTED"}) = {} /\ InFlight = {}
  BY DEF Init, StoreInit, Ledger, InFlight, WithStatus, ClaimActive
<1>2. Cardinality({}) = 0
  BY FS_EmptySet
<1> QED
  BY <1>1, <1>2, SMTT(30) DEF Progress!ProgressInit, Worker, Init, StoreInit

LEMMA LedgerAtCursor ==
  ASSUME CampaignInv, LedgerStep
  PROVE  [Progress!ProgressNext]_(Progress!progressVars)
<1>0. TypeOK /\ LedgerInv /\ OwnerInv /\ HostInv
  BY DEF CampaignInv
<1> DEFINE c == Cardinality(Committed)
           n == Cardinality(Ledger)
<1>1. PICK i \in Item, status \in Reached \ {"ABSENT"}, r \in Run \cup {NoRun}, now \in Time :
        /\ Transition(i, status, r, now)
        /\ UNCHANGED <<clock, manifest, batch, heartbeat, handoff, work, traced>>
        /\ \/ /\ Discover /\ status = "DISCOVERED" /\ i = n + 1
              /\ host.at = "discover"
           \/ /\ Claim /\ status = "CLAIMED" /\ r = host.run
              /\ InFlight = {} /\ i = c + 1 /\ i \in Ledger
              /\ OwnsBatch(r, now) /\ CommittedBy(r) = {} /\ r \in Run
           \/ /\ (Observe /\ status = "OBSERVED") \/ (Extract /\ status = "EXTRACTED")
              /\ r = host.run /\ InFlight = {i} /\ items[i].run = r /\ OwnsBatch(r, now)
              /\ r \in Run
           \/ /\ Commit /\ status = "COMMITTED" /\ r = host.run /\ InFlight = {i}
              /\ items[i].run = r /\ OwnsBatch(r, now) /\ r \in Run /\ r \in traced
           \/ /\ UNCHANGED host /\ status = "RETRYABLE" /\ i \in InFlight
  BY <1>0, LedgerStepCases
<1>2. /\ Ledger' = Ledger \cup {i}
      /\ Committed' = IF status = "COMMITTED" THEN Committed \cup {i} ELSE Committed
      /\ InFlight' = IF status \in ClaimActive THEN InFlight \cup {i} ELSE InFlight \ {i}
      /\ items'[i].run = r /\ i \notin Committed
      /\ status = "DISCOVERED" => i \notin Ledger
  BY <1>0, <1>1, SetsMoved
<1>3. c \in Nat /\ n \in Nat /\ InFlight \subseteq Ledger
  BY <1>0, FlightKnown
<1>4. /\ InFlight = {} => Worker = NoRun
      /\ \A j \in Item : InFlight = {j} => Worker = items[j].run
      /\ InFlight' = {} => Worker' = NoRun
      /\ \A j \in Item : InFlight' = {j} => Worker' = items'[j].run
  BY <1>0, WorkerIs, WorkerThen
<1>5. UNCHANGED manifest /\ Committed = WithStatus({"COMMITTED"})
  BY <1>1 DEF Committed
<1>6. CASE Discover /\ status = "DISCOVERED" /\ i = n + 1 /\ host.at = "discover"
  <2>1. /\ manifest.status = "RUNNING" /\ InFlight = {} /\ Committed = {}
        /\ InFlight' = {} /\ Committed' = {}
    BY <1>0, <1>2, <1>6 DEF HostInv, ClaimActive
  <2>2. Cardinality(Ledger') = n + 1
    BY <1>0, <1>2, <1>3, <1>6, PrefixGrows DEF LedgerInv
  <2>3. Progress!Add
    BY <1>4, <1>5, <2>1, <2>2 DEF Progress!Add, Committed
  <2> QED
    BY <2>3 DEF Progress!ProgressNext
<1>7. CASE Claim /\ status = "CLAIMED" /\ r = host.run
           /\ InFlight = {} /\ i = c + 1 /\ i \in Ledger
           /\ OwnsBatch(r, now) /\ CommittedBy(r) = {} /\ r \in Run
  <2>1. /\ manifest.status = "RUNNING" /\ InFlight' = {i} /\ Committed' = Committed
        /\ Ledger' = Ledger
    BY <1>2, <1>7 DEF OwnsBatch, ClaimActive
  <2>2. c + 1 <= n
    BY <1>0, <1>3, <1>7 DEF LedgerInv
  <2>3. Worker = NoRun /\ Worker' = r
    BY <1>2, <1>4, <1>7, <2>1
  <2>4. Progress!Take(r)
    BY <1>5, <2>1, <2>2, <2>3, CursorIs DEF Progress!Take, Committed
  <2> QED
    BY <1>7, <2>4 DEF Progress!ProgressNext
<1>8. CASE /\ (Observe /\ status = "OBSERVED") \/ (Extract /\ status = "EXTRACTED")
           /\ r = host.run /\ InFlight = {i} /\ items[i].run = r /\ OwnsBatch(r, now)
           /\ r \in Run
  <2>1. InFlight' = {i} /\ Committed' = Committed /\ Ledger' = Ledger
    BY <1>2, <1>3, <1>8 DEF ClaimActive
  <2>2. Worker' = Worker
    BY <1>2, <1>4, <1>8, <2>1
  <2> QED
    BY <1>5, <2>1, <2>2 DEF Progress!progressVars, Committed
<1>9. CASE Commit /\ status = "COMMITTED" /\ r = host.run /\ InFlight = {i}
           /\ items[i].run = r /\ OwnsBatch(r, now) /\ r \in Run /\ r \in traced
  <2>1. /\ manifest.status = "RUNNING" /\ InFlight' = {} /\ Committed' = Committed \cup {i}
        /\ Ledger' = Ledger /\ i = c + 1
    BY <1>0, <1>2, <1>3, <1>9 DEF OwnsBatch, ClaimActive, LedgerInv
  <2>2. Worker # NoRun /\ Worker' = NoRun
    BY <1>4, <1>9, <2>1, StoreAssumption
  <2>3. Progress!Advance
    BY <1>5, <2>1, <2>2, CursorIs DEF Progress!Advance, Committed
  <2> QED
    BY <2>3 DEF Progress!ProgressNext
<1>10. CASE UNCHANGED host /\ status = "RETRYABLE" /\ i \in InFlight
  <2>1. InFlight = {i} /\ InFlight' = {} /\ Committed' = Committed /\ Ledger' = Ledger
    BY <1>0, <1>2, <1>3, <1>10 DEF LedgerInv, ClaimActive
  <2>2. Worker # NoRun /\ Worker' = NoRun
    BY <1>0, <1>4, <2>1, StoreAssumption DEF OwnerInv
  <2>3. Progress!Lose
    BY <1>5, <2>1, <2>2 DEF Progress!Lose, Committed
  <2> QED
    BY <2>3 DEF Progress!ProgressNext
<1> QED
  BY <1>1, <1>6, <1>7, <1>8, <1>9, <1>10

LEMMA RestAtCursor ==
  ASSUME CampaignInv, UNCHANGED items
  PROVE  /\ (manifest'.status = "COMPLETED") = (manifest.status = "COMPLETED") =>
              UNCHANGED Progress!progressVars
         /\ Complete => Progress!Close
<1>0. TypeOK /\ LedgerInv /\ OwnerInv /\ HostInv
  BY DEF CampaignInv
<1>1. /\ Ledger' = Ledger /\ InFlight' = InFlight /\ Worker' = Worker
      /\ WithStatus({"COMMITTED"})' = WithStatus({"COMMITTED"})
  BY DEF Ledger, InFlight, WithStatus, Worker
<1>2. (manifest'.status = "COMPLETED") = (manifest.status = "COMPLETED") =>
        UNCHANGED Progress!progressVars
  BY <1>1 DEF Progress!progressVars
<1>3. ASSUME Complete PROVE Progress!Close
  <2>1. /\ manifest.status = "RUNNING" /\ manifest'.status = "COMPLETED"
        /\ InFlight = {} /\ Eligible = {} /\ Committed # {}
    BY <1>0, <1>3 DEF Complete, complete_campaign, WriteManifest, ResumeReady, HostInv
  <2>2. Ledger = Committed
    BY <1>0, <2>1
       DEF LedgerInv, Reached, Ledger, Committed, Eligible, InFlight, WithStatus, ClaimActive
  <2>3. Cardinality(Ledger) \in Nat /\ Cardinality(Ledger) > 0
    BY <1>0, <2>1, <2>2, FlightKnown DEF LedgerInv
  <2>4. Worker = NoRun
    BY <2>1 DEF Worker
  <2> QED
    BY <1>1, <2>1, <2>2, <2>3, <2>4, CursorIs DEF Progress!Close, Committed
<1> QED
  BY <1>2, <1>3

LEMMA StepAtCursor ==
  CampaignInv /\ [Next]_vars => [Progress!ProgressNext]_(Progress!progressVars)
<1> SUFFICES ASSUME CampaignInv, [Next]_vars
             PROVE  [Progress!ProgressNext]_(Progress!progressVars)
  OBVIOUS
<1>1. CASE LedgerStep
  BY <1>1, LedgerAtCursor
<1>2. CASE Complete
  <2>1. UNCHANGED items
    BY <1>2 DEF Complete, complete_campaign, WriteManifest
  <2> QED
    BY <1>2, <2>1, RestAtCursor DEF Progress!ProgressNext
<1>3. CASE OwnerStep \/ HandoffStep \/ OtherStep \/ UNCHANGED vars
  <2>1. OwnerStep => UNCHANGED <<items, manifest>>
    BY DEF OwnerStep, OpenBatch, AppendStarted, Finish, AppendFinished, RetireHeartbeat,
           remove_completed_heartbeat, Start, Resume, write_heartbeat, recover_stale_heartbeat,
           replace_heartbeat_owner, PutHeartbeat
  <2>2. HandoffStep => UNCHANGED <<items, manifest>>
    BY DEF HandoffStep, WriteHandoff, WriteTerminalHandoff, write_handoff, storeVars
  <2>3. OtherStep => UNCHANGED <<items, manifest>>
    BY DEF OtherStep, RefuseOpen, EndAgentRun, RefuseObserve, Continue, InspectClaim, BeginAgentRun,
           BeginCommit, Abandon, Crash, RecoverLock, Second, Tick, storeVars
  <2>4. UNCHANGED vars => UNCHANGED <<items, manifest>>
    BY DEF vars, storeVars
  <2> QED
    BY <1>3, <2>1, <2>2, <2>3, <2>4, RestAtCursor
<1>4. CASE Pause \/ Unpause \/ \E r \in Run : Prepare(r)
  <2>1. UNCHANGED items /\ manifest.status # "COMPLETED" /\ manifest'.status # "COMPLETED"
    BY <1>4 DEF Pause, Unpause, transition_pause_state, Prepare, create, WriteManifest
  <2> QED
    BY <2>1, RestAtCursor
<1> QED
  BY <1>1, <1>2, <1>3, <1>4, Steps DEF ManifestStep

(* The durable files implement the campaign's cursor: items are committed  *)
(* in order by one worker at a time, a lost worker's item stays at the     *)
(* cursor, and the campaign closes behind the last item alone.             *)
THEOREM FilesKeepCursor == Spec => ImplementsProgress
  BY StartsAtCursor, StepAtCursor, CampaignInvariant, PTL
  DEF Spec, ImplementsProgress, Progress!ProgressSpec

(* Both halves of what the run checks of every step.                       *)
THEOREM CursorIsKept == Spec => CursorKept
  BY FilesKeepCursor, OwnerMoves DEF CursorKept
=============================================================================
