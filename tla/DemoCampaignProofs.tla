-------------------------- MODULE DemoCampaignProofs -------------------------
(***************************************************************************)
(* The theorems about DemoCampaign, for any number of items, runs and      *)
(* seconds, and any number of kills and restarts.                          *)
(***************************************************************************)
EXTENDS DemoCampaign, FiniteSetTheorems, TLAPS

(* What an item's status says of the sink, and who gets the credit.        *)
SinkInv ==
    \A i \in Item :
        /\ items[i].status \in {"ABSENT", "DISCOVERED", "CLAIMED", "RETRYABLE"} => sink[i] = "none"
        /\ items[i].status \in {"EXTRACTED", "COMMITTED"} => sink[i] = "accepted"
        /\ items[i].status = "UNCERTAIN" => sink[i] = "pending"
        /\ sink[i] # "none" => performer[i] = items[i].run

ItemSteps == WorkSteps \ {"claim"}

(* The process that works on an item owns its claim, the batch and the     *)
(* heartbeat, and knows how far ledger and sink are.                       *)
WorkInv ==
    /\ Alive => me \in Run
    /\ proc.at = "discover" => proc.item \in Item
    /\ proc.at \in WorkSteps => batch.active /\ batch.run = me
    /\ proc.at \in ItemSteps =>
          /\ proc.item \in Item
          /\ items[proc.item].run = me
          /\ heartbeat.run = me
    /\ proc.at \in {"beat", "observe"} => items[proc.item].status = "CLAIMED"
    /\ proc.at \in {"dispatch", "effect", "extract"} => items[proc.item].status = "OBSERVED"
    /\ proc.at = "commit" => items[proc.item].status = "EXTRACTED"
    /\ proc.at = "dispatch" => sink[proc.item] = "none"
    /\ proc.at = "effect" => sink[proc.item] = "pending"
    /\ proc.at = "extract" => sink[proc.item] = "accepted"

DemoInv == TypeOK /\ ~duplicate /\ SinkInv /\ WorkInv

-----------------------------------------------------------------------------
(* Types.                                                                  *)
ProcType == [at : ProcSteps \cup {"returned", "killed"},
             run : Run \cup {NoRun}, item : 0..(N + 1), plan : SUBSET Item]
ItemType == [status : ItemStatus, run : Run \cup {NoRun},
             lease : 0..(MaxTime + LeaseTime)]

(* What one append changes.                                                *)
LEMMA Moved ==
  ASSUME TypeOK, NEW i \in Item, NEW status \in ItemStatus, NEW r \in Run \cup {NoRun},
         NEW t \in Time, Transition(i, status, r, t)
  PROVE  /\ items' \in [Item -> ItemType]
         /\ items'[i].status = status /\ items'[i].run = r
         /\ \A j \in Item : j # i => items'[j] = items[j]
         /\ status \in Successors[items[i].status]
<1>1. MaxTime \in Nat /\ LeaseTime \in Nat
  BY StoreAssumption
<1> DEFINE new == [status |-> status, run |-> r,
                   lease |-> IF status = "CLAIMED" THEN t + LeaseTime ELSE 0]
<1>2. items' = [items EXCEPT ![i] = new] /\ status \in Successors[items[i].status]
  BY DEF Transition
<1>3. new \in ItemType /\ new.status = status /\ new.run = r
  BY <1>1 DEF Time, ItemType
<1>4. items \in [Item -> ItemType]
  BY DEF TypeOK, StoreTypeOK, ItemType
<1> HIDE DEF new
<1> QED
  BY <1>2, <1>3, <1>4

(* The process moves to its next write, to the next item, or is gone.      *)
LEMMA ProcMoves ==
  ASSUME TypeOK
  PROVE  /\ proc \in ProcType
         /\ \A step \in ProcSteps : Proceed(step) =>
              /\ proc' \in ProcType /\ proc'.at = step
              /\ proc'.run = proc.run /\ proc'.item = proc.item
         /\ proc.item \in Item /\ NextItem =>
              /\ proc' \in ProcType /\ proc'.at = proc.at /\ proc'.run = proc.run
         /\ \A how \in {"returned", "killed"} : proc' = Gone(how) =>
              proc' \in ProcType /\ proc'.at = how
<1>1. proc \in ProcType /\ N \in Nat
  BY StoreAssumption DEF TypeOK, ProcType
<1>2. ASSUME NEW step \in ProcSteps, Proceed(step)
      PROVE  /\ proc' \in ProcType /\ proc'.at = step
             /\ proc'.run = proc.run /\ proc'.item = proc.item
  BY <1>1, <1>2 DEF Proceed, ProcType
<1>3. ASSUME proc.item \in Item, NextItem
      PROVE  proc' \in ProcType /\ proc'.at = proc.at /\ proc'.run = proc.run
  BY <1>1, <1>3 DEF NextItem, ProcType, Item
<1>4. ASSUME NEW how \in {"returned", "killed"}, proc' = Gone(how)
      PROVE  proc' \in ProcType /\ proc'.at = how
  BY <1>1, <1>4 DEF Gone, ProcType
<1> QED
  BY <1>1, <1>2, <1>3, <1>4

(* A catch-up writes the one status that follows.                          *)
LEMMA CatchesUp ==
  ASSUME TypeOK, NEW i \in InFlight
  PROVE  /\ CatchUp[items[i].status] \in {"OBSERVED", "EXTRACTED", "COMMITTED"}
         /\ items[i].status = "CLAIMED" => CatchUp[items[i].status] = "OBSERVED"
  BY DEF InFlight, WithStatus, ClaimActive, CatchUp

-----------------------------------------------------------------------------
(* The steps that append to the item ledger.                               *)
Settle == \E i \in Item : Caught(i) \/ Parked(i) \/ Released(i)

(* What a restart writes for an item it finds in flight.                   *)
LEMMA SettleKeeps ==
  ASSUME DemoInv, Settle
  PROVE  DemoInv'
<1>1. PICK i \in Item : Caught(i) \/ Parked(i) \/ Released(i)
  BY DEF Settle
<1>2. /\ TypeOK /\ ~duplicate /\ SinkInv /\ WorkInv
      /\ proc.at = "reconcile" /\ proc.item = i /\ i \in Item
      /\ UNCHANGED <<sink, performer, duplicate>>
  BY <1>1 DEF DemoInv, Caught, Parked, Released, Visit
<1>3. PICK status \in ItemStatus : append(i, status, items[i].run, clock)
  BY <1>1, <1>2, CatchesUp DEF Caught, Parked, Released, ItemStatus, Successors
<1>4. items[i].run \in Run \cup {NoRun} /\ clock \in Time /\ items[i].status \in ItemStatus
  BY <1>2 DEF TypeOK, StoreTypeOK
<1>5. /\ items' \in [Item -> ItemType]
      /\ items'[i].run = items[i].run /\ items'[i].status = status
      /\ \A j \in Item : j # i => items'[j] = items[j]
      /\ UNCHANGED <<clock, manifest, batch, heartbeat, handoff>>
  BY <1>2, <1>3, <1>4, Moved DEF append
<1>6. proc' = proc \/ NextItem
  BY <1>1 DEF Caught, Parked, Released
<1>7. proc' \in ProcType /\ proc'.at = "reconcile" /\ proc'.run = proc.run
  BY <1>2, <1>6, ProcMoves
<1>8. TypeOK' /\ ~duplicate'
  BY <1>2, <1>5, <1>7 DEF TypeOK, StoreTypeOK, ProcType, ItemType
<1>9. SinkInv'
  <2>1. /\ status \in {"ABSENT", "DISCOVERED", "CLAIMED", "RETRYABLE"} => sink[i] = "none"
        /\ status \in {"EXTRACTED", "COMMITTED"} => sink[i] = "accepted"
        /\ status = "UNCERTAIN" => sink[i] = "pending"
    <3>1. CASE Caught(i)
      <4>1. sink[i] = "accepted" /\ i \in InFlight /\ append(i, CatchUp[items[i].status], items[i].run, clock)
        BY <3>1 DEF Caught
      <4>2. items[i].status # "CLAIMED" /\ CatchUp[items[i].status] \in {"OBSERVED", "EXTRACTED", "COMMITTED"}
        BY <1>2, <4>1, CatchesUp DEF SinkInv
      <4>3. items'[i].status = CatchUp[items[i].status]
        BY <1>2, <1>4, <4>1, <4>2, Moved DEF append, ItemStatus, Successors
      <4> QED
        BY <1>5, <4>1, <4>2, <4>3
    <3>2. CASE Parked(i)
      <4>1. items'[i].status = "UNCERTAIN" /\ sink[i] = "pending"
        BY <1>2, <1>4, <3>2, Moved DEF Parked, append, ItemStatus, Successors
      <4> QED
        BY <1>5, <4>1
    <3>3. CASE Released(i)
      <4>1. items'[i].status = "RETRYABLE" /\ sink[i] = "none"
        BY <1>2, <1>4, <3>3, Moved DEF Released, append, ItemStatus, Successors
      <4> QED
        BY <1>5, <4>1
    <3> QED
      BY <1>1, <3>1, <3>2, <3>3
  <2>2. sink[i] # "none" => performer[i] = items'[i].run
    BY <1>2, <1>5 DEF SinkInv
  <2> QED
    BY <1>2, <1>5, <2>1, <2>2 DEF SinkInv
<1>10. WorkInv'
  BY <1>2, <1>7 DEF WorkInv, Alive, me, WorkSteps, ItemSteps, ProcSteps
<1> QED
  BY <1>8, <1>9, <1>10 DEF DemoInv

(* The first entry of an item, while the campaign is prepared.             *)
LEMMA DiscoverKeeps ==
  ASSUME DemoInv, Discover
  PROVE  DemoInv'
<1>1. /\ TypeOK /\ ~duplicate /\ SinkInv /\ WorkInv
      /\ proc.at = "discover" /\ proc.item \in Item
      /\ UNCHANGED <<sink, performer, duplicate>>
  BY DEF DemoInv, Discover, WorkInv
<1>2. append(proc.item, "DISCOVERED", NoRun, clock) /\ clock \in Time
  BY <1>1 DEF Discover, TypeOK, StoreTypeOK
<1>3. /\ items' \in [Item -> ItemType]
      /\ items'[proc.item].status = "DISCOVERED"
      /\ \A j \in Item : j # proc.item => items'[j] = items[j]
      /\ "DISCOVERED" \in Successors[items[proc.item].status]
      /\ UNCHANGED <<clock, manifest, batch, heartbeat, handoff>>
  BY <1>1, <1>2, Moved DEF append, ItemStatus, Successors
<1>4. /\ proc' \in ProcType /\ proc'.run = proc.run
      /\ \/ proc'.at = "heartbeat"
         \/ proc'.at = "discover" /\ proc'.item \in Item
  <2>1. proc \in ProcType /\ N \in Nat \ {0}
    BY <1>1, ProcMoves, StoreAssumption
  <2>2. CASE proc.item = N
    <3>1. proc' = [proc EXCEPT !.item = 0, !.at = "heartbeat"]
      BY <1>1, <2>2 DEF Discover
    <3>2. 0 \in 0..(N + 1) /\ "heartbeat" \in ProcSteps
      BY <2>1 DEF ProcSteps
    <3> QED
      BY <2>1, <3>1, <3>2 DEF ProcType
  <2>3. CASE proc.item # N
    <3>1. proc' = [proc EXCEPT !.item = proc.item + 1]
      <4>1. proc' = [proc EXCEPT !.item = IF proc.item = N THEN 0 ELSE proc.item + 1,
                                 !.at = IF proc.item = N THEN "heartbeat" ELSE proc.at]
        BY DEF Discover
      <4> QED
        BY <2>1, <2>3, <4>1 DEF ProcType
    <3>2. proc.item + 1 \in Item /\ proc.item + 1 \in 0..(N + 1)
      BY <1>1, <2>1, <2>3 DEF Item
    <3> QED
      BY <1>1, <2>1, <3>1, <3>2 DEF ProcType, ProcSteps
  <2> QED
    BY <2>2, <2>3
<1>5. TypeOK' /\ ~duplicate'
  BY <1>1, <1>3, <1>4 DEF TypeOK, StoreTypeOK, ProcType, ItemType
<1>6. items[proc.item].status = "ABSENT"
  <2>1. \A s \in ItemStatus : "DISCOVERED" \in Successors[s] => s = "ABSENT"
    BY DEF Successors, ItemStatus
  <2> QED
    BY <1>1, <1>3, <2>1 DEF TypeOK, StoreTypeOK
<1>7. SinkInv'
  BY <1>1, <1>3, <1>6 DEF SinkInv
<1>8. WorkInv'
  BY <1>1, <1>4 DEF WorkInv, Alive, me, WorkSteps, ItemSteps, ProcSteps
<1> QED
  BY <1>5, <1>7, <1>8 DEF DemoInv

(* The appends of a batch that is being worked on.                         *)
BatchAppend == Claim \/ Observe \/ Extract \/ Commit

LEMMA AppendTyped ==
  ASSUME TypeOK, NEW i \in Item, NEW status \in ItemStatus, me \in Run, Append(i, status),
         proc' \in ProcType, UNCHANGED <<sink, performer, duplicate>>
  PROVE  /\ TypeOK'
         /\ items'[i].status = status /\ items'[i].run = me
         /\ \A j \in Item : j # i => items'[j] = items[j]
         /\ status \in Successors[items[i].status]
         /\ UNCHANGED <<manifest, batch, heartbeat, handoff>>
<1>1. now \in Time /\ clock' = now
  BY StoreAssumption DEF Append, now, TypeOK, StoreTypeOK, Time
<1>2. /\ items' \in [Item -> ItemType]
      /\ items'[i].status = status /\ items'[i].run = me
      /\ \A j \in Item : j # i => items'[j] = items[j]
      /\ status \in Successors[items[i].status]
  BY <1>1, Moved DEF Append
<1>3. UNCHANGED <<manifest, batch, heartbeat, handoff>>
  BY DEF Append
<1> QED
  BY <1>1, <1>2, <1>3 DEF TypeOK, StoreTypeOK, ProcType, ItemType

LEMMA BatchAppendKeeps ==
  ASSUME DemoInv, BatchAppend
  PROVE  DemoInv'
<1>1. /\ TypeOK /\ ~duplicate /\ SinkInv /\ WorkInv /\ me \in Run
      /\ UNCHANGED <<sink, performer, duplicate>>
  BY DEF DemoInv, BatchAppend, Claim, Observe, Extract, Commit, Proceed, WorkInv, Alive, ProcSteps, WorkSteps
<1>2. {"CLAIMED", "OBSERVED", "EXTRACTED", "COMMITTED"} \subseteq ItemStatus
  BY DEF ItemStatus, Successors
<1>3. WorkSteps \subseteq ProcSteps
  BY DEF ProcSteps
<1>4. CASE Claim
  <2>1. PICK i \in Item : /\ i \in Eligible /\ Append(i, "CLAIMED")
                          /\ proc' = [proc EXCEPT !.at = "beat", !.item = i]
    BY <1>4 DEF Claim, IsFirstEligible
  <2>2. proc' \in ProcType /\ proc'.at = "beat" /\ proc'.item = i /\ proc'.run = proc.run
    <3>1. proc \in ProcType /\ i \in 0..(N + 1)
      BY <1>1, ProcMoves, StoreAssumption DEF Item
    <3> QED
      BY <2>1, <3>1 DEF ProcType, ProcSteps, WorkSteps
  <2>3. /\ TypeOK' /\ items'[i].status = "CLAIMED" /\ items'[i].run = me
        /\ \A j \in Item : j # i => items'[j] = items[j]
        /\ UNCHANGED <<batch, heartbeat>>
    BY <1>1, <1>2, <2>1, <2>2, AppendTyped
  <2>4. sink[i] = "none"
    BY <1>1, <2>1 DEF Eligible, WithStatus, SinkInv
  <2>5. SinkInv'
    BY <1>1, <2>3, <2>4 DEF SinkInv
  <2>6. heartbeat.run = me /\ batch.active /\ batch.run = me
    BY <1>4 DEF Claim, ClaimReady, OwnsBatch
  <2>7. WorkInv'
    BY <1>1, <2>2, <2>3, <2>6 DEF WorkInv, Alive, me, WorkSteps, ItemSteps, ProcSteps
  <2> QED
    BY <1>1, <2>3, <2>5, <2>7 DEF DemoInv
<1>5. CASE Observe
  <2>1. /\ proc.at = "observe" /\ proc.item \in Item /\ Append(proc.item, "OBSERVED")
        /\ items[proc.item].status = "CLAIMED" /\ items[proc.item].run = me
        /\ heartbeat.run = me /\ batch.active /\ batch.run = me
    BY <1>1, <1>5 DEF Observe, OnlyInFlight, OwnsBatch, WorkInv, ItemSteps, WorkSteps
  <2>2. proc' \in ProcType /\ proc'.at = "dispatch" /\ proc'.item = proc.item /\ proc'.run = proc.run
    BY <1>1, <1>5, ProcMoves DEF Observe, ProcSteps, WorkSteps
  <2>3. /\ TypeOK' /\ items'[proc.item].status = "OBSERVED" /\ items'[proc.item].run = me
        /\ \A j \in Item : j # proc.item => items'[j] = items[j]
        /\ UNCHANGED <<batch, heartbeat>>
    BY <1>1, <1>2, <2>1, <2>2, AppendTyped
  <2>4. SinkInv' /\ sink[proc.item] = "none"
    BY <1>1, <2>1, <2>3 DEF SinkInv
  <2>5. WorkInv'
    BY <1>1, <2>1, <2>2, <2>3, <2>4 DEF WorkInv, Alive, me, WorkSteps, ItemSteps, ProcSteps
  <2> QED
    BY <1>1, <2>3, <2>4, <2>5 DEF DemoInv
<1>6. CASE Extract
  <2>1. /\ proc.at = "extract" /\ proc.item \in Item /\ Append(proc.item, "EXTRACTED")
        /\ items[proc.item].status = "OBSERVED" /\ items[proc.item].run = me
        /\ sink[proc.item] = "accepted"
        /\ heartbeat.run = me /\ batch.active /\ batch.run = me
    BY <1>1, <1>6 DEF Extract, OnlyInFlight, OwnsBatch, WorkInv, ItemSteps, WorkSteps
  <2>2. proc' \in ProcType /\ proc'.at = "commit" /\ proc'.item = proc.item /\ proc'.run = proc.run
    BY <1>1, <1>6, ProcMoves DEF Extract, ProcSteps, WorkSteps
  <2>3. /\ TypeOK' /\ items'[proc.item].status = "EXTRACTED" /\ items'[proc.item].run = me
        /\ \A j \in Item : j # proc.item => items'[j] = items[j]
        /\ UNCHANGED <<batch, heartbeat>>
    BY <1>1, <1>2, <2>1, <2>2, AppendTyped
  <2>4. SinkInv'
    BY <1>1, <2>1, <2>3 DEF SinkInv
  <2>5. WorkInv'
    BY <1>1, <2>1, <2>2, <2>3 DEF WorkInv, Alive, me, WorkSteps, ItemSteps, ProcSteps
  <2> QED
    BY <1>1, <2>3, <2>4, <2>5 DEF DemoInv
<1>7. CASE Commit
  <2>1. /\ proc.at = "commit" /\ proc.item \in Item /\ Append(proc.item, "COMMITTED")
        /\ items[proc.item].status = "EXTRACTED" /\ items[proc.item].run = me
        /\ batch.active /\ batch.run = me
    BY <1>1, <1>7 DEF Commit, OnlyInFlight, OwnsBatch, WorkInv, ItemSteps, WorkSteps
  <2>2. proc' \in ProcType /\ proc'.at = "claim" /\ proc'.run = proc.run
    BY <1>1, <1>7, ProcMoves DEF Commit, ProcSteps, WorkSteps
  <2>3. /\ TypeOK' /\ items'[proc.item].status = "COMMITTED" /\ items'[proc.item].run = me
        /\ \A j \in Item : j # proc.item => items'[j] = items[j]
        /\ UNCHANGED <<batch, heartbeat>>
    BY <1>1, <1>2, <2>1, <2>2, AppendTyped
  <2>4. SinkInv'
    BY <1>1, <2>1, <2>3 DEF SinkInv
  <2>5. WorkInv'
    BY <1>1, <2>1, <2>2, <2>3 DEF WorkInv, Alive, me, WorkSteps, ItemSteps, ProcSteps
  <2> QED
    BY <1>1, <2>3, <2>4, <2>5 DEF DemoInv
<1> QED
  BY <1>4, <1>5, <1>6, <1>7 DEF BatchAppend

-----------------------------------------------------------------------------
(* The steps that leave the item ledger and the sink alone.                *)
OwnerStep == FirstHeartbeat \/ CloseBatch \/ TakeHeartbeat \/ OpenBatch \/ Beat

LEMMA SinkKept ==
  ASSUME SinkInv, UNCHANGED <<items, sink, performer>>
  PROVE  SinkInv'
  BY DEF SinkInv

LEMMA OwnerStepKeeps ==
  ASSUME DemoInv, OwnerStep
  PROVE  DemoInv'
<1>1. /\ TypeOK /\ ~duplicate /\ SinkInv /\ WorkInv
      /\ proc \in ProcType /\ proc.run = me /\ me \in Run
  BY DEF DemoInv, OwnerStep, FirstHeartbeat, CloseBatch, TakeHeartbeat, OpenBatch, Beat,
         WorkInv, Alive, ProcSteps, WorkSteps, me, TypeOK, ProcType
<1>2. LeaseTime \in Nat /\ MaxTime \in Nat /\ clock \in Time
  BY <1>1, StoreAssumption DEF TypeOK, StoreTypeOK
<1>3. ASSUME NEW r \in Run, PutHeartbeat(r, clock + LeaseTime), proc' \in ProcType,
             UNCHANGED <<sink, performer, duplicate>>
      PROVE  TypeOK' /\ SinkInv' /\ heartbeat'.run = r /\ UNCHANGED <<items, batch>>
  <2>1. clock + LeaseTime \in 0..(MaxTime + LeaseTime)
    BY <1>2 DEF Time
  <2>2. TypeOK' /\ heartbeat'.run = r
    BY <1>1, <1>3, <2>1 DEF PutHeartbeat, TypeOK, StoreTypeOK, ProcType
  <2> QED
    BY <1>1, <1>3, <2>2, SinkKept DEF PutHeartbeat
<1>4. ASSUME UNCHANGED storeVars, proc' \in ProcType, UNCHANGED <<sink, performer, duplicate>>
      PROVE  TypeOK' /\ SinkInv'
  <2>1. TypeOK'
    BY <1>1, <1>4 DEF storeVars, TypeOK, StoreTypeOK, ProcType
  <2> QED
    BY <1>1, <1>4, <2>1, SinkKept DEF storeVars
<1>5. CASE FirstHeartbeat \/ TakeHeartbeat
  <2>1. proc' \in ProcType /\ proc'.at = "open" /\ proc'.run = me
        /\ UNCHANGED <<sink, performer, duplicate>>
    BY <1>1, <1>5, ProcMoves DEF FirstHeartbeat, TakeHeartbeat, ProcSteps, Proceed, me
  <2>2. UNCHANGED storeVars \/ PutHeartbeat(me, clock + LeaseTime)
    BY <1>5 DEF FirstHeartbeat, TakeHeartbeat, write_heartbeat, recover_stale_heartbeat
  <2>3. TypeOK' /\ SinkInv'
    BY <1>1, <1>3, <1>4, <2>1, <2>2
  <2>4. WorkInv'
    BY <1>1, <2>1 DEF WorkInv, Alive, me, WorkSteps, ItemSteps, ProcSteps
  <2> QED
    BY <1>1, <2>1, <2>3, <2>4 DEF DemoInv
<1>6. CASE CloseBatch
  <2>1. proc' \in ProcType /\ proc'.at = "recover" /\ proc'.run = me
        /\ UNCHANGED <<sink, performer, duplicate>>
    BY <1>1, <1>6, ProcMoves DEF CloseBatch, ProcSteps, Proceed, me
  <2>2. UNCHANGED storeVars \/ AppendFinished(batch.run)
    BY <1>6 DEF CloseBatch
  <2>3. TypeOK' /\ SinkInv'
    <3>1. CASE AppendFinished(batch.run)
      BY <1>1, <2>1, <3>1, SinkKept DEF AppendFinished, TypeOK, StoreTypeOK, ProcType
    <3> QED
      BY <1>4, <2>1, <2>2, <3>1
  <2>4. WorkInv'
    BY <1>1, <2>1 DEF WorkInv, Alive, me, WorkSteps, ItemSteps, ProcSteps
  <2> QED
    BY <1>1, <2>1, <2>3, <2>4 DEF DemoInv
<1>7. CASE OpenBatch
  <2>1. /\ AppendStarted(me) /\ UNCHANGED <<sink, performer, duplicate>>
        /\ proc' = [proc EXCEPT !.at = "claim", !.plan = Eligible]
    BY <1>7 DEF OpenBatch
  <2>2. proc' \in ProcType /\ proc'.at = "claim" /\ proc'.run = me
    BY <1>1, <2>1 DEF ProcType, ProcSteps, WorkSteps, Eligible, WithStatus
  <2>3. batch'.active /\ batch'.run = me /\ UNCHANGED <<clock, manifest, items, heartbeat, handoff>>
        /\ batch' \in [run : Run \cup {NoRun}, active : BOOLEAN, ids : SUBSET Run]
    BY <1>1, <2>1 DEF AppendStarted, TypeOK, StoreTypeOK
  <2>4. TypeOK' /\ SinkInv'
    BY <1>1, <2>1, <2>2, <2>3, SinkKept DEF TypeOK, StoreTypeOK, ProcType
  <2>5. WorkInv'
    BY <1>1, <2>2, <2>3 DEF WorkInv, Alive, me, WorkSteps, ItemSteps, ProcSteps
  <2> QED
    BY <1>1, <2>1, <2>4, <2>5 DEF DemoInv
<1>8. CASE Beat
  <2>1. /\ proc.at = "beat" /\ heartbeat.run = me /\ proc.item \in Item
        /\ UNCHANGED <<sink, performer, duplicate>>
        /\ proc' \in ProcType /\ proc'.at = "observe"
        /\ proc'.run = me /\ proc'.item = proc.item
    BY <1>1, <1>8, ProcMoves DEF Beat, ProcSteps, WorkSteps, ItemSteps, Proceed, me, WorkInv
  <2>2. TypeOK' /\ SinkInv' /\ heartbeat'.run = me /\ UNCHANGED <<items, batch>>
    BY <1>1, <1>3, <1>8, <2>1 DEF Beat, write_heartbeat
  <2>3. WorkInv'
    BY <1>1, <2>1, <2>2 DEF WorkInv, Alive, me, WorkSteps, ItemSteps, ProcSteps
  <2> QED
    BY <1>1, <2>1, <2>2, <2>3 DEF DemoInv
<1> QED
  BY <1>5, <1>6, <1>7, <1>8 DEF OwnerStep

(* A process starts, goes on to the next item, stops, or is killed.        *)
LEMMA StartKeeps ==
  ASSUME DemoInv, NEW r \in Run, Prepare(r) \/ Restart(r)
  PROVE  DemoInv'
<1>1. /\ TypeOK /\ ~duplicate /\ SinkInv /\ N \in Nat \ {0}
      /\ UNCHANGED <<items, batch, heartbeat, handoff, clock, sink, performer, duplicate>>
  BY StoreAssumption DEF DemoInv, Prepare, Restart, storeVars, create, WriteManifest
<1>2. /\ proc' \in ProcType /\ proc'.run \in Run
      /\ proc'.at \in {"discover", "reconcile"} /\ proc'.item \in Item
  BY <1>1 DEF Prepare, Restart, ProcType, ProcSteps, Item
<1>3. manifest' \in [status : CampaignStatus, at : Time]
  BY <1>1 DEF Prepare, Restart, storeVars, create, WriteManifest, TypeOK, StoreTypeOK, CampaignStatus
<1>4. TypeOK' /\ SinkInv'
  BY <1>1, <1>2, <1>3, SinkKept DEF TypeOK, StoreTypeOK, ProcType
<1>5. WorkInv'
  BY <1>2 DEF WorkInv, Alive, me, WorkSteps, ItemSteps, ProcSteps
<1> QED
  BY <1>1, <1>4, <1>5 DEF DemoInv

PassBy ==
    \/ \E i \in Item : Left(i)
    \/ Reconciled \/ TakeoverBlocked \/ NoBatch \/ EndOfRun \/ Kill \/ Second

LEMMA PassByKeeps ==
  ASSUME DemoInv, PassBy
  PROVE  DemoInv'
<1>1. /\ TypeOK /\ ~duplicate /\ SinkInv /\ WorkInv /\ proc \in ProcType
      /\ UNCHANGED <<sink, performer, duplicate>>
  BY DEF DemoInv, PassBy, Left, Reconciled, TakeoverBlocked, NoBatch, EndOfRun, Kill, Second,
         Proceed, Return, demoVars, TypeOK, ProcType
<1>2. UNCHANGED <<manifest, items, batch, heartbeat, handoff>> /\ clock' \in Time
  BY <1>1, StoreAssumption DEF PassBy, Left, Reconciled, TakeoverBlocked, NoBatch, EndOfRun,
     Kill, Second, Tick, storeVars, TypeOK, StoreTypeOK, Time
<1>3. /\ proc' \in ProcType
      /\ \/ proc'.at \in {"returned", "killed"} \/ (proc' = proc /\ ~Alive)
         \/ proc'.at \in {"reconcile", "close"} /\ proc'.run = proc.run /\ Alive
  <2>1. ASSUME NEW i \in Item, Left(i)
        PROVE  proc' \in ProcType /\ proc'.at = "reconcile" /\ proc'.run = proc.run /\ Alive
    BY <1>1, <2>1, ProcMoves DEF Left, Visit, Alive, ProcSteps
  <2>2. CASE Reconciled
    BY <1>1, <2>2, ProcMoves DEF Reconciled, Visit, Alive, ProcSteps
  <2>3. CASE TakeoverBlocked \/ NoBatch \/ EndOfRun \/ Kill
    BY <1>1, <2>3, ProcMoves DEF TakeoverBlocked, NoBatch, EndOfRun, Kill, Return
  <2>4. CASE Second
    BY <1>1, <2>4 DEF Second, demoVars
  <2> QED
    BY <2>1, <2>2, <2>3, <2>4 DEF PassBy
<1>4. TypeOK' /\ SinkInv'
  BY <1>1, <1>2, <1>3, SinkKept DEF TypeOK, StoreTypeOK, ProcType
<1>5. WorkInv'
  BY <1>1, <1>3 DEF WorkInv, Alive, me, WorkSteps, ItemSteps, ProcSteps
<1> QED
  BY <1>1, <1>4, <1>5 DEF DemoInv

-----------------------------------------------------------------------------
(* The two steps that touch the sink: the process owns the claim, so a     *)
(* dispatch always finds a key that nobody has used.                       *)
SinkStep == Dispatch \/ Effect

LEMMA SinkStepKeeps ==
  ASSUME DemoInv, SinkStep
  PROVE  DemoInv'
<1>1. /\ TypeOK /\ ~duplicate /\ SinkInv /\ WorkInv /\ proc \in ProcType
      /\ proc.item \in Item /\ me \in Run /\ proc.run = me
      /\ items[proc.item].status = "OBSERVED" /\ items[proc.item].run = me
      /\ proc.at \in ItemSteps
      /\ UNCHANGED storeVars
  BY DEF DemoInv, SinkStep, Dispatch, Effect, WorkInv, ItemSteps, WorkSteps, ProcSteps, Alive,
         me, TypeOK, ProcType
<1>2. CASE Dispatch
  <2>1. /\ sink' = [sink EXCEPT ![proc.item] = "pending"]
        /\ performer' = [performer EXCEPT ![proc.item] = me]
        /\ proc' = [proc EXCEPT !.at = "effect"]
        /\ duplicate' = duplicate
    BY <1>1, <1>2 DEF Dispatch, WorkInv
  <2>2. /\ proc' \in ProcType /\ proc'.at = "effect"
        /\ proc'.run = me /\ proc'.item = proc.item
    BY <1>1, <2>1 DEF ProcType, ProcSteps, WorkSteps
  <2>3. TypeOK'
    BY <1>1, <2>1, <2>2 DEF TypeOK, StoreTypeOK, storeVars, ProcType
  <2>4. SinkInv' /\ sink'[proc.item] = "pending"
    BY <1>1, <2>1 DEF SinkInv, storeVars, TypeOK
  <2>5. WorkInv'
    BY <1>1, <2>2, <2>4 DEF WorkInv, Alive, me, WorkSteps, ItemSteps, ProcSteps, storeVars
  <2> QED
    BY <1>1, <2>1, <2>3, <2>4, <2>5 DEF DemoInv
<1>3. CASE Effect
  <2>1. /\ sink' = [sink EXCEPT ![proc.item] = "accepted"]
        /\ proc' = [proc EXCEPT !.at = "extract"]
        /\ UNCHANGED <<performer, duplicate>>
        /\ sink[proc.item] = "pending"
    BY <1>1, <1>3 DEF Effect, WorkInv
  <2>2. /\ proc' \in ProcType /\ proc'.at = "extract"
        /\ proc'.run = me /\ proc'.item = proc.item
    BY <1>1, <2>1 DEF ProcType, ProcSteps, WorkSteps
  <2>3. TypeOK'
    BY <1>1, <2>1, <2>2 DEF TypeOK, StoreTypeOK, storeVars, ProcType
  <2>4. SinkInv' /\ sink'[proc.item] = "accepted"
    BY <1>1, <2>1 DEF SinkInv, storeVars, TypeOK
  <2>5. WorkInv'
    BY <1>1, <2>2, <2>4 DEF WorkInv, Alive, me, WorkSteps, ItemSteps, ProcSteps, storeVars
  <2> QED
    BY <1>1, <2>1, <2>3, <2>4, <2>5 DEF DemoInv
<1> QED
  BY <1>2, <1>3 DEF SinkStep

-----------------------------------------------------------------------------
LEMMA InitInv ==
  ASSUME Init
  PROVE  DemoInv
<1> USE StoreAssumption
<1>1. SinkInv /\ WorkInv /\ ~duplicate
  BY DEF Init, StoreInit, Gone, SinkInv, WorkInv, Alive, WorkSteps, ItemSteps, ProcSteps
<1>2. handoff.view \in View
  <2>1. Ledger = {} /\ WithStatus({"COMMITTED"}) = {} /\ WithStatus({"RETRYABLE"}) = {}
        /\ WithStatus({"UNCERTAIN"}) = {}
    BY DEF Init, StoreInit, Ledger, WithStatus
  <2>2. Cardinality({}) = 0
    BY FS_EmptySet
  <2>3. NextOrdinal = 1
    BY <2>1, <2>2 DEF NextOrdinal
  <2> QED
    <3>1. handoff.view = LedgerView /\ manifest.status = "ABSENT" /\ N \in Nat \ {0}
      BY DEF Init, StoreInit
    <3>2. LedgerView = [status |-> "ABSENT", next |-> 1, completed |-> 0,
                        retryable |-> 0, uncertain |-> 0]
      BY <2>1, <2>2, <2>3, <3>1 DEF LedgerView
    <3>3. 1 \in 1..(N + 1) /\ 0 \in 0..N
      BY <3>1
    <3> QED
      BY <3>1, <3>2, <3>3 DEF View, CampaignStatus
<1>3. StoreTypeOK
  BY <1>2 DEF Init, StoreInit, StoreTypeOK, CampaignStatus, ItemStatus, Successors, Time
<1>4. TypeOK
  <2>1. 0 \in 0..(N + 1)
    OBVIOUS
  <2> QED
    BY <1>3, <2>1 DEF Init, TypeOK, Gone
<1> QED
  BY <1>1, <1>4 DEF DemoInv

LEMMA StepKeeps ==
  ASSUME DemoInv, [Next]_vars
  PROVE  DemoInv'
<1>1. CASE ProcStep
  <2>1. \/ Settle \/ Discover \/ BatchAppend \/ OwnerStep \/ SinkStep \/ PassBy
    BY <1>1 DEF ProcStep, Settle, BatchAppend, OwnerStep, SinkStep, PassBy
  <2> QED
    BY <2>1, SettleKeeps, DiscoverKeeps, BatchAppendKeeps, OwnerStepKeeps, SinkStepKeeps, PassByKeeps
<1>2. ASSUME NEW r \in Run, Prepare(r) \/ Restart(r) PROVE DemoInv'
  BY <1>2, StartKeeps
<1>3. CASE Kill \/ Second
  BY <1>3, PassByKeeps DEF PassBy
<1>4. CASE UNCHANGED vars
  BY <1>4 DEF vars, storeVars, demoVars, DemoInv, TypeOK, StoreTypeOK, SinkInv, WorkInv, Alive, me
<1> QED
  BY <1>1, <1>2, <1>3, <1>4 DEF Next

(* However often the process is killed and restarted, the ledger and the   *)
(* sink stay in step (run_demo_campaign, reconcile_after_restart).         *)
THEOREM DemoInvariant == Spec => []DemoInv
  BY InitInv, StepKeeps, PTL DEF Spec

(* No effect is dispatched twice, the ledger never says more than the sink *)
(* and credits the run that acted (reconcile_after_restart).               *)
THEOREM EffectsAreAccounted == Spec => []EffectsAccounted
<1>1. ASSUME DemoInv PROVE EffectsAccounted
  <2>1. LedgerBacked
    BY <1>1 DEF DemoInv, SinkInv, LedgerBacked
  <2>2. CreditedToPerformer
    BY <1>1 DEF DemoInv, SinkInv, CreditedToPerformer, WithStatus
  <2> QED
    BY <1>1, <2>1, <2>2 DEF EffectsAccounted, DemoInv, NoDuplicateDispatch
<1> QED
  BY <1>1, DemoInvariant, PTL

(* Only the owner of the claim, of the batch and of the heartbeat touches  *)
(* the sink (_take_over_from_dead_owner, recover_stale_heartbeat).         *)
THEOREM OwnerDispatches == Spec => DispatchedByOwner
<1> DEFINE Owned == \A i \in Item : sink'[i] # sink[i] =>
                       /\ items[i].run = me
                       /\ batch.active /\ batch.run = me
                       /\ heartbeat.run = me
<1>1. ASSUME DemoInv, [Next]_vars PROVE [Owned]_vars
  <2>1. CASE SinkStep
    <3>1. /\ proc.item \in Item /\ items[proc.item].run = me
          /\ batch.active /\ batch.run = me /\ heartbeat.run = me
      BY <1>1, <2>1 DEF DemoInv, WorkInv, SinkStep, Dispatch, Effect, ItemSteps, WorkSteps
    <3>2. \A i \in Item : i # proc.item => sink'[i] = sink[i]
      BY <1>1, <2>1 DEF DemoInv, TypeOK, SinkStep, Dispatch, Effect
    <3> QED
      BY <3>1, <3>2
  <2>2. CASE ~SinkStep
    <3>1. sink' = sink
      BY <1>1, <2>2 DEF Next, ProcStep, SinkStep, Discover, FirstHeartbeat, Caught, Parked, Released,
         Left, Reconciled, CloseBatch, TakeHeartbeat, TakeoverBlocked, OpenBatch, NoBatch, Claim,
         EndOfRun, Beat, Observe, Extract, Commit, Prepare, Restart, Kill, Second, Proceed, Return,
         vars, demoVars
    <3> QED
      BY <3>1
  <2> QED
    BY <2>1, <2>2
<1> QED
  BY <1>1, DemoInvariant, PTL DEF Spec, DispatchedByOwner

=============================================================================
