--------------------------- MODULE RunControlProofs --------------------------
(***************************************************************************)
(* The theorems about RunLock, for any set of instances and either kind of *)
(* operating-system lock, and about CooperativeControl, for any number of  *)
(* runs, of operator commands and of requests.                             *)
(***************************************************************************)
EXTENDS RunLock, CooperativeControl, TLAPS

-----------------------------------------------------------------------------
(* The lock file (RunLock).                                                *)

(* The variables of RunLock keep their types.                              *)
THEOREM LockTypesHold == LockSpec => []LockTypes
<1>1. LockInit => LockTypes
  BY DEF LockInit, LockTypes, LockSteps, Markers
<1>2. LockTypes /\ [LockNext]_lockVars => LockTypes'
  <2> SUFFICES ASSUME LockTypes, [LockNext]_lockVars PROVE LockTypes'
    OBVIOUS
  <2> USE DEF LockTypes, LockSteps, Markers
  <2>1. CASE UNCHANGED lockVars
    BY <2>1 DEF lockVars
  <2>2. ASSUME NEW p \in Proc, Open(p) PROVE LockTypes'
    BY <2>2 DEF Open
  <2>3. ASSUME NEW p \in Proc, Stat(p) PROVE LockTypes'
    BY <2>3 DEF Stat, StepTo
  <2>4. ASSUME NEW p \in Proc, Fill(p) PROVE LockTypes'
    BY <2>4 DEF Fill, StepTo, Leave, WithSentinel
  <2>5. ASSUME NEW p \in Proc, Lock(p) PROVE LockTypes'
    BY <2>5 DEF Lock, StepTo, Leave
  <2>6. ASSUME NEW p \in Proc, Check(p) PROVE LockTypes'
    BY <2>6 DEF Check, StepTo, Leave
  <2>7. ASSUME NEW p \in Proc, WriteOwner(p) PROVE LockTypes'
    BY <2>7 DEF WriteOwner
  <2>8. ASSUME NEW p \in Proc, BeginRelease(p) PROVE LockTypes'
    BY <2>8 DEF BeginRelease, StepTo, Leave
  <2>9. ASSUME NEW p \in Proc, WriteReleased(p) PROVE LockTypes'
    BY <2>9 DEF WriteReleased, StepTo, ReleasedPayload
  <2>10. ASSUME NEW p \in Proc, EndRelease(p) PROVE LockTypes'
    BY <2>10 DEF EndRelease, Leave
  <2>11. ASSUME NEW p \in Proc, Probe(p) PROVE LockTypes'
    BY <2>11 DEF Probe, StepTo
  <2>12. ASSUME NEW p \in Proc, EndProbe(p) PROVE LockTypes'
    BY <2>12 DEF EndProbe, Leave
  <2>13. ASSUME NEW p \in Proc, Die(p) PROVE LockTypes'
    BY <2>13 DEF Die, Leave
  <2> QED
    BY <2>1, <2>2, <2>3, <2>4, <2>5, <2>6, <2>7, <2>8, <2>9, <2>10, <2>11,
       <2>12, <2>13 DEF LockNext
<1> QED
  BY <1>1, <1>2, PTL DEF LockSpec

-----------------------------------------------------------------------------
LEMMA InitLockInv == LockInit => LockInv
  BY RunLockAssumption
  DEF LockInit, LockInv, Protected, Judging, Leasing, Markers

(* One step of one instance keeps LockInv.                                 *)
LEMMA NextLockInv ==
  ASSUME LockTypes, LockInv, [LockNext]_lockVars
  PROVE  LockInv'
<1> USE RunLockAssumption DEF LockTypes, LockInv, Protected, Judging, Leasing,
        Markers, LockSteps
<1>1. CASE UNCHANGED lockVars
  BY <1>1 DEF lockVars
<1>2. ASSUME NEW p \in Proc, Open(p) PROVE LockInv'
  BY <1>2, ZenonT(60) DEF Open
<1>3. ASSUME NEW p \in Proc, Stat(p) PROVE LockInv'
  BY <1>3 DEF Stat, StepTo
<1>4. ASSUME NEW p \in Proc, Fill(p) PROVE LockInv'
  BY <1>4 DEF Fill, StepTo, Leave, WithSentinel
<1>5. ASSUME NEW p \in Proc, Lock(p) PROVE LockInv'
  BY <1>5 DEF Lock, StepTo, Leave, OsLockFree
<1>6. ASSUME NEW p \in Proc, Check(p) PROVE LockInv'
  BY <1>6 DEF Check, StepTo, Leave, AcceptsPayload
<1>7. ASSUME NEW p \in Proc, WriteOwner(p) PROVE LockInv'
  BY <1>7 DEF WriteOwner
<1>8. ASSUME NEW p \in Proc, BeginRelease(p) PROVE LockInv'
  BY <1>8 DEF BeginRelease, StepTo, Leave
<1>9. ASSUME NEW p \in Proc, WriteReleased(p) PROVE LockInv'
  BY <1>9 DEF WriteReleased, StepTo, ReleasedPayload
<1>10. ASSUME NEW p \in Proc, EndRelease(p) PROVE LockInv'
  BY <1>10 DEF EndRelease, Leave
<1>11. ASSUME NEW p \in Proc, Probe(p) PROVE LockInv'
  BY <1>11 DEF Probe, StepTo
<1>12. ASSUME NEW p \in Proc, EndProbe(p) PROVE LockInv'
  BY <1>12 DEF EndProbe, Leave
<1>13. ASSUME NEW p \in Proc, Die(p) PROVE LockInv'
  BY <1>13 DEF Die, Leave
<1> QED
  BY <1>1, <1>2, <1>3, <1>4, <1>5, <1>6, <1>7, <1>8, <1>9, <1>10, <1>11,
     <1>12, <1>13 DEF LockNext

(* The OS lock and the content of the file stay related as LockInv says.   *)
THEOREM LockInvariant == LockSpec => []LockInv
<1>1. LockTypes /\ LockInv /\ [LockNext]_lockVars => LockInv'
  BY NextLockInv
<1> QED
  BY InitLockInv, <1>1, LockTypesHold, PTL DEF LockSpec

(* At most one instance has acquired the lock (RunLock.acquire).           *)
THEOREM MutualExclusionHolds == LockSpec => []MutualExclusion
<1>1. LockTypes /\ LockInv => MutualExclusion
  BY DEF LockTypes, LockInv, MutualExclusion, Acquired, Protected
<1> QED
  BY <1>1, LockTypesHold, LockInvariant, PTL

-----------------------------------------------------------------------------
(* Holder is the one instance whose lease runs.                            *)
LEMMA HolderUnique ==
  ASSUME LockTypes, LockInv
  PROVE  /\ \A p \in Proc : Holding(p) <=> Holder = p
         /\ (\A p \in Proc : ~Holding(p)) <=> Holder = NoOne
<1>1. \A p, q \in Proc : Holding(p) /\ Holding(q) => p = q
  BY DEF LockTypes, LockInv, Holding, Protected
<1> QED
  BY <1>1, RunLockAssumption DEF Holder

(* Every step of the lock is a step of the lease or leaves it unchanged.   *)
LEMMA StepImplementsLease ==
  ASSUME LockTypes, LockInv, LockTypes', LockInv', [LockNext]_lockVars
  PROVE  [Lease!LeaseNext]_(Lease!leaseVars)
<1>a. /\ \A q \in Proc : Holding(q) <=> Holder = q
      /\ (\A q \in Proc : ~Holding(q)) <=> Holder = NoOne
  BY HolderUnique
<1>b. /\ \A q \in Proc : Holding(q)' <=> Holder' = q
      /\ (\A q \in Proc : ~Holding(q)') <=> Holder' = NoOne
  <2>1. \A p, q \in Proc : Holding(p)' /\ Holding(q)' => p = q
    BY DEF LockTypes, LockInv, Holding, Protected
  <2> QED
    BY <2>1, RunLockAssumption DEF Holder
<1>c. Holder \in Proc \cup {NoOne} /\ Holder' \in Proc \cup {NoOne}
  BY <1>a, <1>b
<1> DEFINE SameHolding == \A q \in Proc : Holding(q)' <=> Holding(q)
<1>d. SameHolding => Holder' = Holder
  BY <1>a, <1>b, <1>c
<1> USE RunLockAssumption DEF LockTypes, LockSteps
<1>1. CASE UNCHANGED lockVars
  BY <1>1, <1>d DEF lockVars, Holding, Lease!leaseVars
<1>2. ASSUME NEW p \in Proc, Open(p) PROVE Lease!Consent(p)
  <2>1. SameHolding /\ ~Holding(p)
    BY <1>2 DEF Open, Holding
  <2> QED
    BY <1>2, <2>1, <1>a, <1>d DEF Open, Lease!Consent
<1>3. ASSUME NEW p \in Proc, Stat(p) PROVE UNCHANGED Lease!leaseVars
  <2>1. SameHolding
    BY <1>3 DEF Stat, StepTo, Holding
  <2> QED
    BY <1>3, <2>1, <1>d DEF Stat, StepTo, Lease!leaseVars
<1>4. ASSUME NEW p \in Proc, Fill(p) \/ Lock(p) \/ Check(p)
      PROVE  Lease!Consent(p)
  <2>1. SameHolding /\ ~Holding(p)
    BY <1>4 DEF Fill, Lock, Check, StepTo, Leave, Holding
  <2>2. /\ UNCHANGED outstanding
        /\ \E r \in BOOLEAN : recover' = [recover EXCEPT ![p] = r]
    <3>1. CASE UNCHANGED recover
      BY <1>4, <3>1 DEF Fill, Lock, Check
    <3>2. CASE recover' = [recover EXCEPT ![p] = FALSE]
      BY <1>4, <3>2 DEF Fill, Lock, Check
    <3> QED
      BY <1>4, <3>1, <3>2 DEF Fill, Lock, Check, StepTo, Leave
  <2> QED
    BY <2>1, <2>2, <1>a, <1>d DEF Lease!Consent
<1>5. ASSUME NEW p \in Proc, WriteOwner(p) PROVE Lease!Grant(p)
  <2>1. \A q \in Proc : ~Holding(q)
    BY <1>5 DEF WriteOwner, Holding, LockInv, Protected
  <2>2. Holding(p)'
    BY <1>5 DEF WriteOwner, Holding
  <2> QED
    BY <1>5, <2>1, <2>2, <1>a, <1>b DEF WriteOwner, LockInv, Lease!Grant
<1>6. ASSUME NEW p \in Proc, BeginRelease(p)
      PROVE  Lease!Abandon(p) \/ UNCHANGED Lease!leaseVars
  <2>1. CASE file = p
    <3>1. SameHolding
      BY <1>6, <2>1 DEF BeginRelease, StepTo, Holding
    <3> QED
      BY <1>6, <2>1, <3>1, <1>d DEF BeginRelease, StepTo, Lease!leaseVars
  <2>2. CASE file # p
    <3>1. Holding(p) /\ \A q \in Proc : ~Holding(q)'
      BY <1>6, <2>2 DEF BeginRelease, Leave, Holding, LockInv, Protected
    <3> QED
      BY <1>6, <2>2, <3>1, <1>a, <1>b DEF BeginRelease, Leave, Lease!Abandon
  <2> QED
    BY <2>1, <2>2
<1>7. ASSUME NEW p \in Proc, WriteReleased(p) PROVE Lease!Release(p)
  <2>1. Holding(p) /\ \A q \in Proc : ~Holding(q)'
    BY <1>7 DEF WriteReleased, StepTo, Holding, LockInv, Protected
  <2> QED
    BY <1>7, <2>1, <1>a, <1>b DEF WriteReleased, StepTo, Lease!Release
<1>8. ASSUME NEW p \in Proc, EndRelease(p) \/ EndProbe(p) PROVE Lease!Consent(p)
  <2>1. SameHolding /\ ~Holding(p)
    BY <1>8 DEF EndRelease, EndProbe, Leave, Holding
  <2> QED
    BY <1>8, <2>1, <1>a, <1>d DEF EndRelease, EndProbe, Leave, Lease!Consent
<1>9. ASSUME NEW p \in Proc, Probe(p) PROVE UNCHANGED Lease!leaseVars
  <2>1. SameHolding
    BY <1>9 DEF Probe, StepTo, Holding
  <2> QED
    BY <1>9, <2>1, <1>d DEF Probe, StepTo, Lease!leaseVars
<1>10. ASSUME NEW p \in Proc, Die(p)
       PROVE  Lease!Abandon(p) \/ Lease!Consent(p)
  <2>1. CASE Holding(p)
    <3>1. \A q \in Proc : ~Holding(q)'
      BY <1>10, <2>1 DEF Die, Leave, Holding, LockInv, Protected
    <3> QED
      BY <1>10, <2>1, <3>1, <1>a, <1>b DEF Die, Leave, Lease!Abandon
  <2>2. CASE ~Holding(p)
    <3>1. SameHolding
      BY <1>10, <2>2 DEF Die, Leave, Holding
    <3> QED
      BY <1>10, <2>2, <3>1, <1>a, <1>d DEF Die, Leave, Lease!Consent
  <2> QED
    BY <2>1, <2>2
<1> QED
  BY <1>1, <1>2, <1>3, <1>4, <1>5, <1>6, <1>7, <1>8, <1>9, <1>10
  DEF LockNext, Lease!LeaseNext

(* The lock file implements the lease: nobody starts over a lease that was *)
(* not released without having asked for recovery (RunLock.acquire).       *)
THEOREM LockImplementsLease == LockSpec => ImplementsLease
<1>1. LockInit => Lease!LeaseInit
  BY RunLockAssumption DEF LockInit, Holder, Holding, Lease!LeaseInit
<1>2. LockTypes /\ LockInv /\ LockTypes' /\ LockInv' /\ [LockNext]_lockVars
        => [Lease!LeaseNext]_(Lease!leaseVars)
  BY StepImplementsLease
<1> QED
  BY <1>1, <1>2, LockTypesHold, LockInvariant, PTL
  DEF LockSpec, ImplementsLease, Lease!LeaseSpec

(* For any number of processes on either kind of lock: the lock file, the  *)
(* operating system's lock and what a process believes agree, and at most  *)
(* one of them has acquired the run lock (run_lock.py).                    *)
THEOREM LockSafety == LockSpec => []LockSafe
BY LockTypesHold, LockInvariant, MutualExclusionHolds, PTL DEF LockSafe

-----------------------------------------------------------------------------
(* The control records of the runs (CooperativeControl).                   *)

(* Every transition of the record maps records to records.                 *)
LEMMA RecordTypes ==
  /\ NoRecord \in Records
  /\ Started \in Records
  /\ \A c \in Records :
       /\ \A k \in Kinds, n \in Nat : Requested(c, k, n) \in Records
       /\ \A b \in Boundaries \cup {"none"} : Paused(c, b) \in Records
       /\ ResumeRequested(c) \in Records
       /\ Resuming(c) \in Records
       /\ Reobserved(c) \in Records
       /\ ClosedRecord(c) \in Records
       /\ c.request \in Nat
  BY ZenonT(60) DEF Records, Statuses, Kinds, NoRecord, Started, Requested, Paused,
         ResumeRequested, Resuming, Reobserved, ClosedRecord

(* Every step a Runner is sent to is one of its steps.                     *)
LEMMA StepNames ==
  /\ \A s \in Boundaries : s \in Steps
  /\ \A s \in ControlCalls : s \in Steps
  /\ \A s \in {"new", "starting", "provider", "authorizing", "approving",
               "executing", "pausing", "paused", "resumed", "closed", "ended",
               "dead"} : s \in Steps
  BY DEF Steps

LEMMA GotoType ==
  ASSUME RunnerTypes, NEW r \in Runs, NEW s \in Steps, Goto(r, s)
  PROVE  pc' \in [Runs -> Steps]
  BY DEF RunnerTypes, Goto

LEMMA CheckpointType ==
  ASSUME RunnerTypes, NEW r \in Runs, NEW b \in BOOLEAN,
         NEW phase \in {"none", "PLANNING", "OBSERVING", "PAUSED", "SUCCESS",
                        "FAILED"},
         Checkpoint(r, phase, b)
  PROVE  checkpoint' \in [Runs -> Checkpoints]
  BY DEF RunnerTypes, Checkpoint, Checkpoints

LEMMA MustReobserveTypes ==
  ASSUME RunnerTypes, NEW r \in Runs, MustReobserve(r)
  PROVE  /\ reobserve' \in [Runs -> BOOLEAN]
         /\ grounded' \in [Runs -> BOOLEAN]
  BY DEF RunnerTypes, MustReobserve

(* Ending the loop keeps the types of the Runner's state.                  *)
LEMMA EndRunTypes ==
  ASSUME RunnerTypes, NEW r \in Runs, NEW how \in {"none", "run", "control"},
         EndRun(r, how)
  PROVE  RunnerTypes'
<1>1. pc' \in [Runs -> Steps]
  BY StepNames, GotoType DEF EndRun, ControlCalls
<1>2. checkpoint' \in [Runs -> Checkpoints]
  <2>1. reobserve[r] \in BOOLEAN
    BY DEF RunnerTypes
  <2> QED
    BY <2>1, CheckpointType DEF EndRun
<1>3. failure' \in [Runs -> {"none", "run", "control"}]
  BY DEF EndRun, RunnerTypes
<1> QED
  BY <1>1, <1>2, <1>3 DEF EndRun, RunnerTypes

LEMMA ForgetTypes ==
  ASSUME RunnerTypes, NEW r \in Runs, NEW s \in Steps, Forget(r, s),
         UNCHANGED checkpoint
  PROVE  RunnerTypes'
<1>1. pc' \in [Runs -> Steps]
  BY GotoType DEF Forget
<1> QED
  BY <1>1 DEF Forget, RunnerTypes

(* The Runner's own state keeps its types; one step per action.            *)
LEMMA RunnerTypesKept ==
  ASSUME TypeOK, NEW r \in Runs,
         \/ Prepare(r) \/ Start(r) \/ Poll(r) \/ Provider(r) \/ Authorize(r)
         \/ Decide(r) \/ Execute(r) \/ Pause(r) \/ WaitForResume(r)
         \/ Resumed(r) \/ CancelWait(r) \/ ReleaseLease(r) \/ Crash(r)
  PROVE  RunnerTypes'
<1> USE StepNames DEF ControlCalls, Boundaries
<1>a. RunnerTypes /\ reobserve[r] \in BOOLEAN /\ pc[r] \in Steps
  BY DEF TypeOK, RunnerTypes
<1>1. CASE Prepare(r)
  BY <1>1, <1>a, GotoType DEF Prepare, RunnerTypes
<1>2. CASE Start(r)
  BY <1>2, <1>a, GotoType, CheckpointType DEF Start, RunnerTypes
<1>3. CASE Poll(r)
  <2>1. CASE IsPending(control[r])
    <3>1. control[r].request \in Nat
      BY RecordTypes DEF TypeOK
    <3>2. pc[r] \in Boundaries
      BY <1>3 DEF Poll
    <3>3. pc' \in [Runs -> Steps]
      BY <1>3, <2>1, <1>a, GotoType DEF Poll
    <3>4. /\ at' \in [Runs -> Boundaries \cup {"none"}]
          /\ handling' \in [Runs -> Nat]
      BY <1>3, <2>1, <1>a, <3>1, <3>2 DEF Poll, RunnerTypes
    <3> QED
      BY <1>3, <1>a, <3>3, <3>4 DEF Poll, RunnerTypes
  <2>2. CASE ~IsPending(control[r])
    <3>1. NextStep(r) \in Steps
      BY DEF NextStep
    <3>2. pc' \in [Runs -> Steps]
      BY <1>3, <2>2, <3>1, <1>a, GotoType DEF Poll
    <3> QED
      BY <1>3, <2>2, <1>a, <3>2 DEF Poll, RunnerTypes
  <2> QED
    BY <2>1, <2>2
<1>4. CASE Provider(r)
  <2>1. CASE EndRun(r, "none") \/ EndRun(r, "run")
    BY <2>1, <1>a, EndRunTypes
  <2>2. ASSUME NEW c \in {"observe", "act"},
               call' = [call EXCEPT ![r] = c],
               Goto(r, "before_tool"),
               UNCHANGED <<checkpoint, at, handling, reobserve, grounded,
                           failure>>
        PROVE  RunnerTypes'
    <3>1. pc' \in [Runs -> Steps]
      BY <2>2, <1>a, GotoType
    <3> QED
      BY <2>2, <3>1, <1>a DEF RunnerTypes
  <2> QED
    BY <1>4, <2>1, <2>2 DEF Provider
<1>5. CASE Authorize(r)
  <2>1. CASE EndRun(r, "run")
    BY <2>1, <1>a, EndRunTypes
  <2>2. CASE ~EndRun(r, "run")
    <3>1. pc' \in [Runs -> Steps]
      BY <1>5, <2>2, <1>a, GotoType DEF Authorize
    <3> QED
      BY <1>5, <2>2, <3>1, <1>a DEF Authorize, RunnerTypes
  <2> QED
    BY <2>1, <2>2
<1>6. CASE Decide(r)
  <2>1. CASE EndRun(r, "run")
    BY <2>1, <1>a, EndRunTypes
  <2>2. CASE /\ Goto(r, "before_provider")
             /\ MustReobserve(r)
             /\ Checkpoint(r, "PLANNING", TRUE)
             /\ UNCHANGED <<call, at, handling, failure>>
    <3>1. pc' \in [Runs -> Steps]
      BY <2>2, <1>a, GotoType
    <3>2. checkpoint' \in [Runs -> Checkpoints]
      BY <2>2, <1>a, CheckpointType
    <3> QED
      BY <2>2, <3>1, <3>2, <1>a, MustReobserveTypes DEF RunnerTypes
  <2>3. CASE /\ Goto(r, "after_approval") \/ Goto(r, "taking_over")
             /\ UNCHANGED <<checkpoint, call, at, handling, reobserve, grounded,
                            failure>>
    <3>1. pc' \in [Runs -> Steps]
      BY <2>3, <1>a, GotoType
    <3> QED
      BY <2>3, <3>1, <1>a DEF RunnerTypes
  <2> QED
    BY <1>6, <2>1, <2>2, <2>3 DEF Decide
<1>7. CASE Execute(r)
  <2>1. CASE EndRun(r, "run")
    BY <2>1, <1>a, EndRunTypes
  <2>2. CASE /\ Goto(r, "observed")
             /\ reobserve' = [reobserve EXCEPT ![r] = FALSE]
             /\ grounded' = [grounded EXCEPT ![r] = TRUE]
             /\ Checkpoint(r, "OBSERVING", FALSE)
             /\ UNCHANGED <<call, at, handling, failure>>
    <3>1. pc' \in [Runs -> Steps]
      BY <2>2, <1>a, GotoType
    <3>2. checkpoint' \in [Runs -> Checkpoints]
      BY <2>2, <1>a, CheckpointType
    <3> QED
      BY <2>2, <3>1, <3>2, <1>a DEF RunnerTypes
  <2>3. CASE /\ Goto(r, "before_provider")
             /\ Checkpoint(r, "PLANNING", reobserve[r])
             /\ UNCHANGED <<call, at, handling, reobserve, grounded, failure>>
    <3>1. pc' \in [Runs -> Steps]
      BY <2>3, <1>a, GotoType
    <3>2. checkpoint' \in [Runs -> Checkpoints]
      BY <2>3, <1>a, CheckpointType
    <3> QED
      BY <2>3, <3>1, <3>2, <1>a DEF RunnerTypes
  <2>4. CASE /\ Goto(r, "before_provider")
             /\ MustReobserve(r)
             /\ Checkpoint(r, "PLANNING", TRUE)
             /\ UNCHANGED <<call, at, handling, failure>>
    <3>1. pc' \in [Runs -> Steps]
      BY <2>4, <1>a, GotoType
    <3>2. checkpoint' \in [Runs -> Checkpoints]
      BY <2>4, <1>a, CheckpointType
    <3> QED
      BY <2>4, <3>1, <3>2, <1>a, MustReobserveTypes DEF RunnerTypes
  <2> QED
    BY <1>7, <2>1, <2>2, <2>3, <2>4 DEF Execute
<1>8. CASE Pause(r)
  <2>1. pc' \in [Runs -> Steps]
    BY <1>8, <1>a, GotoType DEF Pause
  <2>2. checkpoint' \in [Runs -> Checkpoints]
    BY <1>8, <1>a, CheckpointType DEF Pause
  <2> QED
    BY <1>8, <2>1, <2>2, <1>a, MustReobserveTypes DEF Pause, RunnerTypes
<1>9. CASE WaitForResume(r)
  BY <1>9, <1>a, GotoType DEF WaitForResume, RunnerTypes
<1>10. CASE Resumed(r)
  <2>1. pc' \in [Runs -> Steps]
    BY <1>10, <1>a, GotoType DEF Resumed
  <2>2. checkpoint' \in [Runs -> Checkpoints]
    BY <1>10, <1>a, CheckpointType DEF Resumed
  <2> QED
    BY <1>10, <2>1, <2>2, <1>a DEF Resumed, RunnerTypes
<1>11. CASE CancelWait(r)
  BY <1>11, <1>a, EndRunTypes DEF CancelWait
<1>12. CASE ReleaseLease(r)
  BY <1>12, <1>a, ForgetTypes DEF ReleaseLease
<1>13. CASE Crash(r)
  BY <1>13, <1>a, ForgetTypes DEF Crash
<1> QED
  BY <1>1, <1>2, <1>3, <1>4, <1>5, <1>6, <1>7, <1>8, <1>9, <1>10, <1>11,
     <1>12, <1>13

(* The same for the calls that change the control record.                  *)
LEMMA ControlCallTypesKept ==
  ASSUME TypeOK, NEW r \in Runs,
         \/ Busy(r) \/ AcknowledgePaused(r) \/ AcknowledgeResumed(r)
         \/ AcknowledgeFreshObservation(r) \/ RequestFromRunner(r)
         \/ CloseControl(r)
  PROVE  /\ RunnerTypes'
         /\ control' \in [Runs -> Records]
         /\ mutex' \in [Runs -> Runs \cup Operators \cup {Free}]
         /\ requests' \in Nat
<1> USE StepNames DEF ControlCalls, Boundaries
<1>a. RunnerTypes
  BY DEF TypeOK
<1>b. /\ control \in [Runs -> Records]
      /\ control[r] \in Records
      /\ mutex \in [Runs -> Runs \cup Operators \cup {Free}]
      /\ requests \in Nat
      /\ at[r] \in Boundaries \cup {"none"}
  BY DEF TypeOK, RunnerTypes
<1>c. ASSUME NEW guard \in BOOLEAN, NEW c \in Records, NEW s \in Steps,
             Mutate(r, guard, c, s)
      PROVE  /\ RunnerTypes'
             /\ control' \in [Runs -> Records]
             /\ mutex' \in [Runs -> Runs \cup Operators \cup {Free}]
             /\ requests' \in Nat
  <2>1. /\ mutex' \in [Runs -> Runs \cup Operators \cup {Free}]
        /\ requests' \in Nat
    BY <1>b, <1>c DEF Mutate, Unlock
  <2>2. CASE guard
    <3>1. control' \in [Runs -> Records]
      BY <1>b, <1>c, <2>2 DEF Mutate, Write
    <3>2. pc' \in [Runs -> Steps]
      BY <1>a, <1>c, <2>2, GotoType DEF Mutate
    <3> QED
      BY <1>a, <1>c, <2>1, <2>2, <3>1, <3>2 DEF Mutate, RunnerTypes
  <2>3. CASE ~guard
    BY <1>a, <1>b, <1>c, <2>1, <2>3, EndRunTypes DEF Mutate
  <2> QED
    BY <2>2, <2>3
<1>1. CASE Busy(r)
  <2>1. UNCHANGED <<control, mutex, requests>>
    BY <1>1 DEF Busy, record
  <2>2. CASE pc[r] = "closing"
    <3>1. \E s \in Steps : Forget(r, s) /\ UNCHANGED checkpoint
      BY <1>1, <2>2 DEF Busy
    <3> QED
      BY <1>a, <1>b, <2>1, <3>1, ForgetTypes
  <2>3. CASE pc[r] # "closing"
    BY <1>1, <1>a, <1>b, <2>1, <2>3, EndRunTypes DEF Busy
  <2> QED
    BY <2>2, <2>3
<1>2. CASE AcknowledgePaused(r)
  <2>1. Paused(control[r], at[r]) \in Records
    BY <1>b, RecordTypes
  <2> QED
    BY <1>2, <1>c, <2>1 DEF AcknowledgePaused, IsPending
<1>3. CASE AcknowledgeResumed(r)
  <2>1. Resuming(control[r]) \in Records
    BY <1>b, RecordTypes
  <2> QED
    BY <1>3, <1>c, <2>1 DEF AcknowledgeResumed
<1>4. CASE AcknowledgeFreshObservation(r)
  <2> DEFINE c == IF control[r].status = "resuming"
                  THEN Reobserved(control[r]) ELSE control[r]
             g == control[r].status \in {"active", "pause_requested",
                                         "resuming"}
  <2>1. c \in Records
    BY <1>b, RecordTypes
  <2>2. PICK step \in {"before_tool", "before_provider"} :
          Mutate(r, g, c, step)
    BY <1>4 DEF AcknowledgeFreshObservation
  <2>3. step \in Steps /\ g \in BOOLEAN
    OBVIOUS
  <2> HIDE DEF c, g
  <2> QED
    BY <1>c, <2>1, <2>2, <2>3
<1>5. CASE RequestFromRunner(r)
  <2>1. mutex' \in [Runs -> Runs \cup Operators \cup {Free}]
    BY <1>5, <1>b DEF RequestFromRunner, Unlock
  <2>2. CASE control[r].status = "active"
    <3>1. Requested(control[r], "takeover", requests + 1) \in Records
      BY <1>b, RecordTypes DEF Kinds
    <3>2. control' \in [Runs -> Records] /\ requests' \in Nat
      BY <1>5, <1>b, <2>2, <3>1 DEF RequestFromRunner, Write
    <3>3. pc' \in [Runs -> Steps]
      BY <1>a, <1>5, <2>2, GotoType DEF RequestFromRunner
    <3> QED
      BY <1>a, <1>5, <2>1, <2>2, <3>2, <3>3 DEF RequestFromRunner, RunnerTypes
  <2>3. CASE control[r].status # "active"
    BY <1>a, <1>b, <1>5, <2>1, <2>3, EndRunTypes DEF RequestFromRunner
  <2> QED
    BY <2>2, <2>3
<1>6. CASE CloseControl(r)
  <2>1. ClosedRecord(control[r]) \in Records
    BY <1>b, RecordTypes
  <2>2. RunnerTypes'
    BY <1>6, <1>a, ForgetTypes DEF CloseControl
  <2> QED
    BY <1>6, <1>b, <2>1, <2>2 DEF CloseControl, Write, Unlock
<1> QED
  BY <1>1, <1>2, <1>3, <1>4, <1>5, <1>6

(* An operator command changes the record through the same transitions.    *)
LEMMA OperatorTypesKept ==
  ASSUME TypeOK, NEW o \in Operators, OperatorStep(o)
  PROVE  TypeOK'
<1> USE DEF record, runner
<1>a. /\ control \in [Runs -> Records]
      /\ mutex \in [Runs -> Runs \cup Operators \cup {Free}]
      /\ requests \in Nat
      /\ op \in [Operators ->
            [step : {"idle", "resolved", "locked"},
             command : Kinds \cup {"resume"}, run : Runs \cup {Free}]]
  BY DEF TypeOK
<1>b. RunnerTypes' /\ fresh' \in [Runs -> BOOLEAN]
        /\ lease' \in Runs \cup {Free, Other}
  BY DEF TypeOK, RunnerTypes, OperatorStep, Command, LockCommand, ApplyPause,
         ApplyResume, KillCommand
<1>c. Idle \in [step : {"idle", "resolved", "locked"},
                command : Kinds \cup {"resume"}, run : Runs \cup {Free}]
  BY DEF Idle
<1>d. ASSUME Finish(o)
      PROVE  /\ mutex' \in [Runs -> Runs \cup Operators \cup {Free}]
             /\ op' \in [Operators ->
                   [step : {"idle", "resolved", "locked"},
                    command : Kinds \cup {"resume"}, run : Runs \cup {Free}]]
  <2>1. mutex' \in [Runs -> Runs \cup Operators \cup {Free}]
    BY <1>a, <1>d DEF Finish, Unlock
  <2>2. op' = [op EXCEPT ![o] = Idle]
    BY <1>d DEF Finish
  <2> HIDE DEF Idle
  <2> QED
    BY <1>a, <1>c, <2>1, <2>2
<1>1. CASE Command(o)
  BY <1>1, <1>a, <1>b DEF Command, TypeOK
<1>2. CASE LockCommand(o)
  <2>1. mutex' \in [Runs -> Runs \cup Operators \cup {Free}]
    BY <1>2, <1>a DEF LockCommand
  <2>2. op' \in [Operators ->
              [step : {"idle", "resolved", "locked"},
               command : Kinds \cup {"resume"}, run : Runs \cup {Free}]]
    <3>1. op[o] \in [step : {"idle", "resolved", "locked"},
                     command : Kinds \cup {"resume"}, run : Runs \cup {Free}]
      BY <1>a
    <3>2. [op[o] EXCEPT !.step = "locked"]
             \in [step : {"idle", "resolved", "locked"},
                  command : Kinds \cup {"resume"}, run : Runs \cup {Free}]
      BY <3>1
    <3> QED
      BY <1>2, <1>a, <1>c, <3>2 DEF LockCommand
  <2> QED
    BY <1>2, <1>a, <1>b, <2>1, <2>2 DEF LockCommand, TypeOK
<1>3. CASE ApplyPause(o)
  <2>1. requests' \in Nat /\ control' \in [Runs -> Records]
    <3>1. CASE Resolves(op[o].run) /\ control[op[o].run].status = "active"
      <4>1. op[o].run \in Runs
        BY <3>1 DEF Resolves
      <4>2. Requested(control[op[o].run], op[o].command, requests + 1)
               \in Records
        BY <1>a, <1>3, <4>1, RecordTypes DEF ApplyPause
      <4> QED
        BY <1>a, <1>3, <3>1, <4>2 DEF ApplyPause, Write
    <3>2. CASE ~(Resolves(op[o].run) /\ control[op[o].run].status = "active")
      BY <1>a, <1>3, <3>2 DEF ApplyPause
    <3> QED
      BY <3>1, <3>2
  <2> QED
    BY <1>3, <1>b, <1>d, <2>1 DEF ApplyPause, TypeOK
<1>4. CASE ApplyResume(o)
  <2>1. control' \in [Runs -> Records]
    <3>1. CASE Resolves(op[o].run) /\ MayResume(op[o].run)
      <4>1. ResumeRequested(control[op[o].run]) \in Records
        BY <1>a, <3>1, RecordTypes DEF Resolves
      <4> QED
        BY <1>a, <1>4, <3>1, <4>1 DEF ApplyResume, Write
    <3>2. CASE ~(Resolves(op[o].run) /\ MayResume(op[o].run))
      BY <1>a, <1>4, <3>2 DEF ApplyResume
    <3> QED
      BY <3>1, <3>2
  <2> QED
    BY <1>4, <1>a, <1>b, <1>d, <2>1 DEF ApplyResume, TypeOK
<1>5. CASE KillCommand(o)
  BY <1>5, <1>a, <1>b, <1>d DEF KillCommand, TypeOK
<1> QED
  BY <1>1, <1>2, <1>3, <1>4, <1>5 DEF OperatorStep

(* Runs, requests and records keep their types whoever steps.              *)
THEOREM ControlTypes == Spec => []TypeOK
<1>1. Init => TypeOK
  BY ControlAssumption, RecordTypes, StepNames
  DEF Init, TypeOK, RunnerTypes, Checkpoints, Idle
<1>2. TypeOK /\ [Next]_vars => TypeOK'
  <2> SUFFICES ASSUME TypeOK, [Next]_vars PROVE TypeOK'
    OBVIOUS
  <2> USE DEF record, runner
  <2>a. /\ control \in [Runs -> Records]
        /\ mutex \in [Runs -> Runs \cup Operators \cup {Free}]
        /\ fresh \in [Runs -> BOOLEAN]
        /\ RunnerTypes
    BY DEF TypeOK
  <2>1. ASSUME NEW r \in Runs, RunnerStep(r) \/ CancelWait(r) \/ Crash(r)
        PROVE  TypeOK'
    <3>1. CASE \/ Busy(r) \/ AcknowledgePaused(r) \/ AcknowledgeResumed(r)
               \/ AcknowledgeFreshObservation(r) \/ RequestFromRunner(r)
               \/ CloseControl(r)
      <4>1. UNCHANGED <<lease, op, fresh>>
        BY <3>1 DEF Busy, AcknowledgePaused, AcknowledgeResumed,
                    AcknowledgeFreshObservation, RequestFromRunner,
                    CloseControl, Mutate
      <4> QED
        BY <3>1, <4>1, ControlCallTypesKept DEF TypeOK
    <3>2. CASE LockControl(r)
      BY <2>a, <3>2 DEF LockControl, TypeOK, RunnerTypes
    <3>3. CASE Start(r)
      <4>1. control' \in [Runs -> Records]
        BY <2>a, <3>3, RecordTypes DEF Start, Write
      <4> QED
        BY <3>3, <4>1, RunnerTypesKept DEF Start, TypeOK
    <3>4. CASE Execute(r)
      <4>1. fresh' \in [Runs -> BOOLEAN]
        BY <2>a, <3>4 DEF Execute
      <4> QED
        BY <3>4, <4>1, RunnerTypesKept DEF Execute, TypeOK
    <3>5. CASE Crash(r)
      BY <2>a, <3>5, RunnerTypesKept DEF Crash, TypeOK
    <3>6. CASE Prepare(r)
      BY <3>6, RunnerTypesKept DEF Prepare, TypeOK
    <3>7. CASE ReleaseLease(r)
      BY <3>7, RunnerTypesKept DEF ReleaseLease, TypeOK
    <3>8. CASE \/ Poll(r) \/ Provider(r) \/ Authorize(r) \/ Decide(r)
               \/ Pause(r) \/ WaitForResume(r) \/ Resumed(r) \/ CancelWait(r)
      <4>1. UNCHANGED <<lease, control, mutex, requests, op, fresh>>
        BY <3>8 DEF Poll, Provider, Authorize, Decide, Pause, WaitForResume,
                    Resumed, CancelWait
      <4> QED
        BY <3>8, <4>1, RunnerTypesKept DEF TypeOK
    <3> QED
      BY <2>1, <3>1, <3>2, <3>3, <3>4, <3>5, <3>6, <3>7, <3>8 DEF RunnerStep
  <2>2. ASSUME NEW o \in Operators, OperatorStep(o)
        PROVE  TypeOK'
    BY <2>2, OperatorTypesKept
  <2>3. CASE OtherTakes \/ OtherLeaves \/ HumanActs
    BY <2>3 DEF OtherTakes, OtherLeaves, HumanActs, TypeOK, RunnerTypes
  <2>4. CASE UNCHANGED vars
    BY <2>4 DEF vars, TypeOK, RunnerTypes
  <2> QED
    BY <2>1, <2>2, <2>3, <2>4 DEF Next
<1> QED
  BY <1>1, <1>2, PTL DEF Spec

-----------------------------------------------------------------------------
(* The inductive invariant, for one run.                                   *)
RunInv(r) ==
  /\ Live(r) => lease = r
  /\ RecordAgrees(r)
  /\ MemoryAgrees(r)

(* What the invariant says of r depends on this state only.                *)
Same(r) ==
  /\ pc'[r] = pc[r]
  /\ control'[r] = control[r]
  /\ checkpoint'[r] = checkpoint[r]
  /\ call'[r] = call[r]
  /\ at'[r] = at[r]
  /\ handling'[r] = handling[r]
  /\ grounded'[r] = grounded[r]

(* A step that leaves that state alone keeps the invariant of the run if   *)
(* it takes neither the lease from it nor its fresh observation.           *)
LEMMA FrameInv ==
  ASSUME NEW r \in Runs, RunInv(r), Same(r),
         Live(r) => lease' = lease,
         fresh'[r] = fresh[r] \/ ~Live(r) \/ ~grounded[r]
  PROVE  RunInv(r)'
<1>1. grounded[r] => Live(r)
  BY DEF RunInv, MemoryAgrees, Live, Working, Boundaries
<1>2. RecordAgrees(r)'
  BY DEF Same, RunInv, RecordAgrees
<1>3. MemoryAgrees(r)'
  BY <1>1 DEF Same, RunInv, MemoryAgrees, Acting
<1> QED
  BY <1>2, <1>3 DEF Same, RunInv, Live

(* A Runner's step leaves the other runs alone.                            *)
LEMMA OthersSame ==
  ASSUME TypeOK, NEW r \in Runs, NEW s \in Runs, s # r,
         RunnerStep(r) \/ CancelWait(r) \/ Crash(r)
  PROVE  Same(s)
<1> USE DEF record, runner
<1>a. /\ pc \in [Runs -> Steps]
      /\ control \in [Runs -> Records]
      /\ checkpoint \in [Runs -> Checkpoints]
      /\ call \in [Runs -> {"none", "observe", "act"}]
      /\ at \in [Runs -> Boundaries \cup {"none"}]
      /\ handling \in [Runs -> Nat]
      /\ grounded \in [Runs -> BOOLEAN]
  BY DEF TypeOK, RunnerTypes
<1>b. \A how : EndRun(r, how) /\ control'[s] = control[s] => Same(s)
  BY <1>a DEF EndRun, Goto, Checkpoint, Same
<1>c. \A step : Forget(r, step) /\ checkpoint' = checkpoint
                  /\ control'[s] = control[s] => Same(s)
  BY <1>a DEF Forget, Goto, Same
<1>d. \A guard, c, step : Mutate(r, guard, c, step) => Same(s)
  <2> SUFFICES ASSUME NEW guard, NEW c, NEW step, Mutate(r, guard, c, step)
               PROVE  Same(s)
    OBVIOUS
  <2>1. control'[s] = control[s]
    BY <1>a DEF Mutate, Write
  <2>2. CASE guard
    BY <1>a, <2>1, <2>2 DEF Mutate, Goto, Same
  <2>3. CASE ~guard
    BY <1>b, <2>1, <2>3 DEF Mutate
  <2> QED
    BY <2>2, <2>3
<1>1. CASE Prepare(r) \/ LockControl(r) \/ WaitForResume(r)
  BY <1>1, <1>a DEF Prepare, LockControl, WaitForResume, Goto, Same
<1>2. CASE Start(r)
  BY <1>2, <1>a DEF Start, Write, Checkpoint, Goto, Same
<1>3. CASE Poll(r)
  BY <1>3, <1>a DEF Poll, Goto, Same
<1>4. CASE Provider(r)
  BY <1>4, <1>a, <1>b DEF Provider, Goto, Same
<1>5. CASE Authorize(r)
  BY <1>5, <1>a, <1>b DEF Authorize, Goto, Same
<1>6. CASE Decide(r)
  BY <1>6, <1>a, <1>b DEF Decide, Goto, Checkpoint, MustReobserve, Same
<1>7. CASE Execute(r)
  BY <1>7, <1>a, <1>b DEF Execute, Goto, Checkpoint, MustReobserve, Same
<1>8. CASE Pause(r)
  BY <1>8, <1>a DEF Pause, Goto, Checkpoint, MustReobserve, Same
<1>9. CASE Resumed(r)
  BY <1>9, <1>a DEF Resumed, Goto, Checkpoint, Same
<1>10. CASE Busy(r)
  BY <1>10, <1>b, <1>c DEF Busy
<1>11. CASE AcknowledgePaused(r) \/ AcknowledgeResumed(r)
              \/ AcknowledgeFreshObservation(r)
  BY <1>11, <1>d DEF AcknowledgePaused, AcknowledgeResumed,
                     AcknowledgeFreshObservation
<1>12. CASE RequestFromRunner(r)
  <2>1. control'[s] = control[s]
    BY <1>12, <1>a DEF RequestFromRunner, Write
  <2> QED
    BY <1>12, <1>a, <1>b, <2>1 DEF RequestFromRunner, Goto, Same
<1>13. CASE CloseControl(r)
  BY <1>13, <1>a, <1>c DEF CloseControl, Write
<1>14. CASE ReleaseLease(r) \/ Crash(r)
  BY <1>14, <1>c DEF ReleaseLease, Crash
<1>15. CASE CancelWait(r)
  BY <1>15, <1>b DEF CancelWait
<1> QED
  BY <1>1, <1>2, <1>3, <1>4, <1>5, <1>6, <1>7, <1>8, <1>9, <1>10, <1>11,
     <1>12, <1>13, <1>14, <1>15 DEF RunnerStep

(* Nor can it take the lease, or the fresh observation, of a live one.     *)
LEMMA OthersInv ==
  ASSUME TypeOK, ControlInv, NEW r \in Runs, NEW s \in Runs, s # r,
         RunnerStep(r) \/ CancelWait(r) \/ Crash(r)
  PROVE  RunInv(s)'
<1> USE DEF record, runner
<1>1. RunInv(s) /\ RunInv(r)
  BY DEF ControlInv, RunInv
<1>2. Same(s)
  BY OthersSame
<1>3. Live(s) => lease = s /\ ~Live(r)
  BY <1>1 DEF RunInv
<1>4. Live(s) => Crash(r) \/ Prepare(r)
  <2>1. ~Live(r) => ~Start(r) /\ ~Poll(r) /\ ~Provider(r) /\ ~Authorize(r)
                      /\ ~Decide(r) /\ ~Execute(r) /\ ~Pause(r)
                      /\ ~WaitForResume(r) /\ ~Resumed(r) /\ ~CancelWait(r)
    BY DEF Live, Start, Poll, Provider, Authorize, Decide, Execute, Pause,
           WaitForResume, Resumed, CancelWait, Boundaries
  <2>2. ~Live(r) => ~LockControl(r) /\ ~Busy(r) /\ ~AcknowledgePaused(r)
                      /\ ~AcknowledgeResumed(r) /\ ~ReleaseLease(r)
                      /\ ~AcknowledgeFreshObservation(r)
                      /\ ~RequestFromRunner(r) /\ ~CloseControl(r)
    BY DEF Live, LockControl, Busy, AcknowledgePaused, AcknowledgeResumed,
           AcknowledgeFreshObservation, RequestFromRunner, CloseControl,
           ReleaseLease, ControlCalls
  <2> QED
    BY <1>3, <2>1, <2>2 DEF RunnerStep
<1>5. Live(s) => lease' = lease /\ fresh' = fresh
  BY <1>3, <1>4, ControlAssumption DEF Crash, Prepare
<1> QED
  BY <1>1, <1>2, <1>5, FrameInv

(* Ending the loop keeps the invariant of a run whose record is open.      *)
LEMMA EndRunInv ==
  ASSUME TypeOK, NEW r \in Runs, RunInv(r), Live(r), IsOpen(control[r]),
         NEW how, EndRun(r, how), control'[r] = control[r], lease' = lease
  PROVE  RunInv(r)'
<1>1. pc'[r] = "closing"
  BY DEF TypeOK, RunnerTypes, EndRun, Goto
<1>2. /\ call'[r] = call[r] /\ at'[r] = at[r] /\ handling'[r] = handling[r]
      /\ grounded'[r] = grounded[r]
  BY DEF EndRun
<1>3. RecordAgrees(r)'
  BY <1>1 DEF RunInv, RecordAgrees, Working, Boundaries
<1>4. MemoryAgrees(r)'
  BY <1>1, <1>2
  DEF RunInv, MemoryAgrees, Working, Boundaries, Authorised, Acting
<1> QED
  BY <1>1, <1>3, <1>4 DEF RunInv, Live

(* Nor does forgetting the loop's state, once the loop is over.            *)
LEMMA ForgetInv ==
  ASSUME TypeOK, NEW r \in Runs, NEW s \in {"closed", "ended", "dead"},
         Forget(r, s), Valid(control'[r]),
         control'[r].authority = "released" =>
            control'[r].status \in {"paused", "resume_requested"},
         s = "closed" => lease' = r
  PROVE  RunInv(r)'
<1>1. pc'[r] = s /\ ~grounded'[r]
  BY DEF TypeOK, RunnerTypes, Forget, Goto
<1>2. RecordAgrees(r)'
  BY <1>1 DEF RecordAgrees, Working, Boundaries
<1>3. MemoryAgrees(r)'
  BY <1>1 DEF MemoryAgrees, Working, Boundaries, Authorised, Acting
<1> QED
  BY <1>1, <1>2, <1>3 DEF RunInv, Live

(* The Runner's own step; one step per action.                             *)
LEMMA OwnInv ==
  ASSUME TypeOK, ControlInv, NEW r \in Runs,
         RunnerStep(r) \/ CancelWait(r) \/ Crash(r)
  PROVE  RunInv(r)'
<1> USE DEF record, runner
<1>a. /\ pc \in [Runs -> Steps]
      /\ control \in [Runs -> Records]
      /\ checkpoint \in [Runs -> Checkpoints]
      /\ call \in [Runs -> {"none", "observe", "act"}]
      /\ at \in [Runs -> Boundaries \cup {"none"}]
      /\ handling \in [Runs -> Nat]
      /\ grounded \in [Runs -> BOOLEAN]
      /\ reobserve \in [Runs -> BOOLEAN]
      /\ fresh \in [Runs -> BOOLEAN]
      /\ requests \in Nat
  BY DEF TypeOK, RunnerTypes
<1>b. RunInv(r)
  BY DEF ControlInv, RunInv
<1>c. pc[r] \in Working => Live(r) /\ IsOpen(control[r])
  BY <1>b DEF RunInv, RecordAgrees, Working, Boundaries, Live, IsOpen
<1>d. pc[r] \in {"acknowledging", "paused", "resuming", "resumed", "closing"}
        => Live(r) /\ IsOpen(control[r])
  BY <1>b DEF RunInv, RecordAgrees, Live, IsOpen
<1>1. CASE Prepare(r)
  <2>1. /\ pc'[r] = "starting" /\ lease' = r /\ pc[r] = "new"
        /\ UNCHANGED <<control, checkpoint, call, at, handling, grounded,
                       fresh>>
    BY <1>1, <1>a DEF Prepare, Goto
  <2> QED
    BY <2>1, <1>b DEF RunInv, RecordAgrees, MemoryAgrees, Working, Boundaries,
                      Authorised, Acting, Live
<1>2. CASE Start(r)
  <2>1. /\ pc'[r] = "before_provider" /\ lease' = lease /\ pc[r] = "starting"
        /\ control'[r] = Started
        /\ UNCHANGED <<call, at, handling, grounded, fresh>>
    BY <1>2, <1>a DEF Start, Write, Goto
  <2>2. ~grounded[r] /\ lease = r
    BY <2>1, <1>b DEF RunInv, MemoryAgrees, Working, Boundaries, Live
  <2> QED
    BY <2>1, <2>2, <1>b
    DEF RunInv, RecordAgrees, MemoryAgrees, Working, Boundaries, Authorised,
        Acting, Live, Started, Valid, IsOpen
<1>3. CASE Poll(r)
  <2>1. /\ pc[r] \in Boundaries
        /\ UNCHANGED <<lease, control, checkpoint, call, grounded, fresh>>
    BY <1>3 DEF Poll
  <2>2. lease = r
    BY <2>1, <1>b DEF RunInv, Live, Boundaries
  <2>3. CASE IsPending(control[r])
    <3>1. /\ pc'[r] = "pausing" /\ at'[r] = pc[r]
          /\ handling'[r] = control[r].request
      BY <1>3, <2>3, <1>a DEF Poll, Goto
    <3> QED
      BY <2>1, <2>2, <2>3, <3>1, <1>b
      DEF RunInv, RecordAgrees, MemoryAgrees, Working, Boundaries, Authorised,
          Acting, Live, IsPending
  <2>4. CASE ~IsPending(control[r])
    <3>1. pc'[r] = NextStep(r)
      BY <1>3, <2>4, <1>a DEF Poll, Goto
    <3>2. /\ pc'[r] \in {"provider", "authorizing", "executing"}
          /\ pc'[r] = "authorizing" => pc[r] = "before_tool"
                                         /\ call[r] # "observe"
          /\ pc'[r] = "executing" /\ call[r] # "observe" =>
                pc[r] \in {"after_authorization", "after_approval"}
          /\ pc'[r] = "executing" =>
                pc[r] \in {"before_tool", "after_authorization",
                           "after_approval"}
      BY <2>1, <3>1 DEF NextStep, Boundaries
    <3>3. call[r] \in {"none", "observe", "act"}
      BY <1>a
    <3> QED
      BY <2>1, <2>2, <3>2, <3>3, <1>b
      DEF RunInv, RecordAgrees, MemoryAgrees, Working, Boundaries, Authorised,
          Acting, Live
  <2> QED
    BY <2>3, <2>4
<1>4. CASE Provider(r)
  <2>1. CASE EndRun(r, "none") \/ EndRun(r, "run")
    BY <1>4, <2>1, <1>b, <1>c, EndRunInv DEF Provider, Working
  <2>2. CASE ~(EndRun(r, "none") \/ EndRun(r, "run"))
    <3>1. /\ pc[r] = "provider" /\ pc'[r] = "before_tool"
          /\ call'[r] \in {"observe", "act"}
          /\ UNCHANGED <<lease, control, checkpoint, at, handling, grounded,
                         fresh>>
      BY <1>4, <2>2, <1>a DEF Provider, Goto
    <3> QED
      BY <3>1, <1>b
      DEF RunInv, RecordAgrees, MemoryAgrees, Working, Boundaries, Authorised,
          Acting, Live
  <2> QED
    BY <2>1, <2>2
<1>5. CASE Authorize(r)
  <2>1. CASE EndRun(r, "run")
    BY <1>5, <2>1, <1>b, <1>c, EndRunInv DEF Authorize, Working
  <2>2. CASE ~EndRun(r, "run")
    <3>1. /\ pc[r] = "authorizing" /\ grounded[r]
          /\ pc'[r] \in {"after_authorization", "approving"}
          /\ UNCHANGED <<lease, control, checkpoint, call, at, handling,
                         grounded, fresh>>
      BY <1>5, <2>2, <1>a DEF Authorize, Goto
    <3> QED
      BY <3>1, <1>b
      DEF RunInv, RecordAgrees, MemoryAgrees, Working, Boundaries, Authorised,
          Acting, Live
  <2> QED
    BY <2>1, <2>2
<1>6. CASE Decide(r)
  <2>1. CASE EndRun(r, "run")
    BY <1>6, <2>1, <1>b, <1>c, EndRunInv DEF Decide, Working
  <2>2. CASE ~EndRun(r, "run")
    <3>1. /\ pc[r] = "approving"
          /\ \/ pc'[r] \in {"after_approval", "taking_over"}
                  /\ grounded'[r] = grounded[r]
             \/ pc'[r] = "before_provider" /\ ~grounded'[r]
          /\ UNCHANGED <<lease, control, call, at, handling, fresh>>
      BY <1>6, <2>2, <1>a DEF Decide, Goto, MustReobserve
    <3> QED
      BY <3>1, <1>b
      DEF RunInv, RecordAgrees, MemoryAgrees, Working, Boundaries, Authorised,
          Acting, Live
  <2> QED
    BY <2>1, <2>2
<1>7. CASE Execute(r)
  <2>1. CASE EndRun(r, "run")
    BY <1>7, <2>1, <1>b, <1>c, EndRunInv DEF Execute, Working
  <2>2. CASE ~EndRun(r, "run")
    <3>1. /\ pc[r] = "executing"
          /\ \/ /\ pc'[r] = "observed" /\ call[r] = "observe"
                /\ grounded'[r] /\ fresh'[r]
             \/ /\ pc'[r] = "before_provider"
                /\ grounded'[r] => grounded[r] /\ fresh'[r] = fresh[r]
          /\ UNCHANGED <<lease, control, call, at, handling>>
      BY <1>7, <2>2, <1>a DEF Execute, Goto, MustReobserve
    <3> QED
      BY <3>1, <1>b
      DEF RunInv, RecordAgrees, MemoryAgrees, Working, Boundaries, Authorised,
          Acting, Live
  <2> QED
    BY <2>1, <2>2
<1>8. CASE Pause(r)
  <2>1. /\ pc[r] = "pausing" /\ pc'[r] = "acknowledging" /\ ~grounded'[r]
        /\ checkpoint'[r] = [phase |-> "PAUSED", reobserve |-> TRUE]
        /\ UNCHANGED <<lease, control, call, at, handling, fresh>>
    BY <1>8, <1>a DEF Pause, Goto, MustReobserve, Checkpoint
  <2> QED
    BY <2>1, <1>b
    DEF RunInv, RecordAgrees, MemoryAgrees, Working, Boundaries, Authorised,
        Acting, Live
<1>9. CASE WaitForResume(r)
  <2>1. /\ pc[r] = "paused" /\ pc'[r] = "resuming"
        /\ control[r].status = "resume_requested"
        /\ UNCHANGED <<lease, control, checkpoint, call, at, handling, grounded,
                       fresh>>
    BY <1>9, <1>a DEF WaitForResume, Goto, Wakes
  <2> QED
    BY <2>1, <1>b
    DEF RunInv, RecordAgrees, MemoryAgrees, Working, Boundaries, Authorised,
        Acting, Live
<1>10. CASE Resumed(r)
  <2>1. /\ pc[r] = "resumed" /\ pc'[r] \in {"provider", "before_provider"}
        /\ UNCHANGED <<lease, control, call, grounded, fresh>>
    BY <1>10, <1>a DEF Resumed, Goto
  <2> QED
    BY <2>1, <1>b
    DEF RunInv, RecordAgrees, MemoryAgrees, Working, Boundaries, Authorised,
        Acting, Live
<1>11. CASE LockControl(r)
  BY <1>11, <1>b, FrameInv DEF LockControl, Same
<1>12. CASE Busy(r)
  <2>1. CASE pc[r] = "closing"
    <3>1. PICK s \in {"closed", "ended"} : Forget(r, s)
      BY <1>12, <2>1 DEF Busy
    <3> QED
      BY <1>12, <2>1, <3>1, <1>b, <1>d, ForgetInv
      DEF Busy, RunInv, RecordAgrees
  <2>2. CASE pc[r] # "closing"
    <3>1. Live(r) /\ IsOpen(control[r])
      BY <1>12, <2>2, <1>c, <1>d DEF Busy, ControlCalls, Working
    <3> QED
      BY <1>12, <2>2, <3>1, <1>b, EndRunInv DEF Busy
  <2> QED
    BY <2>1, <2>2
<1>13. CASE AcknowledgePaused(r)
  <2>1. /\ pc[r] = "acknowledging" /\ IsPending(control[r])
        /\ control[r].request = handling[r] /\ at[r] # "none"
        /\ ~grounded[r] /\ Valid(control[r]) /\ lease = r
        /\ checkpoint[r] = [phase |-> "PAUSED", reobserve |-> TRUE]
    BY <1>13, <1>b DEF AcknowledgePaused, RunInv, RecordAgrees, MemoryAgrees,
                       IsPending, Live
  <2>2. /\ pc'[r] = "paused" /\ control'[r] = Paused(control[r], at[r])
        /\ UNCHANGED <<lease, checkpoint, call, at, handling, grounded, fresh>>
    BY <1>13, <2>1, <1>a DEF AcknowledgePaused, Mutate, Goto, Write
  <2>3. /\ control'[r].status = "paused" /\ Valid(control'[r])
    BY <2>1, <2>2, <1>a DEF Paused, Valid, IsPending, Records
  <2> QED
    BY <2>1, <2>2, <2>3
    DEF RunInv, RecordAgrees, MemoryAgrees, Working, Boundaries, Authorised,
        Acting, Live
<1>14. CASE AcknowledgeResumed(r)
  <2>1. pc[r] = "resuming" /\ control[r].status = "resume_requested"
    BY <1>14, <1>b DEF AcknowledgeResumed, RunInv, RecordAgrees
  <2>2. CASE control[r].request = handling[r]
    <3>1. /\ pc'[r] = "resumed" /\ control'[r] = Resuming(control[r])
          /\ UNCHANGED <<lease, checkpoint, call, at, handling, grounded, fresh>>
      BY <1>14, <2>1, <2>2, <1>a DEF AcknowledgeResumed, Mutate, Goto, Write
    <3>2. /\ control'[r].status = "resuming" /\ Valid(control'[r])
          /\ control'[r].authority = "agent"
      BY <2>1, <3>1, <1>a, <1>b DEF Resuming, Valid, Records, RunInv,
                                    RecordAgrees
    <3> QED
      BY <2>1, <3>1, <3>2, <1>b
      DEF RunInv, RecordAgrees, MemoryAgrees, Working, Boundaries, Authorised,
          Acting, Live
  <2>3. CASE control[r].request # handling[r]
    <3>1. EndRun(r, "control") /\ UNCHANGED <<control, lease>>
      BY <1>14, <2>3 DEF AcknowledgeResumed, Mutate
    <3> QED
      BY <2>1, <3>1, <1>b, <1>d, EndRunInv
  <2> QED
    BY <2>2, <2>3
<1>15. CASE AcknowledgeFreshObservation(r)
  <2>1. /\ pc[r] = "observed" /\ call[r] # "none"
        /\ control[r].status \in {"active", "pause_requested", "resuming"}
        /\ Valid(control[r]) /\ lease = r
    BY <1>15, <1>b DEF AcknowledgeFreshObservation, RunInv, RecordAgrees, Live,
                       MemoryAgrees, Working
  <2>2. /\ pc'[r] \in {"before_tool", "before_provider"}
        /\ control'[r] = IF control[r].status = "resuming"
                         THEN Reobserved(control[r]) ELSE control[r]
        /\ UNCHANGED <<lease, checkpoint, call, at, handling, grounded, fresh>>
    BY <1>15, <2>1, <1>a DEF AcknowledgeFreshObservation, Mutate, Goto, Write
  <2>3. /\ control'[r].status \in {"active", "pause_requested"}
        /\ Valid(control'[r])
        /\ control'[r].authority # "released"
    BY <2>1, <2>2, <1>a DEF Reobserved, Valid, Records
  <2> QED
    BY <2>1, <2>2, <2>3, <1>b
    DEF RunInv, RecordAgrees, MemoryAgrees, Working, Boundaries, Authorised,
        Acting, Live
<1>16. CASE RequestFromRunner(r)
  <2>1. pc[r] = "taking_over"
    BY <1>16 DEF RequestFromRunner
  <2>2. CASE control[r].status = "active"
    <3>1. /\ pc'[r] = "after_approval"
          /\ control'[r] = Requested(control[r], "takeover", requests + 1)
          /\ UNCHANGED <<lease, checkpoint, call, at, handling, grounded, fresh>>
      BY <1>16, <2>2, <1>a DEF RequestFromRunner, Goto, Write
    <3>2. /\ control'[r].status = "pause_requested" /\ Valid(control'[r])
          /\ control'[r].authority = "agent"
      BY <2>2, <3>1, <1>a, <1>b DEF Requested, Valid, Records, RunInv,
                                    RecordAgrees
    <3> QED
      BY <2>1, <3>1, <3>2, <1>b
      DEF RunInv, RecordAgrees, MemoryAgrees, Working, Boundaries, Authorised,
          Acting, Live
  <2>3. CASE control[r].status # "active"
    BY <1>16, <2>1, <2>3, <1>b, <1>c, EndRunInv DEF RequestFromRunner, Working
  <2> QED
    BY <2>2, <2>3
<1>17. CASE CloseControl(r)
  <2>1. control'[r] = ClosedRecord(control[r])
    BY <1>17, <1>a DEF CloseControl, Write
  <2>2. Valid(control'[r]) /\ control'[r].authority = "none"
    BY <2>1, <1>a, <1>b DEF ClosedRecord, Valid, Records, RunInv, RecordAgrees
  <2>3. lease' = r
    BY <1>17, <1>b, <1>d DEF CloseControl, RunInv
  <2> QED
    BY <1>17, <2>2, <2>3, ForgetInv DEF CloseControl
<1>18. CASE ReleaseLease(r)
  BY <1>18, <1>b, ForgetInv DEF ReleaseLease, RunInv, RecordAgrees
<1>19. CASE Crash(r)
  BY <1>19, <1>b, ForgetInv DEF Crash, RunInv, RecordAgrees
<1>20. CASE CancelWait(r)
  BY <1>20, <1>b, <1>d, EndRunInv DEF CancelWait
<1> QED
  BY <1>1, <1>2, <1>3, <1>4, <1>5, <1>6, <1>7, <1>8, <1>9, <1>10, <1>11,
     <1>12, <1>13, <1>14, <1>15, <1>16, <1>17, <1>18, <1>19, <1>20
  DEF RunnerStep

(* A command changes the record only from active to pause_requested and    *)
(* from paused to resume_requested, at any moment of the Runner's life.    *)
LEMMA OperatorInv ==
  ASSUME TypeOK, ControlInv, NEW o \in Operators, OperatorStep(o)
  PROVE  ControlInv'
<1> USE DEF record, runner
<1>a. control \in [Runs -> Records] /\ requests \in Nat
  BY DEF TypeOK
<1>b. \A r \in Runs : RunInv(r)
  BY DEF ControlInv, RunInv
<1>c. UNCHANGED <<lease, checkpoint, runner, fresh>>
  BY DEF OperatorStep, Command, LockCommand, ApplyPause, ApplyResume,
         KillCommand
<1> SUFFICES ASSUME NEW r \in Runs PROVE RunInv(r)'
  BY DEF ControlInv, RunInv
<1>d. control'[r] = control[r] => RunInv(r)'
  BY <1>b, <1>c, FrameInv DEF Same
<1>1. CASE Command(o) \/ LockCommand(o) \/ KillCommand(o)
  BY <1>1, <1>d DEF Command, LockCommand, KillCommand
<1>2. CASE ApplyPause(o)
  <2>1. CASE op[o].run = r /\ control[r].status = "active"
                /\ control'[r] # control[r]
    <3>1. /\ op[o].command \in Kinds
          /\ control'[r] = Requested(control[r], op[o].command, requests + 1)
      BY <1>2, <1>a, <2>1 DEF ApplyPause, Write
    <3>2. /\ control'[r].status = "pause_requested"
          /\ Valid(control'[r]) /\ control'[r].authority = "agent"
      BY <1>a, <1>b, <2>1, <3>1
      DEF Requested, Valid, Records, Kinds, RunInv, RecordAgrees
    <3> QED
      BY <1>b, <1>c, <2>1, <3>2
      DEF RunInv, RecordAgrees, MemoryAgrees, Working, Boundaries, Authorised,
          Acting, Live, IsOpen
  <2>2. CASE ~(op[o].run = r /\ control[r].status = "active")
    BY <1>2, <1>a, <1>d, <2>2 DEF ApplyPause, Write
  <2> QED
    BY <1>d, <2>1, <2>2
<1>3. CASE ApplyResume(o)
  <2>1. CASE op[o].run = r /\ control[r].status = "paused"
                /\ control'[r] # control[r]
    <3>1. control'[r] = ResumeRequested(control[r])
      BY <1>3, <1>a, <2>1 DEF ApplyResume, Write
    <3>2. /\ control'[r].status = "resume_requested" /\ Valid(control'[r])
      BY <1>a, <1>b, <2>1, <3>1
      DEF ResumeRequested, Valid, Records, RunInv, RecordAgrees
    <3> QED
      BY <1>b, <1>c, <2>1, <3>2
      DEF RunInv, RecordAgrees, MemoryAgrees, Working, Boundaries, Authorised,
          Acting, Live, IsOpen
  <2>2. CASE ~(op[o].run = r /\ control[r].status = "paused")
    BY <1>3, <1>a, <1>d, <2>2 DEF ApplyResume, Write, MayResume
  <2> QED
    BY <1>d, <2>1, <2>2
<1> QED
  BY <1>1, <1>2, <1>3 DEF OperatorStep

(* While the record is released, the human of HumanActs uses the desktop   *)
(* of the only open run, which has forgotten its observation.              *)
LEMMA EnvironmentInv ==
  ASSUME TypeOK, ControlInv, OtherTakes \/ OtherLeaves \/ HumanActs
  PROVE  ControlInv'
<1> USE DEF record, runner
<1>1. \A r \in Runs : RunInv(r) /\ Same(r)
  BY DEF ControlInv, RunInv, Same, OtherTakes, OtherLeaves, HumanActs
<1> SUFFICES ASSUME NEW r \in Runs PROVE RunInv(r)'
  BY DEF ControlInv, RunInv
<1>2. CASE OtherTakes \/ OtherLeaves
  <2>1. ~Live(r) /\ fresh'[r] = fresh[r]
    BY <1>1, <1>2, ControlAssumption DEF RunInv, OtherTakes, OtherLeaves
  <2> QED
    BY <1>1, <2>1, FrameInv
<1>3. CASE HumanActs
  <2>1. lease' = lease
    BY <1>3 DEF HumanActs
  <2>2. PICK q \in Runs : Resolves(q) /\ control[q].status = "paused"
    BY <1>3 DEF HumanActs
  <2>3. CASE pc[r] = "closing"
    <3>1. IsOpen(control[r])
      BY <1>1, <2>3 DEF RunInv, RecordAgrees
    <3>2. r = q
      BY <2>2, <3>1 DEF Resolves
    <3> QED
      BY <1>1, <2>1, <2>2, <3>2, FrameInv DEF RunInv, MemoryAgrees
  <2>4. CASE pc[r] # "closing"
    <3>1. grounded[r] => IsOpen(control[r])
      BY <1>1, <2>4 DEF RunInv, RecordAgrees, MemoryAgrees, IsOpen
    <3>2. grounded[r] => r = q
      BY <2>2, <3>1 DEF Resolves
    <3>3. ~grounded[r]
      BY <1>1, <2>2, <3>2 DEF RunInv, MemoryAgrees
    <3> QED
      BY <1>1, <2>1, <3>3, FrameInv
  <2> QED
    BY <2>3, <2>4
<1> QED
  BY <1>2, <1>3

(* The record says what the Runner is doing, and the Runner remembers only *)
(* observations that still hold.                                           *)
THEOREM ControlInvariant == Spec => []ControlInv
<1>1. Init => ControlInv
  BY DEF Init, ControlInv, RecordAgrees, MemoryAgrees, Live, Working,
         Boundaries, Authorised, Acting, NoRecord, Valid
<1>2. TypeOK /\ ControlInv /\ [Next]_vars => ControlInv'
  <2> SUFFICES ASSUME TypeOK, ControlInv, [Next]_vars PROVE ControlInv'
    OBVIOUS
  <2>1. ASSUME NEW r \in Runs, RunnerStep(r) \/ CancelWait(r) \/ Crash(r)
        PROVE  ControlInv'
    <3>1. \A s \in Runs : RunInv(s)'
      BY <2>1, OwnInv, OthersInv
    <3> QED
      BY <3>1 DEF ControlInv, RunInv
  <2>2. CASE UNCHANGED vars
    BY <2>2 DEF vars, record, runner, ControlInv, RecordAgrees, MemoryAgrees,
                Live, Acting
  <2> QED
    BY <2>1, <2>2, OperatorInv, EnvironmentInv DEF Next
<1> QED
  BY <1>1, <1>2, ControlTypes, PTL DEF Spec

-----------------------------------------------------------------------------
(* No call of the Runner or of an operator builds a record that the        *)
(* snapshot class of cooperative_control.py rejects.                       *)
THEOREM RecordsAlwaysValid == Spec => []RecordsValid
<1>1. ControlInv => RecordsValid
  BY DEF ControlInv, RecordAgrees, RecordsValid
<1> QED
  BY <1>1, ControlInvariant, PTL

(* While a record resolves as released no Runner is in a desktop call:     *)
(* the Runner in the call is live, its record is open, hence the one that  *)
(* resolves, and an open record of a working Runner is not released.       *)
THEOREM DesktopExclusive == Spec => []ExclusiveDesktop
<1>1. ControlInv => ExclusiveDesktop
  <2> SUFFICES ASSUME ControlInv, NEW r \in Runs, NEW s \in Runs,
                      Resolves(r), control[r].authority = "released",
                      pc[s] = "executing"
               PROVE  FALSE
    BY DEF ExclusiveDesktop
  <2>1. control[s].status \in {"active", "pause_requested", "resuming"}
    BY DEF ControlInv, RecordAgrees, Working
  <2>2. s = r
    BY <2>1 DEF Resolves, IsOpen
  <2>3. control[r].status \in {"paused", "resume_requested"}
    BY DEF ControlInv, RecordAgrees
  <2> QED
    BY <2>1, <2>2, <2>3
<1> QED
  BY <1>1, ControlInvariant, PTL

(* Every action the Runner takes rests on an observation that nobody, agent *)
(* or released human, has overtaken.                                       *)
THEOREM ActionsFresh == Spec => []ActsOnFreshObservation
<1>1. ControlInv => ActsOnFreshObservation
  BY DEF ControlInv, MemoryAgrees, Acting, ActsOnFreshObservation
<1> QED
  BY <1>1, ControlInvariant, PTL

(* No action is in the desktop call while the control record still demands *)
(* the observation that must follow a takeover.                            *)
THEOREM ActionsUnderActiveRecord == Spec => []ActsUnderActiveRecord
<1>1. ControlInv => ActsUnderActiveRecord
  BY DEF ControlInv, RecordAgrees, MemoryAgrees, Acting, Working, Valid,
         ActsUnderActiveRecord
<1> QED
  BY <1>1, ControlInvariant, PTL

(* Only acknowledge_paused publishes a released record, and its Runner has *)
(* written the PAUSED checkpoint before it asks for the control lock.      *)
THEOREM PauseDurable == Spec => DurableBeforeReleased
<1>1. TypeOK /\ ControlInv /\ [Next]_vars =>
        [\A r \in Runs :
           control[r].authority # "released"
             /\ control'[r].authority = "released"
             => checkpoint[r] = [phase |-> "PAUSED", reobserve |-> TRUE]]_vars
  <2> SUFFICES ASSUME TypeOK, ControlInv, [Next]_vars, NEW r \in Runs,
                      control[r].authority # "released",
                      control'[r].authority = "released"
               PROVE  checkpoint[r] = [phase |-> "PAUSED", reobserve |-> TRUE]
    OBVIOUS
  <2> USE DEF record, runner
  <2>1. control \in [Runs -> Records]
    BY DEF TypeOK
  <2>2. control'[r] # control[r]
    OBVIOUS
  <2>3. ASSUME NEW s \in Runs, RunnerStep(s) \/ CancelWait(s) \/ Crash(s)
        PROVE  checkpoint[r] = [phase |-> "PAUSED", reobserve |-> TRUE]
    <3>1. s = r
      BY <2>2, <2>3, OthersSame DEF Same
    <3>2. CASE AcknowledgePaused(r)
      BY <3>2 DEF AcknowledgePaused, ControlInv, RecordAgrees
    <3>3. \A c : control' = [control EXCEPT ![r] = c] => control'[r] = c
      BY <2>1
    <3>4. CASE Start(r) \/ AcknowledgeResumed(r) \/ RequestFromRunner(r)
                 \/ CloseControl(r) \/ AcknowledgeFreshObservation(r)
      <4>1. \/ control'[r] = Started
            \/ control'[r] = Resuming(control[r])
            \/ control'[r] = Requested(control[r], "takeover", requests + 1)
            \/ control'[r] = ClosedRecord(control[r])
            \/ control'[r] = Reobserved(control[r])
        BY <2>2, <3>3, <3>4
        DEF Start, AcknowledgeResumed, RequestFromRunner, CloseControl,
            AcknowledgeFreshObservation, Mutate, Write
      <4>2. control[r] \in Records
        BY <2>1
      <4>3. /\ Started.authority = "agent"
            /\ Resuming(control[r]).authority = "agent"
            /\ ClosedRecord(control[r]).authority = "none"
            /\ Requested(control[r], "takeover", requests + 1).authority
                  = control[r].authority
            /\ Reobserved(control[r]).authority = control[r].authority
        BY <4>2 DEF Started, Resuming, Requested, ClosedRecord, Reobserved,
                    Records
      <4> QED
        BY <4>1, <4>3
    <3>5. CASE ~(\/ AcknowledgePaused(r) \/ Start(r) \/ AcknowledgeResumed(r)
                 \/ RequestFromRunner(r) \/ CloseControl(r)
                 \/ AcknowledgeFreshObservation(r))
      BY <2>2, <2>3, <3>1, <3>5
      DEF RunnerStep, CancelWait, Crash, Prepare, Poll, Provider, Authorize,
          Decide, Execute, Pause, WaitForResume, Resumed, LockControl, Busy,
          ReleaseLease
    <3> QED
      BY <3>2, <3>3, <3>4, <3>5
  <2>4. ASSUME NEW o \in Operators, OperatorStep(o)
        PROVE  FALSE
    <3>1. \/ control'[r] = Requested(control[r], op[o].command, requests + 1)
          \/ /\ control'[r] = ResumeRequested(control[r])
             /\ control[r].status = "paused"
      BY <2>1, <2>2, <2>4
      DEF OperatorStep, Command, LockCommand, ApplyPause, ApplyResume,
          KillCommand, Write, MayResume
    <3>2. control[r] \in Records /\ Valid(control[r])
      BY <2>1 DEF ControlInv, RecordAgrees
    <3> QED
      BY <3>1, <3>2 DEF Requested, ResumeRequested, Records, Valid
  <2>5. ~(OtherTakes \/ OtherLeaves \/ HumanActs) /\ ~UNCHANGED vars
    BY <2>2 DEF OtherTakes, OtherLeaves, HumanActs, vars
  <2> QED
    BY <2>3, <2>4, <2>5 DEF Next
<1> QED
  BY <1>1, ControlTypes, ControlInvariant, PTL DEF Spec, DurableBeforeReleased

(* For any number of runs and commands: the record, the Runner and the      *)
(* desktop agree, no transition builds a bad record, a released desktop is  *)
(* left alone, and an action rests on an observation nobody has overtaken  *)
(* (cooperative_control.py, runner.py).                                    *)
THEOREM ControlSafety == Spec => []ControlSafe
BY ControlTypes, ControlInvariant, RecordsAlwaysValid, DesktopExclusive,
   ActionsFresh, ActionsUnderActiveRecord, PTL DEF ControlSafe
=============================================================================
