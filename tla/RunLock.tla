------------------------------ MODULE RunLock -------------------------------
(***************************************************************************)
(* computer_use_agent/run_lock.py: the lock file that makes one process    *)
(* the only Agent Host of a user-local root.  A lease is an operating-     *)
(* system lock on the file's descriptor together with an owner record in   *)
(* the file.  The two are not changed together: the file is opened, given  *)
(* a sentinel byte, locked, read, truncated and written in steps of which  *)
(* other instances (and the is_run_lock_held probe) see the middle, and a  *)
(* process may die between any two of them.                                *)
(***************************************************************************)
CONSTANTS
    Proc,           \* RunLock instances; each has a descriptor of its own
    NoOne,          \* no instance
    LockKinds       \* what the systems' locks do to a write to a locked byte:
                    \* "mandatory", it fails (msvcrt.locking), or "advisory",
                    \* it does not (fcntl.flock).  A system has one of them;
                    \* with both, the behaviours of either are behaviours

(* What os.read finds, other than an owner record.                         *)
Markers == {"absent", "empty", "nul", "malformed", "released"}

ASSUME RunLockAssumption ==
    /\ NoOne \notin Proc
    /\ Proc \cap Markers = {}
    /\ NoOne \notin Markers
    /\ LockKinds \subseteq {"mandatory", "advisory"}

VARIABLES
    file,           \* content of active-run.lock: a marker, or the instance
                    \* whose owner record it holds
    osLock,         \* the instance whose descriptor is locked, or NoOne
    where,             \* where each instance is in acquire, release or a probe
    created,        \* the instance's open created the file (O_EXCL)
    recover,        \* the recover_stale argument of the call
    outstanding     \* history: the last lease granted is not released

lockVars == <<file, osLock, where, created, recover, outstanding>>

LockSteps == {"idle", "opened", "fill", "lock", "check", "writing", "held",
          "releasing", "unlocking", "probing", "refused"}

LockTypes ==
    /\ file \in Markers \cup Proc
    /\ osLock \in Proc \cup {NoOne}
    /\ where \in [Proc -> LockSteps]
    /\ created \in [Proc -> BOOLEAN]
    /\ recover \in [Proc -> BOOLEAN]
    /\ outstanding \in BOOLEAN

LockInit ==
    /\ file = "absent"
    /\ osLock = NoOne
    /\ where = [p \in Proc |-> "idle"]
    /\ created = [p \in Proc |-> FALSE]
    /\ recover = [p \in Proc |-> FALSE]
    /\ outstanding = FALSE

(* The instance's call is over: its descriptor is closed.                  *)
Leave(p, step) ==
    /\ where' = [where EXCEPT ![p] = step]
    /\ created' = [created EXCEPT ![p] = FALSE]
    /\ recover' = [recover EXCEPT ![p] = FALSE]

StepTo(p, step) ==
    /\ where' = [where EXCEPT ![p] = step]
    /\ UNCHANGED <<created, recover>>

-----------------------------------------------------------------------------
(* acquire: open the file, creating it if it is absent.                    *)
Open(p) ==
    /\ where[p] \in {"idle", "refused"}
    /\ \E r \in BOOLEAN : recover' = [recover EXCEPT ![p] = r]
    /\ created' = [created EXCEPT ![p] = file = "absent"]
    /\ file' = IF file = "absent" THEN "empty" ELSE file
    /\ where' = [where EXCEPT ![p] = "opened"]
    /\ UNCHANGED <<osLock, outstanding>>

(* fstat: an empty file is to be given its sentinel byte, before the OS    *)
(* lock is asked for.                                                      *)
Stat(p) ==
    /\ where[p] = "opened"
    /\ StepTo(p, IF file = "empty" THEN "fill" ELSE "lock")
    /\ UNCHANGED <<file, osLock, outstanding>>

(* A NUL written at offset 0: over anything but an empty file it spoils    *)
(* the first byte of the JSON.                                             *)
WithSentinel(content) ==
    IF content \in {"empty", "nul"} THEN "nul" ELSE "malformed"

Fill(p) ==
    /\ where[p] = "fill"
    /\ \E kind \in LockKinds :
        IF kind = "mandatory" /\ osLock # NoOne
        THEN Leave(p, "refused") /\ UNCHANGED file
        ELSE StepTo(p, "lock") /\ file' = WithSentinel(file)
    /\ UNCHANGED <<osLock, outstanding>>

OsLockFree_Blocking == TRUE
OsLockFree == osLock = NoOne

(* _acquire_os_lock never waits: it succeeds or the call is refused.       *)
Lock(p) ==
    /\ where[p] = "lock"
    /\ IF OsLockFree
       THEN StepTo(p, "check") /\ osLock' = p
       ELSE Leave(p, "refused") /\ UNCHANGED osLock
    /\ UNCHANGED <<file, outstanding>>

AcceptsPayload_AnyOwner(p) ==
    IF created[p] THEN file = "nul" ELSE file = "released" \/ file \in Proc

(* The creator must find its own sentinel; anybody else the released       *)
(* marker or, with recover_stale, the well-formed record of an owner.      *)
AcceptsPayload(p) ==
    IF created[p] THEN file \in {"empty", "nul"}
    ELSE file = "released" \/ (recover[p] /\ file \in Proc)

(* Read and judge the payload; _write_payload starts by truncating it.     *)
Check(p) ==
    /\ where[p] = "check"
    /\ IF AcceptsPayload(p)
       THEN /\ StepTo(p, "writing")
            /\ file' = "empty"
            /\ UNCHANGED osLock
       ELSE /\ Leave(p, "refused")
            /\ osLock' = NoOne
            /\ UNCHANGED file
    /\ UNCHANGED outstanding

WriteOwner(p) ==
    /\ where[p] = "writing"
    /\ file' = p
    /\ where' = [where EXCEPT ![p] = "held"]
    /\ outstanding' = TRUE
    /\ UNCHANGED <<osLock, created, recover>>

-----------------------------------------------------------------------------
(* release: the record must still carry this owner's token.  Otherwise     *)
(* RunLockOwnershipError is raised, and the descriptor closed all the same. *)
BeginRelease(p) ==
    /\ where[p] = "held"
    /\ IF file = p
       THEN StepTo(p, "releasing") /\ file' = "empty" /\ UNCHANGED osLock
       ELSE Leave(p, "idle") /\ osLock' = NoOne /\ UNCHANGED file
    /\ UNCHANGED outstanding

ReleasedPayload_Unknown == "free"
ReleasedPayload == "released"

WriteReleased(p) ==
    /\ where[p] = "releasing"
    /\ file' = ReleasedPayload
    /\ StepTo(p, "unlocking")
    /\ outstanding' = FALSE
    /\ UNCHANGED osLock

EndRelease(p) ==
    /\ where[p] = "unlocking"
    /\ Leave(p, "idle")
    /\ osLock' = NoOne
    /\ UNCHANGED <<file, outstanding>>

-----------------------------------------------------------------------------
(* is_run_lock_held: take the OS lock and give it back; finding it taken   *)
(* changes nothing.                                                        *)
Probe(p) ==
    /\ where[p] \in {"idle", "refused"}
    /\ file # "absent"
    /\ osLock = NoOne
    /\ osLock' = p
    /\ StepTo(p, "probing")
    /\ UNCHANGED <<file, outstanding>>

EndProbe(p) ==
    /\ where[p] = "probing"
    /\ osLock' = NoOne
    /\ Leave(p, "idle")
    /\ UNCHANGED <<file, outstanding>>

(* The process dies: the system closes its descriptor and so unlocks it;   *)
(* the bytes it wrote stay.                                                *)
Die(p) ==
    /\ where[p] \notin {"idle", "refused"}
    /\ osLock' = IF osLock = p THEN NoOne ELSE osLock
    /\ Leave(p, "idle")
    /\ UNCHANGED <<file, outstanding>>

LockNext == \E p \in Proc :
    \/ Open(p) \/ Stat(p) \/ Fill(p) \/ Lock(p) \/ Check(p) \/ WriteOwner(p)
    \/ BeginRelease(p) \/ WriteReleased(p) \/ EndRelease(p)
    \/ Probe(p) \/ EndProbe(p) \/ Die(p)

LockSpec == LockInit /\ [][LockNext]_lockVars

-----------------------------------------------------------------------------
(* The instances whose `acquired` is true, and those whose lease runs: it  *)
(* ends when the released marker is written, before the descriptor is      *)
(* unlocked.                                                               *)
Acquired(p) == where[p] \in {"held", "releasing", "unlocking"}
Holding(p) == where[p] \in {"held", "releasing"}

Holder == IF \E p \in Proc : Holding(p)
          THEN CHOOSE p \in Proc : Holding(p)
          ELSE NoOne

(* Two instances never own the root at once, whatever the order in which   *)
(* their opens, sentinel writes, locks and crashes interleave              *)
(* (RunLock.acquire).                                                      *)
MutualExclusion ==
    \A p, q \in Proc : Acquired(p) /\ Acquired(q) => p = q

(* The lock file implements the lease: a plain acquire never starts over a *)
(* lease that ended without a clean release, although the file that says   *)
(* so is truncated, rewritten and spoiled by others on the way             *)
(* (RunLock.acquire, RunLock.release).                                     *)
Lease == INSTANCE RunLease WITH holder <- Holder, consent <- recover
ImplementsLease == Lease!LeaseSpec

(* What makes the two above inductive.  The OS lock names the one instance *)
(* in the protected steps; the creator of the file is unique, and until it *)
(* has judged the payload nobody can have started a lease, since the file  *)
(* holds neither a released marker nor an owner record.                    *)
Protected == {"check", "writing", "held", "releasing", "unlocking", "probing"}
Leasing == {"writing", "held", "releasing", "unlocking"}
Judging == {"opened", "fill", "lock", "check"}

LockInv ==
    /\ \A p \in Proc : where[p] \in Protected <=> osLock = p
    /\ file = "absent" =>
         /\ ~outstanding
         /\ \A p \in Proc : where[p] \in {"idle", "refused"} /\ ~created[p]
    /\ \A p, q \in Proc : created[p] /\ created[q] => p = q
    /\ \A p \in Proc : created[p] /\ where[p] \in Judging =>
         /\ ~outstanding
         /\ file \in {"empty", "nul"}
         /\ \A q \in Proc : where[q] \notin Leasing
    /\ file = "released" => ~outstanding
    /\ \A p \in Proc : where[p] = "writing" /\ outstanding => recover[p]
    /\ \A p \in Proc : where[p] \in {"held", "releasing"} => outstanding

(* What the runs check of every state: one owner at a time, and what its   *)
(* proof rests on.                                                         *)
LockSafe == LockTypes /\ LockInv /\ MutualExclusion

-----------------------------------------------------------------------------
(* Claims of the source that the code does not keep.                       *)

(* "prevents cooperative processes from replacing the active lease": while *)
(* an instance holds the lease, the file is its record.                    *)
ActiveLeaseNotReplaced == \A p \in Proc : where[p] = "held" => file = p
=============================================================================
