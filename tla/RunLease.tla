------------------------------ MODULE RunLease ------------------------------
(***************************************************************************)
(* What the run lock promises its callers, without files: one lease on the *)
(* Agent root.  A lease that ends without a clean release stays on record, *)
(* and only a caller that consents to recovery may start another over it.  *)
(***************************************************************************)
CONSTANTS
    Proc,       \* the RunLock instances that contend for one Agent root
    NoOne       \* not an instance

VARIABLES
    holder,         \* the instance whose lease is running, or NoOne
    outstanding,    \* TRUE while the last lease granted is not released
    consent         \* the instances whose caller passed recover_stale

leaseVars == <<holder, outstanding, consent>>

LeaseInit ==
    /\ holder = NoOne
    /\ outstanding = FALSE
    /\ consent = [p \in Proc |-> FALSE]

(* A caller states, or takes back, its consent; it holds nothing.          *)
Consent(p) ==
    /\ holder # p
    /\ \E r \in BOOLEAN : consent' = [consent EXCEPT ![p] = r]
    /\ UNCHANGED <<holder, outstanding>>

(* A lease starts: over a lease still on record only with consent.         *)
Grant(p) ==
    /\ holder = NoOne
    /\ outstanding => consent[p]
    /\ holder' = p
    /\ outstanding' = TRUE
    /\ UNCHANGED consent

(* A lease ends cleanly: nothing stays on record.                          *)
Release(p) ==
    /\ holder = p
    /\ holder' = NoOne
    /\ outstanding' = FALSE
    /\ UNCHANGED consent

(* The owner dies, or cannot prove its ownership: the record stays.        *)
Abandon(p) ==
    /\ holder = p
    /\ holder' = NoOne
    /\ consent' = [consent EXCEPT ![p] = FALSE]
    /\ UNCHANGED outstanding

LeaseNext == \E p \in Proc : Consent(p) \/ Grant(p) \/ Release(p) \/ Abandon(p)

LeaseSpec == LeaseInit /\ [][LeaseNext]_leaseVars
=============================================================================
