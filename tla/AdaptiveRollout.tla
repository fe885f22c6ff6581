--------------------------- MODULE AdaptiveRollout ---------------------------
(***************************************************************************)
(* computer_use_agent/adaptive_routing.py: one rollout of a shadow         *)
(* procedure against the active one, in rollout.json, moved on by hosts    *)
(* that hold the rollout and the evidence they read some time ago.         *)
(***************************************************************************)
EXTENDS Procedures

CONSTANTS
    Hosts,
    Definitions,    \* id -> procedure; 1 is the active one, 2 the candidate
    Suites,         \* the fixture suites the candidate may be evaluated on
    Contexts,       \* [scope, low]: where a run starts and if it is harmless
    Warmup, Interval, Canaries,     \* AdaptiveRoutingPolicy
    Weights,        \* ShadowRewardWeights
    MaxTime, MaxRuns, MaxReviews    \* bounds of the instance

Baseline == 1
Candidate == 2

ASSUME PolicyAssumption ==
    /\ {Warmup, Interval, Canaries} \subseteq Nat \ {0}
    /\ \E f \in CostFields : Weights[f] > 0
    /\ \A ctx \in Contexts : ctx.low \in BOOLEAN
    /\ {MaxTime, MaxRuns, MaxReviews} \subseteq Nat
ASSUME DefinitionsAssumption ==
    /\ \A p \in {Baseline, Candidate} : IsDefinition(Definitions[p])
    /\ \A s \in Suites : IsSuite(s) /\ MayEvaluate(s)

VARIABLES
    now,
    suite,      \* the fixtures both procedures are evaluated on
    record,     \* procedure -> its life cycle
    file,       \* rollout.json, or NoRollout
    held,       \* host -> the revision it read and the evidence it built then
    runs        \* history: the decisions taken and how their runs ended

vars == <<now, suite, record, file, held, runs>>

NoRollout == [status |-> "none", rev |-> -1]
Nothing == [rev |-> -1, active |-> NoEvidence, candidate |-> NoEvidence]
NoDecision == [choice |-> "none"]

EvaluationOf(p) == Evaluate(Definitions[p], suite)
EvidenceOf(p) == Evidence(record[p], EvaluationOf(p))

(* AdaptiveRoutingRollout.__post_init__, what is checked of every record   *)
RolloutValid(r) ==
    LET total == r.active + r.canary
        pending == IF r.pending = NoDecision THEN 0 ELSE 1
    IN /\ r.created < r.expires
       /\ r.activeOk <= r.active /\ r.canaryOk <= r.canary
       /\ r.canary <= Canaries /\ r.low <= total
       /\ r.canary <= r.low \div Interval
       /\ r.rev = 2 * total - pending /\ total >= pending
       /\ (total = pending) <=> (r.last = 2)
       /\ pending = 1 => r.pending.seq = total
       /\ r.status = "rolled_back" <=> r.reason # "none"
       /\ r.status = "complete" => pending = 0
       /\ r.status = "complete" <=> r.canaryOk = Canaries
       /\ r.status = "warmup" => r.activeOk < Warmup /\ r.canary = 0
       /\ r.status \in {"canary", "complete"} => r.activeOk >= Warmup
       /\ r.status = "rolled_back" /\ pending = 1 => r.pending.choice = "rollback"

Init ==
    /\ now = 0
    /\ suite \in Suites
    /\ record \in
        [{Baseline} -> {[def |-> Baseline, status |-> "active", rev |-> 3, created |-> 0,
                         updated |-> 0, expires |-> e, target |-> 0,
                         gate |-> [suite |-> EvaluationOf(Baseline).suite]]
                            : e \in 1..MaxTime + 1}]
    /\ file = NoRollout
    /\ held = [h \in Hosts |-> Nothing]
    /\ runs = <<>>

Tick ==
    /\ now < MaxTime
    /\ now' = now + 1
    /\ UNCHANGED <<suite, record, file, held, runs>>

(* create_procedure_candidate, pinned to the procedure to go back to       *)
Propose ==
    /\ Candidate \notin DOMAIN record
    /\ \E e \in (now + 1)..MaxTime + 1 :
        record' = record @@ (Candidate :>
                    CreateCandidate(Definitions[Candidate], now, e, Baseline))
    /\ UNCHANGED <<now, suite, file, held, runs>>

(* a reviewer moves a procedure on through transition_procedure_candidate  *)
Review(p, target) ==
    /\ p \in DOMAIN record
    /\ MapThenSumSet(LAMBDA q : record[q].rev, DOMAIN record) < 3 + MaxReviews
    /\ MayTransition(record[p], target, now, EvaluationOf(p), EvaluationOf(Baseline))
    /\ record' = [record EXCEPT ![p] = Transition(@, target, now, EvaluationOf(p))]
    /\ UNCHANGED <<now, suite, file, held, runs>>

(* a caller reads the rollout under its lock and prepares its next call    *)
Load(h) ==
    /\ Candidate \in DOMAIN record
    /\ held' = [held EXCEPT ![h] =
                    [rev |-> file.rev, active |-> EvidenceOf(Baseline),
                     candidate |-> EvidenceOf(Candidate)]]
    /\ held' # held
    /\ UNCHANGED <<now, suite, record, file, runs>>

Crash(h) ==
    /\ held[h] # Nothing
    /\ held' = [held EXCEPT ![h] = Nothing]
    /\ UNCHANGED <<now, suite, record, file, runs>>

(* create_adaptive_rollout on a recommendation, and the store's create     *)
Create(h) ==
    LET a == held[h].active
        c == held[h].candidate
    IN /\ file = NoRollout
       /\ Comparable(a, {c}, Definitions, now)
       /\ c \in Recommended(a, {c}, Weights)
       /\ c.record.target = Baseline
       /\ \E e \in (now + 1)..MaxTime + 1 :
            /\ e <= a.record.expires /\ e <= c.record.expires
            /\ file' = [status |-> "warmup", created |-> now, expires |-> e, rev |-> 0,
                        evidence |-> <<a, c>>, low |-> 0, active |-> 0, activeOk |-> 0,
                        canary |-> 0, canaryOk |-> 0, pending |-> NoDecision,
                        last |-> 2, reason |-> "none"]
       /\ held' = [held EXCEPT ![h] = Nothing]
       /\ UNCHANGED <<now, suite, record, runs>>

(* _require_current_evidence: without the active one there is no selection *)
ActiveCurrent(r, ev) == ev = r.evidence[1] /\ Current(ev, now)
Drift(r, ev) ==
    IF ev # r.evidence[2] THEN "evidence_drift"
    ELSE IF ~Current(ev, now) THEN "evidence_expired" ELSE "none"

(* the run that completes an interval of harmless ones                     *)
CanaryDue(r) == (r.low + 1) % Interval = 0

(* route_adaptive_procedure: which procedure the run gets, and why         *)
Decision(r, ev, ctx) ==
    IF now >= r.expires THEN <<"rollback", "rolled_back", "rollout_expired">>
    ELSE IF Drift(r, ev) # "none" THEN <<"rollback", "rolled_back", Drift(r, ev)>>
    ELSE IF ~ctx.low THEN <<"baseline", r.status, "none">>
    ELSE IF r.activeOk < Warmup THEN <<"baseline", r.status, "none">>
    ELSE IF CanaryDue(r) /\ r.canary < Canaries THEN <<"candidate", "canary", "none">>
    ELSE <<"baseline", "canary", "none">>

Issued_StopUncounted(r, d, ctx) ==
    LET canary == d[1] = "candidate"
        One(condition) == IF condition THEN 1 ELSE 0
    IN [r EXCEPT !.status = d[2], !.reason = d[3], !.rev = @ + 1,
                 !.low = @ + One(ctx.low), !.active = @ + One(d[1] = "baseline"),
                 !.canary = @ + One(canary),
                 !.pending = [choice |-> d[1], low |-> ctx.low,
                              seq |-> r.active + r.canary + 1]]
(* _issue_decision: the decision is counted before the run starts          *)
Issued(r, d, ctx) ==
    LET canary == d[1] = "candidate"
        One(condition) == IF condition THEN 1 ELSE 0
    IN [r EXCEPT !.status = d[2], !.reason = d[3], !.rev = @ + 1,
                 !.low = @ + One(ctx.low), !.active = @ + One(~canary),
                 !.canary = @ + One(canary),
                 !.pending = [choice |-> d[1], low |-> ctx.low,
                              seq |-> r.active + r.canary + 1]]

(* AdaptiveRoutingStore.route: compare and swap on the rollout it read     *)
Route(h, ctx) ==
    LET r == file
        d == Decision(r, held[h].candidate, ctx)
    IN /\ r # NoRollout /\ r.rev = held[h].rev
       /\ Len(runs) < MaxRuns
       /\ r.pending = NoDecision /\ r.status \in {"warmup", "canary"}
       /\ held[h].candidate # NoEvidence
       /\ ActiveCurrent(r, held[h].active)
       /\ ctx.scope = Definitions[Baseline].scope
       /\ ctx.scope = Definitions[held[h].candidate.record.def].scope
       /\ file' = Issued(r, d, ctx)
       /\ held' = [held EXCEPT ![h] = Nothing]
       /\ runs' = Append(runs, [candidate |-> d[1] = "candidate", low |-> ctx.low,
                                verified |-> 2])
       /\ UNCHANGED <<now, suite, record>>

Recorded_CanaryOnly(r, verified) ==
    LET d == r.pending
        back == verified = 0 /\ d.choice = "candidate"
        activeOk == IF verified = 1 /\ d.choice # "candidate" /\ d.low
                    THEN r.activeOk + 1 ELSE r.activeOk
        canaryOk == IF verified = 1 /\ d.choice = "candidate"
                    THEN r.canaryOk + 1 ELSE r.canaryOk
    IN [r EXCEPT !.rev = @ + 1, !.pending = NoDecision, !.last = verified,
                 !.activeOk = activeOk, !.canaryOk = canaryOk,
                 !.reason = IF back THEN "outcome" ELSE @,
                 !.status = IF back THEN "rolled_back"
                            ELSE IF d.choice = "candidate" /\ canaryOk = Canaries
                            THEN "complete"
                            ELSE IF @ = "warmup" /\ activeOk >= Warmup
                            THEN "canary" ELSE @]
(* record_adaptive_outcome: whatever is not verified success rolls back    *)
Recorded(r, verified) ==
    LET d == r.pending
        activeOk == IF verified = 1 /\ d.choice # "candidate" /\ d.low
                    THEN r.activeOk + 1 ELSE r.activeOk
        canaryOk == IF verified = 1 /\ d.choice = "candidate"
                    THEN r.canaryOk + 1 ELSE r.canaryOk
    IN [r EXCEPT !.rev = @ + 1, !.pending = NoDecision, !.last = verified,
                 !.activeOk = activeOk, !.canaryOk = canaryOk,
                 !.reason = IF verified = 0 THEN "outcome" ELSE @,
                 !.status = IF verified = 0 THEN "rolled_back"
                            ELSE IF d.choice = "candidate" /\ canaryOk = Canaries
                            THEN "complete"
                            ELSE IF @ = "warmup" /\ activeOk >= Warmup
                            THEN "canary" ELSE @]

(* AdaptiveRoutingStore.record_outcome, also by a host that restarted      *)
RecordOutcome(h) ==
    LET r == file
    IN /\ r # NoRollout /\ r.rev = held[h].rev /\ r.pending # NoDecision
       /\ \E verified \in {0, 1} :
            /\ file' = Recorded(r, verified)
            /\ held' = [held EXCEPT ![h] = Nothing]
            /\ runs' = [runs EXCEPT ![Len(runs)].verified = verified]
       /\ UNCHANGED <<now, suite, record>>

Next ==
    \/ Tick \/ Propose
    \/ \E p \in {Baseline, Candidate}, target \in DOMAIN EnteredFrom : Review(p, target)
    \/ \E h \in Hosts :
        \/ Load(h) \/ Crash(h) \/ Create(h) \/ RecordOutcome(h)
        \/ \E ctx \in Contexts : Route(h, ctx)

Spec == Init /\ [][Next]_vars
-----------------------------------------------------------------------------
Trial == INSTANCE CanaryTrial

(* Every record that routing computes passes the validation that reading   *)
(* it back applies: no legal sequence of decisions and outcomes leaves a   *)
(* rollout that can no longer be opened.                                   *)
RolloutSound == file = NoRollout \/ RolloutValid(file)

(* Whatever hosts crash, hold stale rollouts or see evidence change, the   *)
(* candidate's share of the runs stays what the policy grants it.          *)
ImplementsTrial == Trial!Spec
=============================================================================
