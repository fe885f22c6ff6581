----------------------------- MODULE Procedures -----------------------------
(***************************************************************************)
(* computer_use_agent/verified_procedures.py and shadow_strategies.py: a   *)
(* reviewed procedure, its replay on recorded fixtures, the gate that its  *)
(* evaluation has to pass, its life cycle, and the comparison of shadow    *)
(* procedures with the active one.  A procedure is known by its "id"; its  *)
(* task, application, registry and policy are one "scope".                 *)
(***************************************************************************)
EXTENDS Integers, FiniteSets, FiniteSetsExt, SequencesExt

VerifiedSuccess == 0
SafeStop == -1
NoValue == -1
NoGate == [suite |-> <<>>]

EffectOf ==
    [find |-> "observation", ui_snapshot |-> "observation", click |-> "side_effect"]

(* five of the nine cost fields; the others behave as "tokens" does        *)
CostFields == {"calls", "effects", "observations", "approvals", "tokens"}
NoCost == [f \in CostFields |-> 0]
Plus(a, b) == [f \in CostFields |-> a[f] + b[f]]

IsStep(s) ==
    /\ s.kind \in {"observation", "action", "verify"}
    /\ EffectOf[s.tool] = IF s.kind = "action" THEN "side_effect" ELSE "observation"
    /\ s.kind = "verify" <=> s.post # NoValue

(* ProcedureDefinition: targets lie ahead, every step is reachable, success *)
(* comes from a verification only, and an action leads to one or stops     *)
IsDefinition(d) ==
    LET n == Len(d.steps)
        Targets(i) == {d.steps[i].ok, d.steps[i].bad}
        reached[i \in 1..n] ==
            i = 1 \/ \E j \in 1..(i - 1) : reached[j] /\ i \in Targets(j)
        actions == {i \in 1..n : d.steps[i].kind = "action"}
    IN /\ d.sources # {} /\ DOMAIN d.pre # {} /\ actions # {}
       /\ IsInjective([i \in 1..n |-> d.steps[i].op])
       /\ \E i \in 1..n : VerifiedSuccess \in Targets(i)
       /\ \A i \in 1..n :
            /\ IsStep(d.steps[i]) /\ reached[i]
            /\ Targets(i) \subseteq {VerifiedSuccess, SafeStop} \cup (i + 1)..n
            /\ VerifiedSuccess \in Targets(i) => d.steps[i].kind = "verify"
       /\ \A i \in actions :
            /\ d.steps[i].bad = SafeStop
            /\ d.steps[i].ok \in 1..n /\ d.steps[d.steps[i].ok].kind = "verify"

(* FixtureOperationResult                                                  *)
IsResponse(r) ==
    /\ r.cost.calls = IF r.sent = "not_dispatched" THEN 0 ELSE 1
    /\ ~(r.outcome = "unknown" /\ r.sent = "not_dispatched")
    /\ r.sent = "unknown" => r.outcome = "unknown"

(* ProcedureReplayFixture, and the order a decoded suite is in             *)
IsFixture(f) ==
    /\ DOMAIN f.facts # {} /\ DOMAIN f.ops # {}
    /\ \A key \in DOMAIN f.ops : IsResponse(f.ops[key])
IsSuite(fixtures) ==
    /\ \A i \in DOMAIN fixtures : IsFixture(fixtures[i])
    /\ \A i, j \in DOMAIN fixtures : i < j => fixtures[i].id < fixtures[j].id

Replayed(terminal, complete, escapes, visited, cost) ==
    [verified |-> terminal = VerifiedSuccess /\ complete /\ escapes = 0,
     complete |-> complete, escapes |-> escapes, visited |-> visited, cost |-> cost]
Stopped(complete) == Replayed(SafeStop, complete, 0, <<>>, NoCost)

(* the costs that the fixture reports are those of the step                *)
CostsFit(s, r) ==
    LET attempted == r.sent # "not_dispatched"
        One(condition) == IF condition THEN 1 ELSE 0
    IN /\ r.cost.effects = One(s.kind = "action" /\ attempted)
       /\ r.cost.observations = One(s.kind # "action" /\ attempted)
       /\ r.cost.approvals = One(s.kind = "action" /\ r.approved)
       /\ s.kind # "action" => ~r.approved
       /\ r.outcome = "success" => attempted

(* replay_procedure, from each step on: targets lie ahead                  *)
Walk(d, f) ==
    LET walk[i \in 1..Len(d.steps)] ==
            LET s == d.steps[i]
                key == <<s.op, s.tool>>
                r == f.ops[key]
                succeeded ==
                    r.outcome = "success" /\ (s.kind = "verify" => r.value = s.post)
                target == IF succeeded THEN s.ok ELSE s.bad
                escape ==
                    /\ s.kind = "action" /\ r.sent # "not_dispatched"
                    /\ ~(r.approved /\ r.fresh)
                rest == IF target \in DOMAIN d.steps THEN walk[target]
                        ELSE Replayed(target, TRUE, 0, <<>>, NoCost)
                seen == [rest EXCEPT !.visited = <<i>> \o @, !.cost = Plus(r.cost, @)]
            IN IF key \notin DOMAIN f.ops THEN Stopped(FALSE)
               ELSE IF ~CostsFit(s, r) THEN Stopped(FALSE)
               ELSE IF escape THEN Replayed(SafeStop, TRUE, 1, <<i>>, r.cost)
               ELSE IF r.outcome = "unknown"
                    THEN Replayed(SafeStop, TRUE, 0, <<i>>, r.cost)
               ELSE seen
    IN walk[1]

Replay(d, f) ==
    CASE f.scope # d.scope -> Stopped(FALSE)
      [] f.scope = d.scope /\ f.heldOut /\ f.source \in d.sources -> Stopped(FALSE)
      [] OTHER ->
            IF \A k \in DOMAIN d.pre : k \in DOMAIN f.facts /\ f.facts[k] = d.pre[k]
            THEN Walk(d, f) ELSE Stopped(TRUE)

MinHeldOut == 2

MayEvaluate(suite) ==
    Len(suite) >= MinHeldOut /\ \A i \in DOMAIN suite : suite[i].heldOut

(* ProcedureEvaluation: the results of a suite and what they sum up to     *)
Evaluate(d, suite) ==
    LET results == [i \in DOMAIN suite |-> Replay(d, suite[i])]
    IN [def |-> d.id, suite |-> [i \in DOMAIN suite |-> suite[i].id],
        fixtures |-> Len(suite),
        verified |-> Cardinality({i \in DOMAIN suite : results[i].verified}),
        escapes |-> Cardinality({i \in DOMAIN suite : results[i].escapes > 0}),
        complete |-> \A i \in DOMAIN suite : results[i].complete,
        cost |-> FoldLeft(LAMBDA c, r : Plus(c, r.cost), NoCost, results)]

(* the improvement that build_activation_gate accepts                      *)
Improves(c, b) ==
    \/ c.verified > b.verified
    \/ /\ c.verified = b.verified /\ c.cost # b.cost
       /\ \A f \in CostFields : c.cost[f] <= b.cost[f]

GatePasses(c, b) ==
    /\ c.def # b.def /\ c.suite = b.suite
    /\ c.complete /\ b.complete
    /\ c.escapes = 0 /\ b.escapes = 0
    /\ c.verified = c.fixtures
    /\ Improves(c, b)

(* ProcedureLifecycleEvent: where each status may be entered from          *)
EnteredFrom ==
    [evaluating |-> {"candidate"}, shadow |-> {"evaluating"}, active |-> {"shadow"},
     deprecated |-> {"active"}, retired |-> {"deprecated"},
     rejected |-> {"candidate", "evaluating", "shadow"},
     rolled_back |-> {"active", "deprecated"}]

IsRecord(r) ==
    /\ r.created <= r.updated /\ r.created < r.expires
    /\ r.target # r.def
    /\ r.status \in {"shadow", "active"} => r.gate # NoGate

CreateCandidate(d, now, expires, target) ==
    [def |-> d.id, status |-> "candidate", rev |-> 0, created |-> now,
     updated |-> now, expires |-> expires, target |-> target, gate |-> NoGate]

(* transition_procedure_candidate, with the review that the step needs     *)
MayTransition(r, target, now, c, b) ==
    /\ now >= r.updated
    /\ r.status \in EnteredFrom[target]
    /\ target \in {"evaluating", "shadow", "active"} => now < r.expires
    /\ target \in {"shadow", "active"} => GatePasses(c, b) /\ c.def = r.def
Transition(r, target, now, c) ==
    [r EXCEPT !.status = target, !.rev = @ + 1, !.updated = now,
              !.gate = IF target \in {"shadow", "active"} THEN [suite |-> c.suite] ELSE @]

(* ShadowStrategyEvidence                                                  *)
NoEvidence == [status |-> "none"]
Evidence(r, e) ==
    IF /\ r.status \in {"active", "shadow"} /\ r.gate # NoGate /\ e.def = r.def
    THEN [status |-> r.status, record |-> r, eval |-> e] ELSE NoEvidence
Current(ev, now) == ev.record.updated <= now /\ now < ev.record.expires

(* ShadowRewardVector.hard_gates_pass                                      *)
HardGatesPass(e) == e.verified = e.fixtures /\ e.complete /\ e.escapes = 0

(* _equivalence_payload: what a procedure does and what it verifies        *)
Authority(d) ==
    LET Select(Test(_)) == SelectSeq(d.steps, Test)
        actions == Select(LAMBDA s : s.kind = "action")
        verified == Select(LAMBDA s : s.kind = "verify" /\ s.ok = VerifiedSuccess)
        Verifying(post) == {i \in DOMAIN verified : verified[i].post = post}
    IN [scope |-> d.scope, pre |-> d.pre,
        actions |-> [i \in DOMAIN actions |-> actions[i].tool],
        posts |-> [post \in {s.post : s \in Range(verified)} |-> Cardinality(Verifying(post))]]

Penalty(e, weights) == MapThenSumSet(LAMBDA f : weights[f] * e.cost[f], CostFields)

(* compare_shadow_strategies accepts the evidence of one active procedure  *)
(* and of shadows equivalent to it ("defs" gives the definitions)          *)
Comparable(active, shadows, defs, now) ==
    /\ active # NoEvidence /\ active.status = "active" /\ shadows # {}
    /\ \A s \in shadows : s # NoEvidence /\ s.status = "shadow"
    /\ \A ev \in {active} \cup shadows :
        /\ Current(ev, now) /\ HardGatesPass(ev.eval)
        /\ ev.eval.suite = active.eval.suite
        /\ Authority(defs[ev.record.def]) = Authority(defs[active.record.def])

(* the shadow that it recommends, if one is strictly better                *)
Recommended(active, shadows, weights) ==
    LET P(ev) == Penalty(ev.eval, weights)
    IN {s \in shadows :
            /\ P(s) < P(active)
            /\ \A t \in shadows \ {s} :
                P(s) < P(t) \/ (P(s) = P(t) /\ s.record.def < t.record.def)}
=============================================================================
