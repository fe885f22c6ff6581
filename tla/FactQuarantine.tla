--------------------------- MODULE FactQuarantine ---------------------------
(***************************************************************************)
(* computer_use_agent/learning_quarantine.py: facts taken from successful  *)
(* episodes wait in a private database until an operator confirms them.    *)
(* Each call is one immediate transaction; operators act on a record that  *)
(* they were shown some time ago.                                          *)
(***************************************************************************)
EXTENDS Integers, Sequences, FiniteSets, WorldState

(***************************************************************************)
(* What a finished run counts as (episode_outcome.py).  A run is [phase,   *)
(* used, calls, results, budget, item]: its terminal phase, the side       *)
(* effects it was charged for, its tool calls and their results, the model *)
(* turns charged and seen, and how the campaign item it worked on ended    *)
(* ("none" outside a campaign).                                            *)
(***************************************************************************)
(* the results a record may hold: [effect, status, dispatch]               *)
ResultAllowed(r) ==
    <<r.status, r.dispatch>> \in
        {<<"success", "dispatched">>, <<"action_error", "dispatched">>,
         <<"transport_error", "not_dispatched">>, <<"rejected", "not_dispatched">>,
         <<"unknown_outcome", "dispatched">>, <<"unknown_outcome", "unknown">>}

(* _build_costs: what was charged is what the trace shows                  *)
CostsReconcile(run) ==
    /\ run.used <= run.calls
    /\ run.turns.charged = run.turns.seen
    /\ Len(run.results) <= run.calls
    /\ \A i \in DOMAIN run.results : ResultAllowed(run.results[i])

(* _reported_metric: a sum is complete only if every report is there       *)
Coverage(reported, expected) ==
    IF reported = expected THEN "complete"
    ELSE IF reported = 0 THEN "missing" ELSE "partial"

(* _external_effect                                                        *)
ExternalEffect(run) ==
    LET relevant == SelectSeq(run.results, LAMBDA r : r.effect)
        Uncertain(r) ==
            \/ r.status = "unknown_outcome"
            \/ r.dispatch \in {"dispatched", "unknown"} /\ r.status # "success"
        successes == Len(SelectSeq(relevant, LAMBDA r : r.status = "success"))
    IN IF run.used = 0 THEN "none"
       ELSE IF \E i \in DOMAIN relevant : Uncertain(relevant[i]) THEN "unknown"
       ELSE IF successes = run.used THEN "verified_committed" ELSE "unknown"

BaseOutcome ==
    [success |-> "verified_success", failed |-> "verified_failure",
     unknown_outcome |-> "uncertain", cancelled |-> "cancelled"]

DesiredOutcome ==
    [committed |-> "verified_success", retryable |-> "verified_failure",
     skipped |-> "verified_failure", challenge |-> "challenged",
     uncertain |-> "uncertain"]

(* _reconcile_campaign_outcome: the campaign may only lower the run's word *)
Reconciled(base, item) ==
    LET desired == DesiredOutcome[item]
    IN IF item = "none" THEN base
       ELSE IF \/ base = desired
               \/ /\ desired \in {"challenged", "verified_failure"}
                  /\ base \in {"verified_success", "verified_failure"}
       THEN desired ELSE "conflicted"

(* build_episode_outcome: only of a finished run, and of an item that is   *)
(* settled and was worked on by this run                                   *)
MayBuildEpisode(run) ==
    /\ run.phase \in DOMAIN BaseOutcome
    /\ run.item \in DOMAIN DesiredOutcome \cup {"none"}
    /\ CostsReconcile(run)
Episode(run) ==
    [run |-> run.id, epoch |-> run.epoch, effect |-> ExternalEffect(run),
     outcome |-> Reconciled(BaseOutcome[run.phase], run.item),
     latency |-> Coverage(Len(run.results), run.calls)]

-----------------------------------------------------------------------------
CONSTANTS
    Operators,
    Ids,            \* identities of candidates: each names one episode and fact
    Runs,           \* id -> the finished run that it comes from
    Observed,       \* id -> the fact in the snapshot of that run
    Context,        \* id -> where the host is when it extracts
    Values,
    MaxFacts, MaxEvents, Lifetime,
    LastTime        \* bound of the instance

ASSUME LimitsAssumption ==
    /\ {MaxEvents, MaxFacts, Lifetime, LastTime} \subseteq Nat
    /\ MaxEvents >= 2 /\ MaxFacts >= 1 /\ Lifetime >= 1

VARIABLES
    clock,
    facts,          \* id -> [status, rev, value, created, updated, expires, edited]
    events,         \* id -> sequence of [action, prior, record, at]
    shown,          \* operator -> [id, record] on the operator's screen
    approved        \* history: id -> what the operator was shown and confirmed

factVars == <<clock, facts, events, shown, approved>>

NoRecord == [status |-> "none"]
NoScreen == [id |-> "none", record |-> NoRecord]

(* CandidateFactRecord.__post_init__                                       *)
FactValid(r) ==
    /\ r.updated >= r.created
    /\ r.value \in Values
    /\ IF r.status = "expired" THEN r.expires = r.updated
       ELSE r.expires > r.updated /\ r.expires <= r.created + Lifetime

StatusAt(r) == IF r.expires <= clock THEN "expired" ELSE r.status

(* CandidateFactEvent: the change of status that each action stands for    *)
EventValid(e) ==
    CASE e.action = "extracted" -> e.prior = NoRecord /\ e.record.status = "suggested"
      [] e.action = "deleted" -> e.prior # NoRecord /\ e.record = NoRecord
      [] OTHER ->
            /\ e.prior # NoRecord /\ e.record # NoRecord
            /\ e.record.rev = e.prior.rev + 1
            /\ e.prior.status \in
                IF e.action = "confirmed" THEN {"suggested"} ELSE {"suggested", "confirmed"}
            /\ e.record.status =
                [confirmed |-> "confirmed", edited |-> "suggested",
                 expired |-> "expired"][e.action]

(* _validate_history: the events chain up to the record                    *)
HistoryValid(log, r) ==
    IF log = <<>> THEN r = NoRecord
    ELSE /\ log[1].action = "extracted"
         /\ \A i \in DOMAIN log : EventValid(log[i])
         /\ \A i \in 2..Len(log) :
                log[i].prior = log[i - 1].record /\ log[i].at >= log[i - 1].at
         /\ log[Len(log)].record = r
         /\ r # NoRecord => log[1].at = r.created /\ log[Len(log)].at = r.updated

FactInit ==
    /\ clock = 0
    /\ facts = [i \in Ids |-> NoRecord]
    /\ events = [i \in Ids |-> <<>>]
    /\ shown = [o \in Operators |-> NoScreen]
    /\ approved = [i \in Ids |-> NoRecord]

ClockTick ==
    /\ clock < LastTime
    /\ clock' = clock + 1
    /\ UNCHANGED <<facts, events, shown, approved>>

(* extract_candidate_fact: a fresh number or boolean of a run that ended   *)
(* in verified success with known effects, seen where it was verified      *)
Extractable(i) ==
    /\ MayBuildEpisode(Runs[i])
    /\ LET episode == Episode(Runs[i])
       IN /\ episode.outcome = "verified_success" /\ episode.effect # "unknown"
          /\ episode.epoch = Context[i].observation_epoch
    /\ Observed[i].type \in {"boolean", "integer"}
    /\ Availability(Observed[i], Observed[i].type, Context[i]) = "fresh"

CreateFact_Forgetful(i, record) ==
    /\ Cardinality({j \in Ids : events[j] # <<>>}) < MaxFacts
    /\ facts[i] = NoRecord
    /\ facts' = [facts EXCEPT ![i] = record]
    /\ events' = [events EXCEPT ![i] =
        <<[action |-> "extracted", prior |-> NoRecord, record |-> record, at |-> clock]>>]
(* _create_from_extractor: a fact that was deleted does not come back      *)
CreateFact(i, record) ==
    /\ Cardinality({j \in Ids : events[j] # <<>>}) < MaxFacts
    /\ events[i] = <<>>
    /\ facts' = [facts EXCEPT ![i] = record]
    /\ events' = [events EXCEPT ![i] =
        <<[action |-> "extracted", prior |-> NoRecord, record |-> record, at |-> clock]>>]

Extract(i) ==
    /\ Extractable(i)
    /\ \E expires \in (clock + 1)..(clock + Lifetime) :
        CreateFact(i, [status |-> "suggested", rev |-> 0, value |-> Observed[i].value, created |-> clock,
                   updated |-> clock, expires |-> expires, edited |-> FALSE])
    /\ UNCHANGED <<clock, shown, approved>>

(* get, and list without what has expired                                  *)
Show(o, i) ==
    /\ facts[i] # NoRecord
    /\ HistoryValid(events[i], facts[i])
    /\ shown' = [shown EXCEPT ![o] = [id |-> i, record |-> facts[i]]]
    /\ shown' # shown
    /\ UNCHANGED <<clock, facts, events, approved>>

Mutate_Blind(o, action, new) ==
    LET i == shown[o].id
        current == facts[i]
        log == events[i]
    IN /\ shown[o] # NoScreen /\ current # NoRecord
       /\ clock >= current.updated /\ StatusAt(current) # "expired"
       /\ HistoryValid(log, current)
       /\ Len(log) < MaxEvents - 1
       /\ LET record == [new EXCEPT !.rev = current.rev + 1, !.updated = clock]
              event == [action |-> action, prior |-> current, record |-> record, at |-> clock]
          IN /\ FactValid(record) /\ EventValid(event)
             /\ facts' = [facts EXCEPT ![i] = record]
             /\ events' = [events EXCEPT ![i] = Append(log, event)]
       /\ UNCHANGED <<clock, shown>>
Mutate_LastSlot(o, action, new) ==
    LET i == shown[o].id
        current == facts[i]
        log == events[i]
    IN /\ shown[o] # NoScreen /\ current # NoRecord
       /\ current.rev = shown[o].record.rev
       /\ clock >= current.updated /\ StatusAt(current) # "expired"
       /\ HistoryValid(log, current)
       /\ Len(log) < MaxEvents
       /\ LET record == [new EXCEPT !.rev = current.rev + 1, !.updated = clock]
              event == [action |-> action, prior |-> current, record |-> record, at |-> clock]
          IN /\ FactValid(record) /\ EventValid(event)
             /\ facts' = [facts EXCEPT ![i] = record]
             /\ events' = [events EXCEPT ![i] = Append(log, event)]
       /\ UNCHANGED <<clock, shown>>
(* _mutate: compare and swap on the revision the operator was shown; new   *)
(* is the record with what the action changes. The last event is left for  *)
(* a deletion                                                              *)
Mutate(o, action, new) ==
    LET i == shown[o].id
        current == facts[i]
        log == events[i]
    IN /\ shown[o] # NoScreen /\ current # NoRecord
       /\ current.rev = shown[o].record.rev
       /\ clock >= current.updated /\ StatusAt(current) # "expired"
       /\ HistoryValid(log, current)
       /\ Len(log) < MaxEvents - 1
       /\ LET record == [new EXCEPT !.rev = current.rev + 1, !.updated = clock]
              event == [action |-> action, prior |-> current, record |-> record, at |-> clock]
          IN /\ FactValid(record) /\ EventValid(event)
             /\ facts' = [facts EXCEPT ![i] = record]
             /\ events' = [events EXCEPT ![i] = Append(log, event)]
       /\ UNCHANGED <<clock, shown>>

Confirm(o) ==
    /\ Mutate(o, "confirmed", [facts[shown[o].id] EXCEPT !.status = "confirmed"])
    /\ approved' = [approved EXCEPT ![shown[o].id] = shown[o].record]

(* an edited fact has to be confirmed again                                *)
Edit(o) ==
    \E value \in Values, expires \in (clock + 1)..(clock + Lifetime) :
        /\ Mutate(o, "edited", [facts[shown[o].id] EXCEPT !.status = "suggested",
                !.value = value, !.expires = expires, !.edited = TRUE])
        /\ UNCHANGED approved

Expire(o) ==
    /\ Mutate(o, "expired", [facts[shown[o].id] EXCEPT !.status = "expired",
                               !.expires = clock])
    /\ UNCHANGED approved

(* delete: also of what has expired; the events remain                     *)
Delete(o) ==
    LET i == shown[o].id
        log == events[i]
    IN /\ shown[o] # NoScreen /\ facts[i] # NoRecord
       /\ facts[i].rev = shown[o].record.rev
       /\ clock >= facts[i].updated
       /\ HistoryValid(log, facts[i])
       /\ Len(log) < MaxEvents
       /\ facts' = [facts EXCEPT ![i] = NoRecord]
       /\ events' = [events EXCEPT ![i] = Append(log,
            [action |-> "deleted", prior |-> facts[i], record |-> NoRecord, at |-> clock])]
       /\ UNCHANGED <<clock, shown, approved>>

FactNext ==
    \/ ClockTick
    \/ \E i \in Ids : Extract(i)
    \/ \E o \in Operators :
        \/ Confirm(o) \/ Edit(o) \/ Expire(o) \/ Delete(o)
        \/ \E i \in Ids : Show(o, i)

FactSpec == FactInit /\ [][FactNext]_factVars
-----------------------------------------------------------------------------
(* A confirmed fact is, value and lifetime, the one the operator was shown *)
(* when confirming it, however many operators edited it in the meantime.   *)
ConfirmedAsShown ==
    \A i \in Ids : facts[i].status = "confirmed" =>
        /\ facts[i].value = approved[i].value
        /\ facts[i].expires = approved[i].expires

(* Whatever was done to a fact before, the operator can still delete it:   *)
(* its history is valid and has room for one more event.                   *)
CanBeForgotten ==
    \A i \in Ids : facts[i] # NoRecord =>
        HistoryValid(events[i], facts[i]) /\ Len(events[i]) < MaxEvents

(* What an operator has deleted stays deleted: the history that forbids    *)
(* extracting it again is kept.                                            *)
StaysForgotten ==
    [][\A i \in Ids :
        (facts[i] = NoRecord /\ events[i] # <<>>) =>
            (facts'[i] = NoRecord /\ events'[i] = events[i])]_factVars

(* The operator has the last word on a fact: what is confirmed is what was *)
(* shown, and it can always be taken back.                                 *)
OperatorDecides == ConfirmedAsShown /\ CanBeForgotten
=============================================================================
