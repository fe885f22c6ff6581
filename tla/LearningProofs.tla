--------------------------- MODULE LearningProofs ---------------------------
(***************************************************************************)
(* What learning may do, for any number of operators, facts, hosts, runs   *)
(* and reviews and any policy: the quarantine of facts by itself, then the *)
(* rollout of a procedure, then the two beside each other as they are      *)
(* model-checked.                                                          *)
(***************************************************************************)
EXTENDS MCLearning, TLAPS, FiniteSetTheorems, SequenceTheorems

-----------------------------------------------------------------------------
(* The facts (FactQuarantine).                                             *)
Told == Values \cup {Observed[i].value : i \in Ids}
Records == [status : {"suggested", "confirmed", "expired"}, rev : Nat, value : Told,
            created : Nat, updated : Nat, expires : Nat, edited : BOOLEAN]
Events == [action : {"extracted", "confirmed", "edited", "expired", "deleted"},
           prior : Records \cup {NoRecord}, record : Records \cup {NoRecord}, at : Nat]

FactTypes ==
    /\ clock \in Nat
    /\ facts \in [Ids -> Records \cup {NoRecord}]
    /\ events \in [Ids -> Seq(Events)]

(* A fact is the end of a valid history, which leaves room for a deletion;  *)
(* the events number the revisions, and what an operator looks at is one   *)
(* of them. So the operator who acts on the current revision acts on the   *)
(* current record, and what was confirmed was seen.                        *)
OneHistory(i) ==
    /\ HistoryValid(events[i], facts[i])
    /\ facts[i] # NoRecord => Len(events[i]) < MaxEvents
    /\ \A k \in DOMAIN events[i] :
          events[i][k].record # NoRecord => events[i][k].record.rev = k - 1
    /\ facts[i].status = "confirmed" =>
          facts[i].value = approved[i].value /\ facts[i].expires = approved[i].expires
SeenBefore(o) ==
    shown[o] # NoScreen =>
        /\ shown[o].id \in Ids /\ shown[o].record # NoRecord
        /\ \E k \in DOMAIN events[shown[o].id] : events[shown[o].id][k].record = shown[o].record
FactInv ==
    /\ FactTypes /\ approved \in [Ids -> Records \cup {NoRecord}]
    /\ shown \in [Operators -> [id : Ids \cup {"none"}, record : Records \cup {NoRecord}]]
    /\ \A i \in Ids : OneHistory(i)
    /\ \A o \in Operators : SeenBefore(o)

LEMMA NoRecordIsNone == NoRecord.status = "none" /\ NoRecord \notin Records
<1>1. NoRecord.status = "none"
  BY DEF NoRecord
<1>2. \A r \in Records : r.status # "none"
  BY DEF Records
<1> QED
  BY <1>1, <1>2

LEMMA FactsBegin == FactInit => FactInv
<1> SUFFICES ASSUME FactInit PROVE FactInv
  OBVIOUS
<1>1. FactTypes /\ approved \in [Ids -> Records \cup {NoRecord}]
  BY DEF FactInit, FactTypes
<1>2. shown \in [Operators -> [id : Ids \cup {"none"}, record : Records \cup {NoRecord}]]
      /\ \A o \in Operators : shown[o] = NoScreen
  BY DEF FactInit, NoScreen
<1>3. \A i \in Ids : facts[i] = NoRecord /\ events[i] = <<>>
  BY DEF FactInit
<1>4. \A i \in Ids : OneHistory(i)
  BY <1>3, NoRecordIsNone DEF OneHistory, HistoryValid
<1> QED
  BY <1>1, <1>2, <1>4 DEF FactInv, SeenBefore

(* A history with one event more.                                          *)
LEMMA HistoryGrows ==
  ASSUME NEW log \in Seq(Events), log # <<>>, NEW old \in Records, HistoryValid(log, old),
         NEW event \in Events, EventValid(event), event.prior = old, event.at >= old.updated,
         event.record # NoRecord => event.record.created = old.created
                                    /\ event.record.updated = event.at
  PROVE  HistoryValid(Append(log, event), event.record)
<1> DEFINE new == Append(log, event)
<1>1. /\ new \in Seq(Events) /\ Len(new) = Len(log) + 1 /\ new[Len(log) + 1] = event
      /\ Len(log) \in Nat \ {0} /\ \A i \in DOMAIN log : new[i] = log[i]
      /\ DOMAIN log = 1..Len(log) /\ DOMAIN new = 1..Len(new)
  OBVIOUS
<1>2. /\ log[1].action = "extracted" /\ \A i \in DOMAIN log : EventValid(log[i])
      /\ \A i \in 2..Len(log) : log[i].prior = log[i - 1].record /\ log[i].at >= log[i - 1].at
      /\ log[Len(log)].record = old
      /\ log[1].at = old.created /\ log[Len(log)].at = old.updated
  BY NoRecordIsNone DEF HistoryValid
<1> HIDE DEF new
<1>3. \A i \in DOMAIN new : EventValid(new[i])
  <2>1. \A i \in DOMAIN new : i \in DOMAIN log \/ i = Len(log) + 1
    BY <1>1
  <2> QED
    BY <1>1, <1>2, <2>1
<1>4. ASSUME NEW i \in 2..Len(new)
      PROVE  new[i].prior = new[i - 1].record /\ new[i].at >= new[i - 1].at
  <2>1. CASE i = Len(log) + 1
    <3>1. i - 1 = Len(log) /\ i - 1 \in DOMAIN log
      BY <1>1, <2>1
    <3> QED
      BY <1>1, <1>2, <2>1, <3>1
  <2>2. CASE i # Len(log) + 1
    <3>1. i \in 2..Len(log) /\ i \in DOMAIN log /\ i - 1 \in DOMAIN log
      BY <1>1, <1>4, <2>2
    <3> QED
      BY <1>1, <1>2, <3>1
  <2> QED
    BY <2>1, <2>2
<1>5. new # <<>> /\ new[1] = log[1] /\ new[Len(new)] = event
  BY <1>1
<1> QED
  BY <1>2, <1>3, <1>4, <1>5 DEF HistoryValid, new

(* An event that is added to the history of a fact, by whatever call.      *)
LEMMA EventAdded ==
  ASSUME FactInv, NEW i \in Ids, facts[i] # NoRecord,
         NEW event \in Events, EventValid(event), event.prior = facts[i], event.at = clock,
         clock >= facts[i].updated,
         event.record # NoRecord =>
            /\ event.record.created = facts[i].created /\ event.record.updated = clock
            /\ Len(events[i]) + 1 < MaxEvents,
         event.record.status = "confirmed" =>
            /\ event.record.value = approved'[i].value
            /\ event.record.expires = approved'[i].expires,
         facts' = [facts EXCEPT ![i] = event.record],
         events' = [events EXCEPT ![i] = Append(events[i], event)],
         UNCHANGED <<clock, shown>>, approved' \in [Ids -> Records \cup {NoRecord}],
         \A j \in Ids : j # i => approved'[j] = approved[j]
  PROVE  FactInv'
<1> DEFINE log == events[i]
           new == Append(log, event)
<1>1. /\ log \in Seq(Events) /\ facts[i] \in Records /\ OneHistory(i)
      /\ event.record \in Records \cup {NoRecord} /\ FactTypes
  BY DEF FactInv, FactTypes, Events
<1>2. log # <<>> /\ log[Len(log)].record = facts[i] /\ HistoryValid(log, facts[i])
  BY <1>1 DEF OneHistory, HistoryValid
<1>3. /\ new \in Seq(Events) /\ Len(new) = Len(log) + 1 /\ new[Len(log) + 1] = event
      /\ Len(log) \in Nat \ {0} /\ \A k \in DOMAIN log : new[k] = log[k] /\ k \in DOMAIN new
      /\ \A k \in DOMAIN new : k \in DOMAIN log \/ k = Len(log) + 1
      /\ Len(log) \in DOMAIN log
  BY <1>1, <1>2
<1>4. HistoryValid(new, event.record)
  BY <1>1, <1>2, HistoryGrows
<1>5. event.record # NoRecord => event.record.rev = facts[i].rev + 1
  BY DEF EventValid
<1> HIDE DEF new
<1>6. /\ facts'[i] = event.record /\ events'[i] = new
      /\ \A j \in Ids : j # i => facts'[j] = facts[j] /\ events'[j] = events[j]
  BY <1>1 DEF FactTypes, new
<1>7. FactTypes'
  BY <1>1, <1>3 DEF FactTypes, new
<1>8. ASSUME NEW k \in DOMAIN new, new[k].record # NoRecord
      PROVE  new[k].record.rev = k - 1
  <2>1. CASE k \in DOMAIN log
    BY <1>1, <1>3, <1>8, <2>1 DEF OneHistory
  <2>2. CASE k = Len(log) + 1
    <3>1. facts[i].rev = Len(log) - 1 /\ facts[i].rev \in Nat
      <4>1. facts[i].rev = Len(log) - 1
        BY <1>1, <1>2, <1>3, NoRecordIsNone DEF OneHistory
      <4> QED
        BY <1>1, <4>1 DEF Records
    <3> QED
      BY <1>3, <1>5, <1>8, <2>2, <3>1
  <2> QED
    BY <1>3, <2>1, <2>2
<1>9. OneHistory(i)'
  BY <1>3, <1>4, <1>6, <1>8, ZenonT(60) DEF OneHistory
<1>10. \A j \in Ids : j # i => OneHistory(j)'
  BY <1>6 DEF FactInv, OneHistory
<1>11. ASSUME NEW o \in Operators PROVE SeenBefore(o)'
  <2>1. SeenBefore(o)
    BY DEF FactInv
  <2>2. \A j \in Ids : \A k \in DOMAIN events[j] :
           k \in DOMAIN events'[j] /\ events'[j][k] = events[j][k]
    BY <1>3, <1>6
  <2> QED
    BY <2>1, <2>2 DEF SeenBefore
<1>12. shown' = shown
  OBVIOUS
<1> QED
  BY <1>7, <1>9, <1>10, <1>11, <1>12 DEF FactInv

(* Who acts on the current revision has the current record on the screen.  *)
LEMMA SeesTheRecord ==
  ASSUME FactInv, NEW o \in Operators, shown[o] # NoScreen, facts[shown[o].id] # NoRecord,
         facts[shown[o].id].rev = shown[o].record.rev
  PROVE  shown[o].id \in Ids /\ shown[o].record = facts[shown[o].id]
<1> DEFINE i == shown[o].id
<1>1. /\ i \in Ids /\ shown[o].record # NoRecord
      /\ \E k \in DOMAIN events[i] : events[i][k].record = shown[o].record
  BY DEF FactInv, SeenBefore
<1>2. PICK k \in DOMAIN events[i] : events[i][k].record = shown[o].record
  BY <1>1
<1>3. events[i] \in Seq(Events) /\ OneHistory(i)
  BY <1>1 DEF FactInv, FactTypes
<1>4. /\ events[i] # <<>> /\ Len(events[i]) \in DOMAIN events[i]
      /\ events[i][Len(events[i])].record = facts[i]
  BY <1>3 DEF OneHistory, HistoryValid
<1>5. k \in Nat /\ Len(events[i]) \in Nat
  BY <1>3
<1>6. k - 1 = Len(events[i]) - 1
  BY <1>1, <1>2, <1>3, <1>4 DEF OneHistory
<1> QED
  BY <1>1, <1>2, <1>4, <1>5, <1>6

LEMMA MutateStep ==
  ASSUME FactInv, NEW o \in Operators, NEW action \in {"confirmed", "edited", "expired"},
         NEW new \in Records, Mutate(o, action, new),
         new.created = facts[shown[o].id].created,
         action = "confirmed" =>
            /\ new.value = facts[shown[o].id].value /\ new.expires = facts[shown[o].id].expires
            /\ approved' = [approved EXCEPT ![shown[o].id] = shown[o].record],
         action # "confirmed" => approved' = approved /\ new.status # "confirmed"
  PROVE  FactInv'
<1> DEFINE i == shown[o].id
           rec == [new EXCEPT !.rev = facts[i].rev + 1, !.updated = clock]
           event == [action |-> action, prior |-> facts[i], record |-> rec, at |-> clock]
<1>1. /\ shown[o] # NoScreen /\ facts[i] # NoRecord /\ facts[i].rev = shown[o].record.rev
      /\ clock >= facts[i].updated /\ Len(events[i]) < MaxEvents - 1
      /\ EventValid(event) /\ facts' = [facts EXCEPT ![i] = rec]
      /\ events' = [events EXCEPT ![i] = Append(events[i], event)] /\ UNCHANGED <<clock, shown>>
  BY DEF Mutate
<1>2. i \in Ids /\ shown[o].record = facts[i]
  BY <1>1, SeesTheRecord
<1>3. facts[i] \in Records /\ clock \in Nat /\ events[i] \in Seq(Events)
  BY <1>1, <1>2 DEF FactInv, FactTypes
<1>4. facts[i].rev \in Nat
  BY <1>3 DEF Records
<1>5. /\ rec \in Records /\ rec.created = new.created /\ rec.updated = clock
      /\ rec.value = new.value /\ rec.expires = new.expires /\ rec.status = new.status
  <2>1. PICK rev \in Nat : rev = facts[i].rev + 1
    BY <1>4
  <2>2. rec = [new EXCEPT !.rev = rev, !.updated = clock]
    BY <2>1
  <2>3. rec \in Records
    BY <1>3, <2>2 DEF Records
  <2> QED
    BY <2>2, <2>3 DEF Records
<1> HIDE DEF rec
<1>6. /\ event \in Events /\ event.prior = facts[i] /\ event.at = clock /\ event.record = rec
  BY <1>3, <1>5 DEF Events
<1> HIDE DEF event
<1>7. Len(events[i]) + 1 < MaxEvents
  <2>1. Len(events[i]) \in Nat /\ MaxEvents \in Nat
    BY <1>3, LimitsAssumption
  <2> QED
    BY <1>1, <2>1
<1>8. approved \in [Ids -> Records \cup {NoRecord}]
  BY DEF FactInv
<1>9. /\ approved' \in [Ids -> Records \cup {NoRecord}]
      /\ \A j \in Ids : j # i => approved'[j] = approved[j]
      /\ action = "confirmed" => approved'[i] = facts[i]
  <2>1. CASE action = "confirmed"
    <3>1. approved' = [approved EXCEPT ![i] = facts[i]]
      BY <1>2, <2>1
    <3> QED
      BY <1>2, <1>3, <1>8, <3>1
  <2>2. CASE action # "confirmed"
    BY <1>8, <2>2
  <2> QED
    BY <2>1, <2>2
<1>10. rec.status = "confirmed" =>
          rec.value = approved'[i].value /\ rec.expires = approved'[i].expires
  BY <1>5, <1>9
<1> QED
  BY <1>1, <1>2, <1>5, <1>6, <1>7, <1>9, <1>10, EventAdded

LEMMA ConfirmStep == ASSUME FactInv, NEW o \in Operators, Confirm(o) PROVE FactInv'
<1> DEFINE current == facts[shown[o].id]
           new == [current EXCEPT !.status = "confirmed"]
<1>1. Mutate(o, "confirmed", new) /\ approved' = [approved EXCEPT ![shown[o].id] = shown[o].record]
  BY DEF Confirm
<1>2. current \in Records
  BY <1>1, SeesTheRecord DEF Mutate, FactInv, FactTypes
<1>3. /\ new \in Records /\ new.created = current.created /\ new.value = current.value
      /\ new.expires = current.expires
  BY <1>2 DEF Records
<1> HIDE DEF new
<1> QED
  BY <1>1, <1>3, MutateStep

LEMMA EditStep ==
  ASSUME FactInv, NEW o \in Operators, Edit(o)
  PROVE  FactInv'
<1> DEFINE current == facts[shown[o].id]
<1>1. PICK value \in Values, expires \in (clock + 1)..(clock + Lifetime) :
         /\ Mutate(o, "edited", [current EXCEPT !.status = "suggested",
                !.value = value, !.expires = expires, !.edited = TRUE])
         /\ UNCHANGED approved
  BY DEF Edit
<1> DEFINE new == [current EXCEPT !.status = "suggested",
                       !.value = value, !.expires = expires, !.edited = TRUE]
<1>2. current \in Records /\ clock \in Nat
  BY <1>1, SeesTheRecord DEF Mutate, FactInv, FactTypes
<1>3. expires \in Nat /\ value \in Told
  BY <1>2, LimitsAssumption DEF Told
<1>4. new \in Records /\ new.created = current.created /\ new.status = "suggested"
  BY <1>2, <1>3 DEF Records
<1>5. Mutate(o, "edited", new) /\ UNCHANGED approved
  BY <1>1
<1> HIDE DEF new
<1> QED
  BY <1>4, <1>5, MutateStep

LEMMA ExpireStep ==
  ASSUME FactInv, NEW o \in Operators, Expire(o)
  PROVE  FactInv'
<1> DEFINE current == facts[shown[o].id]
           new == [current EXCEPT !.status = "expired", !.expires = clock]
<1>1. Mutate(o, "expired", new) /\ UNCHANGED approved
  BY DEF Expire
<1>2. current \in Records /\ clock \in Nat
  BY <1>1, SeesTheRecord DEF Mutate, FactInv, FactTypes
<1>3. new \in Records /\ new.created = current.created /\ new.status = "expired"
  BY <1>2 DEF Records
<1> HIDE DEF new
<1> QED
  BY <1>1, <1>3, MutateStep

LEMMA DeleteStep ==
  ASSUME FactInv, NEW o \in Operators, Delete(o)
  PROVE  FactInv'
<1> DEFINE i == shown[o].id
           event == [action |-> "deleted", prior |-> facts[i], record |-> NoRecord, at |-> clock]
<1>1. /\ shown[o] # NoScreen /\ facts[i] # NoRecord /\ facts[i].rev = shown[o].record.rev
      /\ clock >= facts[i].updated /\ facts' = [facts EXCEPT ![i] = NoRecord]
      /\ events' = [events EXCEPT ![i] = Append(events[i], event)]
      /\ UNCHANGED <<clock, shown, approved>>
  BY DEF Delete
<1>2. i \in Ids /\ facts[i] \in Records /\ clock \in Nat
  BY <1>1, SeesTheRecord DEF FactInv, FactTypes
<1>3. /\ event \in Events /\ event.prior = facts[i] /\ event.at = clock
      /\ event.record = NoRecord /\ event.action = "deleted"
  BY <1>2 DEF Events
<1> HIDE DEF event
<1>4. EventValid(event)
  BY <1>1, <1>3 DEF EventValid
<1>5. NoRecord.status # "confirmed" /\ approved \in [Ids -> Records \cup {NoRecord}]
  BY NoRecordIsNone DEF FactInv
<1> QED
  BY <1>1, <1>2, <1>3, <1>4, <1>5, EventAdded

(* A new fact starts a history; one that was deleted has a history still.  *)
LEMMA ExtractStep ==
  ASSUME FactInv, NEW i \in Ids, Extract(i)
  PROVE  FactInv'
<1>1. PICK expires \in (clock + 1)..(clock + Lifetime) :
         CreateFact(i, [status |-> "suggested", rev |-> 0, value |-> Observed[i].value,
                        created |-> clock, updated |-> clock, expires |-> expires,
                        edited |-> FALSE])
  BY DEF Extract
<1> DEFINE new == [status |-> "suggested", rev |-> 0, value |-> Observed[i].value,
                   created |-> clock, updated |-> clock, expires |-> expires, edited |-> FALSE]
           event == [action |-> "extracted", prior |-> NoRecord, record |-> new, at |-> clock]
<1>2. /\ events[i] = <<>> /\ facts' = [facts EXCEPT ![i] = new]
      /\ events' = [events EXCEPT ![i] = <<event>>] /\ UNCHANGED <<clock, shown, approved>>
  BY <1>1 DEF CreateFact, Extract
<1>3. FactTypes /\ clock \in Nat
  BY DEF FactInv, FactTypes
<1>4. expires \in Nat /\ Observed[i].value \in Told
  BY <1>3, LimitsAssumption DEF Told
<1>5. /\ new \in Records /\ new.status = "suggested" /\ new.rev = 0
      /\ new.created = clock /\ new.updated = clock
  BY <1>3, <1>4 DEF Records
<1> HIDE DEF new
<1>6. /\ event \in Events /\ event.prior = NoRecord /\ event.at = clock /\ event.record = new
      /\ event.action = "extracted"
  BY <1>3, <1>5 DEF Events
<1> HIDE DEF event
<1>7. /\ facts'[i] = new /\ events'[i] = <<event>>
      /\ \A j \in Ids : j # i => facts'[j] = facts[j] /\ events'[j] = events[j]
  BY <1>2, <1>3 DEF FactTypes
<1>8. FactTypes'
  BY <1>2, <1>3, <1>5, <1>6 DEF FactTypes
<1>9. OneHistory(i)'
  <2>1. EventValid(event)
    BY <1>5, <1>6 DEF EventValid
  <2>2. HistoryValid(<<event>>, new)
    BY <1>5, <1>6, <2>1 DEF HistoryValid
  <2>3. Len(<<event>>) < MaxEvents
    BY LimitsAssumption
  <2> QED
    BY <1>5, <1>6, <1>7, <2>2, <2>3 DEF OneHistory
<1>10. \A j \in Ids : j # i => OneHistory(j)'
  BY <1>2, <1>7 DEF FactInv, OneHistory
<1>11. ASSUME NEW o \in Operators PROVE SeenBefore(o)'
  <2>1. SeenBefore(o)
    BY DEF FactInv
  <2>2. \A j \in Ids : \A k \in DOMAIN events[j] :
           k \in DOMAIN events'[j] /\ events'[j][k] = events[j][k]
    BY <1>2, <1>7
  <2> QED
    BY <1>2, <2>1, <2>2 DEF SeenBefore
<1> QED
  BY <1>2, <1>8, <1>9, <1>10, <1>11 DEF FactInv

LEMMA ShowStep ==
  ASSUME FactInv, NEW o \in Operators, NEW i \in Ids, Show(o, i)
  PROVE  FactInv'
<1> DEFINE screen == [id |-> i, record |-> facts[i]]
<1>1. /\ facts[i] # NoRecord /\ shown' = [shown EXCEPT ![o] = screen]
      /\ UNCHANGED <<clock, facts, events, approved>>
  BY DEF Show
<1>2. /\ screen \in [id : Ids \cup {"none"}, record : Records \cup {NoRecord}]
      /\ screen.id = i /\ screen.record = facts[i]
  BY DEF FactInv, FactTypes
<1> HIDE DEF screen
<1>3. /\ shown' \in [Operators -> [id : Ids \cup {"none"}, record : Records \cup {NoRecord}]]
      /\ shown'[o] = screen /\ \A p \in Operators : p # o => shown'[p] = shown[p]
  BY <1>1, <1>2 DEF FactInv
<1>4. \E k \in DOMAIN events[i] : events[i][k].record = facts[i]
  <2>1. events[i] \in Seq(Events) /\ HistoryValid(events[i], facts[i])
    BY DEF FactInv, FactTypes, OneHistory
  <2> QED
    BY <1>1, <2>1 DEF HistoryValid
<1>5. \A p \in Operators : SeenBefore(p)'
  BY <1>1, <1>2, <1>3, <1>4, ZenonT(60) DEF FactInv, SeenBefore
<1>6. FactTypes' /\ \A j \in Ids : OneHistory(j)'
  BY <1>1 DEF FactInv, FactTypes, OneHistory
<1> QED
  BY <1>1, <1>3, <1>5, <1>6 DEF FactInv

LEMMA FactStep == FactInv /\ [FactNext]_factVars => FactInv'
<1> SUFFICES ASSUME FactInv, [FactNext]_factVars PROVE FactInv'
  OBVIOUS
<1>1. CASE UNCHANGED <<facts, events, shown, approved>> /\ clock' \in Nat
  BY <1>1 DEF FactInv, FactTypes, OneHistory, SeenBefore
<1>2. CASE ClockTick
  BY <1>1, <1>2 DEF ClockTick, FactInv, FactTypes
<1>3. CASE UNCHANGED factVars
  BY <1>1, <1>3 DEF factVars, FactInv, FactTypes
<1> QED
  BY <1>2, <1>3, ExtractStep, ConfirmStep, EditStep, ExpireStep, DeleteStep, ShowStep DEF FactNext

LEMMA ForgottenStep ==
  ASSUME FactInv, [FactNext]_factVars, NEW i \in Ids, facts[i] = NoRecord, events[i] # <<>>
  PROVE  facts'[i] = NoRecord /\ events'[i] = events[i]
<1>1. FactTypes
  BY DEF FactInv
<1>2. ASSUME NEW j \in Ids, j # i, NEW x, NEW y,
             facts' = [facts EXCEPT ![j] = x], events' = [events EXCEPT ![j] = y]
      PROVE  facts'[i] = NoRecord /\ events'[i] = events[i]
  BY <1>1, <1>2 DEF FactTypes
<1>3. ASSUME NEW j \in Ids, Extract(j) PROVE facts'[i] = NoRecord /\ events'[i] = events[i]
  BY <1>2, <1>3 DEF Extract, CreateFact
<1>4. ASSUME NEW o \in Operators, NEW action, NEW new, Mutate(o, action, new)
      PROVE  facts'[i] = NoRecord /\ events'[i] = events[i]
  <2>1. shown[o].id \in Ids /\ shown[o].id # i
    BY <1>4, SeesTheRecord DEF Mutate
  <2> QED
    BY <1>2, <1>4, <2>1 DEF Mutate
<1>5. ASSUME NEW o \in Operators, Delete(o)
      PROVE  facts'[i] = NoRecord /\ events'[i] = events[i]
  <2>1. shown[o].id \in Ids /\ shown[o].id # i
    BY <1>5, SeesTheRecord DEF Delete
  <2> QED
    BY <1>2, <1>5, <2>1 DEF Delete
<1>6. CASE UNCHANGED <<facts, events>>
  BY <1>6
<1> QED
  BY <1>3, <1>4, <1>5, <1>6 DEF FactNext, factVars, ClockTick, Show, Confirm, Edit, Expire

LEMMA FactsOfLearning == [LearningNext]_<<part, vars, factVars>> => [FactNext]_factVars
BY DEF LearningNext

(* For any number of operators, facts and events: what is confirmed is,     *)
(* value and lifetime, what the operator was shown, however many edited it *)
(* meanwhile, and it can always be deleted.                                *)
THEOREM OperatorsDecide == LearningSpec => []OperatorDecides
<1>1. LearningInit => FactInv
  BY FactsBegin DEF LearningInit
<1>2. FactInv /\ [LearningNext]_<<part, vars, factVars>> => FactInv'
  BY FactsOfLearning, FactStep
<1>3. FactInv => OperatorDecides
  BY DEF FactInv, OneHistory, OperatorDecides, ConfirmedAsShown, CanBeForgotten
<1> QED
  BY <1>1, <1>2, <1>3, PTL DEF LearningSpec

(* What an operator has deleted is not extracted again, and the history    *)
(* that forbids it stays.                                                  *)
THEOREM DeletedStaysDeleted == LearningSpec => StaysForgotten
<1>1. LearningInit => FactInv
  BY FactsBegin DEF LearningInit
<1>2. FactInv /\ [LearningNext]_<<part, vars, factVars>> => FactInv'
  BY FactsOfLearning, FactStep
<1>3. FactInv /\ [LearningNext]_<<part, vars, factVars>> =>
         [\A i \in Ids : (facts[i] = NoRecord /\ events[i] # <<>>) =>
             (facts'[i] = NoRecord /\ events'[i] = events[i])]_factVars
  BY FactsOfLearning, ForgottenStep
<1> QED
  BY <1>1, <1>2, <1>3, PTL DEF LearningSpec, StaysForgotten

-----------------------------------------------------------------------------
(* The rollout (AdaptiveRollout).                                          *)
Decisions == [choice : {"baseline", "candidate", "rollback"}, low : BOOLEAN, seq : Nat]
RolloutsWith(evidence) ==
    [status : {"warmup", "canary", "complete", "rolled_back"}, created : Int, expires : Int,
     rev : Int, evidence : {evidence}, low : Nat, active : Nat, activeOk : Nat, canary : Nat,
     canaryOk : Nat, pending : Decisions \cup {NoDecision}, last : 0..2,
     reason : {"none", "rollout_expired", "evidence_drift", "evidence_expired", "outcome"}]
Rollout(r) == \E evidence : r \in RolloutsWith(evidence)

(* What is counted of a decision before its run has ended is not yet        *)
(* counted as verified, and only a canary in its turn has the candidate.   *)
PendingInv(r) ==
    r.pending # NoDecision =>
        IF r.pending.choice = "candidate"
        THEN r.canaryOk < r.canary /\ r.status = "canary" /\ r.pending.low
        ELSE r.activeOk < r.active
FileInv == file # NoRollout => Rollout(file) /\ RolloutValid(file) /\ PendingInv(file)

LEMMA NextInterval ==
  ASSUME NEW n \in Nat, NEW k \in Nat \ {0}
  PROVE  /\ n \div k \in Nat /\ n \div k <= (n + 1) \div k
         /\ (n + 1) % k = 0 => (n + 1) \div k = n \div k + 1
         /\ \A m \in Nat : m <= n \div k => m * k <= n
<1>1. ASSUME NEW x \in Nat
      PROVE  x \div k \in Nat /\ x % k \in 0..(k - 1) /\ x = k * (x \div k) + (x % k)
  OBVIOUS
<1>2. ASSUME NEW a \in Nat, NEW b \in Nat, NEW x \in 0..(k - 1), NEW y \in 0..(k - 1),
             k * a + x + 1 = k * b + y
      PROVE  a <= b /\ (y = 0 => b = a + 1)
  BY <1>2
<1>3. ASSUME NEW a \in Nat, NEW m \in Nat, m <= a PROVE m * k <= k * a
  BY <1>3
<1> DEFINE a == n \div k
           b == (n + 1) \div k
           x == n % k
           y == (n + 1) % k
<1>4. /\ a \in Nat /\ b \in Nat /\ x \in 0..(k - 1) /\ y \in 0..(k - 1)
      /\ n = k * a + x /\ n + 1 = k * b + y
  <2>1. n + 1 \in Nat
    OBVIOUS
  <2> QED
    BY <1>1, <2>1
<1> HIDE DEF a, b, x, y
<1>5. k * a + x + 1 = k * b + y
  BY <1>4
<1>6. a <= b /\ (y = 0 => b = a + 1)
  BY <1>2, <1>4, <1>5
<1>7. \A m \in Nat : m <= a => m * k <= n
  BY <1>3, <1>4
<1> QED
  BY <1>4, <1>6, <1>7 DEF a, b, y

LEMMA NoDecisionIsNone == NoDecision.choice = "none" /\ NoDecision \notin Decisions
<1>1. NoDecision.choice = "none"
  BY DEF NoDecision
<1>2. \A d \in Decisions : d.choice # "none"
  BY DEF Decisions
<1> QED
  BY <1>1, <1>2

(* The fields of a rollout after each of its two calls.                    *)
LEMMA IssuedFields ==
  ASSUME NEW r, Rollout(r), NEW ctx \in Contexts, NEW choice, NEW status, NEW reason,
         choice \in {"baseline", "candidate", "rollback"},
         status \in {"warmup", "canary", "rolled_back"},
         reason \in {"none", "rollout_expired", "evidence_drift", "evidence_expired"}
  PROVE  LET n == Issued(r, <<choice, status, reason>>, ctx) IN
         /\ Rollout(n) /\ n.status = status /\ n.reason = reason /\ n.rev = r.rev + 1
         /\ n.created = r.created /\ n.expires = r.expires /\ n.last = r.last
         /\ n.activeOk = r.activeOk /\ n.canaryOk = r.canaryOk
         /\ n.low = IF ctx.low THEN r.low + 1 ELSE r.low
         /\ n.active = IF choice = "candidate" THEN r.active ELSE r.active + 1
         /\ n.canary = IF choice = "candidate" THEN r.canary + 1 ELSE r.canary
         /\ n.pending \in Decisions /\ n.pending.choice = choice
         /\ n.pending.low = ctx.low /\ n.pending.seq = r.active + r.canary + 1
<1>1. PICK evidence : r \in RolloutsWith(evidence)
  BY DEF Rollout
<1>2. /\ r.rev \in Int /\ r.low \in Nat /\ r.active \in Nat /\ r.canary \in Nat
  BY <1>1 DEF RolloutsWith
<1>3. ctx.low \in BOOLEAN
  BY PolicyAssumption
<1> DEFINE p == [choice |-> choice, low |-> ctx.low, seq |-> r.active + r.canary + 1]
<1>4. p \in Decisions /\ p.choice = choice /\ p.seq = r.active + r.canary + 1
  BY <1>2, <1>3 DEF Decisions
<1>5. p.low = ctx.low
  BY Zenon
<1> HIDE DEF p
<1>6. PICK low \in Nat, active \in Nat, canary \in Nat, rev \in Int :
         /\ low = r.low + IF ctx.low THEN 1 ELSE 0
         /\ active = r.active + IF ~(choice = "candidate") THEN 1 ELSE 0
         /\ canary = r.canary + IF choice = "candidate" THEN 1 ELSE 0
         /\ rev = r.rev + 1
  <2>1. /\ r.low + (IF ctx.low THEN 1 ELSE 0) \in Nat
        /\ r.active + (IF ~(choice = "candidate") THEN 1 ELSE 0) \in Nat
        /\ r.canary + (IF choice = "candidate" THEN 1 ELSE 0) \in Nat /\ r.rev + 1 \in Int
    BY <1>2
  <2> QED
    BY <2>1
<1> DEFINE n == Issued(r, <<choice, status, reason>>, ctx)
<1>7. n = [r EXCEPT !.status = status, !.reason = reason, !.rev = rev, !.low = low,
                    !.active = active, !.canary = canary, !.pending = p]
  BY <1>6 DEF Issued, p
<1> HIDE DEF n
<1>8. n \in RolloutsWith(evidence)
  BY <1>1, <1>4, <1>7 DEF RolloutsWith
<1>9. /\ n.status = status /\ n.reason = reason /\ n.rev = rev /\ n.low = low
      /\ n.active = active /\ n.canary = canary /\ n.pending = p
      /\ n.created = r.created /\ n.expires = r.expires /\ n.last = r.last
      /\ n.activeOk = r.activeOk /\ n.canaryOk = r.canaryOk
  BY <1>1, <1>7 DEF RolloutsWith
<1>10. /\ n.low = (IF ctx.low THEN r.low + 1 ELSE r.low)
       /\ n.active = (IF choice = "candidate" THEN r.active ELSE r.active + 1)
       /\ n.canary = (IF choice = "candidate" THEN r.canary + 1 ELSE r.canary)
  BY <1>2, <1>6, <1>9
<1>11. n.rev = r.rev + 1 /\ Rollout(n)
  BY <1>6, <1>8, <1>9 DEF Rollout
<1> QED
  BY <1>4, <1>5, <1>9, <1>10, <1>11 DEF n

LEMMA RecordedFields ==
  ASSUME NEW r, Rollout(r), r.pending \in Decisions, NEW verified \in {0, 1}
  PROVE  LET n == Recorded(r, verified)
             d == r.pending
             failed == verified = 0
         IN /\ Rollout(n) /\ n.rev = r.rev + 1 /\ n.pending = NoDecision /\ n.last = verified
            /\ n.created = r.created /\ n.expires = r.expires /\ n.low = r.low
            /\ n.active = r.active /\ n.canary = r.canary
            /\ n.activeOk = IF verified = 1 /\ d.choice # "candidate" /\ d.low
                            THEN r.activeOk + 1 ELSE r.activeOk
            /\ n.canaryOk = IF verified = 1 /\ d.choice = "candidate"
                            THEN r.canaryOk + 1 ELSE r.canaryOk
            /\ n.reason = IF failed THEN "outcome" ELSE r.reason
            /\ n.status = IF failed THEN "rolled_back"
                          ELSE IF d.choice = "candidate" /\ n.canaryOk = Canaries
                          THEN "complete"
                          ELSE IF r.status = "warmup" /\ n.activeOk >= Warmup
                          THEN "canary" ELSE r.status
<1>1. PICK evidence : r \in RolloutsWith(evidence)
  BY DEF Rollout
<1>2. /\ r.rev \in Int /\ r.activeOk \in Nat /\ r.canaryOk \in Nat
      /\ r.status \in {"warmup", "canary", "complete", "rolled_back"}
      /\ r.reason \in {"none", "rollout_expired", "evidence_drift", "evidence_expired", "outcome"}
  BY <1>1 DEF RolloutsWith
<1> DEFINE d == r.pending
<1>3. PICK activeOk \in Nat, canaryOk \in Nat, rev \in Int :
         /\ activeOk = IF verified = 1 /\ d.choice # "candidate" /\ d.low
                       THEN r.activeOk + 1 ELSE r.activeOk
         /\ canaryOk = IF verified = 1 /\ d.choice = "candidate"
                       THEN r.canaryOk + 1 ELSE r.canaryOk
         /\ rev = r.rev + 1
  <2>1. r.activeOk + 1 \in Nat /\ r.canaryOk + 1 \in Nat /\ r.rev + 1 \in Int
    BY <1>2
  <2> QED
    BY <1>2, <2>1
<1>4. PICK reason, status :
         /\ reason = IF verified = 0 THEN "outcome" ELSE r.reason
         /\ status = IF verified = 0 THEN "rolled_back"
                     ELSE IF d.choice = "candidate" /\ canaryOk = Canaries
                     THEN "complete"
                     ELSE IF r.status = "warmup" /\ activeOk >= Warmup
                     THEN "canary" ELSE r.status
  OBVIOUS
<1>5. /\ reason \in {"none", "rollout_expired", "evidence_drift", "evidence_expired", "outcome"}
      /\ status \in {"warmup", "canary", "complete", "rolled_back"}
  BY <1>2, <1>4
<1> DEFINE n == Recorded(r, verified)
<1>6. n = [r EXCEPT !.rev = rev, !.pending = NoDecision, !.last = verified,
                    !.activeOk = activeOk, !.canaryOk = canaryOk, !.reason = reason,
                    !.status = status]
  BY <1>3, <1>4 DEF Recorded
<1> HIDE DEF n
<1>7. n \in RolloutsWith(evidence)
  <2>1. verified \in 0..2 /\ activeOk \in Nat /\ canaryOk \in Nat /\ rev \in Int
    BY <1>3
  <2>2. PICK none \in Decisions \cup {NoDecision} : none = NoDecision
    OBVIOUS
  <2>3. n = [r EXCEPT !.rev = rev, !.pending = none, !.last = verified, !.activeOk = activeOk,
                      !.canaryOk = canaryOk, !.reason = reason, !.status = status]
    BY <1>6, <2>2
  <2> QED
    BY <1>1, <1>5, <2>1, <2>3 DEF RolloutsWith
<1>8. /\ n.rev = rev /\ n.pending = NoDecision /\ n.last = verified /\ n.activeOk = activeOk
      /\ n.canaryOk = canaryOk /\ n.reason = reason /\ n.status = status
      /\ n.created = r.created /\ n.expires = r.expires /\ n.low = r.low
      /\ n.active = r.active /\ n.canary = r.canary
  BY <1>1, <1>6 DEF RolloutsWith
<1>9. Rollout(n)
  BY <1>7 DEF Rollout
<1> QED
  BY <1>3, <1>4, <1>8, <1>9 DEF n

LEMMA RolloutNumbers ==
  ASSUME NEW r, Rollout(r)
  PROVE  /\ r.low \in Nat /\ r.active \in Nat /\ r.activeOk \in Nat /\ r.canary \in Nat
         /\ r.canaryOk \in Nat /\ r.rev \in Int /\ r.last \in 0..2
         /\ r.created \in Int /\ r.expires \in Int
         /\ r.status \in {"warmup", "canary", "complete", "rolled_back"}
         /\ r.pending \in Decisions \cup {NoDecision}
         /\ r.reason \in {"none", "rollout_expired", "evidence_drift", "evidence_expired",
                          "outcome"}
BY DEF Rollout, RolloutsWith

(* The validation of a record, with what is pending as a number.           *)
LEMMA ValidParts ==
  ASSUME NEW r, NEW g \in {0, 1}, g = IF r.pending = NoDecision THEN 0 ELSE 1
  PROVE  RolloutValid(r) <=>
         /\ r.created < r.expires
         /\ r.activeOk <= r.active /\ r.canaryOk <= r.canary
         /\ r.canary <= Canaries /\ r.low <= r.active + r.canary
         /\ r.canary <= r.low \div Interval
         /\ r.rev = 2 * (r.active + r.canary) - g /\ r.active + r.canary >= g
         /\ (r.active + r.canary = g) <=> (r.last = 2)
         /\ g = 1 => r.pending.seq = r.active + r.canary
         /\ r.status = "rolled_back" <=> r.reason # "none"
         /\ r.status = "complete" => g = 0
         /\ r.status = "complete" <=> r.canaryOk = Canaries
         /\ r.status = "warmup" => r.activeOk < Warmup /\ r.canary = 0
         /\ r.status \in {"canary", "complete"} => r.activeOk >= Warmup
         /\ r.status = "rolled_back" /\ g = 1 => r.pending.choice = "rollback"
BY Zenon DEF RolloutValid

(* Why a run gets which procedure.                                         *)
LEMMA DecisionCases ==
  ASSUME NEW r, NEW ev, NEW ctx, Rollout(r), r.status \in {"warmup", "canary"}
  PROVE  \E choice, status, reason :
            /\ Decision(r, ev, ctx) = <<choice, status, reason>>
            /\ \/ /\ choice = "rollback" /\ status = "rolled_back"
                  /\ reason \in {"rollout_expired", "evidence_drift", "evidence_expired"}
               \/ /\ choice = "baseline" /\ reason = "none"
                  /\ status = r.status \/ (status = "canary" /\ ctx.low /\ r.activeOk >= Warmup)
               \/ /\ choice = "candidate" /\ reason = "none" /\ status = "canary" /\ ctx.low
                  /\ r.activeOk >= Warmup /\ CanaryDue(r) /\ r.canary < Canaries
<1>1. r.activeOk \in Nat /\ Warmup \in Nat
  BY RolloutNumbers, PolicyAssumption
<1>2. Drift(r, ev) \in {"none", "evidence_drift", "evidence_expired"}
  BY DEF Drift
<1>3. CASE now >= r.expires
  BY <1>3 DEF Decision
<1>4. CASE ~(now >= r.expires) /\ Drift(r, ev) # "none"
  BY <1>2, <1>4 DEF Decision
<1>5. CASE ~(now >= r.expires) /\ Drift(r, ev) = "none" /\ (~ctx.low \/ r.activeOk < Warmup)
  BY <1>5 DEF Decision
<1>6. CASE /\ ~(now >= r.expires) /\ Drift(r, ev) = "none" /\ ctx.low /\ ~(r.activeOk < Warmup)
           /\ CanaryDue(r) /\ r.canary < Canaries
  BY <1>1, <1>6 DEF Decision
<1>7. CASE /\ ~(now >= r.expires) /\ Drift(r, ev) = "none" /\ ctx.low /\ ~(r.activeOk < Warmup)
           /\ ~(CanaryDue(r) /\ r.canary < Canaries)
  BY <1>1, <1>7 DEF Decision
<1> QED
  BY <1>3, <1>4, <1>5, <1>6, <1>7

LEMMA IssuedValid ==
  ASSUME NEW r, NEW ev, NEW ctx \in Contexts, Rollout(r), RolloutValid(r), PendingInv(r),
         r.status \in {"warmup", "canary"}, r.pending = NoDecision
  PROVE  LET n == Issued(r, Decision(r, ev, ctx), ctx) IN
         /\ Rollout(n) /\ RolloutValid(n) /\ PendingInv(n)
<1>1. PICK choice, status, reason :
            /\ Decision(r, ev, ctx) = <<choice, status, reason>>
            /\ \/ /\ choice = "rollback" /\ status = "rolled_back"
                  /\ reason \in {"rollout_expired", "evidence_drift", "evidence_expired"}
               \/ /\ choice = "baseline" /\ reason = "none"
                  /\ status = r.status \/ (status = "canary" /\ ctx.low /\ r.activeOk >= Warmup)
               \/ /\ choice = "candidate" /\ reason = "none" /\ status = "canary" /\ ctx.low
                  /\ r.activeOk >= Warmup /\ CanaryDue(r) /\ r.canary < Canaries
  BY DecisionCases
<1> DEFINE n == Issued(r, Decision(r, ev, ctx), ctx)
<1>2. /\ Rollout(n) /\ n.status = status /\ n.reason = reason /\ n.rev = r.rev + 1
      /\ n.created = r.created /\ n.expires = r.expires /\ n.last = r.last
      /\ n.activeOk = r.activeOk /\ n.canaryOk = r.canaryOk
      /\ n.low = (IF ctx.low THEN r.low + 1 ELSE r.low)
      /\ n.active = (IF choice = "candidate" THEN r.active ELSE r.active + 1)
      /\ n.canary = (IF choice = "candidate" THEN r.canary + 1 ELSE r.canary)
      /\ n.pending \in Decisions /\ n.pending.choice = choice
      /\ n.pending.low = ctx.low /\ n.pending.seq = r.active + r.canary + 1
  <2>1. /\ choice \in {"baseline", "candidate", "rollback"}
        /\ status \in {"warmup", "canary", "rolled_back"}
        /\ reason \in {"none", "rollout_expired", "evidence_drift", "evidence_expired"}
    BY <1>1
  <2>2. n = Issued(r, <<choice, status, reason>>, ctx)
    BY <1>1
  <2> HIDE DEF n
  <2> QED
    BY <2>1, <2>2, IssuedFields
<1> HIDE DEF n
<1>3. /\ r.low \in Nat /\ r.active \in Nat /\ r.activeOk \in Nat /\ r.canary \in Nat
      /\ r.canaryOk \in Nat /\ r.rev \in Int /\ r.last \in 0..2
      /\ r.created \in Int /\ r.expires \in Int
  BY RolloutNumbers
<1>4. Warmup \in Nat \ {0} /\ Interval \in Nat \ {0} /\ Canaries \in Nat \ {0}
  BY PolicyAssumption
<1>5. n.pending # NoDecision
  BY <1>2, NoDecisionIsNone
<1>6. /\ r.created < r.expires /\ r.activeOk <= r.active /\ r.canaryOk <= r.canary
      /\ r.canary <= Canaries /\ r.low <= r.active + r.canary
      /\ r.canary <= r.low \div Interval
      /\ r.rev = 2 * (r.active + r.canary) /\ (r.active + r.canary = 0 <=> r.last = 2)
      /\ r.reason = "none" /\ r.canaryOk # Canaries
      /\ r.status = "warmup" => r.activeOk < Warmup /\ r.canary = 0
      /\ r.status = "canary" => r.activeOk >= Warmup
  <2>1. PICK g \in {0, 1} : g = 0
    OBVIOUS
  <2>2. g = IF r.pending = NoDecision THEN 0 ELSE 1
    BY <2>1
  <2>3. /\ r.created < r.expires /\ r.activeOk <= r.active /\ r.canaryOk <= r.canary
        /\ r.canary <= Canaries /\ r.low <= r.active + r.canary
        /\ r.canary <= r.low \div Interval
        /\ r.rev = 2 * (r.active + r.canary) - g
        /\ (r.active + r.canary = g) <=> (r.last = 2)
    BY <2>2, ValidParts
  <2>4. r.reason = "none" /\ r.canaryOk # Canaries
    BY <2>2, ValidParts
  <2>5. /\ r.status = "warmup" => r.activeOk < Warmup /\ r.canary = 0
        /\ r.status = "canary" => r.activeOk >= Warmup
    BY <2>2, ValidParts
  <2>6. r.rev = 2 * (r.active + r.canary)
    BY <1>3, <2>1, <2>3
  <2> QED
    BY <2>1, <2>3, <2>4, <2>5, <2>6
<1>7. n.canary <= n.low \div Interval
  <2>1. /\ r.low \div Interval \in Nat /\ r.low \div Interval <= (r.low + 1) \div Interval
        /\ (r.low + 1) % Interval = 0 => (r.low + 1) \div Interval = r.low \div Interval + 1
        /\ (r.low + 1) \div Interval \in Nat
    <3>1. r.low + 1 \in Nat
      BY <1>3
    <3> QED
      BY <1>3, <1>4, <3>1, NextInterval
  <2>2. PICK before \in Nat, after \in Nat :
           before = r.low \div Interval /\ after = (r.low + 1) \div Interval
    BY <2>1
  <2>3. CASE choice = "candidate"
    <3>1. after = before + 1 /\ n.low = r.low + 1 /\ n.canary = r.canary + 1
      BY <1>1, <1>2, <2>1, <2>2, <2>3 DEF CanaryDue
    <3> QED
      BY <1>3, <1>6, <2>2, <3>1
  <2>4. CASE choice # "candidate"
    <3>1. n.canary = r.canary /\ (n.low = r.low \/ n.low = r.low + 1)
      BY <1>2, <2>4
    <3> QED
      BY <1>3, <1>6, <2>1, <2>2, <3>1
  <2> QED
    BY <2>3, <2>4
<1>8. /\ n.active + n.canary = r.active + r.canary + 1
      /\ n.active \in Nat /\ n.canary \in Nat /\ n.low \in Nat
      /\ n.low <= r.low + 1 /\ n.activeOk <= n.active /\ n.canaryOk <= n.canary
      /\ choice = "candidate" => n.canaryOk < n.canary
      /\ choice # "candidate" => n.activeOk < n.active
  BY <1>2, <1>3, <1>6
<1>9. n.canary <= Canaries
  BY <1>1, <1>2, <1>3, <1>4, <1>6
<1>10. /\ n.rev = 2 * (n.active + n.canary) - 1 /\ n.low <= n.active + n.canary
       /\ n.active + n.canary >= 1 /\ n.pending.seq = n.active + n.canary
       /\ (n.active + n.canary = 1 <=> n.last = 2)
  <2>1. PICK before \in Nat, after \in Nat :
           /\ before = r.active + r.canary /\ after = n.active + n.canary
           /\ after = before + 1
    BY <1>3, <1>8
  <2>2. n.rev = 2 * after - 1 /\ n.pending.seq = after /\ after >= 1
    BY <1>2, <1>3, <1>6, <2>1
  <2>3. n.low <= after
    BY <1>3, <1>6, <1>8, <2>1
  <2>4. after = 1 <=> n.last = 2
    <3>1. before = 0 <=> r.last = 2
      BY <1>6, <2>1
    <3>2. after = 1 <=> before = 0
      BY <2>1
    <3> QED
      BY <1>2, <3>1, <3>2
  <2> QED
    BY <2>1, <2>2, <2>3, <2>4
<1>11. /\ n.status = "rolled_back" <=> n.reason # "none"
       /\ n.status # "complete" /\ n.canaryOk # Canaries
       /\ n.status = "rolled_back" => n.pending.choice = "rollback"
       /\ n.status = "warmup" => n.activeOk < Warmup /\ n.canary = 0
       /\ n.status = "canary" => n.activeOk >= Warmup
  BY <1>1, <1>2, <1>6
<1>12. RolloutValid(n)
  <2>1. PICK g \in {0, 1} : g = 1
    OBVIOUS
  <2>2. g = IF n.pending = NoDecision THEN 0 ELSE 1
    BY <1>5, <2>1
  <2> QED
    BY <1>2, <1>6, <1>7, <1>8, <1>9, <1>10, <1>11, <2>1, <2>2, ValidParts
<1>13. PendingInv(n)
  BY <1>1, <1>2, <1>8 DEF PendingInv
<1> QED
  BY <1>2, <1>12, <1>13 DEF n

LEMMA RecordedValid ==
  ASSUME NEW r, NEW verified \in {0, 1}, Rollout(r), RolloutValid(r), PendingInv(r),
         r.pending # NoDecision
  PROVE  LET n == Recorded(r, verified) IN Rollout(n) /\ RolloutValid(n) /\ PendingInv(n)
<1> DEFINE n == Recorded(r, verified)
           d == r.pending
<1>1. /\ r.low \in Nat /\ r.active \in Nat /\ r.activeOk \in Nat /\ r.canary \in Nat
      /\ r.canaryOk \in Nat /\ r.rev \in Int /\ r.last \in 0..2
      /\ r.created \in Int /\ r.expires \in Int /\ d \in Decisions
      /\ r.status \in {"warmup", "canary", "complete", "rolled_back"}
  BY RolloutNumbers
<1>2. /\ Rollout(n) /\ n.rev = r.rev + 1 /\ n.pending = NoDecision /\ n.last = verified
      /\ n.created = r.created /\ n.expires = r.expires /\ n.low = r.low
      /\ n.active = r.active /\ n.canary = r.canary
      /\ n.activeOk = (IF verified = 1 /\ d.choice # "candidate" /\ d.low
                       THEN r.activeOk + 1 ELSE r.activeOk)
      /\ n.canaryOk = (IF verified = 1 /\ d.choice = "candidate"
                       THEN r.canaryOk + 1 ELSE r.canaryOk)
      /\ n.reason = (IF verified = 0 THEN "outcome" ELSE r.reason)
      /\ n.status = (IF verified = 0 THEN "rolled_back"
                     ELSE IF d.choice = "candidate" /\ n.canaryOk = Canaries
                     THEN "complete"
                     ELSE IF r.status = "warmup" /\ n.activeOk >= Warmup
                     THEN "canary" ELSE r.status)
  BY <1>1, RecordedFields
<1> HIDE DEF n
<1>3. Warmup \in Nat \ {0} /\ Interval \in Nat \ {0} /\ Canaries \in Nat \ {0}
  BY PolicyAssumption
<1>4. /\ r.created < r.expires /\ r.activeOk <= r.active /\ r.canaryOk <= r.canary
      /\ r.canary <= Canaries /\ r.low <= r.active + r.canary
      /\ r.canary <= r.low \div Interval
      /\ r.rev = 2 * (r.active + r.canary) - 1 /\ r.active + r.canary >= 1
      /\ (r.status = "rolled_back" <=> r.reason # "none")
      /\ r.status # "complete" /\ r.canaryOk # Canaries
      /\ r.status = "warmup" => r.activeOk < Warmup /\ r.canary = 0
      /\ r.status = "canary" => r.activeOk >= Warmup
      /\ r.status = "rolled_back" => d.choice = "rollback"
  <2>1. PICK g \in {0, 1} : g = 1
    OBVIOUS
  <2>2. g = IF r.pending = NoDecision THEN 0 ELSE 1
    BY <2>1
  <2> QED
    BY <1>1, <2>1, <2>2, ValidParts
<1>5. IF d.choice = "candidate"
      THEN r.canaryOk < r.canary /\ r.status = "canary" /\ d.low
      ELSE r.activeOk < r.active
  BY DEF PendingInv
<1>6. /\ n.activeOk <= n.active /\ n.canaryOk <= n.canary
      /\ n.rev = 2 * (n.active + n.canary) /\ n.active + n.canary >= 0
      /\ n.active + n.canary # 0 /\ n.last # 2
  BY <1>1, <1>2, <1>4, <1>5
<1>7. n.status = "rolled_back" <=> n.reason # "none"
  BY <1>2, <1>4, <1>5
<1>8. n.status = "complete" <=> n.canaryOk = Canaries
  BY <1>1, <1>2, <1>4
<1>9. /\ n.status = "warmup" => n.activeOk < Warmup /\ n.canary = 0
      /\ n.status \in {"canary", "complete"} => n.activeOk >= Warmup
  <2>1. n.activeOk \in Nat
    BY <1>1, <1>2
  <2> QED
    BY <1>1, <1>2, <1>3, <1>4, <1>5, <2>1
<1>10. RolloutValid(n)
  <2>1. PICK g \in {0, 1} : g = 0
    OBVIOUS
  <2>2. g = IF n.pending = NoDecision THEN 0 ELSE 1
    BY <1>2, <2>1
  <2> QED
    BY <1>1, <1>2, <1>4, <1>6, <1>7, <1>8, <1>9, <2>1, <2>2, ValidParts
<1>11. PendingInv(n)
  BY <1>2 DEF PendingInv
<1> QED
  BY <1>2, <1>10, <1>11 DEF n

(* What each step does to the rollout and to the history of its runs.      *)
LEMMA RolloutMoves ==
  ASSUME Next
  PROVE  \/ file' = file /\ runs' = runs /\ (now' = now \/ now' = now + 1)
         \/ \E h \in Hosts : Create(h)
         \/ \E h \in Hosts, ctx \in Contexts : Route(h, ctx)
         \/ \E h \in Hosts : RecordOutcome(h)
BY DEF Next, Tick, Propose, Review, Load, Crash

RolloutInv == now \in Nat /\ FileInv

LEMMA CreateStep ==
  ASSUME RolloutInv, NEW h \in Hosts, Create(h)
  PROVE  RolloutInv'
<1> DEFINE evidence == <<held[h].active, held[h].candidate>>
<1>1. PICK e \in (now + 1)..MaxTime + 1 :
         file' = [status |-> "warmup", created |-> now, expires |-> e, rev |-> 0,
                  evidence |-> evidence, low |-> 0, active |-> 0, activeOk |-> 0,
                  canary |-> 0, canaryOk |-> 0, pending |-> NoDecision,
                  last |-> 2, reason |-> "none"]
  BY DEF Create
<1> HIDE DEF evidence
<1>2. now' = now /\ now \in Nat /\ e \in Int /\ now < e
  <2>1. MaxTime \in Nat /\ now \in Nat /\ now' = now
    BY PolicyAssumption DEF RolloutInv, Create
  <2> QED
    BY <2>1
<1>3. PICK f : f = file'
  OBVIOUS
<1>4. f \in RolloutsWith(evidence)
  <2>1. PICK none \in Decisions \cup {NoDecision} : none = NoDecision
    OBVIOUS
  <2>2. f = [status |-> "warmup", created |-> now, expires |-> e, rev |-> 0,
             evidence |-> evidence, low |-> 0, active |-> 0, activeOk |-> 0,
             canary |-> 0, canaryOk |-> 0, pending |-> none,
             last |-> 2, reason |-> "none"]
    BY <1>1, <1>3, <2>1
  <2> QED
    BY <1>2, <2>2 DEF RolloutsWith
<1>5. /\ f.status = "warmup" /\ f.created = now /\ f.expires = e /\ f.rev = 0
      /\ f.low = 0 /\ f.active = 0 /\ f.activeOk = 0 /\ f.canary = 0 /\ f.canaryOk = 0
      /\ f.pending = NoDecision /\ f.last = 2 /\ f.reason = "none"
  BY <1>1, <1>3
<1>6. 0 <= 0 \div Interval /\ 0 < Warmup /\ 0 < Canaries
  BY PolicyAssumption
<1>7. RolloutValid(f)
  <2>1. PICK g \in {0, 1} : g = 0
    OBVIOUS
  <2>2. g = IF f.pending = NoDecision THEN 0 ELSE 1
    BY <1>5, <2>1
  <2>3. /\ f.created < f.expires
        /\ f.activeOk <= f.active /\ f.canaryOk <= f.canary
        /\ f.canary <= Canaries /\ f.low <= f.active + f.canary
        /\ f.canary <= f.low \div Interval
    BY <1>2, <1>5, <1>6, PolicyAssumption
  <2>4. /\ f.rev = 2 * (f.active + f.canary) - g /\ f.active + f.canary >= g
        /\ (f.active + f.canary = g) <=> (f.last = 2)
    BY <1>5, <2>1
  <2>5. /\ g # 1 /\ f.status = "warmup" /\ f.reason = "none"
        /\ f.activeOk < Warmup /\ f.canary = 0 /\ f.canaryOk # Canaries
    BY <1>5, <1>6, <2>1, PolicyAssumption
  <2> QED
    BY <2>2, <2>3, <2>4, <2>5, ValidParts
<1>8. Rollout(f) /\ PendingInv(f)
  BY <1>4, <1>5 DEF Rollout, PendingInv
<1> QED
  BY <1>2, <1>3, <1>7, <1>8 DEF RolloutInv, FileInv, Rollout, RolloutValid, PendingInv

LEMMA RolloutStep ==
  ASSUME RolloutInv, [Next]_vars
  PROVE  RolloutInv'
<1>1. ASSUME file' = file, now' = now \/ now' = now + 1
      PROVE  RolloutInv'
  BY <1>1 DEF RolloutInv, FileInv, Rollout, RolloutValid, PendingInv
<1>2. CASE UNCHANGED vars
  BY <1>1, <1>2 DEF vars
<1>3. ASSUME NEW h \in Hosts, NEW ctx \in Contexts, Route(h, ctx)
      PROVE  RolloutInv'
  <2>1. PICK f, ev : f = file' /\ f = Issued(file, Decision(file, ev, ctx), ctx)
    BY <1>3 DEF Route
  <2>2. /\ file # NoRollout /\ file.pending = NoDecision
        /\ file.status \in {"warmup", "canary"} /\ now' = now
    BY <1>3 DEF Route
  <2>3. Rollout(f) /\ RolloutValid(f) /\ PendingInv(f)
    BY <2>1, <2>2, IssuedValid DEF RolloutInv, FileInv
  <2> QED
    BY <2>1, <2>2, <2>3 DEF RolloutInv, FileInv, Rollout, RolloutValid, PendingInv
<1>4. ASSUME NEW h \in Hosts, RecordOutcome(h)
      PROVE  RolloutInv'
  <2>1. PICK verified \in {0, 1} : file' = Recorded(file, verified)
    BY <1>4 DEF RecordOutcome
  <2>2. PICK f : f = file' /\ f = Recorded(file, verified)
    BY <2>1
  <2>3. file # NoRollout /\ file.pending # NoDecision /\ now' = now
    BY <1>4 DEF RecordOutcome
  <2>4. Rollout(f) /\ RolloutValid(f) /\ PendingInv(f)
    BY <2>2, <2>3, RecordedValid DEF RolloutInv, FileInv
  <2> QED
    BY <2>2, <2>3, <2>4 DEF RolloutInv, FileInv, Rollout, RolloutValid, PendingInv
<1>5. CASE Next
  BY <1>1, <1>3, <1>4, <1>5, RolloutMoves, CreateStep
<1> QED
  BY <1>2, <1>5

LEMMA RolloutOfLearning == [LearningNext]_<<part, vars, factVars>> => [Next]_vars
BY DEF LearningNext

(* For any policy, any number of hosts, runs and reviews, whatever the     *)
(* hosts hold and whenever they crash: the rollout that is on disk passes  *)
(* the validation that reading it back applies.                            *)
THEOREM RolloutStaysReadable == LearningSpec => []RolloutSound
<1>1. LearningInit => RolloutInv
  BY DEF LearningInit, Init, RolloutInv, FileInv
<1>2. RolloutInv /\ [LearningNext]_<<part, vars, factVars>> => RolloutInv'
  BY RolloutOfLearning, RolloutStep
<1>3. RolloutInv => RolloutSound
  BY DEF RolloutInv, FileInv, RolloutSound
<1> QED
  BY <1>1, <1>2, <1>3, PTL DEF LearningSpec

-----------------------------------------------------------------------------
(* The history of the runs and the counters of the rollout. The baseline   *)
(* has proved itself at least as often as the counter says; as long as the *)
(* rollout goes on, every run that has ended was verified.                 *)
RunRecords == [candidate : BOOLEAN, low : BOOLEAN, verified : 0..2]
Tried(history) == {i \in DOMAIN history : history[i].candidate}
LowRuns(history) == {i \in DOMAIN history : history[i].low}
Proving(history) == {i \in DOMAIN history : history[i].low /\ ~history[i].candidate}
ToBeProved(r) ==
    IF r.pending # NoDecision /\ r.pending.choice # "candidate" /\ r.pending.low THEN 1 ELSE 0

Counted(r, history) ==
    /\ r.low = Cardinality(LowRuns(history))
    /\ r.canary = Cardinality(Tried(history))
    /\ r.activeOk + ToBeProved(r) <= Cardinality(Proving(history))
Ended(r, history) ==
    /\ r.pending = NoDecision /\ r.status \in {"warmup", "canary"} =>
          \A i \in DOMAIN history : history[i].verified = 1
    /\ r.pending # NoDecision =>
          /\ history # <<>> /\ history[Len(history)].verified = 2
          /\ \A i \in 1..(Len(history) - 1) : history[i].verified = 1
HistoryInv ==
    /\ runs \in Seq(RunRecords)
    /\ file = NoRollout => runs = <<>>
    /\ file # NoRollout => Counted(file, runs) /\ Ended(file, runs)

LEMMA HistoryFinite ==
  ASSUME NEW history \in Seq(RunRecords)
  PROVE  /\ Cardinality(LowRuns(history)) \in Nat
         /\ Cardinality(Tried(history)) \in Nat
         /\ Cardinality(Proving(history)) \in Nat
<1>1. IsFiniteSet(DOMAIN history)
  <2>1. Len(history) \in Nat /\ DOMAIN history = 1..Len(history)
    BY LenProperties
  <2> QED
    BY <2>1, FS_Interval
<1>2. /\ LowRuns(history) \in SUBSET (DOMAIN history)
      /\ Tried(history) \in SUBSET (DOMAIN history)
      /\ Proving(history) \in SUBSET (DOMAIN history)
  BY DEF LowRuns, Tried, Proving
<1>3. \A S \in SUBSET (DOMAIN history) : Cardinality(S) \in Nat
  BY <1>1, FS_Subset, FS_CardinalityType
<1> QED
  BY <1>2, <1>3

LEMMA OneMore ==
  ASSUME NEW n \in Nat, NEW S \in SUBSET (1..n), NEW more \in BOOLEAN,
         NEW T, T = IF more THEN S \cup {n + 1} ELSE S
  PROVE  Cardinality(T) = Cardinality(S) + IF more THEN 1 ELSE 0
<1>1. IsFiniteSet(1..n) /\ n + 1 \notin 1..n
  BY FS_Interval
<1>2. IsFiniteSet(S) /\ n + 1 \notin S
  BY <1>1, FS_Subset
<1>3. /\ Cardinality(S) \in Nat
      /\ Cardinality(S \cup {n + 1}) = Cardinality(S) + 1
  BY <1>2, FS_AddElement, FS_CardinalityType
<1> QED
  BY <1>3

(* A run that starts adds itself to the counts it belongs to.              *)
LEMMA RunStarts ==
  ASSUME NEW history \in Seq(RunRecords), NEW candidate \in BOOLEAN, NEW low \in BOOLEAN
  PROVE  LET next == Append(history, [candidate |-> candidate, low |-> low, verified |-> 2])
             One(condition) == IF condition THEN 1 ELSE 0
         IN /\ next \in Seq(RunRecords)
            /\ Cardinality(LowRuns(next)) = Cardinality(LowRuns(history)) + One(low)
            /\ Cardinality(Tried(next)) = Cardinality(Tried(history)) + One(candidate)
            /\ Cardinality(Proving(next)) =
                  Cardinality(Proving(history)) + One(low /\ ~candidate)
            /\ next # <<>> /\ next[Len(next)].verified = 2
            /\ \A i \in 1..(Len(next) - 1) : i \in DOMAIN history /\ next[i] = history[i]
<1> DEFINE run == [candidate |-> candidate, low |-> low, verified |-> 2]
           next == Append(history, run)
<1>1. run \in RunRecords
  BY DEF RunRecords
<1>2. run.candidate = candidate /\ run.low = low /\ run.verified = 2
  BY Zenon
<1> HIDE DEF run
<1>3. PICK n \in Nat : n = Len(history) /\ DOMAIN history = 1..n
  BY LenProperties
<1>4. /\ next \in Seq(RunRecords) /\ next # <<>> /\ Len(next) = n + 1
      /\ \A i \in 1..n : next[i] = history[i]
      /\ next[n + 1] = run
  BY <1>1, <1>3, AppendProperties
<1> HIDE DEF next
<1>5. DOMAIN next = 1..n + 1
  BY <1>4, LenProperties
<1>6. 1..n + 1 = (1..n) \cup {n + 1} /\ n + 1 \notin 1..n
  OBVIOUS
<1>7. LowRuns(next) = IF low THEN LowRuns(history) \cup {n + 1} ELSE LowRuns(history)
  BY <1>2, <1>3, <1>4, <1>5, <1>6, Zenon DEF LowRuns
<1>8. Tried(next) = IF candidate THEN Tried(history) \cup {n + 1} ELSE Tried(history)
  BY <1>2, <1>3, <1>4, <1>5, <1>6, Zenon DEF Tried
<1>9. Proving(next) = IF low /\ ~candidate THEN Proving(history) \cup {n + 1}
                      ELSE Proving(history)
  BY <1>2, <1>3, <1>4, <1>5, <1>6, Zenon DEF Proving
<1>10. /\ LowRuns(history) \in SUBSET (1..n) /\ Tried(history) \in SUBSET (1..n)
       /\ Proving(history) \in SUBSET (1..n)
  BY <1>3 DEF LowRuns, Tried, Proving
<1>11. /\ Cardinality(LowRuns(next)) =
             Cardinality(LowRuns(history)) + (IF low THEN 1 ELSE 0)
       /\ Cardinality(Tried(next)) =
             Cardinality(Tried(history)) + (IF candidate THEN 1 ELSE 0)
       /\ Cardinality(Proving(next)) =
             Cardinality(Proving(history)) + (IF low /\ ~candidate THEN 1 ELSE 0)
  <2>1. Cardinality(LowRuns(next)) = Cardinality(LowRuns(history)) + IF low THEN 1 ELSE 0
    BY <1>7, <1>10, OneMore, ZenonT(60)
  <2>2. Cardinality(Tried(next)) =
           Cardinality(Tried(history)) + IF candidate THEN 1 ELSE 0
    BY <1>8, <1>10, OneMore, ZenonT(60)
  <2>3. PICK proves \in BOOLEAN : proves = (low /\ ~candidate)
    OBVIOUS
  <2>4. Proving(next) = IF proves THEN Proving(history) \cup {n + 1} ELSE Proving(history)
    BY <1>9, <2>3
  <2>5. Cardinality(Proving(next)) = Cardinality(Proving(history)) + IF proves THEN 1 ELSE 0
    BY <1>10, <2>4, OneMore, ZenonT(60)
  <2> QED
    BY <2>1, <2>2, <2>3, <2>5
<1>12. /\ next[Len(next)].verified = 2
       /\ \A i \in 1..(Len(next) - 1) : i \in DOMAIN history /\ next[i] = history[i]
  BY <1>2, <1>3, <1>4
<1> QED
  BY <1>4, <1>11, <1>12 DEF next, run

(* A run that ends is still counted where it was.                          *)
LEMMA RunEnds ==
  ASSUME NEW history \in Seq(RunRecords), history # <<>>, NEW verified \in {0, 1},
         NEW run, run = [history[Len(history)] EXCEPT !.verified = verified],
         NEW next, next = [history EXCEPT ![Len(history)] = run]
  PROVE  /\ next \in Seq(RunRecords)
         /\ LowRuns(next) = LowRuns(history) /\ Tried(next) = Tried(history)
         /\ Proving(next) = Proving(history)
         /\ DOMAIN next = DOMAIN history /\ next[Len(history)].verified = verified
         /\ \A i \in 1..(Len(history) - 1) : next[i] = history[i]
<1>1. PICK n \in Nat : n = Len(history) /\ DOMAIN history = 1..n /\ n \in 1..n
  BY LenProperties, EmptySeq
<1>2. history[n] \in RunRecords
  BY <1>1, ElementOfSeq
<1>3. run \in RunRecords /\ run.verified = verified
  BY <1>1, <1>2 DEF RunRecords
<1>4. run.candidate = history[n].candidate /\ run.low = history[n].low
  BY <1>1, <1>2, Zenon DEF RunRecords
<1>5. next = [history EXCEPT ![n] = run]
  BY <1>1
<1>6. /\ next \in Seq(RunRecords) /\ DOMAIN next = 1..n
      /\ \A i \in 1..n : next[i] = IF i = n THEN run ELSE history[i]
  <2>1. /\ [history EXCEPT ![n] = run] \in Seq(RunRecords)
        /\ Len([history EXCEPT ![n] = run]) = n
        /\ \A i \in 1..n : [history EXCEPT ![n] = run][i] = IF i = n THEN run ELSE history[i]
    BY <1>1, <1>3, ExceptSeq
  <2> QED
    BY <1>5, <2>1, LenProperties
<1>7. \A i \in 1..n : next[i].candidate = history[i].candidate /\ next[i].low = history[i].low
  BY <1>4, <1>6, Zenon
<1>8. /\ LowRuns(next) = LowRuns(history) /\ Tried(next) = Tried(history)
      /\ Proving(next) = Proving(history)
  BY <1>1, <1>6, <1>7, ZenonT(60) DEF LowRuns, Tried, Proving
<1>9. next[n].verified = verified /\ \A i \in 1..(n - 1) : next[i] = history[i]
  BY <1>1, <1>3, <1>6
<1> QED
  BY <1>1, <1>6, <1>8, <1>9

LEMMA SameCount == \A S : Trial!Cardinality(S) = Cardinality(S)
BY Zenon DEF Cardinality, Trial!Cardinality

(* What CanaryTrial asks before the candidate gets a run, in those counts. *)
LEMMA AllowedWhen ==
  ASSUME NEW history
  PROVE  Trial!CanaryAllowed(history) <=>
            /\ \A i \in DOMAIN history : history[i].verified = 1
            /\ Cardinality(Proving(history)) >= Warmup
            /\ Cardinality(Tried(history)) < Canaries
            /\ (Cardinality(Tried(history)) + 1) * Interval <= Cardinality(LowRuns(history)) + 1
BY Zenon, SameCount DEF Trial!CanaryAllowed, Trial!Of, Trial!AllVerified, Proving, Tried,
   LowRuns

LEMMA RouteHistory ==
  ASSUME RolloutInv, HistoryInv, NEW h \in Hosts, NEW ctx \in Contexts, Route(h, ctx)
  PROVE  HistoryInv' /\ Trial!Begin
<1> DEFINE ev == held[h].candidate
<1>1. /\ file # NoRollout /\ file.pending = NoDecision
      /\ file.status \in {"warmup", "canary"}
      /\ file' = Issued(file, Decision(file, ev, ctx), ctx)
      /\ runs' = Append(runs, [candidate |-> Decision(file, ev, ctx)[1] = "candidate",
                               low |-> ctx.low, verified |-> 2])
  BY DEF Route
<1>2. Rollout(file) /\ RolloutValid(file) /\ PendingInv(file)
  BY <1>1 DEF RolloutInv, FileInv
<1>3. PICK choice, status, reason :
         /\ Decision(file, ev, ctx) = <<choice, status, reason>>
         /\ choice \in {"baseline", "candidate", "rollback"}
         /\ status \in {"warmup", "canary", "rolled_back"}
         /\ reason \in {"none", "rollout_expired", "evidence_drift", "evidence_expired"}
         /\ choice = "candidate" =>
               /\ ctx.low /\ file.activeOk >= Warmup /\ CanaryDue(file)
               /\ file.canary < Canaries
  BY <1>1, <1>2, DecisionCases
<1>4. PICK candidate \in BOOLEAN, low \in BOOLEAN :
         candidate = (choice = "candidate") /\ low = ctx.low
  BY PolicyAssumption
<1>5. PICK f, next :
         /\ f = file' /\ next = runs' /\ f = Issued(file, <<choice, status, reason>>, ctx)
         /\ next = Append(runs, [candidate |-> candidate, low |-> low, verified |-> 2])
  <2>1. Decision(file, ev, ctx)[1] = choice
    BY <1>3
  <2>2. candidate = (Decision(file, ev, ctx)[1] = "candidate") /\ low = ctx.low
    BY <1>4, <2>1
  <2>3. runs' = Append(runs, [candidate |-> candidate, low |-> low, verified |-> 2])
    BY <1>1, <2>2, Zenon
  <2>4. file' = Issued(file, <<choice, status, reason>>, ctx)
    BY <1>1, <1>3, Zenon
  <2> QED
    BY <2>3, <2>4, Zenon
<1>6. /\ f.low = (IF ctx.low THEN file.low + 1 ELSE file.low)
      /\ f.canary = (IF choice = "candidate" THEN file.canary + 1 ELSE file.canary)
      /\ f.activeOk = file.activeOk /\ Rollout(f)
      /\ f.pending \in Decisions /\ f.pending.choice = choice /\ f.pending.low = ctx.low
  BY <1>2, <1>3, <1>5, IssuedFields
<1>7. /\ runs \in Seq(RunRecords) /\ Counted(file, runs)
      /\ \A i \in DOMAIN runs : runs[i].verified = 1
  BY <1>1 DEF HistoryInv, Ended
<1>8. /\ file.low \in Nat /\ file.canary \in Nat /\ file.activeOk \in Nat
      /\ f.pending # NoDecision /\ f # NoRollout
  <2>1. file.low \in Nat /\ file.canary \in Nat /\ file.activeOk \in Nat
    BY <1>2, RolloutNumbers
  <2>2. f.status # "none"
    BY <1>6, RolloutNumbers
  <2> QED
    BY <1>6, <2>1, <2>2, NoDecisionIsNone DEF NoRollout
<1>9. /\ next \in Seq(RunRecords)
      /\ Cardinality(LowRuns(next)) = Cardinality(LowRuns(runs)) + (IF low THEN 1 ELSE 0)
      /\ Cardinality(Tried(next)) = Cardinality(Tried(runs)) + (IF candidate THEN 1 ELSE 0)
      /\ Cardinality(Proving(next)) =
            Cardinality(Proving(runs)) + (IF low /\ ~candidate THEN 1 ELSE 0)
      /\ next # <<>> /\ next[Len(next)].verified = 2
      /\ \A i \in 1..(Len(next) - 1) : i \in DOMAIN runs /\ next[i] = runs[i]
  BY <1>5, <1>7, RunStarts
<1>10. Counted(f, next)
  <2>1. /\ file.low = Cardinality(LowRuns(runs)) /\ file.canary = Cardinality(Tried(runs))
        /\ file.activeOk <= Cardinality(Proving(runs)) /\ Cardinality(Proving(runs)) \in Nat
    BY <1>1, <1>7, <1>8, HistoryFinite DEF Counted, ToBeProved
  <2>2. ToBeProved(f) = IF low /\ ~candidate THEN 1 ELSE 0
    BY <1>4, <1>6, <1>8, Zenon DEF ToBeProved
  <2> QED
    <3>1. f.low = Cardinality(LowRuns(next)) /\ f.canary = Cardinality(Tried(next))
      <4>1. f.low = file.low + IF low THEN 1 ELSE 0
        BY <1>4, <1>6, <1>8
      <4>2. f.canary = file.canary + IF candidate THEN 1 ELSE 0
        <5>1. CASE candidate
          BY <1>4, <1>6, <1>8, <5>1
        <5>2. CASE ~candidate
          <6>1. choice # "candidate"
            BY <1>4, <5>2
          <6>2. f.canary = file.canary
            BY <1>6, <6>1
          <6> QED
            BY <1>8, <5>2, <6>2
        <5> QED
          BY <5>1, <5>2
      <4> QED
        BY <1>9, <2>1, <4>1, <4>2
    <3>2. f.activeOk + ToBeProved(f) <= Cardinality(Proving(next))
      <4>1. PICK more \in {0, 1} : more = IF low /\ ~candidate THEN 1 ELSE 0
        OBVIOUS
      <4>2. PICK a \in Nat, b \in Nat :
               a = file.activeOk /\ b = Cardinality(Proving(runs)) /\ a <= b
        BY <1>8, <2>1
      <4>3. /\ f.activeOk = a /\ ToBeProved(f) = more
            /\ Cardinality(Proving(next)) = b + more
        BY <1>6, <1>9, <2>2, <4>1, <4>2
      <4> QED
        BY <4>2, <4>3
    <3> QED
      BY <3>1, <3>2 DEF Counted
<1>11. Ended(f, next)
  BY <1>7, <1>8, <1>9 DEF Ended
<1>12. HistoryInv'
  BY <1>5, <1>8, <1>9, <1>10, <1>11 DEF HistoryInv, Counted, Ended, ToBeProved, LowRuns, Tried,
     Proving
<1>13. runs # <<>> => runs[Len(runs)].verified # 2
  <2>1. Len(runs) \in Nat /\ DOMAIN runs = 1..Len(runs) /\ (runs # <<>> => Len(runs) # 0)
    BY <1>7, LenProperties, EmptySeq
  <2> QED
    BY <1>7, <2>1
<1>14. candidate => low /\ Trial!CanaryAllowed(runs)
  <2> SUFFICES ASSUME candidate PROVE low /\ Trial!CanaryAllowed(runs)
    OBVIOUS
  <2>1. Warmup \in Nat /\ Interval \in Nat \ {0} /\ Canaries \in Nat
    BY PolicyAssumption
  <2>2. /\ low /\ file.activeOk >= Warmup /\ (file.low + 1) % Interval = 0
        /\ file.canary < Canaries
    BY <1>3, <1>4 DEF CanaryDue
  <2>3. /\ file.low = Cardinality(LowRuns(runs)) /\ file.canary = Cardinality(Tried(runs))
        /\ file.activeOk <= Cardinality(Proving(runs)) /\ Cardinality(Proving(runs)) \in Nat
    BY <1>1, <1>7, <1>8, HistoryFinite DEF Counted, ToBeProved
  <2>4. file.canary <= file.low \div Interval
    <3>1. PICK g \in {0, 1} : g = IF file.pending = NoDecision THEN 0 ELSE 1
      OBVIOUS
    <3> QED
      BY <1>2, <3>1, ValidParts
  <2>5. (file.canary + 1) * Interval <= file.low + 1
    <3>1. PICK n \in Nat : n = file.low + 1
      BY <1>8
    <3>2. PICK a \in Nat, b \in Nat :
             a = file.low \div Interval /\ b = n \div Interval /\ b = a + 1
      <4>1. PICK l \in Nat, k \in Nat \ {0} : l = file.low /\ k = Interval
        BY <1>8, <2>1
      <4>2. /\ l \div k \in Nat /\ n = l + 1 /\ n % k = 0
            /\ n % k = 0 => n \div k = l \div k + 1
        BY <2>2, <3>1, <4>1, NextInterval
      <4>3. n \div k \in Nat
        BY <4>2
      <4> QED
        BY <4>1, <4>2, <4>3
    <3>3. PICK m \in Nat : m = file.canary + 1 /\ m <= b
      BY <1>8, <2>4, <3>2
    <3> QED
      <4>1. PICK k \in Nat \ {0} : k = Interval
        BY <2>1
      <4>2. m <= n \div k
        BY <3>2, <3>3, <4>1
      <4>3. m * k <= n
        BY <4>2, NextInterval
      <4> QED
        BY <3>1, <3>3, <4>1, <4>3
  <2>6. Cardinality(Proving(runs)) >= Warmup
    BY <1>8, <2>1, <2>2, <2>3
  <2> QED
    BY <1>7, <2>2, <2>3, <2>5, <2>6, AllowedWhen
<1>15. Trial!Begin
  BY <1>5, <1>13, <1>14, Zenon DEF Trial!Begin
<1> QED
  BY <1>12, <1>15

LEMMA OutcomeHistory ==
  ASSUME RolloutInv, HistoryInv, NEW h \in Hosts, RecordOutcome(h)
  PROVE  HistoryInv' /\ Trial!End
<1>1. PICK verified \in {0, 1} :
         /\ file' = Recorded(file, verified)
         /\ runs' = [runs EXCEPT ![Len(runs)].verified = verified]
  BY DEF RecordOutcome
<1>2. file # NoRollout /\ file.pending # NoDecision
  BY DEF RecordOutcome
<1>3. Rollout(file)
  BY <1>2 DEF RolloutInv, FileInv
<1>4. PICK f, next :
         /\ f = file' /\ next = runs' /\ f = Recorded(file, verified)
         /\ next = [runs EXCEPT ![Len(runs)].verified = verified]
  BY <1>1
<1>5. file.pending \in Decisions /\ file.activeOk \in Nat
  BY <1>2, <1>3, RolloutNumbers
<1>6. /\ Rollout(f) /\ f.pending = NoDecision
      /\ f.low = file.low /\ f.canary = file.canary
      /\ f.activeOk = (IF /\ verified = 1 /\ file.pending.choice # "candidate"
                          /\ file.pending.low
                       THEN file.activeOk + 1 ELSE file.activeOk)
      /\ verified = 0 => f.status = "rolled_back"
  BY <1>3, <1>4, <1>5, RecordedFields
<1>7. /\ runs \in Seq(RunRecords) /\ Counted(file, runs)
      /\ runs # <<>> /\ runs[Len(runs)].verified = 2
      /\ \A i \in 1..(Len(runs) - 1) : runs[i].verified = 1
  BY <1>2 DEF HistoryInv, Ended
<1>8. /\ next \in Seq(RunRecords)
      /\ LowRuns(next) = LowRuns(runs) /\ Tried(next) = Tried(runs)
      /\ Proving(next) = Proving(runs)
      /\ DOMAIN next = DOMAIN runs /\ next[Len(runs)].verified = verified
      /\ \A i \in 1..(Len(runs) - 1) : next[i] = runs[i]
  <2>1. PICK run : run = [runs[Len(runs)] EXCEPT !.verified = verified]
    OBVIOUS
  <2>2. next = [runs EXCEPT ![Len(runs)] = run]
    BY <1>4, <2>1
  <2> QED
    <3>1. runs \in Seq(RunRecords) /\ runs # <<>> /\ verified \in {0, 1}
      BY <1>7
    <3>2. next \in Seq(RunRecords)
      BY <2>1, <2>2, <3>1, RunEnds
    <3>3. /\ LowRuns(next) = LowRuns(runs) /\ Tried(next) = Tried(runs)
          /\ Proving(next) = Proving(runs)
      BY <2>1, <2>2, <3>1, RunEnds
    <3>4. DOMAIN next = DOMAIN runs /\ next[Len(runs)].verified = verified
      BY <2>1, <2>2, <3>1, RunEnds
    <3>5. \A i \in 1..(Len(runs) - 1) : next[i] = runs[i]
      BY <2>1, <2>2, <3>1, RunEnds
    <3> QED
      BY <3>2, <3>3, <3>4, <3>5
<1>9. f # NoRollout
  BY <1>6, RolloutNumbers DEF NoRollout
<1>10. Counted(f, next)
  <2>1. f.low = Cardinality(LowRuns(next)) /\ f.canary = Cardinality(Tried(next))
    BY <1>6, <1>7, <1>8 DEF Counted
  <2>2. ToBeProved(f) = 0
    BY <1>6 DEF ToBeProved
  <2>3. PICK more \in {0, 1} : more = ToBeProved(file)
    BY DEF ToBeProved
  <2>4. file.activeOk + more <= Cardinality(Proving(next)) /\ Cardinality(Proving(next)) \in Nat
    BY <1>7, <1>8, <2>3, HistoryFinite DEF Counted
  <2>5. f.activeOk = file.activeOk \/ (f.activeOk = file.activeOk + 1 /\ more = 1)
    <3>1. CASE file.pending.choice # "candidate" /\ file.pending.low
      BY <1>2, <1>6, <2>3, <3>1 DEF ToBeProved
    <3>2. CASE ~(file.pending.choice # "candidate" /\ file.pending.low)
      BY <1>6, <3>2
    <3> QED
      BY <3>1, <3>2
  <2>6. f.activeOk + 0 <= Cardinality(Proving(next))
    BY <1>5, <2>3, <2>4, <2>5
  <2> QED
    BY <2>1, <2>2, <2>6 DEF Counted
<1>11. Ended(f, next)
  <2> SUFFICES ASSUME f.status \in {"warmup", "canary"}, NEW i \in DOMAIN next
               PROVE  next[i].verified = 1
    BY <1>6 DEF Ended
  <2>1. verified = 1
    BY <1>6
  <2>2. Len(runs) \in Nat /\ DOMAIN runs = 1..Len(runs)
    BY <1>7, LenProperties
  <2>3. i = Len(runs) \/ i \in 1..(Len(runs) - 1)
    BY <1>8, <2>2
  <2> QED
    BY <1>7, <1>8, <2>1, <2>3
<1>12. HistoryInv'
  BY <1>4, <1>8, <1>9, <1>10, <1>11 DEF HistoryInv, Counted, Ended, ToBeProved, LowRuns, Tried,
     Proving
<1>13. Trial!End
  BY <1>1, <1>7, Zenon DEF Trial!End
<1> QED
  BY <1>12, <1>13

LEMMA HistoryStep ==
  ASSUME RolloutInv, HistoryInv, [Next]_vars
  PROVE  HistoryInv' /\ [Trial!Next]_runs
<1>1. ASSUME file' = file, runs' = runs
      PROVE  HistoryInv' /\ [Trial!Next]_runs
  BY <1>1 DEF HistoryInv, Counted, Ended, ToBeProved, LowRuns, Tried, Proving
<1>2. CASE UNCHANGED vars
  BY <1>1, <1>2 DEF vars
<1>3. ASSUME NEW h \in Hosts, Create(h)
      PROVE  HistoryInv' /\ [Trial!Next]_runs
  <2>1. PICK f :
           /\ f = file' /\ f.low = 0 /\ f.canary = 0 /\ f.activeOk = 0 /\ f.status = "warmup"
           /\ f.pending = NoDecision
    BY <1>3 DEF Create
  <2>2. runs = <<>> /\ runs' = runs /\ runs \in Seq(RunRecords)
    BY <1>3 DEF Create, HistoryInv
  <2>3. DOMAIN runs = {}
    BY <2>2, LenProperties, EmptySeq
  <2>4. LowRuns(runs) = {} /\ Tried(runs) = {} /\ Proving(runs) = {} /\ ToBeProved(f) = 0
    BY <2>1, <2>3 DEF LowRuns, Tried, Proving, ToBeProved
  <2>5. Counted(f, runs) /\ Ended(f, runs)
    BY <2>1, <2>3, <2>4, FS_EmptySet DEF Counted, Ended
  <2> QED
    BY <2>1, <2>2, <2>5 DEF HistoryInv, Counted, Ended, ToBeProved, LowRuns, Tried, Proving
<1>4. CASE Next
  BY <1>1, <1>3, <1>4, RolloutMoves, RouteHistory, OutcomeHistory DEF Trial!Next
<1> QED
  BY <1>2, <1>4

(* For any policy and any number of hosts: the runs on disk are a history  *)
(* that CanaryTrial allows, so the candidate gets its share of harmless    *)
(* runs, after the baseline has proved itself, and none after a failure.   *)
THEOREM CandidateKeepsItsShare == LearningSpec => ImplementsTrial
<1>1. LearningInit => RolloutInv /\ HistoryInv /\ Trial!Init
  BY EmptySeq DEF LearningInit, Init, RolloutInv, FileInv, HistoryInv, Trial!Init
<1>2. RolloutInv /\ [LearningNext]_<<part, vars, factVars>> => RolloutInv'
  BY RolloutOfLearning, RolloutStep
<1>3. RolloutInv /\ HistoryInv /\ [LearningNext]_<<part, vars, factVars>> =>
         HistoryInv' /\ [Trial!Next]_runs
  BY RolloutOfLearning, HistoryStep
<1> QED
  BY <1>1, <1>2, <1>3, PTL DEF LearningSpec, ImplementsTrial, Trial!Spec
=============================================================================
