---------------------------- MODULE DesktopProofs ----------------------------
(***************************************************************************)
(* Proofs about the two parts of MCDesktop.                                *)
(*                                                                         *)
(* DesktopLink and its server: DesktopInv is inductive, for any calls,     *)
(* requests and generations, and gives StopsInTime, AnswerHonest and       *)
(* DesktopLeftAlone. The steps of the server change one job at a time      *)
(* (JobStep, AnswerStep, ActStep), the surroundings what a job knows       *)
(* (WorldStep), and the client the link and its call (LinkStep).           *)
(*                                                                         *)
(* SessionRefs: RefInv is inductive, for any controls, and gives           *)
(* RefsMeanOneControl and SecretsHidden. A walk over controls or nodes is  *)
(* a function on its first steps: WalkExists and StaysIn give what it      *)
(* keeps.                                                                  *)
(***************************************************************************)
EXTENDS MCDesktop, TLAPS, FiniteSetTheorems, WellFoundedInduction

(* The tools, and what kind of answer each has.                            *)

LEMMA ToolSets ==
  /\ DOMAIN ObservationTools =
        {"ui_snapshot", "find", "list_windows", "screenshot", "capture_region", "ocr",
         "document_text"}
  /\ DOMAIN ActionTools = {"activate_window", "click", "scroll", "drag", "type", "key"}
  /\ Tools = DOMAIN ObservationTools \cup DOMAIN ActionTools
<1>1. DOMAIN ObservationTools =
        {"ui_snapshot", "find", "list_windows", "screenshot", "capture_region", "ocr",
         "document_text"}
  BY DEF ObservationTools
<1>2. DOMAIN ActionTools = {"activate_window", "click", "scroll", "drag", "type", "key"}
  BY DEF ActionTools
<1>3. Tools = DOMAIN ObservationTools \cup DOMAIN ActionTools
  BY DEF Tools, Registry
<1> QED
  BY <1>1, <1>2, <1>3

LEMMA Specs ==
  /\ \A t \in DOMAIN ObservationTools : Registry({})[t].effect = "observation"
  /\ \A t \in DOMAIN ActionTools :
        Registry({})[t].effect = "side_effect" /\ Registry({})[t].content = "text"
<1>1. ASSUME NEW t \in DOMAIN ObservationTools
      PROVE  Registry({})[t] = ObservationTools[t]
  BY DEF Registry
<1>2. ASSUME NEW t \in DOMAIN ActionTools
      PROVE  Registry({})[t] = ActionTools[t]
  BY <1>2, ToolSets DEF Registry
<1>3. ASSUME NEW t \in DOMAIN ObservationTools
      PROVE  ObservationTools[t].effect = "observation"
  BY <1>3, ToolSets DEF ObservationTools, Reads
<1>4. ASSUME NEW t \in DOMAIN ActionTools
      PROVE  ActionTools[t].effect = "side_effect" /\ ActionTools[t].content = "text"
  BY <1>4, ToolSets DEF ActionTools, Acts
<1> QED
  BY <1>1, <1>2, <1>3, <1>4

-----------------------------------------------------------------------------
(* The types of a job at work.                                             *)
LEMMA JobTypes ==
  ASSUME TypeOK, NEW g \in Gens, Working(g)
  PROVE  /\ child[g].job \in Jobs /\ child[g] \in Children
         /\ child[g].job.id \in Calls /\ child[g].job.pc \in JobSteps
         /\ child[g].job.attempts \in Nat /\ child[g].job.todo \in Seq(Ops)
BY DEF TypeOK, Working, Children, Jobs, Idle

(* A job moves on without an answer or a step on the desktop.              *)
LEMMA JobStep ==
  ASSUME DesktopInv, NEW g \in Gens, Working(g), NEW job \in Jobs,
         child' = [child EXCEPT ![g].job = job],
         UNCHANGED <<mode, screen, acted, replies, link, call, results, sent>>,
         job.id = child[g].job.id, job.tool = child[g].job.tool,
         Counted(job), Formed(job.todo, job.tool),
         Released(child[g].job) => Released(job), Heeds(g, job)
  PROVE  DesktopInv'
<1>0. TypeOK /\ child \in [Gens -> Children]
  BY DEF DesktopInv, TypeOK
<1>1. /\ child' \in [Gens -> Children]
      /\ child'[g].job = job /\ child'[g].alive = child[g].alive
      /\ child'[g].listed = child[g].listed
      /\ \A h \in Gens : h # g => child'[h] = child[h]
  BY <1>0 DEF Children
<1>2. job.pc # "idle" /\ child[g].alive /\ child[g].job.pc # "idle"
  BY DEF Jobs, JobSteps, Unguarded, Working
<1>3. \A h \in Gens : Working(h)' <=> Working(h)
  BY <1>1, <1>2 DEF Working
<1>4. TypeOK'
  BY <1>0, <1>1 DEF TypeOK
<1>5. ChildInv'
  BY <1>1, <1>2 DEF DesktopInv, ChildInv
<1>6. CallInv'
  BY <1>1, <1>3 DEF DesktopInv, CallInv
<1>7. AnswerInv'
  BY <1>1, <1>3 DEF DesktopInv, AnswerInv, Counted
<1>8. HeldInv'
  <2>1. \A h \in Gens : Untouched(h)' <=> Untouched(h)
    BY DEF Untouched
  <2>2. NoKeyHeld' <=> NoKeyHeld
    BY DEF NoKeyHeld
  <2>3. Released(job)' <=> Released(job)
    BY DEF Released, NoKeyHeld
  <2>4. \A h \in Gens : h # g => (Released(child[h].job)' <=> Released(child[h].job))
    BY <1>1 DEF Released, NoKeyHeld
  <2>5. \A h \in Gens : Working(h)' => Formed(child'[h].job.todo, child'[h].job.tool)
    BY <1>1, <1>3 DEF DesktopInv, HeldInv
  <2> QED
    BY <1>1, <1>2, <1>3, <2>1, <2>2, <2>3, <2>4, <2>5 DEF DesktopInv, HeldInv, Released
<1>9. StopInv'
  BY <1>1, <1>3 DEF DesktopInv, StopInv, Heeds, Gone
<1>10. AnswerHonest'
  BY DEF DesktopInv, AnswerHonest
<1> QED
  BY <1>4, <1>5, <1>6, <1>7, <1>8, <1>9, <1>10 DEF DesktopInv

(* A job ends with an answer, after its cleanup.                           *)
LEMMA AnswerStep ==
  ASSUME DesktopInv, NEW g \in Gens, Working(g),
         NEW text \in Texts \ {"none"}, NEW decision \in Decisions,
         NEW own \in BOOLEAN, NEW listed \in 0..2, NEW held \in SUBSET (Keys \cup {"thread"}),
         child' = [child EXCEPT ![g] = [@ EXCEPT !.job = Idle, !.own = own, !.listed = listed]],
         replies' = [replies EXCEPT ![child[g].job.id] = [text |-> text, decision |-> decision]],
         screen' = [screen EXCEPT !.held = held],
         UNCHANGED <<mode, acted, link, call, results, sent>>,
         listed = 2 => screen.owner = 2,
         Released(child[g].job) => held \cap Keys = {},
         text \in RejectedTexts \cup ErrorTexts => child[g].job.id \notin acted,
         child[g].job.tool \in DOMAIN ObservationTools => text = "read",
         text # "read" => /\ decision = "unknown_outcome" <=> text \in UnknownTexts
                          /\ decision = "ok" <=> text \in {"ok", "driver_error"}
  PROVE  DesktopInv'
<1> DEFINE id == child[g].job.id
           reply == [text |-> text, decision |-> decision]
<1>0. /\ TypeOK /\ child \in [Gens -> Children] /\ id \in Calls /\ screen \in Screens
      /\ replies \in [Calls -> [text : Texts, decision : Decisions]]
      /\ child[g].alive /\ sent[id] = g /\ replies[id] = NoReply
      /\ g \in Nat /\ g # 0
  BY JobTypes, GenAssumption DEF DesktopInv, TypeOK, Working, CallInv
<1> HIDE DEF id
<1>1. /\ child' \in [Gens -> Children]
      /\ child'[g].job = Idle /\ child'[g].alive /\ child'[g].listed = listed
      /\ \A h \in Gens : h # g => child'[h] = child[h]
  BY <1>0, ZenonT(60) DEF Children
<1>2. /\ replies' \in [Calls -> [text : Texts, decision : Decisions]]
      /\ replies'[id].text = text /\ replies'[id].decision = decision
      /\ \A c \in Calls : c # id => replies'[c] = replies[c]
  BY <1>0 DEF id
<1>3. /\ screen' \in Screens /\ screen'.held = held /\ screen'.owner = screen.owner
      /\ screen'.estop = screen.estop /\ screen'.front = screen.front
  BY <1>0 DEF Screens
<1>4. ~Working(g)' /\ \A h \in Gens : h # g => (Working(h)' <=> Working(h))
  BY <1>1 DEF Working, Idle
<1>5. \A h \in Gens : child[h].alive => h = g
  BY <1>0 DEF DesktopInv, ChildInv
<1>6. TypeOK'
  BY <1>0, <1>1, <1>2, <1>3 DEF TypeOK
<1>7. ChildInv'
  BY <1>0, <1>1 DEF DesktopInv, ChildInv
<1>8. CallInv'
  BY <1>0, <1>1, <1>2, <1>4, <1>5 DEF DesktopInv, CallInv, Working
<1>9. AnswerInv'
  <2>1. call.pc = "sent" /\ call.tool \in DOMAIN ObservationTools =>
            replies'[call.id].text \in {"none", "read"} /\ call.id \notin acted
    BY <1>0, <1>2 DEF DesktopInv, AnswerInv, CallInv, ChildInv, id, TypeOK, NoCall
  <2> QED
    BY <1>0, <1>4, <1>5, <2>1 DEF AnswerInv, Working
<1>10. HeldInv'
  <2>1. Untouched(g)' <=> Untouched(g)
    BY DEF Untouched
  <2>2. Untouched(g) => NoKeyHeld'
    BY <1>0, <1>3 DEF DesktopInv, HeldInv, NoKeyHeld, Working
  <2>3. \A h \in Gens : child'[h].alive => h = g
    BY <1>1, <1>5
  <2> QED
    BY <1>0, <1>1, <1>4, <2>1, <2>2, <2>3 DEF HeldInv, Idle, Working
<1>11. StopInv'
  <2>1. \A h \in Gens : child'[h].listed = 2 => screen.owner = 2
    BY <1>1 DEF DesktopInv, StopInv
  <2> QED
    BY <1>1, <1>3, <1>4, <1>5, <2>1 DEF StopInv, Working
<1>12. AnswerHonest'
  <2> SUFFICES ASSUME NEW c \in Calls, c = id
               PROVE  /\ results[c] = "success" => text \in {"ok", "read"}
                      /\ results[c] \in {"rejected", "transport_error", "action_error"} => c \notin acted
                      /\ text \in RejectedTexts \cup ErrorTexts => c \notin acted
                      /\ text # "read" =>
                            /\ decision = "unknown_outcome" <=> text \in UnknownTexts
                            /\ decision = "ok" <=> text \in {"ok", "driver_error"}
    BY <1>2 DEF DesktopInv, AnswerHonest
  <2>1. results[c] \in {"none", "unknown_outcome"}
    BY <1>0 DEF DesktopInv, CallInv, NoReply
  <2> QED
    BY <2>1 DEF id
<1> QED
  BY <1>6, <1>7, <1>8, <1>9, <1>10, <1>11, <1>12 DEF DesktopInv

-----------------------------------------------------------------------------
(* The programs of the driver are made of its steps, release what they     *)
(* press, and only an activation brings a window to the front.             *)
LEMMA OpTypes ==
  /\ \A o \in OpNames : \A k \in Keys : Op(o, k) \in Ops
  /\ \A o \in OpNames : Call(o) \in Ops
  /\ \A o \in OpNames : \A k \in Keys : Op(o, k).name = o /\ Op(o, k).of = k
  /\ \A o \in OpNames : Call(o).name = o
BY DEF Op, Call, Ops

LEMMA ProgramsFormed ==
  ASSUME NEW tool \in DOMAIN ActionTools, NEW program \in Programs(tool)
  PROVE  program \in Seq(Ops) /\ Formed(program, tool)
<1>1. CASE program = PointerProgram.click \/ program = PointerProgram.drag
  <2>1. PICK a \in {Move, Op("press", "mouse")}, b \in {Move, Op("press", "mouse")},
             c \in {Move, Op("release", "mouse")}, d \in {Op("release", "mouse")} :
          \/ /\ program = <<a, b, c>>
             /\ a.name = "move" /\ b.name = "press" /\ b.of = "mouse"
             /\ c.name = "release" /\ c.of = "mouse"
          \/ /\ program = <<a, b, c, d>>
             /\ a.name = "move" /\ b.name = "press" /\ b.of = "mouse"
             /\ c.name = "move" /\ d.name = "release" /\ d.of = "mouse"
    BY <1>1 DEF PointerProgram, Move, Op
  <2>2. {Move, Op("press", "mouse"), Op("release", "mouse")} \subseteq Ops
    BY DEF Move, Op, Ops, OpNames, Keys
  <2>3. CASE program = <<a, b, c>> /\ a.name = "move" /\ b.name = "press" /\ b.of = "mouse"
             /\ c.name = "release" /\ c.of = "mouse"
    BY <2>2, <2>3 DEF Formed, Balanced
  <2>4. CASE program = <<a, b, c, d>> /\ a.name = "move" /\ b.name = "press" /\ b.of = "mouse"
             /\ c.name = "move" /\ d.name = "release" /\ d.of = "mouse"
    BY <2>2, <2>4 DEF Formed, Balanced
  <2> QED
    BY <2>1, <2>3, <2>4
<1>2. CASE program = PointerProgram.scroll \/ program = TextProgram
           \/ program = SemanticProgram \/ program = <<>>
  <2>1. {Move, Op("wheel", "mouse"), Op("unit", "s"), Call("invoke")} \subseteq Ops
    BY DEF Move, Op, Call, Ops, OpNames, Keys
  <2>2. \A o \in {Move, Op("wheel", "mouse"), Op("unit", "s"), Call("invoke")} :
            o.name \notin {"press", "front", "attach"}
    BY DEF Move, Op, Call
  <2>3. PICK a \in Ops, b \in Ops :
            /\ a.name \notin {"press", "front", "attach"}
            /\ b.name \notin {"press", "front", "attach"}
            /\ program = <<a, b>> \/ program = <<a>> \/ program = <<>>
    BY <1>2, <2>1, <2>2 DEF PointerProgram, TextProgram, SemanticProgram
  <2>4. /\ <<a, b>> \in Seq(Ops) /\ \A i \in DOMAIN <<a, b>> : <<a, b>>[i] \in {a, b}
        /\ <<a>> \in Seq(Ops) /\ \A i \in DOMAIN <<a>> : <<a>>[i] \in {a, b}
        /\ <<>> \in Seq(Ops) /\ \A i \in DOMAIN <<>> : <<>>[i] \in {a, b}
    OBVIOUS
  <2>5. program \in Seq(Ops) /\ \A i \in DOMAIN program : program[i] \in {a, b}
    BY <2>3, <2>4
  <2> QED
    BY <2>3, <2>5 DEF Formed, Balanced
<1>3. CASE program = ChordProgram
  <2> DEFINE a == Op("press", "ctrl")
             b == Op("press", "s")
             c == Op("release", "s")
             d == Op("release", "ctrl")
  <2>1. /\ a \in Ops /\ b \in Ops /\ c \in Ops /\ d \in Ops
        /\ a.name = "press" /\ a.of = "ctrl" /\ b.name = "press" /\ b.of = "s"
        /\ c.name = "release" /\ c.of = "s" /\ d.name = "release" /\ d.of = "ctrl"
    BY DEF Op, Ops, OpNames, Keys
  <2>2. program = <<a, b, c, d>>
    BY <1>3 DEF ChordProgram
  <2> HIDE DEF a, b, c, d
  <2> QED
    BY <2>1, <2>2 DEF Formed, Balanced
<1>4. CASE program = ActivateProgram /\ tool = "activate_window"
  <2> DEFINE a == Call("attach")
             b == Call("raise")
             c == Call("front")
             d == Call("detach")
  <2>1. /\ a \in Ops /\ b \in Ops /\ c \in Ops /\ d \in Ops
        /\ a.name = "attach" /\ a.of = "thread" /\ b.name = "raise" /\ c.name = "front" /\ d.name = "detach"
    BY DEF Call, Ops, OpNames, Keys
  <2>2. program = <<a, b, c, d>>
    BY <1>4 DEF ActivateProgram
  <2> HIDE DEF a, b, c, d
  <2> QED
    BY <1>4, <2>1, <2>2 DEF Formed, Balanced
<1>5. DOMAIN PointerProgram = {"click", "drag", "scroll"}
  BY DEF PointerProgram
<1>6. tool \in {"activate_window", "click", "scroll", "drag", "type", "key"}
  BY ToolSets
<1>7. CASE tool = "click"
  BY <1>1, <1>2, <1>5, <1>7 DEF Programs
<1>8. CASE tool \in {"drag", "scroll"}
  BY <1>1, <1>2, <1>5, <1>8 DEF Programs
<1>9. CASE tool = "key"
  BY <1>3, <1>5, <1>9 DEF Programs
<1>10. CASE tool = "type"
  BY <1>2, <1>5, <1>10 DEF Programs
<1>11. CASE tool = "activate_window"
  BY <1>2, <1>4, <1>5, <1>11 DEF Programs
<1> QED
  BY <1>6, <1>7, <1>8, <1>9, <1>10, <1>11

(* What is left of a program keeps its releases behind its presses, and    *)
(* gives up only the release it starts with.                               *)
LEMMA RestFormed ==
  ASSUME NEW todo \in Seq(Ops), todo # <<>>, NEW tool, Formed(todo, tool)
  PROVE  /\ Head(todo) \in Ops
         /\ Tail(todo) \in Seq(Ops) /\ Formed(Tail(todo), tool)
         /\ Head(todo).name = "front" => tool = "activate_window"
         /\ Head(todo).name = "attach" => Head(todo).of = "thread"
         /\ Head(todo).name = "press" => Head(todo).of \in Releases(Tail(todo))
         /\ Head(todo).name = "release" => Releases(todo) \subseteq Releases(Tail(todo)) \cup {Head(todo).of}
         /\ Head(todo).name # "release" => Releases(todo) \subseteq Releases(Tail(todo))
<1> DEFINE rest == Tail(todo)
<1>1. /\ Head(todo) \in Ops /\ rest \in Seq(Ops) /\ Len(todo) \in Nat /\ Len(todo) > 0
      /\ DOMAIN todo = 1..Len(todo) /\ DOMAIN rest = 1..(Len(todo) - 1)
      /\ Head(todo) = todo[1]
      /\ \A i \in DOMAIN rest : rest[i] = todo[i + 1]
  OBVIOUS
<1> HIDE DEF rest
<1>2. \A i \in DOMAIN todo : i # 1 => i - 1 \in DOMAIN rest /\ rest[i - 1] = todo[i]
  BY <1>1
<1>3. Balanced(rest)
  <2> SUFFICES ASSUME NEW i \in DOMAIN rest, rest[i].name = "press"
               PROVE  \E j \in DOMAIN rest :
                        j > i /\ rest[j].name = "release" /\ rest[j].of = rest[i].of
    BY DEF Balanced
  <2>1. i \in Nat /\ i + 1 \in DOMAIN todo /\ todo[i + 1] = rest[i]
    BY <1>1
  <2>2. PICK j \in DOMAIN todo :
            j > i + 1 /\ todo[j].name = "release" /\ todo[j].of = todo[i + 1].of
    BY <2>1 DEF Formed, Balanced
  <2>3. j \in Nat /\ j # 1 /\ j - 1 > i
    BY <1>1, <2>1, <2>2
  <2>4. j - 1 \in DOMAIN rest /\ rest[j - 1] = todo[j]
    BY <1>2, <2>3
  <2> QED
    BY <2>1, <2>2, <2>3, <2>4
<1>4. Formed(rest, tool)
  BY <1>1, <1>3 DEF Formed
<1>5. /\ Head(todo).name = "front" => tool = "activate_window"
      /\ Head(todo).name = "attach" => Head(todo).of = "thread"
  BY <1>1 DEF Formed
<1>6. Head(todo).name = "press" => Head(todo).of \in Releases(rest)
  <2> SUFFICES ASSUME todo[1].name = "press" PROVE todo[1].of \in Releases(rest)
    BY <1>1
  <2>1. PICK j \in DOMAIN todo : j > 1 /\ todo[j].name = "release" /\ todo[j].of = todo[1].of
    BY <1>1 DEF Formed, Balanced
  <2>2. j # 1
    BY <1>1, <2>1
  <2> QED
    BY <1>2, <2>1, <2>2 DEF Releases
<1>7. \A k \in Releases(todo) :
        k \in Releases(rest) \/ (Head(todo).name = "release" /\ k = Head(todo).of)
  <2> SUFFICES ASSUME NEW i \in DOMAIN todo, todo[i].name = "release"
               PROVE  todo[i].of \in Releases(rest)
                      \/ (Head(todo).name = "release" /\ todo[i].of = Head(todo).of)
    BY DEF Releases
  <2>1. CASE i = 1
    BY <1>1, <2>1
  <2>2. CASE i # 1
    BY <1>2, <2>2 DEF Releases
  <2> QED
    BY <2>1, <2>2
<1> QED
  BY <1>1, <1>4, <1>5, <1>6, <1>7 DEF rest

-----------------------------------------------------------------------------
(* A job that only moves on: what it may still change is its place, its    *)
(* program and what it knows of the person.                                *)
Continues(new, job) ==
  /\ new \in Jobs
  /\ new.id = job.id /\ new.tool = job.tool /\ new.target = job.target
  /\ new.attempts = job.attempts /\ new.stop = job.stop
  /\ new.late = job.late /\ new.away = job.away

LEMMA MoveOn ==
  ASSUME DesktopInv, NEW g \in Gens, Working(g), NEW new, Continues(new, child[g].job),
         Go(g, new), UNCHANGED linkVars,
         child[g].job.tool \in DOMAIN ActionTools,
         new.pc \in Unguarded => child[g].job.pc \in Unguarded,
         new.pc \in {"feel", "act"} => new.todo # <<>>,
         \/ new.todo = child[g].job.todo /\ new.failed = child[g].job.failed
         \/ child[g].job.pc \in Unguarded /\ Formed(new.todo, new.tool),
         child[g].job.stop =>
            \/ screen.estop \/ Gone(g, child[g].job)
            \/ mode = "safe" /\ ~new.ready /\ ~new.allowed /\ new.pc \in Sensitive,
         new.pc \notin {"look", "capture"} =>
            child[g].job.late = 0 /\ child[g].job.away = 0
  PROVE  DesktopInv'
<1> DEFINE job == child[g].job
<1>0. job \in Jobs /\ Counted(job) /\ Formed(job.todo, job.tool) /\ Heeds(g, job)
  BY JobTypes DEF DesktopInv, AnswerInv, HeldInv, StopInv
<1>1. Counted(new) /\ Formed(new.todo, new.tool)
  BY <1>0 DEF Counted, Continues
<1>2. Released(job) => Released(new)
  BY <1>0 DEF Released, Counted, NoKeyHeld, Continues
<1>3. Heeds(g, new)
  BY <1>0 DEF Heeds, Gone, Continues
<1> QED
  BY <1>1, <1>2, <1>3, JobStep DEF Continues, Go, linkVars

(* The call is over, once its cleanup has released what it held.           *)
LEMMA Refusal ==
  ASSUME DesktopInv, NEW g \in Gens, Working(g), child[g].job.tool \in DOMAIN ActionTools,
         NEW text \in RejectedTexts \cup ErrorTexts \cup UnknownTexts,
         NEW decision \in Decisions, NEW held \in SUBSET (Keys \cup {"thread"}),
         Answer(g, text, decision), UNCHANGED linkVars,
         screen' = [screen EXCEPT !.held = held],
         Released(child[g].job) => held \cap Keys = {},
         text \in RejectedTexts \cup ErrorTexts => child[g].job.id \notin acted,
         decision = "unknown_outcome" <=> text \in UnknownTexts,
         decision = "ok" <=> text = "driver_error"
  PROVE  DesktopInv'
<1>1. child[g] \in Children /\ child \in [Gens -> Children]
  BY JobTypes DEF DesktopInv, TypeOK
<1>2. child' = [child EXCEPT ![g] = [@ EXCEPT !.job = Idle, !.own = child[g].own,
                                       !.listed = child[g].listed]]
  <2>1. [child[g] EXCEPT !.job = Idle] =
          [child[g] EXCEPT !.job = Idle, !.own = child[g].own, !.listed = child[g].listed]
    BY <1>1 DEF Children
  <2> QED
    BY <2>1, <1>1 DEF Answer
<1>3. child[g].own \in BOOLEAN /\ child[g].listed \in 0..2
  BY <1>1 DEF Children
<1>4. /\ text \in Texts \ {"none"} /\ text # "read" /\ text # "ok"
      /\ child[g].job.tool \notin DOMAIN ObservationTools
  BY ToolSets DEF Texts, RejectedTexts, ErrorTexts, UnknownTexts
<1>5. child[g].listed = 2 => screen.owner = 2
  BY DEF DesktopInv, StopInv
<1>6. replies' = [replies EXCEPT ![child[g].job.id] = [text |-> text, decision |-> decision]]
      /\ UNCHANGED <<mode, acted, link, call, results, sent>>
  BY DEF Answer, linkVars
<1>7. decision = "ok" <=> text \in {"ok", "driver_error"}
  BY <1>4
<1> QED
  BY <1>2, <1>3, <1>4, <1>5, <1>6, <1>7, AnswerStep

(* The checks of the server before its driver runs refuse or move on.      *)
LEMMA Checks ==
  ASSUME DesktopInv, NEW g \in Gens, Working(g), child[g].job.pc \in Unguarded,
         child[g].job.tool \in DOMAIN ActionTools, UNCHANGED linkVars
  PROVE  /\ \A text \in RejectedTexts : \A decision \in Decisions \ {"ok", "unknown_outcome"} :
              Answer(g, text, decision) /\ UNCHANGED screen => DesktopInv'
         /\ \A new : /\ Continues(new, child[g].job) /\ Go(g, new)
                     /\ new.pc \in Unguarded
                     /\ new.todo = child[g].job.todo /\ new.failed = child[g].job.failed
                     /\ \/ child[g].job.pc \notin Sensitive
                        \/ /\ new.pc \in Sensitive
                           /\ new.ready = child[g].job.ready
                           /\ new.allowed = child[g].job.allowed
                     => DesktopInv'
<1> DEFINE job == child[g].job
<1>0. job \in Jobs /\ Counted(job) /\ Heeds(g, job) /\ screen \in Screens
  BY JobTypes DEF DesktopInv, AnswerInv, StopInv, TypeOK
<1>1. ASSUME NEW text \in RejectedTexts, NEW decision \in Decisions \ {"ok", "unknown_outcome"},
             Answer(g, text, decision), UNCHANGED screen
      PROVE  DesktopInv'
  <2>1. screen' = [screen EXCEPT !.held = screen.held] /\ screen.held \in SUBSET (Keys \cup {"thread"})
    BY <1>0, <1>1 DEF Screens
  <2>2. Released(job) => screen.held \cap Keys = {}
    BY DEF Released, NoKeyHeld
  <2>3. job.id \notin acted
    BY <1>0 DEF Counted
  <2>4. text \notin UnknownTexts /\ text # "driver_error"
    BY DEF RejectedTexts, UnknownTexts
  <2> QED
    BY <1>1, <2>1, <2>2, <2>3, <2>4, Refusal
<1>2. ASSUME NEW new, Continues(new, job), Go(g, new), new.pc \in Unguarded,
             new.todo = job.todo, new.failed = job.failed,
             \/ job.pc \notin Sensitive
             \/ new.pc \in Sensitive /\ new.ready = job.ready /\ new.allowed = job.allowed
      PROVE  DesktopInv'
  <2>1. job.stop => \/ screen.estop \/ Gone(g, job)
                    \/ mode = "safe" /\ ~new.ready /\ ~new.allowed /\ new.pc \in Sensitive
    BY <1>0, <1>2 DEF Heeds
  <2>2. job.late = 0 /\ job.away = 0
    BY <1>0 DEF Heeds, Unguarded
  <2>3. new.pc \notin {"feel", "act"}
    BY <1>2 DEF Unguarded
  <2> QED
    BY <1>2, <2>1, <2>2, <2>3, MoveOn
<1> QED
  BY <1>1, <1>2

LEMMA ServerChecks ==
  ASSUME DesktopInv, NEW g \in Gens, UNCHANGED linkVars,
         \/ Guard(g) \/ Stable(g) \/ Readiness(g) \/ Foreground(g) \/ Confirm(g) \/ Check(g)
  PROVE  DesktopInv'
<1> DEFINE job == child[g].job
<1>0. /\ Working(g) /\ job \in Jobs /\ job.pc \in Unguarded \ {"sense"}
      /\ job.tool \in DOMAIN ActionTools /\ job.todo \in Seq(Ops)
  <2>1. Working(g)
    BY DEF Guard, Stable, Readiness, Foreground, Confirm, Check, At
  <2>2. Counted(job) /\ job \in Jobs
    BY <2>1, JobTypes DEF DesktopInv, AnswerInv
  <2>3. job.todo \in Seq(Ops)
    BY <2>2 DEF Jobs
  <2> QED
    BY <2>1, <2>2, <2>3 DEF Guard, Stable, Readiness, Foreground, Confirm, Check, At, Counted, Unguarded
<1>1. \A text \in RejectedTexts : \A decision \in Decisions \ {"ok", "unknown_outcome"} :
         Answer(g, text, decision) /\ UNCHANGED screen => DesktopInv'
  BY <1>0, Checks
<1>2. ASSUME NEW pc \in Unguarded, job.pc = "check" => pc = "sense",
             Go(g, [job EXCEPT !.pc = pc])
      PROVE  DesktopInv'
  <2> DEFINE new == [job EXCEPT !.pc = pc]
  <2>1. /\ Continues(new, job) /\ new.pc = pc /\ new.ready = job.ready
        /\ new.allowed = job.allowed /\ new.todo = job.todo /\ new.failed = job.failed
    BY <1>0 DEF Continues, Jobs, JobSteps
  <2>2. job.pc \notin Sensitive \/ pc \in Sensitive
    BY <1>0, <1>2 DEF Sensitive, Unguarded
  <2>3. Go(g, new)
    BY <1>2
  <2> HIDE DEF new
  <2> QED
    BY <1>0, <1>2, <2>1, <2>2, <2>3, Checks
<1>3. CASE Guard(g)
  <2>1. \/ Answer(g, "aborted", "estop") /\ UNCHANGED screen
        \/ \E pc \in {"confirm", "stable"} : Go(g, [job EXCEPT !.pc = pc])
    BY <1>3 DEF Guard
  <2>2. job.pc = "guard"
    BY <1>3 DEF Guard, At
  <2> QED
    BY <1>1, <1>2, <2>1, <2>2 DEF Unguarded, RejectedTexts, Decisions
<1>4. CASE Stable(g)
  <2>1. \/ Answer(g, "human_active", "human_active") /\ UNCHANGED screen
        \/ Go(g, [job EXCEPT !.pc = "ready"])
    BY <1>4 DEF Stable
  <2>2. job.pc = "stable"
    BY <1>4 DEF Stable, At
  <2> QED
    BY <1>1, <1>2, <2>1, <2>2 DEF Unguarded, RejectedTexts, Decisions
<1>5. CASE Readiness(g)
  <2>1. PICK pc \in {"check", "front"} : Go(g, [job EXCEPT !.ready = TRUE, !.pc = pc])
    BY <1>5 DEF Readiness
  <2>2. job.pc = "ready" /\ pc \in JobSteps /\ pc \in Unguarded
    BY <1>5 DEF Readiness, At, Unguarded, JobSteps
  <2> DEFINE new == [job EXCEPT !.ready = TRUE, !.pc = pc]
  <2>3. Continues(new, job) /\ new.pc = pc /\ new.todo = job.todo /\ new.failed = job.failed
    BY <1>0, <2>2 DEF Continues, Jobs
  <2>4. Go(g, new)
    BY <2>1
  <2> HIDE DEF new
  <2> QED
    BY <1>0, <2>2, <2>3, <2>4, Checks DEF Sensitive
<1>6. CASE Foreground(g)
  <2>1. \/ Answer(g, "gate", "gate_denied") /\ UNCHANGED screen
        \/ Go(g, [job EXCEPT !.pc = "confirm"])
    BY <1>6 DEF Foreground
  <2>2. job.pc = "front"
    BY <1>6 DEF Foreground, At
  <2> QED
    BY <1>1, <1>2, <2>1, <2>2 DEF Unguarded, RejectedTexts, Decisions
<1>7. CASE Confirm(g)
  <2>1. \/ Go(g, [job EXCEPT !.pc = "check"])
        \/ \E b \in BOOLEAN : Go(g, [job EXCEPT !.pc = "check", !.allowed = b])
        \/ Answer(g, "user", "user_denied") /\ UNCHANGED screen
    BY <1>7 DEF Confirm
  <2>2. job.pc = "confirm"
    BY <1>7 DEF Confirm, At
  <2>3. ASSUME NEW b \in BOOLEAN, Go(g, [job EXCEPT !.pc = "check", !.allowed = b])
        PROVE  DesktopInv'
    <3> DEFINE new == [job EXCEPT !.pc = "check", !.allowed = b]
    <3>1. Continues(new, job) /\ new.pc = "check" /\ new.todo = job.todo /\ new.failed = job.failed
      BY <1>0 DEF Continues, Jobs, JobSteps, Unguarded
    <3>2. Go(g, new)
      BY <2>3
    <3> HIDE DEF new
    <3> QED
      BY <1>0, <2>2, <3>1, <3>2, Checks DEF Sensitive, Unguarded
  <2> QED
    BY <1>1, <1>2, <2>1, <2>2, <2>3 DEF Unguarded, RejectedTexts, Decisions
<1>8. CASE Check(g)
  <2>1. \/ Answer(g, "aborted", "estop") /\ UNCHANGED screen
        \/ Answer(g, "gate", "gate_denied") /\ UNCHANGED screen
        \/ Go(g, [job EXCEPT !.pc = "sense"])
    BY <1>8 DEF Check
  <2> QED
    BY <1>1, <1>2, <2>1 DEF Unguarded, RejectedTexts, Decisions
<1> QED
  BY <1>3, <1>4, <1>5, <1>6, <1>7, <1>8

(* The facts of a job at work in the steps below.                          *)
LEMMA AtWork ==
  ASSUME DesktopInv, NEW g \in Gens, Working(g)
  PROVE  /\ child[g].job \in Jobs /\ child \in [Gens -> Children] /\ child[g] \in Children
         /\ Counted(child[g].job) /\ Heeds(g, child[g].job)
         /\ Formed(child[g].job.todo, child[g].job.tool)
         /\ child[g].job.id \in Calls /\ child[g].job.todo \in Seq(Ops)
         /\ child[g].job.attempts \in Nat /\ child[g].job.failed \in BOOLEAN
         /\ screen \in Screens /\ screen.held \in SUBSET (Keys \cup {"thread"})
         /\ replies \in [Calls -> [text : Texts, decision : Decisions]]
         /\ replies[child[g].job.id] = NoReply
<1>1. /\ child[g].job \in Jobs /\ child \in [Gens -> Children] /\ child[g] \in Children
      /\ screen \in Screens
      /\ replies \in [Calls -> [text : Texts, decision : Decisions]]
  BY JobTypes DEF DesktopInv, TypeOK
<1>2. /\ Counted(child[g].job) /\ Heeds(g, child[g].job)
      /\ Formed(child[g].job.todo, child[g].job.tool) /\ replies[child[g].job.id] = NoReply
  BY DEF DesktopInv, AnswerInv, StopInv, HeldInv, CallInv
<1>3. screen.held \in SUBSET (Keys \cup {"thread"})
  BY <1>1 DEF Screens
<1> QED
  BY <1>1, <1>2, <1>3 DEF Jobs

LEMMA LostStep ==
  ASSUME DesktopInv, NEW g \in Gens, Working(g), child[g].job.tool \in DOMAIN ActionTools,
         NEW text \in {"aborted", "gate", "human_active", "authority_lost"},
         Lost(g, text), UNCHANGED linkVars
  PROVE  DesktopInv'
<1> DEFINE job == child[g].job
           held == IF job.todo = <<>> THEN screen.held \cap {"thread"} ELSE {}
<1>1. /\ screen' = [screen EXCEPT !.held = held]
      /\ held \in SUBSET (Keys \cup {"thread"}) /\ held \cap Keys = {}
  BY AtWork DEF Lost, Unwind, Screens, Keys
<1> HIDE DEF held
<1>2. CASE job.attempts > 0
  <2>1. Answer(g, "native_authority_lost", "unknown_outcome")
    BY <1>2 DEF Lost
  <2> QED
    BY <1>1, <2>1, Refusal DEF RejectedTexts, ErrorTexts, UnknownTexts, Decisions
<1>3. CASE ~(job.attempts > 0)
  <2>1. Answer(g, text, DecisionOf(text))
    BY <1>3 DEF Lost
  <2>2. /\ DecisionOf(text) \in Decisions \ {"ok", "unknown_outcome"}
        /\ text \in RejectedTexts /\ text \notin UnknownTexts /\ text # "driver_error"
    BY DEF DecisionOf, Decisions, RejectedTexts, UnknownTexts
  <2>3. job.attempts = 0
    BY <1>3, AtWork
  <2>4. job.id \notin acted
    BY <2>3, AtWork DEF Counted
  <2> QED
    BY <1>1, <2>1, <2>2, <2>4, Refusal
<1> QED
  BY <1>2, <1>3

(* The answers that the server writes itself.                              *)
LEMMA ObserveStep ==
  ASSUME DesktopInv, NEW g \in Gens, Observe(g), UNCHANGED linkVars
  PROVE  DesktopInv'
<1> DEFINE job == child[g].job
           listed == IF job.tool = "list_windows" THEN screen.owner ELSE child[g].listed
<1>1. /\ Working(g) /\ job.pc = "guard" /\ job.tool \in DOMAIN ObservationTools
      /\ child[g].own \in BOOLEAN
  BY AtWork DEF Observe, At, Children
<1>2. listed \in 0..2 /\ (listed = 2 => screen.owner = 2)
  BY <1>1, AtWork DEF Screens, Children, DesktopInv, StopInv
<1>3. child' = [child EXCEPT ![g] = [@ EXCEPT !.job = Idle, !.own = child[g].own,
                                       !.listed = listed]]
  <2>1. [child[g] EXCEPT !.job = Idle, !.listed = listed] =
          [child[g] EXCEPT !.job = Idle, !.own = child[g].own, !.listed = listed]
    BY <1>1, AtWork DEF Children
  <2>2. child' = [child EXCEPT ![g] = [child[g] EXCEPT !.job = Idle, !.listed = listed]]
    BY <1>1, AtWork DEF Observe
  <2> QED
    BY <2>1, <2>2
<1>4. replies' = [replies EXCEPT ![job.id] = [text |-> "read", decision |-> "none"]]
  <2>1. [replies[job.id] EXCEPT !.text = "read"] = [text |-> "read", decision |-> "none"]
    BY <1>1, AtWork DEF NoReply
  <2>2. replies' = [replies EXCEPT ![job.id] = [replies[job.id] EXCEPT !.text = "read"]]
    BY <1>1, AtWork DEF Observe
  <2> QED
    BY <2>1, <2>2
<1>5. Released(job) => screen.held \cap Keys = {}
  BY <1>1 DEF Released, NoKeyHeld, Unguarded
<1>6. screen' = [screen EXCEPT !.held = screen.held]
  BY <1>1, AtWork DEF Observe, Screens
<1>7. UNCHANGED <<mode, acted, link, call, results, sent>>
  BY DEF Observe, linkVars
<1> HIDE DEF listed
<1>8. /\ "read" \in Texts \ {"none"} /\ "none" \in Decisions
      /\ "read" \notin RejectedTexts \cup ErrorTexts
  BY DEF Texts, Decisions, RejectedTexts, ErrorTexts
<1> QED
  BY <1>1, <1>2, <1>3, <1>4, <1>5, <1>6, <1>7, <1>8, AtWork, AnswerStep

LEMMA FinishStep ==
  ASSUME DesktopInv, NEW g \in Gens, Finish(g), UNCHANGED linkVars
  PROVE  DesktopInv'
<1> DEFINE job == child[g].job
<1>1. /\ Working(g) /\ job.pc = "look" /\ job.todo = <<>>
      /\ job.tool \in DOMAIN ActionTools /\ job \in Jobs
  <2>1. Working(g) /\ job.pc = "look" /\ job.todo = <<>>
    BY DEF Finish, At
  <2> QED
    BY <2>1, AtWork DEF Counted
<1>2. PICK ok \in BOOLEAN :
        /\ ok => ~job.failed
        /\ \/ ~TargetKept(g) /\ Lost(g, "authority_lost")
           \/ ~ok /\ Unwind(g) /\ Answer(g, "native_outcome_unknown", "unknown_outcome")
           \/ /\ ~ok /\ job.attempts = 0 /\ UNCHANGED screen
              /\ Answer(g, "driver_error", "ok")
           \/ /\ ok /\ UNCHANGED <<mode, screen, acted>>
              /\ replies' = [replies EXCEPT ![job.id] = [text |-> "ok", decision |-> "ok"]]
              /\ child' = [child EXCEPT ![g].job = Idle, ![g].own = @ \/ job.input]
  <2> DEFINE Ends(ok) ==
        CASE ~TargetKept(g) -> Lost(g, "authority_lost")
          [] TargetKept(g) /\ ~ok /\ job.attempts > 0 ->
               Unwind(g) /\ Answer(g, "native_outcome_unknown", "unknown_outcome")
          [] TargetKept(g) /\ ~ok /\ job.attempts = 0 ->
               UNCHANGED screen /\ Answer(g, "driver_error", "ok")
          [] TargetKept(g) /\ ok ->
               /\ UNCHANGED <<mode, screen, acted>>
               /\ replies' = [replies EXCEPT ![job.id] = [text |-> "ok", decision |-> "ok"]]
               /\ child' = [child EXCEPT ![g].job = Idle, ![g].own = @ \/ job.input]
  <2>1. \/ Ends(~job.failed)
        \/ Ends(FALSE)
    BY DEF Finish
  <2>2. ASSUME NEW ok \in BOOLEAN, Ends(ok)
        PROVE  \/ ~TargetKept(g) /\ Lost(g, "authority_lost")
               \/ ~ok /\ Unwind(g) /\ Answer(g, "native_outcome_unknown", "unknown_outcome")
               \/ /\ ~ok /\ job.attempts = 0 /\ UNCHANGED screen
                  /\ Answer(g, "driver_error", "ok")
               \/ /\ ok /\ UNCHANGED <<mode, screen, acted>>
                  /\ replies' = [replies EXCEPT ![job.id] = [text |-> "ok", decision |-> "ok"]]
                  /\ child' = [child EXCEPT ![g].job = Idle, ![g].own = @ \/ job.input]
    <3>1. job.attempts > 0 \/ job.attempts = 0
      BY <1>1, AtWork
    <3> QED
      BY <2>2, <3>1
  <2>3. (~job.failed) \in BOOLEAN
    BY <1>1 DEF Jobs
  <2> HIDE DEF Ends
  <2>4. CASE Ends(~job.failed)
    BY <2>2, <2>3, <2>4
  <2>5. CASE Ends(FALSE)
    BY <2>2, <2>5
  <2> QED
    BY <2>1, <2>4, <2>5
<1>3. CASE ~TargetKept(g) /\ Lost(g, "authority_lost")
  BY <1>1, <1>3, LostStep
<1>4. CASE ~ok /\ Unwind(g) /\ Answer(g, "native_outcome_unknown", "unknown_outcome")
  <2> DEFINE held == screen.held \cap {"thread"}
  <2>1. /\ screen' = [screen EXCEPT !.held = held]
        /\ held \in SUBSET (Keys \cup {"thread"}) /\ held \cap Keys = {}
    BY <1>1, <1>4, AtWork DEF Unwind, Screens, Keys
  <2> HIDE DEF held
  <2> QED
    BY <1>1, <1>4, <2>1, Refusal DEF RejectedTexts, ErrorTexts, UnknownTexts, Decisions
<1>5. ASSUME ~job.failed \/ job.attempts = 0, Released(job)
      PROVE  screen.held \cap Keys = {}
  <2>1. Releases(job.todo) = {}
    BY <1>1 DEF Releases
  <2> QED
    BY <1>1, <1>5, <2>1 DEF Released, NoKeyHeld, Unguarded
<1>6. CASE ~ok /\ job.attempts = 0 /\ UNCHANGED screen /\ Answer(g, "driver_error", "ok")
  <2>1. screen' = [screen EXCEPT !.held = screen.held]
    BY <1>1, <1>6, AtWork DEF Screens
  <2>2. job.id \notin acted
    BY <1>1, <1>6, AtWork DEF Counted
  <2>3. screen.held \in SUBSET (Keys \cup {"thread"})
    BY <1>1, AtWork
  <2> QED
    BY <1>1, <1>5, <1>6, <2>1, <2>2, <2>3, Refusal
       DEF RejectedTexts, ErrorTexts, UnknownTexts, Decisions
<1>7. CASE /\ ok /\ UNCHANGED <<mode, screen, acted>>
           /\ replies' = [replies EXCEPT ![job.id] = [text |-> "ok", decision |-> "ok"]]
           /\ child' = [child EXCEPT ![g].job = Idle, ![g].own = @ \/ job.input]
  <2> DEFINE own == child[g].own \/ job.input
             listed == child[g].listed
  <2>1. own \in BOOLEAN /\ listed \in 0..2 /\ (listed = 2 => screen.owner = 2)
    BY <1>1, AtWork DEF Children, Jobs, DesktopInv, StopInv
  <2>2. child' = [child EXCEPT ![g] = [@ EXCEPT !.job = Idle, !.own = own, !.listed = listed]]
    <3>1. [child[g] EXCEPT !.job = Idle, !.own = own] =
            [child[g] EXCEPT !.job = Idle, !.own = own, !.listed = listed]
      BY <1>1, AtWork DEF Children
    <3>2. child' = [child EXCEPT ![g] = [child[g] EXCEPT !.job = Idle, !.own = own]]
      BY <1>1, <1>7, AtWork
    <3> QED
      BY <3>1, <3>2
  <2>3. screen' = [screen EXCEPT !.held = screen.held]
    BY <1>1, <1>7, AtWork DEF Screens
  <2>4. Released(job) => screen.held \cap Keys = {}
    BY <1>2, <1>5, <1>7
  <2>5. /\ "ok" \in Texts \ {"none"} /\ "ok" \in Decisions
        /\ "ok" \notin RejectedTexts \cup ErrorTexts \cup UnknownTexts
        /\ job.tool \notin DOMAIN ObservationTools
    BY <1>1, ToolSets DEF Texts, Decisions, RejectedTexts, ErrorTexts, UnknownTexts
  <2>6. UNCHANGED <<mode, acted, link, call, results, sent>>
    BY <1>7 DEF linkVars
  <2>7. /\ "ok" = "unknown_outcome" <=> "ok" \in UnknownTexts
        /\ "ok" = "ok" <=> "ok" \in {"ok", "driver_error"}
    BY <2>5
  <2>8. screen.held \in SUBSET (Keys \cup {"thread"})
    BY <1>1, AtWork
  <2>9. replies' = [replies EXCEPT ![job.id] = [text |-> "ok", decision |-> "ok"]]
    BY <1>7
  <2> HIDE DEF own, listed
  <2> QED
    BY <1>1, <2>1, <2>2, <2>3, <2>4, <2>5, <2>6, <2>7, <2>8, <2>9, AnswerStep
<1> QED
  BY <1>2, <1>3, <1>4, <1>6, <1>7

-----------------------------------------------------------------------------
(* The last check of the server, and those of the boundary at each step.   *)
LEMMA SenseStep ==
  ASSUME DesktopInv, NEW g \in Gens, Sense(g), UNCHANGED linkVars
  PROVE  DesktopInv'
<1> DEFINE job == child[g].job
<1>1. /\ Working(g) /\ job.pc = "sense" /\ job.pc \in Unguarded
      /\ job.tool \in DOMAIN ActionTools /\ job \in Jobs
  BY AtWork DEF Sense, At, Counted, Unguarded
<1>2. \/ Answer(g, "human_active", "human_active") /\ UNCHANGED screen
      \/ Answer(g, "authority_lost", "authority_lost") /\ UNCHANGED screen
      \/ \E todo \in Programs(job.tool) \cup {<<>>} : \E failed \in BOOLEAN :
            Go(g, [job EXCEPT !.pc = "look", !.todo = todo, !.failed = failed])
  BY DEF Sense
<1>3. ASSUME NEW todo \in Programs(job.tool) \cup {<<>>}, NEW failed \in BOOLEAN,
             Go(g, [job EXCEPT !.pc = "look", !.todo = todo, !.failed = failed])
      PROVE  DesktopInv'
  <2> DEFINE new == [job EXCEPT !.pc = "look", !.todo = todo, !.failed = failed]
  <2>1. todo \in Seq(Ops) /\ Formed(todo, job.tool)
    <3>1. CASE todo = <<>>
      BY <3>1 DEF Formed, Balanced
    <3>2. CASE todo \in Programs(job.tool)
      BY <1>1, <3>2, ProgramsFormed
    <3> QED
      BY <3>1, <3>2
  <2>2. /\ Continues(new, job) /\ new.pc = "look" /\ new.ready = job.ready
        /\ new.allowed = job.allowed /\ new.todo = todo /\ new.failed = failed
    BY <1>1, <2>1 DEF Continues, Jobs, JobSteps
  <2>3. Go(g, new)
    BY <1>3
  <2> HIDE DEF new
  <2>4. Formed(new.todo, new.tool)
    BY <2>1, <2>2 DEF Continues
  <2>5. job.stop => \/ screen.estop \/ Gone(g, job)
                    \/ mode = "safe" /\ ~new.ready /\ ~new.allowed /\ new.pc \in Sensitive
    BY <1>1, <2>2, AtWork DEF Heeds, Sensitive
  <2>6. new.pc \notin Unguarded /\ new.pc \in {"look", "capture"}
    BY <2>2 DEF Unguarded
  <2> QED
    BY <1>1, <2>2, <2>3, <2>4, <2>5, <2>6, MoveOn
<1>4. CASE \/ Answer(g, "human_active", "human_active") /\ UNCHANGED screen
           \/ Answer(g, "authority_lost", "authority_lost") /\ UNCHANGED screen
  BY <1>1, <1>4, Checks DEF RejectedTexts, Decisions
<1> QED
  BY <1>2, <1>3, <1>4

(* What is heeded at a look is over when the step is let through.          *)
LEMMA LookStep ==
  ASSUME DesktopInv, NEW g \in Gens, Look(g), UNCHANGED linkVars
  PROVE  DesktopInv'
<1> DEFINE job == child[g].job
           new == [job EXCEPT !.pc = "feel"]
<1>1. /\ Working(g) /\ job.pc = "look" /\ job.tool \in DOMAIN ActionTools
      /\ job \in Jobs /\ Heeds(g, job) /\ job.todo # <<>>
  BY AtWork DEF Look, At, Counted
<1>2. CASE Lost(g, "authority_lost") \/ Lost(g, "aborted") \/ Lost(g, "gate")
  BY <1>1, <1>2, LostStep
<1>3. CASE TargetKept(g) /\ ~screen.estop /\ FrontAllows(g) /\ Go(g, new)
  <2>1. /\ Continues(new, job) /\ new.pc = "feel" /\ new.ready = job.ready
        /\ new.allowed = job.allowed /\ new.todo = job.todo /\ new.failed = job.failed
    BY <1>1 DEF Continues, Jobs, JobSteps
  <2>2. ~Gone(g, job)
    BY <1>3 DEF TargetKept, Gone
  <2>3. job.late = 0
    BY <1>1, <1>3, <2>2 DEF Heeds, Jobs
  <2>4. job.away = 0
    BY <1>1, <1>3 DEF Heeds, FrontAllows, Jobs
  <2>5. Go(g, new)
    BY <1>3
  <2> HIDE DEF new
  <2>6. job.stop => \/ screen.estop \/ Gone(g, job)
                    \/ mode = "safe" /\ ~new.ready /\ ~new.allowed /\ new.pc \in Sensitive
    BY <1>1, <2>1 DEF Heeds, Sensitive
  <2>7. new.pc \notin Unguarded
    BY <2>1 DEF Unguarded
  <2> QED
    BY <1>1, <2>1, <2>3, <2>4, <2>5, <2>6, <2>7, MoveOn
<1> QED
  BY <1>2, <1>3 DEF Look

LEMMA FeelStep ==
  ASSUME DesktopInv, NEW g \in Gens, Feel(g), UNCHANGED linkVars
  PROVE  DesktopInv'
<1> DEFINE job == child[g].job
           new == [job EXCEPT !.pc = "act", !.allowed = FALSE]
<1>1. /\ Working(g) /\ job.pc = "feel" /\ job.tool \in DOMAIN ActionTools
      /\ job \in Jobs /\ Heeds(g, job) /\ job.todo # <<>>
  BY AtWork DEF Feel, At, Counted
<1>2. CASE Lost(g, "human_active")
  BY <1>1, <1>2, LostStep
<1>3. CASE HumanAllows(g) /\ Go(g, new)
  <2>1. /\ Continues(new, job) /\ new.pc = "act"
        /\ new.todo = job.todo /\ new.failed = job.failed
    BY <1>1 DEF Continues, Jobs, JobSteps
  <2>2. job.stop => screen.estop \/ Gone(g, job)
    BY <1>1, <1>3 DEF Heeds, HumanAllows
  <2>3. Go(g, new)
    BY <1>3
  <2>4. job.late = 0 /\ job.away = 0
    BY <1>1 DEF Heeds
  <2> HIDE DEF new
  <2>5. new.pc \notin Unguarded
    BY <2>1 DEF Unguarded
  <2> QED
    BY <1>1, <2>1, <2>2, <2>3, <2>4, <2>5, MoveOn
<1> QED
  BY <1>2, <1>3 DEF Feel

LEMMA CaptureStep ==
  ASSUME DesktopInv, NEW g \in Gens, Capture(g), UNCHANGED linkVars
  PROVE  DesktopInv'
<1> DEFINE job == child[g].job
           new == [job EXCEPT !.pc = "look", !.allowed = mode = "safe"]
<1>1. /\ Working(g) /\ job.pc = "capture" /\ job.tool \in DOMAIN ActionTools
      /\ job \in Jobs /\ Heeds(g, job)
  BY AtWork DEF Capture, At, Counted
<1>2. /\ Continues(new, job) /\ new.pc = "look"
      /\ new.todo = job.todo /\ new.failed = job.failed
  BY <1>1 DEF Continues, Jobs, JobSteps
<1>3. job.stop => screen.estop \/ Gone(g, job)
  BY <1>1 DEF Heeds, Sensitive
<1>4. Go(g, new)
  BY DEF Capture
<1> HIDE DEF new
<1>5. new.pc \notin Unguarded
  BY <1>2 DEF Unguarded
<1> QED
  BY <1>1, <1>2, <1>3, <1>4, <1>5, MoveOn

-----------------------------------------------------------------------------
(* The step on the desktop: it is counted, and what it presses the rest of *)
(* the program, or the cleanup, releases.                                  *)
LEMMA ActStep ==
  ASSUME DesktopInv, NEW g \in Gens, Act(g), UNCHANGED linkVars
  PROVE  DesktopInv'
<1> DEFINE job == child[g].job
           op == Head(job.todo)
           more(stopped, n) == IF stopped THEN n + 1 ELSE n
           after == [job EXCEPT !.attempts = @ + 1, !.input = @ \/ op.input,
                       !.late = more(job.stop, @),
                       !.away = more(~FrontAllows(g), @)]
           next(ok) ==
             IF ok
             THEN [(IF op.input THEN Disturbed(after) ELSE after) EXCEPT !.todo = Tail(@),
                     !.pc = IF op.input THEN "capture" ELSE "look"]
             ELSE [after EXCEPT !.failed = TRUE, !.pc = "look",
                     !.todo = IF "thread" \in screen.held /\ op.name # "detach"
                              THEN <<Call("detach")>> ELSE <<>>]
<1>0. /\ Working(g) /\ job.pc = "act" /\ job.todo # <<>> /\ job \in Jobs
      /\ job.tool \in DOMAIN ActionTools /\ job.todo \in Seq(Ops)
      /\ Formed(job.todo, job.tool) /\ Heeds(g, job) /\ job.id \in Calls
      /\ child \in [Gens -> Children] /\ child[g] \in Children /\ screen \in Screens
      /\ replies[job.id] = NoReply
  BY AtWork DEF Act, At, Counted
<1>1. PICK ok \in BOOLEAN :
        /\ screen' = [screen EXCEPT
             !.held = IF ok THEN HeldBy(op, @) ELSE @,
             !.quiet = @ /\ ~(op.input /\ ok),
             !.front = IF op.name = "front" /\ ok THEN "app" ELSE @]
        /\ acted' = acted \cup {job.id}
        /\ child' = [child EXCEPT ![g].own = @ /\ ~(op.input /\ ok), ![g].job = next(ok)]
        /\ UNCHANGED <<mode, replies>>
  BY DEF Act
<1>2. /\ op \in Ops
      /\ Tail(job.todo) \in Seq(Ops) /\ Formed(Tail(job.todo), job.tool)
      /\ op.name = "front" => job.tool = "activate_window"
      /\ op.name = "attach" => op.of = "thread"
      /\ op.name = "press" => op.of \in Releases(Tail(job.todo))
      /\ op.name = "release" => Releases(job.todo) \subseteq Releases(Tail(job.todo)) \cup {op.of}
      /\ op.name # "release" => Releases(job.todo) \subseteq Releases(Tail(job.todo))
  BY <1>0, RestFormed
<1>3. <<Call("detach")>> \in Seq(Ops) /\ Formed(<<Call("detach")>>, job.tool)
      /\ <<>> \in Seq(Ops) /\ Formed(<<>>, job.tool)
  <2>1. Call("detach") \in Ops /\ Call("detach").name = "detach"
    BY DEF Call, Ops, OpNames
  <2> QED
    BY <2>1 DEF Formed, Balanced
<1> DEFINE todo == IF ok THEN Tail(job.todo)
                   ELSE IF "thread" \in screen.held /\ op.name # "detach"
                        THEN <<Call("detach")>> ELSE <<>>
<1>4. todo \in Seq(Ops) /\ Formed(todo, job.tool)
  BY <1>2, <1>3
<1>5. /\ op.input \in BOOLEAN /\ FrontAllows(g) \in BOOLEAN /\ op.of \in Keys \cup {"thread"}
      /\ op.name \in OpNames
  BY <1>2 DEF Ops, FrontAllows
<1>6. /\ after \in Jobs
      /\ after.id = job.id /\ after.tool = job.tool /\ after.target = job.target
      /\ after.attempts = job.attempts + 1 /\ after.stop = job.stop
      /\ after.late = more(job.stop, job.late)
      /\ after.away = more(~FrontAllows(g), job.away)
      /\ after.failed = job.failed /\ after.todo = job.todo
  <2>1. more(job.stop, job.late) \in Nat /\ more(~FrontAllows(g), job.away) \in Nat
        /\ job.attempts + 1 \in Nat
    BY <1>0 DEF Jobs
  <2>2. (job.input \/ op.input) \in BOOLEAN
    OBVIOUS
  <2> HIDE DEF more, op
  <2> QED
    BY <1>0, <2>1, <2>2 DEF Jobs
<1> HIDE DEF after, op, todo
<1>6a. LET new == next(ok)
       IN /\ new \in Jobs
          /\ new.id = job.id /\ new.tool = job.tool /\ new.target = job.target
          /\ new.attempts = job.attempts + 1 /\ new.stop = job.stop
          /\ new.late = more(job.stop, job.late)
          /\ new.away = more(~FrontAllows(g), job.away)
          /\ new.failed = (job.failed \/ ~ok) /\ new.pc \in {"look", "capture"}
          /\ new.todo = todo
  <2>1. CASE ok /\ op.input
    BY <1>4, <1>6, <2>1 DEF Jobs, Disturbed, JobSteps, todo
  <2>2. CASE ok /\ ~op.input
    BY <1>4, <1>6, <2>2 DEF Jobs, Disturbed, JobSteps, todo
  <2>3. CASE ~ok
    BY <1>0, <1>4, <1>6, <2>3 DEF Jobs, Disturbed, JobSteps, todo
  <2> QED
    BY <1>5, <2>1, <2>2, <2>3
<1> HIDE DEF next
<1>7. PICK new \in Jobs :
      /\ new = next(ok)
      /\ new.id = job.id /\ new.tool = job.tool /\ new.target = job.target
      /\ new.attempts = job.attempts + 1 /\ new.stop = job.stop
      /\ new.late = more(job.stop, job.late)
      /\ new.away = more(~FrontAllows(g), job.away)
      /\ new.failed = (job.failed \/ ~ok) /\ new.pc \in {"look", "capture"}
      /\ new.todo = todo
  BY <1>6a
<1>8. /\ child' \in [Gens -> Children] /\ child'[g].job = new
      /\ child'[g].alive = child[g].alive /\ child'[g].listed = child[g].listed
      /\ \A h \in Gens : h # g => child'[h] = child[h]
  <2>1. (child[g].own /\ ~(op.input /\ ok)) \in BOOLEAN
    OBVIOUS
  <2>2. child' = [child EXCEPT ![g] = [child[g] EXCEPT !.own = child[g].own /\ ~(op.input /\ ok),
                                         !.job = new]]
    BY <1>0, <1>1, <1>7
  <2> QED
    BY <1>0, <1>7, <2>1, <2>2 DEF Children
<1>9. /\ screen' \in Screens
      /\ screen'.estop = screen.estop /\ screen'.owner = screen.owner
      /\ screen'.held = IF ok THEN HeldBy(op, screen.held) ELSE screen.held
      /\ screen'.front = IF op.name = "front" /\ ok THEN "app" ELSE screen.front
  <2>1. HeldBy(op, screen.held) \in SUBSET (Keys \cup {"thread"})
    BY <1>0, <1>5 DEF HeldBy, Screens
  <2>2. (screen.quiet /\ ~(op.input /\ ok)) \in BOOLEAN
    OBVIOUS
  <2> QED
    BY <1>0, <1>1, <2>1, <2>2 DEF Screens
<1> DEFINE same == <<mode, replies, link, call, results, sent>>
<1>10. UNCHANGED same /\ acted' = acted \cup {job.id}
  BY <1>1 DEF linkVars
<1>11. /\ g \in Nat \ {0} /\ sent[job.id] = g /\ child[g].alive
       /\ \A h \in Gens : child[h].alive => h = g
       /\ new.attempts # 0 /\ new.pc # "idle" /\ new.attempts \in Nat
       /\ results[job.id] \in {"none", "unknown_outcome"}
  BY <1>0, <1>7, GenAssumption DEF DesktopInv, ChildInv, CallInv, Working, NoReply, Jobs
<1>12. \A h \in Gens : Working(h)' => h = g
  BY <1>8, <1>11 DEF Working
<1>13. TypeOK'
  BY <1>0, <1>8, <1>9, <1>10 DEF DesktopInv, TypeOK
<1>14. ChildInv'
  BY <1>8, <1>10, <1>11 DEF DesktopInv, ChildInv
<1>15. CallInv'
  <2>1. \A c \in Calls : sent[c] = 0 => c \notin acted'
    BY <1>10, <1>11 DEF DesktopInv, CallInv
  <2>2. \A h \in Gens : Working(h)' =>
          /\ sent[child'[h].job.id] = h
          /\ replies[child'[h].job.id] = NoReply
          /\ \/ ~link.session
             \/ /\ call.pc = "sent" /\ call.id = child'[h].job.id
                /\ call.tool = child'[h].job.tool
    BY <1>0, <1>7, <1>8, <1>12 DEF DesktopInv, CallInv
  <2> QED
    BY <1>10, <2>1, <2>2 DEF DesktopInv, CallInv
<1>16. AnswerInv'
  <2>1. Counted(new)'
    BY <1>0, <1>7, <1>11 DEF Counted, Unguarded
  <2>2. call.pc = "sent" /\ call.tool \in DOMAIN ObservationTools =>
          replies[call.id].text \in {"none", "read"} /\ call.id \notin acted'
    <3>1. DOMAIN ObservationTools \cap DOMAIN ActionTools = {}
      BY ToolSets
    <3> QED
      BY <1>0, <1>10, <3>1 DEF DesktopInv, AnswerInv, CallInv, ChildInv
  <2> QED
    BY <1>8, <1>10, <1>12, <2>1, <2>2 DEF AnswerInv, Counted
<1>17. HeldInv'
  <2>1. ~ \A c \in Calls : sent'[c] = 0
    BY <1>0, <1>10, <1>11
  <2>2. Untouched(g)' <=> Untouched(g)
    BY <1>10 DEF Untouched
  <2>3. ASSUME Released(job) PROVE Released(new)'
    <3>1. new.pc \notin Unguarded /\ job.pc \notin Unguarded
      BY <1>0, <1>7 DEF Unguarded
    <3>2. CASE job.failed \/ ~ok
      BY <1>7, <1>11, <3>1, <3>2 DEF Released
    <3>3. CASE ~job.failed /\ ok
      <4>1. screen.held \cap Keys \subseteq Releases(job.todo)
        BY <2>3, <3>1, <3>3 DEF Released
      <4>2. new.todo = Tail(job.todo) /\ screen'.held = HeldBy(op, screen.held)
        BY <1>7, <1>9, <3>3 DEF todo
      <4>3. HeldBy(op, screen.held) \cap Keys \subseteq Releases(Tail(job.todo))
        BY <1>2, <4>1 DEF HeldBy, Keys
      <4> QED
        BY <1>7, <3>1, <3>3, <4>2, <4>3 DEF Released
    <3> QED
      BY <1>0, <3>2, <3>3
  <2>4. Formed(new.todo, new.tool)
    BY <1>4, <1>7
  <2>5. child[g].alive /\ Untouched(g) => Released(job)
    BY <1>0 DEF DesktopInv, HeldInv, Working
  <2>6. \A h \in Gens : child'[h].alive => h = g
    BY <1>8, <1>11
  <2> QED
    BY <1>8, <1>11, <1>12, <2>1, <2>2, <2>3, <2>4, <2>5, <2>6 DEF HeldInv, Released
<1>18. StopInv'
  <2>1. job.late = 0 /\ job.away = 0 /\ (job.target = 2 => screen.owner = 2)
    BY <1>0 DEF Heeds
  <2>2. job.stop => screen.estop \/ Gone(g, job)
    BY <1>0 DEF Heeds, Sensitive
  <2>3. Gone(g, job) => Gone(g, new)'
    BY <1>7, <1>8, <1>9 DEF Gone
  <2>4. new.late <= 1 /\ (new.late = 1 => job.stop)
    BY <1>7, <2>1
  <2>5. new.away <= 1 /\ (new.away = 1 => ~FrontAllows(g))
    BY <1>7, <2>1
  <2>6. ~FrontAllows(g) =>
          mode # "full" /\ job.tool # "activate_window" /\ screen'.front # "app"
    BY <1>2, <1>9 DEF FrontAllows
  <2>7. Heeds(g, new)'
    BY <1>7, <1>9, <1>10, <2>1, <2>2, <2>3, <2>4, <2>5, <2>6 DEF Heeds
  <2>8. \A h \in Gens : child'[h].listed = 2 => screen'.owner = 2
    BY <1>8, <1>9 DEF DesktopInv, StopInv
  <2> QED
    BY <1>8, <1>12, <2>7, <2>8 DEF StopInv, Heeds, Gone
<1>19. AnswerHonest'
  <2>1. replies[job.id].text = "none"
    BY <1>0 DEF NoReply
  <2>2. "none" \notin RejectedTexts \cup ErrorTexts
    BY DEF RejectedTexts, ErrorTexts
  <2> QED
    BY <1>10, <1>11, <2>1, <2>2 DEF DesktopInv, AnswerHonest
<1> QED
  BY <1>13, <1>14, <1>15, <1>16, <1>17, <1>18, <1>19 DEF DesktopInv

LEMMA ServerInvariant ==
  ASSUME DesktopInv, NEW g \in Gens, ServerStep(g), UNCHANGED linkVars
  PROVE  DesktopInv'
BY ObserveStep, ServerChecks, SenseStep, LookStep, FeelStep, ActStep, CaptureStep, FinishStep
   DEF ServerStep

-----------------------------------------------------------------------------
(* The surroundings change what a job knows, not what it does.             *)
Witnesses(new, job) ==
  /\ new \in Jobs
  /\ new.id = job.id /\ new.tool = job.tool /\ new.pc = job.pc /\ new.todo = job.todo
  /\ new.attempts = job.attempts /\ new.failed = job.failed

LEMMA WorldStep ==
  ASSUME DesktopInv, screen' \in Screens, screen'.held = screen.held,
         child' \in [Gens -> Children],
         \A g \in Gens :
            /\ child'[g].alive = child[g].alive /\ child'[g].listed = child[g].listed
            /\ ~child[g].alive => child'[g] = child[g]
            /\ child[g].alive /\ ~Working(g) => child'[g].job = child[g].job
            /\ Working(g) =>
                /\ Witnesses(child'[g].job, child[g].job)
                /\ (Heeds(g, child[g].job))',
         screen.owner = 2 => screen'.owner = 2,
         UNCHANGED <<mode, acted, replies, link, call, results, sent>>
  PROVE  DesktopInv'
<1>1. \A g \in Gens : child'[g].job.pc = child[g].job.pc
  BY DEF Witnesses, Working
<1>2. \A g \in Gens : Working(g)' <=> Working(g)
  BY <1>1 DEF Working
<1>3. TypeOK'
  BY DEF DesktopInv, TypeOK
<1>4. ChildInv'
  BY DEF DesktopInv, ChildInv
<1>5. CallInv'
  BY <1>2 DEF DesktopInv, CallInv, Witnesses
<1>6. AnswerInv'
  BY <1>2 DEF DesktopInv, AnswerInv, Counted, Witnesses
<1>7. HeldInv'
  <2>1. NoKeyHeld' <=> NoKeyHeld
    BY DEF NoKeyHeld
  <2>2. \A g \in Gens : Untouched(g)' <=> Untouched(g)
    BY DEF Untouched
  <2>3. \A g \in Gens : Working(g) => (Released(child[g].job)' <=> Released(child[g].job))
    BY <2>1 DEF Released, Witnesses, NoKeyHeld
  <2>4. \A g \in Gens : Working(g) => Formed(child'[g].job.todo, child'[g].job.tool)
    BY DEF DesktopInv, HeldInv, Witnesses
  <2> QED
    BY <1>1, <1>2, <2>1, <2>2, <2>3, <2>4 DEF DesktopInv, HeldInv, Working
<1>8. StopInv'
  BY <1>2 DEF DesktopInv, StopInv
<1>9. AnswerHonest'
  BY DEF DesktopInv, AnswerHonest
<1> QED
  BY <1>3, <1>4, <1>5, <1>6, <1>7, <1>8, <1>9 DEF DesktopInv

LEMMA SurroundingsInvariant ==
  ASSUME DesktopInv, Surroundings, UNCHANGED linkVars
  PROVE  DesktopInv'
<1>0. /\ child \in [Gens -> Children] /\ screen \in Screens
      /\ \A g \in Gens : Working(g) => child[g].job \in Jobs /\ Heeds(g, child[g].job)
  BY JobTypes DEF DesktopInv, TypeOK, StopInv
<1>1. UNCHANGED <<mode, acted, replies, link, call, results, sent>>
  BY DEF Surroundings, Engage, HumanInput, Settle, FrontMoves, OwnerChanges, linkVars
<1>a. \A g \in Gens : ~child[g].alive => child[g] = NoChild
  BY DEF DesktopInv, ChildInv
<1>2. CASE Engage
  <2>1. screen' \in Screens /\ screen'.held = screen.held /\ screen'.owner = screen.owner
        /\ screen'.estop = TRUE /\ screen'.front = screen.front
    BY <1>0, <1>2 DEF Engage, Screens
  <2>2. ASSUME NEW g \in Gens
        PROVE  /\ child'[g] = IF Working(g) THEN [child[g] EXCEPT !.job.stop = TRUE] ELSE child[g]
               /\ child'[g] \in Children
               /\ child'[g].alive = child[g].alive /\ child'[g].listed = child[g].listed
               /\ Working(g) => child'[g].job = [child[g].job EXCEPT !.stop = TRUE]
    <3>1. child'[g] = IF Working(g) THEN [child[g] EXCEPT !.job.stop = TRUE] ELSE child[g]
      BY <1>2 DEF Engage
    <3>2. Working(g) => [child[g].job EXCEPT !.stop = TRUE] \in Jobs
      BY <1>0 DEF Jobs
    <3> QED
      BY <1>0, <3>1, <3>2 DEF Children
  <2>3. ASSUME NEW g \in Gens, Working(g)
        PROVE  Witnesses(child'[g].job, child[g].job) /\ (Heeds(g, child[g].job))'
    <3>1. child'[g].job = [child[g].job EXCEPT !.stop = TRUE]
      BY <2>2, <2>3
    <3>2. /\ Witnesses(child'[g].job, child[g].job)
          /\ child'[g].job.late = child[g].job.late /\ child'[g].job.away = child[g].job.away
          /\ child'[g].job.target = child[g].job.target
      BY <1>0, <2>3, <3>1 DEF Witnesses, Jobs
    <3>3. Heeds(g, child[g].job)
      BY <1>0, <2>3
    <3> QED
      BY <1>1, <2>1, <3>2, <3>3 DEF Heeds, Witnesses
  <2>4. child' \in [Gens -> Children]
    BY <2>2, <1>2 DEF Engage
  <2> QED
    BY <1>1, <2>1, <2>2, <2>3, <2>4, WorldStep DEF Working
<1>3. CASE HumanInput
  <2> DEFINE new(g) == Noticed(child[g].job)
  <2>1. screen' \in Screens /\ screen'.held = screen.held /\ screen'.owner = screen.owner
        /\ screen'.estop = screen.estop /\ screen'.front = screen.front
    BY <1>0, <1>3 DEF HumanInput, Screens
  <2>2. ASSUME NEW g \in Gens, Working(g)
        PROVE  /\ new(g) \in Jobs /\ Witnesses(new(g), child[g].job)
               /\ new(g).late = child[g].job.late /\ new(g).away = child[g].job.away
               /\ new(g).target = child[g].job.target
               /\ new(g).ready = FALSE /\ new(g).allowed = FALSE
               /\ new(g).stop =
                    (child[g].job.stop \/ (mode = "safe" /\ child[g].job.pc \in Sensitive))
    <3>1. /\ child[g].job \in Jobs
          /\ (child[g].job.stop \/ (mode = "safe" /\ child[g].job.pc \in Sensitive)) \in BOOLEAN
      BY <1>0, <2>2 DEF Jobs
    <3>2. /\ Disturbed(child[g].job) \in Jobs /\ Witnesses(Disturbed(child[g].job), child[g].job)
          /\ Disturbed(child[g].job).late = child[g].job.late
          /\ Disturbed(child[g].job).away = child[g].job.away
          /\ Disturbed(child[g].job).stop = child[g].job.stop
          /\ Disturbed(child[g].job).target = child[g].job.target
          /\ Disturbed(child[g].job).ready = FALSE /\ Disturbed(child[g].job).allowed = FALSE
      BY <3>1 DEF Disturbed, Witnesses, Jobs
    <3> QED
      BY <3>1, <3>2 DEF Noticed, Witnesses, Jobs
  <2> HIDE DEF new
  <2>3. ASSUME NEW g \in Gens
        PROVE  /\ child'[g] \in Children
               /\ child'[g].alive = child[g].alive /\ child'[g].listed = child[g].listed
               /\ ~child[g].alive => child'[g] = child[g]
               /\ child[g].alive /\ ~Working(g) => child'[g].job = child[g].job
               /\ Working(g) => child'[g].job = new(g)
    <3>1. CASE ~Working(g)
      <4>1. child'[g] = [child[g] EXCEPT !.own = FALSE]
        BY <1>3, <3>1 DEF HumanInput
      <4>2. ASSUME ~child[g].alive PROVE child'[g] = child[g]
        <5>1. child[g] = NoChild
          BY <1>a, <4>2
        <5>2. \A c \in Children : c.alive = FALSE /\ c.own = FALSE /\ c.listed = 0 /\ c.job = Idle
                => c = NoChild
          <6> SUFFICES ASSUME NEW c \in Children, c.alive = FALSE, c.own = FALSE,
                              c.listed = 0, c.job = Idle
                       PROVE  c = NoChild
            OBVIOUS
          <6>1. c = [alive |-> c.alive, own |-> c.own, listed |-> c.listed, job |-> c.job]
            BY DEF Children
          <6> QED
            BY <6>1 DEF NoChild
        <5>3. /\ child'[g] \in Children /\ child'[g].alive = FALSE /\ child'[g].own = FALSE
              /\ child'[g].listed = 0 /\ child'[g].job = Idle
          <6>1. child[g].alive = FALSE /\ child[g].listed = 0 /\ child[g].job = Idle
            BY <5>1 DEF NoChild
          <6>2. child[g] \in Children
            BY <1>0
          <6> QED
            BY <4>1, <6>1, <6>2 DEF Children
        <5> QED
          BY <5>1, <5>2, <5>3
      <4> QED
        BY <1>0, <3>1, <4>1, <4>2 DEF Children
    <3>2. CASE Working(g)
      <4>1. child'[g] = [child[g] EXCEPT !.own = FALSE, !.job = new(g)]
        BY <1>3, <3>2 DEF HumanInput, new
      <4>2. new(g) \in Jobs
        BY <2>2, <3>2
      <4> QED
        BY <1>0, <3>2, <4>1, <4>2 DEF Children, Working
    <3> QED
      BY <3>1, <3>2
  <2>4. ASSUME NEW g \in Gens, Working(g)
        PROVE  Witnesses(child'[g].job, child[g].job) /\ (Heeds(g, child[g].job))'
    <3>1. Heeds(g, child[g].job)
      BY <1>0, <2>4
    <3>2. child'[g].job = new(g) /\ child'[g].listed = child[g].listed
      BY <2>3, <2>4
    <3> QED
      <4>1. Gone(g, child[g].job)' <=> Gone(g, child[g].job)
        BY <2>1, <2>2, <2>4, <3>2 DEF Gone, Witnesses
      <4>2. /\ child'[g].job.late = child[g].job.late /\ child'[g].job.away = child[g].job.away
            /\ child'[g].job.target = child[g].job.target
            /\ child'[g].job.ready = FALSE /\ child'[g].job.allowed = FALSE
            /\ child'[g].job.pc = child[g].job.pc /\ child'[g].job.tool = child[g].job.tool
            /\ child'[g].job.stop =
                    (child[g].job.stop \/ (mode = "safe" /\ child[g].job.pc \in Sensitive))
        BY <2>2, <2>4, <3>2 DEF Witnesses
      <4>3. child'[g].job.stop =>
              \/ screen'.estop \/ Gone(g, child[g].job)'
              \/ /\ mode' = "safe" /\ ~child'[g].job.ready /\ ~child'[g].job.allowed
                 /\ child'[g].job.pc \in Sensitive
        BY <1>1, <2>1, <3>1, <4>1, <4>2 DEF Heeds
      <4>4. (Heeds(g, child[g].job))'
        BY <1>1, <2>1, <3>1, <4>1, <4>2, <4>3 DEF Heeds
      <4> QED
        BY <2>2, <2>4, <3>2, <4>4
  <2>5. child' \in [Gens -> Children]
    BY <2>3, <1>3 DEF HumanInput
  <2> QED
    BY <1>1, <2>1, <2>3, <2>4, <2>5, WorldStep
<1>4. CASE Settle
  <2>1. screen' \in Screens /\ screen'.held = screen.held /\ screen'.owner = screen.owner
        /\ screen'.estop = screen.estop /\ screen'.front = screen.front /\ child' = child
    BY <1>0, <1>4 DEF Settle, Screens
  <2>2. \A g \in Gens : Working(g) =>
          Witnesses(child'[g].job, child[g].job) /\ (Heeds(g, child[g].job))'
    BY <1>0, <1>1, <2>1 DEF Heeds, Gone, Witnesses
  <2> QED
    BY <1>0, <1>1, <2>1, <2>2, WorldStep
<1>5. CASE FrontMoves
  <2>1. screen' \in Screens /\ screen'.held = screen.held /\ screen'.owner = screen.owner
        /\ screen'.estop = screen.estop
    BY <1>0, <1>5 DEF FrontMoves, Screens
  <2>2. ASSUME NEW g \in Gens
        PROVE  /\ child'[g] \in Children
               /\ child'[g].alive = child[g].alive /\ child'[g].listed = child[g].listed
               /\ ~Working(g) => child'[g] = child[g]
               /\ Working(g) => child'[g].job = [child[g].job EXCEPT !.away = 0]
    <3>1. child'[g] = IF Working(g) THEN [child[g] EXCEPT !.job.away = 0] ELSE child[g]
      BY <1>5 DEF FrontMoves
    <3>2. Working(g) => [child[g].job EXCEPT !.away = 0] \in Jobs
      BY <1>0 DEF Jobs
    <3> QED
      BY <1>0, <3>1, <3>2 DEF Children
  <2>3. ASSUME NEW g \in Gens, Working(g)
        PROVE  Witnesses(child'[g].job, child[g].job) /\ (Heeds(g, child[g].job))'
    <3>1. child'[g].job = [child[g].job EXCEPT !.away = 0] /\ child'[g].listed = child[g].listed
      BY <2>2, <2>3
    <3>2. /\ Witnesses(child'[g].job, child[g].job)
          /\ child'[g].job.late = child[g].job.late /\ child'[g].job.away = 0
          /\ child'[g].job.target = child[g].job.target
          /\ child'[g].job.stop = child[g].job.stop
          /\ child'[g].job.ready = child[g].job.ready
          /\ child'[g].job.allowed = child[g].job.allowed
      BY <1>0, <2>3, <3>1 DEF Witnesses, Jobs
    <3>3. Heeds(g, child[g].job)
      BY <1>0, <2>3
    <3> QED
      BY <1>1, <2>1, <3>1, <3>2, <3>3 DEF Heeds, Gone, Witnesses
  <2>4. child' \in [Gens -> Children]
    BY <2>2, <1>5 DEF FrontMoves
  <2> QED
    BY <1>1, <2>1, <2>2, <2>3, <2>4, WorldStep DEF Working
<1>6. CASE OwnerChanges
  <2>1. screen' \in Screens /\ screen'.held = screen.held /\ screen'.owner = 2
        /\ screen.owner = 1
        /\ screen'.estop = screen.estop /\ screen'.front = screen.front
    BY <1>0, <1>6 DEF OwnerChanges, Screens
  <2>2. ASSUME NEW g \in Gens
        PROVE  /\ child'[g] \in Children
               /\ child'[g].alive = child[g].alive /\ child'[g].listed = child[g].listed
               /\ ~Working(g) => child'[g] = child[g]
               /\ Working(g) =>
                    IF child[g].job.tool = "activate_window"
                    THEN child'[g].job = [child[g].job EXCEPT !.stop = TRUE]
                    ELSE child'[g].job = child[g].job
    <3>1. child'[g] = IF Working(g) /\ child[g].job.tool = "activate_window"
                      THEN [child[g] EXCEPT !.job.stop = TRUE] ELSE child[g]
      BY <1>6 DEF OwnerChanges
    <3>2. Working(g) => [child[g].job EXCEPT !.stop = TRUE] \in Jobs
      BY <1>0 DEF Jobs
    <3> QED
      BY <1>0, <3>1, <3>2 DEF Children
  <2>3. ASSUME NEW g \in Gens, Working(g)
        PROVE  Witnesses(child'[g].job, child[g].job) /\ (Heeds(g, child[g].job))'
    <3>1. /\ Witnesses(child'[g].job, child[g].job)
          /\ child'[g].job.late = child[g].job.late /\ child'[g].job.away = child[g].job.away
          /\ child'[g].job.target = child[g].job.target
          /\ child'[g].job.ready = child[g].job.ready
          /\ child'[g].job.allowed = child[g].job.allowed
          /\ child[g].job.tool # "activate_window" => child'[g].job.stop = child[g].job.stop
      BY <1>0, <2>2, <2>3, ZenonT(60) DEF Witnesses, Jobs
    <3>2. Heeds(g, child[g].job)
      BY <1>0, <2>3
    <3>3. child[g].job.target # 2
      BY <2>1, <3>2 DEF Heeds
    <3>4. child[g].job.tool = "activate_window" => Gone(g, child[g].job)'
      BY <2>1, <3>1, <3>3 DEF Gone, Witnesses
    <3>5. Gone(g, child[g].job) => child[g].job.tool = "activate_window"
      BY DEF Gone
    <3> QED
      BY <1>1, <2>1, <3>1, <3>2, <3>4, <3>5 DEF Heeds, Witnesses
  <2>4. child' \in [Gens -> Children]
    BY <2>2, <1>6 DEF OwnerChanges
  <2> QED
    BY <1>1, <2>1, <2>2, <2>3, <2>4, WorldStep DEF Working
<1> QED
  BY <1>2, <1>3, <1>4, <1>5, <1>6 DEF Surroundings

-----------------------------------------------------------------------------
(* What an answer means to the client.                                     *)
LEMMA ConvertMeans ==
  ASSUME NEW tool \in Tools, NEW text \in Texts \ {"none"}, NEW garbled \in BOOLEAN
  PROVE  LET raw == [error |-> FALSE, decodes |-> TRUE, text |-> text,
                     kinds |-> IF garbled THEN <<>> ELSE <<"text">>]
             status == Convert(Registry({})[tool], raw)
         IN /\ tool \in DOMAIN ObservationTools /\ text = "read" =>
                  status \in {"success", "action_error"}
            /\ tool \in DOMAIN ActionTools =>
                  \/ status = "success" /\ text = "ok"
                  \/ /\ status \in {"rejected", "action_error"}
                     /\ text \in RejectedTexts \cup ErrorTexts
                  \/ status = "unknown_outcome"
            /\ garbled /\ tool \in DOMAIN ActionTools => status = "unknown_outcome"
<1> DEFINE kinds == IF garbled THEN <<>> ELSE <<"text">>
           raw == [error |-> FALSE, decodes |-> TRUE, text |-> text, kinds |-> kinds]
           spec == Registry({})[tool]
<1>1. /\ raw.error = FALSE /\ raw.decodes = TRUE /\ raw.text = text /\ raw.kinds = kinds
  OBVIOUS
<1>2. kinds = <<"text">> <=> ~garbled
  <2>1. Len(<<"text">>) = 1 /\ Len(<<>>) = 0
    OBVIOUS
  <2>2. <<"text">> # <<>>
    BY <2>1
  <2> QED
    BY <2>2
<1> HIDE DEF raw, kinds
<1>3. ASSUME tool \in DOMAIN ObservationTools, text = "read"
      PROVE  Convert(spec, raw) \in {"success", "action_error"}
  <2>1. spec.effect = "observation"
    BY <1>3, Specs
  <2>2. text # "error"
    BY <1>3
  <2> QED
    BY <1>1, <2>1, <2>2 DEF Convert, Protocol
<1>4. ASSUME tool \in DOMAIN ActionTools
      PROVE  /\ \/ Convert(spec, raw) = "success" /\ text = "ok"
                \/ /\ Convert(spec, raw) \in {"rejected", "action_error"}
                   /\ text \in RejectedTexts \cup ErrorTexts
                \/ Convert(spec, raw) = "unknown_outcome"
             /\ garbled => Convert(spec, raw) = "unknown_outcome"
  <2>1. spec.effect = "side_effect" /\ spec.content = "text"
    BY <1>4, Specs
  <2>2. Convert(spec, raw) =
          IF garbled \/ Classify(text) = "protocol" THEN "unknown_outcome" ELSE Classify(text)
    BY <1>1, <1>2, <2>1 DEF Convert, Protocol
  <2>3. \/ Classify(text) = "success" /\ text = "ok"
        \/ Classify(text) \in {"rejected", "action_error"} /\ text \in RejectedTexts \cup ErrorTexts
        \/ Classify(text) \in {"unknown_outcome", "protocol"}
    BY DEF Classify
  <2> QED
    BY <2>2, <2>3
<1> QED
  BY <1>3, <1>4 DEF raw, kinds

(* The client moves on: its call ends, or its child is gone.               *)
LinkTypes ==
  [owner : {"none", "running", "stuck", "done"}, session : BOOLEAN,
   verified : Gens \cup {0}, gen : Gens \cup {0}, closed : BOOLEAN]

LEMMA LinkStep ==
  ASSUME DesktopInv, UNCHANGED <<mode, screen, acted, replies, sent>>,
         child' \in [Gens -> Children],
         \A g \in Gens : child'[g] = child[g] \/ child'[g] = NoChild,
         link' \in LinkTypes, link'.gen = link.gen,
         results' \in [Calls -> Results],
         \/ call' = call
         \/ call' \in {NoCall, [pc |-> "dropping"]}
            /\ (call.pc = "sent" => results'[call.id] # "none"),
         call' = call /\ call.pc = "sent" => results' = results,
         ChildInv',
         \A g \in Gens : Working(g)' => ~link'.session \/ call' = call,
         \A c \in Calls :
            \/ results'[c] = results[c]
            \/ /\ results'[c] # "none"
               /\ sent[c] # 0 /\ replies[c].text = "none" => results'[c] = "unknown_outcome"
               /\ results'[c] = "success" => replies[c].text \in {"ok", "read"}
               /\ results'[c] \in {"rejected", "transport_error", "action_error"} =>
                    c \notin acted,
         link'.session => link.session
  PROVE  DesktopInv'
<1>1. \A g \in Gens : Working(g)' => Working(g) /\ child'[g] = child[g]
  BY DEF Working, NoChild
<1>2. NoCall.pc = "none" /\ [pc |-> "dropping"].pc = "dropping"
  BY DEF NoCall
<1>3. TypeOK'
  BY DEF DesktopInv, TypeOK, LinkTypes
<1>4. CallInv'
  <2>1. call'.pc = "sent" => call' = call
    BY <1>2
  <2>2. call'.pc = "sent" => sent[call'.id] = link'.gen /\ results'[call'.id] = "none"
    BY <2>1 DEF DesktopInv, CallInv
  <2>3. ASSUME NEW c \in Calls
        PROVE  /\ sent[c] # 0 /\ results'[c] = "none" => call'.pc = "sent" /\ call'.id = c
               /\ sent[c] = 0 => replies[c] = NoReply /\ c \notin acted
               /\ sent[c] # 0 /\ replies[c].text = "none" =>
                    results'[c] \in {"none", "unknown_outcome"}
               /\ sent[c] <= link'.gen
    BY <2>3 DEF DesktopInv, CallInv
  <2>4. ASSUME NEW g \in Gens, Working(g)'
        PROVE  /\ sent[child'[g].job.id] = g
               /\ replies[child'[g].job.id] = NoReply
               /\ \/ ~link'.session
                  \/ /\ call'.pc = "sent" /\ call'.id = child'[g].job.id
                     /\ call'.tool = child'[g].job.tool
    BY <1>1, <2>4 DEF DesktopInv, CallInv
  <2> QED
    BY <2>2, <2>3, <2>4 DEF CallInv
<1>5. AnswerInv'
  <2>1. \A g \in Gens : Working(g)' => Counted(child[g].job)
    BY <1>1 DEF DesktopInv, AnswerInv
  <2>2. call'.pc = "sent" /\ call'.tool \in DOMAIN ObservationTools =>
          replies[call'.id].text \in {"none", "read"} /\ call'.id \notin acted
    BY <1>2 DEF DesktopInv, AnswerInv
  <2> QED
    BY <1>1, <2>1, <2>2 DEF AnswerInv, Counted
<1>6. HeldInv'
  <2>1. /\ NoKeyHeld' <=> NoKeyHeld
        /\ \A g \in Gens : Untouched(g)' <=> Untouched(g)
    BY DEF NoKeyHeld, Untouched
  <2>2. \A g \in Gens : child'[g].alive => child[g].alive /\ child'[g] = child[g]
    BY DEF NoChild
  <2> QED
    BY <1>1, <2>1, <2>2 DEF DesktopInv, HeldInv, Released, NoKeyHeld
<1>7. StopInv'
  <2>1. \A g \in Gens : child'[g].listed = 2 => screen.owner = 2
    BY DEF NoChild, DesktopInv, StopInv
  <2>2. \A g \in Gens : Working(g)' => Heeds(g, child[g].job)
    BY <1>1 DEF DesktopInv, StopInv
  <2> QED
    BY <1>1, <2>1, <2>2 DEF StopInv, Heeds, Gone
<1>8. AnswerHonest'
  BY DEF DesktopInv, AnswerHonest
<1> QED
  BY <1>3, <1>4, <1>5, <1>6, <1>7, <1>8 DEF DesktopInv

(* The link of a state, and how its call may stand.                        *)
LEMMA LinkFacts ==
  ASSUME DesktopInv
  PROVE  /\ link \in LinkTypes /\ child \in [Gens -> Children] /\ results \in [Calls -> Results]
         /\ call.pc \in {"none", "sent", "dropping"}
         /\ call.pc = "none" <=> call = NoCall
         /\ call.pc = "sent" => call.id \in Calls /\ call.tool \in Tools /\ link.session
         /\ call.pc = "dropping" => call = [pc |-> "dropping"] /\ ~link.session
         /\ link.session \/ link.owner # "none" => link.gen \in Gens
         /\ NoCall.pc = "none" /\ [pc |-> "dropping"].pc = "dropping"
         /\ 0 \notin Gens /\ NoChild \in Children /\ ~NoChild.alive
<1>1. /\ link \in LinkTypes /\ child \in [Gens -> Children] /\ results \in [Calls -> Results]
      /\ call \in {NoCall, [pc |-> "dropping"]} \cup [pc : {"sent"}, id : Calls, tool : Tools]
  BY DEF DesktopInv, TypeOK, LinkTypes
<1>2. /\ link.session \/ link.owner # "none" => link.gen # 0
      /\ call.pc = "sent" => link.session
      /\ call.pc = "dropping" => ~link.session
  BY DEF DesktopInv, ChildInv
<1>3. NoChild \in Children /\ ~NoChild.alive /\ 0 \notin Gens
  BY GenAssumption DEF NoChild, Children, Idle
<1> QED
  BY <1>1, <1>2, <1>3 DEF NoCall, LinkTypes

LEMMA DiscoverStep ==
  ASSUME DesktopInv, NEW drift, Discover(drift)
  PROVE  DesktopInv'
<1>1. /\ UNCHANGED <<mode, screen, acted, replies, child, results, sent>> /\ call.pc = "none"
      /\ link.session /\ link.owner = "running"
      /\ \/ link' = [link EXCEPT !.verified = link.gen] /\ call' = call
         \/ /\ link' = [link EXCEPT !.session = FALSE, !.verified = 0]
            /\ call' = [pc |-> "dropping"]
  BY DEF Discover, serverVars, Unlocked
<1>2. /\ link' \in LinkTypes /\ link'.gen = link.gen /\ link'.owner = link.owner
      /\ link'.session => link.session
      /\ call' = call \/ ~link'.session
  BY <1>1, LinkFacts DEF LinkTypes
<1>3. call' = call \/ call' = [pc |-> "dropping"]
  BY <1>1
<1>4. ChildInv'
  BY <1>1, <1>2, <1>3, LinkFacts DEF DesktopInv, ChildInv
<1> QED
  BY <1>1, <1>2, <1>3, <1>4, LinkFacts, LinkStep

LEMMA ReceiveStep ==
  ASSUME DesktopInv, NEW garbled \in BOOLEAN, Receive(garbled)
  PROVE  DesktopInv'
<1> DEFINE id == call.id
           text == replies[id].text
           raw == [error |-> FALSE, decodes |-> TRUE, text |-> text,
                   kinds |-> IF garbled THEN <<>> ELSE <<"text">>]
           status == Convert(Registry({})[call.tool], raw)
<1>1. /\ call.pc = "sent" /\ text # "none" /\ Reachable
      /\ \/ PostDispatch(status)
         \/ /\ Close(id, status) /\ call' = NoCall
            /\ UNCHANGED <<serverVars, link, sent>>
  BY DEF Receive
<1>2. /\ id \in Calls /\ call.tool \in Tools /\ text \in Texts \ {"none"}
      /\ link.session
  BY <1>1, LinkFacts DEF DesktopInv, TypeOK
<1>3. /\ call.tool \in DOMAIN ObservationTools => text = "read" /\ id \notin acted
      /\ call.tool \in DOMAIN ObservationTools \cup DOMAIN ActionTools
  BY <1>1, <1>2, ToolSets DEF DesktopInv, AnswerInv
<1>4. /\ status # "none" /\ status \in Results
      /\ status = "success" => text \in {"ok", "read"}
      /\ status \in {"rejected", "transport_error", "action_error"} => id \notin acted
  <2> HIDE DEF status
  <2>1. /\ call.tool \in DOMAIN ObservationTools /\ text = "read" =>
                  status \in {"success", "action_error"}
        /\ call.tool \in DOMAIN ActionTools =>
                  \/ status = "success" /\ text = "ok"
                  \/ /\ status \in {"rejected", "action_error"}
                     /\ text \in RejectedTexts \cup ErrorTexts
                  \/ status = "unknown_outcome"
    <3> HIDE DEF text
    <3> QED
      BY <1>2, ConvertMeans DEF status
  <2>2. text \in RejectedTexts \cup ErrorTexts => id \notin acted
    BY <1>2 DEF DesktopInv, AnswerHonest
  <2> QED
    BY <1>3, <2>1, <2>2 DEF Results
<1> HIDE DEF status
<1>5. /\ UNCHANGED <<mode, screen, acted, replies, child, sent>>
      /\ results' = [results EXCEPT ![id] = status]
      /\ \/ /\ call' = [pc |-> "dropping"]
            /\ link' = [link EXCEPT !.session = FALSE, !.verified = 0]
         \/ call' = NoCall /\ link' = link
  BY <1>1 DEF PostDispatch, Close, serverVars
<1>6. /\ link' \in LinkTypes /\ link'.gen = link.gen /\ link'.owner = link.owner
      /\ link'.session => link.session
      /\ results' \in [Calls -> Results] /\ results'[id] = status
      /\ \A c \in Calls : c # id => results'[c] = results[c]
  BY <1>2, <1>4, <1>5, LinkFacts DEF LinkTypes
<1>7. ChildInv'
  <2>1. call'.pc # "sent" /\ (call'.pc = "dropping" => ~link'.session)
    BY <1>5, LinkFacts DEF LinkTypes
  <2> QED
    BY <1>5, <1>6, <2>1, LinkFacts DEF DesktopInv, ChildInv
<1>8. \A g \in Gens : ~Working(g)
  BY <1>1, <1>2 DEF DesktopInv, CallInv, NoReply
<1>9. \A g \in Gens : ~Working(g)'
  BY <1>5, <1>8 DEF Working
<1>10. \A c \in Calls :
            \/ results'[c] = results[c]
            \/ /\ results'[c] # "none"
               /\ sent[c] # 0 /\ replies[c].text = "none" => results'[c] = "unknown_outcome"
               /\ results'[c] = "success" => replies[c].text \in {"ok", "read"}
               /\ results'[c] \in {"rejected", "transport_error", "action_error"} =>
                    c \notin acted
  BY <1>1, <1>4, <1>6
<1>11. /\ call' \in {NoCall, [pc |-> "dropping"]}
       /\ call' # call /\ results'[call.id] # "none"
  BY <1>1, <1>4, <1>5, <1>6, LinkFacts
<1> QED
  BY <1>5, <1>6, <1>7, <1>9, <1>10, <1>11, LinkFacts, LinkStep

LEMMA TimeoutStep ==
  ASSUME DesktopInv, Timeout
  PROVE  DesktopInv'
<1>1. /\ call.pc = "sent" /\ call.id \in Calls
      /\ UNCHANGED <<mode, screen, acted, replies, child, sent>>
      /\ results' = [results EXCEPT ![call.id] = "unknown_outcome"]
      /\ call' = [pc |-> "dropping"]
      /\ link' = [link EXCEPT !.session = FALSE, !.verified = 0]
  BY LinkFacts DEF Timeout, PostDispatch, Close, serverVars
<1>2. /\ link' \in LinkTypes /\ link'.gen = link.gen /\ link'.owner = link.owner
      /\ ~link'.session
      /\ results' \in [Calls -> Results]
      /\ \A c \in Calls : results'[c] = IF c = call.id THEN "unknown_outcome" ELSE results[c]
  BY <1>1, LinkFacts DEF LinkTypes, Results
<1>3. ChildInv'
  BY <1>1, <1>2, LinkFacts DEF DesktopInv, ChildInv
<1>4. call' # call
  BY <1>1, LinkFacts
<1> QED
  BY <1>1, <1>2, <1>3, <1>4, LinkFacts, LinkStep

(* The cleanups, in which no result is fixed.                              *)
LEMMA CleanupStep ==
  ASSUME DesktopInv, Dropped \/ OwnerEnds \/ ChildExit \/ InspectFails \/ Reopen \/ CloseLink
  PROVE  DesktopInv'
<1>1. UNCHANGED <<mode, screen, acted, replies, results, sent>>
  BY DEF Dropped, OwnerEnds, ChildExit, InspectFails, Reopen, CloseLink, Dies, serverVars
<1>2. \/ call' = call
      \/ /\ call' \in {NoCall, [pc |-> "dropping"]} /\ call.pc # "sent"
         /\ call' = [pc |-> "dropping"] => ~link'.session
  BY LinkFacts DEF Dropped, OwnerEnds, ChildExit, InspectFails, Reopen, CloseLink, Unlocked, LinkTypes
<1>3. \A g \in Gens : child'[g] = child[g] \/ child'[g] = NoChild
  BY LinkFacts DEF Dropped, OwnerEnds, ChildExit, InspectFails, Reopen, CloseLink, Dies, serverVars
<1>4. child' \in [Gens -> Children]
  BY LinkFacts DEF Dropped, OwnerEnds, ChildExit, InspectFails, Reopen, CloseLink, Dies, serverVars
<1>5. /\ link' \in LinkTypes /\ link'.gen = link.gen
      /\ link'.session => link.session
      /\ link'.owner # "none" => link.owner # "none"
  BY LinkFacts DEF Dropped, OwnerEnds, ChildExit, InspectFails, Reopen, CloseLink, LinkTypes
<1>6. call.pc = "sent" /\ ~ChildExit => FALSE
  BY LinkFacts DEF Dropped, OwnerEnds, InspectFails, Reopen, CloseLink, Unlocked
<1>7. ChildInv'
  <2>1. \A g \in Gens : ~child'[g].alive => child'[g] = NoChild
    BY <1>3 DEF DesktopInv, ChildInv
  <2>2. \A g \in Gens : child[g].alive => g = link.gen /\ link.owner \in {"running", "stuck"}
    BY DEF DesktopInv, ChildInv
  <2>3. \A g \in Gens : child'[g].alive => g = link'.gen /\ link'.owner \in {"running", "stuck"}
    <3> SUFFICES ASSUME NEW g \in Gens, child'[g].alive
                 PROVE  link'.owner \in {"running", "stuck"} /\ g = link.gen
      BY <1>5
    <3>1. child[g].alive /\ child'[g] = child[g] /\ child'[g] # NoChild
      BY <1>3, LinkFacts
    <3>2. g = link.gen /\ link.owner \in {"running", "stuck"}
      BY <2>2, <3>1
    <3>3. CASE Dropped
      BY <3>2, <3>3, LinkFacts DEF Dropped, LinkTypes
    <3>4. CASE OwnerEnds \/ ChildExit
      <4>1. child'[g] = NoChild
        BY <3>1, <3>2, <3>4, LinkFacts DEF OwnerEnds, ChildExit, Dies
      <4> QED
        BY <3>1, <4>1
    <3>5. CASE InspectFails \/ Reopen \/ CloseLink
      BY <3>2, <3>5, LinkFacts DEF InspectFails, Reopen, CloseLink, LinkTypes
    <3> QED
      BY <3>2, <3>3, <3>4, <3>5
  <2>4. call'.pc = "sent" => link'.session
    <3> SUFFICES ASSUME call'.pc = "sent" PROVE link'.session
      OBVIOUS
    <3>1. call.pc = "sent" /\ ChildExit
      BY <1>2, <1>6, LinkFacts
    <3>2. link'.session = link.session
      BY <3>1, LinkFacts DEF ChildExit, LinkTypes
    <3> QED
      BY <3>1, <3>2, LinkFacts
  <2>5. call'.pc = "dropping" => ~link'.session
    BY <1>2, <1>5, LinkFacts
  <2> QED
    BY <1>5, <2>1, <2>3, <2>4, <2>5, LinkFacts DEF ChildInv, LinkTypes
<1>8. \A g \in Gens : Working(g)' => ~link'.session \/ call' = call
  <2>1. CASE Dropped
    BY <1>5, <2>1, LinkFacts DEF Dropped
  <2>2. CASE ~Dropped
    <3>1. call' = call \/ ~link'.session
      BY <2>2, LinkFacts DEF OwnerEnds, ChildExit, InspectFails, Reopen, CloseLink, LinkTypes
    <3> QED
      BY <3>1
  <2> QED
    BY <2>1, <2>2
<1> QED
  BY <1>1, <1>2, <1>3, <1>4, <1>5, <1>7, <1>8, LinkFacts, LinkStep

LEMMA OpenStep ==
  ASSUME DesktopInv, NEW baselines, Open(baselines)
  PROVE  DesktopInv'
<1>0. PICK n \in Gens : n = link.gen + 1
  BY DEF Open
<1>1. /\ call = NoCall /\ link.owner = "none" /\ ~link.session
      /\ child' = [child EXCEPT ![n].alive = TRUE]
      /\ UNCHANGED <<mode, screen, acted, replies, results, sent>>
      /\ call' \in {NoCall, [pc |-> "dropping"]}
      /\ call' = NoCall <=> baselines = "known"
      /\ link' = [link EXCEPT !.owner = "running", !.session = baselines = "known", !.gen = @ + 1]
  BY <1>0, LinkFacts DEF Open, Unlocked
<1>2. /\ link' \in LinkTypes /\ link'.gen = n /\ link'.owner = "running"
      /\ link'.session <=> call' = NoCall
  BY <1>0, <1>1, LinkFacts DEF LinkTypes
<1>3. \A g \in Gens : ~child[g].alive /\ child[g] = NoChild
  BY <1>1 DEF DesktopInv, ChildInv
<1>4. /\ child' \in [Gens -> Children] /\ child'[n].alive /\ child'[n].job = Idle
      /\ child'[n].listed = 0
      /\ \A g \in Gens : g # n => child'[g] = NoChild
  <2>1. child[n] \in Children /\ child[n].job = Idle /\ child[n].listed = 0
    BY <1>3, LinkFacts DEF NoChild
  <2>2. child' = [child EXCEPT ![n] = [child[n] EXCEPT !.alive = TRUE]]
    BY <1>1, LinkFacts
  <2> QED
    BY <1>3, <2>1, <2>2, LinkFacts DEF Children
<1>5. \A g \in Gens : ~Working(g)'
  BY <1>4, LinkFacts DEF Working, Idle
<1>6. TypeOK'
  BY <1>1, <1>2, <1>4 DEF DesktopInv, TypeOK, LinkTypes
<1>7. ChildInv'
  <2>1. n # 0
    BY <1>1, LinkFacts
  <2>2. \A g \in Gens : child'[g].alive => g = n
    BY <1>4, LinkFacts
  <2>3. \A g \in Gens : ~child'[g].alive => child'[g] = NoChild
    BY <1>4
  <2>4. call'.pc # "sent" /\ (call'.pc = "dropping" => ~link'.session)
    BY <1>1, <1>2, LinkFacts
  <2> QED
    BY <1>2, <2>1, <2>2, <2>3, <2>4 DEF ChildInv
<1>8. /\ link.gen \in Nat
      /\ \A c \in Calls : sent[c] \in Nat /\ sent[c] <= link.gen /\ sent[c] < n
  <2>0. Gens \cup {0} \subseteq Nat
    <3>1. Gens \subseteq Nat
      BY GenAssumption
    <3> QED
      BY <3>1
  <2>1. link.gen \in Nat
    <3>1. link.gen \in Gens \cup {0}
      BY LinkFacts DEF LinkTypes
    <3> QED
      BY <2>0, <3>1
  <2>2. \A c \in Calls : sent[c] \in Nat /\ sent[c] <= link.gen
    <3>1. \A c \in Calls : sent[c] \in Gens \cup {0} /\ sent[c] <= link.gen
      BY DEF DesktopInv, TypeOK, CallInv
    <3> QED
      BY <2>0, <3>1
  <2> QED
    BY <1>0, <2>1, <2>2
<1>9. CallInv'
  <2>1. \A c \in Calls : sent[c] <= n
    BY <1>0, <1>8
  <2>2. call'.pc # "sent" /\ call.pc # "sent"
    BY <1>1, LinkFacts
  <2> QED
    BY <1>1, <1>2, <1>5, <2>1, <2>2 DEF DesktopInv, CallInv
<1>10. AnswerInv'
  BY <1>1, <1>5, LinkFacts DEF AnswerInv
<1>11. HeldInv'
  <2>1. ASSUME Untouched(n)' PROVE NoKeyHeld
    <3>1. \A c \in Calls : sent[c] \in Gens => ~(sent[c] < n)
      BY <1>1, <2>1 DEF Untouched
    <3>2. \A c \in Calls : sent[c] < n
      BY <1>8
    <3>3. \A c \in Calls : sent[c] = 0
      BY <3>1, <3>2 DEF DesktopInv, TypeOK
    <3> QED
      BY <3>3 DEF DesktopInv, HeldInv
  <2>2. NoKeyHeld' <=> NoKeyHeld
    BY <1>1 DEF NoKeyHeld
  <2>3. (\A c \in Calls : sent'[c] = 0) => NoKeyHeld'
    BY <1>1, <2>2 DEF DesktopInv, HeldInv
  <2>4. \A g \in Gens : child'[g].alive => g = n
    BY <1>4, LinkFacts
  <2> QED
    BY <1>4, <1>5, <2>1, <2>2, <2>3, <2>4 DEF HeldInv, Idle
<1>12. StopInv'
  BY <1>4, <1>5 DEF StopInv, NoChild
<1>13. AnswerHonest'
  BY <1>1 DEF DesktopInv, AnswerHonest
<1> QED
  BY <1>6, <1>7, <1>9, <1>10, <1>11, <1>12, <1>13 DEF DesktopInv

LEMMA CallStep ==
  ASSUME DesktopInv, NEW id \in Calls, NEW r \in Requests[id], CallTool(id, r)
  PROVE  DesktopInv'
<1>1. /\ call = NoCall /\ call.pc = "none" /\ results[id] = "none"
      /\ UNCHANGED <<mode, screen, acted, replies>> /\ r.tool \in Tools
  BY LinkFacts, RequestsAssumption DEF CallTool, Unlocked, Tools
<1>2. sent[id] = 0 /\ replies[id] = NoReply /\ id \notin acted
  BY <1>1 DEF DesktopInv, CallInv
<1> DEFINE valid == r.authorized /\ ArgumentsValid(r.tool, r.args)
           unready == link.closed \/ link.owner = "done" \/ ~Verified
<1>3. CASE ~valid \/ unready
  <2>1. /\ UNCHANGED <<call, child, sent>>
        /\ \/ results' = [results EXCEPT ![id] = "rejected"]
           \/ results' = [results EXCEPT ![id] = "transport_error"]
        /\ \/ link' = link
           \/ /\ link' = [link EXCEPT !.owner = "none", !.session = FALSE, !.verified = 0]
              /\ link.owner = "done"
    <3>1. CASE ~valid
      BY <3>1 DEF CallTool, Close
    <3>2. CASE valid /\ unready
      BY <3>2 DEF CallTool, Close
    <3> QED
      BY <1>3, <3>1, <3>2
  <2>2. /\ link' \in LinkTypes /\ link'.gen = link.gen
        /\ link'.session => link.session
        /\ link' = link \/ (~link'.session /\ link'.owner = "none" /\ link.owner = "done")
    <3>1. CASE link' = link
      BY <3>1, LinkFacts
    <3>2. CASE /\ link' = [link EXCEPT !.owner = "none", !.session = FALSE, !.verified = 0]
               /\ link.owner = "done"
      BY <3>2, LinkFacts DEF LinkTypes
    <3> QED
      BY <2>1, <3>1, <3>2
  <2>3. /\ results' \in [Calls -> Results]
        /\ results'[id] \in {"rejected", "transport_error"}
        /\ \A c \in Calls : c # id => results'[c] = results[c]
    BY <2>1, LinkFacts DEF Results
  <2>4. ChildInv'
    <3>1. link' = link \/ \A g \in Gens : ~child[g].alive
      BY <2>1 DEF DesktopInv, ChildInv
    <3> QED
      BY <1>1, <2>1, <2>2, <3>1 DEF DesktopInv, ChildInv
  <2>5. \A c \in Calls :
            \/ results'[c] = results[c]
            \/ /\ results'[c] # "none"
               /\ sent[c] # 0 /\ replies[c].text = "none" => results'[c] = "unknown_outcome"
               /\ results'[c] = "success" => replies[c].text \in {"ok", "read"}
               /\ results'[c] \in {"rejected", "transport_error", "action_error"} =>
                    c \notin acted
    BY <1>2, <2>3
  <2> QED
    BY <1>1, <2>1, <2>2, <2>3, <2>4, <2>5, LinkFacts, LinkStep
<1>4. CASE valid /\ ~unready
  <2>0. PICK g \in Gens : g = link.gen
    BY <1>4, LinkFacts DEF Verified
  <2> DEFINE new == [id |-> id, tool |-> r.tool, pc |-> "guard", target |-> child[g].listed,
                     input |-> FALSE, ready |-> FALSE, allowed |-> FALSE, todo |-> <<>>,
                     attempts |-> 0, failed |-> FALSE, stop |-> FALSE, late |-> 0, away |-> 0]
  <2>1. /\ call' = [pc |-> "sent", id |-> id, tool |-> r.tool]
        /\ sent' = [sent EXCEPT ![id] = g]
        /\ UNCHANGED <<link, results>>
        /\ IF child[g].alive
           THEN child[g].job.pc = "idle" /\ child' = [child EXCEPT ![g].job = new]
           ELSE child' = child
    BY <1>4, <2>0 DEF CallTool, Begin
  <2>2. g \in Gens /\ g # 0 /\ link.session /\ child[g] \in Children
    BY <1>4, <2>0, LinkFacts DEF Verified
  <2>3. /\ new \in Jobs /\ new.id = id /\ new.tool = r.tool /\ new.pc = "guard"
        /\ new.target = child[g].listed /\ new.todo = <<>> /\ new.attempts = 0
        /\ new.stop = FALSE /\ new.late = 0 /\ new.away = 0
    BY <1>1, <2>2 DEF Jobs, Children, JobSteps, Unguarded
  <2> HIDE DEF new
  <2>4. /\ child' \in [Gens -> Children] /\ child'[g].alive = child[g].alive
        /\ child'[g].listed = child[g].listed
        /\ child[g].alive => child'[g].job = new /\ child[g].job.pc = "idle"
        /\ ~child[g].alive => child'[g] = child[g]
        /\ \A h \in Gens : h # g => child'[h] = child[h]
    BY <2>1, <2>2, <2>3, LinkFacts DEF Children
  <2>5. \A h \in Gens : Working(h)' => h = g /\ child[g].alive /\ child'[g].job = new
    BY <2>0, <2>2, <2>4 DEF DesktopInv, ChildInv, Working
  <2>6. /\ sent' \in [Calls -> Gens \cup {0}] /\ sent'[id] = g
        /\ \A c \in Calls : c # id => sent'[c] = sent[c]
        /\ \A c \in Calls : sent[c] \in Nat /\ sent[c] <= g
        /\ g \in Nat
    BY <2>0, <2>1, <2>2, GenAssumption DEF DesktopInv, TypeOK, CallInv
  <2>7. /\ call'.pc = "sent" /\ call'.id = id /\ call'.tool = r.tool
        /\ call' \in [pc : {"sent"}, id : Calls, tool : Tools]
    BY <1>1, <2>1
  <2>8. TypeOK'
    BY <1>1, <2>1, <2>4, <2>6, <2>7 DEF DesktopInv, TypeOK
  <2>9. ChildInv'
    BY <2>0, <2>1, <2>2, <2>4, <2>7 DEF DesktopInv, ChildInv
  <2>10. CallInv'
    <3>1. \A c \in Calls : sent[c] # 0 => results[c] # "none"
      BY <1>1 DEF DesktopInv, CallInv
    <3>2. \A c \in Calls :
            /\ sent'[c] # 0 /\ results[c] = "none" => c = id
            /\ sent'[c] = 0 => replies[c] = NoReply /\ c \notin acted
            /\ sent'[c] # 0 /\ replies[c].text = "none" => results[c] \in {"none", "unknown_outcome"}
            /\ sent'[c] <= g
      BY <1>1, <2>0, <2>2, <2>6, <3>1 DEF DesktopInv, CallInv
    <3>3. \A h \in Gens : Working(h)' =>
            /\ child'[h].job.id = id /\ child'[h].job.tool = r.tool /\ h = g
      BY <2>3, <2>5
    <3> QED
      BY <1>1, <1>2, <2>0, <2>1, <2>6, <2>7, <3>2, <3>3 DEF CallInv
  <2>11. AnswerInv'
    <3>1. Counted(new)'
      BY <1>1, <1>2, <2>3 DEF Counted, new
    <3>2. replies[id].text = "none"
      BY <1>2 DEF NoReply
    <3> QED
      BY <1>1, <1>2, <2>3, <2>5, <2>7, <3>2 DEF AnswerInv, Counted
  <2>12. HeldInv'
    <3>1. Untouched(g)' => Untouched(g)
      BY <1>2, <2>6, LinkFacts DEF Untouched
    <3>2. NoKeyHeld' <=> NoKeyHeld
      BY <1>1 DEF NoKeyHeld
    <3>3. ~ \A c \in Calls : sent'[c] = 0
      BY <2>2, <2>6
    <3>4. \A h \in Gens : child'[h].alive => h = g /\ child[g].alive
      BY <2>0, <2>4 DEF DesktopInv, ChildInv
    <3>5. child[g].alive /\ Untouched(g) => NoKeyHeld
      BY <2>2, <2>4 DEF DesktopInv, HeldInv
    <3>6. child'[g].alive /\ Untouched(g)' => NoKeyHeld'
      BY <2>4, <3>1, <3>2, <3>5
    <3>7. child'[g].alive => child'[g].job.pc = "guard"
      BY <2>3, <2>4
    <3>8. Formed(<<>>, r.tool)
      BY DEF Formed, Balanced
    <3> QED
      BY <2>3, <2>5, <3>3, <3>4, <3>6, <3>7, <3>8 DEF HeldInv, Released, Unguarded
  <2>13. StopInv'
    <3>1. \A h \in Gens : child'[h].listed = 2 => screen.owner = 2
      BY <2>4 DEF DesktopInv, StopInv
    <3> QED
      BY <1>1, <2>2, <2>3, <2>4, <2>5, <3>1 DEF StopInv, Heeds, Gone
  <2>14. AnswerHonest'
    BY <1>1, <2>1 DEF DesktopInv, AnswerHonest
  <2> QED
    BY <2>8, <2>9, <2>10, <2>11, <2>12, <2>13, <2>14 DEF DesktopInv
<1> QED
  BY <1>3, <1>4

-----------------------------------------------------------------------------
LEMMA DesktopInit ==
  ASSUME Init
  PROVE  DesktopInv
<1>1. /\ child = [g \in Gens |-> NoChild] /\ acted = {} /\ link = NoLink /\ call = NoCall
      /\ replies = [c \in Calls |-> NoReply] /\ results = [c \in Calls |-> "none"]
      /\ sent = [c \in Calls |-> 0] /\ mode \in {"safe", "full"}
      /\ screen = [estop |-> FALSE, front |-> "app", owner |-> 1, quiet |-> TRUE, held |-> {}]
  BY DEF Init, ServerInit
<1>2. NoChild \in Children /\ ~NoChild.alive /\ NoChild.listed = 0 /\ NoChild.job = Idle
  BY DEF NoChild, Children, Idle
<1>3. /\ screen \in Screens /\ screen.held = {}
  BY <1>1 DEF Screens
<1>4. NoReply \in [text : Texts, decision : Decisions] /\ NoReply.text = "none"
  BY DEF NoReply, Texts, Decisions
<1>5. /\ link \in LinkTypes /\ link.owner = "none" /\ link.session = FALSE /\ link.gen = 0
  BY <1>1 DEF NoLink, LinkTypes
<1>6. call.pc = "none"
  BY <1>1 DEF NoCall
<1>7. \A g \in Gens : ~child[g].alive /\ ~Working(g) /\ child[g] = NoChild
  BY <1>1, <1>2 DEF Working
<1>8. TypeOK
  <2>1. child \in [Gens -> Children] /\ replies \in [Calls -> [text : Texts, decision : Decisions]]
        /\ results \in [Calls -> Results] /\ sent \in [Calls -> Gens \cup {0}]
    BY <1>1, <1>2, <1>4 DEF Results
  <2> QED
    BY <1>1, <1>3, <1>5, <2>1 DEF TypeOK, LinkTypes
<1>9. ChildInv /\ CallInv /\ AnswerInv
  BY <1>1, <1>4, <1>5, <1>6, <1>7 DEF ChildInv, CallInv, AnswerInv
<1>10. HeldInv /\ StopInv
  BY <1>2, <1>3, <1>7 DEF HeldInv, StopInv, NoKeyHeld
<1>11. AnswerHonest
  BY <1>1, <1>4 DEF AnswerHonest, RejectedTexts, ErrorTexts
<1> QED
  BY <1>8, <1>9, <1>10, <1>11 DEF DesktopInv

(* A step that changes nothing keeps the invariant.                        *)
LEMMA DesktopStutter ==
  ASSUME DesktopInv, UNCHANGED vars
  PROVE  DesktopInv'
<1>1. UNCHANGED <<mode, screen, child, acted, replies, link, call, results, sent>>
  BY DEF vars, serverVars, linkVars
<1>2. ChildInv'
  BY <1>1 DEF DesktopInv, ChildInv
<1> QED
  BY <1>1, <1>2, LinkFacts, LinkStep

LEMMA DesktopStep == DesktopInv /\ [Next]_vars => DesktopInv'
<1> SUFFICES ASSUME DesktopInv, [Next]_vars PROVE DesktopInv'
  OBVIOUS
<1>1. CASE Next
  <2>1. CASE \E b \in {"known", "foreign"} : Open(b)
    BY <2>1, OpenStep
  <2>2. CASE \E d \in {"none", "schema", "missing"} : Discover(d)
    BY <2>2, DiscoverStep
  <2>3. CASE \E id \in Calls : \E r \in Requests[id] : CallTool(id, r)
    BY <2>3, CallStep
  <2>4. CASE \E garbled \in BOOLEAN : Receive(garbled)
    BY <2>4, ReceiveStep
  <2>5. CASE Timeout
    BY <2>5, TimeoutStep
  <2>6. CASE Dropped \/ OwnerEnds \/ ChildExit \/ InspectFails \/ Reopen \/ CloseLink
    BY <2>6, CleanupStep
  <2>7. CASE Serve
    BY <2>7, ServerInvariant DEF Serve
  <2>8. CASE World
    BY <2>8, SurroundingsInvariant DEF World
  <2> QED
    BY <1>1, <2>1, <2>2, <2>3, <2>4, <2>5, <2>6, <2>7, <2>8 DEF Next
<1>2. CASE UNCHANGED vars
  BY <1>2, DesktopStutter
<1> QED
  BY <1>1, <1>2

(* DesktopInv holds in every reachable state, for any calls and            *)
(* generations.                                                            *)
THEOREM DesktopSafety == Spec => []DesktopInv
BY DesktopInit, DesktopStep, PTL DEF Spec

LEMMA StopInvMeans == DesktopInv => StopsInTime
BY DEF DesktopInv, StopInv, Heeds, StopsInTime

(* Once there is a reason to stop, at most the one step already past its   *)
(* checks still reaches the desktop.                                       *)
THEOREM StopsInTimeAlways == Spec => []StopsInTime
BY StopInvMeans, DesktopSafety, PTL

(* Every status the client reports is true of what happened on the desktop. *)
THEOREM AnswersAreHonest == Spec => []AnswerHonest
<1>1. DesktopInv => AnswerHonest
  BY DEF DesktopInv
<1> QED
  BY <1>1, DesktopSafety, PTL

LEMMA LeftAloneMeans == DesktopInv => DesktopLeftAlone
<1>1. DesktopInv => NothingHeld
  <2> SUFFICES ASSUME DesktopInv, NEW g \in Gens, child[g].alive, child[g].job.pc = "idle",
                      \A h \in Gens : h < g => ~\E c \in Calls : sent[c] = h
               PROVE  screen.held \cap Keys = {}
    BY DEF NothingHeld
  <2>1. Untouched(g)
    BY DEF Untouched
  <2> QED
    BY <2>1 DEF DesktopInv, HeldInv, NoKeyHeld
<1>2. DesktopInv => OneHand
  <2> SUFFICES ASSUME DesktopInv PROVE OneHand
    OBVIOUS
  <2> DEFINE living == {g \in Gens : child[g].alive}
  <2>1. living \subseteq {link.gen}
    BY DEF DesktopInv, ChildInv
  <2>2. Cardinality(living) <= 1
    <3>1. IsFiniteSet({link.gen}) /\ Cardinality({link.gen}) = 1
      BY FS_Singleton
    <3>2. Cardinality(living) <= Cardinality({link.gen})
      BY <2>1, <3>1, FS_Subset
    <3> QED
      BY <3>1, <3>2
  <2>3. ASSUME NEW g \in Gens, Working(g), NEW c \in Calls, sent[c] # 0, results[c] = "none"
        PROVE  child[g].job.id = c
    <3>1. call.pc = "sent" /\ call.id = c
      BY <2>3 DEF DesktopInv, CallInv
    <3>2. link.session
      BY <3>1 DEF DesktopInv, ChildInv
    <3> QED
      BY <2>3, <3>1, <3>2 DEF DesktopInv, CallInv
  <2> QED
    BY <2>2, <2>3 DEF OneHand
<1> QED
  BY <1>1, <1>2 DEF DesktopLeftAlone

(* No key stays pressed when a call is over, and one child at most works   *)
(* the desktop.                                                            *)
THEOREM DesktopIsLeftAlone == Spec => []DesktopLeftAlone
BY LeftAloneMeans, DesktopSafety, PTL

-----------------------------------------------------------------------------
(* The refs of a session (SessionRefs).                                    *)

(* Every set of numbers that is not empty has a least one.                 *)
LEMMA LeastNumber ==
  ASSUME NEW T \in SUBSET Nat, T # {}
  PROVE  \E n \in T : \A m \in T : n <= m
<1>1. \E n \in T : \A m \in T : <<m, n>> \notin OpToRel(<, Nat)
  BY NatLessThanWellFounded, WFMin, Zenon
<1>2. PICK n \in T : \A m \in T : <<m, n>> \notin OpToRel(<, Nat)
  BY <1>1
<1>3. ASSUME NEW m \in T PROVE n <= m
  <2>1. <<m, n>> \notin OpToRel(<, Nat)
    BY <1>2
  <2>2. ~(m < n)
    BY <2>1 DEF OpToRel
  <2> QED
    BY <2>2
<1> QED
  BY <1>3

(* What holds at the start and after each further step holds at the end.   *)
LEMMA StaysIn ==
  ASSUME NEW S, NEW N \in Nat, NEW f, f[0] \in S,
         \A n \in 1..N : f[n - 1] \in S => f[n] \in S
  PROVE  \A n \in 0..N : f[n] \in S
<1> DEFINE bad == {n \in 0..N : f[n] \notin S}
<1>1. SUFFICES ASSUME bad # {} PROVE FALSE
  OBVIOUS
<1>2. PICK n \in bad : \A m \in bad : n <= m
  <2>1. bad \in SUBSET Nat
    OBVIOUS
  <2> QED
    BY <1>1, <2>1, LeastNumber
<1>3. n # 0 /\ n \in 1..N
  OBVIOUS
<1>4. n - 1 \in 0..N /\ n - 1 \notin bad
  BY <1>2, <1>3
<1> QED
  BY <1>3, <1>4

(* A walk in steps that stay in a set exists.                              *)
IsWalk(f, base, step, N) == f[0] = base /\ \A n \in 1..N : f[n] = step[n][f[n - 1]]

LEMMA WalkExists ==
  ASSUME NEW S, NEW N \in Nat, NEW base \in S, NEW step \in [1..N -> [S -> S]]
  PROVE  \E f \in [0..N -> S] : IsWalk(f, base, step, N)
<1> USE DEF IsWalk
<1> DEFINE Walk(f, k) == IsWalk(f, base, step, k)
           none == {k \in 0..N : ~\E f \in [0..k -> S] : Walk(f, k)}
<1>1. SUFFICES ASSUME none # {} PROVE FALSE
  <2>1. N \in 0..N
    OBVIOUS
  <2> QED
    BY <2>1
<1>2. PICK k \in none : \A m \in none : k <= m
  <2>1. none \in SUBSET Nat
    OBVIOUS
  <2> HIDE DEF none
  <2> QED
    BY <1>1, <2>1, LeastNumber
<1>3. k # 0
  <2>1. [n \in 0..0 |-> base] \in [0..0 -> S] /\ Walk([n \in 0..0 |-> base], 0)
    OBVIOUS
  <2> QED
    BY <2>1
<1>4. k - 1 \in 0..N /\ k - 1 \notin none /\ k \in 1..N
  BY <1>2, <1>3
<1>5. PICK f \in [0..k - 1 -> S] : Walk(f, k - 1)
  BY <1>4
<1> DEFINE g == [n \in 0..k |-> IF n = k THEN step[k][f[k - 1]] ELSE f[n]]
<1>6. f[k - 1] \in S /\ step[k] \in [S -> S] /\ step[k][f[k - 1]] \in S
  BY <1>4, <1>5
<1>7. g \in [0..k -> S]
  BY <1>4, <1>6
<1>8. Walk(g, k)
  <2>1. g[0] = base
    BY <1>4, <1>5
  <2>2. ASSUME NEW n \in 1..k PROVE g[n] = step[n][g[n - 1]]
    <3>1. n - 1 \in 0..k - 1 /\ g[n - 1] = f[n - 1]
      BY <1>4
    <3>2. CASE n = k
      BY <3>1, <3>2
    <3>3. CASE n # k
      <4>1. n \in 1..k - 1 /\ g[n] = f[n]
        BY <3>3, <1>4
      <4> QED
        BY <3>1, <4>1, <1>5
    <3> QED
      BY <3>2, <3>3
  <2> QED
    BY <2>1, <2>2
<1> QED
  BY <1>7, <1>8

-----------------------------------------------------------------------------
(* A partial function with one more value.                                 *)
Partial(A, B) == UNION {[D -> B] : D \in SUBSET A}

LEMMA PartialType ==
  ASSUME NEW A, NEW B, NEW f \in Partial(A, B)
  PROVE  /\ DOMAIN f \subseteq A /\ f \in [DOMAIN f -> B]
         /\ \A x \in DOMAIN f : f[x] \in B
BY DEF Partial

LEMMA PartialIntro ==
  ASSUME NEW A, NEW B, NEW D \in SUBSET A, NEW f \in [D -> B]
  PROVE  f \in Partial(A, B)
BY DEF Partial

LEMMA EmptyPartial == \A A, B : Empty \in Partial(A, B) /\ DOMAIN Empty = {}
<1> SUFFICES ASSUME NEW A, NEW B PROVE Empty \in Partial(A, B) /\ DOMAIN Empty = {}
  OBVIOUS
<1>1. Empty \in [{} -> B] /\ {} \in SUBSET A
  BY DEF Empty
<1> QED
  BY <1>1, PartialIntro DEF Empty

LEMMA WithPartial ==
  ASSUME NEW A, NEW B, NEW f \in Partial(A, B), NEW x \in A, NEW v \in B
  PROVE  With(f, x, v) \in Partial(A, B)
<1>1. DOMAIN f \cup {x} \in SUBSET A
  BY PartialType
<1>2. With(f, x, v) \in [DOMAIN f \cup {x} -> B]
  BY PartialType DEF With
<1> QED
  BY <1>1, <1>2, PartialIntro

LEMMA WithoutOne ==
  ASSUME NEW A, NEW B, NEW f \in Partial(A, B), NEW x
  PROVE  /\ Without(f, x) \in Partial(A, B) /\ DOMAIN Without(f, x) = DOMAIN f \ {x}
         /\ \A y \in DOMAIN f \ {x} : Without(f, x)[y] = f[y]
<1>1. DOMAIN f \ {x} \in SUBSET A
  BY PartialType
<1>2. Without(f, x) \in [DOMAIN f \ {x} -> B]
  BY PartialType DEF Without
<1> QED
  BY <1>1, <1>2, PartialIntro DEF Without

-----------------------------------------------------------------------------
(* A node of a tree shows what one control is called and nothing secret.   *)
Sights ==
    {c \in ControlRecords :
        /\ c.uid \in DOMAIN Universe /\ c.native = Universe[c.uid].native
        /\ c.role = Universe[c.uid].role /\ c.name = Universe[c.uid].name
        /\ c.value = ValueOf(Universe[c.uid])}
Sessions ==
    [counter : Nat, node : Partial(Nat, Sights), native : Partial(Nat, STRING),
     owner : Partial(STRING, Nat), scope : Partial(Nat, Scopes)]

(* A ref belongs to at most one runtime id and an id to one ref, and the   *)
(* node kept for a ref is the control of its id.                           *)
OwnedOnce(s) ==
    /\ DOMAIN s.native = DOMAIN s.node /\ DOMAIN s.scope = DOMAIN s.node
    /\ \A r \in DOMAIN s.node : r \in 1..s.counter
    /\ \A n \in DOMAIN s.owner : n # Blank /\ s.owner[n] \in DOMAIN s.node /\ s.native[s.owner[n]] = n
    /\ \A r \in DOMAIN s.node : s.native[r] # Blank =>
         s.native[r] \in DOMAIN s.owner /\ s.owner[s.native[r]] = r
    /\ \A r \in DOMAIN s.node : s.native[r] = s.node[r].native
(* each node is of these, or as it was                                     *)
NodesFrom(s, old, nodes) ==
    /\ DOMAIN old.node \subseteq DOMAIN s.node
    /\ \A r \in DOMAIN s.node :
         s.node[r] \in nodes \/ (r \in DOMAIN old.node /\ s.node[r] = old.node[r])

LEMMA IngestOneKeeps ==
  ASSUME NEW s \in Sessions, OwnedOnce(s), NEW c \in Sights, NEW scope \in Scopes,
         NEW old, NEW nodes, c \in nodes, NodesFrom(s, old, nodes)
  PROVE  /\ IngestOne(s, c, scope) \in Sessions /\ OwnedOnce(IngestOne(s, c, scope))
         /\ NodesFrom(IngestOne(s, c, scope), old, nodes)
<1> DEFINE known == c.native # Blank /\ c.native \in DOMAIN s.owner
           ref == IF known THEN s.owner[c.native] ELSE s.counter + 1
<1>0. PICK t : t = IngestOne(s, c, scope)
  OBVIOUS
<1>1. /\ s.counter \in Nat /\ s.node \in Partial(Nat, Sights) /\ s.native \in Partial(Nat, STRING)
      /\ s.owner \in Partial(STRING, Nat) /\ s.scope \in Partial(Nat, Scopes)
      /\ c.native \in STRING
  BY DEF Sessions, Sights, ControlRecords
<1>2. ref \in Nat
  <2>1. known => s.owner[c.native] \in Nat
    BY <1>1, PartialType
  <2>2. s.counter + 1 \in Nat
    BY <1>1
  <2> HIDE DEF known
  <2> QED
    BY <2>1, <2>2
<1>3. t = [counter |-> t.counter, node |-> t.node, native |-> t.native,
           owner |-> t.owner, scope |-> t.scope]
  BY <1>0 DEF IngestOne
<1>31. t.node = With(s.node, ref, c)
  BY <1>0 DEF IngestOne
<1>32. t.native = With(s.native, ref, c.native)
  BY <1>0 DEF IngestOne
<1>33. /\ c.native = Blank => t.owner = s.owner
       /\ c.native # Blank => t.owner = With(s.owner, c.native, ref)
  BY <1>0 DEF IngestOne
<1>34. /\ known => t.counter = s.counter /\ t.scope = s.scope
       /\ ~known => t.counter = s.counter + 1 /\ t.scope = With(s.scope, ref, scope)
  BY <1>0 DEF IngestOne
<1>8. known => /\ ref = s.owner[c.native] /\ ref \in DOMAIN s.node
               /\ s.native[ref] = c.native
  BY DEF OwnedOnce
<1>9. ~known => ref = s.counter + 1 /\ ref \notin DOMAIN s.node
                /\ (c.native = Blank \/ c.native \notin DOMAIN s.owner)
  <2>1. s.counter + 1 \notin 1..s.counter
    BY <1>1
  <2> QED
    BY <2>1 DEF OwnedOnce
<1> HIDE DEF ref
<1>4. t \in Sessions
  <2>1. t.counter \in Nat
    BY <1>1, <1>34
  <2>2. t.node \in Partial(Nat, Sights)
    BY <1>1, <1>2, <1>31, <1>32, <1>33, <1>34, WithPartial
  <2>3. t.native \in Partial(Nat, STRING)
    BY <1>1, <1>2, <1>31, <1>32, <1>33, <1>34, WithPartial
  <2>4. t.owner \in Partial(STRING, Nat)
    BY <1>1, <1>2, <1>31, <1>32, <1>33, <1>34, WithPartial
  <2>5. t.scope \in Partial(Nat, Scopes)
    BY <1>1, <1>2, <1>31, <1>32, <1>33, <1>34, WithPartial
  <2> QED
    BY <1>3, <2>1, <2>2, <2>3, <2>4, <2>5 DEF Sessions
<1>5. /\ DOMAIN t.node = DOMAIN s.node \cup {ref} /\ t.node[ref] = c
      /\ \A r \in DOMAIN s.node : r # ref => t.node[r] = s.node[r]
  BY <1>31 DEF With
<1>6. /\ DOMAIN t.native = DOMAIN s.native \cup {ref} /\ t.native[ref] = c.native
      /\ \A r \in DOMAIN s.native : r # ref => t.native[r] = s.native[r]
  BY <1>32 DEF With
<1>7. c.native # Blank =>
        /\ DOMAIN t.owner = DOMAIN s.owner \cup {c.native} /\ t.owner[c.native] = ref
        /\ \A n \in DOMAIN s.owner : n # c.native => t.owner[n] = s.owner[n]
  BY <1>33 DEF With
<1>10. OwnedOnce(t)
  <2>1. DOMAIN t.native = DOMAIN t.node /\ DOMAIN t.scope = DOMAIN t.node
    <3>1. CASE known
      BY <3>1, <1>34, <1>5, <1>6, <1>8 DEF OwnedOnce
    <3>2. CASE ~known
      <4>1. DOMAIN t.scope = DOMAIN s.scope \cup {ref}
        BY <3>2, <1>34 DEF With
      <4> QED
        BY <4>1, <1>5, <1>6 DEF OwnedOnce
    <3> QED
      BY <3>1, <3>2
  <2>2. ASSUME NEW r \in DOMAIN t.node PROVE r \in 1..t.counter
    <3>1. s.counter <= t.counter /\ t.counter \in Nat
      BY <1>1, <1>34
    <3>2. ref \in 1..t.counter
      <4>1. CASE known
        BY <4>1, <1>8, <1>34 DEF OwnedOnce
      <4>2. CASE ~known
        BY <4>2, <1>1, <1>9, <1>34
      <4> QED
        BY <4>1, <4>2
    <3>3. \A q \in DOMAIN s.node : q \in 1..t.counter
      BY <3>1, <1>1 DEF OwnedOnce
    <3> QED
      BY <2>2, <3>2, <3>3, <1>5
  <2>3. ASSUME NEW n \in DOMAIN t.owner
        PROVE  n # Blank /\ t.owner[n] \in DOMAIN t.node /\ t.native[t.owner[n]] = n
    <3>1. CASE c.native # Blank /\ n = c.native
      BY <3>1, <1>5, <1>6, <1>7
    <3>2. CASE ~(c.native # Blank /\ n = c.native)
      <4>1. n \in DOMAIN s.owner /\ t.owner[n] = s.owner[n]
        BY <3>2, <2>3, <1>33, <1>7
      <4>2. n # Blank /\ s.owner[n] \in DOMAIN s.node /\ s.native[s.owner[n]] = n
        BY <4>1 DEF OwnedOnce
      <4>3. s.owner[n] # ref
        BY <3>2, <4>2, <1>8, <1>9
      <4> QED
        BY <4>1, <4>2, <4>3, <1>5, <1>6 DEF OwnedOnce
    <3> QED
      BY <3>1, <3>2
  <2>4. ASSUME NEW r \in DOMAIN t.node, t.native[r] # Blank
        PROVE  t.native[r] \in DOMAIN t.owner /\ t.owner[t.native[r]] = r
    <3>1. CASE r = ref
      BY <3>1, <2>4, <1>6, <1>7
    <3>2. CASE r # ref
      <4>1. r \in DOMAIN s.node /\ t.native[r] = s.native[r]
        BY <3>2, <1>5, <1>6 DEF OwnedOnce
      <4>2. s.native[r] \in DOMAIN s.owner /\ s.owner[s.native[r]] = r
        BY <4>1, <2>4 DEF OwnedOnce
      <4>3. s.native[r] # c.native
        BY <4>2, <4>1, <2>4, <3>2, <1>8
      <4> QED
        BY <4>1, <4>2, <4>3, <1>33, <1>7
    <3> QED
      BY <3>1, <3>2
  <2>5. ASSUME NEW r \in DOMAIN t.node PROVE t.native[r] = t.node[r].native
    BY <1>5, <1>6 DEF OwnedOnce
  <2> QED
    BY <2>1, <2>2, <2>3, <2>4, <2>5 DEF OwnedOnce
<1>11. NodesFrom(t, old, nodes)
  BY <1>5 DEF NodesFrom
<1> QED
  BY <1>0, <1>4, <1>10, <1>11

(* What a snapshot leaves of the refs.                                     *)
LEMMA IngestKeeps ==
  ASSUME NEW s \in Sessions, OwnedOnce(s), NEW nodes \in Seq(Sights), NEW scope \in Scopes
  PROVE  /\ Ingest(s, nodes, scope) \in Sessions /\ OwnedOnce(Ingest(s, nodes, scope))
         /\ NodesFrom(Ingest(s, nodes, scope), s, ToSet(nodes))
<1> DEFINE N == Len(nodes)
           S == {t \in Sessions : OwnedOnce(t) /\ NodesFrom(t, s, ToSet(nodes))}
           step == [n \in 1..N |-> [t \in S |-> IngestOne(t, nodes[n], scope)]]
           Walks(f) == f = [n \in 0..N |-> IF n = 0 THEN s
                                           ELSE IngestOne(f[n - 1], nodes[n], scope)]
           after == CHOOSE f : Walks(f)
<1>1. N \in Nat /\ \A n \in 1..N : nodes[n] \in Sights /\ nodes[n] \in ToSet(nodes)
  BY DEF ToSet
<1>2. s \in S
  BY DEF NodesFrom
<1>3. ASSUME NEW n \in 1..N, NEW t \in S PROVE IngestOne(t, nodes[n], scope) \in S
  BY <1>1, IngestOneKeeps
<1>4. step \in [1..N -> [S -> S]]
  BY <1>3
<1> HIDE DEF S, N, step
<1>5. PICK f \in [0..N -> S] : IsWalk(f, s, step, N)
  <2>1. N \in Nat
    BY <1>1
  <2> QED
    BY <1>2, <1>4, <2>1, WalkExists
<1>6. Walks(f)
  <2>1. ASSUME NEW n \in 0..N
        PROVE  f[n] = IF n = 0 THEN s ELSE IngestOne(f[n - 1], nodes[n], scope)
    <3>1. CASE n = 0
      BY <3>1, <1>5 DEF IsWalk
    <3>2. CASE n # 0
      <4>1. n \in 1..N /\ n - 1 \in 0..N
        BY <3>2, <1>1
      <4>2. f[n - 1] \in S
        BY <4>1
      <4> QED
        BY <3>2, <4>1, <4>2, <1>5 DEF step, IsWalk
    <3> QED
      BY <3>1, <3>2
  <2> QED
    BY <2>1, <1>5
<1>7. Walks(after)
  BY <1>6
<1> HIDE DEF after
<1>8. after[0] = s /\ \A n \in 1..N : after[n] = IngestOne(after[n - 1], nodes[n], scope)
  <2>1. 0 \in 0..N /\ \A n \in 1..N : n \in 0..N /\ n # 0
    BY <1>1
  <2> QED
    BY <2>1, <1>7
<1>9. after[N] \in S
  <2>1. \A n \in 1..N : after[n - 1] \in S => after[n] \in S
    BY <1>3, <1>8
  <2>2. after[0] \in S
    BY <1>2, <1>8
  <2>3. \A n \in 0..N : after[n] \in S
    BY <2>1, <2>2, <1>1, StaysIn
  <2> QED
    BY <2>3, <1>1
<1>10. Ingest(s, nodes, scope) = after[N]
  BY DEF Ingest, after, N
<1> QED
  BY <1>9, <1>10 DEF S

(* A ref moves to another runtime id, which no other ref has.              *)
LEMMA RebindKeeps ==
  ASSUME NEW s \in Sessions, OwnedOnce(s), NEW ref \in DOMAIN s.node, s.native[ref] # Blank,
         NEW c \in Sights, c.native # Blank,
         c.native \in DOMAIN s.owner => s.owner[c.native] = ref
  PROVE  /\ Rebind(s, ref, c) \in Sessions /\ OwnedOnce(Rebind(s, ref, c))
         /\ Rebind(s, ref, c).node = [s.node EXCEPT ![ref] = c]
<1> DEFINE old == s.native[ref]
           freed == IF old # c.native /\ old \in DOMAIN s.owner /\ s.owner[old] = ref
                    THEN Without(s.owner, old) ELSE s.owner
<1>0. PICK t : t = Rebind(s, ref, c)
  OBVIOUS
<1>1. /\ s.counter \in Nat /\ s.node \in Partial(Nat, Sights) /\ s.native \in Partial(Nat, STRING)
      /\ s.owner \in Partial(STRING, Nat) /\ s.scope \in Partial(Nat, Scopes)
      /\ c.native \in STRING /\ ref \in Nat
      /\ s = [counter |-> s.counter, node |-> s.node, native |-> s.native,
              owner |-> s.owner, scope |-> s.scope]
  <2>1. s.node \in Partial(Nat, Sights)
    BY DEF Sessions
  <2>2. ref \in Nat
    BY <2>1, PartialType
  <2> QED
    BY <2>2 DEF Sessions, Sights, ControlRecords
<1>2. old \in DOMAIN s.owner /\ s.owner[old] = ref
  BY DEF OwnedOnce
<1>3. /\ t.counter = s.counter /\ t.scope = s.scope
      /\ t.node = [s.node EXCEPT ![ref] = c] /\ t.native = [s.native EXCEPT ![ref] = c.native]
      /\ t.owner = With(freed, c.native, ref)
      /\ t = [counter |-> t.counter, node |-> t.node, native |-> t.native,
              owner |-> t.owner, scope |-> t.scope]
  BY <1>0, <1>1 DEF Rebind
<1>4. /\ freed \in Partial(STRING, Nat) /\ DOMAIN freed \cup {c.native} = (DOMAIN s.owner \ {old}) \cup {c.native}
      /\ \A n \in DOMAIN s.owner \ {old} : freed[n] = s.owner[n]
  <2>1. CASE old = c.native
    BY <2>1, <1>1
  <2>2. CASE old # c.native
    <3>1. freed = Without(s.owner, old)
      BY <2>2, <1>2
    <3> HIDE DEF freed, old
    <3>2. freed \in Partial(STRING, Nat)
      BY <3>1, <1>1, WithoutOne
    <3>3. DOMAIN freed = DOMAIN s.owner \ {old} /\ \A n \in DOMAIN s.owner \ {old} : freed[n] = s.owner[n]
      BY <3>1, <1>1 DEF Without
    <3> QED
      BY <3>2, <3>3
  <2> QED
    BY <2>1, <2>2
<1> HIDE DEF freed
<1>5. /\ DOMAIN t.owner = (DOMAIN s.owner \ {old}) \cup {c.native} /\ t.owner[c.native] = ref
      /\ \A n \in DOMAIN s.owner \ {old} : n # c.native => t.owner[n] = s.owner[n]
  BY <1>3, <1>4 DEF With
<1>6. \A r \in DOMAIN s.node : /\ t.node[r] = IF r = ref THEN c ELSE s.node[r]
                               /\ t.native[r] = IF r = ref THEN c.native ELSE s.native[r]
  BY <1>3 DEF OwnedOnce
<1>7. t \in Sessions
  <2>1. t.node \in Partial(Nat, Sights)
    <3>1. DOMAIN s.node \in SUBSET Nat /\ t.node \in [DOMAIN s.node -> Sights]
      BY <1>1, <1>3, PartialType
    <3> QED
      BY <3>1, PartialIntro
  <2>2. t.native \in Partial(Nat, STRING)
    <3>2. DOMAIN s.native \in SUBSET Nat /\ s.native \in [DOMAIN s.native -> STRING]
      BY <1>1, PartialType
    <3>1. t.native \in [DOMAIN s.native -> STRING]
      BY <3>2, <1>1, <1>3
    <3> QED
      BY <3>1, <3>2, PartialIntro
  <2>3. t.owner \in Partial(STRING, Nat)
    BY <1>1, <1>3, <1>4, WithPartial
  <2> QED
    BY <1>1, <1>3, <2>1, <2>2, <2>3 DEF Sessions
<1>8. OwnedOnce(t)
  <2>1. DOMAIN t.node = DOMAIN s.node /\ DOMAIN t.native = DOMAIN t.node /\ DOMAIN t.scope = DOMAIN t.node
    BY <1>3 DEF OwnedOnce
  <2>2. \A r \in DOMAIN t.node : r \in 1..t.counter
    BY <2>1, <1>3 DEF OwnedOnce
  <2>3. ASSUME NEW n \in DOMAIN t.owner
        PROVE  n # Blank /\ t.owner[n] \in DOMAIN t.node /\ t.native[t.owner[n]] = n
    <3>1. CASE n = c.native
      BY <3>1, <2>1, <1>5, <1>6
    <3>2. CASE n # c.native
      <4>1. n \in DOMAIN s.owner /\ n # old /\ t.owner[n] = s.owner[n]
        BY <3>2, <2>3, <1>5
      <4>2. n # Blank /\ s.owner[n] \in DOMAIN s.node /\ s.native[s.owner[n]] = n
        BY <4>1 DEF OwnedOnce
      <4>3. s.owner[n] # ref
        BY <4>1, <4>2
      <4> QED
        BY <4>1, <4>2, <4>3, <2>1, <1>6
    <3> QED
      BY <3>1, <3>2
  <2>4. ASSUME NEW r \in DOMAIN t.node, t.native[r] # Blank
        PROVE  t.native[r] \in DOMAIN t.owner /\ t.owner[t.native[r]] = r
    <3>1. CASE r = ref
      BY <3>1, <2>1, <1>5, <1>6
    <3>2. CASE r # ref
      <4>1. t.native[r] = s.native[r] /\ s.native[r] \in DOMAIN s.owner /\ s.owner[s.native[r]] = r
        BY <3>2, <2>1, <2>4, <1>6 DEF OwnedOnce
      <4>2. s.native[r] # old /\ s.native[r] # c.native
        BY <4>1, <3>2, <1>2
      <4> QED
        BY <4>1, <4>2, <1>5
    <3> QED
      BY <3>1, <3>2
  <2>5. \A r \in DOMAIN t.node : t.native[r] = t.node[r].native
    BY <2>1, <1>6 DEF OwnedOnce
  <2> QED
    BY <2>1, <2>2, <2>3, <2>4, <2>5 DEF OwnedOnce
<1> QED
  BY <1>0, <1>3, <1>7, <1>8

-----------------------------------------------------------------------------
(* What a walk of the tree lists are sights of controls.                   *)
Trees == [nodes : Seq(Sights), truncated : Nat, cut : SUBSET ControlRecords]

LEMMA ControlType ==
  /\ Len(Universe) \in Nat /\ DOMAIN Universe = 1..Len(Universe)
  /\ \A u \in DOMAIN Universe : Universe[u] \in ControlRecords /\ Universe[u].uid = u
BY UniverseAssumption

LEMMA ControlSeen ==
  ASSUME NEW u \in DOMAIN Universe, NEW c, c = [Universe[u] EXCEPT !.value = ValueOf(Universe[u])]
  PROVE  c \in Sights
<1>1. ValueOf(Universe[u]) \in Contents
  <2>1. Universe[u].value \in Contents
    BY ControlType DEF ControlRecords
  <2>2. ValueOf(Universe[u]) = "none" \/ ValueOf(Universe[u]) = Universe[u].value
    BY Zenon DEF ValueOf
  <2> QED
    BY <2>1, <2>2 DEF Contents
<1>2. c \in ControlRecords
  BY <1>1, ControlType DEF ControlRecords
<1> QED
  BY <1>1, <1>2, ControlType DEF Sights, ControlRecords

LEMMA PatternsMerged ==
  ASSUME NEW c \in Sights, NEW P \in SUBSET STRING
  PROVE  [c EXCEPT !.patterns = P] \in Sights
<1> DEFINE d == [c EXCEPT !.patterns = P]
<1>1. /\ d.uid = c.uid /\ d.native = c.native /\ d.role = c.role /\ d.name = c.name
      /\ d.value = c.value
  BY DEF Sights, ControlRecords
<1>2. d \in ControlRecords
  BY DEF Sights, ControlRecords
<1> HIDE DEF d
<1>3. d \in Sights
  BY <1>1, <1>2 DEF Sights
<1> QED
  BY <1>3 DEF d

LEMMA VisitKeeps ==
  ASSUME NEW tree \in Trees, NEW u \in DOMAIN Universe, NEW window, NEW types, NEW query
  PROVE  Visit(tree, Universe[u], window, types, query) \in Trees
<1> DEFINE c == Universe[u]
           merged == Merged(tree.nodes, c)
           one == [c EXCEPT !.value = ValueOf(c)]
<1>1. /\ tree.nodes \in Seq(Sights) /\ tree.truncated \in Nat /\ tree.cut \in SUBSET ControlRecords
      /\ c \in ControlRecords
  BY ControlType DEF Trees
<1>2. merged \in Seq(Sights)
  <2>1. ASSUME NEW i \in DOMAIN tree.nodes PROVE merged[i] \in Sights
    <3>1. tree.nodes[i] \in Sights /\ tree.nodes[i].patterns \cup c.patterns \in SUBSET STRING
      BY <1>1 DEF Sights, ControlRecords
    <3>2. [tree.nodes[i] EXCEPT !.patterns = @ \cup c.patterns] \in Sights
      BY <3>1, PatternsMerged
    <3> HIDE DEF c
    <3> QED
      BY <3>1, <3>2 DEF Merged
  <2>2. Len(tree.nodes) \in Nat /\ DOMAIN tree.nodes = 1..Len(tree.nodes)
    BY <1>1
  <2>3. merged \in [1..Len(tree.nodes) -> Sights]
    BY <2>1, <2>2 DEF Merged
  <2> HIDE DEF merged
  <2> QED
    BY <2>2, <2>3
<1>3. Append(tree.nodes, one) \in Seq(Sights)
  BY <1>1, ControlSeen
<1>4. /\ [tree EXCEPT !.nodes = merged] \in Trees
      /\ [tree EXCEPT !.nodes = Append(tree.nodes, one)] \in Trees
      /\ [tree EXCEPT !.truncated = @ + 1, !.cut = @ \cup {c}] \in Trees
  <2> HIDE DEF merged, one, c
  <2>1. tree = [nodes |-> tree.nodes, truncated |-> tree.truncated, cut |-> tree.cut]
    BY DEF Trees
  <2>2. [tree EXCEPT !.nodes = merged] \in Trees
    BY <2>1, <1>1, <1>2 DEF Trees
  <2>3. [tree EXCEPT !.nodes = Append(tree.nodes, one)] \in Trees
    BY <2>1, <1>1, <1>3 DEF Trees
  <2>4. [tree EXCEPT !.truncated = @ + 1, !.cut = @ \cup {c}] \in Trees
    <3>1. tree.truncated + 1 \in Nat /\ tree.cut \cup {c} \in SUBSET ControlRecords
      BY <1>1
    <3> QED
      BY <2>1, <3>1, <1>1 DEF Trees
  <2> QED
    BY <2>2, <2>3, <2>4
<1>5. \/ Visit(tree, c, window, types, query) = tree
      \/ Visit(tree, c, window, types, query) = [tree EXCEPT !.nodes = merged]
      \/ Visit(tree, c, window, types, query) = [tree EXCEPT !.nodes = Append(tree.nodes, one)]
      \/ Visit(tree, c, window, types, query) = [tree EXCEPT !.truncated = @ + 1, !.cut = @ \cup {c}]
  <2> DEFINE q == Qualifies(c, window, types, query)
             seen == \E i \in DOMAIN tree.nodes : Same(tree.nodes[i], c)
             short == Len(tree.nodes) < MaxNodes
  <2> HIDE DEF c
  <2>1. CASE ~q
    BY <2>1 DEF Visit
  <2>2. CASE q /\ seen
    BY <2>2 DEF Visit
  <2>3. CASE q /\ ~seen /\ short
    BY <2>3 DEF Visit
  <2>4. CASE q /\ ~seen /\ ~short
    BY <2>4 DEF Visit
  <2> HIDE DEF q, seen, merged, one, short
  <2> QED
    BY <2>1, <2>2, <2>3, <2>4
<1> HIDE DEF c, merged, one
<1> QED
  BY <1>4, <1>5 DEF c

LEMMA TreeKeeps ==
  ASSUME NEW on, NEW window, NEW types, NEW query
  PROVE  GetTree(on, window, types, query).nodes \in Seq(Sights)
<1> DEFINE N == Len(Universe)
           base == [nodes |-> <<>>, truncated |-> 0, cut |-> {}]
           More(t, n) == IF n \in First(on, MaxVisit)
                         THEN Visit(t, Universe[n], window, types, query) ELSE t
           step == [n \in 1..N |-> [t \in Trees |-> More(t, n)]]
           Walks(f) == f = [n \in 0..N |-> IF n = 0 THEN base
                                           ELSE IF n \in First(on, MaxVisit)
                                           THEN Visit(f[n - 1], Universe[n], window, types, query)
                                           ELSE f[n - 1]]
           tree == CHOOSE f : Walks(f)
<1>1. N \in Nat /\ DOMAIN Universe = 1..N
  BY ControlType
<1>2. base \in Trees
  BY DEF Trees
<1>3. ASSUME NEW n \in 1..N, NEW t \in Trees PROVE More(t, n) \in Trees
  BY <1>1, VisitKeeps
<1>4. step \in [1..N -> [Trees -> Trees]]
  <2> HIDE DEF More
  <2> QED
    BY <1>3
<1> HIDE DEF N, step, base
<1>5. PICK f \in [0..N -> Trees] : IsWalk(f, base, step, N)
  <2>1. N \in Nat
    BY <1>1
  <2> QED
    BY <1>2, <1>4, <2>1, WalkExists
<1>6. Walks(f)
  <2>1. ASSUME NEW n \in 0..N PROVE f[n] = IF n = 0 THEN base ELSE More(f[n - 1], n)
    <3>1. CASE n = 0
      BY <3>1, <1>5 DEF IsWalk
    <3>2. CASE n # 0
      <4>1. n \in 1..N /\ n - 1 \in 0..N
        BY <3>2, <1>1
      <4>2. f[n - 1] \in Trees
        BY <4>1
      <4> HIDE DEF More
      <4> QED
        BY <3>2, <4>1, <4>2, <1>5 DEF step, IsWalk
    <3> QED
      BY <3>1, <3>2
  <2> QED
    BY <2>1, <1>5
<1>7. Walks(tree)
  BY <1>6
<1> HIDE DEF tree
<1>8. tree[0] = base /\ \A n \in 1..N : tree[n] = More(tree[n - 1], n)
  <2>1. 0 \in 0..N /\ \A n \in 1..N : n \in 0..N /\ n # 0
    BY <1>1
  <2> QED
    BY <2>1, <1>7
<1>9. tree[N] \in Trees
  <2>1. \A n \in 1..N : tree[n - 1] \in Trees => tree[n] \in Trees
    BY <1>3, <1>8
  <2>2. tree[0] \in Trees
    BY <1>2, <1>8
  <2>3. \A n \in 0..N : tree[n] \in Trees
    BY <2>1, <2>2, <1>1, StaysIn
  <2> QED
    BY <2>3, <1>1
<1>10. GetTree(on, window, types, query) = tree[N]
  BY DEF GetTree, tree, N, base
<1> QED
  BY <1>9, <1>10 DEF Trees

-----------------------------------------------------------------------------
(* What was told of a ref is true of its node, the cache names controls by *)
(* their ids, and nothing was shown but plain values and titles that are   *)
(* not hidden. A ref is pressed as it was told when the objects that may   *)
(* have one runtime id are called the same.                                *)
IdsNotReused ==
    \A u, v \in DOMAIN Universe :
        Universe[u].native = Universe[v].native /\ Universe[u].native # Blank =>
            LabelOf(Universe[u]) = LabelOf(Universe[v])
ToldTrue ==
    /\ DOMAIN told = DOMAIN session.node
    /\ \A r \in DOMAIN told : told[r] = LabelOf(session.node[r])
Harmless == Plain \cup ({w.title : w \in Desktop} \ Titles)
RefInv ==
    /\ present \subseteq DOMAIN Universe
    /\ session \in Sessions /\ OwnedOnce(session)
    /\ ToldTrue
    /\ \A n \in DOMAIN cache : cache[n] \in DOMAIN Universe /\ Universe[cache[n]].native = n
    /\ shown \subseteq Harmless
    /\ IdsNotReused => PressesTheNamed

LEMMA CacheTrue ==
  ASSUME NEW tree, tree.nodes \in Seq(Sights)
  PROVE  \A n \in DOMAIN CacheOf(tree) :
            CacheOf(tree)[n] \in DOMAIN Universe /\ Universe[CacheOf(tree)[n]].native = n
<1> DEFINE named == {c \in ToSet(tree.nodes) : c.native # Blank}
<1> SUFFICES ASSUME NEW n \in DOMAIN CacheOf(tree)
             PROVE  CacheOf(tree)[n] \in DOMAIN Universe /\ Universe[CacheOf(tree)[n]].native = n
  OBVIOUS
<1>1. named \subseteq Sights
  BY DEF ToSet
<1>2. n \in {c.native : c \in named} /\ CacheOf(tree)[n] = (CHOOSE c \in named : c.native = n).uid
  BY DEF CacheOf
<1> DEFINE one == CHOOSE c \in named : c.native = n
<1> HIDE DEF named
<1>3. one \in named /\ one.native = n
  BY <1>2
<1> QED
  BY <1>1, <1>2, <1>3 DEF Sights

(* A window whose title is hidden shows none of its pixels.                *)
LEMMA HiddenTitle ==
  ASSUME NEW region \in Boxes, NEW w \in Listed(Desktop), w.title \in Titles,
         NEW p \in Pixels(Listed(Desktop), region, Titles),
         p[1] + region.x >= w.box.x, p[1] + region.x < Right(w.box),
         p[2] + region.y >= w.box.y, p[2] + region.y < Bottom(w.box)
  PROVE  FALSE
<1> DEFINE b == [x |-> Larger(region.x, w.box.x) - region.x,
                 y |-> Larger(region.y, w.box.y) - region.y,
                 w |-> Smaller(Right(region), Right(w.box)) - Larger(region.x, w.box.x),
                 h |-> Smaller(Bottom(region), Bottom(w.box)) - Larger(region.y, w.box.y)]
<1>1. /\ w \in Desktop /\ w.box \in Boxes
      /\ w.box.x \in Int /\ w.box.y \in Int /\ w.box.w \in Int /\ w.box.h \in Int
      /\ region.x \in Int /\ region.y \in Int /\ region.w \in Int /\ region.h \in Int
  BY DesktopAssumption DEF Listed, Boxes
<1>2. p[1] \in 0..region.w - 1 /\ p[2] \in 0..region.h - 1
  BY DEF Pixels
<1>3. Intersects(region, w.box)
  BY <1>1, <1>2 DEF Intersects, Right, Bottom
<1>4. b \in RedactionBoxes(Listed(Desktop), region, Titles)
  BY <1>3 DEF RedactionBoxes
<1>5. ~(p[1] >= b.x /\ p[1] < Right(b) /\ p[2] >= b.y /\ p[2] < Bottom(b))
  <2> HIDE DEF b
  <2> QED
    BY <1>4 DEF Pixels
<1>6. p[1] >= b.x /\ p[1] < Right(b) /\ p[2] >= b.y /\ p[2] < Bottom(b)
  BY <1>1, <1>2 DEF Right, Bottom, Larger, Smaller
<1> QED
  BY <1>5, <1>6

LEMMA SnapshotKeeps ==
  ASSUME RefInv, NEW scope \in Scopes, NEW query, Snapshot(scope, query)
  PROVE  RefInv'
<1> DEFINE tree == GetTree(present, WindowBox, ControlTypes, query)
           after == Ingest(session, tree.nodes, scope)
<1>1. tree.nodes \in Seq(Sights)
  BY TreeKeeps
<1>2. /\ session' = after /\ cache' = CacheOf(tree)
      /\ told' = [r \in DOMAIN after.node |->
                    IF after.node[r] \in ToSet(tree.nodes) THEN LabelOf(after.node[r])
                    ELSE told[r]]
      /\ shown' = shown \cup {c.value : c \in ToSet(tree.nodes)}
      /\ UNCHANGED <<present, pressed>>
  BY DEF Snapshot
<1> HIDE DEF tree
<1>3. after \in Sessions /\ OwnedOnce(after) /\ NodesFrom(after, session, ToSet(tree.nodes))
  BY <1>1, IngestKeeps DEF RefInv
<1> HIDE DEF after
<1>4. ToldTrue'
  <2>1. ASSUME NEW r \in DOMAIN told' PROVE told'[r] = LabelOf(session'.node[r])
    <3>1. r \in DOMAIN after.node
      BY <1>2
    <3>2. CASE after.node[r] \in ToSet(tree.nodes)
      BY <3>1, <3>2, <1>2
    <3>3. CASE after.node[r] \notin ToSet(tree.nodes)
      <4>1. r \in DOMAIN session.node /\ after.node[r] = session.node[r]
        BY <3>1, <3>3, <1>3 DEF NodesFrom
      <4>2. told[r] = LabelOf(session.node[r])
        BY <4>1 DEF RefInv, ToldTrue
      <4>3. told'[r] = told[r]
        BY <3>1, <3>3, <1>2
      <4> QED
        BY <4>1, <4>2, <4>3, <1>2
    <3> QED
      BY <3>2, <3>3
  <2>2. DOMAIN told' = DOMAIN session'.node
    BY <1>2
  <2> QED
    BY <2>1, <2>2 DEF ToldTrue, LabelOf
<1>5. \A n \in DOMAIN cache' : cache'[n] \in DOMAIN Universe /\ Universe[cache'[n]].native = n
  BY <1>1, <1>2, CacheTrue
<1>6. shown' \subseteq Harmless
  <2>1. ASSUME NEW c \in ToSet(tree.nodes) PROVE c.value \in Plain
    <3>1. c \in Sights
      BY <1>1 DEF ToSet
    <3>2. c.uid \in DOMAIN Universe /\ c.value = ValueOf(Universe[c.uid])
      BY <3>1 DEF Sights
    <3>3. Universe[c.uid] \in ToSet(Universe)
      BY <3>2 DEF ToSet
    <3> QED
      BY <3>2, <3>3 DEF ValueOf, Plain
  <2> QED
    BY <2>1, <1>2 DEF RefInv, Harmless
<1>7. (IdsNotReused => PressesTheNamed)'
  BY <1>2 DEF RefInv, PressesTheNamed, IdsNotReused, LabelOf
<1>8. (present \subseteq DOMAIN Universe)'
  BY <1>2 DEF RefInv
<1>9. (session \in Sessions /\ OwnedOnce(session))'
  BY <1>2, <1>3
<1> QED
  BY <1>4, <1>5, <1>6, <1>7, <1>8, <1>9 DEF RefInv, Harmless, Plain

LEMMA ReadDocumentKeeps == RefInv /\ ReadDocument => RefInv'
<1> SUFFICES ASSUME RefInv, ReadDocument PROVE RefInv'
  OBVIOUS
<1>1. shown' = shown \cup DocumentText(present).blocks
      /\ UNCHANGED <<present, session, cache, told, pressed>>
  BY DEF ReadDocument
<1>2. ASSUME NEW t \in DocumentText(present).blocks PROVE t \in Plain
  <2> DEFINE reached == {u \in present : \A v \in Universe[u].above :
                                           ~Universe[v].secret /\ Universe[v].text = "none"}
             found == {u \in First(reached, MaxVisit) :
                         ~Universe[u].secret /\ Universe[u].text \notin {"none", Blank}}
  <2>1. PICK u \in First(found, MaxBlocks) : t = Universe[u].text
    BY <1>2 DEF DocumentText
  <2>2. u \in found /\ u \in reached
    BY <2>1 DEF First
  <2>3. u \in DOMAIN Universe /\ Universe[u] \in ToSet(Universe)
    BY <2>2 DEF RefInv, ToSet
  <2> QED
    BY <2>1, <2>2, <2>3 DEF Plain
<1>3. shown' \subseteq Harmless
  BY <1>1, <1>2 DEF RefInv, Harmless
<1> QED
  BY <1>1, <1>3 DEF RefInv, Harmless, Plain, ToldTrue, PressesTheNamed, IdsNotReused, LabelOf

LEMMA CaptureKeeps ==
  ASSUME RefInv, NEW region \in Boxes, CaptureRegion(region)
  PROVE  RefInv'
<1>1. /\ UNCHANGED <<present, session, cache, told, pressed>>
      /\ \A t \in shown' : t \in shown \/
            \E w \in Listed(Desktop) : t = w.title /\
              \E p \in Pixels(Listed(Desktop), region, Titles) :
                /\ p[1] + region.x >= w.box.x /\ p[1] + region.x < Right(w.box)
                /\ p[2] + region.y >= w.box.y /\ p[2] + region.y < Bottom(w.box)
  BY DEF CaptureRegion
<1>2. shown' \subseteq Harmless
  <2>1. ASSUME NEW t \in shown', t \notin shown PROVE t \in Harmless
    <3>1. PICK w \in Listed(Desktop) : t = w.title /\
              \E p \in Pixels(Listed(Desktop), region, Titles) :
                /\ p[1] + region.x >= w.box.x /\ p[1] + region.x < Right(w.box)
                /\ p[2] + region.y >= w.box.y /\ p[2] + region.y < Bottom(w.box)
      BY <1>1, <2>1
    <3>2. w.title \notin Titles
      BY <3>1, HiddenTitle
    <3>3. w \in Desktop
      BY DEF Listed
    <3> QED
      BY <3>1, <3>2, <3>3 DEF Harmless
  <2> QED
    BY <2>1 DEF RefInv
<1> QED
  BY <1>1, <1>2 DEF RefInv, Harmless, Plain, ToldTrue, PressesTheNamed, IdsNotReused, LabelOf

(* Where a ref is pressed, and what it is told it is.                      *)
LEMMA PressKeeps ==
  ASSUME RefInv, NEW ref \in DOMAIN session.node, Press(ref)
  PROVE  RefInv'
<1> DEFINE node == session.node[ref]
           native == session.native[ref]
           tree == GetTree(present, WindowBox, {node.role},
                           IF node.name = Blank THEN node.role ELSE node.name)
<1>1. /\ native # Blank /\ UNCHANGED <<present, told, shown>>
      /\ \/ /\ Resolves(native, cache)
            /\ pressed' = [as |-> told[ref], uid |-> cache[native]]
            /\ UNCHANGED <<session, cache>>
         \/ /\ cache' = CacheOf(tree)
            /\ \/ UNCHANGED <<session, pressed>>
               \/ \E c \in Relocated(tree, node) :
                     /\ c.native \in DOMAIN session.owner => session.owner[c.native] = ref
                     /\ session' = Rebind(session, ref, c)
                     /\ pressed' = [as |-> told[ref], uid |-> c.uid]
  BY DEF Press
<1>2. /\ session \in Sessions /\ OwnedOnce(session) /\ ToldTrue
      /\ node \in Sights /\ node.native = native /\ told[ref] = LabelOf(node)
  <2>1. session.node \in Partial(Nat, Sights)
    BY DEF RefInv, Sessions
  <2>2. node \in Sights
    BY <2>1, PartialType
  <2> QED
    BY <2>2 DEF RefInv, OwnedOnce, ToldTrue
<1>3. tree.nodes \in Seq(Sights)
  BY TreeKeeps
<1> HIDE DEF node, native, tree
<1>4. CASE /\ Resolves(native, cache)
           /\ pressed' = [as |-> told[ref], uid |-> cache[native]]
           /\ UNCHANGED <<session, cache>>
  <2>1. cache[native] \in DOMAIN Universe /\ Universe[cache[native]].native = native
    BY <1>4 DEF Resolves, RefInv
  <2>2. IdsNotReused => LabelOf(Universe[cache[native]]) = LabelOf(Universe[node.uid])
    BY <2>1, <1>1, <1>2 DEF IdsNotReused, Sights
  <2>3. LabelOf(node) = LabelOf(Universe[node.uid])
    BY <1>2 DEF Sights, LabelOf
  <2>4. (IdsNotReused => PressesTheNamed)'
    <3>1. IdsNotReused' <=> IdsNotReused
      BY DEF IdsNotReused, LabelOf
    <3>2. IdsNotReused => LabelOf(Universe[pressed'.uid]) = pressed'.as
      BY <2>2, <2>3, <1>2, <1>4
    <3> QED
      BY <3>1, <3>2 DEF PressesTheNamed, LabelOf
  <2> QED
    BY <2>4, <1>1, <1>4 DEF RefInv, Harmless, Plain, ToldTrue, LabelOf
<1>5. ASSUME cache' = CacheOf(tree), UNCHANGED <<session, pressed>> PROVE RefInv'
  <2>1. \A n \in DOMAIN cache' : cache'[n] \in DOMAIN Universe /\ Universe[cache'[n]].native = n
    BY <1>3, <1>5, CacheTrue
  <2> QED
    BY <2>1, <1>1, <1>5 DEF RefInv, Harmless, Plain, ToldTrue, PressesTheNamed, IdsNotReused, LabelOf
<1>6. ASSUME cache' = CacheOf(tree), NEW c \in Relocated(tree, node),
             c.native \in DOMAIN session.owner => session.owner[c.native] = ref,
             session' = Rebind(session, ref, c), pressed' = [as |-> told[ref], uid |-> c.uid]
      PROVE  RefInv'
  <2>1. c \in Sights /\ c.native # Blank /\ LabelOf(c) = LabelOf(node)
    BY <1>3 DEF Relocated, ToSet
  <2>2. /\ session' \in Sessions /\ OwnedOnce(session')
        /\ session'.node = [session.node EXCEPT ![ref] = c]
    BY <2>1, <1>1, <1>2, <1>6, RebindKeeps DEF native
  <2>3. \A n \in DOMAIN cache' : cache'[n] \in DOMAIN Universe /\ Universe[cache'[n]].native = n
    BY <1>3, <1>6, CacheTrue
  <2>4. ToldTrue'
    <3>1. DOMAIN told' = DOMAIN session'.node
      BY <1>1, <1>2, <2>2 DEF ToldTrue
    <3>2. ASSUME NEW r \in DOMAIN told' PROVE told'[r] = LabelOf(session'.node[r])
      <4>1. CASE r = ref
        BY <4>1, <1>1, <1>2, <2>1, <2>2
      <4>2. CASE r # ref
        BY <4>2, <3>2, <1>1, <1>2, <2>2 DEF ToldTrue
      <4> QED
        BY <4>1, <4>2
    <3> QED
      BY <3>1, <3>2 DEF ToldTrue, LabelOf
  <2>5. LabelOf(Universe[c.uid]) = told[ref]
    BY <2>1, <1>2 DEF Sights, LabelOf
  <2>6. PressesTheNamed'
    BY <2>5, <1>6 DEF PressesTheNamed, LabelOf
  <2> QED
    BY <2>2, <2>3, <2>4, <2>6, <1>1 DEF RefInv, Harmless, Plain
<1> QED
  BY <1>1, <1>4, <1>5, <1>6

LEMMA RefStep == RefInv /\ [RefNext]_refVars => RefInv'
<1> SUFFICES ASSUME RefInv, [RefNext]_refVars PROVE RefInv'
  OBVIOUS
<1>1. ASSUME present' \subseteq DOMAIN Universe, UNCHANGED <<session, cache, told, shown, pressed>>
      PROVE  RefInv'
  BY <1>1 DEF RefInv, Harmless, Plain, ToldTrue, PressesTheNamed, IdsNotReused, LabelOf
<1>2. CASE Disappear
  BY <1>1, <1>2 DEF Disappear, RefInv
<1>3. CASE Appear
  BY <1>1, <1>3 DEF Appear, RefInv
<1>4. CASE ReadDocument
  BY <1>4, ReadDocumentKeeps
<1>5. CASE \E s \in Scopes, q \in {Blank, "ok"} : Snapshot(s, q)
  BY <1>5, SnapshotKeeps
<1>6. CASE \E w \in {2, 4} : CaptureRegion([x |-> 0, y |-> 0, w |-> w, h |-> 2])
  <2>1. PICK w \in {2, 4} : CaptureRegion([x |-> 0, y |-> 0, w |-> w, h |-> 2])
    BY <1>6
  <2>2. [x |-> 0, y |-> 0, w |-> w, h |-> 2] \in Boxes
    BY DEF Boxes
  <2> QED
    BY <2>1, <2>2, CaptureKeeps
<1>7. CASE \E ref \in DOMAIN session.node : Press(ref)
  BY <1>7, PressKeeps
<1>8. CASE UNCHANGED refVars
  BY <1>1, <1>8 DEF refVars, RefInv
<1> QED
  BY <1>2, <1>3, <1>4, <1>5, <1>6, <1>7, <1>8 DEF RefNext

LEMMA RefStart == RefInit => RefInv
<1> SUFFICES ASSUME RefInit PROVE RefInv
  OBVIOUS
<1>1. session = [counter |-> 0, node |-> Empty, native |-> Empty, owner |-> Empty, scope |-> Empty]
  BY DEF RefInit
<1>2. DOMAIN Empty = {} /\ \A A, B : Empty \in Partial(A, B)
  BY EmptyPartial
<1>3. session \in Sessions /\ OwnedOnce(session)
  BY <1>1, <1>2 DEF Sessions, OwnedOnce
<1>4. ToldTrue /\ PressesTheNamed
  BY <1>1, <1>2 DEF RefInit, ToldTrue, PressesTheNamed
<1> QED
  BY <1>2, <1>3, <1>4 DEF RefInit, RefInv

(* The refs, the cache and what is shown of a screen stay as they should,  *)
(* for any controls, windows, titles and limits.                           *)
THEOREM SessionSafety == SessionSpec => []RefInv
BY RefStart, RefStep, PTL DEF SessionSpec

(* Of a sound screen, the metadata names each control once.                *)
LEMMA MetadataOnce ==
  ASSUME RefInv, NEW scope \in Scopes, StrictTree(present, WindowBox).sound
  PROVE  MetadataValid(StrictTree(present, WindowBox), MetadataRefs(scope))
<1> DEFINE acts == {u \in present : Universe[u].role \notin Structural}
           seen == {Universe[u].native : u \in acts}
           refs == MetadataRefs(scope)
           state == StrictTree(present, WindowBox)
<1>1. /\ state.controls = {Universe[u] : u \in acts} /\ Cardinality(acts) <= MaxNodes
      /\ \A u \in acts : Universe[u].native # Blank
  BY DEF StrictTree
<1>2. {c.native : c \in state.controls} = seen
  BY <1>1
<1>3. ASSUME NEW p \in refs
      PROVE  /\ p.native \in seen /\ p.native # Blank /\ p.ref \in DOMAIN session.node
             /\ session.native[p.ref] = p.native /\ session.owner[p.native] = p.ref
             /\ p = [ref |-> p.ref, native |-> p.native]
  <2>1. p \in {[ref |-> r, native |-> session.native[r]] :
                 r \in {q \in DOMAIN session.native :
                          session.native[q] \in seen /\ session.scope[q] = scope}}
    BY <1>2, <1>3 DEF MetadataRefs
  <2>2. PICK r \in DOMAIN session.native : session.native[r] \in seen
                                         /\ p = [ref |-> r, native |-> session.native[r]]
    BY <2>1
  <2>3. p.native # Blank
    BY <2>2, <1>1
  <2> QED
    BY <2>2, <2>3 DEF RefInv, OwnedOnce
<1> HIDE DEF refs, state
<1>4. \A p, q \in refs : p.ref = q.ref \/ p.native = q.native => p = q
  BY <1>3
<1>5. IsFiniteSet(refs) /\ IsFiniteSet(acts) /\ Cardinality(refs) <= Cardinality(acts)
  <2>1. IsFiniteSet(acts)
    <3>1. IsFiniteSet(1..Len(Universe))
      BY ControlType, FS_Interval
    <3>2. acts \subseteq 1..Len(Universe)
      BY ControlType DEF RefInv
    <3> QED
      BY <3>1, <3>2, FS_Subset
  <2>2. IsFiniteSet(seen) /\ Cardinality(seen) <= Cardinality(acts)
    <3> DEFINE g == [u \in acts |-> Universe[u].native]
    <3>1. g \in Surjection(acts, seen)
      BY DEF Surjection
    <3> QED
      BY <2>1, <3>1, FS_Surjection
  <2>3. Cardinality(refs) <= Cardinality(seen)
    <3> DEFINE g == [p \in refs |-> p.native]
    <3>1. g \in Injection(refs, seen)
      BY <1>3, <1>4 DEF Injection, IsInjective
    <3> QED
      BY <2>2, <3>1, FS_Injection
  <2>4. IsFiniteSet(refs)
    <3> DEFINE g == [p \in refs |-> p.native]
    <3>1. g \in Injection(refs, seen)
      BY <1>3, <1>4 DEF Injection, IsInjective
    <3> QED
      BY <2>2, <3>1, FS_Injection
  <2> QED
    BY <2>1, <2>2, <2>3, <2>4, FS_CardinalityType
<1>6. Cardinality(refs) <= MaxNodes
  <2>1. Cardinality(refs) \in Nat /\ Cardinality(acts) \in Nat /\ MaxNodes \in Nat
    BY <1>5, LimitAssumption, FS_CardinalityType
  <2> HIDE DEF acts
  <2> QED
    BY <1>1, <1>5, <2>1
<1> QED
  BY <1>1, <1>2, <1>3, <1>4, <1>6 DEF MetadataValid, refs, state

LEMMA OneToOneMeans == RefInv => RefsOneToOne
<1> SUFFICES ASSUME RefInv PROVE RefsOneToOne
  OBVIOUS
<1>1. OwnedOnce(session)
  BY DEF RefInv
<1>2. \A scope \in Scopes : StrictTree(present, WindowBox).sound =>
         MetadataValid(StrictTree(present, WindowBox), MetadataRefs(scope))
  BY MetadataOnce
<1> QED
  BY <1>1, <1>2 DEF RefsOneToOne, OwnedOnce

(* Two refs never stand for one runtime id.                                *)
THEOREM RefsStayOneToOne == SessionSpec => []RefsOneToOne
BY OneToOneMeans, SessionSafety, PTL

(* A ref means the one control that its caller was shown, as long as an    *)
(* object that takes over a runtime id has the role and name of the one    *)
(* before: without that the run RefsReused refutes it.                     *)
THEOREM RefsMeanWhatWasShown ==
  ASSUME IdsNotReused
  PROVE  SessionSpec => []RefsMeanOneControl
<1>1. RefInv => PressesTheNamed
  BY DEF RefInv
<1>2. SessionSpec => []PressesTheNamed
  BY <1>1, SessionSafety, PTL
<1> QED
  BY <1>2, RefsStayOneToOne, PTL DEF RefsMeanOneControl

LEMMA HiddenMeans == RefInv => SecretsHidden
<1> SUFFICES ASSUME RefInv PROVE SecretsHidden
  OBVIOUS
<1>1. shown \subseteq Harmless
  BY DEF RefInv
<1>2. ASSUME NEW u \in DOMAIN Universe, Universe[u].secret PROVE Universe[u].value \notin shown
  <2>1. Universe[u] \in ToSet(Universe)
    BY DEF ToSet
  <2> QED
    BY <1>1, <1>2, <2>1, SecretsAssumption DEF Harmless
<1>3. shown \cap Titles = {}
  BY <1>1, SecretsAssumption DEF Harmless
<1> QED
  BY <1>2, <1>3 DEF SecretsHidden

(* No password and no title that is hidden is ever shown.                  *)
THEOREM SecretsStayHidden == SessionSpec => []SecretsHidden
BY HiddenMeans, SessionSafety, PTL

-----------------------------------------------------------------------------
(* The two parts beside each other, as they are model-checked: neither      *)
(* disturbs the other.                                                     *)
THEOREM PartsSafe ==
  PartSpec => [](/\ StopsInTime /\ AnswerHonest /\ DesktopLeftAlone
                 /\ SecretsHidden /\ (IdsNotReused => RefsMeanOneControl))
<1>1. PartInit => Init /\ RefInit
  BY DEF PartInit
<1>2. [PartNext]_<<part, vars, refVars>> => [Next]_vars /\ [RefNext]_refVars
  BY DEF PartNext
<1>3. PartSpec => []DesktopInv
  BY <1>1, <1>2, DesktopInit, DesktopStep, PTL DEF PartSpec
<1>4. PartSpec => []RefInv
  BY <1>1, <1>2, RefStart, RefStep, PTL DEF PartSpec
<1>5. DesktopInv => StopsInTime /\ AnswerHonest /\ DesktopLeftAlone
  BY StopInvMeans, LeftAloneMeans DEF DesktopInv
<1>6. RefInv => SecretsHidden /\ (IdsNotReused => RefsMeanOneControl)
  BY HiddenMeans, OneToOneMeans DEF RefsMeanOneControl, RefInv
<1> QED
  BY <1>3, <1>4, <1>5, <1>6, PTL
=============================================================================
