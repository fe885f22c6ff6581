---------------------------- MODULE DesktopServer ----------------------------
(***************************************************************************)
(* computer_use_mcp/server.py with its guards (safety, human_activity,     *)
(* gate), the boundary every native mutation passes (native_authority), the *)
(* audit log and the programs of drivers/windows.py. One child process     *)
(* serves one generation of the connection; a tool runs to its end on the  *)
(* only thread of its child, but the screen, the person and the panic key  *)
(* do not wait for it. A job is the tool call at work:                     *)
(*   guard - stable - ready - front - confirm - check - sense   (server)   *)
(*   look - feel - act - capture, once for each step            (boundary) *)
(* The code compares the tick of the system's last input with the ticks it *)
(* captured (the call's readiness, the one capture it allows, the server's *)
(* own input); as ticks only grow, a capture is here the flag that no input *)
(* came since.                                                             *)
(***************************************************************************)
EXTENDS ToolContract, FiniteSets, SequencesExt

CONSTANTS Calls, Gens
ASSUME GenAssumption == Gens \subseteq Nat \ {0}

VARIABLES mode, screen, child, acted, replies
serverVars == <<mode, screen, child, acted, replies>>

Keys == {"ctrl", "s", "mouse"}
Idle == [pc |-> "idle"]
Unguarded ==
    {"guard", "stable", "ready", "front", "confirm", "check", "sense"}
JobSteps == Unguarded \cup {"look", "feel", "act", "capture"}
OpNames ==
    {"move", "press", "release", "wheel", "unit", "invoke", "attach", "raise",
     "front", "detach"}
NoReply == [text |-> "none", decision |-> "none"]
Decisions ==
    {"none", "ok", "estop", "human_active", "gate_denied", "user_denied",
     "authority_lost", "unknown_outcome"}
NoChild == [alive |-> FALSE, own |-> FALSE, listed |-> 0, job |-> Idle]

Op(name, of) == [name |-> name, of |-> of, input |-> TRUE]
Call(name) == [name |-> name, of |-> "thread", input |-> FALSE]
Move == Op("move", "mouse")
(* the native steps of each action                                         *)
PointerProgram ==
    [click |-> <<Move, Op("press", "mouse"), Op("release", "mouse")>>,
     drag |-> <<Move, Op("press", "mouse"), Move, Op("release", "mouse")>>,
     scroll |-> <<Move, Op("wheel", "mouse")>>]
ChordProgram == <<Op("press", "ctrl"), Op("press", "s"),
                  Op("release", "s"), Op("release", "ctrl")>>
TextProgram == <<Op("unit", "s"), Op("unit", "s")>>
ActivateProgram == <<Call("attach"), Call("raise"), Call("front"), Call("detach")>>
(* a reference pressed through its accessibility pattern: no input at all   *)
SemanticProgram == <<Call("invoke")>>
Programs(tool) ==
    CASE tool \in DOMAIN PointerProgram ->
            {PointerProgram[tool]} \cup (IF tool = "click" THEN {SemanticProgram} ELSE {})
      [] tool = "key" -> {ChordProgram}
      [] tool = "type" -> {TextProgram, SemanticProgram}
      [] tool = "activate_window" -> {ActivateProgram, <<>>}
MayFail == {"move", "unit", "invoke", "attach", "raise", "front", "detach"}
HeldBy(op, held) ==
    CASE op.name \in {"press", "attach"} -> held \cup {op.of}
      [] op.name \in {"release", "detach"} -> held \ {op.of}
      [] OTHER -> held

ServerInit ==
    /\ mode \in {"safe", "full"}
    /\ screen = [estop |-> FALSE, front |-> "app", owner |-> 1,
                 quiet |-> TRUE, held |-> {}]
    /\ child = [g \in Gens |-> NoChild]
    /\ acted = {}
    /\ replies = [c \in Calls |-> NoReply]

Working(g) == child[g].alive /\ child[g].job.pc # "idle"
(* where input of the person is always noticed: before, the answer of the   *)
(* dialog vouches for it; after, it cannot be told from the action's own   *)
Sensitive == {"check", "sense", "look", "feel"}
(* the job after some input: no capture is current any more                *)
Disturbed(job) == [job EXCEPT !.ready = FALSE, !.allowed = FALSE]
(* ... of the person; from now on some later check has to stop it          *)
Noticed(job) ==
    LET due == mode = "safe" /\ job.pc \in Sensitive
    IN [Disturbed(job) EXCEPT !.stop = job.stop \/ due]

(* EStop._loop sees the panic key                                          *)
Engage ==
    /\ ~screen.estop
    /\ screen' = [screen EXCEPT !.estop = TRUE]
    /\ child' = [g \in Gens |-> IF Working(g) THEN [child[g] EXCEPT !.job.stop = TRUE]
                                ELSE child[g]]
    /\ UNCHANGED <<mode, acted, replies>>
HumanInput ==
    /\ screen' = [screen EXCEPT !.quiet = FALSE]
    /\ child' = [g \in Gens |->
         IF Working(g)
         THEN [child[g] EXCEPT !.own = FALSE, !.job = Noticed(child[g].job)]
         ELSE [child[g] EXCEPT !.own = FALSE]]
    /\ UNCHANGED <<mode, acted, replies>>
(* idle_seconds without input                                              *)
Settle ==
    /\ ~screen.quiet
    /\ screen' = [screen EXCEPT !.quiet = TRUE]
    /\ UNCHANGED <<mode, child, acted, replies>>
(* another window comes to the front, or the application returns           *)
FrontMoves ==
    /\ screen' = [screen EXCEPT !.front = IF @ = "app" THEN "other" ELSE "app"]
    /\ child' = [g \in Gens |-> IF Working(g) THEN [child[g] EXCEPT !.job.away = 0]
                                ELSE child[g]]
    /\ UNCHANGED <<mode, acted, replies>>
(* the listed window's handle comes to belong to another process           *)
OwnerChanges ==
    /\ screen.owner = 1
    /\ screen' = [screen EXCEPT !.owner = 2]
    /\ child' = [g \in Gens |->
                   IF Working(g) /\ child[g].job.tool = "activate_window"
                   THEN [child[g] EXCEPT !.job.stop = TRUE] ELSE child[g]]
    /\ UNCHANGED <<mode, acted, replies>>

(***************************************************************************)
(* The answer of a tool, written to the audit log first (AuditLog.record). *)
(***************************************************************************)
Answer(g, text, decision) ==
    LET id == child[g].job.id
    IN /\ replies' = [replies EXCEPT ![id] = [text |-> text, decision |-> decision]]
       /\ child' = [child EXCEPT ![g].job = Idle]
       /\ UNCHANGED <<mode, acted>>
Go(g, job) ==
    /\ child' = [child EXCEPT ![g].job = job]
    /\ UNCHANGED <<mode, screen, acted, replies>>
At(g, pc) == Working(g) /\ child[g].job.pc = pc
DecisionOf(text) ==
    CASE text = "aborted" -> "estop"
      [] text = "gate" -> "gate_denied"
      [] OTHER -> text

(* _blocking_reason: recent input that the server did not make itself      *)
Blocked(g) == ~screen.quiet /\ ~child[g].own
(* final_blocking_reason, with the capture the call is allowed once        *)
HumanAllows(g) ==
    LET job == child[g].job
    IN mode = "full" \/ job.allowed \/ (job.ready /\ ~Blocked(g))
(* foreground_allowed_once                                                 *)
FrontAllows(g) ==
    mode = "full" \/ child[g].job.tool = "activate_window" \/ screen.front = "app"
(* _activation_target_probe                                                *)
TargetKept(g) ==
    LET job == child[g].job
    IN job.tool = "activate_window" =>
         job.target # 0 /\ child[g].listed = job.target /\ screen.owner = job.target

Begin(g, id, tool) ==
    /\ child[g].alive /\ child[g].job.pc = "idle"
    /\ child' = [child EXCEPT ![g].job =
         [id |-> id, tool |-> tool, pc |-> "guard", target |-> child[g].listed,
          input |-> FALSE, ready |-> FALSE, allowed |-> FALSE, todo |-> <<>>, attempts |-> 0,
          failed |-> FALSE, stop |-> FALSE, late |-> 0, away |-> 0]]
(* the observations; list_windows replaces the activation binding          *)
Observe(g) ==
    /\ At(g, "guard") /\ child[g].job.tool \in DOMAIN ObservationTools
    /\ replies' = [replies EXCEPT ![child[g].job.id].text = "read"]
    /\ child' = [child EXCEPT ![g].job = Idle,
                   ![g].listed = IF child[g].job.tool = "list_windows"
                                 THEN screen.owner ELSE @]
    /\ UNCHANGED <<mode, screen, acted>>
(* _guard: _estop_guard                                                    *)
Guard(g) ==
    LET job == child[g].job
    IN /\ At(g, "guard") /\ job.tool \in DOMAIN ActionTools
       /\ \/ screen.estop /\ Answer(g, "aborted", "estop") /\ UNCHANGED screen
          \/ ~screen.estop
             /\ Go(g, [job EXCEPT !.pc = IF mode = "full" THEN "confirm" ELSE "stable"])
(* wait_until_stable                                                       *)
Stable(g) ==
    /\ At(g, "stable")
    /\ \/ Blocked(g) /\ Answer(g, "human_active", "human_active") /\ UNCHANGED screen
       \/ ~Blocked(g) /\ Go(g, [child[g].job EXCEPT !.pc = "ready"])
Readiness(g) ==
    LET job == child[g].job
    IN /\ At(g, "ready")
       /\ Go(g, [job EXCEPT !.ready = TRUE,
                   !.pc = IF job.tool = "activate_window" THEN "check" ELSE "front"])
(* foreground_allowed, its retries over                                    *)
Foreground(g) ==
    /\ At(g, "front")
    /\ \/ screen.front # "app" /\ Answer(g, "gate", "gate_denied") /\ UNCHANGED screen
       \/ screen.front = "app" /\ Go(g, [child[g].job EXCEPT !.pc = "confirm"])
(* message_box_confirm, for a click on a dangerous target                  *)
Confirm(g) ==
    LET job == child[g].job
    IN /\ At(g, "confirm")
       /\ \/ Go(g, [job EXCEPT !.pc = "check"])
          \/ job.tool = "click"
             /\ Go(g, [job EXCEPT !.pc = "check",
                         !.allowed = mode = "safe"])
          \/ job.tool = "click" /\ Answer(g, "user", "user_denied") /\ UNCHANGED screen
(* _final_authority_guard before the action                                *)
Check(g) ==
    /\ At(g, "check")
    /\ \/ screen.estop /\ Answer(g, "aborted", "estop") /\ UNCHANGED screen
       \/ ~screen.estop /\ ~FrontAllows(g) /\ Answer(g, "gate", "gate_denied")
          /\ UNCHANGED screen
       \/ ~screen.estop /\ FrontAllows(g) /\ Go(g, [child[g].job EXCEPT !.pc = "sense"])
(* ... and its human check; then the driver either refuses at once (a stale *)
(* reference, an unknown key) or runs its program                           *)
Sense(g) ==
    LET job == child[g].job
        Run(todo, failed) ==
            Go(g, [job EXCEPT !.pc = "look", !.todo = todo, !.failed = failed])
    IN /\ At(g, "sense")
       /\ \/ ~HumanAllows(g) /\ Answer(g, "human_active", "human_active")
             /\ UNCHANGED screen
          \/ HumanAllows(g) /\ ~TargetKept(g)
             /\ Answer(g, "authority_lost", "authority_lost") /\ UNCHANGED screen
          \/ HumanAllows(g) /\ TargetKept(g)
             /\ \/ \E program \in Programs(job.tool) : Run(program, FALSE)
                \/ Run(<<>>, TRUE)

(***************************************************************************)
(* NativeActionBoundary.mutate and the cleanup of the driver's programs.   *)
(***************************************************************************)
Unwind_MouseOnly(g) == screen' = [screen EXCEPT !.held = @ \ {"mouse"}]
(* the finally blocks; a thread whose detaching failed stays attached      *)
Unwind(g) ==
    screen' = [screen EXCEPT !.held = IF child[g].job.todo = <<>>
                                      THEN @ \cap {"thread"} ELSE {}]
Lost_AsRejected(g, text) == Unwind(g) /\ Answer(g, text, DecisionOf(text))
Lost(g, text) ==
    /\ Unwind(g)
    /\ IF child[g].job.attempts > 0
       THEN Answer(g, "native_authority_lost", "unknown_outcome")
       ELSE Answer(g, text, DecisionOf(text))
Look_Once(g) ==
    LET job == child[g].job
    IN /\ At(g, "look") /\ job.todo # <<>>
       /\ \/ job.attempts = 0 /\ screen.estop /\ Lost(g, "aborted")
          \/ (job.attempts > 0 \/ ~screen.estop) /\ Go(g, [job EXCEPT !.pc = "feel"])
(* _revalidate up to the human check                                       *)
Look(g) ==
    LET job == child[g].job
    IN /\ At(g, "look") /\ job.todo # <<>>
       /\ \/ ~TargetKept(g) /\ Lost(g, "authority_lost")
          \/ TargetKept(g) /\ screen.estop /\ Lost(g, "aborted")
          \/ TargetKept(g) /\ ~screen.estop /\ ~FrontAllows(g) /\ Lost(g, "gate")
          \/ TargetKept(g) /\ ~screen.estop /\ FrontAllows(g)
             /\ Go(g, [job EXCEPT !.pc = "feel"])
Feel(g) ==
    /\ At(g, "feel")
    /\ \/ ~HumanAllows(g) /\ Lost(g, "human_active")
       \/ HumanAllows(g) /\ Go(g, [child[g].job EXCEPT !.pc = "act", !.allowed = FALSE])
(* the operation itself; a refused one ends the program but for the        *)
(* detaching of the input threads                                          *)
Act(g) ==
    LET job == child[g].job
        op == Head(job.todo)
        Counted(stopped, n) == IF stopped THEN n + 1 ELSE n
        after == [job EXCEPT !.attempts = @ + 1, !.input = @ \/ op.input,
                    !.late = Counted(job.stop, @),
                    !.away = Counted(~FrontAllows(g), @)]
        Done(ok) ==
            /\ screen' = [screen EXCEPT
                 !.held = IF ok THEN HeldBy(op, @) ELSE @,
                 !.quiet = @ /\ ~(op.input /\ ok),
                 !.front = IF op.name = "front" /\ ok THEN "app" ELSE @]
            /\ acted' = acted \cup {job.id}
            /\ child' = [child EXCEPT ![g].own = @ /\ ~(op.input /\ ok), ![g].job =
                 IF ok
                 THEN [(IF op.input THEN Disturbed(after) ELSE after) EXCEPT !.todo = Tail(@),
                         !.pc = IF op.input THEN "capture" ELSE "look"]
                 ELSE [after EXCEPT !.failed = TRUE, !.pc = "look",
                         !.todo = IF "thread" \in screen.held /\ op.name # "detach"
                                  THEN <<Call("detach")>> ELSE <<>>]]
            /\ UNCHANGED <<mode, replies>>
    IN /\ At(g, "act")
       /\ \/ Done(TRUE)
          \/ op.name \in MayFail /\ Done(FALSE)
(* _capture_native_input                                                   *)
Capture(g) ==
    LET job == child[g].job
    IN /\ At(g, "capture")
       /\ Go(g, [job EXCEPT !.pc = "look", !.allowed = mode = "safe"])
(* complete_action, the texts of _run_native_action and _record_action; the *)
(* window may still not have come to the front                              *)
Finish(g) ==
    LET job == child[g].job
        Ends(ok) ==
            CASE ~TargetKept(g) -> Lost(g, "authority_lost")
              [] TargetKept(g) /\ ~ok /\ job.attempts > 0 ->
                   Unwind(g) /\ Answer(g, "native_outcome_unknown", "unknown_outcome")
              [] TargetKept(g) /\ ~ok /\ job.attempts = 0 ->
                   UNCHANGED screen /\ Answer(g, "driver_error", "ok")
              [] TargetKept(g) /\ ok ->
                   /\ UNCHANGED <<mode, screen, acted>>
                   /\ replies' = [replies EXCEPT
                        ![job.id] = [text |-> "ok", decision |-> "ok"]]
                   /\ child' = [child EXCEPT ![g].job = Idle,
                        ![g].own = @ \/ job.input]
    IN /\ At(g, "look") /\ job.todo = <<>>
       /\ \/ Ends(~job.failed)
          \/ ~job.failed /\ job.tool = "activate_window" /\ Ends(FALSE)

ServerStep(g) ==
    \/ Observe(g) \/ Guard(g) \/ Stable(g) \/ Readiness(g) \/ Foreground(g) \/ Confirm(g)
    \/ Check(g) \/ Sense(g) \/ Look(g) \/ Feel(g) \/ Act(g) \/ Capture(g) \/ Finish(g)
Surroundings == Engage \/ HumanInput \/ Settle \/ FrontMoves \/ OwnerChanges
=============================================================================
