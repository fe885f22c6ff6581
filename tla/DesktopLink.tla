----------------------------- MODULE DesktopLink -----------------------------
(***************************************************************************)
(* computer_use_agent/desktop_mcp.py over bounded_stdio.py: the client that *)
(* starts the desktop server, discovers its tools and sends it one call at *)
(* a time under its operation lock. The owner task holds the child process: *)
(* it is done only when the child is gone. A call that may have reached the *)
(* child is answered "unknown" and the child is dropped.                   *)
(***************************************************************************)
EXTENDS DesktopServer

CONSTANTS Requests   \* what each call may ask: [tool, args, authorized]

(* validate_tool_arguments refuses every other name.                       *)
ASSUME RequestsAssumption ==
    \A id \in Calls : \A r \in Requests[id] : r.tool \in DOMAIN Registry({})

VARIABLES link, call, results, sent
linkVars == <<link, call, results, sent>>
vars == <<serverVars, linkVars>>

NoCall == [pc |-> "none"]
NoLink == [owner |-> "none", session |-> FALSE, verified |-> 0, gen |-> 0,
           closed |-> FALSE]
Init ==
    /\ ServerInit
    /\ link = NoLink /\ call = NoCall
    /\ results = [c \in Calls |-> "none"]
    /\ sent = [c \in Calls |-> 0]     \* the generation a call was sent to

Unlocked == call.pc = "none"
(* the task that holds a session has it or waits in its cleanup            *)
Reachable == link.session /\ child[link.gen].alive
Verified == link.session /\ link.verified = link.gen

Open_WhileStuck(baselines) ==
    /\ Unlocked /\ ~link.closed /\ ~link.session /\ link.owner # "running"
    /\ link.gen + 1 \in Gens /\ baselines = "known"
    /\ link' = [link EXCEPT !.owner = "running", !.session = TRUE, !.gen = @ + 1]
    /\ child' = [child EXCEPT ![link.gen + 1].alive = TRUE]
    /\ UNCHANGED <<mode, screen, acted, replies, call, results, sent>>
(* _open_locked: a new child, when no earlier owner task is left; one that  *)
(* claims foreign baselines, or does not initialize in time, is dropped     *)
Open(baselines) ==
    /\ Unlocked /\ ~link.closed /\ ~link.session /\ link.owner = "none"
    /\ link.gen + 1 \in Gens
    /\ link' = [link EXCEPT !.owner = "running", !.session = baselines = "known",
                  !.gen = @ + 1]
    /\ child' = [child EXCEPT ![link.gen + 1].alive = TRUE]
    /\ call' = IF baselines = "known" THEN NoCall ELSE [pc |-> "dropping"]
    /\ UNCHANGED <<mode, screen, acted, replies, results, sent>>
(* what the server lists, as released or out of step with the client       *)
Served(drift) ==
    {[name |-> t, schema |-> IF drift = "schema" THEN {} ELSE Registry({})[t].allowed] :
        t \in DOMAIN Registry({}) \ (IF drift = "missing" THEN {"key"} ELSE {})}
(* _discover_locked, over the session that _open_locked returns             *)
Discover(drift) ==
    /\ Unlocked /\ ~link.closed /\ link.session /\ link.owner = "running"
    /\ IF Reachable /\ Discovered(Served(drift), {})
       THEN link' = [link EXCEPT !.verified = link.gen] /\ UNCHANGED call
       ELSE /\ link' = [link EXCEPT !.session = FALSE, !.verified = 0]
            /\ call' = [pc |-> "dropping"]
    /\ UNCHANGED <<serverVars, results, sent>>

Close(id, status) == results' = [results EXCEPT ![id] = status]
(* call_tool up to the dispatch                                            *)
CallTool(id, r) ==
    /\ Unlocked /\ results[id] = "none"
    /\ \A c \in Calls : c < id => results[c] # "none"
    /\ CASE ~r.authorized \/ ~ArgumentsValid(r.tool, r.args) ->
              Close(id, "rejected") /\ UNCHANGED <<link, call, child, sent>>
         [] r.authorized /\ ArgumentsValid(r.tool, r.args)
            /\ (link.closed \/ link.owner = "done" \/ ~Verified) ->
              /\ Close(id, "transport_error")
              /\ link' = IF link.owner = "done" /\ ~link.closed
                         THEN [link EXCEPT !.owner = "none", !.session = FALSE,
                                 !.verified = 0] ELSE link
              /\ UNCHANGED <<call, child, sent>>
         [] OTHER ->
              /\ call' = [pc |-> "sent", id |-> id, tool |-> r.tool]
              /\ sent' = [sent EXCEPT ![id] = link.gen]
              /\ IF child[link.gen].alive THEN Begin(link.gen, id, r.tool)
                 ELSE UNCHANGED child
              /\ UNCHANGED <<link, results>>
    /\ UNCHANGED <<mode, screen, acted, replies>>

(* _finish_post_dispatch: the result is fixed before the cleanup           *)
PostDispatch(status) ==
    /\ Close(call.id, status)
    /\ call' = [pc |-> "dropping"]
    /\ link' = [link EXCEPT !.session = FALSE, !.verified = 0]
    /\ UNCHANGED <<serverVars, sent>>
(* an answer of the child; garbled when it is no text block                *)
Receive(garbled) ==
    LET raw == [error |-> FALSE, decodes |-> TRUE, text |-> replies[call.id].text,
                kinds |-> IF garbled THEN <<>> ELSE <<"text">>]
        status == Convert(Registry({})[call.tool], raw)
    IN /\ call.pc = "sent" /\ replies[call.id].text # "none" /\ Reachable
       /\ \/ garbled /\ PostDispatch(status)
          \/ ~garbled /\ status = "unknown_outcome" /\ PostDispatch(status)
          \/ /\ ~garbled /\ status # "unknown_outcome"
             /\ Close(call.id, status) /\ call' = NoCall
             /\ UNCHANGED <<serverVars, link, sent>>
Timeout_WhileAlive ==
    call.pc = "sent" /\ child[link.gen].alive /\ PostDispatch("unknown_outcome")
(* the time limit, a cancelled caller, or a transport that broke           *)
Timeout == call.pc = "sent" /\ PostDispatch("unknown_outcome")

(* _drop_locked: the owner task ended, or not within the close time-out     *)
Dropped ==
    /\ call.pc = "dropping"
    /\ \/ link.owner = "done" /\ link' = [link EXCEPT !.owner = "none"]
       \/ link.owner \in {"running", "stuck"} /\ link' = [link EXCEPT !.owner = "stuck"]
    /\ call' = NoCall
    /\ UNCHANGED <<serverVars, results, sent>>
(* bounded_stdio closes the input of the child, waits for it and kills it   *)
Dies(g) ==
    /\ child[g].alive
    /\ child' = [child EXCEPT ![g] = NoChild]
    /\ UNCHANGED <<mode, screen, acted, replies>>
OwnerEnds ==
    /\ link.owner \in {"running", "stuck"} /\ ~link.session
    /\ link' = [link EXCEPT !.owner = "done"]
    /\ IF child[link.gen].alive THEN Dies(link.gen) ELSE UNCHANGED serverVars
    /\ UNCHANGED <<call, results, sent>>
(* the child exits by itself; its owner may or may not notice              *)
ChildExit ==
    /\ link.gen \in Gens /\ Dies(link.gen)
    /\ \/ UNCHANGED link
       \/ link.owner = "running" /\ link' = [link EXCEPT !.owner = "done"]
    /\ UNCHANGED <<call, results, sent>>
(* a metadata read that fails drops the child as well                      *)
InspectFails ==
    /\ Unlocked /\ ~link.closed /\ Verified /\ link.owner = "running"
    /\ link' = [link EXCEPT !.session = FALSE, !.verified = 0]
    /\ call' = [pc |-> "dropping"]
    /\ UNCHANGED <<serverVars, results, sent>>
(* a later opening finds the owner done and drops it first                 *)
Reopen ==
    /\ Unlocked /\ ~link.closed /\ link.owner = "done"
    /\ link' = [link EXCEPT !.owner = "none", !.session = FALSE, !.verified = 0]
    /\ UNCHANGED <<serverVars, call, results, sent>>
CloseLink ==
    /\ Unlocked /\ ~link.closed
    /\ link' = [link EXCEPT !.closed = TRUE, !.session = FALSE, !.verified = 0]
    /\ call' = IF link.owner = "none" THEN NoCall ELSE [pc |-> "dropping"]
    /\ UNCHANGED <<serverVars, results, sent>>

Serve == \E g \in Gens : ServerStep(g) /\ UNCHANGED linkVars
World == Surroundings /\ UNCHANGED linkVars
Next ==
    \/ \E b \in {"known", "foreign"} : Open(b)
    \/ \E d \in {"none", "schema", "missing"} : Discover(d)
    \/ \E id \in Calls : \E r \in Requests[id] : CallTool(id, r)
    \/ \E garbled \in BOOLEAN : Receive(garbled)
    \/ Timeout \/ Dropped \/ OwnerEnds \/ ChildExit \/ InspectFails \/ Reopen \/ CloseLink
    \/ Serve \/ World
(* the client's timers run; nothing is assumed of the child                *)
Spec == Init /\ [][Next]_vars /\ WF_vars(Timeout) /\ WF_vars(Dropped)

-----------------------------------------------------------------------------
Tools == DOMAIN Registry({})

Screens ==
    [estop : BOOLEAN, front : {"app", "other"}, owner : {1, 2}, quiet : BOOLEAN,
     held : SUBSET (Keys \cup {"thread"})]
Ops == [name : OpNames, of : Keys \cup {"thread"}, input : BOOLEAN]
Jobs ==
    [id : Calls, tool : Tools, pc : JobSteps, target : 0..2, input : BOOLEAN,
     ready : BOOLEAN, allowed : BOOLEAN, todo : Seq(Ops), attempts : Nat,
     failed : BOOLEAN, stop : BOOLEAN, late : Nat, away : Nat]
Children ==
    [alive : BOOLEAN, own : BOOLEAN, listed : 0..2, job : Jobs \cup {Idle}]
Results ==
    {"none", "success", "rejected", "transport_error", "action_error", "unknown_outcome"}
Texts ==
    {"none", "read", "ok"} \cup RejectedTexts \cup ErrorTexts \cup UnknownTexts

TypeOK ==
    /\ mode \in {"safe", "full"}
    /\ screen \in Screens
    /\ child \in [Gens -> Children]
    /\ acted \subseteq Calls
    /\ replies \in [Calls -> [text : Texts, decision : Decisions]]
    /\ link \in [owner : {"none", "running", "stuck", "done"}, session : BOOLEAN,
                  verified : Gens \cup {0}, gen : Gens \cup {0}, closed : BOOLEAN]
    /\ call \in {NoCall, [pc |-> "dropping"]} \cup [pc : {"sent"}, id : Calls, tool : Tools]
    /\ results \in [Calls -> Results]
    /\ sent \in [Calls -> Gens \cup {0}]

(* Only the child of the present generation lives, under an owner task     *)
(* that is not done; a session is given up before its child is dropped.    *)
ChildInv ==
    /\ \A g \in Gens :
        /\ child[g].alive => g = link.gen /\ link.owner \in {"running", "stuck"}
        /\ ~child[g].alive => child[g] = NoChild
    /\ link.session \/ link.owner # "none" => link.gen # 0
    /\ call.pc = "sent" => link.session
    /\ call.pc = "dropping" => ~link.session

(* The call that waits is the one that was sent and has no result; a child *)
(* at work works on that call, or on one that was given up.                *)
CallInv ==
    /\ call.pc = "sent" => sent[call.id] = link.gen /\ results[call.id] = "none"
    /\ \A c \in Calls :
        /\ sent[c] # 0 /\ results[c] = "none" => call.pc = "sent" /\ call.id = c
        /\ sent[c] = 0 => replies[c] = NoReply /\ c \notin acted
        /\ sent[c] # 0 /\ replies[c].text = "none" => results[c] \in {"none", "unknown_outcome"}
        /\ sent[c] <= link.gen
    /\ \A g \in Gens : Working(g) =>
        /\ sent[child[g].job.id] = g
        /\ replies[child[g].job.id] = NoReply
        /\ \/ ~link.session
           \/ /\ call.pc = "sent" /\ call.id = child[g].job.id
              /\ call.tool = child[g].job.tool

(* A step of the desktop is counted before it is answered, and only an     *)
(* action takes one.                                                       *)
Counted(job) ==
    /\ job.attempts = 0 => job.id \notin acted
    /\ job.pc \in Unguarded => job.attempts = 0
    /\ job.pc # "guard" => job.tool \in DOMAIN ActionTools
    /\ job.pc \in {"feel", "act"} => job.todo # <<>>

AnswerInv ==
    /\ \A g \in Gens : Working(g) => Counted(child[g].job)
    /\ call.pc = "sent" /\ call.tool \in DOMAIN ObservationTools =>
        replies[call.id].text \in {"none", "read"} /\ call.id \notin acted

(* Every press of a program has its release behind it; only the activation *)
(* brings a window to the front, and what is attached is no key.           *)
Balanced(todo) ==
    \A i \in DOMAIN todo : todo[i].name = "press" =>
        \E j \in DOMAIN todo :
            j > i /\ todo[j].name = "release" /\ todo[j].of = todo[i].of
Formed(todo, tool) ==
    /\ Balanced(todo)
    /\ \A i \in DOMAIN todo :
        /\ todo[i].name = "front" => tool = "activate_window"
        /\ todo[i].name = "attach" => todo[i].of = "thread"

Releases(todo) == {todo[i].of : i \in {j \in DOMAIN todo : todo[j].name = "release"}}
NoKeyHeld == screen.held \cap Keys = {}

\* What is held while this job runs, its program and its cleanup release.
Released(job) ==
    IF job.pc \in Unguarded \/ (job.failed /\ job.attempts = 0) THEN NoKeyHeld
    ELSE job.failed \/ screen.held \cap Keys \subseteq Releases(job.todo)

\* No call has reached the desktop before this generation.
Untouched(g) == \A h \in Gens : h < g => \A c \in Calls : sent[c] # h

(* What is held is released by what is left of the program, or by its      *)
(* cleanup; a child that begins with an untouched desktop leaves it so.    *)
HeldInv ==
    /\ (\A c \in Calls : sent[c] = 0) => NoKeyHeld
    /\ \A g \in Gens : child[g].alive /\ Untouched(g) =>
        IF child[g].job.pc = "idle" THEN NoKeyHeld ELSE Released(child[g].job)
    /\ \A g \in Gens : Working(g) => Formed(child[g].job.todo, child[g].job.tool)

\* The window an activation is for is no longer the one it was told of.
Gone(g, job) ==
    /\ job.tool = "activate_window"
    /\ ~(job.target # 0 /\ child[g].listed = job.target /\ screen.owner = job.target)

(* A reason to stop lasts until the next check, but for the front, whose   *)
(* return is counted as a new start.                                       *)
Heeds(g, job) ==
    /\ job.target = 2 => screen.owner = 2
    /\ job.stop =>
        \/ screen.estop \/ Gone(g, job)
        \/ mode = "safe" /\ ~job.ready /\ ~job.allowed /\ job.pc \in Sensitive
    /\ job.late <= 1 /\ job.away <= 1
    /\ job.pc \notin {"look", "capture"} => job.late = 0 /\ job.away = 0
    /\ job.late = 1 => screen.estop \/ Gone(g, job)
    /\ job.away = 1 =>
        mode # "full" /\ job.tool # "activate_window" /\ screen.front # "app"

StopInv ==
    \A g \in Gens :
        /\ child[g].listed = 2 => screen.owner = 2
        /\ Working(g) => Heeds(g, child[g].job)

-----------------------------------------------------------------------------
(* native_authority.py:113-141: once the panic key is pressed, the person   *)
(* types, the front or the target is lost, at most the one step already    *)
(* past its checks still reaches the desktop.                              *)
StopsInTime ==
    \A g \in Gens : Working(g) => child[g].job.late <= 1 /\ child[g].job.away <= 1

(* drivers/windows.py:1065,1142,1223: whatever stopped a program, no key or *)
(* button stays pressed once its call is over in a child that lives.       *)
NothingHeld ==
    \A g \in Gens :
        child[g].alive /\ child[g].job.pc = "idle"
        /\ (\A h \in Gens : h < g => ~\E c \in Calls : sent[c] = h)
        => screen.held \cap Keys = {}

(* desktop_mcp.py:730-796 with server.py:523-565: a success carried out its *)
(* whole program; an answer that says nothing was done, or that the action *)
(* was refused, means no step of that call ran then or ever; the audit log *)
(* holds a decision for each action answered.                              *)
AnswerHonest ==
    \A c \in Calls :
        LET text == replies[c].text
            decision == replies[c].decision
        IN /\ results[c] = "success" => text \in {"ok", "read"}
           /\ results[c] \in {"rejected", "transport_error", "action_error"} =>
                c \notin acted
           /\ text \in RejectedTexts \cup ErrorTexts => c \notin acted
           /\ text \notin {"none", "read"} =>
                /\ decision = "unknown_outcome" <=> text \in UnknownTexts
                /\ decision = "ok" <=> text \in {"ok", "driver_error"}

(* desktop_mcp.py:520-528,561-608: a child of an earlier generation never  *)
(* works beside the present one, and no call is sent to two.               *)
OneHand ==
    /\ Cardinality({g \in Gens : child[g].alive}) <= 1
    /\ \A g \in Gens : Working(g) =>
         \A c \in Calls : sent[c] # 0 /\ results[c] = "none" => child[g].job.id = c

(* desktop_mcp.py:757-787: the caller of a dispatched call is always        *)
(* answered, whatever the child does.                                      *)
CallEnds == \A c \in Calls : sent[c] # 0 ~> results[c] # "none" /\ Unlocked

(* The inductive invariant of the proofs: one child, one call, and a job   *)
(* that heeds what would stop it and releases what it holds.               *)
DesktopInv ==
    /\ TypeOK /\ ChildInv /\ CallInv /\ AnswerInv /\ HeldInv /\ StopInv
    /\ AnswerHonest

(* However a call and its child end, nothing stays pressed and no second   *)
(* child works the desktop beside the first.                               *)
DesktopLeftAlone == NothingHeld /\ OneHand
=============================================================================
