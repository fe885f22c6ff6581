------------------------------ MODULE MCDesktop ------------------------------
(* Two calls over two generations of the child; and, as a part of its own,  *)
(* the refs of one session. The steps of drag, scroll and type are those   *)
(* of a click with failing moves.                                          *)
EXTENDS DesktopLink, SessionRefs
Ask(tool, args, authorized) == [tool |-> tool, args |-> args, authorized |-> authorized]
Point == [x |-> 1, y |-> 1]
MCRequests ==
    <<{Ask("list_windows", [f \in {} |-> 0], TRUE), Ask("click", Point, TRUE),
       Ask("click", Point, FALSE)},
      {Ask("activate_window", [window_id |-> 1], TRUE),
       Ask("key", [combo |-> "Ctrl+S"], TRUE), Ask("click", [x |-> 1], TRUE)}>>
Box(x) == [x |-> x, y |-> 0, w |-> 1, h |-> 1]
Control(uid, native, name, words, x, value) ==
    [uid |-> uid, native |-> native, role |-> IF value = "none" THEN "Button" ELSE "Edit",
     name |-> name, words |-> words \cup {name}, box |-> Box(x), state |-> "enabled",
     secret |-> value = "password", patterns |-> {"invoke"}, text |-> value,
     value |-> value, above |-> {}]
Password == Control(3, "n3", "secret", {}, 3, "password")
(* "ok all" is found by a search for "ok"; it is a part of the password     *)
(* field, and its text shows what that holds                               *)
FreshUniverse ==
    <<Control(1, "n1", "ok", {}, 0, "none"), Control(2, "n2", "ok", {}, 2, "none"), Password,
      [Control(4, "n4", "ok all", {"ok"}, 1, "none") EXCEPT !.above = {3}, !.text = "password"]>>
(* the fourth control takes over the runtime id of the first               *)
ReusedUniverse ==
    <<Control(1, "n1", "ok", {}, 0, "none"), Control(2, "n2", "ok", {}, 2, "none"), Password,
      Control(4, "n1", "send", {}, 1, "none")>>
MCWindow == [x |-> 0, y |-> 0, w |-> 4, h |-> 1]
MCDesktop == {[id |-> 1, pid |-> 1, title |-> "mail", visible |-> TRUE, dialog |-> FALSE,
                box |-> [x |-> 1, y |-> 0, w |-> 3, h |-> 2]],
              [id |-> 2, pid |-> 1, title |-> "notes", visible |-> TRUE, dialog |-> FALSE,
                box |-> [x |-> 0, y |-> 1, w |-> 2, h |-> 1]]}

VARIABLE part
PartInit == Init /\ RefInit /\ part \in {"link", "refs"}
PartNext ==
    \/ part = "link" /\ Next /\ UNCHANGED <<part, refVars>>
    \/ part = "refs" /\ RefNext /\ UNCHANGED <<part, vars>>
PartSpec ==
    /\ PartInit /\ [][PartNext]_<<part, vars, refVars>>
    /\ WF_vars(Timeout /\ UNCHANGED <<part, refVars>>)
    /\ WF_vars(Dropped /\ UNCHANGED <<part, refVars>>)
RefSpec == PartInit /\ part = "refs" /\ [][PartNext]_<<part, vars, refVars>>
=============================================================================
