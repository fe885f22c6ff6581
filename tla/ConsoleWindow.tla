---------------------------- MODULE ConsoleWindow ----------------------------
(***************************************************************************)
(* The review window over the session: FormalDemoConsoleWindow and         *)
(* Win32FormalDemoConsoleApi. Every callback runs in the message loop; a    *)
(* Win32 call may fail at any of them, DestroyWindow too. What is kept of   *)
(* the controls is the text they show and whether they are enabled.        *)
(***************************************************************************)
EXTENDS FormalDemo, FiniteSetsExt

VARIABLES
    native,     \* "none", "alive", "gone"
    held,       \* FormalDemoConsoleWindow._hwnd is not None
    panel,      \* what the controls show
    pump,       \* "before", "running", "quitting", "returned", "raised"
    faulted     \* the window is in _faulted_windows
windowVars == <<native, held, panel, pump, faulted>>

Nothing == [task |-> "", detail |-> Rejected, draft |-> FALSE, ack |-> FALSE, reset |-> FALSE]
(* FormalDemoConsoleSession.view                                           *)
Projected(s, gs) ==
    [task |-> s.task,
     detail |-> IF s.scope # Rejected THEN s.scope
                ELSE IF s.gate # 0 THEN gs[s.gate].disclosure ELSE Rejected,
     draft |-> Stage(s, gs) = "draft", ack |-> Stage(s, gs) = "disclosure_ready",
     reset |-> Stage(s, gs) # "cancelled"]
WindowInit == native = "none" /\ held = FALSE /\ panel = Nothing /\ pump = "before" /\ faulted = FALSE

Steps == 0..3
Applied_EnabledFirst(old, view, done) ==
    [old EXCEPT !.draft = IF done >= 1 THEN view.draft ELSE @,
        !.ack = IF done >= 1 THEN view.ack ELSE @, !.reset = IF done >= 1 THEN view.reset ELSE @,
        !.task = IF done >= 2 THEN view.task ELSE @,
        !.detail = IF done >= 3 THEN view.detail ELSE @]
(* apply, which may stop after any of its steps: the task, the disclosure,  *)
(* then what is enabled                                                    *)
Applied(old, view, done) ==
    [old EXCEPT !.task = IF done >= 1 THEN view.task ELSE @,
        !.detail = IF done >= 2 THEN view.detail ELSE @,
        !.draft = IF done >= 3 THEN view.draft ELSE @,
        !.ack = IF done >= 3 THEN view.ack ELSE @, !.reset = IF done >= 3 THEN view.reset ELSE @]
(* destroy: WM_DESTROY is dispatched inside the call and ends the loop      *)
Destroyed(ok) ==
    IF native = "alive" /\ ok
    THEN native' = "gone" /\ pump' = IF pump = "running" THEN "quitting" ELSE pump
    ELSE UNCHANGED <<native, pump>>

(* FormalDemoConsoleWindow.open, the first step of run                      *)
Open(created, done, ok) ==
    /\ pump = "before"
    /\ IF created /\ done = 3
       THEN /\ native' = "alive" /\ held' = TRUE /\ pump' = "running"
            /\ panel' = Applied(Nothing, Projected(session, gates), done)
            /\ UNCHANGED <<demoVars, faulted>>
       ELSE /\ CancelSession /\ pump' = "raised"
            /\ native' = IF ~created THEN "none" ELSE IF ok THEN "gone" ELSE "alive"
            /\ UNCHANGED <<held, panel, faulted>>
(* _on_message: an exception in a callback marks the window and destroys it *)
Shows(done, ok) ==
    /\ panel' = Applied(panel, Projected(session', gates'), done)
    /\ IF done = 3 THEN UNCHANGED <<native, pump, faulted>> ELSE faulted' = TRUE /\ Destroyed(ok)
    /\ UNCHANGED held
Inert == UNCHANGED <<demoVars, windowVars>>
Running == pump = "running" /\ native = "alive"
(* read_task or read_acknowledgement fails: the session is not asked        *)
ReadFails(ok) ==
    /\ Running /\ held /\ (panel.draft \/ panel.ack)
    /\ faulted' = TRUE /\ Destroyed(ok) /\ UNCHANGED <<demoVars, held, panel>>
PressReview(task, route, done, ok) ==
    /\ Running /\ panel.draft
    /\ IF held THEN Review(task, route) /\ Shows(done, ok) ELSE Inert
PressAcknowledge(token, fails, done, ok) ==
    /\ Running /\ panel.ack
    /\ IF held THEN ConsoleAcknowledge(token, fails) /\ Shows(done, ok) ELSE Inert
PressReset(done, ok) ==
    /\ Running /\ panel.reset
    /\ IF held THEN Reset /\ Shows(done, ok) ELSE Inert
(* close, from the button, WM_CLOSE or Escape. What Escape raises leaves    *)
(* the loop by _route_message                                              *)
PressClose(escape, ok, again) ==
    /\ Running /\ CancelSession /\ held' = FALSE /\ UNCHANGED panel
    /\ IF ~held THEN UNCHANGED <<native, pump, faulted>>
       ELSE IF ok THEN Destroyed(TRUE) /\ UNCHANGED faulted
       ELSE IF escape THEN pump' = "raised" /\ UNCHANGED <<native, faulted>>
       ELSE faulted' = TRUE /\ Destroyed(again)
Quit_Unclosed ==
    /\ pump = "quitting" /\ UNCHANGED demoVars
    /\ pump' = (IF faulted THEN "raised" ELSE "returned") /\ held' = FALSE
    /\ UNCHANGED <<native, panel, faulted>>
(* the end of run and its finally                                          *)
Quit ==
    /\ pump = "quitting" /\ CancelSession
    /\ pump' = (IF faulted THEN "raised" ELSE "returned") /\ held' = FALSE
    /\ UNCHANGED <<native, panel, faulted>>
(* dispose, of the launcher                                                *)
Dispose(ok) ==
    /\ pump \in {"returned", "raised"} /\ native = "alive" /\ Destroyed(ok)
    /\ UNCHANGED <<demoVars, held, panel, faulted>>

WindowNext ==
    \/ \E done \in Steps, ok \in BOOLEAN :
         \/ \E created \in BOOLEAN : Open(created, done, ok)
         \/ \E t \in Tasks, r \in Routes : PressReview(t, r, done, ok)
         \/ \E token \in {"COMPILE", "other"}, fails \in BOOLEAN :
              PressAcknowledge(token, fails, done, ok)
         \/ PressReset(done, ok)
    \/ \E escape, ok, again \in BOOLEAN : PressClose(escape, ok, again)
    \/ Quit
    \/ \E ok \in BOOLEAN : ReadFails(ok) \/ Dispose(ok)

-----------------------------------------------------------------------------
(* formal_demo_console_win32.py:496-526,610-625: COMPILE can only be said   *)
(* to the disclosure that is on the screen, also in a window that failed    *)
(* half way through a change and could not be destroyed; a window with no   *)
(* fault shows all of the session.                                         *)
ShowsWhatItAsks ==
    Running =>
      /\ held /\ panel.ack /\ Stage(session, gates) = "disclosure_ready" =>
           panel.detail = gates[session.gate].digest
      /\ ~faulted => held /\ panel = Projected(session, gates)

(* formal_demo_console.py:569-587: however the loop ends, the session is    *)
(* cancelled and keeps no text, and a fault is never reported as success.   *)
LeavesNothing ==
    pump \in {"returned", "raised"} =>
      /\ session = [NoSession EXCEPT !.cancelled = TRUE]
      /\ pump = "returned" => native = "gone" /\ ~faulted

(* The console asks for nothing but what it shows, and keeps nothing.      *)
ConsoleHonest == ShowsWhatItAsks /\ LeavesNothing
-----------------------------------------------------------------------------
(* Where the window and its controls are put:                              *)
(* formal_demo_console_win32.py:204-397 over operator_accessibility.py.    *)
(* A rectangle is x, y, width, height; the text scale is in percent.       *)

(* Python's round of a / b: half goes to the even neighbour                 *)
Rounded(a, b) ==
    LET q == a \div b
        twice == 2 * (a % b)
    IN IF twice > b \/ (twice = b /\ q % 2 = 1) THEN q + 1 ELSE q
Least(a, b) == Min({a, b})
Most(a, b) == Max({a, b})
TextDpi(dpi, scale) == Least(384, Most(96, Rounded(dpi * scale, 100)))
LayoutDpi(dpi, scale) == Least(192, TextDpi(dpi, scale))
Scaled(value, dpi) == Most(1, Rounded(value * dpi, 96))
MinWidth == 680
MinHeight == 600
ClientSize(dpi, scale) ==
    LET g == LayoutDpi(dpi, scale)
    IN [w |-> Most(MinWidth, Scaled(980, g)), h |-> Most(MinHeight, Scaled(780, g))]

(* _bounded_window_at: the origin that was suggested, where the area allows *)
BoundedAt(x, y, size, area) ==
    LET w == Least(size.w, area.w)
        h == Least(size.h, area.h)
    IN [x |-> Least(Most(x, area.x), area.x + area.w - w),
        y |-> Least(Most(y, area.y), area.y + area.h - h), w |-> w, h |-> h]
(* _bounded_window_rect: centred                                           *)
Centred(size, area) ==
    LET w == Least(size.w, area.w)
        h == Least(size.h, area.h)
    IN [x |-> area.x + (area.w - w) \div 2, y |-> area.y + (area.h - h) \div 2, w |-> w, h |-> h]

Rect(x, y, w, h) == [x |-> x, y |-> y, w |-> w, h |-> h]
TooSmall == [rejected |-> TRUE]
(* What a rendition at these dots per inch asks for; a window that is not   *)
(* tall enough for that gets narrower margins.                              *)
Sizes(g, t) ==
    [label |-> Most(Scaled(22, g), Scaled(19, t)), button |-> Most(Scaled(38, g), Scaled(22, t)),
     least |-> Most(Scaled(32, g), Scaled(19, t)), margin |-> Scaled(18, g),
     gap |-> Scaled(10, g), pair |-> Most(Scaled(150, g), Scaled(120, t)),
     task |-> Most(Scaled(92, g), Scaled(54, t)),
     ackLabel |-> Most(Scaled(170, g), Scaled(130, t)),
     ackEdit |-> Most(Scaled(190, g), Scaled(140, t))]
Spaced_Always(height, s) == s
Spaced(height, s) ==
    IF height < 2 * s.margin + 5 * s.gap + 3 * s.label + 3 * s.button + 2 * s.least
    THEN [s EXCEPT !.margin = Least(@, 4), !.gap = Least(@, 4)] ELSE s
(* The rows from the top; the document takes what is left.                  *)
Placed(width, height, s) ==
    LET content == width - 2 * s.margin
        pair == Least(s.pair, Most(1, (content - s.gap) \div 2))
        row == Most(s.label, s.button)
        document == height - (2 * s.margin + 5 * s.gap + 3 * s.label + 2 * s.button + row)
        task == Least(s.task, Most(s.least, document \div 3))
        y1 == s.margin + s.label + s.gap
        y2 == y1 + s.label + task + s.gap
        y3 == y2 + s.button + s.gap
        y4 == y3 + s.label + (document - task) + s.gap
        y5 == y4 + row + s.gap
        across == content - 2 * s.gap
        ackLabel == Least(s.ackLabel, Most(1, across \div 3))
        ackEdit == Least(s.ackEdit, Most(1, (across - ackLabel) \div 2))
        x2 == s.margin + ackLabel + s.gap
    IN IF width < MinWidth \/ height < MinHeight \/ content <= s.gap \/ document < 2 * s.least
       THEN TooSmall
       ELSE [mode |-> Rect(s.margin, s.margin, content, s.label),
             task_label |-> Rect(s.margin, y1, content, s.label),
             task_edit |-> Rect(s.margin, y1 + s.label, content, task),
             review |-> Rect(s.margin, y2, pair, s.button),
             reset |-> Rect(s.margin + pair + s.gap, y2, pair, s.button),
             detail_label |-> Rect(s.margin, y3, content, s.label),
             detail_edit |-> Rect(s.margin, y3 + s.label, content, document - task),
             ack_label |-> Rect(s.margin, y4, ackLabel, row),
             ack_edit |-> Rect(x2, y4, ackEdit, row),
             ack_button |-> Rect(x2 + ackEdit + s.gap, y4, across - ackLabel - ackEdit, row),
             start |-> Rect(s.margin, y5, pair, s.button),
             cancel |-> Rect(width - s.margin - pair, y5, pair, s.button)]
(* _layout_rects                                                           *)
LayoutRects(width, height, dpi, scale) ==
    Placed(width, height, Spaced(height, Sizes(LayoutDpi(dpi, scale), TextDpi(dpi, scale))))
Apart(a, b) == a.x + a.w <= b.x \/ b.x + b.w <= a.x \/ a.y + a.h <= b.y \/ b.y + b.h <= a.y
Inside(r, box) ==
    r.x >= box.x /\ r.y >= box.y /\ r.x + r.w <= box.x + box.w /\ r.y + r.h <= box.y + box.h
(* _outer_size; the frame is Windows' own                                  *)
Frame(dpi) == [w |-> Scaled(16, dpi), h |-> Scaled(39, dpi)]
OuterSize(size, dpi) == [w |-> size.w + Frame(dpi).w, h |-> size.h + Frame(dpi).h]
(* _restore_layout_window: the size first asked for, kept on the screen     *)
Restored(dpi, scale, area) ==
    LET got == BoundedAt(area.x, area.y, OuterSize(ClientSize(dpi, scale), dpi), area)
    IN [w |-> got.w - Frame(dpi).w, h |-> got.h - Frame(dpi).h]
(* _layout of a window the operator gave some size: it is restored once     *)
Placing(size, dpi, scale) ==
    [size |-> size, rects |-> LayoutRects(size.w, size.h, dpi, scale)]
OrElse(first, again) == IF first.rects # TooSmall THEN first ELSE again
Laid(size, dpi, scale, area) ==
    OrElse(Placing(size, dpi, scale), Placing(Restored(dpi, scale, area), dpi, scale))
ControlsFit(laid) ==
    /\ laid.rects # TooSmall
    /\ \A a, b \in DOMAIN laid.rects :
          /\ laid.rects[a].w > 0 /\ laid.rects[a].h > 0
          /\ Inside(laid.rects[a], Rect(0, 0, laid.size.w, laid.size.h))
          /\ a # b => Apart(laid.rects[a], laid.rects[b])
(* What the controls need at least of the client area, when the margins are *)
(* given up; and a work area, in the screen's own pixels, that has it.     *)
LeastHeight(s) == Most(MinHeight, 7 * 4 + 3 * s.label + 3 * s.button + 2 * s.least)
HasRoom(dpi, scale, area) ==
    /\ area.w >= MinWidth + Frame(dpi).w
    /\ area.h >= LeastHeight(Sizes(LayoutDpi(dpi, scale), TextDpi(dpi, scale))) + Frame(dpi).h
(* formal_demo_console_win32.py:272-402,867-881: whatever size the operator *)
(* drags the window to, the controls that are placed lie inside the client *)
(* area, apart from each other, and none vanishes; and they are all placed *)
(* on a screen that has room for them at its DPI and the text scale. Only   *)
(* on a screen without it does the size that is restored not help: there   *)
(* _layout returns and moves no control. The window stays on the screen.   *)
ControlsApart(size, dpi, scale, area) ==
    LET laid == Laid(size, dpi, scale, area)
        again == Placing(Restored(dpi, scale, area), dpi, scale)
    IN /\ laid.rects # TooSmall => ControlsFit(laid)
       /\ HasRoom(dpi, scale, area) => laid.rects # TooSmall
       /\ ~HasRoom(dpi, scale, area) => again.rects = TooSmall
       /\ Inside(Centred(OuterSize(ClientSize(dpi, scale), dpi), area), area)
=============================================================================
