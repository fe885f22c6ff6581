----------------------------- MODULE ApprovalDesk ----------------------------
(***************************************************************************)
(* One effect, one decision: DecisionCardApprovalPort.request_approval     *)
(* (approvals.py) over the card's contract (decision_cards.py), its        *)
(* window (decision_card_window.py, decision_card_window_win32.py) and the *)
(* inbox that tells the operator of it (approval_inbox.py).  The window    *)
(* runs in a thread of its own, which a timeout or a cancellation of the   *)
(* waiting coroutine leaves behind; all windows of a process are of one    *)
(* class, so a card cannot open while another is still on the screen.      *)
(***************************************************************************)
EXTENDS Integers, Sequences

CONSTANTS
    Asked,          \* requests for approval
    Lifetime,       \* timeout_seconds
    LastSecond      \* bound: the clock stops here, and no request
                    \* is made that could not expire before it

ASSUME DeskAssumption == Lifetime \in Nat \ {0} /\ LastSecond \in Nat

VARIABLES
    second,     \* the clock
    awaiting,   \* the request whose coroutine waits, <<>> for none
    card,       \* per request: its state, expiry, focus and selection
    verdict,    \* per request: the decision returned to the runner
    pending,    \* the requests with a record in the approval inbox
    pointed,    \* history: in whose unexpired card "approve" was pointed at
    faulty      \* history: requests whose record could not be removed

deskVars == <<second, awaiting, card, verdict, pending, pointed, faulty>>

(* "later" is for both kinds that neither allow nor deny: reobserve, defer. *)
Options == {"approve", "later", "deny"}
NoCard == [at |-> "none", expires |-> 0, focus |-> "none", selected |-> "none"]

DeskInit ==
    /\ second = 0 /\ awaiting = <<>>
    /\ card = [q \in Asked |-> NoCard]
    /\ verdict = [q \in Asked |-> "none"]
    /\ pending = {} /\ pointed = {} /\ faulty = {}

OnScreen(q) == card[q].at = "shown"

-----------------------------------------------------------------------------
(* attention.close in the finally: of the wait, on every way out; only a   *)
(* file that cannot be unlinked stays.                                     *)
CloseAttention(q) ==
    \/ pending' = pending \ {q} /\ UNCHANGED faulty
    \/ q \in pending /\ faulty' = faulty \cup {q} /\ UNCHANGED pending

Decide(q, kind) ==
    /\ verdict' = [verdict EXCEPT ![q] = kind]
    /\ awaiting' = <<>>

(* compile_decision_card, attention.open (whose failures are swallowed),   *)
(* and the call of the native surface in a thread.                         *)
RequestApproval(q) ==
    /\ awaiting = <<>> /\ verdict[q] = "none" /\ card[q] = NoCard
    /\ second + Lifetime < LastSecond
    /\ awaiting' = <<q>>
    /\ card' = [card EXCEPT ![q] = [NoCard EXCEPT !.at = "starting",
                                       !.expires = second + Lifetime]]
    /\ \/ pending' = pending \cup {q}
       \/ UNCHANGED pending
    /\ UNCHANGED <<second, verdict, pointed, faulty>>

(* A request without a binding is denied before anything is shown.         *)
RequestUnbound(q) ==
    /\ awaiting = <<>> /\ verdict[q] = "none" /\ card[q] = NoCard
    /\ verdict' = [verdict EXCEPT ![q] = "deny"]
    /\ UNCHANGED <<second, awaiting, card, pending, pointed, faulty>>

-----------------------------------------------------------------------------
(* Win32DecisionCardApi.choose: the class is registered and the window     *)
(* built, with the focus on its only deny button, or an OSError is raised. *)
OpenCard_SecondClass(q) ==
    /\ card[q].at = "starting"
    /\ card' = [card EXCEPT ![q].at = "shown", ![q].focus = "deny"]
    /\ UNCHANGED <<second, awaiting, verdict, pending, pointed, faulty>>

OpenCard(q) ==
    /\ card[q].at = "starting"
    /\ \/ /\ ~ \E p \in Asked : OnScreen(p)
          /\ card' = [card EXCEPT ![q].at = "shown", ![q].focus = "deny"]
       \/ card' = [card EXCEPT ![q].at = "failed"]
    /\ UNCHANGED <<second, awaiting, verdict, pending, pointed, faulty>>

(* What the operator does in a card on the screen: a click selects and     *)
(* closes; Tab moves the focus; Enter presses the focused button and       *)
(* nothing else (in the details pane it selects nothing).                  *)
PointAt(q, what) ==
    pointed' = IF what = "approve" /\ second < card[q].expires THEN pointed \cup {q} ELSE pointed
Close(q, option) ==
    card' = [card EXCEPT ![q] = [@ EXCEPT !.at = "closed", !.focus = "none",
                                          !.selected = option]]
Click(q, option) ==
    /\ OnScreen(q)
    /\ Close(q, option)
    /\ PointAt(q, option)
    /\ UNCHANGED <<second, awaiting, verdict, pending, faulty>>
MoveFocus(q, to) ==
    /\ OnScreen(q) /\ card[q].focus # to
    /\ card' = [card EXCEPT ![q].focus = to]
    /\ PointAt(q, to)
    /\ UNCHANGED <<second, awaiting, verdict, pending, faulty>>
Enter(q) ==
    /\ OnScreen(q) /\ card[q].focus \in Options
    /\ Close(q, card[q].focus)
    /\ UNCHANGED <<second, awaiting, verdict, pending, pointed, faulty>>

(* Escape, the close box, and the timer once the deadline has passed; the  *)
(* timer's message may be late.                                            *)
Dismiss(q) ==
    /\ OnScreen(q)
    /\ Close(q, "none")
    /\ UNCHANGED <<second, awaiting, verdict, pending, pointed, faulty>>

-----------------------------------------------------------------------------
(* validate_decision_selection, and the decision drawn from it.            *)
Expired(q) == second >= card[q].expires
Verdict(q) ==
    CASE card[q].selected = "none" \/ Expired(q) -> "deny"
      [] card[q].selected = "approve" /\ ~Expired(q) -> "allow"
      [] OTHER -> card[q].selected

Answer_LatestCard ==
    \E q, p \in Asked :
        /\ awaiting = <<q>> /\ card[p].at = "closed"
        /\ Decide(q, Verdict(p))
        /\ CloseAttention(q)
        /\ UNCHANGED <<second, card, pointed>>

(* The thread returns, or its error is raised, while the coroutine waits.  *)
Answer ==
    \E q \in Asked :
        /\ awaiting = <<q>> /\ card[q].at \in {"closed", "failed"}
        /\ Decide(q, IF card[q].at = "failed" THEN "deny" ELSE Verdict(q))
        /\ CloseAttention(q)
        /\ UNCHANGED <<second, card, pointed>>

GiveUp_Never == FALSE /\ UNCHANGED deskVars
(* asyncio.timeout, two seconds after the card's own deadline: no          *)
(* selection.  The window is not taken down.                               *)
GiveUp ==
    \E q \in Asked :
        /\ awaiting = <<q>> /\ second > card[q].expires
        /\ Decide(q, "deny")
        /\ CloseAttention(q)
        /\ UNCHANGED <<second, card, pointed>>

Cancel_RecordKept ==
    \E q \in Asked :
        /\ awaiting = <<q>>
        /\ Decide(q, "cancelled")
        /\ UNCHANGED <<second, card, pointed, pending, faulty>>
(* CancelledError passes through: no decision, but the record is removed.  *)
Cancel ==
    \E q \in Asked :
        /\ awaiting = <<q>>
        /\ Decide(q, "cancelled")
        /\ CloseAttention(q)
        /\ UNCHANGED <<second, card, pointed>>

(* The process dies: windows and coroutine are gone, the records stay.     *)
ProcessDies ==
    /\ awaiting # <<>>
    /\ awaiting' = <<>>
    /\ verdict' = [q \in Asked |-> IF <<q>> = awaiting THEN "cancelled" ELSE verdict[q]]
    /\ card' = [q \in Asked |-> IF OnScreen(q) \/ card[q].at = "starting"
                                THEN [card[q] EXCEPT !.at = "failed"] ELSE card[q]]
    /\ faulty' = faulty \cup pending
    /\ UNCHANGED <<second, pending, pointed>>

SecondPasses ==
    /\ second < LastSecond
    /\ second' = second + 1
    /\ UNCHANGED <<awaiting, card, verdict, pending, pointed, faulty>>

DeskWaits == Answer \/ GiveUp \/ SecondPasses
DeskNext ==
    \/ DeskWaits \/ Cancel \/ ProcessDies
    \/ \E q \in Asked :
          \/ RequestApproval(q) \/ RequestUnbound(q) \/ OpenCard(q) \/ Enter(q) \/ Dismiss(q)
          \/ \E option \in Options : Click(q, option) \/ MoveFocus(q, option)
          \/ MoveFocus(q, "details")

DeskSpec == DeskInit /\ [][DeskNext]_deskVars

-----------------------------------------------------------------------------
(* build_approval_inbox: what another process is shown of the requests.    *)
InboxStatus(q) ==
    IF q \notin pending THEN "absent"
    ELSE IF second < card[q].expires THEN "pending" ELSE "expired"

(* An effect is allowed only if the operator pointed at "approve" in that  *)
(* request's own card before it expired: no stray Enter, no late answer    *)
(* and no answer meant for an earlier card (approvals.py, the card window  *)
(* and validate_decision_selection together).                              *)
AllowedAsPointed ==
    \A q \in Asked : verdict[q] = "allow" => q \in pointed

(* At most one card is on the screen, although the window of a request     *)
(* that was given up may outlive it (the window class).                    *)
OneCard == \A p, q \in Asked : OnScreen(p) /\ OnScreen(q) => p = q

(* The inbox says "pending" only of a request that is being decided,       *)
(* unless its record could not be removed (request_approval's finally).    *)
InboxHonest ==
    \A q \in Asked : InboxStatus(q) = "pending" /\ q \notin faulty => awaiting = <<q>>

(* Every request is decided, even if its window never answers              *)
(* (DecisionCardWindow.choose's own timeout).                              *)
EveryRequestDecided == \A q \in Asked : awaiting = <<q>> ~> awaiting # <<q>>

(* The decision returned for an effect is the operator's own decision of   *)
(* that effect, made on the only card there was to see.                    *)
DecisionsSound == AllowedAsPointed /\ OneCard

-----------------------------------------------------------------------------
Card == [at : {"none", "starting", "shown", "failed", "closed"}, expires : Int,
         focus : Options \cup {"none", "details"}, selected : Options \cup {"none"}]

DeskTypes ==
    /\ second \in Nat
    /\ card \in [Asked -> Card]
    /\ verdict \in [Asked -> Options \cup {"none", "allow", "cancelled"}]

(* Enter presses what has the focus, so the focus must be as sound as the  *)
(* selection; and an answer is read when the card may have expired since.  *)
CardSound(q) ==
    card[q].focus = "approve" \/ card[q].selected = "approve" =>
        q \in pointed \/ second >= card[q].expires

DeskInv ==
    /\ DeskTypes
    /\ OneCard
    /\ \A q \in Asked : CardSound(q)
    /\ AllowedAsPointed

(* Who is in the inbox without fault is who is being asked.                *)
InboxInv == \A q \in Asked : q \in pending \ faulty => awaiting = <<q>>
=============================================================================
