---------------------------- MODULE PublicWebWord ----------------------------
(***************************************************************************)
(* public_web_word.py and public_web_word_runtime.py: the fixed workflow   *)
(* that lets a model read a page in Chrome and write a brief into a Word   *)
(* document.  The model proposes every call; the wrapper around it checks  *)
(* each proposal against the successful results in the run's ledger; the   *)
(* host launches the applications, closes them (disposable_process.py),    *)
(* reopens the document in a second Word and only then writes a receipt    *)
(* (product_receipt.py).                                                   *)
(***************************************************************************)
EXTENDS Integers, Sequences, FiniteSets

CONSTANTS
    Briefs,             \* the briefs the model may write
    MaxCorrections      \* max_proposal_corrections

ASSUME WordAssumption == MaxCorrections \in Nat

VARIABLES
    flow,       \* the step of run_public_web_word_workflow, the corrections
                \* of this turn, and whether the Runner wants an observation
    evidence,   \* the ledger, as the guards read it
    note,       \* _accepted_notes of the run, "none" at first
    desk,       \* the front window, whether Word's editor has the focus,
                \* the briefs in Word and in the file, and those typed
                \* into another window
    process     \* what was launched, and what is on the screen of it

wordVars == <<flow, evidence, note, desk, process>>

Windows == {"chrome", "word"}
WordEffects == {"activate_window", "click", "type", "key"}
Call(tool, on) == [tool |-> tool, on |-> on]
Proposals ==
    {Call(tool, "none") : tool \in {"list_windows", "ocr", "screenshot"}}
    \cup {Call(tool, w) : tool \in {"ui_snapshot", "document_text", "activate_window"},
                          w \in Windows \cup {"other"}}
    \cup {Call("click", p) : p \in {"editor", "elsewhere"}}
    \cup {Call("key", k) : k \in {"PageDown", "Ctrl+End", "Ctrl+S", "Enter"}}
    \cup {Call("type", b) : b \in Briefs}

NoEvidence ==
    [windows |-> FALSE,     \* the last list names both fixtures, once each
     listed |-> FALSE,      \* and no action has come after it
     title |-> FALSE, content |-> FALSE,    \* of the page in Chrome
     scoped |-> "none",     \* the window observed last by its scope
     effect |-> Call("none", "none"),       \* the last action
     editor |-> "none",     \* Word's editor in its last snapshot
     newer |-> {},          \* what has come after that snapshot
     done |-> {},           \* actions done at some time
     stage |-> "writing"]   \* of a brief that was typed

WordInit ==
    /\ flow = [at |-> "launch", corrections |-> 0, reobserve |-> FALSE]
    /\ evidence = NoEvidence
    /\ note = "none"
    /\ desk = [front |-> "other", focus |-> FALSE, word |-> {}, file |-> {}, stray |-> {}]
    /\ process = [p \in {"word", "chrome", "verifier"} |-> "none"]

-----------------------------------------------------------------------------
(* The guards of _validate_call.                                           *)
SourceVerified == evidence.title /\ evidence.content

(* Once a brief was typed: read it, save it, read it again, finish.        *)
StageAllows(c) ==
    CASE evidence.stage = "writing" -> TRUE
      [] evidence.stage \in {"typed", "saved"} -> c = Call("document_text", "word")
      [] evidence.stage = "read" -> c = Call("key", "Ctrl+S")
      [] evidence.stage = "reread" -> FALSE

(* The last action was the activation of Word, and a snapshot of its       *)
(* editor has come after it.                                               *)
EditorInFront ==
    /\ evidence.editor # "none"
    /\ evidence.effect = Call("activate_window", "word")
    /\ "activate_window" \notin evidence.newer
FocusedSince(action) ==
    action \in evidence.done /\ action \notin evidence.newer /\ evidence.editor = "focused"

CallAllowed(c) ==
    CASE c.tool = "activate_window" ->
            c.on \in Windows /\ evidence.listed /\ (c.on = "word" => SourceVerified)
      [] c.tool \in {"ui_snapshot", "document_text"} -> c.on \in Windows
      [] c.tool = "ocr" -> evidence.scoped = "chrome"
      [] c.tool = "screenshot" -> EditorInFront
      [] c.tool = "click" ->
            c.on = "editor" /\ EditorInFront /\ "screenshot" \in evidence.newer
      [] c.tool = "type" -> evidence.content /\ FocusedSince("Ctrl+End")
      [] c.tool = "key" ->
            CASE c.on = "PageDown" -> evidence.scoped = "chrome"
              [] c.on = "Ctrl+End" -> FocusedSince("click")
              [] c.on = "Ctrl+S" -> evidence.stage = "read"
              [] OTHER -> FALSE

Validated_StageLast(c) ==
    c.tool # "list_windows" => evidence.windows /\ CallAllowed(c)
Validated(c) ==
    c.tool # "list_windows" => evidence.windows /\ StageAllows(c) /\ CallAllowed(c)

(* create_turn: a call that is not advertised or not valid goes back to    *)
(* the model, a bounded number of times in a turn.                         *)
Acceptable(c) == (c.tool \in WordEffects => ~flow.reobserve) /\ Validated(c)
ProposalRejected(c) ==
    /\ flow.at = "turns" /\ ~Acceptable(c)
    /\ flow' = IF flow.corrections = MaxCorrections THEN [flow EXCEPT !.at = "failing"]
               ELSE [flow EXCEPT !.corrections = @ + 1]
    /\ UNCHANGED <<evidence, note, desk, process>>

-----------------------------------------------------------------------------
(* A valid observation, and what the next guards will know of it.          *)
Known(observed) ==
    /\ evidence' = observed
    /\ flow' = [flow EXCEPT !.corrections = 0, !.reobserve = FALSE]
    /\ UNCHANGED <<note, desk, process>>
ObserveWindows(both) ==
    /\ flow.at = "turns"
    /\ Known([evidence EXCEPT !.windows = both, !.listed = TRUE])
ObserveChrome(c, read) ==
    /\ flow.at = "turns" /\ Acceptable(c)
    /\ c \in {Call("ui_snapshot", "chrome"), Call("document_text", "chrome"), Call("ocr", "none")}
    /\ CASE c.tool = "ui_snapshot" ->
              Known([evidence EXCEPT !.title = @ \/ read, !.scoped = "chrome"])
         [] c.tool = "document_text" ->
              Known([evidence EXCEPT !.content = @ \/ read, !.scoped = "chrome"])
         [] c.tool = "ocr" -> Known([evidence EXCEPT !.content = @ \/ read])
(* _latest_word_editor: one main editor, and its focus if it has it.       *)
SnapshotWord(clear) ==
    /\ flow.at = "turns" /\ Acceptable(Call("ui_snapshot", "word"))
    /\ Known([evidence EXCEPT
                 !.scoped = "word", !.newer = {},
                 !.editor = IF ~clear THEN "none"
                            ELSE IF desk.front = "word" /\ desk.focus THEN "focused"
                            ELSE "unfocused"])
(* _pre_save_verified and _post_save_verified: a complete text that has    *)
(* the whole brief.                                                        *)
ReadWord(complete) ==
    /\ flow.at = "turns" /\ Acceptable(Call("document_text", "word"))
    /\ Known([evidence EXCEPT
                 !.scoped = "word",
                 !.stage = IF ~complete \/ note \notin desk.word THEN @
                           ELSE IF @ = "typed" THEN "read"
                           ELSE IF @ = "saved" THEN "reread" ELSE @])
TakeScreenshot ==
    /\ flow.at = "turns" /\ Acceptable(Call("screenshot", "none"))
    /\ Known([evidence EXCEPT !.newer = @ \cup {"screenshot"}])

-----------------------------------------------------------------------------
(* What an action does to the desktop, wherever the front is by then.      *)
Typed(b) ==
    IF desk.front = "word" /\ desk.focus THEN [desk EXCEPT !.word = @ \cup {b}]
    ELSE [desk EXCEPT !.stray = @ \cup {b}]
OnDesk(c) ==
    CASE c.tool = "activate_window" -> [desk EXCEPT !.front = c.on]
      [] c.tool = "click" -> [desk EXCEPT !.focus = @ \/ desk.front = "word"]
      [] c.tool = "type" -> Typed(c.on)
      [] c = Call("key", "Ctrl+S") /\ desk.front = "word" -> [desk EXCEPT !.file = desk.word]
      [] OTHER -> desk
Name(c) == IF c.tool = "key" THEN c.on ELSE c.tool

(* _validate_call notes the brief before anything is dispatched.           *)
Noted(c) == note' = IF c.tool = "type" THEN c.on ELSE note

ActDone(c) ==
    /\ flow.at = "turns" /\ c.tool \in WordEffects /\ Acceptable(c)
    /\ c.tool = "activate_window" \/ desk.front \in Windows
    /\ desk' = OnDesk(c) /\ Noted(c)
    /\ evidence' = [evidence EXCEPT
                       !.listed = FALSE, !.effect = c,
                       !.newer = @ \cup {Name(c)}, !.done = @ \cup {Name(c)},
                       !.stage = IF c.tool = "type" THEN "typed"
                                 ELSE IF c = Call("key", "Ctrl+S") THEN "saved" ELSE @]
    /\ flow' = [flow EXCEPT !.corrections = 0, !.reobserve = TRUE]
    /\ UNCHANGED process
(* The desktop refuses (a person is there, the front is not allowed): the  *)
(* action was not dispatched, and the ledger's successes are as before.    *)
ActRefused(c) ==
    /\ flow.at = "turns" /\ c.tool \in WordEffects /\ Acceptable(c)
    /\ Noted(c)
    /\ flow' = [flow EXCEPT !.corrections = 0, !.reobserve = TRUE]
    /\ UNCHANGED <<evidence, desk, process>>
(* The outcome is unknown: the run ends, and the action may have happened. *)
ActUnknown(c) ==
    /\ flow.at = "turns" /\ c.tool \in WordEffects /\ Acceptable(c)
    /\ Noted(c)
    /\ desk' \in {desk, OnDesk(c)}
    /\ flow' = [flow EXCEPT !.at = "failing"]
    /\ UNCHANGED <<evidence, process>>
(* A budget of the Runner, a timeout, a cancellation.                      *)
RunStops ==
    /\ flow.at = "turns"
    /\ flow' = [flow EXCEPT !.at = "failing"]
    /\ UNCHANGED <<evidence, note, desk, process>>

(* _require_complete: a turn without a call; what the model says is not    *)
(* looked at.                                                              *)
Finished == evidence.windows /\ SourceVerified /\ evidence.stage = "reread"
FinishTurns ==
    /\ flow.at = "turns"
    /\ flow' = [flow EXCEPT !.at = IF Finished THEN "saving" ELSE "failing"]
    /\ UNCHANGED <<evidence, note, desk, process>>

-----------------------------------------------------------------------------
(* run_public_web_word_workflow around the runs: launch, the poll of the   *)
(* file, the cleanup, the reopened document, the receipt.                  *)
Ready(p) == process'[p] = "window"
StepTo(at) == flow' = [flow EXCEPT !.at = at, !.corrections = 0, !.reobserve = FALSE]
Appears(p) ==
    /\ \E shown \in {"window", "gone", "hidden"} : process' = [process EXCEPT ![p] = shown]
    /\ desk' = [desk EXCEPT !.front = IF Ready(p) /\ p \in Windows THEN p ELSE @]

(* launch_public_web_word_fixtures: Word, then Chrome; each is owned from  *)
(* its start, whether or not its window comes.                             *)
Launch ==
    \/ /\ flow.at = "launch" /\ process["word"] = "none"
       /\ Appears("word")
       /\ StepTo(IF Ready("word") THEN "launch" ELSE "failing")
       /\ UNCHANGED <<evidence, note>>
    \/ /\ flow.at = "launch" /\ process["word"] = "window"
       /\ Appears("chrome")
       /\ StepTo(IF Ready("chrome") THEN "turns" ELSE "failing")
       /\ UNCHANGED <<evidence, note>>
Fixtures == {"word", "chrome"}

(* verify_public_web_word_document over the bytes of the file              *)
OnFile(b) == b \in desk.file
WaitForFile ==
    /\ flow.at = "saving"
    /\ StepTo(IF OnFile(note) THEN "closing" ELSE "failing")
    /\ UNCHANGED <<evidence, note, desk, process>>

(* cleanup_disposable_processes: what it may leave of one process.  A Word *)
(* with changes that are not in the file asks, in an owned dialog, what to *)
(* do with them, and is left to the operator; a window that ignores the    *)
(* request is terminated; whatever raises leaves it as it is.              *)
CloseProcess(p) ==
    CASE process[p] = "window" ->
            IF p = "word" /\ desk.word # desk.file THEN {"dialog", "gone", "window"}
            ELSE {"hidden", "gone", "dialog", "window"}
      [] process[p] = "hidden" -> {"gone", "hidden"}
      [] OTHER -> {process[p]}
Closed(ps) == \A p \in ps : process'[p] \in {"none", "hidden", "gone"}
Cleanup(ps) ==
    /\ process' \in [DOMAIN process -> {"none", "window", "hidden", "dialog", "gone"}]
    /\ \A p \in DOMAIN process :
          process'[p] \in IF p \in ps THEN CloseProcess(p) ELSE {process[p]}
    /\ UNCHANGED <<evidence, note, desk>>

(* The first cleanup, after a failure or after the poll.                   *)
CloseFixtures ==
    \/ /\ flow.at = "failing" /\ process["verifier"] = "none"
       /\ Cleanup(Fixtures) /\ StepTo("failed")
    \/ /\ flow.at = "closing"
       /\ Cleanup(Fixtures) /\ StepTo(IF Closed(Fixtures) THEN "reopen" ELSE "failed")

(* _launch_word_verifier, and the second run: it reads the document that   *)
(* was reopened, twice at most.                                            *)
LaunchVerifier ==
    /\ flow.at = "reopen" /\ process["verifier"] = "none"
    /\ Appears("verifier")
    /\ StepTo(IF Ready("verifier") THEN "reading" ELSE "failing")
    /\ UNCHANGED <<evidence, note>>
ReadReopened(complete) ==
    /\ flow.at = "reading"
    /\ StepTo(IF complete /\ OnFile(note) THEN "reclosing" ELSE "failing")
    /\ UNCHANGED <<evidence, note, desk, process>>
CloseVerifier ==
    \/ /\ flow.at = "failing" /\ process["verifier"] # "none"
       /\ Cleanup({"verifier"}) /\ StepTo("failed")
    \/ /\ flow.at = "reclosing"
       /\ Cleanup({"verifier"})
       /\ StepTo(IF Closed({"verifier"}) THEN "receipt" ELSE "failed")
(* write_public_web_word_receipt                                           *)
WriteReceipt ==
    /\ flow.at = "receipt"
    /\ StepTo("published") \/ StepTo("failed")
    /\ UNCHANGED <<evidence, note, desk, process>>

(* The person at the desktop brings another window to the front.           *)
FrontMoves(w) ==
    /\ flow.at = "turns" /\ desk.front # w
    /\ desk' = [desk EXCEPT !.front = w]
    /\ UNCHANGED <<flow, evidence, note, process>>

WordNext ==
    \/ \E c \in Proposals :
          \/ ProposalRejected(c) \/ ActDone(c) \/ ActRefused(c) \/ ActUnknown(c)
          \/ \E read \in BOOLEAN : ObserveChrome(c, read)
    \/ \E yes \in BOOLEAN :
          ObserveWindows(yes) \/ SnapshotWord(yes) \/ ReadWord(yes) \/ ReadReopened(yes)
    \/ TakeScreenshot \/ RunStops \/ FinishTurns
    \/ Launch \/ WaitForFile \/ CloseFixtures \/ LaunchVerifier \/ CloseVerifier
    \/ WriteReceipt
    \/ \E w \in Windows \cup {"other"} : FrontMoves(w)

WordSpec == WordInit /\ [][WordNext]_wordVars

-----------------------------------------------------------------------------
(* The brief in the document is the one the run checks for, it is typed    *)
(* once, and only after the page was seen: a refused or corrected proposal *)
(* changes neither (_validate_call keeps the note of a proposal before it  *)
(* is known whether the text is typed).                                    *)
OneBrief ==
    /\ Cardinality(desk.word \cup desk.stray) <= 1
    /\ evidence.stage # "writing" => desk.word \cup desk.stray = {note} /\ SourceVerified

(* A receipt is the last word of a run: the brief is in the file, although *)
(* Ctrl+S may have gone to another window and the text was read in the     *)
(* window and not in the file, and nothing that was launched is still on   *)
(* the screen (run_public_web_word_workflow).                              *)
ReceiptTruthful ==
    flow.at = "published" =>
        /\ desk.file = {note}
        /\ \A p \in DOMAIN process : process[p] \in {"hidden", "gone"}

(* What the workflow promises of a run, whatever the model proposes and    *)
(* whoever moves the front window.                                         *)
WordSound == OneBrief /\ ReceiptTruthful

(* A claim of the documentation that the code does not keep: "the Host     *)
(* constrains the exact fixture windows" of the brief, so only Word gets   *)
(* it.  The guard of `type` asks for a snapshot that shows the focus after *)
(* Ctrl+End, not for one after the last activation.                        *)
TypedIntoWord == desk.stray = {}
=============================================================================
