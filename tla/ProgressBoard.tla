---------------------------- MODULE ProgressBoard ----------------------------
(***************************************************************************)
(* progress_lifecycle.py, progress_poller.py, progress_view.py and         *)
(* campaign_host_status.py beside the campaign that writes the files: a    *)
(* worker thread of the run's process reads the state directory without    *)
(* the run lock, file by file, and draws what it found in a passive        *)
(* window, until the run releases it.                                      *)
(***************************************************************************)
EXTENDS ApplicationCampaign, SequencesExt

CONSTANTS
    SnapshotAttempts,   \* CAMPAIGN_CONTROL_SNAPSHOT_ATTEMPTS
    MaxOverlap,         \* bound: steps of the commands during one poll
    MaxPolls            \* bound: polls that scan

ASSUME BoardAssumption == SnapshotAttempts \in Nat \ {0} /\ {MaxOverlap, MaxPolls} \subseteq Nat

VARIABLES
    worker,     \* RunProgressCoordinator: its thread, the latch of a
                \* release or of a failure, and the polls that scanned
    scan,       \* read_campaign_control_snapshot: this pass, the one before
                \* (<<>> is none), the comparisons made, `now` of the poll,
                \* and the commands' steps meanwhile
    shown,      \* the campaign's row in the window; "closed" is no window
    mid         \* history: the five files when this pass read its first

boardVars == <<worker, scan, shown, mid>>

Disk == <<manifest, items, batch, heartbeat, handoff>>
NoScan == [pass |-> <<>>, previous |-> <<>>, compared |-> 0, now |-> 0, overlap |-> 0]

BoardInit ==
    /\ worker = [thread |-> "none", stop |-> FALSE, polls |-> 0]
    /\ scan = NoScan
    /\ shown = "closed"
    /\ mid = <<>>

-----------------------------------------------------------------------------
(* project_campaign_control_snapshot over an accepted tuple: CampaignStore *)
(* read from the pass, not from the disk.  A handoff file that the durable *)
(* state has moved past makes _decode_handoff refuse the whole campaign,   *)
(* whatever the manifest says.                                             *)
Snap(f) == INSTANCE CampaignStore WITH
    manifest <- f[1], items <- f[2], batch <- f[3],
    heartbeat <- f[4], handoff <- f[5]

Decodes(f) ==
    /\ f[1].status # "ABSENT"
    /\ f[5].run # NoRun => Snap(f)!HandoffValid

HostTaskStatus(f, now) ==
    CASE f[1].status = "PAUSED" -> "paused"
      [] f[1].status = "COMPLETED" ->
            IF f[5].run # NoRun /\ ~f[3].active
               /\ \A i \in Item : f[2][i].status \in {"ABSENT", "COMMITTED"}
            THEN "completed" ELSE "needs_inspection"
      [] Snap(f)!StaleRunState(now) = "FRESH_HEARTBEAT" -> "running"
      [] OTHER -> "stale"

CampaignRow(f, now) ==
    IF Decodes(f)
    THEN HostTaskStatus(f, now) ELSE "unavailable"

-----------------------------------------------------------------------------
(* wake: the first durable phase starts the thread, the others wake it.    *)
Wake ==
    /\ worker.thread = "none" /\ ~worker.stop
    /\ worker' = [worker EXCEPT !.thread = "waiting"]
    /\ UNCHANGED <<scan, shown, mid>>

(* _release: the latch, and a join with a timeout: a thread that is still  *)
(* in its poll is left behind.                                             *)
ReleaseBoard ==
    /\ ~worker.stop
    /\ worker' = [worker EXCEPT !.stop = TRUE]
    /\ UNCHANGED <<scan, shown, mid>>

BeginPoll_Unchecked ==
    /\ worker.thread = "waiting"
    /\ IF manifest.status = "ABSENT"
       THEN shown' = "no campaign" /\ UNCHANGED <<worker, scan, mid>>
       ELSE /\ worker.polls < MaxPolls
            /\ worker' = [worker EXCEPT !.thread = "reading", !.polls = @ + 1]
            /\ scan' = [NoScan EXCEPT !.now = clock]
            /\ UNCHANGED <<shown, mid>>

(* The interval passes or a wake comes, and the loop tests _stop; poll_once *)
(* takes `now` and lists the directory.                                    *)
BeginPoll ==
    /\ worker.thread = "waiting"
    /\ IF worker.stop
       THEN worker' = [worker EXCEPT !.thread = "closing"] /\ UNCHANGED <<scan, shown, mid>>
       ELSE IF manifest.status = "ABSENT"
       THEN shown' = "no campaign" /\ UNCHANGED <<worker, scan, mid>>
       ELSE /\ worker.polls < MaxPolls
            /\ worker' = [worker EXCEPT !.thread = "reading", !.polls = @ + 1]
            /\ scan' = [NoScan EXCEPT !.now = clock]
            /\ UNCHANGED <<shown, mid>>

(* _read_control_files: manifest, items, batches, heartbeat, handoff.      *)
ReadFile ==
    /\ worker.thread = "reading"
    /\ Len(scan.pass) < 5
    /\ scan' = [scan EXCEPT !.pass = Append(@, Disk[Len(@) + 1])]
    /\ mid' = IF scan.pass = <<>> THEN Disk ELSE mid
    /\ UNCHANGED <<worker, shown>>

(* _draw: the window is opened by the first draw; then the loop waits.     *)
Draw(row) ==
    /\ shown' = row
    /\ worker' = [worker EXCEPT !.thread = "waiting"]
    /\ scan' = NoScan
    /\ mid' = <<>>

ComparePass_Once ==
    /\ worker.thread = "reading" /\ Len(scan.pass) = 5
    /\ Draw(CampaignRow(scan.pass, scan.now))

(* Two passes in a row must agree, within the attempts.                    *)
ComparePass ==
    /\ worker.thread = "reading" /\ Len(scan.pass) = 5
    /\ IF scan.previous # <<>> /\ scan.pass = scan.previous
       THEN Draw(CampaignRow(scan.pass, scan.now))
       ELSE IF scan.previous # <<>> /\ scan.compared + 1 = SnapshotAttempts
       THEN Draw("unavailable")
       ELSE /\ scan' = [scan EXCEPT !.previous = scan.pass, !.pass = <<>>,
                           !.compared = IF scan.previous = <<>> THEN @ ELSE @ + 1]
            /\ UNCHANGED <<worker, shown, mid>>

(* A directory that cannot be listed or is unsafe: the view is discarded.  *)
ScanFails ==
    /\ worker.thread = "reading"
    /\ Draw("scan failed")

(* A native call raises: _record_failure, and the finally still closes.    *)
WorkerRaises ==
    /\ worker.thread \in {"reading", "waiting"}
    /\ worker' = [worker EXCEPT !.thread = "closing", !.stop = TRUE]
    /\ scan' = NoScan /\ mid' = <<>>
    /\ UNCHANGED shown

CloseWindow ==
    /\ worker.thread = "closing"
    /\ worker' = [worker EXCEPT !.thread = "ended"]
    /\ shown' = "closed"
    /\ UNCHANGED <<scan, mid>>

WorkerStep == BeginPoll \/ ReadFile \/ ComparePass \/ CloseWindow

BoardNext ==
    \/ /\ Next
       /\ \/ worker.thread # "reading" /\ UNCHANGED scan
          \/ /\ worker.thread = "reading" /\ scan.overlap < MaxOverlap
             /\ scan' = [scan EXCEPT !.overlap = @ + 1]
       /\ UNCHANGED <<worker, shown, mid>>
    \/ (Wake \/ ReleaseBoard \/ WorkerStep \/ ScanFails \/ WorkerRaises) /\ UNCHANGED vars

BoardSpec ==
    /\ Init /\ BoardInit
    /\ [][BoardNext]_<<vars, boardVars>>
    /\ WF_<<vars, boardVars>>(WorkerStep /\ UNCHANGED vars)

-----------------------------------------------------------------------------
(* "A live view never shows something that was never true": when a poll    *)
(* ends the window says that there is nothing to trust, or it says what    *)
(* five files say that lay on the disk together during this poll, although *)
(* the campaign's commands replace them one by one meanwhile               *)
(* (read_campaign_control_snapshot, poll_once).                            *)
PollEnds == worker.thread = "reading" /\ worker'.thread = "waiting"
ShownWasTrue ==
    [][PollEnds =>
        \/ shown' \in {"unavailable", "scan failed"}
        \/ scan.pass = mid /\ shown' = CampaignRow(mid, scan.now)]_<<vars, boardVars>>

(* A released coordinator takes its window down, however the campaign's    *)
(* files change under a poll in progress (RunProgressCoordinator._run).    *)
WindowComesDown == worker.stop ~> shown = "closed"

(* A claim of the documentation that the code does not keep: "rendering    *)
(* gives campaign attention priority", so a campaign that is paused is     *)
(* listed as paused.                                                       *)
PausedIsListed ==
    scan.pass # <<>> /\ scan.pass = scan.previous /\ scan.pass[1].status = "PAUSED"
        => CampaignRow(scan.pass, scan.now) = "paused"

-----------------------------------------------------------------------------
(* The rows: what progress_view.py, progress_window.py and task_center.py   *)
(* make of the validated records of a state directory.  Each record becomes *)
(* a row with a class, each class a group, and the groups are cut to a      *)
(* limit in their fixed order.  A record is [task, id, status, at, receipt]: *)
(* `at` is its validated update time, `receipt` what product_receipt says of *)
(* a run's workflow: "none" (no workflow), "missing", "invalid", "verified". *)
RunPhases == {"planning", "waiting_approval", "paused", "success", "failed",
              "unknown_outcome", "cancelled"}
RunTerminal == {"success", "failed", "unknown_outcome", "cancelled"}
CampaignStates == {"running", "waiting_approval", "paused", "challenge", "completed", "failed",
                   "cancelled", "uncertain", "stale", "needs_inspection"}

(* _ATTENTION_PHASES and _CAMPAIGN_ATTENTION, of the window; the task       *)
(* center's own _RUN_ATTENTION has the failed run too.                     *)
RunAttention(phase) == phase \in {"waiting_approval", "paused", "unknown_outcome"}
CampaignAttention(status) == status \notin {"running", "completed"}
CenterRunAttention(phase) == phase \in {"waiting_approval", "paused", "failed", "unknown_outcome"}
(* A workflow whose receipt is not to be trusted needs inspection.         *)
ReceiptAttention(r) ==
    r.receipt = "invalid" \/ (r.receipt = "missing" /\ r.status = "success")

BoardClass(r) ==
    IF r.task = "run"
    THEN IF RunAttention(r.status) THEN "attention"
         ELSE IF r.status \in RunTerminal THEN "history" ELSE "in_progress"
    ELSE IF CampaignAttention(r.status) THEN "attention"
         ELSE IF r.status = "running" THEN "in_progress" ELSE "history"

CenterClass_AsBoard(r) ==
    IF r.task = "run" /\ ReceiptAttention(r) THEN "attention"
    ELSE IF r.task = "campaign" /\ r.status = "cancelled" THEN "history"
    ELSE BoardClass(r)

(* _run_item, _campaign_item: a cancelled campaign is history here.        *)
CenterClass(r) ==
    IF r.task = "run" /\ (CenterRunAttention(r.status) \/ ReceiptAttention(r)) THEN "attention"
    ELSE IF r.task = "campaign" /\ r.status = "cancelled" THEN "history"
    ELSE BoardClass(r)

(* group_progress_views, group_campaign_views, project_task_center: newest *)
(* first, and then by kind and name.                                       *)
Ahead(a, b) ==
    \/ a.at > b.at
    \/ a.at = b.at /\ a.task = "campaign" /\ b.task = "run"
    \/ a.at = b.at /\ a.task = b.task /\ a.id < b.id
Ranked(records) ==
    [i \in 1..Cardinality(records) |->
        CHOOSE r \in records : Cardinality({a \in records : Ahead(a, r)}) = i - 1]

GroupOrder_WorkingFirst == <<"in_progress", "attention", "history">>
GroupOrder == <<"attention", "in_progress", "history">>

(* render_progress_lines and project_task_center: every group gets what    *)
(* the groups before it have left of the limit.                            *)
Cut(rows, group, limit) ==
    LET remaining == limit - Len(rows) IN
    rows \o SubSeq(group, 1, IF Len(group) < remaining THEN Len(group) ELSE remaining)
Rows(records, Class(_), limit) ==
    LET group(k) == Ranked({r \in records : Class(r) = GroupOrder[k]})
    IN  Cut(Cut(Cut(<<>>, group(1), limit), group(2), limit), group(3), limit)

(* The progress window counts runs and campaigns under separate limits.    *)
Board(records, runs, campaigns) ==
    Rows({r \in records : r.task = "campaign"}, BoardClass, campaigns)
        \o Rows({r \in records : r.task = "run"}, BoardClass, runs)
Center(records, limit) == Rows(records, CenterClass, limit)

-----------------------------------------------------------------------------
(* What the operator must not miss, on every surface; and what else calls  *)
(* for attention in the window and in the task center.                     *)
NeedsOperator(r) ==
    \/ r.status \in {"waiting_approval", "paused", "unknown_outcome", "uncertain", "stale",
                     "challenge", "needs_inspection"}
    \/ r.task = "campaign" /\ r.status = "failed"
CallsInWindow(r) == NeedsOperator(r) \/ (r.task = "campaign" /\ r.status = "cancelled")
CallsInCenter(r) ==
    NeedsOperator(r) \/ r.status = "failed" \/ (r.task = "run" /\ ReceiptAttention(r))
(* What calls for attention is left out only for rows that call for it too *)
(* and are not older.                                                      *)
UrgentFirst(records, listed, Calls(_)) ==
    \A hidden \in records \ listed : Calls(hidden) =>
        \A r \in listed : Calls(r) /\ r.at >= hidden.at
HidesNothingUrgent(records, listed, limit) ==
    /\ UrgentFirst(records, ToSet(listed), CallsInCenter)
    /\ Len(listed) = (IF Cardinality(records) < limit THEN Cardinality(records) ELSE limit)
    /\ Cardinality(ToSet(listed)) = Len(listed)
=============================================================================
