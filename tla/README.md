# A formal model of computer-use-mcp

TLA+ models of the parts of this repository whose correctness depends on what
happens *between* two steps: two writes, a check and the act it allows, a question
and its late answer.  They cover the durable state of the Agent Host (the run lock,
campaigns, runs, plans, task trees, learned procedures and facts), the desktop server
and its client, and what an operator is shown and asked.  Every definition is
translated from the Python under `src/src/`; TLC checks the models on small
instances, and TLAPS proves theorems about most of them for every value of their
constants.

`tlc -config X.cfg M` checks one run of the table in section 3 (M is its module) and
`tlapm RunControlProofs.tla` (and each of the other seven `*Proofs.tla`) the proofs.

## 1. Inventory

The implementation is two packages: `computer_use_agent` (the Agent Host: one
command per process, all state in files under a user-local root) and
`computer_use_mcp` (the desktop server it drives through MCP, a child process).

| component | source | state it keeps | operations | hard behaviour | correct when |
|---|---|---|---|---|---|
| Run lock | `run_lock.py` | `active-run.lock`: bytes and an OS lock | `acquire(recover_stale)`, `release`, `is_run_lock_held` | open/fill/lock/check/truncate/write are separate steps; crashes; mandatory or advisory locks | one owner; no start over an unreleased lease without consent |
| Campaign store | `campaign.py`, `atomic_file.py` | manifest, item ledger, batch ledger, heartbeat, hand-off, discovery passes; each replaced atomically | create, pause/resume, complete, append, append_batch, the four heartbeat operations, write/read hand-off, lock-free snapshot | no two files change together; the hand-off caches the others; lock-free readers | the files agree after any crash |
| Batch coordinator, leases, inspectors | `batch_coordinator.py`, `batching.py`, `campaign_*_preflight.py`, `lease_*.py`, `heartbeat_inspection.py` | none of its own: reads the store, decides, writes once | open, claim, observe, extract, commit, finish, hand off, transfer, complete, retire | every decision is about files read a moment ago and a `now` given by the caller; a process believed dead may be slow | one item in flight, in order, owned by the run of the active batch and heartbeat |
| Application runtime | `application_campaign_runtime.py` | none; the lock is taken three times per item | prepare, start, execute, resume | the Agent runs between inspection and commit without the lock | the result is committed against the claim it was produced for |
| Demo campaign | `demo_campaign.py` | a two-phase side-effect sink | run, reconcile after restart, take over | kills at every boundary | no effect twice; the ledger never claims more than the sink |
| Agent runner | `runner.py`, `policy.py`, `approvals.py`, `grounding.py` | the run's event log, budgets, observation epoch | model turn, approval, dispatch, verify, pause | cancellation at an await; unknown outcomes | an action is dispatched at most once, and only after a fresh observation and its approval |
| Trace, recovery, continuation | `trace.py`, `recovery.py`, `reconstruction.py`, `continuation.py` | trace, checkpoint, write-ahead continuation | record, resume, recover, cancel | the process dies between the intent and the result | an uncertain dispatch is never replayed; a terminal run stays so |
| Executor and plans | `executor*.py`, `plan_store.py`, `planning.py`, `hierarchical_runtime.py` | plan, final-response envelope, mirrored tree | start and finish a step, final response, three reconcilers | a write fails on either side of its effect; four files of one run disagree after a crash | the plan says no more than what happened; one final response |
| Cooperative control | `cooperative_control.py`, `shortcut_broker*.py` | one `control.json` and one control lock per run | start, pause, takeover, resume, four acknowledgements, close | commands race the Runner and each other for a lock nobody waits for; crashes leave records open | the desktop is released only at rest and durably; no action rests on what was seen before a takeover; no request is lost |
| Hierarchical control | `tree_store.py`, `hierarchical_*.py` | a task tree per run, batches and choice events in it | lead a leaf, run a read-only batch, join, choose, fall back | callers with snapshots of any age; facts that expire | no transition lost; a choice keeps to the host's order and never leaves a branch that acted |
| Learning and routing | `verified_procedures.py`, `shadow_strategies.py`, `adaptive_routing.py`, `episode_outcome.py`, `learning_quarantine.py` | procedures, rollouts, quarantined facts | replay, promote, compare, route, report, extract, confirm, edit, delete | evidence that drifts; outcomes late, twice or never; operators acting on old screens | a candidate gets its share and no more; a fact is what the operator was shown |
| Desktop MCP client | `desktop_mcp.py`, `tool_registry.py`, `bounded_stdio.py` | the child process, its discovered tools, one operation lock | open, discover, call, drop, close | an answer is lost, late or garbled; the child hangs | the caller is always answered, and truthfully |
| MCP server and driver | `computer_use_mcp/*` | stop flag, activity ticks, refs, node cache, audit log | a tool call, the two-call activation guard, each native step | a person at the mouse, a panic key, focus that moves, steps that fail half way | no input after a stop; nothing stays pressed; a ref means one control |
| Approvals and cards | `approval_inbox.py`, `decision_cards.py`, `decision_card_window*.py` | open requests, a card's thread and window | request, show, click, expire, give up | a decision races its timeout; windows outlive their request | the decision is the operator's own about this effect |
| Presence, progress, task center | `presence_*.py`, `progress_*.py`, `task_center.py`, `campaign_host_status.py` | worker threads, passive windows | report, draw, poll, release | files change under a poll; workers fail | what is shown was true; what needs attention is shown; everything comes down |
| Formal demo | `formal_demo_*.py`, `providers/openai_intent.py` | a gate with one permit, a console session and its window | stage, disclose, acknowledge, consume, compile, request | resets and failures between checking and sending | what is sent was reviewed, once |
| Public page to Word | `public_web_word*.py`, `disposable_process.py`, `product_receipt.py` | accepted note, the run's ledger, launched processes, a receipt | check a proposal, launch, close, verify, issue the receipt | proposals in any order, corrections, a front window that moves | one brief, in the file, before a receipt |
| Other campaign runtimes, providers, privacy, telemetry, CLI | see `PROJECT.json` | | | | not modelled, section 5 |

### How the components interact

Every command of the Agent Host is a process that acquires the run lock, reads
the files, writes some of them one at a time and releases the lock.  Between
commands, and between two acquisitions of one command, others run.  A process
that dies leaves the files as they are and its owner record in the lock file.  Inside
a run, the Runner's thread shares its process with the threads of passive windows
(progress, halo, cards), and it calls a child process over a pipe, one call at a time,
for everything that touches the desktop.  Operators act through other commands on the
same files and through the windows; the person at the desktop acts at any moment.
`PROJECT.json` lists under `hazards` the places where this bites, each with the
properties that would notice.

## 2. Modules

| module | models | state | composed from |
|---|---|---|---|
| `RunLease` | what the lock promises: leases start when nobody holds one, over an unreleased one only with the caller's consent | holder, outstanding, consent | |
| `RunLock` | `run_lock.py` step by step | file content, OS lock, a program counter per instance | refines `RunLease` |
| `CampaignStore` | `campaign.py` and its inspectors: the files and the guarded operations on them | clock, manifest, items, batch, heartbeat, handoff | |
| `CampaignProgress` | what a campaign promises: a cursor that only commits advance | size, done, worker, closed | |
| `ApplicationCampaign` | the commands of `application_campaign_runtime.py` | the store, the lock holder's next write, every run's unlocked phase, the traces | `CampaignStore`; refines `CampaignProgress` |
| `DemoCampaign` | `demo_campaign.py` | the store, the process, the sink, two history variables | `CampaignStore` |
| `CooperativeControl` | the record of `cooperative_control.py`; the Runner's pause boundaries, the commands of an operator, the lease and the crashes | lease, records, control locks, checkpoints, a program counter per run and per command | |
| `RecoveryPlan` | the checkpoint of `trace.py`; the continuation, its fold and the plan of `recovery.py` | none: operators on checkpoints, ledgers and continuations | |
| `OperationLog` | what a write-ahead protocol promises: one operation at a time, none twice, none after an uncertain one | issued, settled | |
| `ContinuedRun` | one run of `runner.py` with continuation, `recover` and `cancel` | both files, the lock, the runner, the command, four history variables | `RecoveryPlan`; refines `OperationLog` |
| `TaskPlan`, `PlannedRun` | `planning.py` and `plan_store.py`; a session of `executor_runtime.py` with its four files, the tree that mirrors the plan and the reconcilers | plan, tree, continuation, final response, checkpoint, session, what was sent | refines `OperationLog` |
| `WorldState` | when a fact may still be believed (`world_state.py`) | none | |
| `TaskTree`, `TreeRun` | trees of all contract versions and the callers of `tree_store.py` | the stored tree, each caller's snapshot | `TaskPlan`, `WorldState`; refines `OrderedChoice` |
| `OrderedChoice` | what the host promises of a choice | chosen branch, whether it was touched | |
| `PublicWebWord` | the page-to-Word workflow: the wrapper's checks, the Runner's turns, the host's launches, the receipt | step, evidence, note, desktop, processes | |
| `Procedures` | replay, promotion gate, life cycle and comparison of procedures | none: operators on procedures and fixtures | |
| `CanaryTrial` | what adaptive routing promises, as a history of runs | runs | |
| `AdaptiveRollout` | `adaptive_routing.py` with hosts that read some time ago | procedures, rollout file, what hosts hold, runs | `Procedures`; refines `CanaryTrial` |
| `FactQuarantine` | what a finished run counts as; `learning_quarantine.py` with operators who were shown a record earlier | facts, events, screens, approvals | `WorldState` |
| `ToolContract` | which calls and which discovered tools the client accepts, and what an answer means | none | |
| `DesktopServer`, `DesktopLink` | a tool call in the child from guard to answer, beside the person and the panic key; the client that starts, calls, times out and drops the child | screen, children and their jobs, answers, audit; the link, calls, results | `ToolContract` |
| `SessionRefs` | what is read of a screen; the refs of one session over a screen that changes | session, cache, screen, what was shown and pressed | |
| `ApprovalDesk` | a request for a decision: coroutine, thread, window, inbox record | time, verdicts, cards, inbox | |
| `PresenceHalo` | the halo's latch, lane and worker | stage, loop, lane, halo | |
| `ProgressBoard` | the progress window's worker beside a campaign that is written, and the rows of board and task center | worker, scan, row, history | `ApplicationCampaign` |
| `DemoContract`, `FormalDemo` | the reviewed contract of the formal demo; gates, local scope, console session, provider | gates, session, attempt, scopes, requests | |
| `OneShotPermit` | what a gate promises about its permit | state, used | |
| `ConsoleWindow` | the console's window over its session; where its controls are put | window, panel, loop, fault | `FormalDemo` |
| `RunControlProofs` | theorems about `RunLock` and about `CooperativeControl`, side by side | | those modules, `TLAPS` |
| `ApplicationCampaignProofs`, `DemoCampaignProofs`, `ContinuedRunProofs` | theorems about the module of that name | | that module, `TLAPS` |
| `PlansProofs`, `DesktopProofs`, `OperatorProofs`, `LearningProofs` | theorems about `PlannedRun`, `TreeRun` and `PublicWebWord`, side by side; about `DesktopLink` with its server and `SessionRefs`, as in `MCDesktop`; about `ApprovalDesk`, `PresenceHalo`, `FormalDemo` and `ConsoleWindow`, composed as in `MCOperator`; about `AdaptiveRollout` and `FactQuarantine`, composed as in `MCLearning` | | those modules, `TLAPS` |

Five runs instantiate an `MC` module: `MCContinuedRun` gives the turns a provider may
return, `MCCooperativeControl` two instances in one run, and `MCPlans`, `MCLearning`,
`MCDesktop`, `MCOperator` put models that share no state side by side, each a `part`
chosen in the initial state, so that one run explores the sum of their states and not
the product.  The first three runs use their module directly.

### RunLock

An instance is a `RunLock` object with a descriptor of its own.  `where[p]` follows
`acquire` (open, fstat, sentinel, OS lock, read and judge, truncate, write),
`release` (read, truncate, write the released marker, unlock) and the probe
`is_run_lock_held`.  The file's content is one of the values `_read_payload`
tells apart or the instance whose record it is: `pid`, `acquired_at` and `token`
are abstracted to that identity: each lease draws a new token, and it is the token that
`release` compares.
`msvcrt.locking` is mandatory (a write to the locked byte fails, and `acquire`
raises), `fcntl.flock` advisory (it succeeds); with both in `LockKinds`, either may
happen at each write.  `Die` closes the descriptor and keeps the bytes.  Left out:
I/O errors other than a refused lock, and payloads above the size limit.

### CampaignStore, ApplicationCampaign, DemoCampaign

Each store operation is one atomic replacement of one file, as `_atomic_write` makes it.
The ledgers are kept as their reductions: for an item the last transition's
status, run and lease; for the batches the last one, whether it is active, and
the ids used.  Sequence numbers, attempts, digests and schema fields are functions of
the ledger or checked for form only.  An item's key is its ordinal; a batch has its
run's name, because both runtimes derive `batch_id` from `run_id`.  Time is whole
seconds.  `CHALLENGE`, `SKIPPED` and `FAILED` are never written by these runtimes.

In `ApplicationCampaign`, `host` is the process that holds the run lock: its next write,
its run and the `now` its command started with; `work[r]` is how far
`execute_claimed_application_item` has come while it does *not* hold the lock.  Checks
that cannot fail after the previous write under the same lock have no refusal action,
which `CommandsEnd` confirms.  `Crash` leaves the lock `orphaned`, since every command of
this runtime acquires without `recover_stale`.  `Pause`, `Unpause` and
`ReleaseStaleClaim` are public operations that no command of the runtime calls.

In `DemoCampaign`, `proc` is the one process.  The demo counts seconds itself, so the
clock advances with its appends, and by itself only while no process is alive.  A
restart reconciles item by item, closes the dead batch and takes the heartbeat.  `Kill`
may happen between any two writes.  `performer` and `duplicate` are history variables.
Not modelled: a real clock running behind the synthetic one.

### CooperativeControl

Each run has a Runner (`pc[r]`), a record, a control lock and a checkpoint; the
runs share the application lease, which is `RunLock` abstracted to its owner.  `Poll` is
`pending_request` at one of the four boundaries of
`_execute_requested_call_boundary`, `Pause` the invalidation and the `PAUSED`
checkpoint; each control call is `LockControl` followed by its mutation, or `Busy`.  A
command resolves a run, asks for the control lock once, and resolves again under it.
`EndRun` is every handler at the end of `Runner.run`; `Crash` frees the locks of the
dead process and leaves its record open.  `HumanActs` only while shown a released
record; `fresh` is a history variable.  Budgets, results, times and digests are left
out; request ids are counted by `requests`.

### RecoveryPlan, ContinuedRun

`checkpoint` is `state.json`, `wal` is `continuation.json`, `torn` says that the
trace holds events the checkpoint does not count.  `live.pc` follows `AgentRunner.run`
and `_execute_requested_call_boundary`; `live.run` is the state at hand, `live.outer`
the one `run()` still holds while the boundary works on a later one, which is the state
its handlers record.  A provider request and a tool call each have three boundaries,
`prepared`, `dispatch_intent` and `completed`: `AdvanceTo` moves the checkpoint,
`WriteBoundary` replaces the continuation, and a process may die in between.  `cmd`
follows `recover` and `cancel`; `CommandStops` is any refusal, error, death or expiry.

The ledger is kept as its fold: every event is folded when it is written, and an event
the fold would reject makes it invalid for good.  Identities, digests, provider state
and redaction are left out.  A call is `observation` or `side_effect`; token budgets
are one more reason for `FailTurn`.  The lock is only its owner; cooperative pause is
off, because the runner refuses to combine it with continuation.  `sent`, `open`,
`stale` and `ending` are history variables.

### TaskPlan, PlannedRun

A snapshot is the sequence of the steps' statuses: digest and sequence number are
functions of it.  `ses.pc` follows a session from `open` through
`BoundaryCall`/`AfterCall`, the final response's intent, request and completion, and
`Shutdown`; `mode` says whether a tree mirrors the plan and whether it may act.  Every
write may fail before or after it took effect, the reread after it may fail too, and
`Crash` takes the session away anywhere.  The three reconcilers are commands of their own
that read, decide and write like a session and may die as well.  The text of steps, tool
names and the final wire format are left out; a call's outcome is one of four.

### TaskTree, TreeRun, OrderedChoice

A compiled tree has numbered nodes, kinds, children, dependencies and the nodes with a
side effect; the stored one its leaves' statuses, its batches and its choice events.
`ReadyLeaves`, `WithBatch`, `WithEvent` and the two fallbacks `PreBoundary` and
`ReadOnlyMiss` are the code's reducers; `CompareAndSwap` is
`TaskTreeStore.compare_and_swap` with its structural checks.  Facts are taken from a set
with one member for each way in which evidence can be stale, of another epoch or window,
of the wrong type or missing.  `IsTaskTree` is what `TaskTree.__post_init__` asks of a
structure: one parent for each node, no cycle, children where the kind wants them, the
shape of a choice and of the dependencies for the contract's version.  The bounds on
depth, counts and text are left out.  `OrderGuarded` names the trees in which no batch and
no event of the choice decides a leaf that has prerequisites, no gate is a prerequisite
and no parallel node of conditions is inside a branch: neither
`apply_parallel_condition_batch` nor `apply_choice_event` looks at dependencies, and the
readers check the status of a join but not that a started leaf had its prerequisites.
Outside those trees `StartedInOrder` is not what the code promises; `TaskTree` accepts
them, and the run's five trees are inside (`MCTreesAssumption`, evaluated by TLC).

### PublicWebWord

`flow.at` is the step of `run_public_web_word_workflow`; `evidence` is what the guards
read of the ledger; any proposal may come at any time, is checked by
`_validate_call` and then performed, refused by the server or of unknown outcome.  The
front window moves at any moment.  Sources and wording of a brief are abstracted to
which brief it is.

### Procedures, AdaptiveRollout, CanaryTrial

`Evaluate` replays a procedure on every fixture of a suite step by step; the promotion
gate and the comparison use its result.  A rollout is advanced by compare and swap on
the revision a host read; `suite` chooses what the fixtures recorded, so that evidence
passes, fails or drifts.  Five of nine cost fields are kept.

### FactQuarantine

An episode is classified from its run's record; a fact is extracted, shown, confirmed,
edited, expired and deleted, each one immediate SQLite transaction.  Operators act on
`shown[o]`.  `MAX_CANDIDATE_EVENTS` is the bound `MaxEvents`.

### DesktopServer, DesktopLink, ToolContract

A child has a job with a program counter (guard, stable, ready, front, confirm, check,
sense; then look, feel, act, capture for each native step).  Input captures are flags
that no input came since, because ticks only grow.  `Programs` are the native steps of
each tool, which may fail where the driver's calls may.  The world moves between any
two steps: panic key, input, focus, ownership of the target.  `DesktopLink` adds the
client: generations of children, discovery, the operation lock, timeouts,
cancellations, garbled answers, children that die and reopening.

### SessionRefs

A control has an identity of its own besides the runtime id it reports, so that an id
can be reused; identities are numbers in tree order, and a control comes and goes with
its ancestors.  Tree, document, region and metadata are read from the same universe;
`Visit` is what `_get_tree` does at one control and `IngestOne` what `_ingest` does with
one node, and `GetTree` and `Ingest` are functions on the steps of their loops;
`Relocated` and `Rebind` follow `core.py`.  Values, texts and titles are told apart by
whose they are (`SecretsAssumption`: a secret is no value that may be shown).  Pixels are
boxes.

### ApprovalDesk, PresenceHalo, ProgressBoard

A card's thread and window live on after a timeout or a cancellation of the coroutine.
The halo's worker takes the last pending change at each turn of its loop.  The board
reads the five files in passes until two passes agree, while every command of
`ApplicationCampaign` runs beside it; its row is derived from the pass as
`project_campaign_control_snapshot` does.  The rows part feeds every combination of
records and receipts to both lists.  Each list has its own idea of what calls for
attention: `RunAttention` of the window, and `CenterRunAttention` of the task center, where a
failed run calls too and a cancelled campaign does not.  So a limited list may leave a
paused run out for a newer run that failed, but never for finished or older work.

### DemoContract, FormalDemo, ConsoleWindow

`LoadIntent`, `Compile` and `DecodeSheet` are the contract's functions, over the
scenario of version 1; its forbidden effects and names are grouped into the families
the code treats alike.  A gate moves by `Acknowledged` and `Consumed`, which the
console's callbacks and the provider's single request use; each Win32 or
provider call may fail, the reading of the edit controls before the session is asked and the
local compilation before and after the permit is used up among them.  The layout of the window
is the integer arithmetic of `_layout` with Python's rounding, on work areas in the screen's own
pixels, as `_monitor_work_area` returns them at every DPI.  `HasRoom` says that an area is large
enough for the least rendition at its DPI and text scale.  On one that is not, the size that
`_restore_layout_window` asks for is refused as well, and `_layout` returns without moving a
control: at 192 dpi and 400 % text on 1366x728 the controls need 672 dots and 650 are left (lemma
`NamedScreenRoom`), although the comment in `_layout` says that the snap is made "instead of
leaving critical controls outside the viewport".  This model takes Windows' frame to be 16 by 39
at 96 dpi.

## 3. Runs

| run | module | instance | states | properties |
|---|---|---|---|---|
| `RunLock` | `RunLock` | 3 instances, both kinds of lock | 19 086 | `LockSafe`, `ImplementsLease` |
| `Application` | `ApplicationCampaign` | 3 items, 4 runs, lease 2 s, 4 s | 635 114 | `CampaignSafe`, `CursorKept` (refinement and owner), `CommandsEnd` |
| `Demo` | `DemoCampaign` | 2 items, 3 runs, lease 5 s, 14 s | 1 482 072 | `EffectsAccounted`, `DispatchedByOwner`, `UnkilledRunSettles` |
| `Control` | `MCCooperativeControl` | 2 runs under 1 command; 1 run under 2 commands, 3 requests | 928 763 | `ControlSafe`, `DurableBeforeReleased`, `CommandsAnswered` |
| `ContinuedRun` | `MCContinuedRun` | 4 turns, 4 calls, 2 actions | 540 828 | `RunSafe`, `RecordsTruthful`, `StepsSafe`, `ImplementsLog`, `LockReleased` |
| `Plans` | `MCPlans` | 4 plans in 3 modes; 5 trees, 2 callers; 2 briefs, 1 correction | 363 063 | `PlanRecordsAgree`, `TreeSound`, `WordSound`, `ImplementsLog`, `NoLostTransition`, `ImplementsChoice` |
| `Learning` | `MCLearning` | 2 hosts, 4 suites, 4 runs; 4 facts of which 2 fit, 2 operators | 958 921 | `RolloutSound`, `OperatorDecides`, `ImplementsTrial`, `StaysForgotten` |
| `Desktop` | `MCDesktop` | 2 calls, 2 children; 4 controls, 2 refs | 756 372 | `StopsInTime`, `DesktopLeftAlone`, `AnswerHonest`, `RefsMeanOneControl`, `SecretsHidden`, `CallEnds` |
| `Operator` | `MCOperator` | 1 item, 2 runs, 1 poll; 2 requests; 6 phases; 4 records; 2 gates; 2500 layouts | 471 576 | `DecisionsSound`, `SurfacesHonest`, `NothingHidden`, `ReviewBinds`, `ConsoleHonest`, `ShownWasTrue`, `SurfacesEnd`, `ImplementsPermit` |
| `TreeReopened` | `MCPlans` | as `Plans` | violation | `TerminalStays` |
| `RefsReused` | `MCDesktop` | as `Desktop`, a runtime id is reused | violation | `PressesTheNamed` |
| `BoardHidesPaused` | `MCOperator` | as `Operator` | violation | `PausedIsListed` |

A property with a general name (`LockSafe`, `CampaignSafe`, `EffectsAccounted`, `RunSafe`,
`PlanRecordsAgree`, `DecisionsSound` and so on) is the conjunction of the named
properties stated before it in its module; `PROJECT.json` has a mutant for each of the
questions it joins.

**What they show.**
`RunLock`: no interleaving, crash or sentinel gives two owners, and the file refines the
abstract lease.  `Application`, `Demo`: with crashes between any two writes one item is
in flight, in order, owned; the hand-off tells the truth; every effect is accounted for
between sink and ledger; a command that holds the lock comes to its end.
`Control`: a released desktop is free of the Runner and durable before it is shown.
`ContinuedRun`: at most one outstanding request, none after an unknown outcome, a
recovery only looks, and a terminal checkpoint stays.
`Plans`: what the plan, the tree and the final response say follows from what was sent,
after any failed write, crash and reconciliation; trees keep their order and every
transition; one brief is typed and is in the file when a receipt exists.
`Learning`: after the first bad or unverified outcome the candidate runs no more, its
share is bounded at every instant, and every stored rollout can be read again; a fact is
confirmed as shown, can always be deleted and is never learned again.
`Desktop`: after a panic key, a person's input or a lost target at most the one step that
was already past its checks goes out; a killed or failed program leaves nothing pressed;
an answer that denies an action is true.
`Operator`: see the comments of the eight properties.

**Bounds.**  Three lock instances are the creator, one that overtakes it and a
probe or a third contender.  Three items are one committed, one in flight and one
waiting; four runs let a run be replaced, its replacement die, and an id be reused; a
lease of two seconds in four lets it expire, be released and be followed by another.
The demo takes four seconds an item, so a lease of five is one its heartbeat must
extend; fourteen seconds cover two items, an expiry and a second attempt.  Two
controlled runs are a dead one with its stale record and its successor; to keep the part
`runs` small, its first run is `r1` and other holders of the lease come only after both
runs.  Three requests let one follow another that was served while a third command
is inside.  Four turns and calls let a run observe, act, observe and finish, be recovered
in the middle, or be told to look again.  The plans are the shortest one, one with two
observations, one with an action between observations, and one longer than a
session's limit of calls (3).  The trees are the smallest in which a batch is beside a
step, two batches join, a choice has a read-only and an acting first branch, and a final
response sits in a branch.  Warm-up 1, interval 2 and two canaries reach completion and
rollback within four runs; two places for facts, four events and two seconds reach each
limit of the quarantine.  Two calls over two children let an answer of the first
come late while the second works; four controls let an id vanish, come back and be
found by name.  One campaign item and one poll of one attempt with up to two steps of the
commands meanwhile let each of the five files change inside a pass and between two.  Two
cards in three seconds let a card be abandoned, expire and block the next.  Layout runs
over widths around 680, heights around 600, the DPI and text scales the code clamps at, and the
work areas that the code and its tests name; each layout is computed from what is at hand, so
one resize of the window is enough.

`Application`, `Demo`, `ContinuedRun`, `Plans`, `Learning`, `Desktop` and `Operator` do not check for
deadlock: what they model comes to an end (a completed campaign, a terminal run, a
finished plan, a decided request) or to a bound.

**Fairness.**  Weak fairness is given to the steps of a process that is alive and does
not wait for anybody: a command of the application runtime that holds the lock, the
demo's process, a live Runner (provider and desktop calls carry timeouts, a card
expires, a control call never waits) and a command that recovers or cancels; in
`Desktop` only to the client's own timers and to giving up a child that was dropped; in
`Operator` to the poller's and the halo's worker threads, and to the coroutine, its timeout
and the clock of a request.  Nothing obliges anybody to start a command, restart a
killed process, click, answer, press a key, or let a child answer.

**The violations** are findings in `PROJECT.json`: a choice with a dispatched error behind
it, whose tree is terminal, can still fall back and run again; a ref presses a control
that took over the runtime id of the one it was given for; a campaign paused after its
hand-off was written is shown as unavailable instead of paused.

**Claims that are stated but not kept.**  The modules also state claims of the
documentation or of a test that the code does not keep.  Each is violated when its name is put in
place of the INVARIANT (or PROPERTY) of a copy of the run's configuration:

| claim | run | what the counterexample shows |
|---|---|---|
| `ActiveLeaseNotReplaced` | `RunLock` | on an advisory lock the sentinel written before the lock is asked for lands in the owner's record (`run_lock.py:79`, docstring at 43-46) |
| `InterruptedItemReobserved` | `Application` | an item whose run died is claimed by no command again (`application_campaign_runtime.py:646`, `docs/LONG_RUNNING_TASKS.md:156-157`) |
| `EveryItemClassified` | `Demo` | an item killed between OBSERVED and its intent is in no recovery class (`demo_campaign.py:516`, `docs/demo/README.md:57-58`) |
| `LiveRunResolves` | `Control` | the open record of a crashed run makes every command for a later one ambiguous (`cooperative_control.py:678`, `docs/COOPERATIVE_CONTROL.md:89-91`) |
| `NotAnInterrupt` | `Control` | a command that holds the control lock for a moment makes the Runner fail (`cooperative_control.py:339`, `docs/OPERATOR_EXPERIENCE.md:512`) |
| `CancellationRecorded` | `ContinuedRun` | a run cancelled inside a call records the state from before it, which the recorder refuses (`runner.py:1523`, `docs/AGENT.md:685-686`) |
| `TypedIntoWord` | `Plans` | after Ctrl+End in Word, another window may come to the front and get the text (`public_web_word.py:920-940`) |

## 4. Proofs

`RunControlProofs` proves of `RunLock`, for any set of processes and both kinds of OS lock:

* `LockTypesHold`, `LockInvariant`: `LockSpec => []LockTypes`, `LockSpec => []LockInv`.  Mutual
  exclusion alone is not inductive: it needs that the instance in a protected step is
  the one the OS lock names, and for the creator's shortcut (it accepts an empty file or
  a sentinel) that the O_EXCL creator is unique and nobody can have started a lease
  before it has judged the payload.
* `MutualExclusionHolds`, `LockSafety`: `LockSpec => []MutualExclusion`,
  `LockSpec => []LockSafe`.
* `LockImplementsLease`: `LockSpec => Lease!LeaseSpec`, from `StepImplementsLease`, one
  case per action.  The last conjuncts of `LockInv` are there for it: a
  released marker means nothing is outstanding, and who is writing over an
  outstanding lease has the caller's consent.

It proves of `CooperativeControl`, for any number of runs, commands and requests:

* `ControlTypes`, `ControlInvariant`: `Spec => []ControlInv`.  The invariant has a part
  about each run alone: a live run owns the lease; `RecordAgrees` ties the Runner's step
  to the status of its record (and to the checkpoint, around a pause); `MemoryAgrees`
  ties its grounding to both and to the history variable.  `OwnInv` goes through the
  Runner's actions, `OthersInv` shows that a step of one run leaves the others alone,
  `OperatorInv` and `EnvironmentInv` do the commands and the person.
* `RecordsAlwaysValid`, `DesktopExclusive`, `ActionsFresh`,
  `ActionsUnderActiveRecord`, together `ControlSafety`, follow from it, and
  `PauseDurable` from it and the steps that write records.

`ApplicationCampaignProofs` proves, for any number of items, runs and seconds:

* `CampaignInvariant`: `Spec => []CampaignInv`, the types with four parts.  `LedgerInv`:
  the ledger and its commits are initial segments of the ordinals and only the item after
  the commits may be in flight.  `OwnerInv`: a claim is the active batch's and the
  heartbeat's, a run that committed has its trace and its batch and holds nothing else.
  `HostInv`: what the holder of the lock relies on between two of its writes (that it was
  traced, that the ledger is not complete yet, that the batch it took over is not its
  own).  `HandoffInv`: a hand-off counts no more commits than there are, and fewer once
  the active batch has committed; this is why `read_handoff` refuses the hand-off of the
  batch before, and `HandoffTruth` is not inductive without it.  Five lemmas
  (`LedgerStepKeeps` and so on) take the actions by the file they write.
* `CampaignIsSafe`: `Spec => []CampaignSafe` follows from it.
* `FilesKeepCursor`: `Spec => Progress!ProgressSpec`, from `LedgerAtCursor` for the appends
  and `RestAtCursor` for everything else; `OwnerMoves`; together `CursorIsKept`:
  `Spec => CursorKept`.

`DemoCampaignProofs` proves, for any number of items, runs and seconds, and however often
the process is killed and another started:

* `DemoInvariant`: `Spec => []DemoInv`.  `SinkInv` says what the status of an item tells of
  the sink (nothing before it was observed, an accepted effect once it is extracted, an
  open intent when it is parked) and that an outcome belongs to the run on the claim;
  `WorkInv` says what the process may rely on at each of its writes, above all that the key
  it dispatches is unused.  An item in OBSERVED says nothing of the sink, which is why a
  restart has to ask it.
* `EffectsAreAccounted`: `Spec => []EffectsAccounted`, and `OwnerDispatches`:
  `Spec => DispatchedByOwner`, follow from it.

`ContinuedRunProofs` proves, for every budget and every set of turns:

* `RunInvariant`: `Spec => []RunInv`: a runner that runs holds the lock of a run that has
  not ended, its grounding is a fresh look, its budgets are within their limits, and a
  recovery step is justified by the files it has read.  Without the last part nothing
  could be said of a recovery whose plan was made some steps ago.
* `RecordsInvariant`: `Spec => []Truthful`, the second invariant, about the records.  What
  the run checks of the records (nothing that went out may be sent again, what went out
  is charged, a success is certain, a failure is recorded) is about the moments between
  operations; a crash falls between two writes.  So `RecordInv` says for every step of
  the runner and of a recovery what the checkpoint and the continuation hold by then:
  `PhaseInv` the phase each step has written, `EventsInv` what the trace has of an
  operation that is out, `AheadInv` that the continuation is ahead of it, `ChargeInv` that
  the charge is on disk before, `RecoverInv` that a recovery still sees what it read, and
  `StaleInv` that a desktop that has moved is on record as not observed.  The proof takes
  the steps by what they write (`BoundaryRecords`, `WrittenRecords`, `SentRecords` and so
  on); `LedgerStaysLost` is there because a ledger that cannot be read again must not
  come back.
* `NamesInvariant`: `Spec => []NamesInv`, the third, about the names of the operations.  That
  none leaves the host twice needs more than that the next one is new, because a crash may
  hand it to a recovery and a recovery to the next: so `RunnerNames` says that what the
  runner has left of its turn has not been sent, `Continuable` the same of whatever a
  continuation on disk still asks for, unless it is barred, and `CommandNames` of what a
  recovery has put on record to send.  A mandatory look ends the run (`FoldNames`): a
  ledger that records its result may not be continued, so it happens at most once.
* `RunKeepsTheLog`: `Spec => ImplementsLog`, the refinement of `OperationLog`, from
  `SentNames` and `RecoveredNames` for the two steps that send and `NothingSent` for the rest.
* `RecordsTruth`: `Spec => []RecordsTruthful`, `RecoveryReadOnly` and `RunSafety`
  (`Spec => []RunSafe`) follow from them; `ActionsOnSeenDesktop`, `TerminalStays` and
  `StepsSafety` (`Spec => StepsSafe`) from them and the step.

`PlansProofs` proves of `PlannedRun`, for any plans whose steps are well formed, any mode of
the tree and any limit of calls:

* `PlanSaysWhatHappened`: `Spec => []PlanRecordsAgree`.  That plan, tree and final response
  say no more than what was done holds at every step, but a step knows only what it has in
  hand; so `PlanInv` says, for every place at which a session, a recovery or a reconciler can
  be, what the six records say by then.  `SessionInv`: the session is at the first step that
  is not completed and has seen the plan as it is stored, although a refused write may
  have taken effect.  `Delivered`, `Underway` and `Remembered`: what was sent for a
  step, told from its status, from the session and from the continuation.  `LedgerInv`:
  a session that is open has not lost the outcome of the last completed step, which is
  what keeps a continuation from being written over.  `TreeInv`: the tree is one status
  ahead while a step is started and one behind while it is ended, and nowhere else.
  `FinalInv` and `RecordInv`: no answer without its intent, no SUCCESS without the answer,
  and the continuation stays while a reconciler may still need it.  The proof has one
  lemma per action about what it changes (`PlanStartEffect` and so on, from `Advances`:
  a status that moves on keeps a plan in order) and one per part of the invariant.
* `PlanKeepsTheLog`: `Spec => ImplementsLog`, the refinement of `OperationLog`, where an
  operation is settled when the plan does not hold its step in progress.
  `CallIssues`: a call finds everything before it settled and its own step not yet among
  it.  `NothingReopened`: what was settled stays so, since only a pending step is started
  and what is pending was never sent.

It proves of `TreeRun`, for every tree that `TaskTree` accepts, any number of callers with
snapshots of any age and any facts:

* `NothingIsTakenBack`: `TreeSpec => NoLostTransition`.  The inductive invariant is
  `StoredInv`: the stored tree and every snapshot in a caller's hand are `Sound`, and a
  snapshot with the file's sequence number is the file, which is what makes compare and swap
  on a number enough.  `Sound` says of one tree that its leaves follow from its evidence:
  the last word on each gate is that of the event that decided it (`LastSaid`), each fallback
  leaves the branch selected before it (`Chained`), an observation that a fallback rests on
  stayed completed (`ObservationsKept`), the gates after the selected one are pending
  (`Untried`), each batch's leaves are what it found, and one leaf at most is active.
* `TreesAreSound`: `TreeSpec => []TreeSound`, if every tree is `OrderGuarded`.  The first half,
  that the stored tree can be read again, needs no such hypothesis (`TreesStayCanonical`);
  the order of starting needs it, and its invariant `OrderInv` rests on `StoredInv`.  A leaf
  that starts is one that `ReadyLeaves` visits, and its prerequisites stay completed since
  their leaves do: statuses are folded over the tree, and `Acyclic` gives each set of nodes
  one that is lowest in it, which replaces induction over the tree.

It proves of `PublicWebWord`, for any number of corrections and any order in which windows
come to the front:

* `ReceiptsAreEarned`: `WordSpec => []WordSound`.  `SourceInv`: Word is not touched before title and
  content of the page were seen.  `BriefInv`: nothing is written until the text is typed,
  then one brief is, the noted one, and once the host has seen the file change it is in it;
  `ProcessInv`: which launched windows each step of the host leaves.  The receipt rests on all
  three.

`DesktopProofs` proves, for any callers, requests and generations of the child:

* `DesktopSafety`: `Spec => []DesktopInv`.  `ChildInv` and `CallInv` say which child has the
  session and whose call a job is; `AnswerInv` ties an answer to what its job has done;
  `HeldInv` says that what is left of a program, or the cleanup behind it, releases every
  key it pressed; `StopInv` that a reason to stop which is not heeded yet still stands at
  the next check, or is counted as the one late step.  `StopsInTime` alone is not
  inductive: a job that is past its check knows nothing of what is pressed meanwhile.
* `StopsInTimeAlways`, `AnswersAreHonest` and `DesktopIsLeftAlone` state the three
  properties of the run.

It proves of `SessionRefs`, for any universe of controls, windows, titles and limits:

* `SessionSafety`: `SessionSpec => []RefInv`.  `OwnedOnce`: the tables of refs and runtime
  ids are inverse to each other, and the node kept for a ref is the control of its id;
  `ToldTrue`: the caller was told of each ref what its node says; the cache names controls by
  their ids; and nothing was shown but what is `Harmless`.  The two loops of a snapshot are
  walks: `WalkExists` (a walk whose steps stay in a set exists) and `StaysIn` (it stays there)
  are proved from the well-ordering of the numbers, and the set is the invariant that
  `IngestOneKeeps` and `VisitKeeps` show for one step.
* `RefsStayOneToOne`: no two refs stand for one runtime id, and the metadata of a sound
  screen names each control once.  `SecretsStayHidden`: neither the tree, the text of a
  document nor the pixels of a region show a secret; for the pixels (`HiddenTitle`) the
  box that is blackened covers what is captured of the window.
* `RefsMeanWhatWasShown`: `SessionSpec => []RefsMeanOneControl` under `IdsNotReused`, that
  objects with one runtime id have one role and name.  The hypothesis is needed:
  `RefsReused` is the run without it, and its violation is a finding.
* `PartsSafe`: `PartSpec`, the two parts beside each other as they are model-checked, keeps
  all five invariants of the run.

`OperatorProofs` proves, of each surface and then of their composition in `MCOperator`:

* `DecisionsAreSound`: `DeskSpec => []DecisionsSound`, for any set of requests.  The
  invariant `DeskInv` adds what the window thread and the coroutine may assume of a card
  in each of its stages (`CardSound`), because a card lives on after its request has been
  answered.  `InboxIsHonest`: `DeskSpec => []InboxHonest`.
* `HaloAlwaysTells`: `HaloSpec => []HaloTells`, for any number of phases: `HaloInv` says what
  is drawn, pending and taken in every stage of the worker's loop.
* `OperatorIsAsked` and `SurfacesAreHonest` are the same of `OperatorSpec`.
* `OnlyReviewedIsSent`: `OperatorSpec => []ReviewBinds`, for any tasks, routes, gates, callers
  and answers.  `DemoInv`: a request belongs to a gate used up for it, by nobody else, and
  every scope sheet was compiled from a valid intent for the text of its gate.  The
  lemmas before it fix the reviewed contract: `ScenarioIsValid`, `ProfilesAreValid`,
  `LocalCompiles` (the host's own intent compiles for any text) and `SheetInside`
  (whatever compiles is inside the scenario).
* `ConsoleIsHonest`: `OperatorSpec => []ConsoleHonest`, whichever Win32 calls fail.  It holds
  because no panel offers to acknowledge and to edit at once (`WindowInv`): a change of
  the window that stops half way leaves a panel that allows no COMPILE to another text.
  `Unaltered`, that the console keeps the text of a gate as it was compiled, is part of it.
* `GatesAreOneShot`: `OperatorSpec => ImplementsPermit`, the refinement of `OneShotPermit` by
  the console, the provider's way and the host together: what a permit was used for is
  the requests and sheets of its gate, and only the step that uses it up adds one.

* `NothingIsHidden`: `OperatorSpec => []NothingHidden`, from two theorems about the
  operators themselves.  `NothingUrgentIsHidden`, for any records and limits: `RankedLists`
  (how many are ahead numbers the records of a group, so the sorted group lists each
  once, newest first), `FirstCutShows` and `FilledShows` (a cut group adds rows until the limit and
  takes none away), and `CallsAreAttention`, that the first group of either surface is what calls
  for attention there.  `ControlsAlwaysFit`, for any size of the window, any text scale, any
  display from 96 to 768 dots per inch and any work area: `PlacedFits` (what is not refused is
  placed apart), `RestoredTakes` (what is restored is what the area has of the size first asked
  for) and `RoomIsExact` with `ClientIsEnough` (a size is refused exactly if it is below
  `LeastHeight` or the least width, and the size first asked for is above), all over
  `RoundedNear`, Python's rounding.  `NamedScreenRoom` shows that the condition is met, and not:
  1366x728 has room for every text scale at 96 to 136 dpi, and at 192 dpi for 100 % but not for
  400 %.

`LearningProofs` proves, of `FactQuarantine` and `AdaptiveRollout` within `MCLearning`:

* `OperatorsDecide`: `LearningSpec => []OperatorDecides`, for any number of operators, facts
  and events.  `FactInv`: the events number the revisions of a fact, and what an operator
  looks at is one of its events; so who acts on the current revision acts on the record
  he saw.  The room that is kept for a deletion is the other part.
  `DeletedStaysDeleted`: `LearningSpec => StaysForgotten`.
* `RolloutStaysReadable`: `LearningSpec => []RolloutSound`, for any policy, hosts, runs and
  reviews.  The validation itself is not inductive: an outcome keeps
  `activeOk <= active` only because the decision it answers was counted and not yet
  verified (`PendingInv`); the share of canaries needs `NextInterval` about `div`.
* `CandidateKeepsItsShare`: `LearningSpec => ImplementsTrial`, the refinement of
  `CanaryTrial`.  `HistoryInv` relates the counters of the record to the history of runs:
  the baseline proved itself at least as often as the counter says, and while the
  rollout goes on every run that has ended was verified.

**Assumptions.**  `RunLockAssumption` (processes and the markers of the file are different
values), `ControlAssumption` (runs, commands and the other owners of the lease are
different, and the bound on requests is a number), `StoreAssumption` (`N` and the lease
are positive numbers, `NoRun` is not a run), `BudgetAssumption` and `TurnsAssumption`
(bounds are numbers, and what a provider may return is a set of sequences of effects),
`RequestsAssumption` and `GenAssumption` (requests name tools of the registry,
generations are positive), `UniverseAssumption` (controls are records in tree order, after
their ancestors), `LimitAssumption` and `DesktopAssumption` (limits are numbers, windows have
boxes), `SecretsAssumption` (a secret or a hidden title is told from all that may be shown), `DeskAssumption`, `BoardAssumption` and `RowsAssumption` (bounds
and limits),
`LimitsAssumption` (the limits of the quarantine are numbers, with room for an extraction
and a deletion, as `MAX_CANDIDATE_EVENTS` and its companions leave), `PolicyAssumption` (the policy's
three numbers are positive, as `AdaptiveRoutingPolicy` demands), `PlansAssumption` (a plan is what
`TaskPlan` accepts, and the limit of calls is a number), `TreesAssumption` and
`FactsAssumption` (a tree is one that `TaskTree` accepts, a fact and the context are
well-typed) and `WordAssumption` (the limit of corrections is a number).  One theorem,
`TreesAreSound`, has a hypothesis of its own, `OrderGuarded`, explained above.

**Only model-checked.**  `ImplementsChoice`, the refinement of `OrderedChoice`, which is stated
for choices of two branches as the run has them; `ShownWasTrue`, about passes over files with a
bounded history; and all liveness, which is out of the prover's reach (`CommandsEnd`,
`UnkilledRunSettles`, `CommandsAnswered`, `LockReleased`, `CallEnds`, `SurfacesEnd`).

## 5. Not modelled

* The other campaign runtimes (`boss_*`, discovery, observation windows): they drive the
  same store through the same coordinator with workers of one application each.
* Provider clients other than the formal demo's intent port: network input and output,
  which the runs see as any answer, failure or silence.
* Notification toasts and their activation, the drawing of windows, themes, words and
  languages, `interaction_feedback`, OCR and capture encoding: presentation or pixels.
* The shortcut broker (it sends the pause request that `CooperativeControl` has),
  `content_handoff` and `word_content_adapter` (not used by the modelled workflow), the
  local memory store, `browser_observation`.
* Privacy masking (regular expressions), telemetry, the Temporal experiment, the command
  line, configuration, `doctor` and packaging.
* Details that another module has or that change no outcome: a call denied by policy and a
  spent budget inside `CooperativeControl` (`ContinuedRun` has them; for the lease they are one
  more way to `EndRun`); the exception that recovery makes for a stopped run whose recovery
  step is completed (`recovery.py:1197,1227`), which asks for a new run as `Overridden` does;
  a boundary outcome that the contract rejects (`EXECUTOR_RUNTIME_EVIDENCE_INVALID`), a branch
  that `PlannedRun` has (`Accepts`) and never takes, since the goal of a step follows from the
  result that is then judged; and whose keys a native step
  releases when it is unwound: its own in the code, all that are held in `DesktopServer`, where
  a child works at one job at a time.
* Token budgets, evaluation and planning prompts; decoding of corrupt files other than as
  a refusal; a discovery-pass ledger; `finish_batch` and the batch budgets other than the
  item limit.

## 6. What would come next

A model of the discovery passes beside `CampaignStore`; and the composition of `PlannedRun`
with `TreeRun`, which today meet only in the linear tree that mirrors a plan.
