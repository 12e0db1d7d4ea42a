# Super Board: TLA+ models, checks and proofs

Super Board drives coding agents from a GitHub project board. Cards move through
columns; dispatchers claim cards and start headless workers on them; lanes of one
host share a few build slots; a ledger of requests says what is ready, tested and
done; a driver continues requests stage by stage; questions go to humans over GitHub
and Telegram. This directory models the concurrent and stateful core of that system,
checks it with TLC and proves parts of it with TLAPS. Paths below are relative to the
repository root.

`PROJECT.json` lists, for machines, what this file explains: the components, the
runs, the source lines of every definition, the mutants, the hazards and the theorems.

Contents: 1 inventory · 2 modules · 3 runs · 4 bounds · 5 fairness · 6 proofs ·
7 observations · 8 what is left out · 9 plan.


## 1. Inventory

### Modelled

**The claude-p dispatcher** (`scripts/super-board-run.sh`). One bash process per
run, any number of them per host and any number of hosts.
*State*: the board (column and assignees of each card, on GitHub); one in-flight lock
file per card and host (`in-flight/*.lock`, first line a PID or nothing yet); worker
processes; private shell variables (the lane's PID and card, the board as last read).
*Operations*: start (orphan guard), tick, `reap_finished_locks`, `sweep_lane_zombies`
(twice per tick), board read and eligibility plan, `next_dispatchable_card`,
`dispatch_lane` (lock, activation, claim, read-back, activation, spawn, record), the
halt gates, `drain_in_flight`, the trap of INT and TERM.
*Hard*: two dispatchers of one host race for a lock file; two hosts race for an
assignee; a lock file without a PID may be somebody's claim or somebody's remains;
every call to GitHub may fail after it was applied; the watchdog acts on the board of
the last read.
*Correct when*: a card has one worker; a working worker's claim is not taken away; no
claim or worker is left that nobody will ever clean up; runs end, and say "drained"
only when it is true.

**The stop script** (`scripts/super-board-stop.sh`). An inventory of the lock files
and processes of a host, then, entry by entry, claim given back, worker killed; then
untracked workers, dispatchers, and last the lock files. *Hard*: dispatchers go on
while it runs, on what it has read. *Correct when*: nothing that was alive on the
host survives it, and nothing is removed that came after.

**The build slot arbiter** (`workflows/portable/build_slot.py`). Command line
processes that share a run directory: a queue file behind a directory lock, and slot
directories behind an OS file lock. *Operations*: enqueue, heartbeat, dequeue, clean;
judge and detach stale slots; admission by FIFO order, memory, class and stagger;
grant; run a command and record it; heartbeat and release. *Hard*: everything is
looked at without a lock first and acted on later; processes die anywhere; PIDs that
are alive may belong to somebody who is not waiting; what cannot be cleaned up is left
to others. *Correct when*: one process at a time rewrites the queue, a lane holds one
slot, no heavy job is admitted beyond the cap of the moment, a running command keeps its slot, nobody is
passed over, and nothing left behind blocks the waiters.

**The request ledger** (`workflows/portable/ledger.py`). One JSON file; every command
reads, changes and replaces it under an exclusive lock. *State*: per request its state,
head commit, criteria with the head each was verified on, stage evidence, authorization,
completion proof, decisions and the blockers they leave, dependencies, parent, linked
issue. *Operations*: add, `update_request` in all its parts, decisions, refresh from
GitHub. *Hard*: the rules are many and meet in one call; a push may come at any state;
what one request may do depends on others that move too. *Correct when*: evidence is
about the commit it is used for, and no sequence of legal calls makes an unproven request
look healthy or done.

**The recurrence guard** (`workflows/portable/recurrence_guard.py`). The durable memory
of failures: observations, corrections, resolutions, escalations of one signature, and
the projection of each failure into the ledger. *Hard*: two files with two locks, two
critical sections in one call, callers that crash or come twice with one event. *Correct
when*: a retry is refused after the second failure until a correction is proven; each
epoch is escalated once; no failure of a request gets lost on the way to its entry.

**The continuation driver, its adapter and the worker backend**
(`workflows/portable/continuation_driver.py`, `superboard_adapter.py`,
`worker_backend.py`). A driver reads its journal, takes the run lock and repeats the
adapter's step: dispatch the stage the ledger names, judge the result, advance the
request. A stage runs as a child of the driver or as a background task of the host,
which reports later and perhaps twice. *Hard*: journal, ledger, attempt records and the
git tree are read at different times; drivers crash, journals get lost or stale, tasks
outlive their attempt. *Correct when*: a stage is credited only on the commit that was
tested, each failure counts once, the outcome of an attempt is final.

**The decision workflow** (`workflows/portable/decision_workflow.py`). A question for a
human is registered, blocks the requests that depend on it, and is answered by a comment
on its issue or by a button of the chat. Registry and ledger are two files, brought
together call by call. *Hard*: comments are fetched before the lock is taken and are
edited; calls fail half way; button, pollers and the registering command overlap. *Correct
when*: the first valid answer is final, reaches every request, and is what the ledger
records; a reply that comes late changes nothing.

**The reminders of the workflow's Telegram notifier**
(`workflows/portable/telegram_notifier.py`). A loop reads registry and ledger, sends what
is due and notes each delivery in three places under two locks or none. *Hard*: the
question may be answered or stopped while it is being sent; notes get lost. *Correct
when*: no answered question is asked, an open one is asked again, but not too often, and
the notes never undo an answer.

### Not modelled

| component | state and behaviour | what would make it correct |
|---|---|---|
| eligibility, routing, activation, config (`scripts/super_board_runtime/`) | pure verdicts on cards; the activation mode on disk | a refused card is refused at every stage |
| wave workflow (`workflows/super-board-wave.js`) | lanes of one wave, a merge queue, `workflow-wave.lock` | never beside a dispatcher; a lane's failure ends only that lane |
| lifecycle, exact-SHA QA and review contracts (`scripts/super_board_runtime/`) | verdicts bound to a commit | a later push invalidates them |
| merge gates (`workflows/portable/merge_guard.py`, `github_pr_gate.py`, `close_guard.py`) | approvals, checks, heads | what is merged is what was judged |
| project mutation (`scripts/super_board_runtime/project.py`) | board fields | compare before mutate |
| session crash monitor (`workflows/portable/`) | process tables, transcripts, a restart lease | a session is restarted once |
| Telegram budget of the workflows (`workflows/portable/telegram_budget.py`) | a file of bookings behind a lock file | the limit holds among all senders |
| Telegram coordinator, poller, governor, daemon, questions (`packages/telegram-agent-harness/`) | SQLite leases, a send budget, topics | one poller, fair sending, one answer per question |
| coordinator, quota, model routing, identity, installation, normalisation, tools, user interfaces, prose | no concurrency of their own, or only I/O | (not planned) |

How they interact: dispatcher, wave and stop meet in the in-flight directory and on
the issue's assignees; workers call the build slot arbiter around heavy commands and
move their own cards. The driver moves requests in the ledger, asks the recurrence guard
before it retries, and stops at open decisions; the guard and the decision workflow write
the ledger's entries; the reminders read the registry and the ledger and write the
registry's metadata. Merge gates read what the lifecycle contracts wrote on the pull
request.


## 2. Modules

| module | what it is |
|---|---|
| `Dispatcher` | any number of dispatchers, hosts, identities and cards: locks, claims, workers |
| `DispatchStop` | extends `Dispatcher` with the signal trap and the stop script |
| `DispatchLoop` | one run of one dispatcher: what it counts, when it halts, how it drains |
| `QueueLock` | the lock of the queue file and the operations under it |
| `AtomicQueue` | what the queue promises: operations one at a time. `QueueLock` implements it |
| `BuildSlot` | the slots: waiting, judging, admission, the run wrapper, the hosts of `acquire` |
| `Ledger` | the calls on the request ledger, one step each |
| `Recurrence` | the recurrence guard: store, callers, projection into the ledger |
| `Continuation` | drivers, the adapter's step, native attempts and cli children, unpark |
| `DecisionWorkflow` | registration, comments, polling, buttons and their ledger calls |
| `Reminders` | extends `DecisionWorkflow` with the reminder loop, stops and other notifiers. It implements `DecisionWorkflow` |
| `MC...` | the small instances |
| `...Proofs` | theorems: `Dispatcher` (with `DispatchStop`), `DispatchLoop`, `QueueLock`, `BuildSlot`, `Ledger`, `Recurrence`, `Continuation`, `Decision` (with `Reminders`) |

### Dispatcher

`pc` is the place in the tick; each action is one shell function, or the part of it
between two points where another process can come between. `lock[h][c]` is the lock
file of card c on host h: `"free"`, `"claiming"` (no PID line yet), `"expired"` (no
PID line and older than `spawn_grace_seconds`), or the PID. `assignees` is GitHub's
list; `AddAssignee` and `VerifyClaim` are the two halves of `try_claim_assignee`.
`wstate` is `working` from the worker's own claim to its release, and `lingering` for
a process that has given its card back and still runs.

`Env` names the disturbances: `slow-claim` (a claim may outlast the grace), `blind-
unlink` (somebody may act between the judgement of a lock file and its removal),
`crash`, `gh-failure` (a call fails, perhaps after it was applied). The bot identity
(`notifications.bot_identity`) is always set.

Abstracted: the startup reap is merged with the first tick's; the eligibility plan is
"Ready, unassigned, and any card may be refused by the other gates"; activation and
route checks are a free choice; the card's priority order is a free choice; a card
always stays on the board. Only the entry lane gets a worker, because only Ready
cards are dispatched, so there is one lane variable. When the worker processes `Pid`
run out, `SpawnBound` takes the refusal path.

### DispatchStop

The trap (`TermKill`, `TermRelease`, `TermUnlink` for each lock file) and the script
(`StopScan`, `StopFind`, `StopRelease`, `StopKillWorker`, `StopSweep`, `StopTerm`,
`StopKill`, `StopUnlink`). `inv` is the inventory, read once and used to the end.
`before` and `quiet` are history variables for the properties. A scan of the lock
directory is one step.

### DispatchLoop

Ticks stand for time. `why` is the outcome; `CeilingHalt` and `CannotRead` drain,
the other halts do not, as in the code. `moved`, `best` and `since` are history
variables.

### QueueLock and AtomicQueue

`dir` is the lock directory with its token and PID; `guard` the OS file lock, kept
over `mkdir` and the info file (`MakeDir`, `WriteInfo`). `Judge` looks without the
guard, `Reclaim` acts with it on an earlier verdict. `Read` and `Write` are the two
halves of an operation on the queue file. `AtomicQueue` has one step per operation;
the refinement maps the file to the queue and the dead processes to `gone`.

### BuildSlot

The guarded steps are atomic here, the queue file is the atomic queue. `Judge` and
`Detach` are the two halves of a reclaim, `Look` and `Grant` of an admission. A `run`
job is its own holder; an `acquire` job returns and leaves the slot to the host process
of its lane (`hosts`), which calls `HostBeat` and `HostRelease`. `young`, `quiet` and
`silent` are time: a slot's age, half an hour without a heartbeat, a queue lease of a
minute. `judged` is the info compared before a slot is detached; `beat` makes two
heartbeats different.

`Need` is the reservation of a job. `free` stands for what is left after the RAM guard,
the floor and the ramps, `limit` for the heavy cap that `_heavy_limit` gives (two below
85 % of RAM in use, else one); an admission reads both, and both move at any time
among the pairs of `Memory`. Jobs that hold slots stay when `limit` falls. A pause of the backfill in favour of an aging head is always possible.
`Fault` is one failing write, lock or spawn, at most `MaxFaults` of them; faults and
deaths of jobs and hosts together are at most `MaxTroubles`.
`Env`: `crash`; `slow` (a waiter is stalled past its lease in the sleep between two
polls); `giveup` (timeouts and freezes); `late` and `orphan` are two behaviours kept
out of the runs, see section 7.

### Ledger

Every command is one step under the ledger's exclusive lock, and a refused command
changes nothing, so `entry` is the file. A record keeps what the rules read: state, head,
criteria with the head each was verified on, whether there is evidence behind them
(`backed`), stage evidence, authorization, completion proof, blocker texts, decisions,
dependencies, parent, linked issue. `WithHead` is the part of `update_request` that a new
head brings; `Graph` and `Allowed` are the transition tables, `CanMove` and `Complete` the
gates in front of them, `Acyclic` the detection of dependency cycles. A refresh from GitHub
leaves the lock to read: `RefreshRead`, `RefreshStore`.
The steps of a life (`LifeCycle`) are unbounded; corrections, retypings, questions and
relinks count against `MaxEdits`. `Worked` bounds which requests are worked on; the others
stand in their way as dependency, parent or child. `AddRequest` takes any of the eight
states, a head or none, and criteria that come verified, as `add_request` does; what an
instance offers it is bounded by `InitialState`, `InitialStatus` and `OtherState`. The
history variable `skipped` names the requests that were put past QA that way and have not
been taken back since; only properties read it. Of an id under which several decisions were
asked, `asked` is the first one and `reasked` says that there are more.

### Recurrence

One failure signature and one request. `observe` takes the store's lock twice and the
ledger's in between; each critical section is one action (`CheckNew`, `Record`,
`ReadLedger`, `WriteLedger` or its refusals, `Mark`), and a caller may crash between two.
`Replay` is `observe` for an event that is known already. The `Corrected` ... `Escalated`
operators are `_derive`, which recomputes everything from the history on every load.
`SameEventTogether` says whether two callers may be at one event at a time.
Git is the relation `Descends`; what a correction cites is whether it proves the change.

### Continuation

Three programs: the driver (`Construct` ... `Park`), the worker backend (`Native`,
`Complete`, `CompleteAgain`, `Retry`), and the `unpark` command; with the host's tasks
(`Launch`, `Bind`) and other people (`Others`: pushes, checkouts, moves, questions and
their answers). A driver's private copy of the journal is `drv[d].copy`; `seen` is what it
has read of the request. Commits are numbers; `tree` is HEAD of the one working tree that
all workers share. `passed` and `moved` are history variables; a key leaves `moved` when
the request is sent back, or its head leaves and comes back (`Recalled`). Stages are kept apart from
their packets, and a fault is known by the place it comes from. The recurrence gate may
refuse where two failures of a stage share a fault, and need not (`MayRefuse`): whether it
does is the `Recurrence` module's question. `unpark` also takes a request that is not
parked, whose run it then retries.

### DecisionWorkflow

`reg` is the decision registry, `entry`/`blocker`/`done` what the ledger knows of it. A
job (`work[p]`) is what a process is at between two ledger calls: registering
(`Register`, `AddEntry`, `WriteBlocker`, `Post`), judging a reply (`Fetch`, `Judge`, then
`Resolve` and `ClearBlocker`, or `WriteBlocker`, then `Save`), or a button (`Press`). The
registry's lock is held from `Judge` or `Press` to `Save`; the ledger's is taken and given
back inside each call. A reply is what the parser makes of it: a choice, unclear, or
refused.

A comment of `Question` is the question itself, whose checkboxes are ticked by editing it.
Its `history` is GitHub's; a poll judges all revisions from the oldest (`rest`), stops at
an answer, and notes the last one as dealt with (`Note`, `snap`) unless that one was
refused. When the history cannot be had, or anything raises while it is gone through,
`FallBack` judges the latest revision without its editor (`blind`), which approves nothing,
and refuses it also when the body noted before was an invalid one (`NotedRefused`).

Abstracted: the parser, scopes and authorization (the kind of a reply); the order of the
dependencies. `Words` are options whose names may occur in prose: see `LedgerNamesIt`.

### Reminders

Extends `DecisionWorkflow`: `RNext` is a step of it, or one of a reminder loop
(`ScanRegistry`, `ScanLedger`, `Send`, `LoadState`, `SaveState`, `MergeMeta`,
`NoteReminder`), of another notifier that reads and overwrites the same state file, of the
operator's stop, or of time. Times are countdowns in ticks; `Tick` waits until the loops
sleep. `Reread` is the registry as the merge finds it under the lock, `twin` the reminder
data of the ledger's own entry of the decision. `quiet` is a history variable.


## 3. Runs

| run | module, cfg | states | shows |
|---|---|---|---|
| `shared_host` | MCDispatcher, Disp_shared | 127k | two dispatchers, one host, one identity: `OneWorkerPerCard`, `LiveWorkerTracked` |
| `two_hosts` | MCDispatcher, Disp_hosts | 414k | a dispatcher on each of two hosts, every disturbance: `ClaimExcludes`, `ClaimIsHeld`, `OneWorkerPerHost` |
| `calm` | MCDispatcher, Disp_calm | 2.6k | one dispatcher that is not cut off: `NoStrandedClaim`, `ZombiesAreFreed` |
| `stop` | MCDispatchStop, Stop_running | 202k | stop beside a running, crashing dispatcher: `StopStopsWorkers`, `StopLeavesHostAtRest` |
| `loop` | DispatchLoop, Loop | 669k | `DoneMeansDrained`, `DispatchesBetweenLandings`, `EveryRunEnds` |
| `queue_lock` | QueueLock | 616k | `OneInside`, `ActsAtomically` (refinement), `WaiterGetsIn` |
| `build` | MCBuildSlot, Build_slot | 471k | `OneSlotPerLane`, `HeavyCap`, `CommandHasSlot`, `ReclaimsAbandoned`, `NoOvertaking`, `EveryWaiterServed` |
| `ledger` | MCLedger, Ledger | 623k | `StageEvidenceCurrent`, `HealthyIsVerified`, `DoneOnReviewedHead`, `ParentStaysClosed` |
| `recurrence` | MCRecurrence, Recurrence | 1.73M | `OpenGateIsProven`, `OneEscalationPerEpoch`, `EscalatedIsAnnounced`, `OwedIsNotLost` |
| `continuation` | MCContinuation, Continuation | 1.13M | `TestedHead`, `FailureCountedOnce`, `OutcomeSettled`, `StageNotRepeated` |
| `decision` | MCDecisionWorkflow, Decision | 437k | `LedgerNamesTheChoice`, `LateReplyBlocksNothing`, `AnswersArrive` |
| `reminders` | MCReminders, Reminders | 602k | `SpacedReminders`, `AnsweredIsNotAsked`, `AnswerIsFinal`, `AskedAgain` |

Each property has a mutant of the code's model (an operator "Mutant of ...", beside
the definition it changes) that violates it: a lock taken without noclobber, a verdict
that is not looked at again before it is acted on, a residue that is not swept, a proof
that survives a new head.

What each property says is in the comment above it. The ones that say most:

- `ClaimExcludes`: the add-then-read-back claim alone keeps two hosts apart, with
  crashes, failing calls and reaping of old claims, provided each host has its own
  identity. `ClaimIsHeld`: nor does any of the reaping remove a working worker's claim.
- `LiveWorkerTracked`: a worker not named by a lock file is one that is about to be.
- `StopStopsWorkers`: the pgrep sweep catches what the lock files do not name, and the
  dispatcher may go on dispatching meanwhile.
- `DispatchesBetweenLandings`: the token-runaway gate holds however the number of Done
  cards goes up and down, because the count is compared with the best so far.
- `ActsAtomically`: through crashes, leaked locks and reclaims the queue file behaves
  as if every operation were one step.
- `NoOvertaking`: a waiter that was dropped while it slept, and came back, keeps its
  place; who is granted a slot passes only waiters that could not run.
- `EveryWaiterServed`: bare slot directories, slots of dead wrappers and hosts,
  residue in the queue and the stagger all come to an end for the waiter behind them.
- `StageEvidenceCurrent`: review and everything behind it stand on evidence for the very
  head, through pushes, retypings, corrections and reopenings, unless the request was put
  there when it was added (section 7). `HealthyIsVerified`: what
  `check` calls healthy past verification is verified on its head, also when done.
- `OpenGateIsProven`: after two failures a retry is allowed only behind a correction that
  is later than all of them and proven on a descendant of every failing head.
- `OwedIsNotLost`: whatever crashes between the two files, a failure without a ledger row
  is still marked as owed, so that a replay or resync makes up for it.
- `TestedHead`: a request in review was tested on its very head by a worker that ended on
  it, although every worker shares one tree, others push and check out, and builds of dead
  drivers still commit.
- `StageNotRepeated`: neither a stale journal, nor a lost one, nor an unpark runs a stage
  again that has moved the ledger on, while the request stays on that head.
- `LedgerNamesTheChoice`: whichever attempt was cut off half way with whichever answer, in
  the end both files name one choice. `AnswersArrive`: refusals on the way do not take the
  question out of what is polled, and a fallback does not swallow a tick that stands.
- `SpacedReminders`: two of the three notes of a delivery are enough.

`CHECK_DEADLOCK` is off where the system may come to rest: a run ends (`loop`), all
jobs or calls are used up (`queue_lock`, `build`), or the bounds on edits, sequence
numbers, runs and faults are (`ledger`, `recurrence`, `continuation`, `decision`,
`reminders`).


## 4. Bounds

- One card is enough for exclusion between dispatchers: locks and claims of different
  cards share nothing but the lane, which a dispatcher uses for one card at a time.
  Three processes (`shared_host`) let both dispatchers dispatch and one do so again.
- Two hosts with an identity each are the smallest race for an assignee. Two worker
  processes are two workers on the card, or one before and one after a restart.
- `calm` has one dispatcher: the properties are about what it leaves behind.
- `loop`: two cards, three dispatches, four ticks, two ticks for each gate: each gate can
  fire, be reset and fire later, and the number of Done cards can fall and rise.
- `queue_lock`: two processes, four calls: a holder that dies, a waiter that judges it
  stale, and a new lock made in between. The theorems hold for any number.
- `build`: two lanes and two slots, a heavy `acquire`, a heavy `run` behind it and a
  light `run` of the second lane behind that: two of one lane, two heavy ones under a
  cap of two that falls to one before, between and after their admissions, backfill past
  a blocked head. One heartbeat per slot, and one fault or one
  death of a job or a host (`MaxTroubles`); two states of the
  memory: room for each job and a cap of two, or no room for the first job and a cap of
  one. The theorems hold
  without these bounds. The order of arrival is fixed; the interleaving is not.
- `ledger`: two requests (parent and child, or one that waits for the other), of which one
  is worked on, two heads, one issue (linked later), one criterion, one decision, two edits:
  a push between any two steps, and a push or correction after completion. The request is
  added as pending or in live verification, on either head or none, its criterion verified
  until a reset; the other one is pending or done. With criteria that are added as pending,
  and requests worked on that are added as done (1.06M states), the run was made without
  errors too; it takes too long to keep. The theorems hold without these
  bounds, for any request worked on and requests added in any state.
- `recurrence`: two callers, four events on three heads, five sequence numbers, one crash or
  refused write: two failures, a correction, a failure after it, and a second escalation.
- `continuation`: one request, two drivers, two task handles, both backends, one commit
  beyond the first, two runs, one unpark (two: 2.54M states), one crash, one act of others: a
  driver beside a
  stale one, a task that outlives its attempt, a crash with a build under way.
- `decision`: one decision with two requests, so that an answer can stop half way; a comment
  and the question, edited once more; a poller, the button, the registering command;
  one fault (two were tried, section 7).
- `reminders`: one question, one request, one comment, a button, a loop beside another
  notifier, a cadence of two ticks, one mishap (`MaxMishaps`) and no fault of the decision
  workflow. With a fault as well (1.9M states) and with two options, unclear replies (8.7M
  states) it was checked without errors too; these runs are too long to keep.
- Symmetry is used in `shared_host`, `two_hosts`, `ledger`, `recurrence` and `continuation`
  only, which check no liveness.


## 5. Fairness

- `Dispatcher`: weak fairness of each dispatcher's steps. The loop is `while true` with
  a sleep; a `gh` call is taken to return, one way or the other. Workers and the board owe nothing:
  a worker may hang for ever, a card may stay where it is.
- `DispatchLoop`: weak fairness of the run's own steps, nothing else.
- `QueueLock`: processes take their steps or die, and time passes (`Age`).
- `BuildSlot`: processes take their steps or die, leases and ages run out, commands
  end (`run_timeout` kills those that do not; for a command whose wrapper died this is
  an assumption), and an `acquire` whose host says nothing falls quiet. Faults, crashes
  and heartbeats owe nothing.
- `DecisionWorkflow`: `sync_decisions` runs at every execution barrier of a coordinator
  and between the attempts of a driver that waits, so a poller goes on with its job (weak
  fairness) and comes by every comment of an open question again and again (strong fairness
  of `Fetch` per comment: between two polls it is not enabled). The button's job goes on.
  Nobody has to register, comment or press. `faults` are bounded, so timeouts end.
- `Reminders`: the steps of a loop, and time in between (strong fairness of `Tick`, which is
  disabled while a loop is awake). Who holds the registry's lock goes on. Mishaps are bounded.
- The stop script, `Ledger`, `Recurrence` and `Continuation` are checked for safety, with
  no fairness.


## 6. Proofs

All leaves are checked by `tlapm`; nothing is assumed beyond the ASSUMEs of the
modules, which TLC also evaluates.

**`DispatcherProofs`.** `TypeCorrect`: `Spec => []TypeOK`, with no hypothesis on the
environment. `TypeOK` is not inductive: the types of `wby` and `cur` at a step need
`Born` (a worker that exists has a dispatcher and a card) and `HasCard` (the functions
that work on a card have one); together they are `TInv`.

`Tracking` and `Exclusion`: `LiveWorkerTracked` and `OneWorkerPerCard` for any
dispatchers, hosts, identities, cards and workers, under `Undisturbed`: no slow claim,
no blind unlink, no crash. GitHub calls may fail. The invariant `LockInv` adds:
`ClaimerHoldsLock` (between `take_issue_lock` and the end of `dispatch_lane` the lock
file is this dispatcher's and has no PID), `OneClaimer`, `ChildKnown`, `LaneKnown` (the
local and lane variables name workers of this dispatcher) and `NoBlindStep`. The argument:
a lock file is removed only when it names no live worker and no claim is going on behind
it, so a live worker's lock file stays until it is dead; and a second worker for the card
would need the lock file to be free. `Exclusion` follows from `Tracking`: two live workers
of one card and host are named by one lock file, or are the child of its one claimer.

`Undisturbed` is needed: with `slow-claim` the property fails (section 7); with
`blind-unlink` a lock file made after the judgement is removed; with `crash` a worker
may be spawned and never recorded.

`OnePerHost` (`OneWorkerPerHost`), in any environment, where a host has one dispatcher
(`OwnHost`). Here the lock files are not what excludes: `LaneInv` says that a running
dispatcher has every live worker of its own in the lane or is about to put it there
(`LaneHolds`), and takes no card while the lane is busy (`LaneFree`); a restart waits for
the workers of the earlier run. So a dispatcher has one live worker (`OneLive`).

`ClaimExclusion` (`ClaimExcludes`) and `ClaimsAreHeld` (`ClaimIsHeld`), in any environment,
when moreover no two dispatchers share an identity (`Apart`; with a shared one the read-back
cannot tell them apart, section 7). `ClaimInv`: whoever has read its claim back, or whose
worker is engaged, is among the assignees (`HoldClaimed`) and holds the card alone
(`HoldOne`): the read-back has seen one assignee, and only its own dispatcher takes an
identity off. That it does not do so under its working worker is `HostInv`: the lock file of
the lane's card names the lane's worker (`LaneLocked`), so the reaper finds it alive, and it is
not giving back that card already (`NotReaped`).

`NoClaimIsStranded` (`NoStrandedClaim`) needs `Calm` too: a crash, or a failed
`--remove-assignee`, strands a claim. `CalmInv` says where a dispatcher's claims are at each
step: not on what it plans or picks, and on locked cards while it claims.

`StopTypeCorrect`, `StopStops` (`StopStopsWorkers`) and `StopClears`
(`StopLeavesHostAtRest`), with no hypothesis: any dispatchers, crashes, signals and
failures. `StopInv`: who lived when stop looked is killed by entry or by sweep before stop
turns to the dispatchers (`Doomed`: whoever the inventory missed is found as an orphan);
and where no dispatcher runs nothing comes up behind it, so that what is left is in the
inventory (`AtRest`).

**`DispatchLoopProofs`.** For any board and any limits: `LoopTypes` (the ceilings),
`LandingsPaceDispatches` (`DispatchesBetweenLandings`) and `DoneIsDrained`
(`DoneMeansDrained`). `Paced`: the count compared with is the best so far, and the workers
started since are at most the ticks counted, and one more until the next gate; the bound
alone is not inductive. `Known`: the board differs from the one read only in cards that have
moved.

**`QueueLockProofs`.** `QueueLockExcludes` (`OneInside`) and `QueueLockImplements`
(`ActsAtomically`, a refinement of `AtomicQueue`), for any processes and any number of
calls, under `InTime`: no live holder outlasts `max_hold`. The invariant `QInv`: tokens
are fresh and unseen until they are in the directory; who is inside owns the directory
and it is not old; a verdict stays right (`VerdictsHold`: the lock it was passed on is
dead or old for good, which is why acting on it later under the guard is safe); what is
about to be written comes from the file that is there (`SnapCurrent`); and who was found
dead is dead. Exclusion is immediate from `InsideOwns`. For the refinement every step is
an operation of `AtomicQueue` or leaves the queue alone; only `Write` needs `QInv`.
Without `InTime`, TLC refutes `OneInside` and `ActsAtomically`; the code accepts this
with a limit of two minutes for work of milliseconds.

**`BuildSlotProofs`.** Every safety property of `build`, for any jobs, lanes, slots,
memory, faults and crashes: `SlotTypes`, `LanesExclude` (`OneSlotPerLane`), `HeavyCapped`
(`HeavyCap`), `CommandsKeepSlots` (`CommandHasSlot`), `OnlyAbandonedReclaimed`
(`ReclaimsAbandoned`) and `NobodyOvertaken` (`NoOvertaking`), under `NotLate`: no host
that has lost its slot releases its lane by name (section 7). The invariant `BInv`:

- `LanesApart` is kept by a grant because it reads slots and queue again under the
  guard: the lanes that hold a slot are taken out of the queue.
- `Owns` and `Recorded`: a `run` has its slot from the grant to the release; and when
  its wrapper dies after the record, the slot says that there is a child. `RunningRuns`
  and `Living` tie commands and processes to the control.
- `VerdictsHold` is what makes the unguarded look safe: an info found abandoned stays
  abandoned as long as it is the same info. A dead wrapper stays dead and its command,
  once ended, ended; a host that was quiet is quiet until a heartbeat, which changes the
  info. `HolderGranted` (a job is granted once) keeps an info from coming back.
  `VerdictStands` turns it into what `Detach` needs.
- `Stamped`: an entry, put back or not, bears its original time. For `NobodyOvertaken`:
  a grant that passes an earlier waiter passes a blocked head, and an earlier waiter that
  fits and is smaller than that head would have been taken first.

`HeavyCapped` is about the step, not the state: only `Grant` adds a heavy holder
(`HeavyJoins`); it counts the directories under the guard, a bare one as heavy, so the
heavy holders are at most what is counted against the cap of that moment. That there
are never more holders than the cap allows is false of the code: the cap may fall to one
while two heavy jobs run.

**`LedgerProofs`.** For any requests, heads, criteria, decisions and issues, any `Worked`,
`MaxEdits` and states in which requests are added: `LedgerTypes`, `EvidenceIsCurrent`
(`StageEvidenceCurrent`), `HealthyAreVerified` (`HealthyIsVerified`),
`CompletedOnReviewedHead` (`DoneOnReviewedHead`), `ParentsStayClosed`
(`ParentStaysClosed`), and two more that no run checks: `BlockersNeedAnswers` (the blocker of
an id leaves only with a real answer to the first decision under it) and
`RefreshesStoreOwnIssue`. The invariant `LInv` is the types, `Sound` of every entry (what is
verified is verified on the head it has, which is why a healthy request is), and `Staged` of
every request that is not in `skipped`. `Touches` says what any call does to the one request
it is about, with a lemma per rule (`WithHead`, `CanMove`, ...); the actions follow from
`Put`, the properties from `Touches`.

**`RecurrenceProofs`.** `RecTypes`, `OpenGatesAreProven`, `EscalatedOncePerEpoch`,
`EscalatedAreAnnounced`, `OwedAreNotLost`, for any callers, events, heads and bounds. `RInv`
adds `History` (sequence numbers are given out once, a bound correction is later than the
counted observations it descends from) and `Projecting` (a caller between the two files has
an observation that is still outstanding). `EventsCountOnce` and `EventsHaveOneRow` need
`~SameEventTogether` (section 7) and the invariant `AInv`: no two callers at one event.

**`ContinuationProofs`.** For any requests on one working tree, drivers, task handles, runs
and crashes, and with either backend: `ContinuationTypes`, `ReviewedWasTested` (`TestedHead`),
`FailuresCountOnce` (`FailureCountedOnce`), `OutcomesAreSettled` (`OutcomeSettled`) and
`StagesAreNotRepeated` (`StageNotRepeated`). The types alone need the control: what a driver
holds at each point (`Shape`), and that it holds the run lock (`LockHeld`). `SoundInv` adds:

- `VerifiedAttempts` and `Judged`: a QA or review that is final, or that a driver has judged,
  ended on the head it was asked about. `TestedHead` follows when the ledger is moved on, for
  that is the head the ledger is given.
- `NotAhead`: the request of a stage that runs is not past it, so no stage skips another.
- `MovedOn`: a stage that moved a request on is finalized, and on that head the request is in
  a state from which the stage is not chosen. This is why a driver with an old journal
  does not run it again: the ledger is read at each step.
- `OwnName`: an observation about a run is the one every reader of that run makes, so the
  recurrence guard knows it by its id. `NoAttempts` and `OwnChild` keep the backends apart.

**`DecisionProofs`.** For any decisions, requests, comments, questions, pollers and faults:
`DecisionTypes`, `AnswersReachTheLedger` (no request waits for a decision that a comment
answered), `LedgerNamesIt` (`LedgerNamesTheChoice`, when `Words` is empty), `AnswersAreFinal`,
`LateRepliesAreHarmless`. The invariant `DInv`: `Holds` (a job that writes has the lock, and
its decision is open), `Owns` (who does which job, about what, and that every revision it
has still to judge is well formed) and `Reached` (an answer under way has resolved the
requests it is done with). `LedgerNamesIt` rests on `RecordedOption`: the option recorded is
the least listed one among the words.

In the same module, for any loops, other notifiers and cadences:
`RemindersImplementDecisions`: `Reminders` implements
`DecisionWorkflow` step by step, so the theorems above hold beside it; `AnswersSurvive`
(`AnswerIsFinal` of the composition) follows, and it is not obvious, for the merge of a
reminder writes the whole registry. `ReminderTypes`; `AnsweredAreNotAsked`
(`AnsweredIsNotAsked`) by `AInv`: what a loop has seen answered by a comment was answered,
the ledger was told first (`DInv`), and entries of the ledger stay within the dependencies.

`RemindersAreSpaced` (`SpacedReminders`) has two hypotheses about the constants, `OneLoop` and
`OneMishap` (`MaxMishaps` is 0 or 1), and both are needed: TLC violates the property with two
loops, even without a mishap, and with one loop and two mishaps. The invariant is `SpaceInv`.
`Kept`: a recorded question is stamped in the registry, or about to be. As long as
nothing has gone wrong also `Agreed`: the signature under which the next reminder would go
is the one that is noted, and a copy of the notify state is up to date. What the one mishap
takes decides which half survives: if it is a write of the state file by another notifier or
a lost note there, `Kept` does; if it is the registry's stamp (a timeout, a
crash before the merge), `Remembered` does: the signature, or the reminder noted in the
notify state. The proof also needs that no question reopens (`LiveShrinks`, from
`AnswersAreFinal`) and that a round asks of each question once (`Distinct`). TLC checked
`SpaceInv` on the instance of `reminders` before it was proved.

**Only model-checked**: liveness everywhere (fairness and ENABLED are out of the prover's
reach): `ZombiesAreFreed`, `EveryRunEnds`, `WaiterGetsIn`, `EveryWaiterServed`,
`AnswersArrive` and `AskedAgain`. Every other property of a run has a theorem. No definition
is recursive; nothing here needs induction over data.


## 7. Observations

No run is expected to fail. These are places where the code and what the repository says
of it differ, or where a property holds only under a hypothesis; each was met while
modelling and those marked (model) were found as a counterexample with the constants named.
Line numbers are those of the files of the component's section unless a file is named.

Dispatcher (`run.sh` and `stop.sh` are the two scripts of section 1, `run.md` and
`stop.md` their pages under `skills/super-board/references/`):

- (model, `Env` with `slow-claim`) a claim that outlasts `spawn_grace_seconds` loses its
  lock file to a second dispatcher of the same host and identity, and both start a worker
  for the card (`run.sh:264`, against `run.md:458`).
- (model, `Variant` `qa-only`) a Ready card is dispatched into the QA lane, and the next
  tick's watchdog kills the worker because the card is not yet in QA (`run.sh:605`).
- (model) stop unlinks the lock files of its inventory without looking at them again; the
  dispatcher may have reaped one and made it again for a new worker before it was killed
  (`stop.sh:257`, against the comment at `:251`).
- With one bot identity on two hosts the read-back cannot tell the two claims apart:
  `try_claim_assignee` compares the assignees with its own login, which is the other's
  too (`run.sh:339`, against `run.md:423`).
- With `max_workers` 1 the tick at the cap sleeps before it reads the board
  (`run.sh:854`), so the watchdog reads the board of the dispatching tick for as long
  as the worker lives, and `ZombiesAreFreed` fails; `run.sh:838` says that the sweep
  there lets a pipeline at its cap heal itself. `calm` has `MaxWorkers` 2.
- A signal between the spawn and `record_worker_pid` leaves the worker, and one between
  the removal of a lock file and the release leaves the claim (`run.sh:675`, against
  `run.md:448`).
- Stop gives a claim back before it kills the worker (`stop.sh:228`), so a worker that
  claims in between leaves its claim behind; the next start cannot sweep it, because
  the lock file is gone (against `stop.md:75`).
- The no-progress gate halts a run whose lanes are all idle (`run.sh:943`), where
  `run.md:460` says "AND no lane is idle"; a dispatch that is refused counts as progress.
- The wave halt and the no-merge halt leave workers behind without draining.
- With two dispatchers on one host, the removal of a stale lock file in `issue_locked`
  does not release the claim; if the dispatch that follows is refused, the claim stays.
  With `gh-failure`, a failed `--remove-assignee` does the same. `NoStrandedClaim` is
  therefore checked with one dispatcher and working calls.

Build slot arbiter:

- (model) the grace period for slots of dead owners is computed and not used
  (`build_slot.py:2387`); the comment there and the docstring (`:245`) promise it, and
  `test_build_slot.py:1285` expects the opposite.
- A wrapper that dies between the spawn of its command and the record of it leaves a
  command that runs without a slot (`pc` is `lost` in `BuildSlot`, the one exception in
  `CommandHasSlot`).
- (model, `Env` with `late`) a host that has lost its slot by silence and then calls
  `release` by the lane's name frees whatever slot the lane holds by then, a `run`'s too,
  and drops its queue entries.
- (model, `Env` with `orphan`) an `acquire` that outlives its host keeps putting its entry
  back and dropping it as dead, for as long as its own timeout, or for ever.
- The heavy cap is a bound on admissions, not on what runs: two heavy jobs admitted below
  85 % of RAM both go on when the cap falls to one (`:272`, `:2538`).
- A waiter behind a blocked head that needs as much as the head or more waits with it,
  although it would fit; later and smaller ones pass both (`:2642`). `NoOvertaking` allows
  for it.
- A recorded command that outlives its wrapper keeps its slot for as long as it runs.
- A holder of the queue lock that works longer than `max_hold` is taken for a leak
  (`:1405`); `InTime` excludes it.

Ledger (`ledger.py`):

- (model, `skipped`) `add_request`, and so `add --state`, takes any state (607) with criteria
  that are verified already and no stage evidence. Completion (1246-1290) asks for none
  either, so that a deployable request added in live verification, with verified criteria and
  a proof, is done without QA or review on any head.
- (model, `reasked`) a second decision under a used id is appended without a look (1030-1048).
  `resolve_decision` (1050-1097) and the clearing of one blocker (1116-1124) act on the first
  of the id, so that the answer to the first takes away the blocker of the second; clearing
  all (1104-1115) looks at both and is refused while it stands, for nothing resolves the second.
- `observe_failure` (1792-1974) writes the recurrence store without that store's lock.
- Whoever may change the owner of a request may make itself the owner and authorize it.
- A parent that is a dependency of its child waits for it, and is waited for (1217).
- Dependencies that are added to a request under way need not be done; they are looked at
  when it moves next (800-806).

Recurrence guard (`recurrence_guard.py`):

- (model, `SameEventTogether`) `observe` looks the id up at 1312 and appends at 1400 after
  giving the lock back, without looking again: two callers with one event record it twice,
  which closes the gate.
- (model) a duplicate that refines an event of `--no-ledger-update` writes the row its
  caller refused (1373, against the comment at 1369 and `WORKER_EXECUTION.md:671`).
- A refused corrective work item is swallowed and the projection still counts as applied
  (3704, 3799); an item that is done already counts as an open one (3700).
- The blocker and next action are computed before the ledger's lock (3994) and may be stale;
  two projectors race the check for the evidence row (`ledger.py:937`).
- Superseding the observation that was escalated silences the next escalation of the epoch.
- `deliver_escalations` sends outside the lock and acknowledges after it; a crash between
  sends again. Nothing runs `resync` by itself.

Continuation (`continuation_driver.py`, `worker_backend.py`, `superboard_adapter.py`):

- (model) a native attempt that passed while its request was parked cannot be unparked
  (`continuation_driver.py:1326`, `worker_backend.py:1631`; the help text at 1244 says how
  to go on after any parking).
- The journal is read before the run lock (511), so a second driver or `unpark` writes back
  a stale copy; parkings are saved only when the run ends.
- (model, two requests) a build that ends in a tree another request has checked out gives
  its request that commit as head; when this brings back a head from which the request had
  moved on before, QA runs again there. `StageNotRepeated` is therefore about one stay on a
  head. With two requests (17M states, too long to keep as a run) it holds in that form.
- A build that made only an artifact, followed by a QA that sends the request back at the
  same head, is parked as already completed for good.
- `verify_and_advance` credits criteria on whatever head the ledger names by then, and the
  result of a build overwrites a head pushed meanwhile.
- A decision opened between the driver's check and the step's counts as a failure.

Decision workflow (`decision_workflow.py`):

- (model, `Words` not empty) the reply "Option B - it is a better fit" is recorded as B in
  the registry and as A in the ledger, because the ledger looks for the name of an option
  among all words of the interpretation (`ledger.py:205`, against the comment at 196).
- Several authorized responders are joined with commas (1235) and compared as one name
  (`ledger.py:1057`): none of them can answer over GitHub.
- While the history of a question is gone through, every exception, a timeout of the
  ledger's lock too, leads to the fallback (3078-3104; the comment at 3061 speaks of a
  history that is not available), which cannot approve: the author of a valid tick is asked
  to clarify, and as the snapshot is brought up to date the tick is not judged again until
  somebody edits the question. `AnswersArrive` allows for it.
- (model, two faults) The fallback compares the tick with the body noted last (3065, 2349), and a
  fallback notes whatever it judged. When the first one noted an invalid block, the second
  refuses the valid tick that mends it, notes it, and asks nobody anything. `AnswersArrive`
  allows for this too, from the second fault on; with two faults (1.5M states, too long to
  keep as a run) it holds in that form, and fails without the exception.
- The whole history is judged at each edit: a choice that was taken back before the first
  poll still answers. A last revision that was refused is not noted, and is judged again,
  with its blocker text, at every poll.
- The failed ledger call of a button is swallowed and never made up for; so is a failed
  `add_decision` at registration, whose blocker text is still written. A button pressed
  while the command still registers leaves entries that block for ever. The theorems are
  therefore about answers by comment.
- `_blockable_requests` looks first and writes later (1167): a request that was done in
  between is blocked. `clear_blocker` removes whatever blocker text stands there.
- Comments are listed without pages: the first thirty.
- An attempt that resolved one request and then failed lets that request go on, with an
  answer that another attempt may replace.

Reminders and Telegram budget (`telegram_notifier.py`, `telegram_budget.py`):

- After a stop the registry no longer hides the ledger's entry of the same decision
  (2276-2299, 2395), so a stopped question is sent at every cadence for ever, against the
  docstring at 2064. The same holds after a button whose ledger call failed.
  `AnsweredIsNotAsked` is therefore about answers by comment.
- (model, `Loop` with two) Two loops race from `check_eligible` to `record_dispatch`, and
  both send the question. A crash, or the deadline of a one-shot run, between delivery and
  record repeats the reminder; `record_dispatch` writes the state file without its lock, so
  that another notifier's write may undo it.
- The sweep of abandoned budget locks renames the lock, looks, and links it back
  (`telegram_budget.py:192`): another process can take it in between.

Quality gate (`workflows/portable/super-qa-dispatch.sh` and `qa.py`, read and not modelled):

- The EXIT trap removes the worktree whether or not this process made it, so the loser of
  the race for the lock deletes the winner's; a signal right after the lock file is made
  leaks it. A failed QA does not revoke an earlier success on the same commit.


## 8. What is left out

In the modelled components:

- dispatcher: the startup look at `workflow-wave.lock`; PID reuse; PIDs that Windows cannot
  verify; cards that vanish from the board.
- build slot arbiter: freeze files, nested holders (`BUILD_SLOT_HELD`), `--force`,
  `--priority` and `bump` (which reorder the queue), recycled PIDs, Windows job objects,
  corrupt reads and the second heartbeat file, the dependency cache, and the state of the
  backfill pause. `clean_queue` looks at the PIDs and tokens before it takes the queue
  lock; `QueueLock` has that for the PIDs, `BuildSlot` has it as one step.
- ledger: the scheduler's queries and reports, migrations, archives, routing records, and
  `observe_failure`. The live reads of the close guard may refuse a completion; they are
  left to chance.
- recurrence guard: fingerprints, redaction, the git inspection behind a binding, delivery.
- continuation: quota pauses, deadlines, reports; the packet and the choice of a harness;
  criteria and artifacts beyond their verdict.
- decision workflow: events handed in from outside (`ingest_github_event`), recovery of
  rejected questions, test replies, session checks.
- reminders: the stores of correlations and callbacks, consolidated, forced and dry runs,
  questions that only the ledger has, rendering.

The components of the second table of section 1 are not modelled. Most of the rest of the
code is reports, text handling, installation and user interface, in which one process reads
and prints.


## 9. Plan

1. *Done*: `Dispatcher`, `DispatchStop`, `DispatchLoop`, `QueueLock`, `BuildSlot`, `Ledger`,
   `Recurrence`, `Continuation`, `DecisionWorkflow`, `Reminders`, and section 6.
2. `CrashMonitor`: a session is restarted once under its lease.
3. `MergeGate`: verdicts bound to a head, pushes between verdict and merge; abstractly,
   only a judged head is merged.
4. `Wave`: the lanes of a wave and `workflow-wave.lock` against the dispatcher's own check.
5. `TelegramLease` and `SendGovernor`: one poller among sessions that crash; priorities
   under a shared budget.
6. `ProjectMutation`: compare-before-mutate against a concurrent editor.
