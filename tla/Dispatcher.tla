------------------------------ MODULE Dispatcher ------------------------------
(***************************************************************************)
(* The claude-p dispatchers of scripts/super-board-run.sh: how several     *)
(* dispatcher processes, on one host or on several, decide which of them   *)
(* may put a worker on a card of the board, and how they give a card back. *)
(*                                                                         *)
(* Three things stand between two dispatchers and the same card:           *)
(*   - the in-flight lock file of the card (one directory per host),       *)
(*   - the assignee claim on GitHub, added and then read back,             *)
(*   - the lane variable of the dispatcher, which is private to it.        *)
(* A lock file whose PID line is empty is `claiming'; past                 *)
(* spawn_grace_seconds it is `expired'; with a PID it names its worker.    *)
(*                                                                         *)
(* The environment constant Env says which of the following may happen, so *)
(* that a run or a theorem can say what it needs:                          *)
(*   "slow-claim"    claiming a card may outlast spawn_grace_seconds;      *)
(*   "blind-unlink"  another process may act between the moment a lock     *)
(*                   file is judged and the moment it is removed;          *)
(*   "crash"         a dispatcher may be killed between two steps;         *)
(*   "gh-failure"    a call to GitHub may fail, or time out after it was   *)
(*                   applied.                                              *)
(***************************************************************************)
EXTENDS Naturals, FiniteSets

CONSTANTS
  Dispatcher,   \* dispatcher processes
  Host,         \* machines: each has one in-flight directory
  Login,        \* GitHub identities (notifications.bot_identity)
  Card,         \* issue cards on the board
  Pid,          \* worker processes that can ever be spawned (a bound)
  HostOf,       \* the machine a dispatcher runs on
  LoginOf,      \* the identity in a dispatcher's config
  Status,       \* the board columns a card is seen in (a bound)
  Variant,      \* "full" or "qa-only"
  MaxWorkers,   \* config.max_workers
  Env,          \* which environment events may happen
  NoPid, NoCard, NoDispatcher

EnvEvents == {"slow-claim", "blind-unlink", "crash", "gh-failure"}
PidlessLocks == {"claiming", "expired"}

ASSUME DispatcherAssumption ==
  /\ HostOf \in [Dispatcher -> Host]
  /\ LoginOf \in [Dispatcher -> Login]
  /\ Env \subseteq EnvEvents
  /\ Variant \in {"full", "qa-only"}
  /\ MaxWorkers \in Nat \ {0}
  /\ "Ready" \in Status
  /\ NoPid \notin Pid /\ NoCard \notin Card /\ NoDispatcher \notin Dispatcher
  /\ Pid \cap (PidlessLocks \cup {"free"}) = {}

VARIABLES
  column,     \* the card's Status on the project board
  assignees,  \* the logins assigned to the card's issue
  lock,       \* the in-flight lock file of a card on a host
  wstate,     \* a worker process: unborn, spawned, working, lingering, dead
  wcard,      \* the card a worker was spawned for
  wby,        \* the dispatcher that spawned it
  pc,         \* where a dispatcher is in its tick
  cur,        \* the card its current shell function works on
  todo,       \* the lock files left in the directory scan it is in
  cache,      \* PROJECT_ITEMS_JSON: the board as it last read it
  fetched,    \* has this tick read the board yet?
  eligible,   \* ELIGIBLE_CARDS_JSON not yet tried this tick
  child,      \* the local variable pid of dispatch_lane
  lanePid,    \* BUILD_PID (QA_PID when Variant is qa-only)
  laneCard    \* BUILD_ISSUE (QA_ISSUE)

board == <<column, assignees>>
workers == <<wstate, wcard, wby>>
locals == <<cur, todo, cache, fetched, eligible, child, lanePid, laneCard>>
vars == <<board, lock, workers, pc, locals>>

-----------------------------------------------------------------------------
(* What the shell can see. *)

Alive(p) == p \in Pid /\ wstate[p] \in {"spawned", "working", "lingering"}

LockHeld(h, c) == lock[h][c] = "claiming" \/ Alive(lock[h][c])
LockStale(h, c) == lock[h][c] # "free" /\ ~LockHeld(h, c)
LocksOn(h) == {c \in Card : lock[h][c] # "free"}

\* The columns in which the lane's worker is expected to find its card.
ExpectedColumns == IF Variant = "full" THEN {"Ready", "Building"} ELSE {"QA"}

LaneIdle(d) == ~Alive(lanePid[d])
ActiveWorkers(d) == IF LaneIdle(d) THEN 0 ELSE 1

\* check_lane_zombie's verdict, on the cached board.
LaneZombie(d) == ~LaneIdle(d) /\ cache[d][laneCard[d]] \notin ExpectedColumns

\* d is inside dispatch_lane, past take_issue_lock, for card c.
ClaimSteps == {"permit", "claim", "verify", "launch", "spawn", "record", "unclaim", "drop"}
Claiming(d, c) == pc[d] \in ClaimSteps /\ cur[d] = c

Goto(d, step) == pc' = [pc EXCEPT ![d] = step]
SetLock(h, c, v) == lock' = [lock EXCEPT ![h][c] = v]

\* Mutant of ReleaseClaim: every assignee is removed, not only this login.
ReleaseEveryAssignee(d, c) == assignees' = [assignees EXCEPT ![c] = {}]

\* release_claim and every other --remove-assignee: `|| true', so a failed call
\* looks like a successful one.
ReleaseClaim(d, c) ==
  \/ assignees' = [assignees EXCEPT ![c] = @ \ {LoginOf[d]}]
  \/ "gh-failure" \in Env /\ UNCHANGED assignees

\* A lock judged removable is removed; when Env allows it, another process may
\* act first and d removes whatever lies there later, at step later.
Unlink(d, c, later, done) ==
  IF "blind-unlink" \in Env
  THEN Goto(d, later) /\ UNCHANGED lock
  ELSE Goto(d, done) /\ SetLock(HostOf[d], c, "free")

-----------------------------------------------------------------------------
Init ==
  /\ column = [c \in Card |-> "Ready"]
  /\ assignees = [c \in Card |-> {}]
  /\ lock = [h \in Host |-> [c \in Card |-> "free"]]
  /\ wstate = [p \in Pid |-> "unborn"]
  /\ wcard = [p \in Pid |-> NoCard]
  /\ wby = [p \in Pid |-> NoDispatcher]
  /\ pc = [d \in Dispatcher |-> "off"]
  /\ cur = [d \in Dispatcher |-> NoCard]
  /\ todo = [d \in Dispatcher |-> {}]
  /\ cache = [d \in Dispatcher |-> column]
  /\ fetched = [d \in Dispatcher |-> FALSE]
  /\ eligible = [d \in Dispatcher |-> {}]
  /\ child = [d \in Dispatcher |-> NoPid]
  /\ lanePid = [d \in Dispatcher |-> NoPid]
  /\ laneCard = [d \in Dispatcher |-> NoCard]

(* Startup: the orphan guard refuses while any worker of the host is alive.
   The startup reap and the first tick's reap are one pass here. *)
OrphanFree(h) == \A p \in Pid : Alive(p) => HostOf[wby[p]] # h

\* Mutant of Start: no orphan guard.
StartBesideOrphans(d) ==
  /\ pc[d] = "off"
  /\ Goto(d, "reap")
  /\ todo' = [todo EXCEPT ![d] = LocksOn(HostOf[d])]
  /\ cache' = [cache EXCEPT ![d] = column]
  /\ UNCHANGED <<board, lock, workers, cur, fetched, eligible, child, lanePid, laneCard>>

Start(d) ==
  /\ pc[d] = "off"
  /\ OrphanFree(HostOf[d])
  /\ Goto(d, "reap")
  /\ todo' = [todo EXCEPT ![d] = LocksOn(HostOf[d])]
  /\ cache' = [cache EXCEPT ![d] = column]
  /\ UNCHANGED <<board, lock, workers, cur, fetched, eligible, child, lanePid, laneCard>>

Tick(d) ==
  /\ pc[d] = "sleep"
  /\ Goto(d, "reap")
  /\ todo' = [todo EXCEPT ![d] = LocksOn(HostOf[d])]
  /\ UNCHANGED <<board, lock, workers, cur, cache, fetched, eligible, child, lanePid, laneCard>>

-----------------------------------------------------------------------------
(* reap_finished_locks: one lock file after the other. *)

ReapKeep(d, c) ==
  /\ pc[d] = "reap" /\ c \in todo[d]
  /\ ~LockStale(HostOf[d], c)
  /\ todo' = [todo EXCEPT ![d] = @ \ {c}]
  /\ UNCHANGED <<board, lock, workers, pc, cur, cache, fetched, eligible, child, lanePid, laneCard>>

ReapJudge(d, c) ==
  /\ pc[d] = "reap" /\ c \in todo[d]
  /\ LockStale(HostOf[d], c)
  /\ todo' = [todo EXCEPT ![d] = @ \ {c}]
  /\ cur' = [cur EXCEPT ![d] = c]
  /\ Unlink(d, c, "reap-unlink", "reap-release")
  /\ UNCHANGED <<board, workers, cache, fetched, eligible, child, lanePid, laneCard>>

ReapUnlink(d) ==
  /\ pc[d] = "reap-unlink"
  /\ SetLock(HostOf[d], cur[d], "free")
  /\ Goto(d, "reap-release")
  /\ UNCHANGED <<board, workers, locals>>

ReapRelease(d) ==
  /\ pc[d] = "reap-release"
  /\ ReleaseClaim(d, cur[d])
  /\ cur' = [cur EXCEPT ![d] = NoCard]
  /\ Goto(d, "reap")
  /\ UNCHANGED <<column, lock, workers, todo, cache, fetched, eligible, child, lanePid, laneCard>>

ReapDone(d) ==
  /\ pc[d] = "reap" /\ todo[d] = {}
  /\ Goto(d, "sweep")
  /\ UNCHANGED <<board, lock, workers, locals>>

-----------------------------------------------------------------------------
(* sweep_lane_zombies, once on the last tick's board and once on the fresh one;
   between the two, the cap check that skips the board read. *)

SweepKill(d) ==
  /\ pc[d] = "sweep"
  /\ LaneZombie(d)
  /\ wstate' = [wstate EXCEPT ![lanePid[d]] = "dead"]
  /\ Unlink(d, laneCard[d], "zombie-unlink", "zombie-release")
  /\ UNCHANGED <<board, wcard, wby, locals>>

ZombieUnlink(d) ==
  /\ pc[d] = "zombie-unlink"
  /\ SetLock(HostOf[d], laneCard[d], "free")
  /\ Goto(d, "zombie-release")
  /\ UNCHANGED <<board, workers, locals>>

ZombieRelease(d) ==
  /\ pc[d] = "zombie-release"
  /\ ReleaseClaim(d, laneCard[d])
  /\ lanePid' = [lanePid EXCEPT ![d] = NoPid]
  /\ laneCard' = [laneCard EXCEPT ![d] = NoCard]
  /\ Goto(d, "sweep")
  /\ UNCHANGED <<column, lock, workers, cur, todo, cache, fetched, eligible, child>>

SweepDone(d) ==
  /\ pc[d] = "sweep"
  /\ ~LaneZombie(d)
  /\ Goto(d, IF fetched[d] THEN "select"
             ELSE IF ActiveWorkers(d) >= MaxWorkers THEN "sleep" ELSE "fetch")
  /\ UNCHANGED <<board, lock, workers, locals>>

\* Mutant of Fetch: the plan is renewed, the cache the watchdog reads is not.
FetchPlanOnly(d) ==
  /\ pc[d] = "fetch"
  /\ \E refused \in SUBSET Card :
       eligible' = [eligible EXCEPT ![d] =
         {c \in Card \ refused : column[c] = "Ready" /\ assignees[c] = {}}]
  /\ fetched' = [fetched EXCEPT ![d] = TRUE]
  /\ Goto(d, "sweep")
  /\ UNCHANGED <<board, lock, workers, cur, todo, cache, child, lanePid, laneCard>>

\* The board read and the eligibility call. Status exactly Ready and nobody
\* assigned; the gates that look at labels, route, issue state and activation
\* may refuse any of those cards.
Fetch(d) ==
  /\ pc[d] = "fetch"
  /\ \E refused \in SUBSET Card :
       eligible' = [eligible EXCEPT ![d] =
         {c \in Card \ refused : column[c] = "Ready" /\ assignees[c] = {}}]
  /\ cache' = [cache EXCEPT ![d] = column]
  /\ fetched' = [fetched EXCEPT ![d] = TRUE]
  /\ Goto(d, "sweep")
  /\ UNCHANGED <<board, lock, workers, cur, todo, child, lanePid, laneCard>>

-----------------------------------------------------------------------------
(* Choosing a card: next_dispatchable_card and the issue_locked call that
   opens dispatch_lane. *)

CanDispatch(d) == LaneIdle(d) /\ ActiveWorkers(d) < MaxWorkers

SkipLocked(d, c) ==
  /\ pc[d] = "select" /\ CanDispatch(d) /\ c \in eligible[d]
  /\ LockHeld(HostOf[d], c)
  /\ eligible' = [eligible EXCEPT ![d] = @ \ {c}]
  /\ UNCHANGED <<board, lock, workers, pc, cur, todo, cache, fetched, child, lanePid, laneCard>>

Choose(d, c) ==
  /\ pc[d] = "select" /\ CanDispatch(d) /\ c \in eligible[d]
  /\ ~LockHeld(HostOf[d], c) /\ lock[HostOf[d]][c] # "expired"
  /\ cur' = [cur EXCEPT ![d] = c]
  /\ IF LockStale(HostOf[d], c) THEN Unlink(d, c, "unlink", "lock")
                                ELSE Goto(d, "lock") /\ UNCHANGED lock
  /\ UNCHANGED <<board, workers, todo, cache, fetched, eligible, child, lanePid, laneCard>>

\* Reaping an expired claim lock here logs a line, on the standard output that
\* $(next_dispatchable_card) captures: what reaches dispatch_lane is not an issue
\* number, activation refuses it, and the tick dispatches nothing.
Misread(d, c) ==
  /\ pc[d] = "select" /\ CanDispatch(d) /\ c \in eligible[d]
  /\ lock[HostOf[d]][c] = "expired"
  /\ cur' = [cur EXCEPT ![d] = c]
  /\ eligible' = [eligible EXCEPT ![d] = {}]
  /\ Unlink(d, c, "misread", "select")
  /\ UNCHANGED <<board, workers, todo, cache, fetched, child, lanePid, laneCard>>

ChosenUnlink(d) ==
  /\ pc[d] \in {"unlink", "misread"}
  /\ SetLock(HostOf[d], cur[d], "free")
  /\ Goto(d, IF pc[d] = "unlink" THEN "lock" ELSE "select")
  /\ UNCHANGED <<board, workers, locals>>

\* The tick ends: back to the sleep, with nothing carried over but the board
\* cache and the lane.
ForgetTick(d) ==
  /\ cur' = [cur EXCEPT ![d] = NoCard]
  /\ child' = [child EXCEPT ![d] = NoPid]
  /\ fetched' = [fetched EXCEPT ![d] = FALSE]
  /\ eligible' = [eligible EXCEPT ![d] = {}]

EndTick(d) ==
  /\ Goto(d, "sleep")
  /\ ForgetTick(d)
  /\ UNCHANGED <<todo, cache>>

NothingToDispatch(d) ==
  /\ pc[d] = "select"
  /\ ~CanDispatch(d) \/ eligible[d] = {}
  /\ EndTick(d)
  /\ UNCHANGED <<board, lock, workers, lanePid, laneCard>>

-----------------------------------------------------------------------------
(* dispatch_lane: lock, permit, claim, verify, permit, spawn, record. *)

\* Mutant of TakeLock: no noclobber, the file is overwritten.
TakeLockOver(d) ==
  /\ pc[d] = "lock"
  /\ SetLock(HostOf[d], cur[d], "claiming")
  /\ Goto(d, "permit")
  /\ UNCHANGED <<board, workers, locals>>

\* take_issue_lock under noclobber: create, or find that somebody else did.
TakeLock(d) ==
  /\ pc[d] = "lock" /\ lock[HostOf[d]][cur[d]] = "free"
  /\ SetLock(HostOf[d], cur[d], "claiming")
  /\ Goto(d, "permit")
  /\ UNCHANGED <<board, workers, locals>>

LockTaken(d) ==
  /\ pc[d] = "lock" /\ lock[HostOf[d]][cur[d]] # "free"
  /\ EndTick(d)
  /\ UNCHANGED <<board, lock, workers, lanePid, laneCard>>

\* activation_permits at stage claim: the mode on disk may have been flipped.
PermitClaim(d) ==
  /\ pc[d] = "permit"
  /\ \E step \in {"claim", "drop"} : Goto(d, step)
  /\ UNCHANGED <<board, lock, workers, locals>>

\* try_claim_assignee, first half. A call that fails is not undone, although it
\* may have been applied.
AddAssignee(d) ==
  /\ pc[d] = "claim"
  /\ \/ /\ assignees' = [assignees EXCEPT ![cur[d]] = @ \cup {LoginOf[d]}]
        /\ \/ Goto(d, "verify")
           \/ "gh-failure" \in Env /\ Goto(d, "drop")
     \/ "gh-failure" \in Env /\ Goto(d, "drop") /\ UNCHANGED assignees
  /\ UNCHANGED <<column, lock, workers, locals>>

\* Mutant of VerifyClaim: it is enough to be among the assignees.
VerifyAmong(d) ==
  /\ pc[d] = "verify"
  /\ Goto(d, IF LoginOf[d] \in assignees[cur[d]] THEN "launch" ELSE "unclaim")
  /\ UNCHANGED <<board, lock, workers, locals>>

\* ... second half: exactly this login, or the claim is given back.
VerifyClaim(d) ==
  /\ pc[d] = "verify"
  /\ \/ assignees[cur[d]] = {LoginOf[d]} /\ Goto(d, "launch")
     \/ assignees[cur[d]] # {LoginOf[d]} /\ Goto(d, "unclaim")
     \/ "gh-failure" \in Env /\ Goto(d, "unclaim")
  /\ UNCHANGED <<board, lock, workers, locals>>

\* Mutant of PermitLaunch: a refusal drops the lock and forgets the claim.
RefuseLaunchKeepClaim(d) ==
  /\ pc[d] = "launch"
  /\ \E step \in {"spawn", "drop"} : Goto(d, step)
  /\ UNCHANGED <<board, lock, workers, locals>>

\* activation_permits at stage launch, and the route checks.
PermitLaunch(d) ==
  /\ pc[d] = "launch"
  /\ \E step \in {"spawn", "unclaim"} : Goto(d, step)
  /\ UNCHANGED <<board, lock, workers, locals>>

Spawn(d) ==
  /\ pc[d] = "spawn"
  /\ \E p \in Pid :
       /\ wstate[p] = "unborn"
       /\ wstate' = [wstate EXCEPT ![p] = "spawned"]
       /\ wcard' = [wcard EXCEPT ![p] = cur[d]]
       /\ wby' = [wby EXCEPT ![p] = d]
       /\ child' = [child EXCEPT ![d] = p]
  /\ Goto(d, "record")
  /\ UNCHANGED <<board, lock, cur, todo, cache, fetched, eligible, lanePid, laneCard>>

\* The bound on Pid: no process left to spawn, so the run stops dispatching.
SpawnBound(d) ==
  /\ pc[d] = "spawn"
  /\ \A p \in Pid : wstate[p] # "unborn"
  /\ Goto(d, "unclaim")
  /\ UNCHANGED <<board, lock, workers, locals>>

SpawnFailed(d) ==
  /\ pc[d] = "record" /\ ~Alive(child[d])
  /\ Goto(d, "unclaim")
  /\ UNCHANGED <<board, lock, workers, locals>>

\* Mutant of RecordPid: the lane is set, the lock file is left as it was.
RecordLaneOnly(d) ==
  /\ pc[d] = "record" /\ Alive(child[d])
  /\ lanePid' = [lanePid EXCEPT ![d] = child[d]]
  /\ laneCard' = [laneCard EXCEPT ![d] = cur[d]]
  /\ EndTick(d)
  /\ UNCHANGED <<board, lock, workers>>

\* record_worker_pid overwrites whatever the lock file holds by now.
RecordPid(d) ==
  /\ pc[d] = "record" /\ Alive(child[d])
  /\ SetLock(HostOf[d], cur[d], child[d])
  /\ lanePid' = [lanePid EXCEPT ![d] = child[d]]
  /\ laneCard' = [laneCard EXCEPT ![d] = cur[d]]
  /\ EndTick(d)
  /\ UNCHANGED <<board, workers>>

Unclaim(d) ==
  /\ pc[d] = "unclaim"
  /\ ReleaseClaim(d, cur[d])
  /\ Goto(d, "drop")
  /\ UNCHANGED <<column, lock, workers, locals>>

\* drop_issue_lock removes the file, whoever wrote it.
DropLock(d) ==
  /\ pc[d] = "drop"
  /\ SetLock(HostOf[d], cur[d], "free")
  /\ EndTick(d)
  /\ UNCHANGED <<board, workers, lanePid, laneCard>>

-----------------------------------------------------------------------------
(* Leaving: a halt gate, a crash. A stop signal is module DispatchStop's. *)

NoBoard == [c \in Card |-> "Ready"]

ForgetAll(d) ==
  /\ ForgetTick(d)
  /\ todo' = [todo EXCEPT ![d] = {}]
  /\ cache' = [cache EXCEPT ![d] = NoBoard]
  /\ lanePid' = [lanePid EXCEPT ![d] = NoPid]
  /\ laneCard' = [laneCard EXCEPT ![d] = NoCard]

\* The halt gates and the done condition, once drain_in_flight has given up or
\* has nothing to wait for. A worker still alive is left to itself.
Halt(d) ==
  /\ pc[d] \in {"sleep", "fetch", "select"}
  /\ Goto(d, "off")
  /\ ForgetAll(d)
  /\ UNCHANGED <<board, lock, workers>>

Killed(d) ==
  /\ pc[d] # "off"
  /\ Goto(d, "off")
  /\ ForgetAll(d)
  /\ UNCHANGED <<board, lock, workers>>

Crash(d) == "crash" \in Env /\ Killed(d)

-----------------------------------------------------------------------------
(* The environment: time, the workers, and whoever edits the board. *)

\* spawn_grace_seconds pass over a lock without a PID. Unless Env says that a
\* claim may be that slow, only the lock of a dispatcher that is gone gets there.
GraceExpires(h, c) ==
  /\ lock[h][c] = "claiming"
  /\ \/ "slow-claim" \in Env
     \/ ~\E d \in Dispatcher : HostOf[d] = h /\ Claiming(d, c)
  /\ SetLock(h, c, "expired")
  /\ UNCHANGED <<board, workers, pc, locals>>

\* The worker's own add-then-verify claim, first thing it does.
WorkerClaims(p) ==
  LET c == wcard[p]
      l == LoginOf[wby[p]]
      won == assignees[c] \subseteq {l}
  IN /\ wstate[p] = "spawned"
     /\ assignees' = [assignees EXCEPT ![c] = IF won THEN {l} ELSE @ \ {l}]
     /\ wstate' = [wstate EXCEPT ![p] = IF won THEN "working" ELSE "lingering"]
     /\ UNCHANGED <<column, lock, wcard, wby, pc, locals>>

\* It is done with the card: claim released, but the process may live on.
WorkerReleases(p) ==
  /\ wstate[p] = "working"
  /\ assignees' = [assignees EXCEPT ![wcard[p]] = @ \ {LoginOf[wby[p]]}]
  /\ wstate' = [wstate EXCEPT ![p] = "lingering"]
  /\ UNCHANGED <<column, lock, wcard, wby, pc, locals>>

WorkerExits(p) ==
  /\ Alive(p)
  /\ wstate' = [wstate EXCEPT ![p] = "dead"]
  /\ UNCHANGED <<board, lock, wcard, wby, pc, locals>>

\* A worker, another lane or a human moves the card.
CardMoves(c, s) ==
  /\ column[c] # s
  /\ column' = [column EXCEPT ![c] = s]
  /\ UNCHANGED <<assignees, lock, workers, pc, locals>>

-----------------------------------------------------------------------------
DispatcherStep(d) ==
  \/ Tick(d)
  \/ ReapUnlink(d) \/ ReapRelease(d) \/ ReapDone(d)
  \/ SweepKill(d) \/ ZombieUnlink(d) \/ ZombieRelease(d) \/ SweepDone(d)
  \/ Fetch(d)
  \/ ChosenUnlink(d) \/ NothingToDispatch(d)
  \/ TakeLock(d) \/ LockTaken(d) \/ PermitClaim(d) \/ AddAssignee(d) \/ VerifyClaim(d)
  \/ PermitLaunch(d) \/ Spawn(d) \/ SpawnBound(d) \/ SpawnFailed(d) \/ RecordPid(d)
  \/ Unclaim(d) \/ DropLock(d)
  \/ \E c \in Card : ReapKeep(d, c) \/ ReapJudge(d, c) \/ SkipLocked(d, c)
                     \/ Choose(d, c) \/ Misread(d, c)

Next ==
  \/ \E d \in Dispatcher : DispatcherStep(d) \/ Start(d) \/ Halt(d) \/ Crash(d)
  \/ \E h \in Host, c \in Card : GraceExpires(h, c)
  \/ \E p \in Pid : WorkerClaims(p) \/ WorkerReleases(p) \/ WorkerExits(p)
  \/ \E c \in Card, s \in Status : CardMoves(c, s)

Spec == Init /\ [][Next]_vars
FairSpec == Spec /\ \A d \in Dispatcher : WF_vars(DispatcherStep(d))

-----------------------------------------------------------------------------
(* Properties. *)

\* The steps of the trap of INT and TERM, which module DispatchStop adds.
TrapSteps == {"term", "term-release", "term-unlink"}

Steps == ClaimSteps \cup TrapSteps \cup
  {"off", "sleep", "reap", "reap-unlink", "reap-release", "sweep", "zombie-unlink",
   "zombie-release", "fetch", "select", "unlink", "misread", "lock"}

\* Types of every variable.
TypeOK ==
  /\ column \in [Card -> Status]
  /\ assignees \in [Card -> SUBSET Login]
  /\ lock \in [Host -> [Card -> Pid \cup PidlessLocks \cup {"free"}]]
  /\ wstate \in [Pid -> {"unborn", "spawned", "working", "lingering", "dead"}]
  /\ wcard \in [Pid -> Card \cup {NoCard}]
  /\ wby \in [Pid -> Dispatcher \cup {NoDispatcher}]
  /\ pc \in [Dispatcher -> Steps]
  /\ cur \in [Dispatcher -> Card \cup {NoCard}]
  /\ todo \in [Dispatcher -> SUBSET Card]
  /\ cache \in [Dispatcher -> [Card -> Status]]
  /\ fetched \in [Dispatcher -> BOOLEAN]
  /\ eligible \in [Dispatcher -> SUBSET Card]
  /\ child \in [Dispatcher -> Pid \cup {NoPid}]
  /\ lanePid \in [Dispatcher -> Pid \cup {NoPid}]
  /\ laneCard \in [Dispatcher -> Card \cup {NoCard}]

SameHost(p, q) == HostOf[wby[p]] = HostOf[wby[q]]

\* No card ever has two live workers on one host: the in-flight lock, taken
\* before the claim and handed to the worker by record_worker_pid, excludes a
\* second dispatch_lane whoever runs it.
OneWorkerPerCard ==
  \A p, q \in Pid :
    Alive(p) /\ Alive(q) /\ wcard[p] = wcard[q] /\ SameHost(p, q) => p = q

\* A live worker is never lost: the lock file of its card names it, or the
\* dispatcher that spawned it is about to write its PID there. A worker nothing
\* names can be neither reaped nor stopped.
LiveWorkerTracked ==
  \A p \in Pid : Alive(p) =>
    \/ lock[HostOf[wby[p]]][wcard[p]] = p
    \/ pc[wby[p]] = "record" /\ child[wby[p]] = p

Engaged(p) == wstate[p] \in {"spawned", "working"}

\* The read-back of the assignees excludes: two workers that have not yet given
\* their card back are never on one card, on any hosts.
ClaimExcludes ==
  \A p, q \in Pid :
    Engaged(p) /\ Engaged(q) /\ wcard[p] = wcard[q] => p = q

\* A claim stays put: while a worker works on its card the issue is assigned to
\* its dispatcher's identity, whatever reaping, restarting and failing went on.
ClaimIsHeld ==
  \A p \in Pid : wstate[p] = "working" => LoginOf[wby[p]] \in assignees[wcard[p]]

\* d is in the middle of giving card c back.
Releasing(d, c) ==
  \/ pc[d] \in {"reap-release", "unclaim"} /\ cur[d] = c
  \/ pc[d] = "zombie-release" /\ laneCard[d] = c

\* A claim is never stranded: while a bot is assigned to a card, a lock file on
\* one of its hosts still names the card, or one of its dispatchers is about to
\* remove the claim. A stranded claim makes the card `already-claimed' to every
\* planner for ever, and nothing sweeps it.
NoStrandedClaim ==
  \A c \in Card : \A l \in assignees[c] :
    \E d \in Dispatcher :
      LoginOf[d] = l /\ (lock[HostOf[d]][c] # "free" \/ Releasing(d, c))

\* The workers of a host, whatever their card: with one dispatcher per host, the
\* orphan guard keeps a restart from adding a second worker to the first run's.
OneWorkerPerHost ==
  \A p, q \in Pid : Alive(p) /\ Alive(q) /\ SameHost(p, q) => p = q

\* A worker whose card has moved out of its lane's columns does not keep the
\* lane for ever: the watchdog kills it, or the card comes back.
ZombiesAreFreed ==
  \A d \in Dispatcher :
    []<>~(/\ pc[d] # "off" /\ ~LaneIdle(d)
          /\ column[laneCard[d]] \notin ExpectedColumns)

=============================================================================
