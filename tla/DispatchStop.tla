----------------------------- MODULE DispatchStop -----------------------------
(***************************************************************************)
(* Stopping what module Dispatcher starts. The trap of the dispatcher's    *)
(* own INT and TERM walks the lock files of its host; the stop script      *)
(* (scripts/super-board-stop.sh) takes an inventory of the lock files,     *)
(* then gives back, kills and unlinks from that inventory while            *)
(* dispatchers and workers go on.                                          *)
(***************************************************************************)
EXTENDS Dispatcher

CONSTANTS
  StopHost,       \* the machine the operator runs stop on
  StopLogin       \* bot_identity of the config stop reads

ASSUME StopAssumption ==
  StopHost \in Host /\ StopLogin \in Login

VARIABLES
  spc,      \* where stop is
  inv,      \* WORKERS: the cards of the inventory and what their lock files held
  left,     \* the cards of the inventory its current loop has not reached
  scard,    \* the card being wrapped up
  runs,     \* DISPATCHER_PIDS still to be killed
  orphans,  \* ORPHAN_WORKERS still to be killed
  before,   \* history: the workers of the host that were alive when stop began
  quiet     \* history: no dispatcher has run on the host since stop began

stop == <<spc, inv, left, scard, runs, orphans, before, quiet>>
allVars == <<vars, stop>>

LiveOn(h) == {p \in Pid : Alive(p) /\ HostOf[wby[p]] = h}
RunningOn(h) == {d \in Dispatcher : pc[d] # "off" /\ HostOf[d] = h}

StopInit ==
  /\ Init
  /\ spc = "idle" /\ inv = << >> /\ left = {} /\ scard = NoCard
  /\ runs = {} /\ orphans = {} /\ before = {} /\ quiet = FALSE

-----------------------------------------------------------------------------
(* on_terminate and stop_and_release_in_flight, over every issue lock of the
   host. A step of a dispatcher or a worker leaves the stop script alone. *)

StopUntouched ==
  /\ quiet' = (quiet /\ RunningOn(StopHost)' = {})
  /\ UNCHANGED <<spc, inv, left, scard, runs, orphans, before>>

OnTerminate(d) ==
  /\ pc[d] \notin TrapSteps \cup {"off"}
  /\ Goto(d, "term")
  /\ ForgetTick(d)
  /\ todo' = [todo EXCEPT ![d] = LocksOn(HostOf[d])]
  /\ UNCHANGED <<board, lock, workers, cache, lanePid, laneCard>>

Signal(d) == OnTerminate(d) /\ StopUntouched

KillWorkers(P) ==
  wstate' = [p \in Pid |-> IF p \in P /\ Alive(p) THEN "dead" ELSE wstate[p]]

TermGone(d, c) ==
  /\ pc[d] = "term" /\ c \in todo[d] /\ lock[HostOf[d]][c] = "free"
  /\ todo' = [todo EXCEPT ![d] = @ \ {c}]
  /\ UNCHANGED <<board, lock, workers, pc, cur, cache, fetched, eligible, child, lanePid, laneCard>>
  /\ StopUntouched

TermKill(d, c) ==
  /\ pc[d] = "term" /\ c \in todo[d] /\ lock[HostOf[d]][c] # "free"
  /\ todo' = [todo EXCEPT ![d] = @ \ {c}]
  /\ cur' = [cur EXCEPT ![d] = c]
  /\ KillWorkers({lock[HostOf[d]][c]})
  /\ Goto(d, "term-release")
  /\ UNCHANGED <<board, lock, wcard, wby, cache, fetched, eligible, child, lanePid, laneCard>>
  /\ StopUntouched

TermRelease(d) ==
  /\ pc[d] = "term-release"
  /\ ReleaseClaim(d, cur[d])
  /\ Goto(d, "term-unlink")
  /\ UNCHANGED <<column, lock, workers, locals>>
  /\ StopUntouched

TermUnlink(d) ==
  /\ pc[d] = "term-unlink"
  /\ SetLock(HostOf[d], cur[d], "free")
  /\ cur' = [cur EXCEPT ![d] = NoCard]
  /\ Goto(d, "term")
  /\ UNCHANGED <<board, workers, todo, cache, fetched, eligible, child, lanePid, laneCard>>
  /\ StopUntouched

TermExit(d) ==
  /\ pc[d] = "term" /\ todo[d] = {}
  /\ Goto(d, "off")
  /\ ForgetAll(d)
  /\ UNCHANGED <<board, lock, workers>>
  /\ StopUntouched

TrapStep(d) ==
  \/ Signal(d) \/ TermRelease(d) \/ TermUnlink(d) \/ TermExit(d)
  \/ \E c \in Card : TermGone(d, c) \/ TermKill(d, c)

-----------------------------------------------------------------------------
(* The stop script. *)

\* Mutant of StopScan: a lock file without a PID is not a worker's.
ScanNamedOnly ==
  /\ spc = "idle"
  /\ inv' = [c \in {b \in LocksOn(StopHost) : lock[StopHost][b] \in Pid} |-> lock[StopHost][c]]
  /\ left' = DOMAIN inv'
  /\ before' = LiveOn(StopHost)
  /\ quiet' = (RunningOn(StopHost) = {})
  /\ spc' = "find"
  /\ UNCHANGED <<vars, scard, runs, orphans>>

\* 1. The inventory of the issue locks.
StopScan ==
  /\ spc = "idle"
  /\ inv' = [c \in LocksOn(StopHost) |-> lock[StopHost][c]]
  /\ left' = DOMAIN inv'
  /\ before' = LiveOn(StopHost)
  /\ quiet' = (RunningOn(StopHost) = {})
  /\ spc' = "find"
  /\ UNCHANGED <<vars, scard, runs, orphans>>

\* ... and the two pgrep calls; with nothing found, stop is over.
StopFind ==
  /\ spc = "find"
  /\ runs' = RunningOn(StopHost)
  /\ orphans' = LiveOn(StopHost)
  /\ spc' = IF inv = << >> /\ runs' = {} /\ orphans' = {} THEN "idle" ELSE "wrap"
  /\ UNCHANGED <<vars, inv, left, scard, before, quiet>>

\* 2. Each entry: release_claim, whose calls may fail, then kill_pid on the PID
\* the inventory holds. The stop comment goes out before and changes nothing.
StopRelease(c) ==
  /\ spc = "wrap" /\ c \in left
  /\ \/ assignees' = [assignees EXCEPT ![c] = @ \ {StopLogin}]
     \/ "gh-failure" \in Env /\ UNCHANGED assignees
  /\ scard' = c
  /\ spc' = "wrap-kill"
  /\ UNCHANGED <<column, lock, workers, pc, locals, inv, left, runs, orphans, before, quiet>>

StopKillWorker ==
  /\ spc = "wrap-kill"
  /\ KillWorkers({inv[scard]})
  /\ left' = left \ {scard}
  /\ spc' = "wrap"
  /\ UNCHANGED <<board, lock, wcard, wby, pc, locals, inv, scard, runs, orphans, before, quiet>>

StopWrapped ==
  /\ spc = "wrap" /\ left = {}
  /\ spc' = "sweep"
  /\ UNCHANGED <<vars, inv, left, scard, runs, orphans, before, quiet>>

\* Mutant of StopSweep: untracked workers are left alone.
SweepNobody ==
  /\ spc = "sweep"
  /\ orphans' = {}
  /\ spc' = "dispatchers"
  /\ UNCHANGED <<vars, inv, left, scard, runs, before, quiet>>

\* 3. Workers that no lock file named when stop looked.
StopSweep ==
  /\ spc = "sweep"
  /\ KillWorkers(orphans)
  /\ orphans' = {}
  /\ spc' = "dispatchers"
  /\ UNCHANGED <<board, lock, wcard, wby, pc, locals, inv, left, scard, runs, before, quiet>>

\* 4. The dispatchers: SIGTERM, which bash acts on only between two commands,
\* one second, SIGKILL.
StopTerm(d) ==
  /\ spc = "dispatchers" /\ d \in runs /\ OnTerminate(d)
  /\ UNCHANGED stop

StopKill(d) ==
  /\ spc = "dispatchers" /\ d \in runs
  /\ IF pc[d] = "off" THEN UNCHANGED vars ELSE Killed(d)
  /\ runs' = runs \ {d}
  /\ UNCHANGED <<spc, inv, left, scard, orphans, before, quiet>>

StopDispatchersGone ==
  /\ spc = "dispatchers" /\ runs = {}
  /\ left' = DOMAIN inv
  /\ spc' = "unlink"
  /\ UNCHANGED <<vars, inv, scard, runs, orphans, before, quiet>>

\* 5. The lock files of the inventory go, whatever they hold by now.
StopUnlink(c) ==
  /\ spc = "unlink" /\ c \in left
  /\ SetLock(StopHost, c, "free")
  /\ left' = left \ {c}
  /\ UNCHANGED <<board, workers, pc, locals, spc, inv, scard, runs, orphans, before, quiet>>

StopDone ==
  /\ spc = "unlink" /\ left = {}
  /\ spc' = "idle"
  /\ UNCHANGED <<vars, inv, left, scard, runs, orphans, before, quiet>>

StopStep ==
  \/ StopScan \/ StopFind \/ StopKillWorker \/ StopWrapped \/ StopSweep
  \/ StopDispatchersGone \/ StopDone
  \/ \E c \in Card : StopRelease(c) \/ StopUnlink(c)
  \/ \E d \in Dispatcher : StopTerm(d) \/ StopKill(d)

StopNext ==
  \/ StopStep
  \/ Next /\ StopUntouched
  \/ \E d \in Dispatcher : TrapStep(d)

StopSpec == StopInit /\ [][StopNext]_allVars

-----------------------------------------------------------------------------
(* Properties. *)

\* Types of the state of stop.
StopTypeOK ==
  /\ TypeOK
  /\ spc \in {"idle", "find", "wrap", "wrap-kill", "sweep", "dispatchers", "unlink"}
  /\ DOMAIN inv \subseteq Card /\ left \subseteq DOMAIN inv
  /\ \A c \in DOMAIN inv : inv[c] \in Pid \cup PidlessLocks
  /\ scard \in Card \cup {NoCard}
  /\ runs \subseteq Dispatcher /\ orphans \subseteq Pid /\ before \subseteq Pid /\ quiet \in BOOLEAN

\* Whatever was alive on the host when stop began is dead when it ends, tracked
\* by a lock file or not, and with a dispatcher dispatching all the while.
StopStopsWorkers ==
  [][StopDone => \A p \in before : ~Alive(p)]_allVars

\* Where no dispatcher ran meanwhile, stop leaves the host at rest: no worker and
\* no lock file, whatever earlier crashes had left.
StopLeavesHostAtRest ==
  [][StopDone /\ quiet => LiveOn(StopHost) = {} /\ LocksOn(StopHost) = {}]_allVars
=============================================================================
