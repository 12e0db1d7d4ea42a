------------------------------- MODULE QueueLock -------------------------------
(***************************************************************************)
(* The lock of the build slot's queue file (workflows/portable/            *)
(* build_slot.py): a directory made with mkdir that holds an info file.    *)
(*                                                                         *)
(* Making it, reclaiming it and removing it happen under an OS file lock   *)
(* (the guard), which dies with its process; looking at it does not.  A    *)
(* waiter judges the lock outside the guard and acts on the verdict inside *)
(* it.  Under the lock, a process reads the queue file and replaces it.    *)
(*                                                                         *)
(* Time: `old' is max_hold for a lock with an info file, stale_after for   *)
(* one without.  Unless "overrun" is in Env, a live holder does not keep   *)
(* the lock for max_hold (two minutes for a few milliseconds of work).     *)
(***************************************************************************)
EXTENDS Naturals

CONSTANTS
  Proc,      \* the processes that use the queue
  MaxCalls,  \* how often the lock is asked for (a bound)
  Env,
  NoProc

ASSUME QueueLockAssumption ==
  /\ NoProc \notin Proc
  /\ MaxCalls \in Nat
  /\ Env \subseteq {"overrun"}

Op == {"enqueue", "dequeue", "heartbeat", "clean"}
NoToken == 0
Token == 1..MaxCalls

VARIABLES
  up,      \* the live processes
  pc,      \* where a process is in its call
  op,      \* what it is about to do to the queue
  token,   \* lock_token of its call
  dead,    \* the entries whose PID it found dead before it asked for the lock
  snap,    \* the queue as it read it under the lock
  judged,  \* the identity of the lock it judged stale
  calls,   \* tokens given out
  guard,   \* the holder of the OS file lock
  dir,     \* the lock directory
  file,    \* the queue file: the processes that have an entry
  silent   \* those of them whose heartbeat_at is a minute old: their lease is over

local == <<pc, op, token, dead, snap, judged>>
vars == <<up, local, calls, guard, dir, file, silent>>

Absent == [state |-> "absent", token |-> NoToken, pid |-> NoProc, old |-> FALSE]
Bare == [Absent EXCEPT !.state = "bare"]
Owned(t, p) == [state |-> "owned", token |-> t, pid |-> p, old |-> FALSE]

Inside(p) == p \in up /\ pc[p] \in {"read", "write", "leave"}
Goto(p, step) == pc' = [pc EXCEPT ![p] = step]

\* The call is over and its local variables with it.
Return(p) ==
  /\ Goto(p, "idle")
  /\ op' = [op EXCEPT ![p] = "clean"]
  /\ token' = [token EXCEPT ![p] = NoToken]
  /\ dead' = [dead EXCEPT ![p] = {}]
  /\ snap' = [snap EXCEPT ![p] = {}]
  /\ judged' = [judged EXCEPT ![p] = NoToken]

Init ==
  /\ up = Proc
  /\ pc = [p \in Proc |-> "idle"]
  /\ op = [p \in Proc |-> "clean"]
  /\ token = [p \in Proc |-> NoToken]
  /\ dead = [p \in Proc |-> {}] /\ snap = [p \in Proc |-> {}]
  /\ judged = [p \in Proc |-> NoToken]
  /\ calls = 0 /\ guard = NoProc /\ dir = Absent /\ file = {} /\ silent = {}

-----------------------------------------------------------------------------
(* Asking for the lock. *)

\* A queue call.  Enqueue and clean look at PIDs before they take the lock;
\* clean does not take it when there is nothing to drop.
Begin(p, o) ==
  /\ p \in up /\ pc[p] = "idle" /\ calls < MaxCalls
  /\ o = "clean" => (file \ up) \cup silent # {}
  /\ calls' = calls + 1
  /\ token' = [token EXCEPT ![p] = calls + 1]
  /\ op' = [op EXCEPT ![p] = o]
  /\ dead' = [dead EXCEPT ![p] = IF o \in {"enqueue", "clean"} THEN file \ up ELSE {}]
  /\ Goto(p, "try")
  /\ UNCHANGED <<up, snap, judged, guard, dir, file, silent>>

\* Mutant of MakeDir: a lock directory that is there is taken over.
MakeDirOver(p) ==
  /\ p \in up /\ pc[p] = "try" /\ guard = NoProc
  /\ dir' = Bare
  /\ guard' = p
  /\ Goto(p, "made")
  /\ UNCHANGED <<up, op, token, dead, snap, judged, calls, file, silent>>

\* mkdir, under the guard, which is kept until the info file is written.
MakeDir(p) ==
  /\ p \in up /\ pc[p] = "try" /\ guard = NoProc /\ dir.state = "absent"
  /\ dir' = Bare
  /\ guard' = p
  /\ Goto(p, "made")
  /\ UNCHANGED <<up, op, token, dead, snap, judged, calls, file, silent>>

WriteInfo(p) ==
  /\ p \in up /\ pc[p] = "made"
  /\ dir' = Owned(token[p], p)
  /\ guard' = NoProc
  /\ Goto(p, "read")
  /\ UNCHANGED <<up, op, token, dead, snap, judged, calls, file, silent>>

WriteInfoFails(p) ==
  /\ p \in up /\ pc[p] = "made"
  /\ dir' = Absent
  /\ guard' = NoProc
  /\ Return(p)
  /\ UNCHANGED <<up, calls, file, silent>>

\* Mutant of Stale: a lock without an info file is always being made.
StaleWithInfo ==
  dir.state = "owned" /\ (dir.pid \notin up \/ dir.old)

Stale ==
  \/ dir.state = "owned" /\ (dir.pid \notin up \/ dir.old)
  \/ dir.state = "bare" /\ dir.old

\* The verdict of a waiter that found the directory there.
Judge(p) ==
  /\ p \in up /\ pc[p] = "try" /\ Stale
  /\ judged' = [judged EXCEPT ![p] = dir.token]
  /\ Goto(p, "reclaim")
  /\ UNCHANGED <<up, op, token, dead, snap, calls, guard, dir, file, silent>>

\* Mutant of Reclaim: what was judged stale is not looked at again.
ReclaimUnchecked(p) ==
  /\ p \in up /\ pc[p] = "reclaim" /\ guard = NoProc
  /\ dir' = Absent
  /\ judged' = [judged EXCEPT ![p] = NoToken]
  /\ Goto(p, "try")
  /\ UNCHANGED <<up, op, token, dead, snap, calls, guard, file, silent>>

\* _tombstone_stale_queue_lock: the lock judged stale must still be the one that
\* is there; the rename is checked again and undone under the same guard.
Reclaim(p) ==
  /\ p \in up /\ pc[p] = "reclaim" /\ guard = NoProc
  /\ dir' = IF \/ judged[p] # NoToken /\ dir.token = judged[p]
               \/ judged[p] = NoToken /\ dir.state = "bare" /\ dir.old
            THEN Absent ELSE dir
  /\ judged' = [judged EXCEPT ![p] = NoToken]
  /\ Goto(p, "try")
  /\ UNCHANGED <<up, op, token, dead, snap, calls, guard, file, silent>>

\* The guard was not to be had in time: back to waiting.
ReclaimLater(p) ==
  /\ p \in up /\ pc[p] = "reclaim" /\ guard # NoProc
  /\ judged' = [judged EXCEPT ![p] = NoToken]
  /\ Goto(p, "try")
  /\ UNCHANGED <<up, op, token, dead, snap, calls, guard, dir, file, silent>>

TimedOut(p) ==
  /\ p \in up /\ pc[p] = "try"
  /\ guard # NoProc \/ dir.state # "absent"
  /\ Return(p)
  /\ UNCHANGED <<up, calls, guard, dir, file, silent>>

-----------------------------------------------------------------------------
(* Under the lock. *)

Read(p) ==
  /\ p \in up /\ pc[p] = "read"
  /\ snap' = [snap EXCEPT ![p] = file]
  /\ Goto(p, "write")
  /\ UNCHANGED <<up, op, token, dead, judged, calls, guard, dir, file, silent>>

\* The queue that an operation makes of the one it read.
Updated(p) ==
  CASE op[p] = "enqueue"   -> (snap[p] \ (dead[p] \cup silent)) \cup {p}
    [] op[p] = "dequeue"   -> snap[p] \ {p}
    [] op[p] = "heartbeat" -> snap[p]
    [] op[p] = "clean"     -> snap[p] \ (dead[p] \cup silent)

\* Enqueue and heartbeat stamp the caller's own entry.
Refreshed(p) == IF op[p] \in {"enqueue", "heartbeat"} THEN {p} ELSE {}

\* Replaced at once, and only if something has changed.  The stamps are those of
\* the file: nobody else has written since p read it, which OneInside is about.
Write(p) ==
  /\ p \in up /\ pc[p] = "write"
  /\ IF Updated(p) # snap[p] \/ Refreshed(p) \cap snap[p] # {}
     THEN /\ file' = Updated(p)
          /\ silent' = (silent \cap Updated(p)) \ Refreshed(p)
     ELSE UNCHANGED <<file, silent>>
  /\ Goto(p, "leave")
  /\ UNCHANGED <<up, op, token, dead, snap, judged, calls, guard, dir>>

\* The file cannot be read or replaced: the call fails, the lock is released.
FileFails(p) ==
  /\ p \in up /\ pc[p] \in {"read", "write"}
  /\ Goto(p, "leave")
  /\ UNCHANGED <<up, op, token, dead, snap, judged, calls, guard, dir, file, silent>>

\* _remove_owned_queue_lock with the token of this call.
Leave(p) ==
  /\ p \in up /\ pc[p] = "leave" /\ guard = NoProc
  /\ dir' = IF dir.token = token[p] THEN Absent ELSE dir
  /\ Return(p)
  /\ UNCHANGED <<up, calls, guard, file, silent>>

\* ... which may not get the guard, or not rename the directory: the lock stays.
LeaveFails(p) ==
  /\ p \in up /\ pc[p] = "leave"
  /\ Return(p)
  /\ UNCHANGED <<up, calls, guard, dir, file, silent>>

-----------------------------------------------------------------------------
(* The environment. *)

\* The OS releases the guard of a process that dies.
Crash(p) ==
  /\ p \in up
  /\ up' = up \ {p}
  /\ guard' = IF guard = p THEN NoProc ELSE guard
  /\ UNCHANGED <<local, calls, dir, file, silent>>

\* queue_stale_heartbeat_after has passed since the entry was stamped.
Lapse(p) ==
  /\ p \in file \ silent
  /\ silent' = silent \cup {p}
  /\ UNCHANGED <<up, local, calls, guard, dir, file>>

\* max_hold, or stale_after for a lock without an info file, has passed.
Age ==
  /\ dir.state # "absent" /\ ~dir.old
  /\ \/ "overrun" \in Env
     \/ ~\E p \in Proc : Inside(p) /\ token[p] = dir.token
  /\ dir' = [dir EXCEPT !.old = TRUE]
  /\ UNCHANGED <<up, local, calls, guard, file, silent>>

ProcStep(p) ==
  \/ MakeDir(p) \/ WriteInfo(p) \/ Judge(p) \/ Reclaim(p) \/ ReclaimLater(p)
  \/ Read(p) \/ Write(p) \/ Leave(p)

Next ==
  \/ Age
  \/ \E p \in Proc :
       \/ ProcStep(p) \/ Crash(p) \/ Lapse(p)
       \/ WriteInfoFails(p) \/ TimedOut(p) \/ FileFails(p) \/ LeaveFails(p)
       \/ \E o \in Op : Begin(p, o)

Spec == Init /\ [][Next]_vars
FairSpec == Spec /\ WF_vars(Age) /\ \A p \in Proc : WF_vars(ProcStep(p))

-----------------------------------------------------------------------------
(* Properties. *)

\* Types of every variable; the guard is held by a live process that is between
\* mkdir and the info file, and by nobody else.
TypeOK ==
  /\ up \subseteq Proc
  /\ pc \in [Proc -> {"idle", "try", "made", "reclaim", "read", "write", "leave"}]
  /\ op \in [Proc -> Op]
  /\ token \in [Proc -> Token \cup {NoToken}]
  /\ dead \in [Proc -> SUBSET Proc] /\ snap \in [Proc -> SUBSET Proc]
  /\ judged \in [Proc -> Token \cup {NoToken}]
  /\ calls \in 0..MaxCalls
  /\ guard \in Proc \cup {NoProc}
  /\ dir \in [state : {"absent", "bare", "owned"}, token : Token \cup {NoToken},
              pid : Proc \cup {NoProc}, old : BOOLEAN]
  /\ file \subseteq Proc /\ silent \subseteq file
  /\ \A p \in up : guard = p <=> pc[p] = "made"
  /\ guard \in up \cup {NoProc}

\* The queue file is read and replaced by one process at a time, through
\* crashes, leaked locks and waiters that reclaim them.
OneInside == \A p, q \in Proc : Inside(p) /\ Inside(q) => p = q

\* The operations on the queue file take effect one at a time: no entry is lost
\* or brought back by a process that wrote what it had read before.
Queue == INSTANCE AtomicQueue WITH queue <- file, gone <- Proc \ up
ActsAtomically == Queue!Spec

\* A lock left behind never shuts the others out: a waiter gets in, or gives up,
\* or dies.
WaiterGetsIn ==
  \A p \in Proc :
    (p \in up /\ pc[p] = "try") ~> (p \notin up \/ pc[p] \in {"read", "idle"})
=============================================================================
