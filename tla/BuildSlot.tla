------------------------------- MODULE BuildSlot -------------------------------
(***************************************************************************)
(* The build slots of one host (workflows/portable/build_slot.py): jobs    *)
(* wait in a FIFO queue, poll, free slots that were left behind, and are   *)
(* granted a slot under the slot guard when the queue and the host's       *)
(* memory allow it.                                                        *)
(*                                                                         *)
(* A job is one call of the command line.  `run' wraps a command: the      *)
(* wrapper is the holder of the slot.  `acquire' returns: the holder is    *)
(* the long-lived host process of its lane, which later calls `heartbeat'  *)
(* and `release' with the name of the lane and no token.                   *)
(*                                                                         *)
(* Every change of a slot directory happens under the slot guard, which    *)
(* dies with its process; it is one step here.  The steps that look at     *)
(* slots without the guard are steps of their own.  The queue file is the  *)
(* atomic queue that QueueLock implements.                                 *)
(***************************************************************************)
EXTENDS Naturals, FiniteSets

CONSTANTS
  Job,
  Lane,
  LaneOf,      \* the lane of a job
  Acquires,    \* the jobs in `acquire' mode; the others are in `run' mode
  Class,       \* "light", "medium" or "heavy"
  Need,        \* the memory that is reserved for a job
  Slots,       \* how many slots there are
  Memory,      \* what the host's RAM may allow: the memory left, and a heavy cap
  MaxBeats,    \* how often a holder's heartbeat is written (a bound)
  Arrivals,    \* the orders in which the jobs may start
  MaxFaults,   \* how many writes and spawns may fail, and jobs give up (a bound)
  MaxTroubles, \* the same and the deaths of jobs and hosts taken together (a bound)
  Env,
  NoJob

\* _heavy_limit: two heavy jobs while the host uses less than 85 % of its RAM, one
\* when it uses more or nobody knows.
HeavyLimits == 1..2

ASSUME BuildSlotAssumption ==
  /\ NoJob \notin Job
  /\ LaneOf \in [Job -> Lane] /\ Acquires \subseteq Job
  /\ Class \in [Job -> {"light", "medium", "heavy"}] /\ Need \in [Job -> Nat]
  /\ Slots \in Nat \ {0} /\ MaxBeats \in Nat
  /\ MaxFaults \in Nat /\ MaxTroubles \in Nat
  /\ Arrivals \subseteq [Job -> Nat] /\ \A o \in Arrivals : \A j, k \in Job : o[j] = o[k] => j = k
  /\ Memory \subseteq Nat \X HeavyLimits
  /\ Env \subseteq {"crash", "slow", "giveup", "late", "orphan"}

Slot == 1..Slots

VARIABLES
  up,       \* the live command line processes
  hosts,    \* the lanes whose host process lives
  pc,
  at,       \* when a job starts to wait: its original place
  stamp,    \* the enqueued_at of its entry
  queue,    \* the jobs with an entry
  silent,   \* the entries whose lease is over
  scan,     \* the slot a job is looking at
  judged,   \* the info of the slot it judged stale
  slot,     \* the info of the slot directories
  command,  \* the jobs whose command is running
  faults,   \* how many writes and spawns have failed
  free,     \* the memory that is left for another job
  limit,    \* how many heavy jobs the host's RAM allows at the moment
  stagger   \* the last heavy grant was less than acquisition_stagger ago

local == <<pc, scan, judged>>
entries == <<queue, silent, stamp>>
host == <<free, limit, stagger, faults>>
vars == <<up, hosts, at, local, entries, slot, command, host>>

\* No directory; a directory without an info file; and one that names a job.
\* `young' stands for the age of a bare directory, `quiet' for a heartbeat half an
\* hour old: what time makes of the info.
Absent == [state |-> "absent", job |-> NoJob, child |-> FALSE, beat |-> 0,
           young |-> FALSE, quiet |-> FALSE]
Bare == [Absent EXCEPT !.state = "bare", !.young = TRUE]
Held(j) == [Absent EXCEPT !.state = "held", !.job = j]

SlotsOf(l) == {s \in Slot : slot[s].state = "held" /\ LaneOf[slot[s].job] = l}
SlotOf(j) == {s \in Slot : slot[s].job = j}
FreeSlots == {s \in Slot : slot[s].state = "absent"}

\* The process that an entry or a slot names.
PidAlive(j) == IF j \in Acquires THEN LaneOf[j] \in hosts ELSE j \in up

Waits(j) == pc[j] \in {"enqueue", "poll", "check", "detach", "clean", "look", "admit"}
Goto(j, step) == pc' = [pc EXCEPT ![j] = step]

\* What a process leaves behind: perhaps a command that is not in its slot.
Die(j) ==
  /\ up' = up \ {j}
  /\ Goto(j, IF pc[j] \in {"spawned", "unrecorded"} THEN "lost" ELSE "dead")
  /\ scan' = [scan EXCEPT ![j] = 1] /\ judged' = [judged EXCEPT ![j] = Absent]

\* A queue without some entries.
Drop(gone) == queue' = queue \ gone /\ silent' = silent \ gone

Init ==
  /\ up = Job /\ hosts = Lane
  /\ pc = [j \in Job |-> "idle"]
  /\ at \in Arrivals /\ stamp = [j \in Job |-> 0]
  /\ queue = {} /\ silent = {}
  /\ scan = [j \in Job |-> 1] /\ judged = [j \in Job |-> Absent]
  /\ slot = [s \in Slot |-> Absent]
  /\ command = {}
  /\ \E m \in Memory : free = m[1] /\ limit = m[2]
  /\ stagger = FALSE /\ faults = 0

Troubles ==
  faults + Cardinality({j \in Job : pc[j] \in {"dead", "lost"}}) + Cardinality(Lane \ hosts)

MayCrash ==
  /\ "crash" \in Env
  /\ Troubles < MaxTroubles

Fault ==
  /\ faults < MaxFaults /\ Troubles < MaxTroubles
  /\ faults' = faults + 1 /\ UNCHANGED <<free, limit, stagger>>

-----------------------------------------------------------------------------
(* acquire: the queue. *)

Start(j) ==
  /\ j \in up /\ pc[j] = "idle" /\ (j \in Acquires => LaneOf[j] \in hosts)
  /\ \A k \in Job : at[k] < at[j] => pc[k] # "idle"
  /\ Goto(j, "enqueue")
  /\ UNCHANGED <<up, hosts, at, scan, judged, entries, slot, command, host>>

\* Enqueue drops entries that are dead or over, and stamps its own.
AddEntry(j, time) ==
  LET kept == {k \in queue \ silent : PidAlive(k)} IN
    /\ queue' = kept \cup {j}
    /\ silent' = {}
    /\ stamp' = [stamp EXCEPT ![j] = time]

Enqueue(j) ==
  /\ j \in up /\ pc[j] = "enqueue"
  /\ AddEntry(j, at[j])
  /\ Goto(j, "poll")
  /\ UNCHANGED <<up, hosts, at, scan, judged, slot, command, host>>

\* Mutant of Beat: an entry that was dropped comes back as a new one.
BeatAtTheEnd(j) ==
  /\ j \in up /\ pc[j] = "poll"
  /\ IF j \in queue
     THEN silent' = silent \ {j} /\ UNCHANGED <<queue, stamp>>
     ELSE AddEntry(j, Cardinality(Job) + 1)
  /\ Goto(j, "check")
  /\ UNCHANGED <<up, hosts, at, scan, judged, slot, command, host>>

\* The head of the loop: the entry's heartbeat is refreshed; an entry that others
\* have dropped is put back at its original place.
Beat(j) ==
  /\ j \in up /\ pc[j] = "poll"
  /\ \/ j \in queue /\ silent' = silent \ {j} /\ UNCHANGED <<queue, stamp, host>>
     \/ j \notin queue /\ AddEntry(j, at[j]) /\ UNCHANGED host
     \/ Fault /\ UNCHANGED entries
  /\ Goto(j, "check")
  /\ UNCHANGED <<up, hosts, at, scan, judged, slot, command>>

\* A queue lock that stays busy, its own deadline, a build freeze.
GiveUp(j) ==
  /\ "giveup" \in Env
  /\ j \in up /\ pc[j] \in {"enqueue", "poll"}
  /\ Goto(j, "leave") /\ Fault
  /\ UNCHANGED <<up, hosts, at, scan, judged, entries, slot, command>>

-----------------------------------------------------------------------------
(* check_stale_and_reclaim: each slot is judged without the guard, and detached *)
(* under it if its info is still the one that was judged. *)

\* Mutant of Abandoned: a dead wrapper frees its slot.
AbandonedByWrapper(info) ==
  \/ info.state = "bare" /\ ~info.young
  \/ /\ info.state = "held" /\ info.job \notin Acquires
     /\ info.job \notin up
  \/ /\ info.state = "held" /\ info.job \in Acquires
     /\ LaneOf[info.job] \notin hosts \/ info.quiet

\* A directory left between mkdir and the info file; a `run' whose wrapper died,
\* unless the command it recorded is alive; an `acquire' whose host died, or has
\* not been heard of.
Abandoned(info) ==
  \/ info.state = "bare" /\ ~info.young
  \/ /\ info.state = "held" /\ info.job \notin Acquires
     /\ info.job \notin up /\ ~(info.child /\ info.job \in command)
  \/ /\ info.state = "held" /\ info.job \in Acquires
     /\ LaneOf[info.job] \notin hosts \/ info.quiet

\* The next slot that is found abandoned, or on to the queue.
Judge(j) ==
  LET found == {s \in Slot : s >= scan[j] /\ Abandoned(slot[s])} IN
  /\ j \in up /\ pc[j] = "check"
  /\ IF found = {}
     THEN /\ scan' = [scan EXCEPT ![j] = 1]
          /\ Goto(j, "clean") /\ UNCHANGED judged
     ELSE \E s \in found :
            /\ \A t \in found : s <= t
            /\ scan' = [scan EXCEPT ![j] = s]
            /\ judged' = [judged EXCEPT ![j] = slot[s]]
            /\ Goto(j, "detach")
  /\ UNCHANGED <<up, hosts, at, entries, slot, command, host>>

\* Mutant of SameInfo: only the token is compared.
SameToken(info, now) == info.state = now.state /\ info.job = now.job

\* The whole info, heartbeat and all; a directory without one by its age.
SameInfo(info, now) ==
  /\ info.state = now.state /\ info.job = now.job
  /\ info.child = now.child /\ info.beat = now.beat
  /\ now.state = "bare" => ~now.young

Detach(j) ==
  /\ j \in up /\ pc[j] = "detach"
  /\ \/ /\ SameInfo(judged[j], slot[scan[j]])
        /\ slot' = [slot EXCEPT ![scan[j]] = Absent] /\ UNCHANGED host
     \/ ~SameInfo(judged[j], slot[scan[j]]) /\ UNCHANGED <<slot, host>>
     \/ Fault /\ UNCHANGED slot
  /\ judged' = [judged EXCEPT ![j] = Absent]
  /\ scan' = [scan EXCEPT ![j] = @ + 1]
  /\ Goto(j, "check")
  /\ UNCHANGED <<up, hosts, at, entries, command>>

\* Mutant of CleanQueue: the entry of a live process is not dropped.
CleanDead(j) ==
  /\ j \in up /\ pc[j] = "clean"
  /\ Drop({k \in queue : ~PidAlive(k) \/ SlotOf(k) # {}})
  /\ Goto(j, "look")
  /\ UNCHANGED <<up, hosts, at, stamp, scan, judged, slot, command, host>>

\* clean_queue: an entry that is dead, or over, or whose job already has a slot.
\* A queue lock that cannot be had leaves the queue as it is.
CleanQueue(j) ==
  /\ j \in up /\ pc[j] = "clean"
  /\ \/ Drop({k \in queue : ~PidAlive(k) \/ k \in silent \/ SlotOf(k) # {}})
        /\ UNCHANGED host
     \/ Fault /\ UNCHANGED <<queue, silent>>
  /\ Goto(j, "look")
  /\ UNCHANGED <<up, hosts, at, stamp, scan, judged, slot, command>>

-----------------------------------------------------------------------------
(* Admission. *)

\* Without the guard: the RAM guard; a lane that holds a slot gets no other, and
\* `acquire' is told that it has it already when the same host holds it.
Look(j) ==
  LET mine == SlotsOf(LaneOf[j]) IN
  /\ j \in up /\ pc[j] = "look"
  /\ Goto(j, CASE free = 0 -> "poll"
               [] free # 0 /\ mine # {} /\ j \in Acquires
                  /\ (\E s \in mine : slot[s].job \in Acquires) -> "granted"
               [] free # 0 /\ mine = {} /\ FreeSlots # {} -> "admit"
               [] OTHER -> "poll")
  /\ UNCHANGED <<up, hosts, at, scan, judged, entries, slot, command, host>>

Occupied == {LaneOf[slot[s].job] : s \in {t \in Slot : slot[t].state = "held"}}

\* Mutant of Runnable: the queue is taken as it is.
RunnableAny == queue

\* The entries of lanes that hold no slot: those that could be next.
Runnable == {j \in queue : LaneOf[j] \notin Occupied}

\* A directory without an info file counts as heavy.
HeavyJobs ==
  Cardinality({s \in Slot : \/ slot[s].state = "bare"
                            \/ slot[s].state = "held" /\ Class[slot[s].job] = "heavy"})

\* Mutant of Refused: one heavy job too many.
RefusedAbove(j) ==
  \/ Need[j] > free
  \/ Class[j] = "heavy" /\ HeavyJobs > limit

\* The cap is the one of this admission: heavy jobs that were granted under another
\* one go on.
Refused(j) ==
  \/ Need[j] > free
  \/ Class[j] = "heavy" /\ HeavyJobs >= limit

IsHead(j) == j \in Runnable /\ \A k \in Runnable : stamp[j] <= stamp[k]

\* A job behind the head; the stagger is for heavy ones.
HeldBack(j) == Refused(j) \/ (stagger /\ Class[j] = "heavy")

\* The head of the queue when it may run; when it may not, the first of the
\* smaller ones that may.
Admitted(j) ==
  /\ j \in Runnable
  /\ \E head \in Runnable :
       /\ IsHead(head)
       /\ IF j = head THEN ~Refused(j) /\ ~stagger
          ELSE /\ stagger \/ Refused(head)
               /\ Need[j] < Need[head] /\ ~HeldBack(j)
               /\ \A k \in Runnable \ {head} :
                    stamp[k] < stamp[j] /\ Need[k] < Need[head] => HeldBack(k)

\* Under the guard everything is read again.
FirstFree == CHOOSE s \in FreeSlots : \A t \in FreeSlots : s <= t
MayGrant(j) == j \in up /\ pc[j] = "admit" /\ FreeSlots # {} /\ Admitted(j)

Grant(j) ==
  /\ MayGrant(j)
  /\ slot' = [slot EXCEPT ![FirstFree] = Held(j)]
  /\ stagger' = (stagger \/ Class[j] = "heavy")
  /\ Goto(j, "granted")
  /\ UNCHANGED <<up, hosts, at, scan, judged, entries, command, free, limit, faults>>

\* The info file cannot be written: the directory stays, and the next slot is
\* tried, or the next poll.
GrantFails(j) ==
  /\ MayGrant(j) /\ Fault
  /\ slot' = [slot EXCEPT ![FirstFree] = Bare]
  /\ \E step \in {"admit", "poll"} : Goto(j, step)
  /\ UNCHANGED <<up, hosts, at, scan, judged, entries, command>>

DiesGranting(j) ==
  /\ MayCrash
  /\ MayGrant(j)
  /\ slot' = [slot EXCEPT ![FirstFree] = Bare]
  /\ Die(j)
  /\ UNCHANGED <<hosts, at, entries, command, host>>

Refuse(j) ==
  /\ j \in up /\ pc[j] = "admit" /\ ~MayGrant(j)
  /\ Goto(j, "poll")
  /\ UNCHANGED <<up, hosts, at, scan, judged, entries, slot, command, host>>

\* _aging_backfill_ready: a heavy head that has waited for long may keep smaller
\* jobs from passing it.
BackfillPaused(j) ==
  /\ j \in up /\ pc[j] = "admit"
  /\ \E head \in Runnable : IsHead(head) /\ head # j /\ Class[head] = "heavy"
  /\ Goto(j, "poll")
  /\ UNCHANGED <<up, hosts, at, scan, judged, entries, slot, command, host>>

\* The job's own entry is taken out of the queue, or left to clean_queue.
Settle(j) ==
  /\ j \in up /\ pc[j] = "granted"
  /\ \/ Drop({j}) /\ UNCHANGED host
     \/ Fault /\ UNCHANGED <<queue, silent>>
  /\ Goto(j, IF j \in Acquires THEN "holding" ELSE "spawn")
  /\ UNCHANGED <<up, hosts, at, stamp, scan, judged, slot, command>>

-----------------------------------------------------------------------------
(* run: the command. *)

Spawn(j) ==
  /\ j \in up /\ pc[j] = "spawn"
  /\ command' = command \cup {j}
  /\ Goto(j, "spawned")
  /\ UNCHANGED <<up, hosts, at, scan, judged, entries, slot, host>>

SpawnFails(j) ==
  /\ j \in up /\ pc[j] = "spawn" /\ Fault
  /\ Goto(j, "release")
  /\ UNCHANGED <<up, hosts, at, scan, judged, entries, slot, command>>

\* _record_run_child, on the slot with the job's token.
Record(j) ==
  /\ j \in up /\ pc[j] = "spawned"
  /\ slot' = [s \in Slot |-> IF s \in SlotOf(j) THEN [slot[s] EXCEPT !.child = TRUE]
                                                ELSE slot[s]]
  /\ Goto(j, "running")
  /\ UNCHANGED <<up, hosts, at, scan, judged, entries, command, host>>

\* Neither info.json nor the second heartbeat file can be written.
RecordFails(j) ==
  /\ j \in up /\ pc[j] = "spawned" /\ Fault
  /\ Goto(j, "unrecorded")
  /\ UNCHANGED <<up, hosts, at, scan, judged, entries, slot, command>>

\* The command has ended, or run_timeout or a signal ends it.
Finish(j) ==
  /\ j \in up /\ pc[j] \in {"spawned", "running", "unrecorded"}
  /\ command' = command \ {j}
  /\ Goto(j, "release")
  /\ UNCHANGED <<up, hosts, at, scan, judged, entries, slot, host>>

\* release with the token of the run.
Release(j) ==
  /\ j \in up /\ pc[j] = "release"
  /\ \/ slot' = [s \in Slot |-> IF s \in SlotOf(j) THEN Absent ELSE slot[s]]
        /\ UNCHANGED host
     \/ Fault /\ UNCHANGED slot
  /\ Goto(j, "leave")
  /\ UNCHANGED <<up, hosts, at, scan, judged, entries, command>>

\* The entry goes, if the queue lock can be had, and the process ends.
Leave(j) ==
  /\ j \in up /\ pc[j] = "leave"
  /\ \/ Drop({j}) /\ UNCHANGED host
     \/ Fault /\ UNCHANGED <<queue, silent>>
  /\ Goto(j, "done")
  /\ up' = up \ {j}
  /\ UNCHANGED <<hosts, at, stamp, scan, judged, slot, command>>

-----------------------------------------------------------------------------
(* acquire: the host of the lane. *)

Holding(l) == {j \in Acquires : LaneOf[j] = l /\ pc[j] = "holding"}

HostBeat(l) ==
  /\ l \in hosts /\ Holding(l) # {}
  /\ \E s \in SlotsOf(l) :
       /\ slot[s].beat < MaxBeats
       /\ slot' = [slot EXCEPT ![s].beat = @ + 1, ![s].quiet = FALSE]
  /\ UNCHANGED <<up, hosts, at, local, entries, command, host>>

\* release by name: every slot and every queue entry of the lane.  A host that
\* was silent for so long that it has lost its slot is in Env as "late".
HostRelease(l) ==
  /\ l \in hosts /\ Holding(l) # {}
  /\ "late" \in Env \/ \E s \in SlotsOf(l) : slot[s].job \in Acquires
  /\ slot' = [s \in Slot |-> IF s \in SlotsOf(l) THEN Absent ELSE slot[s]]
  /\ Drop({j \in queue : LaneOf[j] = l})
  /\ pc' = [j \in Job |-> IF j \in Holding(l) THEN "done" ELSE pc[j]]
  /\ UNCHANGED <<up, hosts, at, stamp, scan, judged, command, host>>

-----------------------------------------------------------------------------
(* The environment. *)

Crash(j) ==
  /\ MayCrash
  /\ j \in up /\ pc[j] \notin {"idle", "holding"}
  /\ Die(j)
  /\ UNCHANGED <<hosts, at, entries, slot, command, host>>

\* An `acquire' that outlives its host puts its entry back for ever, and drops it
\* as dead; "orphan" in Env.
HostDies(l) ==
  /\ MayCrash
  /\ l \in hosts /\ \E j \in Acquires : LaneOf[j] = l
  /\ "orphan" \in Env \/ ~\E j \in Acquires : LaneOf[j] = l /\ j \in up /\ Waits(j)
  /\ hosts' = hosts \ {l}
  /\ UNCHANGED <<up, at, local, entries, slot, command, host>>

CommandEnds(j) ==
  /\ j \in command
  /\ command' = command \ {j}
  /\ UNCHANGED <<up, hosts, at, local, entries, slot, host>>

Age(s) ==
  /\ slot[s].young
  /\ slot' = [slot EXCEPT ![s].young = FALSE]
  /\ UNCHANGED <<up, hosts, at, local, entries, command, host>>

\* Half an hour has passed since the heartbeat of an `acquire'.
FallsQuiet(s) ==
  /\ slot[s].state = "held" /\ slot[s].job \in Acquires /\ ~slot[s].quiet
  /\ slot' = [slot EXCEPT ![s].quiet = TRUE]
  /\ UNCHANGED <<up, hosts, at, local, entries, command, host>>

\* A minute has passed since the entry's heartbeat: its job is not waiting any
\* more, or it is stalled in its sleep.
Lapse(j) ==
  /\ j \in queue \ silent
  /\ ~(j \in up /\ Waits(j)) \/ ("slow" \in Env /\ pc[j] = "poll")
  /\ silent' = silent \cup {j}
  /\ UNCHANGED <<up, hosts, at, local, queue, stamp, slot, command, host>>

StaggerEnds ==
  /\ stagger
  /\ stagger' = FALSE
  /\ UNCHANGED <<up, hosts, at, local, entries, slot, command, free, limit, faults>>

\* What the next admission reads of the host's RAM.
MemoryMoves(level, most) ==
  /\ <<level, most>> # <<free, limit>>
  /\ free' = level /\ limit' = most
  /\ UNCHANGED <<up, hosts, at, local, entries, slot, command, stagger, faults>>

JobStep(j) ==
  \/ Enqueue(j) \/ Beat(j) \/ Judge(j) \/ Detach(j) \/ CleanQueue(j) \/ Look(j)
  \/ Grant(j) \/ Refuse(j) \/ Settle(j)
  \/ Spawn(j) \/ Record(j) \/ Finish(j) \/ Release(j) \/ Leave(j)

Time(s) == Age(s) \/ FallsQuiet(s)

Next ==
  \/ \E j \in Job :
       \/ Start(j) \/ JobStep(j)
       \/ GiveUp(j) \/ GrantFails(j) \/ DiesGranting(j) \/ BackfillPaused(j)
       \/ SpawnFails(j) \/ RecordFails(j)
       \/ Crash(j) \/ CommandEnds(j) \/ Lapse(j)
  \/ \E l \in Lane : HostBeat(l) \/ HostRelease(l) \/ HostDies(l)
  \/ \E s \in Slot : Time(s)
  \/ \E m \in Memory : MemoryMoves(m[1], m[2])
  \/ StaggerEnds

Spec == Init /\ [][Next]_vars

\* Processes run, time passes, and commands end.
FairSpec ==
  /\ Spec
  /\ \A j \in Job : WF_vars(JobStep(j) \/ CommandEnds(j) \/ Lapse(j))
  /\ WF_vars(StaggerEnds \/ \E s \in Slot : Time(s))

-----------------------------------------------------------------------------
(* Properties. *)

SlotInfo ==
  [state : {"absent", "bare", "held"}, job : Job \cup {NoJob}, child : BOOLEAN,
   beat : 0..MaxBeats, young : BOOLEAN, quiet : BOOLEAN]

\* Types; and a slot names a job exactly when it has an info file, a lease can be
\* over only for an entry that is there.
TypeOK ==
  /\ up \subseteq Job /\ hosts \subseteq Lane /\ command \subseteq Job
  /\ pc \in [Job -> {"idle", "enqueue", "poll", "check", "detach", "clean", "look", "admit",
                     "granted", "holding", "spawn", "spawned", "running", "unrecorded",
                     "release", "leave", "done", "dead", "lost"}]
  /\ at \in Arrivals /\ stamp \in [Job -> Nat]
  /\ queue \subseteq Job /\ silent \subseteq queue
  /\ scan \in [Job -> 1..Slots + 1]
  /\ judged \in [Job -> SlotInfo] /\ slot \in [Slot -> SlotInfo]
  /\ \A s \in Slot : slot[s].state = "held" <=> slot[s].job # NoJob
  /\ <<free, limit>> \in Memory /\ stagger \in BOOLEAN /\ faults \in 0..MaxFaults

\* A lane never holds two slots, although it is looked at without the guard.
OneSlotPerLane == \A l \in Lane : Cardinality(SlotsOf(l)) <= 1

HeavyHeld == {s \in Slot : slot[s].state = "held" /\ Class[slot[s].job] = "heavy"}

\* No heavy job joins those that hold slots beyond what the host bears at that
\* moment.  A cap that falls later stops nobody: it keeps others out until enough
\* of those that run have gone.
HeavyCap ==
  [][HeavyHeld' \ HeavyHeld # {} => Cardinality(HeavyHeld') <= limit']_vars

\* A command runs in a slot of its job, whoever looks for slots to reclaim and
\* even if its wrapper has died; unless it died before the command was recorded.
CommandHasSlot ==
  \A j \in command :
    SlotOf(j) # {} \/ pc[j] = "lost"

\* A slot is freed by its job, by its lane, or when at that very moment it is
\* abandoned: a heartbeat between the verdict and the removal saves it.
ReclaimsAbandoned ==
  [][\A s \in Slot :
       slot[s].state # "absent" /\ slot'[s].state = "absent" =>
         \/ Abandoned(slot[s])
         \/ slot[s].job \in up /\ pc[slot[s].job] = "release"
         \/ \E l \in Lane : s \in SlotsOf(l) /\ Holding(l) # {} /\ Holding(l)' = {}]_vars

\* Who gets a slot passes over no earlier waiter that could have had it: one in
\* the queue, of a free lane, that fits, outside the stagger, and smaller than a
\* blocked head, since what is not smaller waits with the head.
NoOvertaking ==
  [][\A j, k \in Job :
       pc[j] = "admit" /\ pc'[j] = "granted" /\ k # j /\ k \in Runnable /\ at[k] < at[j]
         => \/ Refused(k) \/ stagger
            \/ \E head \in Runnable : IsHead(head) /\ head # k /\ Need[head] <= Need[k]]_vars

\* A job that waits is served, or gives up, or dies, unless the host's memory falls
\* short of some job again and again: nothing that others have left behind, and no
\* cap that comes and goes, keeps it waiting.
EveryWaiterServed ==
  \A j \in Job :
    []<>((\E k \in Job : free < Need[k]) \/ ~(j \in up /\ Waits(j)))
=============================================================================
