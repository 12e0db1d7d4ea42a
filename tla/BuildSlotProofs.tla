--------------------------- MODULE BuildSlotProofs ---------------------------
(***************************************************************************)
(* The slots exclude what they should, keep what is in use and free only   *)
(* what is abandoned, and nobody is passed over: for any jobs, lanes,      *)
(* slots, memory, faults and crashes.                                      *)
(***************************************************************************)
EXTENDS BuildSlot, FiniteSetTheorems, WellFoundedInduction, TLAPS

\* The hypothesis: a host that was silent until it lost its slot does not release
\* its lane by name, which would free the slot of another job of the lane.
NotLate == "late" \notin Env

\* No two slots are held for one lane.
LanesApart ==
  \A s, t \in Slot :
    /\ slot[s].state = "held" /\ slot[t].state = "held"
    /\ LaneOf[slot[s].job] = LaneOf[slot[t].job]
    => s = t

\* Who lives, as far as the control tells.
Living ==
  \A j \in Job :
    /\ pc[j] \notin {"dead", "lost", "done"} => j \in up
    /\ pc[j] \in {"dead", "lost"} => j \notin up

\* A slot names a job that has been granted one, and once is for all.
Before == {"idle", "enqueue", "poll", "check", "detach", "clean", "look", "admit"}
HolderGranted == \A s \in Slot : slot[s].state = "held" => pc[slot[s].job] \notin Before

\* Only a `run' has a command, between its start and its end, or after its death.
RunningRuns ==
  /\ \A j \in Job : pc[j] \in {"spawn", "spawned", "running", "unrecorded"} => j \notin Acquires
  /\ \A j \in command :
       j \notin Acquires /\ pc[j] \in {"spawned", "running", "unrecorded", "dead", "lost"}

\* A `run' keeps its slot until it releases it; its command does when it is recorded.
Owns ==
  \A j \in Job \ Acquires :
    pc[j] \in {"granted", "spawn", "spawned", "running", "unrecorded"} => SlotOf(j) # {}
Recorded ==
  \A j \in Job :
    pc[j] = "running" \/ (pc[j] = "dead" /\ j \in command) => \E s \in SlotOf(j) : slot[s].child

\* An info that was found abandoned is abandoned as long as it is the same.
StillAbandoned(info) ==
  \/ info.state = "bare"
  \/ /\ info.state = "held" /\ info.job \notin Acquires
     /\ info.job \notin up /\ ~(info.child /\ info.job \in command)
  \/ /\ info.state = "held" /\ info.job \in Acquires
     /\ \/ LaneOf[info.job] \notin hosts
        \/ /\ pc[info.job] \notin Before
           /\ \A s \in SlotOf(info.job) :
                /\ slot[s].beat >= info.beat
                /\ slot[s].beat = info.beat => slot[s].quiet
VerdictsHold ==
  \A j \in Job : pc[j] = "detach" => scan[j] \in Slot /\ StillAbandoned(judged[j])

\* An entry bears the time at which its job started to wait.
Stamped == \A j \in queue : stamp[j] = at[j]

BInv ==
  /\ TypeOK /\ LanesApart /\ Living /\ HolderGranted /\ RunningRuns
  /\ Owns /\ Recorded /\ VerdictsHold /\ Stamped

-----------------------------------------------------------------------------
(* Operators. *)

LEMMA InfoTypes == ASSUME NEW j \in Job PROVE {Absent, Bare, Held(j)} \subseteq SlotInfo
<1>1. Absent \in SlotInfo BY BuildSlotAssumption DEF Absent, SlotInfo
<1>2. Bare \in SlotInfo BY <1>1 DEF Absent, Bare, SlotInfo
<1>3. Held(j) \in SlotInfo BY <1>1 DEF Absent, SlotInfo, Held
<1> QED BY <1>1, <1>2, <1>3

\* What the memory may be is a pair.
LEMMA MemoryPair == ASSUME NEW m \in Memory PROVE m = <<m[1], m[2]>>
BY BuildSlotAssumption

\* A set of slots has a least one.
LEMMA LeastSlot ==
  ASSUME NEW S \in SUBSET Slot, S # {}
  PROVE  \E s \in S : \A t \in S : s <= t
<1>1. S \subseteq Nat BY BuildSlotAssumption DEF Slot
<1>2. PICK s \in S : \A t \in S : <<t, s>> \notin OpToRel(<, Nat)
  BY <1>1, WFMin, NatLessThanWellFounded, Zenon
<1>3. \A t \in S : ~(t < s) BY <1>1, <1>2 DEF OpToRel
<1> QED BY <1>1, <1>3

LEMMA FirstFreeIsFree == ASSUME FreeSlots # {} PROVE FirstFree \in FreeSlots /\ FirstFree \in Slot
<1>1. FreeSlots \subseteq Slot BY DEF FreeSlots
<1>2. \E s \in FreeSlots : \A t \in FreeSlots : s <= t BY <1>1, LeastSlot
<1> QED BY <1>1, <1>2 DEF FirstFree

\* The slots that an admission counts, and that their number is one.
HeavyOrBare ==
  {s \in Slot : \/ slot[s].state = "bare"
                \/ slot[s].state = "held" /\ Class[slot[s].job] = "heavy"}

LEMMA SlotsFinite == ASSUME NEW S \in SUBSET Slot PROVE IsFiniteSet(S) /\ Cardinality(S) \in Nat
<1>1. IsFiniteSet(Slot) BY BuildSlotAssumption, FS_Interval DEF Slot
<1> QED BY <1>1, FS_Subset, FS_CardinalityType

\* What an info owes to the rest of the state.
LEMMA VerdictAtFirst ==
  ASSUME TypeOK, HolderGranted, LanesApart, NEW s \in Slot, Abandoned(slot[s])
  PROVE  StillAbandoned(slot[s])
<1>1. CASE slot[s].state = "bare" BY <1>1 DEF StillAbandoned
<1>2. CASE slot[s].state = "held"
  <2>1. slot[s].job \in Job /\ slot[s].beat \in Nat BY <1>2 DEF TypeOK, SlotInfo
  <2>2. CASE slot[s].job \notin Acquires BY <1>2, <2>2 DEF Abandoned, StillAbandoned
  <2>3. CASE slot[s].job \in Acquires /\ LaneOf[slot[s].job] \notin hosts
    BY <1>2, <2>3 DEF StillAbandoned
  <2>4. CASE slot[s].job \in Acquires /\ slot[s].quiet
    <3>1. \A t \in SlotOf(slot[s].job) : t = s
      BY <1>2, <2>1, BuildSlotAssumption DEF SlotOf, TypeOK, LanesApart
    <3>2. pc[slot[s].job] \notin Before BY <1>2 DEF HolderGranted
    <3> QED BY <1>2, <2>1, <2>4, <3>1, <3>2 DEF StillAbandoned
  <2> QED BY <1>2, <2>2, <2>3, <2>4 DEF Abandoned
<1> QED BY <1>1, <1>2 DEF Abandoned

\* An info that is still the one that was found abandoned is abandoned now.
LEMMA VerdictStands ==
  ASSUME TypeOK, Recorded, VerdictsHold, NEW j \in Job, pc[j] = "detach",
         SameInfo(judged[j], slot[scan[j]])
  PROVE  Abandoned(slot[scan[j]])
<1> DEFINE s == scan[j]
<1>1. s \in Slot /\ StillAbandoned(judged[j]) BY DEF VerdictsHold
<1>2. slot[s] \in SlotInfo /\ slot[s].beat \in Nat BY <1>1 DEF TypeOK, SlotInfo
<1>3. /\ judged[j].state = slot[s].state /\ judged[j].job = slot[s].job
      /\ judged[j].child = slot[s].child /\ judged[j].beat = slot[s].beat
      /\ slot[s].state = "bare" => ~slot[s].young
  BY DEF SameInfo
<1>4. s \in SlotOf(slot[s].job) BY <1>1 DEF SlotOf
<1> QED BY <1>1, <1>2, <1>3, <1>4 DEF Abandoned, StillAbandoned

LEMMA SlotInit == Init => BInv
<1> SUFFICES ASSUME Init PROVE BInv OBVIOUS
<1> USE BuildSlotAssumption DEF Init
<1>1. \A s \in Slot : slot[s] = Absent /\ slot[s].state = "absent" /\ slot[s].job = NoJob
  BY DEF Absent
<1>2. TypeOK
  <2>1. Absent \in SlotInfo BY DEF Absent, SlotInfo
  <2>2. scan \in [Job -> 1..Slots + 1] /\ faults \in 0..MaxFaults OBVIOUS
  <2>3. slot \in [Slot -> SlotInfo] /\ judged \in [Job -> SlotInfo] BY <2>1
  <2>4. /\ up \subseteq Job /\ hosts \subseteq Lane /\ command \subseteq Job
        /\ queue \subseteq Job /\ silent \subseteq queue
        /\ at \in Arrivals /\ stamp \in [Job -> Nat] /\ stagger \in BOOLEAN
    OBVIOUS
  <2>5. <<free, limit>> \in Memory
    <3>1. PICK m \in Memory : free = m[1] /\ limit = m[2] OBVIOUS
    <3> QED BY <3>1, MemoryPair
  <2> QED BY <1>1, <2>2, <2>3, <2>4, <2>5 DEF TypeOK
<1>3. LanesApart /\ HolderGranted /\ Living /\ RunningRuns /\ Owns /\ Recorded /\ VerdictsHold /\ Stamped
  BY <1>1 DEF LanesApart, HolderGranted, Living, RunningRuns, Owns, Recorded, VerdictsHold, Stamped
<1> QED BY <1>2, <1>3 DEF BInv

-----------------------------------------------------------------------------
(* Frames: what steps of a kind leave alone. *)

\* A slot is as it was, or gone.
SlotsVanish == \A s \in Slot : slot'[s] = slot[s] \/ slot'[s] = Absent

LEMMA SlotsOnlyVanish ==
  ASSUME BInv, SlotsVanish
  PROVE  LanesApart'
<1>1. Absent.state = "absent" BY DEF Absent
<1>2. LanesApart' BY <1>1 DEF BInv, LanesApart, SlotsVanish
<1> QED BY <1>2

LEMMA SlotsSame ==
  ASSUME BInv, slot' = slot
  PROVE  LanesApart'
BY SlotsOnlyVanish DEF SlotsVanish

\* A job of a live process moves on, to a step that is no end and that finds what
\* it needs; its command may have ended.
LEMMA MovesOn ==
  ASSUME BInv, NEW j \in Job, j \in up, NEW step, Goto(j, step),
         slot' = slot, up' = up, hosts' = hosts, scan' = scan, judged' = judged,
         command' \subseteq command,
         pc[j] \notin {"dead", "lost"},
         step \notin {"dead", "lost", "done", "running", "spawned", "detach"},
         j \in command' => step = "unrecorded",
         step \in Before => pc[j] \in Before,
         step \in {"spawn", "unrecorded"} => j \notin Acquires,
         j \notin Acquires /\ step \in {"granted", "spawn", "unrecorded"} => SlotOf(j) # {}
  PROVE  Living' /\ HolderGranted' /\ RunningRuns' /\ Owns' /\ Recorded' /\ VerdictsHold'
<1>0. pc = [i \in Job |-> pc[i]] BY DEF BInv, TypeOK
<1>1. /\ command \subseteq Job
      /\ pc' = [pc EXCEPT ![j] = step] /\ pc'[j] = step
      /\ \A k \in Job : k # j => pc'[k] = pc[k]
  BY <1>0 DEF BInv, TypeOK, Goto
<1>2. \A s \in Slot : slot[s].state = "held" => slot[s].job \in Job
  BY DEF BInv, TypeOK, SlotInfo
<1>3. Living' BY <1>1 DEF BInv, Living
<1>4. HolderGranted' BY <1>1, <1>2 DEF BInv, HolderGranted
<1>5. RunningRuns' BY <1>1 DEF BInv, RunningRuns
<1>6. Owns' BY <1>1 DEF BInv, Owns, SlotOf
<1>7. Recorded' BY <1>1 DEF BInv, Recorded, SlotOf
<1>8. VerdictsHold'
  <2> SUFFICES ASSUME NEW k \in Job, pc'[k] = "detach"
               PROVE  scan[k] \in Slot /\ StillAbandoned(judged[k])'
    BY DEF VerdictsHold
  <2>1. pc[k] = "detach" /\ scan[k] \in Slot /\ StillAbandoned(judged[k])
    BY <1>1 DEF BInv, VerdictsHold
  <2>2. judged[k] \in SlotInfo /\ (judged[k].state = "held" => judged[k].job \in Job \cup {NoJob})
    BY DEF BInv, TypeOK, SlotInfo
  <2>3. \A i \in Acquires : pc[i] \notin Before => pc'[i] \notin Before
    BY <1>1, BuildSlotAssumption
  <2> QED BY <2>1, <2>2, <2>3 DEF StillAbandoned, SlotOf
<1> QED BY <1>3, <1>4, <1>5, <1>6, <1>7, <1>8

-----------------------------------------------------------------------------
(* One lemma per action, or per group of actions that do the same. *)

LEMMA StartStep ==
  ASSUME BInv, NEW j \in Job, Start(j) \/ Look(j) \/ Refuse(j) \/ BackfillPaused(j)
  PROVE  BInv'
<1>0. PICK step \in {"enqueue", "poll", "granted", "admit"} :
        /\ Goto(j, step) /\ pc[j] \in Before
        /\ step = "granted" => j \in Acquires
        /\ j \in up
        /\ UNCHANGED <<up, hosts, at, scan, judged, entries, slot, command>>
        /\ UNCHANGED host
  BY DEF Start, Look, Refuse, BackfillPaused, Before
<1>1. TypeOK' BY <1>0 DEF BInv, TypeOK, Goto, entries, host
<1>2. LanesApart' BY <1>0, SlotsSame
<1>3. j \notin command BY <1>0 DEF BInv, RunningRuns, Before
<1>4. Living' /\ HolderGranted' /\ RunningRuns' /\ Owns' /\ Recorded' /\ VerdictsHold'
  BY <1>0, <1>3, MovesOn DEF Before
<1>5. Stamped' BY <1>0 DEF BInv, Stamped, entries
<1> QED BY <1>1, <1>2, <1>4, <1>5 DEF BInv

LEMMA EntryStep ==
  ASSUME BInv, NEW j \in Job, Enqueue(j) \/ Beat(j) \/ CleanQueue(j) \/ GiveUp(j)
  PROVE  BInv'
<1>0. PICK step \in {"poll", "check", "look", "leave"} :
        /\ Goto(j, step) /\ pc[j] \in Before /\ j \in up
        /\ UNCHANGED <<up, hosts, at, scan, judged, slot, command, free, limit, stagger>>
  BY DEF Enqueue, Beat, CleanQueue, GiveUp, Before, host, Fault
<1>1. faults' \in 0..MaxFaults
  BY BuildSlotAssumption DEF BInv, TypeOK, Enqueue, Beat, CleanQueue, GiveUp, host, Fault
<1>2. \/ \E gone \in SUBSET Job : Drop(gone) /\ stamp' = stamp
      \/ AddEntry(j, at[j])
      \/ UNCHANGED entries
      \/ silent' \subseteq silent /\ queue' = queue /\ stamp' = stamp
  <2>1. CASE CleanQueue(j)
    <3>1. {k \in queue : ~PidAlive(k) \/ k \in silent \/ SlotOf(k) # {}} \in SUBSET Job
      BY DEF BInv, TypeOK
    <3> QED BY <2>1, <3>1 DEF CleanQueue, entries
  <2>2. CASE Beat(j) BY <2>2 DEF Beat, entries
  <2>3. CASE Enqueue(j) BY <2>3 DEF Enqueue
  <2>4. CASE GiveUp(j) BY <2>4 DEF GiveUp
  <2> QED BY <2>1, <2>2, <2>3, <2>4
<1>3. at \in [Job -> Nat] BY BuildSlotAssumption DEF BInv, TypeOK
<1>4. /\ queue' \subseteq Job /\ silent' \subseteq queue' /\ stamp' \in [Job -> Nat]
      /\ Stamped'
  <2>1. ASSUME NEW gone \in SUBSET Job, Drop(gone), stamp' = stamp PROVE <1>4
    BY <1>0, <2>1 DEF Drop, BInv, TypeOK, Stamped
  <2>2. CASE AddEntry(j, at[j])
    BY <1>0, <1>3, <2>2 DEF AddEntry, BInv, TypeOK, Stamped
  <2>3. CASE UNCHANGED entries BY <1>0, <2>3 DEF entries, BInv, TypeOK, Stamped
  <2>4. CASE silent' \subseteq silent /\ queue' = queue /\ stamp' = stamp
    BY <1>0, <2>4 DEF BInv, TypeOK, Stamped
  <2> QED BY <1>2, <2>1, <2>2, <2>3, <2>4
<1>5. TypeOK' BY <1>0, <1>1, <1>4 DEF BInv, TypeOK, Goto
<1>6. LanesApart' BY <1>0, SlotsSame
<1>7. j \notin command BY <1>0 DEF BInv, RunningRuns, Before
<1>8. Living' /\ HolderGranted' /\ RunningRuns' /\ Owns' /\ Recorded' /\ VerdictsHold'
  BY <1>0, <1>7, MovesOn DEF Before
<1> QED BY <1>4, <1>5, <1>6, <1>8 DEF BInv

\* The command line of a job that has been granted its slot.
LEMMA RunStep ==
  ASSUME BInv, NEW j \in Job, Settle(j) \/ SpawnFails(j) \/ RecordFails(j) \/ Finish(j)
  PROVE  BInv'
<1>0. PICK step \in {"holding", "spawn", "release", "unrecorded"} :
        /\ Goto(j, step) /\ j \in up
        /\ pc[j] \in {"granted", "spawn", "spawned", "running", "unrecorded"}
        /\ step = "spawn" => j \notin Acquires /\ pc[j] = "granted"
        /\ step = "unrecorded" => pc[j] = "spawned"
        /\ step \in {"holding", "spawn"} => pc[j] = "granted"
        /\ step = "release" => pc[j] = "spawn" \/ command' = command \ {j}
        /\ command' \subseteq command
        /\ UNCHANGED <<up, hosts, at, scan, judged, slot, stamp, free, limit, stagger>>
  BY DEF Settle, SpawnFails, RecordFails, Finish, Fault, host, entries
<1>1. faults' \in 0..MaxFaults
  BY BuildSlotAssumption DEF BInv, TypeOK, Settle, SpawnFails, RecordFails, Finish, host, Fault
<1>2. queue' \subseteq queue /\ silent' \subseteq queue'
  BY DEF BInv, TypeOK, Settle, SpawnFails, RecordFails, Finish, Drop, entries
<1>3. TypeOK' BY <1>0, <1>1, <1>2 DEF BInv, TypeOK, Goto
<1>4. LanesApart' BY <1>0, SlotsSame
<1>5. j \in command' => step = "unrecorded" BY <1>0 DEF BInv, RunningRuns
<1>6. j \notin Acquires => SlotOf(j) # {} BY <1>0 DEF BInv, Owns
<1>7. step \in {"spawn", "unrecorded"} => j \notin Acquires BY <1>0 DEF BInv, RunningRuns
<1>8. Living' /\ HolderGranted' /\ RunningRuns' /\ Owns' /\ Recorded' /\ VerdictsHold'
  BY <1>0, <1>5, <1>6, <1>7, MovesOn DEF Before
<1>9. Stamped' BY <1>0, <1>2 DEF BInv, Stamped
<1> QED BY <1>3, <1>4, <1>8, <1>9 DEF BInv

LEMMA JudgeStep ==
  ASSUME BInv, NEW j \in Job, Judge(j)
  PROVE  BInv'
<1> DEFINE found == {s \in Slot : s >= scan[j] /\ Abandoned(slot[s])}
<1>0. /\ UNCHANGED <<up, hosts, at, queue, silent, stamp, slot, command, host>>
      /\ j \in up /\ pc[j] = "check"
  BY DEF Judge, entries
<1>1. LanesApart' BY <1>0, SlotsSame
<1>2. Stamped' BY <1>0 DEF BInv, Stamped
<1>3. j \notin command BY <1>0 DEF BInv, RunningRuns
<1>4. CASE found = {}
  <2>1. /\ scan' = [scan EXCEPT ![j] = 1] /\ judged' = judged /\ Goto(j, "clean")
    BY <1>4 DEF Judge
  <2>2. TypeOK' BY <1>0, <2>1, BuildSlotAssumption DEF BInv, TypeOK, Goto, host
  <2>3. Living' /\ HolderGranted' /\ RunningRuns' /\ Owns' /\ Recorded'
    <3>1. \A s \in Slot : slot[s].state = "held" => slot[s].job \in Job
      BY DEF BInv, TypeOK, SlotInfo
    <3> QED
      BY <1>0, <1>3, <2>1, <3>1
      DEF BInv, TypeOK, Goto, Living, HolderGranted, RunningRuns, Owns, Recorded, SlotOf, Before
  <2>4. VerdictsHold'
    <3> SUFFICES ASSUME NEW k \in Job, pc'[k] = "detach"
                 PROVE  (scan[k] \in Slot /\ StillAbandoned(judged[k]))'
      BY DEF VerdictsHold
    <3>1. k # j /\ pc[k] = "detach" BY <2>1 DEF Goto, BInv, TypeOK
    <3>2. scan[k] \in Slot /\ StillAbandoned(judged[k]) BY <3>1 DEF BInv, VerdictsHold
    <3>3. scan'[k] = scan[k] BY <2>1, <3>1 DEF BInv, TypeOK
    <3>4. \A i \in Acquires : pc[i] \notin Before => pc'[i] \notin Before
      BY <1>0, <2>1, BuildSlotAssumption DEF Goto, BInv, TypeOK, Before
    <3> QED BY <1>0, <2>1, <3>2, <3>3, <3>4 DEF StillAbandoned, SlotOf, Slot
  <2> QED BY <1>1, <1>2, <2>2, <2>3, <2>4 DEF BInv
<1>5. CASE found # {}
  <2>1. PICK s \in found : /\ scan' = [scan EXCEPT ![j] = s]
                           /\ judged' = [judged EXCEPT ![j] = slot[s]]
                           /\ Goto(j, "detach")
    BY <1>5 DEF Judge
  <2>2. s \in Slot /\ s \in 1..Slots + 1 /\ slot[s] \in SlotInfo
    BY BuildSlotAssumption DEF BInv, TypeOK, Slot
  <2>3. TypeOK' BY <1>0, <2>1, <2>2 DEF BInv, TypeOK, Goto, host
  <2>4. Living' /\ HolderGranted' /\ RunningRuns' /\ Owns' /\ Recorded'
    <3>1. \A t \in Slot : slot[t].state = "held" => slot[t].job \in Job
      BY DEF BInv, TypeOK, SlotInfo
    <3> QED
      BY <1>0, <1>3, <2>1, <3>1
      DEF BInv, TypeOK, Goto, Living, HolderGranted, RunningRuns, Owns, Recorded, SlotOf, Before
  <2>5. VerdictsHold'
    <3> SUFFICES ASSUME NEW k \in Job, pc'[k] = "detach"
                 PROVE  (scan[k] \in Slot /\ StillAbandoned(judged[k]))'
      BY DEF VerdictsHold
    <3>1. \A i \in Acquires : pc[i] \notin Before => pc'[i] \notin Before
      BY <1>0, <2>1, BuildSlotAssumption DEF Goto, BInv, TypeOK, Before
    <3>2. CASE k = j
      <4>1. StillAbandoned(slot[s]) BY <2>2, VerdictAtFirst DEF BInv
      <4>2. scan'[k] = s /\ judged'[k] = slot[s] BY <2>1, <3>2 DEF BInv, TypeOK
      <4> QED BY <1>0, <2>2, <3>1, <4>1, <4>2 DEF StillAbandoned, SlotOf, Slot
    <3>3. CASE k # j
      <4>1. pc[k] = "detach" /\ scan'[k] = scan[k] /\ judged'[k] = judged[k]
        BY <2>1, <3>3 DEF Goto, BInv, TypeOK
      <4>2. scan[k] \in Slot /\ StillAbandoned(judged[k]) BY <4>1 DEF BInv, VerdictsHold
      <4> QED BY <1>0, <3>1, <4>1, <4>2 DEF StillAbandoned, SlotOf, Slot
    <3> QED BY <3>2, <3>3
  <2> QED BY <1>1, <1>2, <2>3, <2>4, <2>5 DEF BInv
<1> QED BY <1>4, <1>5

\* Only abandoned slots are detached.
LEMMA DetachStep ==
  ASSUME BInv, NEW j \in Job, Detach(j)
  PROVE  BInv'
<1> DEFINE d == scan[j]
<1>0. /\ j \in up /\ pc[j] = "detach" /\ Goto(j, "check") /\ d \in Slot
      /\ scan' = [scan EXCEPT ![j] = @ + 1] /\ judged' = [judged EXCEPT ![j] = Absent]
      /\ UNCHANGED <<up, hosts, at, queue, silent, stamp, command, free, limit, stagger>>
  BY DEF Detach, entries, host, Fault, BInv, VerdictsHold
<1>1. \/ slot' = slot
      \/ slot' = [slot EXCEPT ![d] = Absent] /\ Abandoned(slot[d])
  BY <1>0, VerdictStands DEF Detach, BInv
<1>2. faults' \in 0..MaxFaults
  BY BuildSlotAssumption DEF BInv, TypeOK, Detach, host, Fault
<1>3. SlotsVanish BY <1>1, <1>0 DEF SlotsVanish, BInv, TypeOK
<1>4. LanesApart' BY <1>3, SlotsOnlyVanish
<1>5. Absent \in SlotInfo /\ Absent.state = "absent" /\ Absent.job = NoJob
  BY InfoTypes DEF Absent
<1>6. TypeOK'
  <2>1. slot' \in [Slot -> SlotInfo] /\ \A s \in Slot : slot'[s].state = "held" <=> slot'[s].job # NoJob
    BY <1>0, <1>1, <1>5 DEF BInv, TypeOK
  <2>2. scan' \in [Job -> 1..Slots + 1]
    BY <1>0, BuildSlotAssumption DEF BInv, TypeOK, Slot
  <2>3. judged' \in [Job -> SlotInfo] BY <1>0, <1>5 DEF BInv, TypeOK
  <2> QED BY <1>0, <1>2, <2>1, <2>2, <2>3 DEF BInv, TypeOK, Goto
<1>7. Stamped' BY <1>0 DEF BInv, Stamped
<1>8. /\ \A k \in Job : k # j => pc'[k] = pc[k]
      /\ pc'[j] = "check" /\ j \notin command
  BY <1>0 DEF BInv, TypeOK, Goto, RunningRuns
<1>9. Living' /\ RunningRuns' BY <1>0, <1>8 DEF BInv, Living, RunningRuns, TypeOK
<1>10. HolderGranted'
  <2>1. \A s \in Slot : slot[s].state = "held" => slot[s].job \in Job /\ slot[s].job # j
    BY <1>0 DEF BInv, TypeOK, SlotInfo, HolderGranted, Before
  <2>2. \A s \in Slot : slot'[s].state = "held" => slot'[s] = slot[s]
    BY <1>3, <1>5 DEF SlotsVanish
  <2> QED BY <1>8, <2>1, <2>2 DEF BInv, HolderGranted
<1>11. \A k \in Job : SlotOf(k)' \subseteq SlotOf(k) /\ \A s \in SlotOf(k)' : slot'[s] = slot[s]
  BY <1>3, <1>5, BuildSlotAssumption DEF SlotsVanish, SlotOf
\* The slot of a job whose wrapper lives, or whose command is recorded, stays.
<1>12. ASSUME NEW k \in Job \ Acquires, NEW s \in SlotOf(k),
              k \in up \/ (slot[s].child /\ k \in command)
       PROVE  s \in SlotOf(k)' /\ slot'[s] = slot[s]
  <2>1. s \in Slot /\ slot[s].job = k /\ slot[s].state = "held"
    BY <1>12, BuildSlotAssumption DEF SlotOf, BInv, TypeOK
  <2>2. ~Abandoned(slot[s]) BY <1>12, <2>1 DEF Abandoned
  <2> QED BY <1>0, <1>1, <2>1, <2>2 DEF SlotOf, BInv, TypeOK
<1>13. Owns'
  BY <1>8, <1>9, <1>0, <1>12 DEF BInv, Owns, Living
<1>14. Recorded'
  <2> SUFFICES ASSUME NEW k \in Job, pc'[k] = "running" \/ (pc'[k] = "dead" /\ k \in command')
               PROVE  \E s \in SlotOf(k)' : slot'[s].child
    BY DEF Recorded
  <2>1. k # j /\ (pc[k] = "running" \/ (pc[k] = "dead" /\ k \in command)) BY <1>0, <1>8
  <2>2. k \notin Acquires /\ (k \in up \/ k \in command)
    BY <2>1 DEF BInv, RunningRuns, Living
  <2>3. PICK s \in SlotOf(k) : slot[s].child BY <2>1 DEF BInv, Recorded
  <2> QED BY <1>12, <2>2, <2>3
<1>15. VerdictsHold'
  <2> SUFFICES ASSUME NEW k \in Job, pc'[k] = "detach"
               PROVE  (scan[k] \in Slot /\ StillAbandoned(judged[k]))'
    BY DEF VerdictsHold
  <2>1. k # j /\ pc[k] = "detach" BY <1>8
  <2>2. scan'[k] = scan[k] /\ judged'[k] = judged[k] BY <1>0, <2>1 DEF BInv, TypeOK
  <2>3. scan[k] \in Slot /\ StillAbandoned(judged[k]) BY <2>1 DEF BInv, VerdictsHold
  <2>4. \A i \in Acquires : pc[i] \notin Before => pc'[i] \notin Before /\ i \in Job
    BY <1>0, <1>8, BuildSlotAssumption DEF Before
  <2> QED BY <1>0, <1>11, <2>2, <2>3, <2>4 DEF StillAbandoned, Slot
<1> QED BY <1>4, <1>6, <1>7, <1>9, <1>10, <1>13, <1>14, <1>15 DEF BInv

-----------------------------------------------------------------------------
(* A grant. *)

\* What is true of an admission: the first free slot, a lane without one.
LEMMA Granting ==
  ASSUME BInv, NEW j \in Job, MayGrant(j)
  PROVE  /\ FirstFree \in Slot /\ slot[FirstFree].state = "absent"
         /\ j \in up /\ pc[j] = "admit" /\ j \notin command
         /\ \A s \in Slot : slot[s].state = "held" =>
              LaneOf[slot[s].job] # LaneOf[j] /\ slot[s].job # j /\ slot[s].job \in Job
         /\ \A s \in Slot : slot[s].job # j
         /\ \A k \in Job : FirstFree \notin SlotOf(k)
<1>1. FirstFree \in Slot /\ slot[FirstFree].state = "absent"
  BY FirstFreeIsFree DEF MayGrant, FreeSlots
<1>2. j \in up /\ pc[j] = "admit" /\ j \notin command
  BY DEF MayGrant, BInv, RunningRuns
<1>3. \A s \in Slot : slot[s].state = "held" => LaneOf[slot[s].job] # LaneOf[j]
  BY DEF MayGrant, Admitted, Runnable, Occupied
<1>4. \A s \in Slot : slot[s].state = "held" => slot[s].job \in Job
  BY DEF BInv, TypeOK, SlotInfo
<1>5. \A s \in Slot : slot[s].state # "held" => slot[s].job = NoJob
  BY DEF BInv, TypeOK
<1> QED BY <1>1, <1>2, <1>3, <1>4, <1>5, BuildSlotAssumption DEF SlotOf

\* A new slot is in nobody's way and nobody's verdict.
LEMMA NewSlot ==
  ASSUME BInv, NEW j \in Job, MayGrant(j),
         NEW info \in {Bare, Held(j)}, slot' = [slot EXCEPT ![FirstFree] = info]
  PROVE  /\ slot' \in [Slot -> SlotInfo]
         /\ \A s \in Slot : slot'[s].state = "held" <=> slot'[s].job # NoJob
         /\ slot'[FirstFree] = info
         /\ \A s \in Slot : s # FirstFree => slot'[s] = slot[s]
         /\ \A k \in Job : k # j => SlotOf(k)' = SlotOf(k)
         /\ \A k \in Job : \A s \in SlotOf(k) : s \in Slot /\ slot'[s] = slot[s]
         /\ LanesApart'
<1>1. FirstFree \in Slot /\ slot[FirstFree].state = "absent" BY Granting
<1>2. info \in SlotInfo BY InfoTypes
<1>3. \/ info.state = "bare" /\ info.job = NoJob
      \/ info.state = "held" /\ info.job = j
  BY DEF Bare, Held, Absent
<1>4. /\ slot'[FirstFree] = info
      /\ \A s \in Slot : s # FirstFree => slot'[s] = slot[s]
  BY <1>1 DEF BInv, TypeOK
<1>5. slot' \in [Slot -> SlotInfo] BY <1>1, <1>2 DEF BInv, TypeOK
<1>6. \A s \in Slot : slot'[s].state = "held" <=> slot'[s].job # NoJob
  BY <1>3, <1>4, BuildSlotAssumption DEF BInv, TypeOK
<1>7. \A k \in Job : \A s \in SlotOf(k) : s \in Slot /\ slot'[s] = slot[s]
  BY <1>4, Granting DEF SlotOf
<1>8. \A k \in Job : k # j => SlotOf(k)' = SlotOf(k)
  <2> SUFFICES ASSUME NEW k \in Job, k # j PROVE SlotOf(k)' = SlotOf(k) OBVIOUS
  <2>1. slot'[FirstFree].job # k BY <1>3, <1>4, BuildSlotAssumption
  <2>2. FirstFree \notin SlotOf(k) BY Granting
  <2> QED BY <1>4, <2>1, <2>2 DEF SlotOf
<1>9. LanesApart'
  BY <1>3, <1>4, Granting DEF BInv, LanesApart
<1> QED BY <1>4, <1>5, <1>6, <1>7, <1>8, <1>9

LEMMA VerdictsOutliveGrants ==
  ASSUME BInv, NEW j \in Job, MayGrant(j),
         NEW info \in {Bare, Held(j)}, slot' = [slot EXCEPT ![FirstFree] = info],
         NEW k \in Job, k # j, pc[k] = "detach",
         scan'[k] = scan[k], judged'[k] = judged[k],
         up' \subseteq up, hosts' = hosts, command' = command,
         \A i \in Job : i # j => pc'[i] = pc[i]
  PROVE  (scan[k] \in Slot /\ StillAbandoned(judged[k]))'
<1>1. scan[k] \in Slot /\ StillAbandoned(judged[k]) BY DEF BInv, VerdictsHold
<1>2. \A i \in Job : i # j => SlotOf(i)' = SlotOf(i) BY NewSlot
<1>3. \A i \in Job : \A s \in SlotOf(i) : slot'[s] = slot[s] BY NewSlot
<1>4. pc[j] \in Before BY Granting DEF Before
<1> QED BY <1>1, <1>2, <1>3, <1>4, BuildSlotAssumption DEF StillAbandoned, Slot

LEMMA GrantStep ==
  ASSUME BInv, NEW j \in Job, Grant(j)
  PROVE  BInv'
<1>0. /\ MayGrant(j) /\ slot' = [slot EXCEPT ![FirstFree] = Held(j)]
      /\ stagger' = (stagger \/ Class[j] = "heavy") /\ Goto(j, "granted")
      /\ UNCHANGED <<up, hosts, at, scan, judged, queue, silent, stamp, command, free, limit, faults>>
  BY DEF Grant, entries
<1>1. /\ \A k \in Job : k # j => pc'[k] = pc[k]
      /\ pc'[j] = "granted" /\ pc[j] = "admit" /\ j \notin command /\ j \in up
  BY <1>0, Granting DEF Goto, BInv, TypeOK
<1>2. Held(j).state = "held" /\ Held(j).job = j BY DEF Held, Absent
<1>3. TypeOK'
  <2>1. slot' \in [Slot -> SlotInfo] /\ \A s \in Slot : slot'[s].state = "held" <=> slot'[s].job # NoJob
    BY <1>0, NewSlot
  <2>2. stagger' \in BOOLEAN BY <1>0, Zenon DEF BInv, TypeOK
  <2>3. pc' \in [Job -> {"idle", "enqueue", "poll", "check", "detach", "clean", "look", "admit",
                     "granted", "holding", "spawn", "spawned", "running", "unrecorded",
                     "release", "leave", "done", "dead", "lost"}]
    BY <1>0 DEF BInv, TypeOK, Goto
  <2> QED BY <1>0, <2>1, <2>2, <2>3 DEF BInv, TypeOK
<1>4. LanesApart' BY <1>0, NewSlot
<1>6. Living' /\ RunningRuns' /\ Stamped'
  BY <1>0, <1>1 DEF BInv, TypeOK, Living, RunningRuns, Stamped
<1>7. HolderGranted'
  <2>1. \A s \in Slot : slot[s].state = "held" => slot[s].job # j /\ slot[s].job \in Job
    BY <1>0, Granting
  <2> QED BY <1>0, <1>1, <1>2, <2>1, NewSlot DEF BInv, HolderGranted, Before
<1>8. Owns'
  <2>1. FirstFree \in SlotOf(j)' BY <1>0, <1>2, NewSlot, Granting DEF SlotOf
  <2>2. \A k \in Job : k # j => SlotOf(k)' = SlotOf(k) BY <1>0, NewSlot
  <2> QED BY <1>1, <2>1, <2>2 DEF BInv, Owns
<1>9. Recorded'
  <2>1. \A k \in Job : k # j => SlotOf(k)' = SlotOf(k) BY <1>0, NewSlot
  <2>2. \A k \in Job : \A s \in SlotOf(k) : slot'[s] = slot[s] BY <1>0, NewSlot
  <2> QED BY <1>0, <1>1, <2>1, <2>2 DEF BInv, Recorded
<1>10. VerdictsHold' BY <1>0, <1>1, VerdictsOutliveGrants DEF VerdictsHold
<1> QED BY <1>3, <1>4, <1>6, <1>7, <1>8, <1>9, <1>10 DEF BInv

\* A grant that fails leaves a directory without an info file, which nobody holds.
LEMMA BareStep ==
  ASSUME BInv, NEW j \in Job, GrantFails(j) \/ DiesGranting(j)
  PROVE  BInv'
<1>0. /\ MayGrant(j) /\ slot' = [slot EXCEPT ![FirstFree] = Bare]
      /\ UNCHANGED <<hosts, at, queue, silent, stamp, command, free, limit, stagger>>
      /\ \/ /\ \E step \in {"admit", "poll"} : Goto(j, step)
            /\ up' = up /\ scan' = scan /\ judged' = judged
         \/ /\ Goto(j, "dead") /\ up' = up \ {j}
            /\ scan' = [scan EXCEPT ![j] = 1] /\ judged' = [judged EXCEPT ![j] = Absent]
  BY DEF GrantFails, DiesGranting, Fault, Die, MayGrant, entries, host
<1>1. /\ \A k \in Job : k # j => pc'[k] = pc[k]
      /\ pc[j] = "admit" /\ j \notin command /\ j \in up
      /\ \/ pc'[j] \in {"admit", "poll"} /\ up' = up
         \/ pc'[j] = "dead" /\ up' = up \ {j}
  BY <1>0, Granting DEF Goto, BInv, TypeOK
<1>2. Bare.state = "bare" BY DEF Bare, Absent
<1>3. faults' \in 0..MaxFaults
  BY BuildSlotAssumption DEF BInv, TypeOK, GrantFails, DiesGranting, Fault, host
<1>4. \A k \in Job : k # j => scan'[k] = scan[k] /\ judged'[k] = judged[k]
  BY <1>0 DEF BInv, TypeOK
<1>5. TypeOK'
  <2>1. slot' \in [Slot -> SlotInfo] /\ \A s \in Slot : slot'[s].state = "held" <=> slot'[s].job # NoJob
    BY <1>0, NewSlot
  <2>2. scan' \in [Job -> 1..Slots + 1] /\ judged' \in [Job -> SlotInfo]
    BY <1>0, InfoTypes, BuildSlotAssumption DEF BInv, TypeOK
  <2>3. pc' \in [Job -> {"idle", "enqueue", "poll", "check", "detach", "clean", "look", "admit",
                     "granted", "holding", "spawn", "spawned", "running", "unrecorded",
                     "release", "leave", "done", "dead", "lost"}]
    BY <1>0 DEF BInv, TypeOK, Goto
  <2> QED BY <1>0, <1>1, <1>3, <2>1, <2>2, <2>3 DEF BInv, TypeOK
<1>6. LanesApart' BY <1>0, NewSlot
<1>8. Living' /\ RunningRuns' /\ Stamped'
  BY <1>0, <1>1 DEF BInv, TypeOK, Living, RunningRuns, Stamped
<1>9. HolderGranted'
  <2>1. \A s \in Slot : slot[s].state = "held" => slot[s].job # j /\ slot[s].job \in Job
    BY <1>0, Granting
  <2> QED BY <1>0, <1>1, <1>2, <2>1, NewSlot DEF BInv, HolderGranted
<1>10. \A k \in Job : k # j => SlotOf(k)' = SlotOf(k) BY <1>0, NewSlot
<1>11. Owns' BY <1>1, <1>10 DEF BInv, Owns
<1>12. Recorded'
  <2>1. \A k \in Job : \A s \in SlotOf(k) : slot'[s] = slot[s] BY <1>0, NewSlot
  <2> QED BY <1>0, <1>1, <1>10, <2>1 DEF BInv, Recorded
<1>13. VerdictsHold' BY <1>0, <1>1, <1>4, VerdictsOutliveGrants DEF VerdictsHold
<1> QED BY <1>5, <1>6, <1>8, <1>9, <1>11, <1>12, <1>13 DEF BInv

-----------------------------------------------------------------------------
(* The command. *)

LEMMA SpawnStep ==
  ASSUME BInv, NEW j \in Job, Spawn(j)
  PROVE  BInv'
<1>0. /\ j \in up /\ pc[j] = "spawn" /\ Goto(j, "spawned") /\ command' = command \cup {j}
      /\ UNCHANGED <<up, hosts, at, scan, judged, queue, silent, stamp, slot, free, limit, stagger, faults>>
  BY DEF Spawn, entries, host
<1>1. /\ \A k \in Job : k # j => pc'[k] = pc[k]
      /\ pc'[j] = "spawned" /\ j \notin Acquires
      /\ \A s \in Slot : slot[s].state = "held" => slot[s].job \in Job
  BY <1>0 DEF Goto, BInv, TypeOK, RunningRuns, SlotInfo
<1>2. TypeOK' BY <1>0 DEF BInv, TypeOK, Goto
<1>3. LanesApart' BY <1>0, SlotsSame
<1>4. Living' /\ HolderGranted' /\ RunningRuns' /\ Stamped'
  BY <1>0, <1>1 DEF BInv, TypeOK, Living, HolderGranted, RunningRuns, Stamped, Before
<1>5. Owns' BY <1>0, <1>1 DEF BInv, Owns, SlotOf
<1>6. Recorded' BY <1>0, <1>1 DEF BInv, Recorded, SlotOf
<1>7. VerdictsHold'
  <2> SUFFICES ASSUME NEW k \in Job, pc'[k] = "detach"
               PROVE  (scan[k] \in Slot /\ StillAbandoned(judged[k]))'
    BY DEF VerdictsHold
  <2>1. scan[k] \in Slot /\ StillAbandoned(judged[k]) BY <1>1 DEF BInv, VerdictsHold
  <2>2. \A i \in Acquires : pc[i] \notin Before => pc'[i] \notin Before /\ i \in Job
    BY <1>1, BuildSlotAssumption DEF Before
  <2> QED BY <1>0, <1>1, <2>1, <2>2 DEF StillAbandoned, Slot, SlotOf
<1> QED BY <1>2, <1>3, <1>4, <1>5, <1>6, <1>7 DEF BInv

LEMMA RecordStep ==
  ASSUME BInv, NEW j \in Job, Record(j)
  PROVE  BInv'
<1>0. /\ j \in up /\ pc[j] = "spawned" /\ Goto(j, "running") /\ j \notin Acquires
      /\ slot' = [s \in Slot |-> IF s \in SlotOf(j) THEN [slot[s] EXCEPT !.child = TRUE] ELSE slot[s]]
      /\ UNCHANGED <<up, hosts, at, scan, judged, queue, silent, stamp, command, free, limit, stagger, faults>>
  BY DEF Record, entries, host, BInv, RunningRuns
<1>1. /\ \A k \in Job : k # j => pc'[k] = pc[k]
      /\ pc'[j] = "running"
      /\ \A s \in Slot : slot[s].state = "held" => slot[s].job \in Job
  BY <1>0 DEF Goto, BInv, TypeOK, SlotInfo
<1>2. ASSUME NEW s \in Slot
      PROVE  /\ slot'[s] \in SlotInfo
             /\ slot'[s].state = slot[s].state /\ slot'[s].job = slot[s].job
             /\ slot'[s].beat = slot[s].beat /\ slot'[s].quiet = slot[s].quiet
             /\ slot'[s].child = slot[s].child \/ slot'[s].child
             /\ s \in SlotOf(j) => slot'[s].child
  <2>1. slot[s] \in SlotInfo BY DEF BInv, TypeOK
  <2>2. CASE s \in SlotOf(j) BY <1>0, <2>1, <2>2 DEF SlotInfo
  <2>3. CASE s \notin SlotOf(j) BY <1>0, <2>1, <2>3
  <2> QED BY <2>2, <2>3
<1>3. TypeOK'
  <2>1. slot' \in [Slot -> SlotInfo] BY <1>0, <1>2
  <2> QED BY <1>0, <1>2, <2>1 DEF BInv, TypeOK, Goto
<1>4. LanesApart' BY <1>2 DEF BInv, LanesApart
<1>6. Living' /\ RunningRuns' /\ Stamped'
  BY <1>0, <1>1 DEF BInv, TypeOK, Living, RunningRuns, Stamped
<1>7. HolderGranted' BY <1>1, <1>2 DEF BInv, HolderGranted, Before
<1>8. \A k \in Job : SlotOf(k)' = SlotOf(k) BY <1>2 DEF SlotOf
<1>9. Owns' BY <1>0, <1>1, <1>8 DEF BInv, Owns
<1>10. Recorded'
  <2>1. \A k \in Job : \A s \in SlotOf(k) : slot[s].child => slot'[s].child BY <1>2 DEF SlotOf
  <2>2. SlotOf(j) # {} /\ \A s \in SlotOf(j) : slot'[s].child BY <1>0, <1>2 DEF BInv, Owns, SlotOf
  <2> SUFFICES ASSUME NEW k \in Job, pc'[k] = "running" \/ (pc'[k] = "dead" /\ k \in command')
               PROVE  \E s \in SlotOf(k)' : slot'[s].child
    BY DEF Recorded
  <2>3. CASE k = j BY <1>8, <2>2, <2>3
  <2>4. CASE k # j
    <3>1. PICK s \in SlotOf(k) : slot[s].child BY <1>0, <1>1, <2>4 DEF BInv, Recorded
    <3> QED BY <1>8, <2>1, <3>1
  <2> QED BY <2>3, <2>4
<1>11. VerdictsHold'
  <2> SUFFICES ASSUME NEW k \in Job, pc'[k] = "detach"
               PROVE  (scan[k] \in Slot /\ StillAbandoned(judged[k]))'
    BY DEF VerdictsHold
  <2>1. scan[k] \in Slot /\ StillAbandoned(judged[k]) BY <1>1 DEF BInv, VerdictsHold
  <2>2. \A i \in Acquires : pc[i] \notin Before => pc'[i] \notin Before /\ i \in Job
    BY <1>1, BuildSlotAssumption DEF Before
  <2>3. \A i \in Job : \A s \in SlotOf(i) : slot'[s].beat = slot[s].beat /\ slot'[s].quiet = slot[s].quiet
    BY <1>2 DEF SlotOf
  <2> QED BY <1>0, <1>8, <2>1, <2>2, <2>3 DEF StillAbandoned, Slot
<1> QED BY <1>3, <1>4, <1>6, <1>7, <1>9, <1>10, <1>11 DEF BInv

LEMMA ReleaseStep ==
  ASSUME BInv, NEW j \in Job, Release(j)
  PROVE  BInv'
<1>0. /\ j \in up /\ pc[j] = "release" /\ Goto(j, "leave")
      /\ \/ slot' = [s \in Slot |-> IF s \in SlotOf(j) THEN Absent ELSE slot[s]]
         \/ slot' = slot
      /\ UNCHANGED <<up, hosts, at, scan, judged, queue, silent, stamp, command, free, limit, stagger>>
  BY DEF Release, entries, host, Fault
<1>1. /\ \A k \in Job : k # j => pc'[k] = pc[k]
      /\ pc'[j] = "leave" /\ j \notin command
      /\ \A s \in Slot : slot[s].state = "held" => slot[s].job \in Job
  BY <1>0 DEF Goto, BInv, TypeOK, SlotInfo, RunningRuns
<1>2. Absent \in SlotInfo /\ Absent.state = "absent" /\ Absent.job = NoJob
  BY InfoTypes DEF Absent
<1>3. SlotsVanish BY <1>0 DEF SlotsVanish
<1>4. LanesApart' BY <1>3, SlotsOnlyVanish
<1>5. TypeOK'
  <2>1. slot' \in [Slot -> SlotInfo] /\ \A s \in Slot : slot'[s].state = "held" <=> slot'[s].job # NoJob
    BY <1>0, <1>2, <1>3 DEF BInv, TypeOK, SlotsVanish
  <2>2. faults' \in 0..MaxFaults
    BY BuildSlotAssumption DEF BInv, TypeOK, Release, host, Fault
  <2> QED BY <1>0, <2>1, <2>2 DEF BInv, TypeOK, Goto
<1>6. Living' /\ RunningRuns' /\ Stamped'
  BY <1>0, <1>1 DEF BInv, TypeOK, Living, RunningRuns, Stamped
<1>7. HolderGranted' BY <1>1, <1>2, <1>3 DEF BInv, HolderGranted, SlotsVanish, Before
<1>8. ASSUME NEW k \in Job, NEW s \in SlotOf(k), k # j
      PROVE  s \in SlotOf(k)' /\ slot'[s] = slot[s]
  BY <1>0, <1>8 DEF SlotOf
<1>9. Owns' BY <1>0, <1>1, <1>8 DEF BInv, Owns
<1>10. Recorded'
  <2> SUFFICES ASSUME NEW k \in Job, pc'[k] = "running" \/ (pc'[k] = "dead" /\ k \in command')
               PROVE  \E s \in SlotOf(k)' : slot'[s].child
    BY DEF Recorded
  <2>1. PICK s \in SlotOf(k) : slot[s].child /\ k # j BY <1>0, <1>1 DEF BInv, Recorded
  <2> QED BY <1>8, <2>1
<1>11. VerdictsHold'
  <2> SUFFICES ASSUME NEW k \in Job, pc'[k] = "detach"
               PROVE  (scan[k] \in Slot /\ StillAbandoned(judged[k]))'
    BY DEF VerdictsHold
  <2>1. scan[k] \in Slot /\ StillAbandoned(judged[k]) BY <1>1 DEF BInv, VerdictsHold
  <2>2. \A i \in Acquires : pc[i] \notin Before => pc'[i] \notin Before /\ i \in Job
    BY <1>1, BuildSlotAssumption DEF Before
  <2>3. \A i \in Job : \A s \in SlotOf(i)' : s \in SlotOf(i) /\ slot'[s] = slot[s]
    BY <1>2, <1>3, BuildSlotAssumption DEF SlotOf, SlotsVanish
  <2> QED BY <1>0, <2>1, <2>2, <2>3 DEF StillAbandoned, Slot
<1> QED BY <1>4, <1>5, <1>6, <1>7, <1>9, <1>10, <1>11 DEF BInv

\* The end of a job: it leaves, or its process dies.
LEMMA EndStep ==
  ASSUME BInv, NEW j \in Job, Leave(j) \/ Crash(j)
  PROVE  BInv'
<1>0. PICK end \in {"done", "dead", "lost"} :
        /\ j \in up /\ Goto(j, end) /\ up' = up \ {j}
        /\ end = "dead" => pc[j] \notin {"spawned", "unrecorded"}
        /\ end = "done" => pc[j] = "leave"
        /\ pc[j] \notin {"idle", "dead", "lost"}
        /\ queue' \subseteq queue /\ silent' \subseteq queue'
        /\ UNCHANGED <<hosts, at, stamp, slot, command, free, limit, stagger>>
        /\ \A k \in Job : k # j => scan'[k] = scan[k] /\ judged'[k] = judged[k]
        /\ scan' \in [Job -> 1..Slots + 1] /\ judged' \in [Job -> SlotInfo]
  <2>1. CASE Leave(j)
    BY <2>1 DEF Leave, BInv, TypeOK, Drop, Fault, host, entries
  <2>2. CASE Crash(j)
    <3>1. Absent \in SlotInfo BY InfoTypes
    <3>2. pc[j] \notin {"dead", "lost", "idle"} BY <2>2 DEF Crash, BInv, Living
    <3> QED BY <2>2, <3>1, <3>2, BuildSlotAssumption DEF Crash, Die, BInv, TypeOK, host, entries
  <2> QED BY <2>1, <2>2
<1>1. /\ \A k \in Job : k # j => pc'[k] = pc[k]
      /\ pc'[j] = end
      /\ \A s \in Slot : slot[s].state = "held" => slot[s].job \in Job
  BY <1>0 DEF Goto, BInv, TypeOK, SlotInfo
<1>2. TypeOK'
  <2>1. faults' \in 0..MaxFaults
    BY BuildSlotAssumption DEF BInv, TypeOK, Leave, Crash, host, Fault
  <2> QED BY <1>0, <2>1 DEF BInv, TypeOK, Goto
<1>3. LanesApart' BY <1>0, SlotsSame
<1>4. Living' /\ HolderGranted' /\ Stamped'
  BY <1>0, <1>1 DEF BInv, TypeOK, Living, HolderGranted, Stamped, Before
<1>5. RunningRuns' BY <1>0, <1>1 DEF BInv, RunningRuns, TypeOK
<1>6. \A k \in Job : SlotOf(k)' = SlotOf(k) BY <1>0 DEF SlotOf
<1>7. Owns' BY <1>0, <1>1, <1>6 DEF BInv, Owns
<1>8. Recorded'
  <2> SUFFICES ASSUME NEW k \in Job, pc'[k] = "running" \/ (pc'[k] = "dead" /\ k \in command')
               PROVE  \E s \in SlotOf(k)' : slot'[s].child
    BY DEF Recorded
  <2>1. pc[k] = "running" \/ (pc[k] = "dead" /\ k \in command)
    BY <1>0, <1>1 DEF BInv, RunningRuns
  <2>2. PICK s \in SlotOf(k) : slot[s].child BY <2>1 DEF BInv, Recorded
  <2> QED BY <1>0, <1>6, <2>2
<1>9. VerdictsHold'
  <2> SUFFICES ASSUME NEW k \in Job, pc'[k] = "detach"
               PROVE  (scan[k] \in Slot /\ StillAbandoned(judged[k]))'
    BY DEF VerdictsHold
  <2>1. k # j /\ pc[k] = "detach" BY <1>0, <1>1
  <2>2. scan[k] \in Slot /\ StillAbandoned(judged[k]) BY <2>1 DEF BInv, VerdictsHold
  <2>3. \A i \in Acquires : pc[i] \notin Before => pc'[i] \notin Before /\ i \in Job
    BY <1>0, <1>1, BuildSlotAssumption DEF Before
  <2> QED BY <1>0, <1>6, <2>1, <2>2, <2>3 DEF StillAbandoned, Slot
<1> QED BY <1>2, <1>3, <1>4, <1>5, <1>7, <1>8, <1>9 DEF BInv

LEMMA CommandEndsStep ==
  ASSUME BInv, NEW j \in Job, CommandEnds(j)
  PROVE  BInv'
<1>0. /\ command' = command \ {j}
      /\ UNCHANGED <<up, hosts, at, pc, scan, judged, queue, silent, stamp, slot, free, limit, stagger, faults>>
  BY DEF CommandEnds, entries, host, local
<1>1. TypeOK' BY <1>0 DEF BInv, TypeOK
<1>2. LanesApart' BY <1>0, SlotsSame
<1>3. Living' /\ HolderGranted' /\ RunningRuns' /\ Stamped'
  BY <1>0 DEF BInv, Living, HolderGranted, RunningRuns, Stamped
<1>4. Owns' /\ Recorded' BY <1>0 DEF BInv, Owns, Recorded, SlotOf
<1>5. VerdictsHold' BY <1>0 DEF BInv, VerdictsHold, StillAbandoned, SlotOf, Slot
<1> QED BY <1>1, <1>2, <1>3, <1>4, <1>5 DEF BInv

-----------------------------------------------------------------------------
(* Hosts and time. *)

\* What is written in an info: a heartbeat, or what time makes of it.
Rewritten(s, info) ==
  /\ slot' = [slot EXCEPT ![s] = info]
  /\ info.state = slot[s].state /\ info.job = slot[s].job /\ info.child = slot[s].child
  /\ \/ info.beat = slot[s].beat /\ (slot[s].quiet => info.quiet)
     \/ info.beat = slot[s].beat + 1

LEMMA Rewrites ==
  ASSUME BInv, \/ \E s \in Slot : Time(s)
               \/ \E l \in Lane : HostBeat(l)
  PROVE  \E s \in Slot, info \in SlotInfo : Rewritten(s, info)
<1>1. ASSUME NEW s \in Slot, Age(s) PROVE \E info \in SlotInfo : Rewritten(s, info)
  <2> DEFINE info == [slot[s] EXCEPT !.young = FALSE]
  <2>1. slot[s] \in SlotInfo BY DEF BInv, TypeOK
  <2>2. info \in SlotInfo BY <2>1 DEF SlotInfo
  <2>3. slot' = [slot EXCEPT ![s] = info] BY <1>1 DEF Age, BInv, TypeOK
  <2>4. Rewritten(s, info) BY <2>1, <2>3 DEF SlotInfo, Rewritten
  <2> QED BY <2>2, <2>4
<1>2. ASSUME NEW s \in Slot, FallsQuiet(s) PROVE \E info \in SlotInfo : Rewritten(s, info)
  <2> DEFINE info == [slot[s] EXCEPT !.quiet = TRUE]
  <2>1. slot[s] \in SlotInfo BY DEF BInv, TypeOK
  <2>2. info \in SlotInfo BY <2>1 DEF SlotInfo
  <2>3. slot' = [slot EXCEPT ![s] = info] BY <1>2 DEF FallsQuiet, BInv, TypeOK
  <2>4. Rewritten(s, info) BY <2>1, <2>3 DEF SlotInfo, Rewritten
  <2> QED BY <2>2, <2>4
<1>3. ASSUME NEW l \in Lane, HostBeat(l) PROVE \E s \in Slot, info \in SlotInfo : Rewritten(s, info)
  <2>1. PICK s \in SlotsOf(l) :
          /\ slot[s].beat < MaxBeats
          /\ slot' = [slot EXCEPT ![s].beat = @ + 1, ![s].quiet = FALSE]
    BY <1>3 DEF HostBeat
  <2> DEFINE info == [slot[s] EXCEPT !.beat = @ + 1, !.quiet = FALSE]
  <2>2. s \in Slot /\ slot[s] \in SlotInfo BY DEF SlotsOf, BInv, TypeOK
  <2>3. info \in SlotInfo
    <3>1. slot[s].beat + 1 \in 0..MaxBeats BY <2>1, <2>2, BuildSlotAssumption DEF SlotInfo
    <3> QED BY <2>2, <3>1 DEF SlotInfo
  <2>4. slot' = [slot EXCEPT ![s] = info] BY <2>1, <2>2 DEF BInv, TypeOK
  <2>5. Rewritten(s, info) BY <2>2, <2>4 DEF SlotInfo, Rewritten
  <2> QED BY <2>2, <2>3, <2>5
<1> QED BY <1>1, <1>2, <1>3 DEF Time

LEMMA InfoStep ==
  ASSUME BInv, \/ \E s \in Slot : Time(s)
               \/ \E l \in Lane : HostBeat(l)
  PROVE  BInv'
<1>0. UNCHANGED <<up, hosts, at, pc, scan, judged, queue, silent, stamp, command, free, limit, stagger, faults>>
  BY DEF Time, Age, FallsQuiet, HostBeat, entries, host, local
<1>1. PICK t \in Slot, info \in SlotInfo : Rewritten(t, info) BY Rewrites
<1>2. /\ slot' \in [Slot -> SlotInfo]
      /\ \A s \in Slot : /\ slot'[s].state = slot[s].state /\ slot'[s].job = slot[s].job
                         /\ slot'[s].child = slot[s].child
                         /\ \/ slot'[s].beat = slot[s].beat /\ (slot[s].quiet => slot'[s].quiet)
                            \/ slot'[s].beat = slot[s].beat + 1
  BY <1>1 DEF Rewritten, BInv, TypeOK
<1>3. TypeOK' BY <1>0, <1>2 DEF BInv, TypeOK
<1>4. LanesApart' BY <1>2 DEF BInv, LanesApart
<1>6. Living' /\ HolderGranted' /\ RunningRuns' /\ Stamped'
  BY <1>0, <1>2 DEF BInv, Living, HolderGranted, RunningRuns, Stamped
<1>7. \A k \in Job : SlotOf(k)' = SlotOf(k) BY <1>2 DEF SlotOf
<1>8. Owns' BY <1>0, <1>7 DEF BInv, Owns
<1>9. Recorded'
  <2>1. \A k \in Job : \A s \in SlotOf(k) : slot'[s].child = slot[s].child BY <1>2 DEF SlotOf
  <2> QED BY <1>0, <1>7, <2>1 DEF BInv, Recorded
<1>10. VerdictsHold'
  <2> SUFFICES ASSUME NEW k \in Job, pc'[k] = "detach"
               PROVE  (scan[k] \in Slot /\ StillAbandoned(judged[k]))'
    BY DEF VerdictsHold
  <2>1. scan[k] \in Slot /\ StillAbandoned(judged[k]) BY <1>0 DEF BInv, VerdictsHold
  <2>2. judged[k].beat \in Nat /\ \A s \in Slot : slot[s].beat \in Nat
    BY BuildSlotAssumption DEF BInv, TypeOK, SlotInfo
  <2>3. CASE /\ judged[k].state = "held" /\ judged[k].job \in Acquires
             /\ LaneOf[judged[k].job] \in hosts
    <3>1. /\ pc[judged[k].job] \notin Before
          /\ \A s \in SlotOf(judged[k].job) :
               slot[s].beat >= judged[k].beat /\ (slot[s].beat = judged[k].beat => slot[s].quiet)
      BY <2>1, <2>3 DEF StillAbandoned
    <3>2. ASSUME NEW s \in SlotOf(judged[k].job)'
          PROVE  slot'[s].beat >= judged[k].beat /\ (slot'[s].beat = judged[k].beat => slot'[s].quiet)
      <4>1. s \in SlotOf(judged[k].job) /\ s \in Slot BY <1>2, <1>0, <3>2 DEF SlotOf
      <4> QED BY <1>2, <2>2, <3>1, <4>1
    <3> QED BY <1>0, <2>1, <2>3, <3>1, <3>2 DEF StillAbandoned, Slot
  <2>4. CASE ~(/\ judged[k].state = "held" /\ judged[k].job \in Acquires
               /\ LaneOf[judged[k].job] \in hosts)
    BY <1>0, <2>1, <2>4 DEF StillAbandoned, Slot
  <2> QED BY <2>3, <2>4
<1> QED BY <1>3, <1>4, <1>6, <1>8, <1>9, <1>10 DEF BInv

\* release by name frees what the lane holds: that is what its host has acquired.
LEMMA HostReleaseStep ==
  ASSUME BInv, NotLate, NEW l \in Lane, HostRelease(l)
  PROVE  BInv'
<1>0. /\ slot' = [s \in Slot |-> IF s \in SlotsOf(l) THEN Absent ELSE slot[s]]
      /\ pc' = [j \in Job |-> IF j \in Holding(l) THEN "done" ELSE pc[j]]
      /\ queue' \subseteq queue /\ silent' \subseteq queue'
      /\ UNCHANGED <<up, hosts, at, scan, judged, stamp, command, free, limit, stagger, faults>>
  BY DEF HostRelease, Drop, BInv, TypeOK, host
<1>1. PICK m \in SlotsOf(l) : slot[m].job \in Acquires BY DEF HostRelease, NotLate
<1>2. ASSUME NEW s \in SlotsOf(l) PROVE slot[s].job \in Acquires
  BY <1>1, <1>2 DEF SlotsOf, BInv, LanesApart
<1>3. \A j \in Job : pc'[j] = pc[j] \/ (pc[j] = "holding" /\ pc'[j] = "done" /\ j \in Acquires)
  BY <1>0 DEF Holding
<1>4. Absent \in SlotInfo /\ Absent.state = "absent" /\ Absent.job = NoJob
  <2>1. \E j \in Job : TRUE BY <1>1, BuildSlotAssumption
  <2> QED BY <2>1, InfoTypes DEF Absent
<1>5. SlotsVanish BY <1>0 DEF SlotsVanish
<1>6. LanesApart' BY <1>5, SlotsOnlyVanish
<1>7. \A s \in Slot : slot[s].state = "held" => slot[s].job \in Job BY DEF BInv, TypeOK, SlotInfo
<1>8. TypeOK'
  <2>1. slot' \in [Slot -> SlotInfo] /\ \A s \in Slot : slot'[s].state = "held" <=> slot'[s].job # NoJob
    BY <1>0, <1>4 DEF BInv, TypeOK
  <2> QED BY <1>0, <1>3, <2>1 DEF BInv, TypeOK
<1>9. Living' /\ RunningRuns' /\ Stamped'
  BY <1>0, <1>3 DEF BInv, TypeOK, Living, RunningRuns, Stamped
<1>10. HolderGranted' BY <1>3, <1>4, <1>5, <1>7 DEF BInv, HolderGranted, SlotsVanish, Before
<1>11. ASSUME NEW k \in Job \ Acquires, NEW s \in SlotOf(k)
       PROVE  s \in SlotOf(k)' /\ slot'[s] = slot[s]
  <2>1. s \notin SlotsOf(l) BY <1>2 DEF SlotOf
  <2> QED BY <1>0, <2>1 DEF SlotOf
<1>12. Owns' BY <1>3, <1>11 DEF BInv, Owns
<1>13. Recorded'
  <2> SUFFICES ASSUME NEW k \in Job, pc'[k] = "running" \/ (pc'[k] = "dead" /\ k \in command')
               PROVE  \E s \in SlotOf(k)' : slot'[s].child
    BY DEF Recorded
  <2>1. k \notin Acquires /\ \E s \in SlotOf(k) : slot[s].child
    BY <1>0, <1>3 DEF BInv, Recorded, RunningRuns
  <2> QED BY <1>11, <2>1
<1>14. VerdictsHold'
  <2> SUFFICES ASSUME NEW k \in Job, pc'[k] = "detach"
               PROVE  (scan[k] \in Slot /\ StillAbandoned(judged[k]))'
    BY DEF VerdictsHold
  <2>1. scan[k] \in Slot /\ StillAbandoned(judged[k]) BY <1>3 DEF BInv, VerdictsHold
  <2>2. \A i \in Acquires : pc[i] \notin Before => pc'[i] \notin Before /\ i \in Job
    BY <1>3, BuildSlotAssumption DEF Before
  <2>3. \A i \in Job : \A s \in SlotOf(i)' : s \in SlotOf(i) /\ slot'[s] = slot[s]
    BY <1>4, <1>5, BuildSlotAssumption DEF SlotOf, SlotsVanish
  <2> QED BY <1>0, <2>1, <2>2, <2>3 DEF StillAbandoned, Slot
<1> QED BY <1>6, <1>8, <1>9, <1>10, <1>12, <1>13, <1>14 DEF BInv

\* A host dies, a lease is over, memory and the stagger move, or nothing.
LEMMA QuietStep ==
  ASSUME BInv,
         \/ \E l \in Lane : HostDies(l)
         \/ \E j \in Job : Lapse(j)
         \/ \E m \in Memory : MemoryMoves(m[1], m[2])
         \/ StaggerEnds
         \/ UNCHANGED vars
  PROVE  BInv'
<1>0. UNCHANGED <<up, at, pc, scan, judged, queue, stamp, slot, command, faults>>
  BY DEF HostDies, Lapse, MemoryMoves, StaggerEnds, vars, entries, host, local
<1>1. TypeOK'
  <2>1. hosts' \subseteq hosts /\ silent' \subseteq queue /\ stagger' \in BOOLEAN
    BY DEF HostDies, Lapse, MemoryMoves, StaggerEnds, vars, entries, host, local, BInv, TypeOK
  <2>2. <<free', limit'>> \in Memory
    <3>1. CASE \E m \in Memory : MemoryMoves(m[1], m[2])
      <4>1. PICK m \in Memory : MemoryMoves(m[1], m[2]) BY <3>1
      <4> QED BY <4>1, MemoryPair DEF MemoryMoves
    <3>2. CASE ~\E m \in Memory : MemoryMoves(m[1], m[2])
      <4>1. free' = free /\ limit' = limit
        BY <3>2 DEF HostDies, Lapse, StaggerEnds, vars, host
      <4> QED BY <4>1 DEF BInv, TypeOK
    <3> QED BY <3>1, <3>2
  <2> QED BY <1>0, <2>1, <2>2 DEF BInv, TypeOK
<1>2. hosts' \subseteq hosts
  BY DEF HostDies, Lapse, MemoryMoves, StaggerEnds, vars
<1>3. LanesApart' BY <1>0, SlotsSame
<1>4. Living' /\ HolderGranted' /\ RunningRuns' /\ Stamped'
  BY <1>0 DEF BInv, Living, HolderGranted, RunningRuns, Stamped
<1>5. Owns' /\ Recorded' BY <1>0 DEF BInv, Owns, Recorded, SlotOf
<1>6. VerdictsHold' BY <1>0, <1>2 DEF BInv, VerdictsHold, StillAbandoned, SlotOf, Slot
<1> QED BY <1>1, <1>3, <1>4, <1>5, <1>6 DEF BInv

-----------------------------------------------------------------------------
(* The theorems. *)

\* The invariant is inductive.
LEMMA SlotStep ==
  ASSUME BInv, NotLate, [Next]_vars
  PROVE  BInv'
<1>1. ASSUME NEW j \in Job, Start(j) \/ Look(j) \/ Refuse(j) \/ BackfillPaused(j)
      PROVE  BInv'
  BY <1>1, StartStep
<1>2. ASSUME NEW j \in Job, Enqueue(j) \/ Beat(j) \/ CleanQueue(j) \/ GiveUp(j)
      PROVE  BInv'
  BY <1>2, EntryStep
<1>3. ASSUME NEW j \in Job, Judge(j) PROVE BInv' BY <1>3, JudgeStep
<1>4. ASSUME NEW j \in Job, Detach(j) PROVE BInv' BY <1>4, DetachStep
<1>5. ASSUME NEW j \in Job, Grant(j) PROVE BInv' BY <1>5, GrantStep
<1>6. ASSUME NEW j \in Job, GrantFails(j) \/ DiesGranting(j) PROVE BInv' BY <1>6, BareStep
<1>7. ASSUME NEW j \in Job, Settle(j) \/ SpawnFails(j) \/ RecordFails(j) \/ Finish(j) PROVE BInv'
  BY <1>7, RunStep
<1>8. ASSUME NEW j \in Job, Spawn(j) PROVE BInv' BY <1>8, SpawnStep
<1>9. ASSUME NEW j \in Job, Record(j) PROVE BInv' BY <1>9, RecordStep
<1>10. ASSUME NEW j \in Job, Release(j) PROVE BInv' BY <1>10, ReleaseStep
<1>11. ASSUME NEW j \in Job, Leave(j) \/ Crash(j) PROVE BInv' BY <1>11, EndStep
<1>12. ASSUME NEW j \in Job, CommandEnds(j) PROVE BInv' BY <1>12, CommandEndsStep
<1>13. ASSUME \/ \E s \in Slot : Time(s)
              \/ \E l \in Lane : HostBeat(l)
       PROVE  BInv'
  BY <1>13, InfoStep
<1>14. ASSUME NEW l \in Lane, HostRelease(l) PROVE BInv' BY <1>14, HostReleaseStep
<1>15. ASSUME \/ \E l \in Lane : HostDies(l)
              \/ \E j \in Job : Lapse(j)
              \/ \E m \in Memory : MemoryMoves(m[1], m[2])
              \/ StaggerEnds
              \/ UNCHANGED vars
       PROVE  BInv'
  BY <1>15, QuietStep
<1>16. ASSUME NEW j \in Job, JobStep(j) PROVE BInv'
  BY <1>1, <1>2, <1>3, <1>4, <1>5, <1>7, <1>8, <1>9, <1>10, <1>11, <1>16 DEF JobStep
<1> QED
  BY <1>1, <1>2, <1>6, <1>7, <1>11, <1>12, <1>13, <1>14, <1>15, <1>16 DEF Next

\* A command, recorded or not, has its slot.
LEMMA CommandsOwn == BInv => CommandHasSlot
BY DEF BInv, CommandHasSlot, RunningRuns, Owns, Recorded, TypeOK

LEMMA LanesCounted == BInv => OneSlotPerLane
<1> SUFFICES ASSUME BInv, NEW l \in Lane PROVE Cardinality(SlotsOf(l)) <= 1
  BY DEF OneSlotPerLane
<1>1. CASE SlotsOf(l) = {}
  <2>1. Cardinality(SlotsOf(l)) = 0 BY <1>1, FS_EmptySet
  <2> QED BY <2>1
<1>2. CASE SlotsOf(l) # {}
  <2>1. PICK s : s \in SlotsOf(l) BY <1>2
  <2>2. SlotsOf(l) = {s} BY <2>1 DEF SlotsOf, BInv, LanesApart
  <2>3. Cardinality(SlotsOf(l)) = 1 BY <2>2, FS_Singleton
  <2> QED BY <2>3
<1> QED BY <1>1, <1>2

\* The invariant holds in every state.
LEMMA SlotInvariant == NotLate => (Spec => []BInv)
<1> SUFFICES ASSUME NotLate PROVE Spec => []BInv OBVIOUS
<1>1. Init => BInv BY SlotInit
<1>2. BInv /\ [Next]_vars => BInv' BY SlotStep
<1> QED BY <1>1, <1>2, PTL DEF Spec

\* Types, and what TypeOK says of slots and leases (_write_slot_info, clean_queue).
THEOREM SlotTypes == NotLate => (Spec => []TypeOK)
<1> SUFFICES ASSUME NotLate PROVE Spec => []TypeOK OBVIOUS
<1>1. BInv => TypeOK BY DEF BInv
<1> QED BY <1>1, SlotInvariant, PTL

\* A lane never holds two slots, although `acquire' looks at that without the guard:
\* the admission under the guard leaves out the entries of lanes that hold one.
THEOREM LanesExclude == NotLate => (Spec => []OneSlotPerLane)
<1> SUFFICES ASSUME NotLate PROVE Spec => []OneSlotPerLane OBVIOUS
<1> QED BY LanesCounted, SlotInvariant, PTL

\* check_stale_and_reclaim takes no slot from under a running command, even one
\* whose wrapper has died, when the command was recorded.
THEOREM CommandsKeepSlots == NotLate => (Spec => []CommandHasSlot)
<1> SUFFICES ASSUME NotLate PROVE Spec => []CommandHasSlot OBVIOUS
<1> QED BY CommandsOwn, SlotInvariant, PTL

-----------------------------------------------------------------------------
(* What a step may do. *)

\* The body of ReclaimsAbandoned.
FreedRightly(s) ==
  slot[s].state # "absent" /\ slot'[s].state = "absent" =>
    \/ Abandoned(slot[s])
    \/ slot[s].job \in up /\ pc[slot[s].job] = "release"
    \/ \E l \in Lane : s \in SlotsOf(l) /\ Holding(l) # {} /\ Holding(l)' = {}

LEMMA SlotFreed ==
  ASSUME BInv, [Next]_vars, NEW s \in Slot
  PROVE  FreedRightly(s)
<1> SUFFICES ASSUME slot[s].state # "absent", slot'[s].state = "absent"
             PROVE  \/ Abandoned(slot[s])
                    \/ slot[s].job \in up /\ pc[slot[s].job] = "release"
                    \/ \E l \in Lane : s \in SlotsOf(l) /\ Holding(l) # {} /\ Holding(l)' = {}
  BY DEF FreedRightly
<1>1. slot' # slot OBVIOUS
<1>2. ASSUME NEW j \in Job, Detach(j) PROVE Abandoned(slot[s])
  <2>1. pc[j] = "detach" /\ SameInfo(judged[j], slot[scan[j]]) /\ slot' = [slot EXCEPT ![scan[j]] = Absent]
    BY <1>1, <1>2 DEF Detach, host
  <2>2. scan[j] = s BY <2>1 DEF BInv, TypeOK
  <2> QED BY <2>1, <2>2, VerdictStands DEF BInv
<1>3. ASSUME NEW j \in Job, Release(j) PROVE slot[s].job \in up /\ pc[slot[s].job] = "release"
  <2>1. s \in SlotOf(j) /\ j \in up /\ pc[j] = "release" BY <1>1, <1>3 DEF Release
  <2> QED BY <2>1 DEF SlotOf
<1>4. ASSUME NEW l \in Lane, HostRelease(l)
      PROVE  s \in SlotsOf(l) /\ Holding(l) # {} /\ Holding(l)' = {}
  <2>1. s \in SlotsOf(l) /\ Holding(l) # {} BY <1>1, <1>4 DEF HostRelease
  <2>2. Holding(l)' = {} BY <1>4, BuildSlotAssumption DEF HostRelease, Holding
  <2> QED BY <2>1, <2>2
<1>5. ASSUME NEW j \in Job, Grant(j) \/ GrantFails(j) \/ DiesGranting(j) PROVE FALSE
  <2>1. /\ MayGrant(j)
        /\ \E info \in {Bare, Held(j)} : slot' = [slot EXCEPT ![FirstFree] = info]
    BY <1>5 DEF Grant, GrantFails, DiesGranting
  <2>2. PICK info \in {Bare, Held(j)} : slot' = [slot EXCEPT ![FirstFree] = info] BY <2>1
  <2>3. slot'[FirstFree] = info /\ (s # FirstFree => slot'[s] = slot[s]) BY <2>1, <2>2, NewSlot
  <2>4. info.state # "absent" BY DEF Bare, Held, Absent
  <2> QED BY <2>3, <2>4
<1>6. ASSUME NEW j \in Job, Record(j) PROVE FALSE
  <2>1. slot'[s] = slot[s] \/ slot'[s] = [slot[s] EXCEPT !.child = TRUE] BY <1>6 DEF Record
  <2>2. slot[s] \in SlotInfo BY DEF BInv, TypeOK
  <2> QED BY <2>1, <2>2 DEF SlotInfo
<1>7. ASSUME \/ \E t \in Slot : Time(t)
             \/ \E l \in Lane : HostBeat(l)
      PROVE  FALSE
  <2>1. PICK t \in Slot, info \in SlotInfo : Rewritten(t, info) BY <1>7, Rewrites
  <2> QED BY <2>1 DEF Rewritten, BInv, TypeOK
<1>8. ASSUME NEW j \in Job,
             \/ Start(j) \/ Enqueue(j) \/ Beat(j) \/ Judge(j) \/ CleanQueue(j) \/ Look(j) \/ Refuse(j)
             \/ Settle(j) \/ Spawn(j) \/ Finish(j) \/ Leave(j)
      PROVE  FALSE
  BY <1>1, <1>8 DEF Start, Enqueue, Beat, Judge, CleanQueue, Look, Refuse, Settle, Spawn, Finish, Leave
<1>9. ASSUME NEW j \in Job,
             \/ GiveUp(j) \/ BackfillPaused(j) \/ SpawnFails(j) \/ RecordFails(j)
             \/ Crash(j) \/ CommandEnds(j) \/ Lapse(j)
      PROVE  FALSE
  BY <1>1, <1>9 DEF GiveUp, BackfillPaused, SpawnFails, RecordFails, Crash, CommandEnds, Lapse
<1>10. ASSUME \/ \E l \in Lane : HostDies(l)
              \/ \E m \in Memory : MemoryMoves(m[1], m[2])
              \/ StaggerEnds
              \/ UNCHANGED vars
       PROVE  FALSE
  BY <1>1, <1>10 DEF HostDies, MemoryMoves, StaggerEnds, vars
<1>11. ASSUME NEW j \in Job, JobStep(j)
       PROVE  \/ Abandoned(slot[s])
              \/ slot[s].job \in up /\ pc[slot[s].job] = "release"
  BY <1>2, <1>3, <1>5, <1>6, <1>8, <1>11 DEF JobStep
<1> QED BY <1>4, <1>5, <1>7, <1>8, <1>9, <1>10, <1>11 DEF Next

\* A heavy job that joins the others was granted its slot under the cap of that
\* moment, however the cap moves: an admission counts the heavy jobs and the
\* directories without an info file, and no other step adds to them.
LEMMA HeavyJoins ==
  ASSUME BInv, [Next]_vars, HeavyHeld' \ HeavyHeld # {}
  PROVE  Cardinality(HeavyHeld') <= limit'
<1>1. PICK s \in Slot : /\ slot'[s].state = "held" /\ Class[slot'[s].job] = "heavy"
                        /\ ~(slot[s].state = "held" /\ Class[slot[s].job] = "heavy")
  BY DEF HeavyHeld
<1>2. slot' # slot BY <1>1
<1>3. ASSUME SlotsVanish PROVE FALSE
  BY <1>1, <1>3 DEF SlotsVanish, Absent
<1>4. ASSUME NEW j \in Job, Detach(j) \/ Release(j) PROVE FALSE
  <2>1. SlotsVanish BY <1>4 DEF SlotsVanish, Detach, Release, BInv, TypeOK
  <2> QED BY <1>3, <2>1
<1>5. ASSUME NEW l \in Lane, HostRelease(l) PROVE FALSE
  <2>1. SlotsVanish BY <1>5 DEF SlotsVanish, HostRelease
  <2> QED BY <1>3, <2>1
<1>6. ASSUME NEW j \in Job, Record(j) PROVE FALSE
  <2>1. slot'[s] = slot[s] \/ slot'[s] = [slot[s] EXCEPT !.child = TRUE] BY <1>6 DEF Record
  <2>2. slot[s] \in SlotInfo BY DEF BInv, TypeOK
  <2> QED BY <1>1, <2>1, <2>2 DEF SlotInfo
<1>7. ASSUME \/ \E t \in Slot : Time(t)
             \/ \E l \in Lane : HostBeat(l)
      PROVE  FALSE
  <2>1. PICK t \in Slot, info \in SlotInfo : Rewritten(t, info) BY <1>7, Rewrites
  <2> QED BY <1>1, <2>1 DEF Rewritten, BInv, TypeOK
<1>8. ASSUME NEW j \in Job, GrantFails(j) \/ DiesGranting(j) PROVE FALSE
  <2>1. MayGrant(j) /\ slot' = [slot EXCEPT ![FirstFree] = Bare]
    BY <1>8 DEF GrantFails, DiesGranting
  <2>2. slot'[FirstFree] = Bare /\ (s # FirstFree => slot'[s] = slot[s]) BY <2>1, NewSlot
  <2> QED BY <1>1, <2>2 DEF Bare, Absent
<1>9. ASSUME NEW j \in Job, Grant(j) PROVE Cardinality(HeavyHeld') <= limit'
  <2>1. /\ MayGrant(j) /\ slot' = [slot EXCEPT ![FirstFree] = Held(j)] /\ limit' = limit
    BY <1>9 DEF Grant
  <2>2. Held(j).state = "held" /\ Held(j).job = j BY DEF Held, Absent
  <2>3. /\ slot'[FirstFree] = Held(j) /\ FirstFree \in Slot
        /\ \A t \in Slot : t # FirstFree => slot'[t] = slot[t]
    BY <2>1, NewSlot, Granting
  <2>4. Class[j] = "heavy" BY <1>1, <2>2, <2>3
  <2>5. HeavyOrBare \in SUBSET Slot /\ HeavyHeld \in SUBSET HeavyOrBare
    BY DEF HeavyOrBare, HeavyHeld
  <2>6. ~(Cardinality(HeavyOrBare) >= limit)
    BY <2>1, <2>4 DEF MayGrant, Admitted, HeldBack, Refused, HeavyJobs, HeavyOrBare
  <2>7. HeavyHeld' = HeavyHeld \cup {FirstFree} BY <2>2, <2>3, <2>4 DEF HeavyHeld
  <2>8. /\ IsFiniteSet(HeavyHeld) /\ Cardinality(HeavyHeld) \in Nat
        /\ Cardinality(HeavyOrBare) \in Nat /\ IsFiniteSet(HeavyOrBare)
    BY <2>5, SlotsFinite
  <2>9. Cardinality(HeavyHeld) <= Cardinality(HeavyOrBare) BY <2>5, <2>8, FS_Subset
  <2>10. Cardinality(HeavyHeld') <= Cardinality(HeavyHeld) + 1
    <3>1. Cardinality(HeavyHeld \cup {FirstFree})
            = IF FirstFree \in HeavyHeld THEN Cardinality(HeavyHeld) ELSE Cardinality(HeavyHeld) + 1
      BY <2>8, FS_AddElement, Zenon
    <3> QED BY <2>7, <2>8, <3>1
  <2>11. Cardinality(HeavyHeld') \in Nat
    <3>1. HeavyHeld' \in SUBSET Slot BY DEF HeavyHeld
    <3> QED BY <3>1, SlotsFinite
  <2>12. limit \in Nat BY BuildSlotAssumption DEF BInv, TypeOK, HeavyLimits
  <2> QED BY <2>1, <2>6, <2>8, <2>9, <2>10, <2>11, <2>12
<1>10. ASSUME NEW j \in Job,
              \/ Start(j) \/ Enqueue(j) \/ Beat(j) \/ Judge(j) \/ CleanQueue(j) \/ Look(j)
              \/ Refuse(j) \/ Settle(j) \/ Spawn(j) \/ Finish(j) \/ Leave(j)
       PROVE  FALSE
  BY <1>2, <1>10 DEF Start, Enqueue, Beat, Judge, CleanQueue, Look, Refuse, Settle, Spawn, Finish, Leave
<1>11. ASSUME NEW j \in Job,
              \/ GiveUp(j) \/ BackfillPaused(j) \/ SpawnFails(j) \/ RecordFails(j)
              \/ Crash(j) \/ CommandEnds(j) \/ Lapse(j)
       PROVE  FALSE
  BY <1>2, <1>11 DEF GiveUp, BackfillPaused, SpawnFails, RecordFails, Crash, CommandEnds, Lapse
<1>12. ASSUME \/ \E l \in Lane : HostDies(l)
              \/ \E m \in Memory : MemoryMoves(m[1], m[2])
              \/ StaggerEnds
              \/ UNCHANGED vars
       PROVE  FALSE
  BY <1>2, <1>12 DEF HostDies, MemoryMoves, StaggerEnds, vars
<1>13. ASSUME NEW j \in Job, JobStep(j) PROVE Cardinality(HeavyHeld') <= limit'
  BY <1>4, <1>6, <1>9, <1>10, <1>13 DEF JobStep
<1> QED BY <1>5, <1>7, <1>8, <1>10, <1>11, <1>12, <1>13 DEF Next

\* Only a grant takes a job from its admission to its slot.
LEMMA OnlyGrants ==
  ASSUME BInv, [Next]_vars, NEW j \in Job, pc[j] = "admit", pc'[j] = "granted"
  PROVE  Grant(j)
<1>1. ASSUME NEW i \in Job, i # j, NEW step, Goto(i, step) PROVE FALSE
  BY <1>1 DEF Goto, BInv, TypeOK
<1>2. ASSUME NEW step, Goto(j, step) PROVE step = "granted"
  BY <1>2 DEF Goto, BInv, TypeOK
<1>3. ASSUME pc' = pc PROVE FALSE BY <1>3
<1>4. ASSUME NEW i \in Job, Start(i) \/ Enqueue(i) \/ Beat(i) \/ CleanQueue(i) \/ Refuse(i) PROVE FALSE
  BY <1>1, <1>2, <1>4 DEF Start, Enqueue, Beat, CleanQueue, Refuse
<1>5. ASSUME NEW i \in Job, Judge(i) \/ Detach(i) PROVE FALSE
  BY <1>1, <1>2, <1>5 DEF Judge, Detach
<1>6. ASSUME NEW i \in Job, Look(i) PROVE FALSE
  <2>1. i # j BY <1>6 DEF Look
  <2> QED BY <1>1, <1>6, <2>1 DEF Look
<1>7. ASSUME NEW i \in Job, Grant(i) PROVE Grant(j)
  <2>1. i = j BY <1>1, <1>7 DEF Grant
  <2> QED BY <1>7, <2>1
<1>8. ASSUME NEW i \in Job,
             Settle(i) \/ Spawn(i) \/ Record(i) \/ Finish(i) \/ Release(i) \/ Leave(i)
      PROVE  FALSE
  <2>1. i # j BY <1>8 DEF Settle, Spawn, Record, Finish, Release, Leave
  <2> QED BY <1>1, <1>8, <2>1 DEF Settle, Spawn, Record, Finish, Release, Leave
<1>9. ASSUME NEW i \in Job,
             GiveUp(i) \/ GrantFails(i) \/ BackfillPaused(i) \/ SpawnFails(i) \/ RecordFails(i)
      PROVE  FALSE
  BY <1>1, <1>2, <1>9 DEF GiveUp, GrantFails, BackfillPaused, SpawnFails, RecordFails
<1>10. ASSUME NEW i \in Job, DiesGranting(i) \/ Crash(i) PROVE FALSE
  <2>1. \E step \in {"dead", "lost"} : Goto(i, step) BY <1>10 DEF DiesGranting, Crash, Die
  <2> QED BY <1>1, <1>2, <2>1
<1>11. ASSUME NEW l \in Lane, HostRelease(l) PROVE FALSE
  BY <1>11 DEF HostRelease
<1>12. ASSUME NEW i \in Job, CommandEnds(i) \/ Lapse(i) PROVE FALSE
  BY <1>3, <1>12 DEF CommandEnds, Lapse, local
<1>13. ASSUME \/ \E l \in Lane : HostBeat(l) \/ HostDies(l)
              \/ \E s \in Slot : Time(s)
              \/ \E m \in Memory : MemoryMoves(m[1], m[2])
              \/ StaggerEnds
              \/ UNCHANGED vars
       PROVE  FALSE
  BY <1>3, <1>13 DEF HostBeat, HostDies, Time, Age, FallsQuiet, MemoryMoves, StaggerEnds, vars, local
<1>14. ASSUME NEW i \in Job, JobStep(i) PROVE Grant(j)
  BY <1>4, <1>5, <1>6, <1>7, <1>8, <1>14 DEF JobStep
<1> QED BY <1>4, <1>9, <1>10, <1>11, <1>12, <1>13, <1>14 DEF Next

\* An admission passes over those that could not have had the slot, and those that
\* are no smaller than a blocked head.
LEMMA PassesNobody ==
  ASSUME BInv, NEW j \in Job, NEW k \in Job, Admitted(j),
         k # j, k \in Runnable, at[k] < at[j], ~stagger
  PROVE  \/ Refused(k)
         \/ \E head \in Runnable : IsHead(head) /\ head # k /\ Need[head] <= Need[k]
<1> SUFFICES ASSUME ~Refused(k)
             PROVE  \E head \in Runnable : IsHead(head) /\ head # k /\ Need[head] <= Need[k]
  OBVIOUS
<1>1. PICK head \in Runnable :
        /\ IsHead(head)
        /\ j # head => /\ Refused(head)
                       /\ \A i \in Runnable \ {head} :
                            stamp[i] < stamp[j] /\ Need[i] < Need[head] => HeldBack(i)
  BY DEF Admitted
<1>2. \A i \in Runnable : stamp[i] = at[i] /\ at[i] \in Nat /\ i \in Job
  BY BuildSlotAssumption DEF BInv, TypeOK, Stamped, Runnable
<1>3. j \in Runnable BY DEF Admitted
<1>4. j # head BY <1>1, <1>2, <1>3 DEF IsHead
<1>5. k # head BY <1>1, <1>4
<1>6. stamp[k] < stamp[j] BY <1>2, <1>3
<1>7. ~HeldBack(k) BY DEF HeldBack
<1>8. ~(Need[k] < Need[head]) BY <1>1, <1>4, <1>5, <1>6, <1>7
<1>9. Need[k] \in Nat /\ Need[head] \in Nat BY <1>2, BuildSlotAssumption
<1> QED BY <1>1, <1>5, <1>8, <1>9

\* A slot is freed by its job, by its lane, or when it is abandoned at that moment,
\* however long ago it was judged (_detach_stale_slot).
THEOREM OnlyAbandonedReclaimed == NotLate => (Spec => ReclaimsAbandoned)
<1> SUFFICES ASSUME NotLate PROVE Spec => ReclaimsAbandoned OBVIOUS
<1>1. BInv /\ [Next]_vars => \A s \in Slot : FreedRightly(s) BY SlotFreed
<1>2. [][\A s \in Slot : FreedRightly(s)]_vars <=> ReclaimsAbandoned
  BY PTL DEF ReclaimsAbandoned, FreedRightly
<1> QED BY <1>1, <1>2, SlotInvariant, PTL DEF Spec

\* No heavy job joins those that hold slots beyond the cap that _heavy_limit gives at
\* that moment, whatever fails, whoever dies while slots are granted, and however
\* the cap has moved since the others were granted theirs (_resource_refusal).
THEOREM HeavyCapped == NotLate => (Spec => HeavyCap)
<1> SUFFICES ASSUME NotLate PROVE Spec => HeavyCap OBVIOUS
<1>1. BInv /\ [Next]_vars => (HeavyHeld' \ HeavyHeld # {} => Cardinality(HeavyHeld') <= limit')
  BY HeavyJoins
<1> QED BY <1>1, SlotInvariant, PTL DEF Spec, HeavyCap

\* Who is granted a slot passes over no earlier waiter that could have had it and is
\* smaller than a blocked head, although entries are dropped and
\* put back (_queue_admission, enqueue).
THEOREM NobodyOvertaken == NotLate => (Spec => NoOvertaking)
<1> SUFFICES ASSUME NotLate PROVE Spec => NoOvertaking OBVIOUS
<1> DEFINE Fair ==
      \A j, k \in Job :
        pc[j] = "admit" /\ pc'[j] = "granted" /\ k # j /\ k \in Runnable /\ at[k] < at[j]
          => \/ Refused(k) \/ stagger
             \/ \E head \in Runnable : IsHead(head) /\ head # k /\ Need[head] <= Need[k]
<1>1. BInv /\ [Next]_vars => Fair
  <2> SUFFICES ASSUME BInv, [Next]_vars, NEW j \in Job, NEW k \in Job,
                      pc[j] = "admit", pc'[j] = "granted", k # j, k \in Runnable, at[k] < at[j],
                      ~stagger
               PROVE  \/ Refused(k)
                      \/ \E head \in Runnable : IsHead(head) /\ head # k /\ Need[head] <= Need[k]
    OBVIOUS
  <2>1. Admitted(j) BY OnlyGrants DEF Grant, MayGrant
  <2> QED BY <2>1, PassesNobody
<1> QED BY <1>1, SlotInvariant, PTL DEF Spec, NoOvertaking
=============================================================================
