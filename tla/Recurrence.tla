------------------------------ MODULE Recurrence ------------------------------
(***************************************************************************)
(* The recurrence guard (recurrence_guard.py): the durable memory of one   *)
(* failure signature, its gate on unchanged retries, and the projection of *)
(* each observation into the request ledger.                               *)
(*                                                                         *)
(* Every process that meets a failure (a worker, a driver, a CI hook, an   *)
(* operator) is a caller.  The store and the ledger are two files with two *)
(* locks, and observe() takes the store's lock twice: each critical        *)
(* section is one action here, and a caller may crash between any two.     *)
(*                                                                         *)
(* Abstracted: one signature and one request; the error text and the       *)
(* redaction; git, which is the relation Descends; the evidence a          *)
(* correction cites, which is whether it proves the change; the delivery   *)
(* of escalations to the notifier.                                         *)
(***************************************************************************)
EXTENDS Integers, FiniteSets, FiniteSetsExt

CONSTANTS Caller,            \* processes that use the guard at the same time
          Event,             \* failures that happen: observation ids
          Control,           \* the events that are intended failures
          Requested,         \* the events that carry the request's id
          Quiet,             \* the events whose caller wants no ledger write
          Head,              \* commits
          NoHead,            \* a failure may be recorded without one
          HeadOf,            \* the commit an event was observed on
          Descends,          \* <<a, b>>: b is built on top of a
          Cited,             \* corrections offered: <<head, is the change proven>>
          SameEventTogether, \* may two callers ingest one event at a time?
          MaxSeq,            \* bound: acts recorded in the store
          MaxFaults          \* bound: crashes and refused ledger writes

ASSUME RecurrenceAssumption ==
  /\ Event # {} /\ Control \subseteq Event /\ Requested \subseteq Event
  /\ Quiet \subseteq Event
  /\ NoHead \notin Head /\ HeadOf \in [Event -> Head \cup {NoHead}]
  /\ Descends \subseteq Head \X Head
  /\ \A h \in Head : <<h, h>> \notin Descends
  /\ Cited \subseteq Head \X BOOLEAN
  /\ SameEventTogether \in BOOLEAN
  /\ MaxSeq \in Nat /\ MaxFaults \in Nat

VARIABLES obs,       \* observations of the signature
          fixes,     \* corrective actions
          resolved,  \* seq of the last resolution, 0 before the first
          escs,      \* seqs at which the failure was escalated
          seq,       \* last sequence number given out
          call,      \* what each caller is doing
          rows,      \* evidence rows in the ledger, per event
          work,      \* the corrective work item, as the projections left it
          faults     \* crashes and refused writes so far

store == <<obs, fixes, resolved, escs, seq>>
recurrence == <<store, call, rows, work, faults>>

Projection == {"pending", "applied", "failed", "suppressed", "not_applicable"}
Outstanding == {"pending", "failed"}

Observation == [id : Event, seq : 1..MaxSeq, counted : BOOLEAN, proj : Projection]
Fix == [seq : 1..MaxSeq, head : Head, bound : BOOLEAN]

\* A call under way: the event, and what its first steps read for the later ones.
Call == [at : {"idle", "checked", "owed", "writing", "marking"}, event : Event,
         asked : BOOLEAN, closed : BOOLEAN, had : BOOLEAN, landed : BOOLEAN]

-----------------------------------------------------------------------------
(* What is derived from the history on every load: _derive. *)

CountedIn(O) == {o \in O : o.counted}
LastCounted(O) == Max({o.seq : o \in CountedIn(O)} \cup {0})
Bound(F) == {f \in F : f.bound}
LastFix(F) == Max({f.seq : f \in Bound(F)} \cup {0})

Corrected(O, F, r) == LastFix(F) > LastCounted(O) \/ r > LastCounted(O)

\* retry_blocked: the second distinct occurrence closes the gate.
ClosedGate(O, F, r) == Cardinality(CountedIn(O)) >= 2 /\ ~Corrected(O, F, r)
Closed == ClosedGate(obs, fixes, resolved)

Escalated(O, F, r) == Cardinality(CountedIn(O)) >= 3 /\ ~Corrected(O, F, r)

\* Mutant of EpochStart: a failure is escalated once and for all.
EpochNeverEnds(F, r) == 0
\* Mutant of EpochStart: an unproven correction ends the epoch too.
EpochOfAnyFix(F, r) == Max({f.seq : f \in F} \cup {r})

\* A proven correction or a resolution ends the epoch of an escalation.
EpochStart(F, r) == Max({LastFix(F), r})
NeedsEscalation(E, F, r) == \A e \in E : e <= EpochStart(F, r)

Known(e) == \E o \in obs : o.id = e
\* next(...): the first observation recorded under an id.
First(e) == CHOOSE o \in obs : o.id = e /\ \A p \in obs : p.id = e => o.seq <= p.seq

-----------------------------------------------------------------------------
NoEvent == CHOOSE e \in Event : TRUE
Idle == [at |-> "idle", event |-> NoEvent, asked |-> FALSE, closed |-> FALSE,
         had |-> FALSE, landed |-> FALSE]
Start(e, at) == [Idle EXCEPT !.at = at, !.event = e]

RecInit ==
  /\ obs = {} /\ fixes = {} /\ resolved = 0 /\ escs = {} /\ seq = 0
  /\ call = [c \in Caller |-> Idle]
  /\ rows = [e \in Event |-> 0]
  /\ work = "none"
  /\ faults = 0

\* Nobody else is at the same event, unless that is what a run looks at.  (The
\* per-run lock of a native attempt sees to it for workers.)
MayStart(c, e) ==
  /\ call[c].at = "idle"
  /\ SameEventTogether \/ \A d \in Caller : call[d].at # "idle" => call[d].event # e

Finished(c) == call' = [call EXCEPT ![c] = Idle]

\* observe(), first critical section: the event is new.
CheckNew(c, e) ==
  /\ MayStart(c, e) /\ ~Known(e) /\ seq < MaxSeq
  /\ call' = [call EXCEPT ![c] = Start(e, "checked")]
  /\ UNCHANGED <<store, rows, work, faults>>

\* Why an event known already is projected again: its caller knows more about it, a
\* resync makes up for it, a resync is told to include the suppressed ones.
Reason == {"refined", "owed", "included"}

\* What a replay or a resync still has to project.
Owes(e, why) ==
  /\ Known(e) /\ e \in Requested
  /\ \/ why = "refined" \/ First(e).proj \in Outstanding
     \/ why = "included" /\ First(e).proj = "suppressed"

\* observe() of a known event, or resync_ledger: nothing is recorded, an
\* outstanding projection is made up for, from the entry as it is read now.
Replay(c, e, why) ==
  /\ MayStart(c, e) /\ Owes(e, why)
  /\ call' = [call EXCEPT ![c] = [Start(e, "owed") EXCEPT
                 !.asked = why = "included" /\ First(e).proj = "suppressed",
                 !.closed = Closed]]
  /\ UNCHANGED <<store, rows, work, faults>>

\* _initial_projection
InitialProjection(e) ==
  IF e \notin Requested THEN "not_applicable" ELSE IF e \in Quiet THEN "suppressed" ELSE "pending"

\* observe(), second critical section: the event is recorded, and escalated when
\* it is the third or later and the epoch has none.
Record(c) ==
  LET e == call[c].event
      after == obs \cup {[id |-> e, seq |-> seq + 1, counted |-> e \notin Control,
                          proj |-> InitialProjection(e)]}
  IN
  /\ call[c].at = "checked" /\ seq < MaxSeq
  /\ seq' = seq + 1 /\ obs' = after
  /\ escs' = IF Escalated(after, fixes, resolved) /\ NeedsEscalation(escs, fixes, resolved)
             THEN escs \cup {seq + 1} ELSE escs
  /\ IF InitialProjection(e) # "pending"
     THEN Finished(c)
     ELSE call' = [call EXCEPT ![c].at = "owed",
                               ![c].closed = ClosedGate(after, fixes, resolved)]
  /\ UNCHANGED <<fixes, resolved, rows, work, faults>>

\* _apply_ledger_projection: is the row there already?  If the gate was closed
\* when the entry was read, see that the work item is.
ReadLedger(c) ==
  /\ call[c].at = "owed"
  /\ call' = [call EXCEPT ![c].at = "writing", ![c].had = rows[call[c].event] > 0]
  /\ work' = IF call[c].closed THEN "open" ELSE work
  /\ UNCHANGED <<store, rows, faults>>

\* _ensure_corrective_work_item comes back with nothing, and the projection goes on.
WorkItemRefused(c) ==
  /\ call[c].at = "owed" /\ call[c].closed /\ work # "open" /\ faults < MaxFaults
  /\ faults' = faults + 1
  /\ call' = [call EXCEPT ![c].at = "writing", ![c].had = rows[call[c].event] > 0]
  /\ work' = "refused"
  /\ UNCHANGED <<store, rows>>

\* update_request: one call to the ledger, under the ledger's lock.
WriteLedger(c) ==
  /\ call[c].at = "writing"
  /\ rows' = [rows EXCEPT ![call[c].event] = IF call[c].had THEN @ ELSE @ + 1]
  /\ call' = [call EXCEPT ![c].at = "marking", ![c].landed = TRUE]
  /\ UNCHANGED <<store, work, faults>>

\* The ledger cannot be read or refuses the write.
LedgerRefuses(c) ==
  /\ call[c].at \in {"owed", "writing"} /\ faults < MaxFaults
  /\ faults' = faults + 1
  /\ call' = [call EXCEPT ![c].at = "marking", ![c].landed = FALSE]
  /\ UNCHANGED <<store, rows, work>>

\* Mutant of Marked: a refused projection is taken for settled.
MarkedSettled(o, landed) == [o EXCEPT !.proj = "applied"]

Marked(o, landed) == [o EXCEPT !.proj = IF landed THEN "applied" ELSE "failed"]

\* _mark_ledger_projection: the outcome goes to the first observation of the id.
Mark(c) ==
  LET o == First(call[c].event) IN
  /\ call[c].at = "marking"
  /\ obs' = (obs \ {o}) \cup {Marked(o, call[c].landed)}
  /\ Finished(c)
  /\ UNCHANGED <<fixes, resolved, escs, seq, rows, work, faults>>

\* The process dies; what it wrote stays.
Crash(c) ==
  /\ call[c].at # "idle" /\ faults < MaxFaults
  /\ faults' = faults + 1
  /\ Finished(c)
  /\ UNCHANGED <<store, rows, work>>

-----------------------------------------------------------------------------
(* The operator's calls, one critical section each. *)

\* Mutant of Proven: the head is only asked to be a new one.
ProvenElsewhere(proof, h) == proof /\ \A o \in CountedIn(obs) : HeadOf[o.id] # h

\* _bind_evidence: the change is proven, on a head built on every failing one.
Proven(proof, h) ==
  proof /\ \A o \in CountedIn(obs) : HeadOf[o.id] # NoHead => <<HeadOf[o.id], h>> \in Descends

RecordCorrectiveAction(h, proof) ==
  /\ obs # {} /\ seq < MaxSeq
  /\ seq' = seq + 1
  /\ fixes' = fixes \cup {[seq |-> seq + 1, head |-> h, bound |-> Proven(proof, h)]}
  /\ UNCHANGED <<obs, resolved, escs, call, rows, work, faults>>

\* Mutant of Resolve: any proven correction will do.
ResolveOnOld ==
  /\ seq < MaxSeq /\ Bound(fixes) # {}
  /\ seq' = seq + 1 /\ resolved' = seq + 1
  /\ UNCHANGED <<obs, fixes, escs, call, rows, work, faults>>

\* A proven correction later than the last failure has to be there.
Resolve ==
  /\ seq < MaxSeq /\ \E f \in Bound(fixes) : f.seq > LastCounted(obs)
  /\ seq' = seq + 1 /\ resolved' = seq + 1
  /\ UNCHANGED <<obs, fixes, escs, call, rows, work, faults>>

SupersedeObservation(e) ==
  /\ Known(e) /\ First(e).counted /\ seq < MaxSeq
  /\ seq' = seq + 1
  /\ obs' = (obs \ {First(e)}) \cup {[First(e) EXCEPT !.counted = FALSE]}
  /\ UNCHANGED <<fixes, resolved, escs, call, rows, work, faults>>

-----------------------------------------------------------------------------
RecNext ==
  \/ \E c \in Caller :
       \/ Record(c) \/ ReadLedger(c) \/ WorkItemRefused(c) \/ WriteLedger(c)
       \/ LedgerRefuses(c) \/ Mark(c) \/ Crash(c)
       \/ \E e \in Event :
            \/ CheckNew(c, e)
            \/ \E why \in Reason : Replay(c, e, why)
  \/ \E cited \in Cited : RecordCorrectiveAction(cited[1], cited[2])
  \/ Resolve
  \/ \E e \in Event : SupersedeObservation(e)

RecSpec == RecInit /\ [][RecNext]_recurrence

-----------------------------------------------------------------------------
(* Properties. *)

\* Types of the store, of the calls under way and of the ledger's side.
RecTypeOK ==
  /\ obs \subseteq Observation /\ fixes \subseteq Fix
  /\ resolved \in 0..MaxSeq /\ escs \subseteq 1..MaxSeq /\ seq \in 0..MaxSeq
  /\ call \in [Caller -> Call]
  /\ rows \in [Event -> Nat] /\ work \in {"none", "refused", "open"} /\ faults \in 0..MaxFaults

\* One event is one observation, however many callers ingest it and however often:
\* replaying an event can never manufacture a recurrence.
EventCountedOnce == \A o, p \in obs : o.id = p.id => o = p

\* Where two failures count and a retry is allowed, some correction is proven on a
\* head built on every one of the failing heads, and is later than all of them:
\* neither a resolution nor a correction outlives a failure that came after it.
OpenGateIsProven ==
  Cardinality(CountedIn(obs)) >= 2 /\ ~Closed =>
    \E f \in fixes : /\ f.bound
                     /\ \A o \in CountedIn(obs) :
                          /\ o.seq < f.seq
                          /\ HeadOf[o.id] # NoHead => <<HeadOf[o.id], f.head>> \in Descends

\* Between two escalations of a failure there is a proven correction or a resolution
\* (a storm of restarts is one escalation).
OneEscalationPerEpoch ==
  \A d, e \in escs : d < e => \/ \E f \in fixes : f.bound /\ d < f.seq /\ f.seq < e
                              \/ d < resolved

\* A failure that stands escalated was escalated after its last proven correction:
\* one that came back in spite of a correction is news again.
EscalatedIsAnnounced ==
  Escalated(obs, fixes, resolved) =>
    \E e \in escs : e > resolved /\ \A f \in fixes : f.bound => e > f.seq

\* One failure is one evidence row of its request, whatever crashed on the way.
OneRowPerEvent == \A e \in Event : rows[e] <= 1

\* A failure of the request that has no row there is still owed one, so that a replay
\* or a resync makes up for it, or its caller wanted none.
OwedIsNotLost ==
  \A o \in obs : o.id \in Requested /\ rows[o.id] = 0 => o.proj \in Outstanding \cup {"suppressed"}

=============================================================================
