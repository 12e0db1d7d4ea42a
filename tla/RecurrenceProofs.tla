--------------------------- MODULE RecurrenceProofs ---------------------------
(***************************************************************************)
(* What the recurrence guard keeps true of its store, for any callers,     *)
(* events, commits and any number of acts: the history of one signature    *)
(* grows by numbered acts, and the gate and the escalations are read off   *)
(* the numbers.                                                            *)
(***************************************************************************)
EXTENDS Recurrence, FiniteSetTheorems, WellFoundedInduction, TLAPS

BuiltOn(o, f) == HeadOf[o.id] # NoHead => <<HeadOf[o.id], f.head>> \in Descends

\* Every act has a number given out already.
Numbered ==
  /\ IsFiniteSet(obs)
  /\ \A o \in obs : o.seq <= seq
  /\ \A f \in fixes : f.seq <= seq
  /\ \A e \in escs : e <= seq
  /\ resolved <= seq

\* A proven correction is built on the failing heads of all earlier failures, and a
\* resolution follows such a correction with no failure in between.
Grounded ==
  /\ \A f \in Bound(fixes), o \in CountedIn(obs) : o.seq < f.seq => BuiltOn(o, f)
  /\ resolved > 0 => \E f \in Bound(fixes) :
       f.seq < resolved /\ \A o \in CountedIn(obs) : o.seq < resolved => o.seq < f.seq

\* An escalation shares its number with no correction and no resolution.
Apart == \A d \in escs : d # resolved /\ \A f \in fixes : f.seq # d

History == Numbered /\ Grounded /\ Apart /\ OneEscalationPerEpoch /\ EscalatedIsAnnounced

\* A caller projects an event that is in the store, and a row it found or wrote is there.
Projecting ==
  \A c \in Caller :
    /\ call[c].at \in {"owed", "writing", "marking"} => Known(call[c].event)
    /\ call[c].at = "writing" /\ call[c].had => rows[call[c].event] >= 1
    /\ call[c].at = "marking" /\ call[c].landed => rows[call[c].event] >= 1

RInv == RecTypeOK /\ History /\ Projecting /\ OwedIsNotLost

-----------------------------------------------------------------------------
(* Operators. *)

LEMMA MaxOf ==
  ASSUME NEW S \in SUBSET (0..MaxSeq), S # {}
  PROVE  Max(S) \in S /\ \A y \in S : y <= Max(S)
<1> DEFINE T == {MaxSeq - x : x \in S}
<1>0. MaxSeq \in Nat BY RecurrenceAssumption
<1>a. \A x \in S : x \in 0..MaxSeq /\ MaxSeq - x \in Nat BY <1>0
<1>b. T \subseteq Nat BY <1>a
<1>1. T \subseteq Nat /\ T # {} BY <1>b
<1>2. PICK t \in T : \A u \in T : <<u, t>> \notin OpToRel(<, Nat)
  BY <1>1, WFMin, NatLessThanWellFounded, Zenon
<1>3. \A u \in T : ~(u < t) BY <1>1, <1>2 DEF OpToRel
<1>4. PICK x \in S : t = MaxSeq - x BY <1>2
<1>5. \A y \in S : MaxSeq - y \in T OBVIOUS
<1>6. \A y \in S : x >= y BY <1>0, <1>a, <1>1, <1>3, <1>4, <1>5
<1> HIDE DEF T
<1>7. Max(S) \in S /\ \A y \in S : Max(S) >= y BY <1>6, Zenon DEF Max
<1> QED BY <1>7

LEMMA LastCountedIs ==
  ASSUME NEW O \in SUBSET Observation
  PROVE  /\ LastCounted(O) \in 0..MaxSeq
         /\ \A o \in CountedIn(O) : o.seq <= LastCounted(O)
         /\ LastCounted(O) = 0 \/ \E o \in CountedIn(O) : o.seq = LastCounted(O)
<1> DEFINE S == {o.seq : o \in CountedIn(O)} \cup {0}
<1>1. S \in SUBSET (0..MaxSeq) /\ S # {} BY RecurrenceAssumption DEF CountedIn, Observation
<1>2. Max(S) \in S /\ \A y \in S : y <= Max(S) BY <1>1, MaxOf
<1>3. LastCounted(O) = Max(S) BY DEF LastCounted
<1> QED BY <1>1, <1>2, <1>3

LEMMA LastFixIs ==
  ASSUME NEW F \in SUBSET Fix
  PROVE  /\ LastFix(F) \in 0..MaxSeq
         /\ \A f \in Bound(F) : f.seq <= LastFix(F)
         /\ LastFix(F) = 0 \/ \E f \in Bound(F) : f.seq = LastFix(F)
<1> DEFINE S == {f.seq : f \in Bound(F)} \cup {0}
<1>1. S \in SUBSET (0..MaxSeq) /\ S # {} BY RecurrenceAssumption DEF Bound, Fix
<1>2. Max(S) \in S /\ \A y \in S : y <= Max(S) BY <1>1, MaxOf
<1>3. LastFix(F) = Max(S) BY DEF LastFix
<1> QED BY <1>1, <1>2, <1>3

LEMMA EpochIs ==
  ASSUME NEW F \in SUBSET Fix, NEW r \in 0..MaxSeq
  PROVE  /\ EpochStart(F, r) \in {LastFix(F), r}
         /\ LastFix(F) <= EpochStart(F, r) /\ r <= EpochStart(F, r)
<1>1. {LastFix(F), r} \in SUBSET (0..MaxSeq) BY LastFixIs
<1> QED BY <1>1, MaxOf DEF EpochStart

LEMMA FirstIs ==
  ASSUME obs \subseteq Observation, NEW e \in Event, Known(e)
  PROVE  First(e) \in obs /\ First(e).id = e
<1> DEFINE O == {o \in obs : o.id = e}
           T == {o.seq : o \in O}
<1>1. T \subseteq Nat /\ T # {} BY DEF Known, Observation
<1>2. PICK t \in T : \A u \in T : <<u, t>> \notin OpToRel(<, Nat)
  BY <1>1, WFMin, NatLessThanWellFounded, Zenon
<1>3. \A u \in T : ~(u < t) BY <1>1, <1>2 DEF OpToRel
<1>4. PICK o \in O : t = o.seq BY <1>2
<1>5. \A p \in O : p.seq \in T OBVIOUS
<1>a. \A u \in T : t <= u BY <1>1, <1>3
<1>6. ASSUME NEW p \in obs, p.id = e PROVE o.seq <= p.seq
  <2>1. p.seq \in T BY <1>6
  <2> QED BY <1>4, <1>a, <2>1
<1>7. o \in obs /\ o.id = e BY <1>4
<1> HIDE DEF O, T
<1> QED BY <1>6, <1>7, Zenon DEF First

\* An observation is amended: its projection is marked, or it no longer counts.
Amends(o, p) ==
  /\ o \in obs /\ p \in Observation /\ obs' = (obs \ {o}) \cup {p}
  /\ p.id = o.id /\ p.seq = o.seq /\ (p.counted => o.counted)

LEMMA AmendedCounts ==
  ASSUME obs \subseteq Observation, IsFiniteSet(obs), NEW o, NEW p, Amends(o, p)
  PROVE  /\ obs' \subseteq Observation /\ IsFiniteSet(obs')
         /\ \A x \in obs' : \E y \in obs : y.id = x.id /\ y.seq = x.seq /\ (x.counted => y.counted)
         /\ Cardinality(CountedIn(obs')) <= Cardinality(CountedIn(obs))
         /\ Cardinality(CountedIn(obs')) \in Nat /\ Cardinality(CountedIn(obs)) \in Nat
<1>1. obs' \subseteq Observation BY DEF Amends
<1>2. IsFiniteSet(obs') BY FS_RemoveElement, FS_AddElement DEF Amends
<1>3. IsFiniteSet(CountedIn(obs)) /\ IsFiniteSet(CountedIn(obs'))
  BY <1>2, FS_Subset DEF CountedIn
<1>4. Cardinality(CountedIn(obs')) \in Nat /\ Cardinality(CountedIn(obs)) \in Nat
  BY <1>3, FS_CardinalityType
<1>5. CASE p.counted
  <2>1. o \in CountedIn(obs) BY <1>5 DEF Amends, CountedIn
  <2>2. CountedIn(obs') = (CountedIn(obs) \ {o}) \cup {p} BY <1>5 DEF Amends, CountedIn
  <2>3. /\ IsFiniteSet(CountedIn(obs) \ {o})
        /\ Cardinality(CountedIn(obs) \ {o}) = Cardinality(CountedIn(obs)) - 1
    BY <1>3, <2>1, FS_RemoveElement
  <2> DEFINE rest == CountedIn(obs) \ {o}
  <2>a. Cardinality(rest \cup {p}) = IF p \in rest THEN Cardinality(rest) ELSE Cardinality(rest) + 1
    BY <2>3, FS_AddElement
  <2>4. Cardinality(rest \cup {p}) <= Cardinality(CountedIn(obs)) BY <1>4, <2>3, <2>a
  <2>5. Cardinality(CountedIn(obs')) <= Cardinality(CountedIn(obs)) BY <2>2, <2>4
  <2> QED BY <1>1, <1>2, <1>4, <2>5 DEF Amends
<1>6. CASE ~p.counted
  <2>1. CountedIn(obs') \subseteq CountedIn(obs) BY <1>6 DEF Amends, CountedIn
  <2>2. Cardinality(CountedIn(obs')) <= Cardinality(CountedIn(obs)) BY <1>3, <2>1, FS_Subset
  <2> QED BY <1>1, <1>2, <1>4, <2>2 DEF Amends
<1> QED BY <1>5, <1>6

-----------------------------------------------------------------------------
(* The history, act by act. *)

LEMMA RecordKeepsHistory ==
  ASSUME RecTypeOK, History, NEW c \in Caller, Record(c)
  PROVE  History'
<1> DEFINE e == call[c].event
           new == [id |-> e, seq |-> seq + 1, counted |-> e \notin Control,
                   proj |-> InitialProjection(e)]
<1>1. /\ obs' = obs \cup {new} /\ seq' = seq + 1
      /\ fixes' = fixes /\ resolved' = resolved
      /\ escs' = IF Escalated(obs', fixes, resolved) /\ NeedsEscalation(escs, fixes, resolved)
                 THEN escs \cup {seq + 1} ELSE escs
  BY DEF Record
<1>2. new.seq = seq + 1 OBVIOUS
<1> HIDE DEF new
<1>3. seq \in Nat /\ resolved \in 0..MaxSeq /\ escs \subseteq 1..MaxSeq
      /\ fixes \subseteq Fix /\ obs \subseteq Observation
  BY DEF RecTypeOK
<1>4. Numbered'
  <2>1. IsFiniteSet(obs') BY <1>1, FS_AddElement DEF History, Numbered
  <2>2. \A o \in obs' : o.seq <= seq' BY <1>1, <1>2, <1>3 DEF History, Numbered, Observation
  <2>3. \A f \in fixes' : f.seq <= seq' BY <1>1, <1>3 DEF History, Numbered, Fix
  <2>4. \A d \in escs' : d <= seq' BY <1>1, <1>3 DEF History, Numbered
  <2>5. resolved' <= seq' BY <1>1, <1>3 DEF History, Numbered
  <2> QED BY <2>1, <2>2, <2>3, <2>4, <2>5 DEF Numbered
<1>5. Grounded'
  <2>1. \A o \in CountedIn(obs') : o \in CountedIn(obs) \/ o.seq = seq + 1
    BY <1>1, <1>2 DEF CountedIn
  <2>2. \A f \in Bound(fixes) : f.seq \in Nat /\ f.seq <= seq
    BY <1>3 DEF History, Numbered, Bound, Fix
  <2>3. ASSUME NEW f \in Bound(fixes'), NEW o \in CountedIn(obs'), o.seq < f.seq
        PROVE  BuiltOn(o, f)
    <3>1. f \in Bound(fixes) BY <1>1, <2>3
    <3>2. o \in CountedIn(obs) BY <1>3, <2>1, <2>2, <2>3, <3>1
    <3> QED BY <2>3, <3>1, <3>2 DEF History, Grounded
  <2>4. ASSUME resolved' > 0
        PROVE  \E f \in Bound(fixes') :
                 f.seq < resolved' /\ \A o \in CountedIn(obs') : o.seq < resolved' => o.seq < f.seq
    <3>1. PICK f \in Bound(fixes) :
            f.seq < resolved /\ \A o \in CountedIn(obs) : o.seq < resolved => o.seq < f.seq
      BY <1>1, <2>4 DEF History, Grounded
    <3>2. resolved <= seq BY DEF History, Numbered
    <3>3. \A o \in CountedIn(obs') : o.seq < resolved => o.seq < f.seq
      BY <1>3, <2>1, <3>1, <3>2
    <3> QED BY <1>1, <3>1, <3>3
  <2>5. \A f, o : BuiltOn(o, f)' = BuiltOn(o, f) BY DEF BuiltOn
  <2> QED BY <2>3, <2>4, <2>5 DEF Grounded
<1>6. Apart'
  <2>1. resolved # seq + 1 /\ \A f \in fixes : f.seq # seq + 1
    BY <1>3 DEF History, Numbered, Fix
  <2> QED BY <1>1, <2>1 DEF History, Apart
<1>7. OneEscalationPerEpoch'
  <2> SUFFICES ASSUME NEW d \in escs', NEW b \in escs', d < b
               PROVE  (\E f \in fixes : f.bound /\ d < f.seq /\ f.seq < b) \/ d < resolved
    BY <1>1 DEF OneEscalationPerEpoch
  <2>1. \A x \in escs' : x \in escs \/ x = seq + 1 BY <1>1
  <2>2. \A x \in escs : x <= seq /\ x \in 1..MaxSeq /\ x \in Nat
    BY <1>3, RecurrenceAssumption DEF History, Numbered
  <2>a. b \in Nat /\ b <= seq + 1
    <3>1. CASE b \in escs BY <1>3, <2>2, <3>1
    <3>2. CASE b = seq + 1 BY <1>3, <3>2
    <3> QED BY <2>1, <3>1, <3>2
  <2>b. d # seq + 1 BY <1>3, <2>a
  <2>3. d \in escs BY <2>1, <2>b
  <2>4. CASE b \in escs BY <2>3, <2>4 DEF History, OneEscalationPerEpoch
  <2>5. CASE b \notin escs
    <3>1. b = seq + 1 /\ NeedsEscalation(escs, fixes, resolved) BY <1>1, <2>1, <2>5
    <3>2. d <= EpochStart(fixes, resolved) BY <2>3, <3>1 DEF NeedsEscalation
    <3>3. d # resolved /\ \A f \in fixes : f.seq # d BY <2>3 DEF History, Apart
    <3>4. CASE EpochStart(fixes, resolved) = resolved BY <1>3, <2>2, <2>3, <3>2, <3>3, <3>4
    <3>5. CASE EpochStart(fixes, resolved) = LastFix(fixes)
      <4>1. PICK f \in Bound(fixes) : f.seq = LastFix(fixes)
        BY <1>3, <2>2, <2>3, <3>2, <3>5, LastFixIs
      <4>2. f \in fixes /\ f.bound /\ f.seq \in Nat /\ f.seq <= seq
        BY <1>3, <4>1 DEF Bound, Fix, History, Numbered
      <4>3. d < f.seq BY <2>2, <2>3, <3>2, <3>3, <3>5, <4>1, <4>2
      <4> QED BY <1>3, <3>1, <4>2, <4>3
    <3> QED BY <1>3, <3>4, <3>5, EpochIs
  <2> QED BY <2>4, <2>5
<1>8. EscalatedIsAnnounced'
  <2> SUFFICES ASSUME Escalated(obs', fixes, resolved)
               PROVE  \E b \in escs' : b > resolved /\ \A f \in fixes : f.bound => b > f.seq
    BY <1>1 DEF EscalatedIsAnnounced
  <2>1. CASE NeedsEscalation(escs, fixes, resolved)
    <3>1. seq + 1 \in escs' BY <1>1, <2>1
    <3>2. seq + 1 > resolved /\ \A f \in fixes : seq + 1 > f.seq
      BY <1>3 DEF History, Numbered, Fix
    <3> QED BY <3>1, <3>2
  <2>2. CASE ~NeedsEscalation(escs, fixes, resolved)
    <3>1. PICK b \in escs : ~(b <= EpochStart(fixes, resolved)) BY <2>2 DEF NeedsEscalation
    <3>2. EpochStart(fixes, resolved) \in Nat /\ resolved <= EpochStart(fixes, resolved)
          /\ LastFix(fixes) <= EpochStart(fixes, resolved) /\ LastFix(fixes) \in Nat
      BY <1>3, EpochIs, LastFixIs
    <3>3. \A f \in fixes : f.bound => f.seq <= LastFix(fixes) /\ f.seq \in Nat
      BY <1>3, LastFixIs DEF Bound, Fix
    <3>4. b \in Nat BY <1>3
    <3>5. b > resolved BY <1>3, <3>1, <3>2, <3>4
    <3>6. \A f \in fixes : f.bound => b > f.seq BY <3>1, <3>2, <3>3, <3>4
    <3> QED BY <1>1, <3>5, <3>6
  <2> QED BY <2>1, <2>2
<1> QED BY <1>4, <1>5, <1>6, <1>7, <1>8 DEF History

LEMMA AmendKeepsHistory ==
  ASSUME RecTypeOK, History, NEW o, NEW p, Amends(o, p),
         UNCHANGED <<fixes, resolved, escs>>, seq' \in {seq, seq + 1}
  PROVE  History'
<1>1. seq \in Nat /\ resolved \in 0..MaxSeq /\ escs \subseteq 1..MaxSeq
      /\ fixes \subseteq Fix /\ obs \subseteq Observation /\ IsFiniteSet(obs)
  BY DEF RecTypeOK, History, Numbered
<1>2. /\ obs' \subseteq Observation /\ IsFiniteSet(obs')
      /\ \A x \in obs' : \E y \in obs : y.id = x.id /\ y.seq = x.seq /\ (x.counted => y.counted)
      /\ Cardinality(CountedIn(obs')) <= Cardinality(CountedIn(obs))
      /\ Cardinality(CountedIn(obs')) \in Nat /\ Cardinality(CountedIn(obs)) \in Nat
  BY <1>1, AmendedCounts
<1>3. \A x \in CountedIn(obs') : \E y \in CountedIn(obs) : y.id = x.id /\ y.seq = x.seq
  BY <1>2 DEF CountedIn
<1>4. Numbered'
  <2>1. \A x \in obs' : x.seq <= seq' BY <1>1, <1>2 DEF History, Numbered, Observation
  <2>2. \A f \in fixes' : f.seq <= seq' BY <1>1 DEF History, Numbered, Fix
  <2>3. \A d \in escs' : d <= seq' BY <1>1 DEF History, Numbered
  <2>4. resolved' <= seq' BY <1>1 DEF History, Numbered
  <2> QED BY <1>2, <2>1, <2>2, <2>3, <2>4 DEF Numbered
<1>5. Grounded'
  <2>1. \A f \in Bound(fixes'), x \in CountedIn(obs') : x.seq < f.seq => BuiltOn(x, f)'
    BY <1>3 DEF History, Grounded, BuiltOn
  <2>2. resolved' > 0 => \E f \in Bound(fixes') :
          f.seq < resolved' /\ \A x \in CountedIn(obs') : x.seq < resolved' => x.seq < f.seq
    BY <1>3 DEF History, Grounded
  <2> QED BY <2>1, <2>2 DEF Grounded, BuiltOn
<1>6. Apart' /\ OneEscalationPerEpoch' BY DEF History, Apart, OneEscalationPerEpoch
<1>7. EscalatedIsAnnounced'
  <2> SUFFICES ASSUME Escalated(obs', fixes, resolved) PROVE Escalated(obs, fixes, resolved)
    BY DEF EscalatedIsAnnounced, History
  <2>1. LastCounted(obs') <= LastCounted(obs)
    <3>1. LastCounted(obs') \in Nat /\ LastCounted(obs) \in Nat BY <1>1, <1>2, LastCountedIs
    <3>2. CASE LastCounted(obs') = 0 BY <3>1, <3>2
    <3>3. CASE LastCounted(obs') # 0
      <4>1. PICK x \in CountedIn(obs') : x.seq = LastCounted(obs') BY <1>2, <3>3, LastCountedIs
      <4>2. PICK y \in CountedIn(obs) : y.seq = x.seq BY <1>3, <4>1
      <4> QED BY <1>1, <4>1, <4>2, LastCountedIs
    <3> QED BY <3>2, <3>3
  <2>2. LastCounted(obs') \in Nat /\ LastCounted(obs) \in Nat /\ LastFix(fixes) \in Nat
    BY <1>1, <1>2, LastCountedIs, LastFixIs
  <2>3. ~Corrected(obs, fixes, resolved) BY <1>1, <2>1, <2>2 DEF Escalated, Corrected
  <2> QED BY <1>2, <2>3 DEF Escalated
<1> QED BY <1>4, <1>5, <1>6, <1>7 DEF History

LEMMA FixKeepsHistory ==
  ASSUME RecTypeOK, History, NEW h \in Head, NEW proof \in BOOLEAN,
         RecordCorrectiveAction(h, proof)
  PROVE  History'
<1> DEFINE new == [seq |-> seq + 1, head |-> h, bound |-> Proven(proof, h)]
<1>1. /\ fixes' = fixes \cup {new} /\ seq' = seq + 1 /\ seq < MaxSeq
      /\ obs' = obs /\ resolved' = resolved /\ escs' = escs
  BY DEF RecordCorrectiveAction
<1>2. new.seq = seq + 1 /\ new.head = h /\ new.bound = Proven(proof, h) OBVIOUS
<1>3. /\ seq \in Nat /\ resolved \in Nat /\ fixes \subseteq Fix /\ obs \subseteq Observation
      /\ \A d \in escs : d \in Nat
      /\ resolved <= seq /\ \A d \in escs : d <= seq
      /\ \A f \in fixes : f.seq \in Nat /\ f.seq <= seq
      /\ \A o \in obs : o.seq \in Nat /\ o.seq <= seq
  BY RecurrenceAssumption DEF RecTypeOK, History, Numbered, Fix, Observation
<1>a. new \in Fix
  <2>1. Proven(proof, h) \in BOOLEAN BY DEF Proven
  <2> QED BY <1>1, <1>3, <2>1, RecurrenceAssumption DEF Fix
<1> HIDE DEF new
<1>4. \A f \in fixes' : f \in fixes \/ f = new BY <1>1
<1>5. Numbered'
  <2>1. \A f \in fixes' : f.seq <= seq' BY <1>1, <1>2, <1>3, <1>4
  <2>2. \A o \in obs' : o.seq <= seq' BY <1>1, <1>3
  <2>3. \A d \in escs' : d <= seq' BY <1>1, <1>3
  <2>4. resolved' <= seq' BY <1>1, <1>3
  <2> QED BY <1>1, <2>1, <2>2, <2>3, <2>4 DEF Numbered, History
<1>6. Grounded'
  <2>1. ASSUME NEW f \in Bound(fixes'), NEW o \in CountedIn(obs'), o.seq < f.seq
        PROVE  BuiltOn(o, f)
    <3>1. CASE f \in fixes BY <1>1, <2>1, <3>1 DEF History, Grounded, Bound
    <3>2. CASE f = new
      <4>1. Proven(proof, h) BY <1>2, <2>1, <3>2 DEF Bound
      <4> QED BY <1>1, <1>2, <2>1, <3>2, <4>1 DEF Proven, BuiltOn
    <3> QED BY <1>4, <2>1, <3>1, <3>2 DEF Bound
  <2>2. Bound(fixes) \subseteq Bound(fixes') BY <1>1 DEF Bound
  <2>3. resolved' > 0 => \E f \in Bound(fixes') :
          f.seq < resolved' /\ \A o \in CountedIn(obs') : o.seq < resolved' => o.seq < f.seq
    BY <1>1, <2>2 DEF History, Grounded
  <2> QED BY <2>1, <2>3 DEF Grounded, BuiltOn
<1>7. Apart' BY <1>1, <1>2, <1>3, <1>4 DEF History, Apart
<1>8. OneEscalationPerEpoch' BY <1>1 DEF History, OneEscalationPerEpoch
<1>9. EscalatedIsAnnounced'
  <2>1. CASE new.bound
    <3>1. LastFix(fixes') >= new.seq /\ LastFix(fixes') \in Nat
      <4>1. fixes' \in SUBSET Fix BY <1>1, <1>3, <1>a
      <4>2. new \in Bound(fixes') BY <1>1, <2>1 DEF Bound
      <4> QED BY <1>2, <1>3, <4>1, <4>2, LastFixIs, RecurrenceAssumption
    <3>2. LastCounted(obs) <= seq /\ LastCounted(obs) \in Nat
      BY <1>3, LastCountedIs, RecurrenceAssumption DEF CountedIn
    <3>3. Corrected(obs', fixes', resolved') BY <1>1, <1>2, <1>3, <3>1, <3>2 DEF Corrected
    <3> QED BY <3>3 DEF EscalatedIsAnnounced, Escalated
  <2>2. CASE ~new.bound
    <3>1. Bound(fixes') = Bound(fixes) BY <1>1, <2>2 DEF Bound
    <3>2. Escalated(obs', fixes', resolved') = Escalated(obs, fixes, resolved)
      BY <1>1, <3>1 DEF Escalated, Corrected, LastFix
    <3>3. \A f \in fixes' : f.bound => f \in fixes BY <1>4, <2>2
    <3> QED BY <1>1, <3>2, <3>3 DEF EscalatedIsAnnounced, History
  <2> QED BY <2>1, <2>2
<1> QED BY <1>5, <1>6, <1>7, <1>8, <1>9 DEF History

LEMMA ResolveKeepsHistory ==
  ASSUME RecTypeOK, History, Resolve
  PROVE  History'
<1>1. /\ seq' = seq + 1 /\ resolved' = seq + 1
      /\ obs' = obs /\ fixes' = fixes /\ escs' = escs
  BY DEF Resolve
<1>2. /\ seq \in Nat /\ resolved \in Nat /\ fixes \subseteq Fix /\ obs \subseteq Observation
      /\ \A d \in escs : d \in Nat
      /\ resolved <= seq /\ \A d \in escs : d <= seq
      /\ \A f \in fixes : f.seq \in Nat /\ f.seq <= seq
      /\ \A o \in obs : o.seq \in Nat /\ o.seq <= seq
  BY RecurrenceAssumption DEF RecTypeOK, History, Numbered, Fix, Observation
<1>3. /\ LastCounted(obs) <= seq /\ LastCounted(obs) \in Nat
      /\ \A o \in CountedIn(obs) : o.seq <= LastCounted(obs)
  BY <1>2, LastCountedIs, RecurrenceAssumption DEF CountedIn
<1>4. Numbered' BY <1>1, <1>2 DEF Numbered, History
<1>5. Grounded'
  <2>1. PICK f \in Bound(fixes) : f.seq > LastCounted(obs) BY DEF Resolve
  <2>2. f.seq < resolved' BY <1>1, <1>2, <2>1 DEF Bound
  <2>3. \A o \in CountedIn(obs') : o.seq < f.seq
    BY <1>1, <1>2, <1>3, <2>1 DEF CountedIn, Bound
  <2>4. \A g \in Bound(fixes'), o \in CountedIn(obs') : o.seq < g.seq => BuiltOn(o, g)'
    BY <1>1 DEF History, Grounded, BuiltOn
  <2> QED BY <1>1, <2>2, <2>3, <2>4 DEF Grounded, BuiltOn
<1>6. Apart' BY <1>1, <1>2 DEF History, Apart
<1>7. OneEscalationPerEpoch'
  <2> SUFFICES ASSUME NEW d \in escs', NEW b \in escs', d < b PROVE d < resolved'
    BY DEF OneEscalationPerEpoch
  <2> QED BY <1>1, <1>2
<1>8. EscalatedIsAnnounced'
  <2>1. Corrected(obs', fixes', resolved') BY <1>1, <1>2, <1>3 DEF Corrected
  <2> QED BY <2>1 DEF EscalatedIsAnnounced, Escalated
<1> QED BY <1>4, <1>5, <1>6, <1>7, <1>8 DEF History

-----------------------------------------------------------------------------
(* The calls and the ledger. *)

LEMMA IdleIsCall == Idle \in Call /\ \A e \in Event, at \in {"checked", "owed"} : Start(e, at) \in Call
<1>1. NoEvent \in Event BY RecurrenceAssumption DEF NoEvent
<1>2. Idle \in Call BY <1>1 DEF Idle, Call
<1> QED BY <1>2 DEF Start, Call

KnownNext(e) == \E o \in obs' : o.id = e

\* What a caller's step may do to the calls and the rows.
CallStep(c, k) ==
  /\ k \in Call /\ call' = [call EXCEPT ![c] = k]
  /\ rows' \in [Event -> Nat] /\ \A e \in Event : rows[e] <= rows'[e]
  /\ \A e \in Event : Known(e) => KnownNext(e)
  /\ k.at \in {"owed", "writing", "marking"} => KnownNext(k.event)
  /\ k.at = "writing" /\ k.had => rows'[k.event] >= 1
  /\ k.at = "marking" /\ k.landed => rows'[k.event] >= 1

LEMMA CallStepKeeps ==
  ASSUME RecTypeOK, Projecting, NEW c \in Caller, NEW k, CallStep(c, k)
  PROVE  call' \in [Caller -> Call] /\ Projecting'
<1>1. call' \in [Caller -> Call] /\ call'[c] = k /\ \A d \in Caller \ {c} : call'[d] = call[d]
  BY DEF CallStep, RecTypeOK
<1>2. ASSUME NEW d \in Caller
      PROVE  /\ call'[d].at \in {"owed", "writing", "marking"} => KnownNext(call'[d].event)
             /\ call'[d].at = "writing" /\ call'[d].had => rows'[call'[d].event] >= 1
             /\ call'[d].at = "marking" /\ call'[d].landed => rows'[call'[d].event] >= 1
  <2>1. CASE d = c BY <1>1, <2>1 DEF CallStep
  <2>2. CASE d # c
    <3>1. call'[d] = call[d] /\ call[d].event \in Event BY <1>1, <2>2 DEF RecTypeOK, Call
    <3>2. rows[call[d].event] \in Nat /\ rows'[call[d].event] \in Nat
          /\ rows[call[d].event] <= rows'[call[d].event]
      BY <3>1 DEF CallStep, RecTypeOK
    <3> QED BY <3>1, <3>2 DEF CallStep, Projecting
  <2> QED BY <2>1, <2>2
<1> QED BY <1>1, <1>2 DEF Projecting, Known, KnownNext

\* A step that leaves the store alone.
LEMMA StoreLeftAlone ==
  ASSUME RInv, NEW c \in Caller, NEW k, CallStep(c, k), UNCHANGED store,
         work' \in {"none", "refused", "open"}, faults' \in 0..MaxFaults
  PROVE  RInv'
<1>1. call' \in [Caller -> Call] /\ Projecting' BY CallStepKeeps DEF RInv
<1>2. obs' = obs /\ fixes' = fixes /\ resolved' = resolved /\ escs' = escs /\ seq' = seq
  BY DEF store
<1>3. RecTypeOK' BY <1>1, <1>2 DEF RInv, RecTypeOK, CallStep
<1>4. History'
  BY <1>2 DEF RInv, History, Numbered, Grounded, Apart, OneEscalationPerEpoch,
              EscalatedIsAnnounced, BuiltOn
<1>5. OwedIsNotLost'
  <2> SUFFICES ASSUME NEW o \in obs, o.id \in Requested, rows'[o.id] = 0
               PROVE  o.proj \in Outstanding \cup {"suppressed"}
    BY <1>2 DEF OwedIsNotLost
  <2>1. o.id \in Event BY DEF RInv, RecTypeOK, Observation
  <2>2. rows[o.id] = 0 BY <2>1 DEF CallStep, RInv, RecTypeOK
  <2> QED BY <2>2 DEF RInv, OwedIsNotLost
<1> QED BY <1>1, <1>3, <1>4, <1>5 DEF RInv

LEMMA CallersKeep ==
  ASSUME RInv, NEW c \in Caller,
         \/ ReadLedger(c) \/ WorkItemRefused(c) \/ WriteLedger(c) \/ LedgerRefuses(c) \/ Crash(c)
         \/ \E e \in Event : CheckNew(c, e) \/ \E why \in Reason : Replay(c, e, why)
  PROVE  RInv'
<1>1. RecTypeOK /\ Projecting BY DEF RInv
<1>2. /\ call \in [Caller -> Call] /\ call[c] \in Call /\ call[c].event \in Event
      /\ rows \in [Event -> Nat] /\ rows[call[c].event] \in Nat
      /\ work \in {"none", "refused", "open"} /\ faults \in 0..MaxFaults /\ MaxFaults \in Nat
  BY <1>1, RecurrenceAssumption DEF RecTypeOK, Call
<1>3. ASSUME UNCHANGED store PROVE \A e : KnownNext(e) = Known(e)
  BY <1>3 DEF store, Known, KnownNext
<1>4. ASSUME NEW e \in Event, CheckNew(c, e) PROVE RInv'
  <2>1. Start(e, "checked") \in Call /\ Start(e, "checked").at = "checked"
    BY IdleIsCall DEF Start, Idle
  <2>2. CallStep(c, Start(e, "checked")) BY <1>2, <1>3, <1>4, <2>1 DEF CallStep, CheckNew, store
  <2> QED BY <1>2, <1>4, <2>2, StoreLeftAlone DEF CheckNew
<1>5. ASSUME NEW e \in Event, NEW why \in Reason, Replay(c, e, why) PROVE RInv'
  <2> DEFINE asked == why = "included" /\ First(e).proj = "suppressed"
             k == [Start(e, "owed") EXCEPT !.asked = asked, !.closed = Closed]
  <2>1. Closed \in BOOLEAN /\ asked \in BOOLEAN BY DEF Closed, ClosedGate
  <2>2. Start(e, "owed") \in Call /\ Start(e, "owed").at = "owed" /\ Start(e, "owed").event = e
    BY IdleIsCall DEF Start, Idle
  <2>3. call' = [call EXCEPT ![c] = k] /\ UNCHANGED <<store, rows, work, faults>> /\ Known(e)
    BY <1>5 DEF Replay, Owes
  <2> HIDE DEF asked
  <2>4. k \in Call /\ k.at = "owed" /\ k.event = e BY <2>1, <2>2 DEF Call
  <2> HIDE DEF k
  <2>5. CallStep(c, k) BY <1>2, <1>3, <2>3, <2>4 DEF CallStep, store
  <2> QED BY <1>2, <2>3, <2>5, StoreLeftAlone
<1>6. CASE ReadLedger(c) \/ WorkItemRefused(c)
  <2> DEFINE had == rows[call[c].event] > 0
             k == [call[c] EXCEPT !.at = "writing", !.had = had]
  <2>a. faults' = faults \/ (faults < MaxFaults /\ faults' = faults + 1)
    BY <1>6 DEF ReadLedger, WorkItemRefused
  <2>b. faults' \in 0..MaxFaults BY <1>2, <2>a
  <2>c. work' \in {"none", "refused", "open"} BY <1>2, <1>6 DEF ReadLedger, WorkItemRefused
  <2>1. /\ call' = [call EXCEPT ![c] = k] /\ UNCHANGED <<store, rows>>
        /\ call[c].at = "owed"
    BY <1>6 DEF ReadLedger, WorkItemRefused
  <2>2. had \in BOOLEAN OBVIOUS
  <2>3. had => rows[call[c].event] >= 1 BY <1>2
  <2> HIDE DEF had
  <2>4. k \in Call /\ k.at = "writing" /\ k.event = call[c].event /\ k.had = had
    BY <1>2, <2>2 DEF Call
  <2>5. Known(call[c].event) BY <1>1, <2>1 DEF Projecting
  <2> HIDE DEF k
  <2>6. CallStep(c, k) BY <1>2, <1>3, <2>1, <2>3, <2>4, <2>5 DEF CallStep, store
  <2> QED BY <2>1, <2>6, <2>b, <2>c, StoreLeftAlone
<1>7. CASE WriteLedger(c)
  <2> DEFINE e == call[c].event
             n == IF call[c].had THEN rows[e] ELSE rows[e] + 1
             k == [call[c] EXCEPT !.at = "marking", !.landed = TRUE]
  <2>1. /\ call' = [call EXCEPT ![c] = k] /\ rows' = [rows EXCEPT ![e] = n]
        /\ UNCHANGED <<store, work, faults>> /\ call[c].at = "writing"
    BY <1>7 DEF WriteLedger
  <2>2. k \in Call /\ k.at = "marking" /\ k.event = e BY <1>2 DEF Call
  <2>3. n \in Nat /\ n >= 1 /\ n >= rows[e] BY <1>1, <1>2, <2>1 DEF Projecting
  <2>4. Known(e) BY <1>1, <2>1 DEF Projecting
  <2> HIDE DEF n, k
  <2>5. rows' \in [Event -> Nat] /\ rows'[e] = n /\ \A x \in Event : rows[x] <= rows'[x]
    BY <1>2, <2>1, <2>3
  <2>6. CallStep(c, k) BY <1>3, <2>1, <2>2, <2>3, <2>4, <2>5 DEF CallStep, store
  <2> QED BY <1>2, <2>1, <2>6, StoreLeftAlone
<1>8. CASE LedgerRefuses(c)
  <2> DEFINE k == [call[c] EXCEPT !.at = "marking", !.landed = FALSE]
  <2>a. faults < MaxFaults /\ faults' = faults + 1 BY <1>8 DEF LedgerRefuses
  <2>b. faults' \in 0..MaxFaults BY <1>2, <2>a
  <2>1. /\ call' = [call EXCEPT ![c] = k] /\ UNCHANGED <<store, rows, work>>
        /\ call[c].at \in {"owed", "writing"}
    BY <1>8 DEF LedgerRefuses
  <2>2. k \in Call /\ k.at = "marking" /\ k.event = call[c].event /\ k.landed = FALSE
    BY <1>2 DEF Call
  <2>3. Known(call[c].event) BY <1>1, <2>1 DEF Projecting
  <2> HIDE DEF k
  <2>4. CallStep(c, k) BY <1>2, <1>3, <2>1, <2>2, <2>3 DEF CallStep, store
  <2> QED BY <1>2, <2>1, <2>4, <2>b, StoreLeftAlone
<1>9. CASE Crash(c)
  <2>1. /\ call' = [call EXCEPT ![c] = Idle] /\ UNCHANGED <<store, rows, work>>
        /\ faults' \in 0..MaxFaults
    BY <1>2, <1>9 DEF Crash, Finished
  <2>2. Idle \in Call /\ Idle.at = "idle" BY IdleIsCall DEF Idle
  <2>3. CallStep(c, Idle) BY <1>2, <1>3, <2>1, <2>2 DEF CallStep, store
  <2> QED BY <1>2, <2>1, <2>3, StoreLeftAlone
<1> QED BY <1>4, <1>5, <1>6, <1>7, <1>8, <1>9

LEMMA RecordKeeps == ASSUME RInv, NEW c \in Caller, Record(c) PROVE RInv'
<1> DEFINE e == call[c].event
           new == [id |-> e, seq |-> seq + 1, counted |-> e \notin Control,
                   proj |-> InitialProjection(e)]
           closed == ClosedGate(obs', fixes, resolved)
           k == [call[c] EXCEPT !.at = "owed", !.closed = closed]
<1>1. /\ RecTypeOK /\ History /\ Projecting
      /\ call \in [Caller -> Call] /\ call[c] \in Call /\ e \in Event
      /\ seq \in Nat /\ seq < MaxSeq /\ MaxSeq \in Nat
  BY RecurrenceAssumption DEF RInv, RecTypeOK, Call, Record
<1>2. /\ obs' = obs \cup {new} /\ seq' = seq + 1
      /\ escs' = escs \/ escs' = escs \cup {seq + 1}
      /\ UNCHANGED <<fixes, resolved, rows, work, faults>>
  BY DEF Record
<1>3. call' = [call EXCEPT ![c] = Idle] \/ call' = [call EXCEPT ![c] = k]
  BY DEF Record, Finished
<1>4. new \in Observation
  <2>1. InitialProjection(e) \in Projection BY DEF InitialProjection, Projection
  <2> QED BY <1>1, <2>1 DEF Observation
<1>5. new.id = e
      /\ (e \in Requested => new.proj \in {"pending", "suppressed"})
  BY DEF InitialProjection
<1> HIDE DEF new
<1>6. \A x : Known(x) => KnownNext(x) BY <1>2 DEF Known, KnownNext
<1>7. KnownNext(e) BY <1>2, <1>5 DEF KnownNext
<1>8. closed \in BOOLEAN BY DEF ClosedGate
<1> HIDE DEF closed
<1>9. k \in Call /\ k.at = "owed" /\ k.event = e BY <1>1, <1>8 DEF Call
<1> HIDE DEF k
<1>10. \A x \in Event : rows[x] <= rows[x] BY <1>1 DEF RecTypeOK
<1>11. rows' = rows /\ rows \in [Event -> Nat] BY <1>1, <1>2 DEF RecTypeOK
<1>12. Idle.at = "idle" /\ Idle \in Call BY IdleIsCall DEF Idle
<1>13. call' \in [Caller -> Call] /\ Projecting'
  <2>1. CASE call' = [call EXCEPT ![c] = k]
    <3>1. CallStep(c, k) BY <1>6, <1>7, <1>9, <1>10, <1>11, <2>1 DEF CallStep
    <3> QED BY <1>1, <3>1, CallStepKeeps
  <2>2. CASE call' = [call EXCEPT ![c] = Idle]
    <3>1. CallStep(c, Idle) BY <1>6, <1>10, <1>11, <1>12, <2>2 DEF CallStep
    <3> QED BY <1>1, <3>1, CallStepKeeps
  <2> QED BY <1>3, <2>1, <2>2
<1>14. RecTypeOK'
  <2>a. seq + 1 \in 1..MaxSeq BY <1>1
  <2>b. escs \subseteq 1..MaxSeq BY <1>1 DEF RecTypeOK
  <2>c. escs' \subseteq 1..MaxSeq BY <1>2, <2>a, <2>b, Zenon
  <2>d. seq' \in 0..MaxSeq BY <1>1, <1>2
  <2> QED BY <1>1, <1>2, <1>4, <1>13, <2>c, <2>d DEF RecTypeOK
<1>15. OwedIsNotLost' BY <1>2, <1>5 DEF OwedIsNotLost, Outstanding, RInv
<1>16. History' BY <1>1, RecordKeepsHistory
<1> QED BY <1>13, <1>14, <1>15, <1>16 DEF RInv

LEMMA MarkKeeps == ASSUME RInv, NEW c \in Caller, Mark(c) PROVE RInv'
<1> DEFINE e == call[c].event
           o == First(e)
           p == Marked(o, call[c].landed)
<1>1. /\ RecTypeOK /\ History /\ Projecting /\ OwedIsNotLost /\ obs \subseteq Observation
      /\ e \in Event /\ call[c].landed \in BOOLEAN /\ rows \in [Event -> Nat]
      /\ seq \in Nat
  BY RecurrenceAssumption DEF RInv, RecTypeOK, Call
<1>2. /\ obs' = (obs \ {o}) \cup {p} /\ call' = [call EXCEPT ![c] = Idle]
      /\ call[c].at = "marking"
      /\ UNCHANGED <<fixes, resolved, escs, seq, rows, work, faults>>
  BY DEF Mark, Finished
<1>3. Known(e) BY <1>1, <1>2 DEF Projecting
<1>4. o \in obs /\ o.id = e /\ o \in Observation BY <1>1, <1>3, FirstIs
<1>5. p \in Observation /\ p.id = o.id /\ p.seq = o.seq /\ p.counted = o.counted
      /\ p.proj = IF call[c].landed THEN "applied" ELSE "failed"
  BY <1>4 DEF Marked, Observation, Projection
<1>6. call[c].landed => rows[e] >= 1 BY <1>1, <1>2 DEF Projecting
<1> HIDE DEF o, p
<1>7. Amends(o, p) BY <1>2, <1>4, <1>5 DEF Amends
<1>8. History' BY <1>1, <1>2, <1>7, AmendKeepsHistory
<1>9. \A x : Known(x) => KnownNext(x) BY <1>2, <1>5 DEF Known, KnownNext
<1>10. Idle.at = "idle" /\ Idle \in Call BY IdleIsCall DEF Idle
<1>11. CallStep(c, Idle) BY <1>1, <1>2, <1>9, <1>10 DEF CallStep
<1>12. call' \in [Caller -> Call] /\ Projecting' BY <1>1, <1>11, CallStepKeeps
<1>13. RecTypeOK' BY <1>1, <1>2, <1>5, <1>12 DEF RecTypeOK
<1>14. OwedIsNotLost'
  <2>1. ASSUME p.id \in Requested, rows[p.id] = 0 PROVE p.proj \in Outstanding
    <3>1. ~call[c].landed BY <1>1, <1>4, <1>5, <1>6, <2>1
    <3> QED BY <1>1, <1>5, <3>1 DEF Outstanding
  <2> QED BY <1>1, <1>2, <2>1 DEF OwedIsNotLost
<1> QED BY <1>8, <1>12, <1>13, <1>14 DEF RInv

LEMMA SupersedeKeeps == ASSUME RInv, NEW e \in Event, SupersedeObservation(e) PROVE RInv'
<1> DEFINE o == First(e)
           p == [o EXCEPT !.counted = FALSE]
<1>1. /\ RecTypeOK /\ History /\ Projecting /\ OwedIsNotLost /\ obs \subseteq Observation
      /\ rows \in [Event -> Nat] /\ seq \in Nat /\ MaxSeq \in Nat
  BY RecurrenceAssumption DEF RInv, RecTypeOK
<1>2. /\ obs' = (obs \ {o}) \cup {p} /\ seq' = seq + 1 /\ seq < MaxSeq /\ Known(e)
      /\ UNCHANGED <<fixes, resolved, escs, call, rows, work, faults>>
  BY DEF SupersedeObservation
<1>3. o \in obs /\ o \in Observation BY <1>1, <1>2, FirstIs
<1>4. p \in Observation /\ p.id = o.id /\ p.seq = o.seq /\ p.counted = FALSE /\ p.proj = o.proj
  BY <1>3 DEF Observation
<1> HIDE DEF o, p
<1>5. Amends(o, p) BY <1>2, <1>3, <1>4 DEF Amends
<1>6. History' BY <1>1, <1>2, <1>5, AmendKeepsHistory
<1>7. \A x : Known(x) => KnownNext(x) BY <1>2, <1>4 DEF Known, KnownNext
<1>8. Projecting' BY <1>1, <1>2, <1>7 DEF Projecting, Known, KnownNext
<1>9. RecTypeOK' BY <1>1, <1>2, <1>4 DEF RecTypeOK
<1>10. OwedIsNotLost' BY <1>1, <1>2, <1>3, <1>4 DEF OwedIsNotLost
<1> QED BY <1>6, <1>8, <1>9, <1>10 DEF RInv

LEMMA CorrectionsKeep ==
  ASSUME RInv, \/ \E cited \in Cited : RecordCorrectiveAction(cited[1], cited[2])
               \/ Resolve
  PROVE  RInv'
<1>1. /\ RecTypeOK /\ History /\ Projecting /\ OwedIsNotLost
      /\ seq \in Nat /\ MaxSeq \in Nat
  BY RecurrenceAssumption DEF RInv, RecTypeOK
<1>2. CASE Resolve
  <2>1. /\ seq' = seq + 1 /\ resolved' = seq + 1 /\ seq < MaxSeq
        /\ UNCHANGED <<obs, fixes, escs, call, rows, work, faults>>
    BY <1>2 DEF Resolve
  <2>2. RecTypeOK' BY <1>1, <2>1 DEF RecTypeOK
  <2>3. Projecting' /\ OwedIsNotLost' BY <1>1, <2>1 DEF Projecting, OwedIsNotLost, Known
  <2> QED BY <1>1, <1>2, <2>2, <2>3, ResolveKeepsHistory DEF RInv
<1>3. ASSUME NEW cited \in Cited, RecordCorrectiveAction(cited[1], cited[2]) PROVE RInv'
  <2> DEFINE h == cited[1]
             proof == cited[2]
  <2>1. h \in Head /\ proof \in BOOLEAN BY RecurrenceAssumption
  <2>2. RecordCorrectiveAction(h, proof) BY <1>3
  <2> HIDE DEF h, proof
  <2> DEFINE new == [seq |-> seq + 1, head |-> h, bound |-> Proven(proof, h)]
  <2>3. /\ seq' = seq + 1 /\ seq < MaxSeq /\ fixes' = fixes \cup {new}
        /\ UNCHANGED <<obs, resolved, escs, call, rows, work, faults>>
    BY <2>2 DEF RecordCorrectiveAction
  <2>4. new \in Fix
    <3>1. Proven(proof, h) \in BOOLEAN BY <2>1 DEF Proven
    <3> QED BY <1>1, <2>1, <2>3, <3>1 DEF Fix
  <2> HIDE DEF new
  <2>5. RecTypeOK' BY <1>1, <2>3, <2>4 DEF RecTypeOK
  <2>6. Projecting' /\ OwedIsNotLost' BY <1>1, <2>3 DEF Projecting, OwedIsNotLost, Known
  <2> QED BY <1>1, <2>1, <2>2, <2>5, <2>6, FixKeepsHistory DEF RInv
<1> QED BY <1>2, <1>3

LEMMA RInvHolds == RecSpec => []RInv
<1>1. RecInit => RInv
  <2> SUFFICES ASSUME RecInit PROVE RInv OBVIOUS
  <2>1. MaxSeq \in Nat /\ MaxFaults \in Nat BY RecurrenceAssumption
  <2>2. RecTypeOK BY <2>1, IdleIsCall DEF RecInit, RecTypeOK
  <2>3. Numbered BY FS_EmptySet DEF RecInit, Numbered
  <2>4. CountedIn(obs) = {} /\ Bound(fixes) = {} BY DEF RecInit, CountedIn, Bound
  <2>5. Grounded /\ Apart /\ OneEscalationPerEpoch
    BY <2>4 DEF RecInit, Grounded, Apart, OneEscalationPerEpoch
  <2>6. EscalatedIsAnnounced
    <3>1. Cardinality(CountedIn(obs)) = 0 BY <2>4, FS_EmptySet
    <3> QED BY <3>1 DEF EscalatedIsAnnounced, Escalated
  <2>7. Projecting BY DEF RecInit, Projecting, Idle
  <2>8. OwedIsNotLost BY DEF RecInit, OwedIsNotLost
  <2> QED BY <2>2, <2>3, <2>5, <2>6, <2>7, <2>8 DEF RInv, History
<1>2. RInv /\ [RecNext]_recurrence => RInv'
  <2> SUFFICES ASSUME RInv, [RecNext]_recurrence PROVE RInv' OBVIOUS
  <2>1. CASE RecNext
    BY <2>1, CallersKeep, RecordKeeps, MarkKeeps, SupersedeKeeps, CorrectionsKeep DEF RecNext
  <2>2. CASE UNCHANGED recurrence
    <3>1. /\ obs' = obs /\ fixes' = fixes /\ resolved' = resolved /\ escs' = escs /\ seq' = seq
          /\ call' = call /\ rows' = rows /\ work' = work /\ faults' = faults
      BY <2>2 DEF recurrence, store
    <3> QED BY <3>1 DEF RInv, RecTypeOK, History, Numbered, Grounded, Apart, BuiltOn,
                 OneEscalationPerEpoch, EscalatedIsAnnounced, Projecting, Known, OwedIsNotLost
  <2> QED BY <2>1, <2>2
<1> QED BY <1>1, <1>2, PTL DEF RecSpec

-----------------------------------------------------------------------------
(* One caller at an event at a time. *)

Apiece ==
  /\ \A c, d \in Caller : c # d /\ call[c].at # "idle" /\ call[d].at # "idle"
                            => call[c].event # call[d].event
  /\ \A c \in Caller : call[c].at = "checked" => ~Known(call[c].event)
  /\ \A c \in Caller : call[c].at = "writing" /\ ~call[c].had => rows[call[c].event] = 0

AInv == Apiece /\ EventCountedOnce /\ OneRowPerEvent

\* A caller at k has its event to itself.
Own(c, k) ==
  k.at # "idle" => \A d \in Caller \ {c} : call[d].at # "idle" => call[d].event # k.event

\* A step of a caller that records nothing.
LEMMA ApieceCalls ==
  ASSUME RecTypeOK, AInv, NEW c \in Caller, NEW k \in Call, call' = [call EXCEPT ![c] = k],
         Own(c, k), \A e : KnownNext(e) = Known(e),
         k.at = "checked" => ~Known(k.event),
         k.at = "writing" /\ ~k.had => rows'[k.event] = 0,
         \A d \in Caller \ {c} : call[d].at # "idle" => rows'[call[d].event] = rows[call[d].event]
  PROVE  Apiece'
<1>1. call'[c] = k /\ \A d \in Caller \ {c} : call'[d] = call[d] BY DEF RecTypeOK
<1>2. ASSUME NEW b \in Caller, NEW d \in Caller, b # d, call'[b].at # "idle", call'[d].at # "idle"
      PROVE  call'[b].event # call'[d].event
  <2>1. CASE b = c BY <1>1, <1>2, <2>1 DEF Own
  <2>2. CASE d = c BY <1>1, <1>2, <2>2 DEF Own
  <2>3. CASE b # c /\ d # c BY <1>1, <1>2, <2>3 DEF AInv, Apiece
  <2> QED BY <2>1, <2>2, <2>3
<1>3. \A d \in Caller : call'[d].at = "checked" => ~KnownNext(call'[d].event)
  BY <1>1 DEF AInv, Apiece
<1>4. \A d \in Caller : call'[d].at = "writing" /\ ~call'[d].had => rows'[call'[d].event] = 0
  BY <1>1 DEF AInv, Apiece
<1> QED BY <1>2, <1>3, <1>4 DEF Apiece, Known, KnownNext

LEMMA OwnKept ==
  ASSUME AInv, NEW c \in Caller, call[c].at # "idle", NEW k, k.event = call[c].event
  PROVE  Own(c, k)
BY DEF AInv, Apiece, Own

LEMMA ApieceKept ==
  ASSUME ~SameEventTogether, RInv, AInv, RecNext
  PROVE  AInv'
<1>1. /\ RecTypeOK /\ Projecting /\ call \in [Caller -> Call] /\ rows \in [Event -> Nat]
      /\ obs \subseteq Observation
  BY DEF RInv, RecTypeOK
<1>2. \A c \in Caller : call[c] \in Call /\ call[c].event \in Event BY <1>1 DEF Call
<1>3. ASSUME UNCHANGED obs PROVE (\A e : KnownNext(e) = Known(e)) /\ EventCountedOnce'
  BY <1>3 DEF Known, KnownNext, EventCountedOnce, AInv
<1>4. ASSUME UNCHANGED rows PROVE OneRowPerEvent' BY <1>4 DEF OneRowPerEvent, AInv
<1>5. ASSUME NEW c \in Caller, NEW e \in Event, CheckNew(c, e) PROVE AInv'
  <2> DEFINE k == Start(e, "checked")
  <2>1. k \in Call /\ k.at = "checked" /\ k.event = e BY IdleIsCall DEF Start, Idle
  <2>2. /\ call' = [call EXCEPT ![c] = k] /\ UNCHANGED <<obs, rows>> /\ ~Known(e)
        /\ \A d \in Caller : call[d].at # "idle" => call[d].event # e
    BY <1>5 DEF CheckNew, MayStart, store
  <2> HIDE DEF k
  <2>3. Own(c, k) BY <2>1, <2>2 DEF Own
  <2> QED BY <1>1, <1>3, <1>4, <2>1, <2>2, <2>3, ApieceCalls DEF AInv
<1>6. ASSUME NEW c \in Caller, NEW e \in Event, NEW why \in Reason, Replay(c, e, why) PROVE AInv'
  <2> DEFINE asked == why = "included" /\ First(e).proj = "suppressed"
             k == [Start(e, "owed") EXCEPT !.asked = asked, !.closed = Closed]
  <2>1. Closed \in BOOLEAN /\ asked \in BOOLEAN BY DEF Closed, ClosedGate
  <2>2. Start(e, "owed") \in Call /\ Start(e, "owed").at = "owed" /\ Start(e, "owed").event = e
    BY IdleIsCall DEF Start, Idle
  <2>3. /\ call' = [call EXCEPT ![c] = k] /\ UNCHANGED <<obs, rows>>
        /\ \A d \in Caller : call[d].at # "idle" => call[d].event # e
    BY <1>6 DEF Replay, MayStart, store
  <2> HIDE DEF asked
  <2>4. k \in Call /\ k.at = "owed" /\ k.event = e BY <2>1, <2>2 DEF Call
  <2> HIDE DEF k
  <2>5. Own(c, k) BY <2>3, <2>4 DEF Own
  <2> QED BY <1>1, <1>3, <1>4, <2>3, <2>4, <2>5, ApieceCalls DEF AInv
<1>7. ASSUME NEW c \in Caller, ReadLedger(c) \/ WorkItemRefused(c) PROVE AInv'
  <2> DEFINE had == rows[call[c].event] > 0
             k == [call[c] EXCEPT !.at = "writing", !.had = had]
  <2>1. /\ call' = [call EXCEPT ![c] = k] /\ UNCHANGED <<obs, rows>> /\ call[c].at = "owed"
    BY <1>7 DEF ReadLedger, WorkItemRefused, store
  <2>2. had \in BOOLEAN /\ (~had => rows[call[c].event] = 0) BY <1>1, <1>2
  <2> HIDE DEF had
  <2>3. k \in Call /\ k.at = "writing" /\ k.event = call[c].event /\ k.had = had
    BY <1>2, <2>2 DEF Call
  <2> HIDE DEF k
  <2>4. Own(c, k) BY <2>1, <2>3, OwnKept
  <2> QED BY <1>1, <1>3, <1>4, <2>1, <2>2, <2>3, <2>4, ApieceCalls DEF AInv
<1>8. ASSUME NEW c \in Caller, WriteLedger(c) PROVE AInv'
  <2> DEFINE e == call[c].event
             n == IF call[c].had THEN rows[e] ELSE rows[e] + 1
             k == [call[c] EXCEPT !.at = "marking", !.landed = TRUE]
  <2>1. /\ call' = [call EXCEPT ![c] = k] /\ rows' = [rows EXCEPT ![e] = n] /\ UNCHANGED obs
        /\ call[c].at = "writing"
    BY <1>8 DEF WriteLedger, store
  <2>2. k \in Call /\ k.at = "marking" /\ k.event = e BY <1>2 DEF Call
  <2>3. n <= 1 BY <1>1, <1>2, <2>1 DEF AInv, Apiece, OneRowPerEvent
  <2> HIDE DEF n, k
  <2>4. rows'[e] = n /\ \A x \in Event \ {e} : rows'[x] = rows[x] BY <1>1, <1>2, <2>1
  <2>5. OneRowPerEvent' BY <2>3, <2>4 DEF AInv, OneRowPerEvent
  <2>6. Own(c, k) BY <2>1, <2>2, OwnKept
  <2>7. \A d \in Caller \ {c} : call[d].at # "idle" => rows'[call[d].event] = rows[call[d].event]
    BY <1>2, <2>1, <2>4 DEF AInv, Apiece
  <2> QED BY <1>1, <1>3, <2>1, <2>2, <2>5, <2>6, <2>7, ApieceCalls DEF AInv
<1>9. ASSUME NEW c \in Caller, LedgerRefuses(c) PROVE AInv'
  <2> DEFINE k == [call[c] EXCEPT !.at = "marking", !.landed = FALSE]
  <2>1. /\ call' = [call EXCEPT ![c] = k] /\ UNCHANGED <<obs, rows>> /\ call[c].at # "idle"
    BY <1>9 DEF LedgerRefuses, store
  <2>2. k \in Call /\ k.at = "marking" /\ k.event = call[c].event BY <1>2 DEF Call
  <2> HIDE DEF k
  <2>3. Own(c, k) BY <2>1, <2>2, OwnKept
  <2> QED BY <1>1, <1>3, <1>4, <2>1, <2>2, <2>3, ApieceCalls DEF AInv
<1>10. ASSUME NEW c \in Caller, Crash(c) PROVE AInv'
  <2>1. call' = [call EXCEPT ![c] = Idle] /\ UNCHANGED <<obs, rows>>
    BY <1>10 DEF Crash, Finished, store
  <2>2. Idle \in Call /\ Idle.at = "idle" /\ Own(c, Idle) BY IdleIsCall DEF Idle, Own
  <2> QED BY <1>1, <1>3, <1>4, <2>1, <2>2, ApieceCalls DEF AInv
<1>11. ASSUME NEW c \in Caller, Mark(c) PROVE AInv'
  <2> DEFINE e == call[c].event
             o == First(e)
             p == Marked(o, call[c].landed)
  <2>1. /\ obs' = (obs \ {o}) \cup {p} /\ call' = [call EXCEPT ![c] = Idle] /\ UNCHANGED rows
        /\ call[c].at = "marking"
    BY <1>11 DEF Mark, Finished
  <2>2. o \in obs /\ o.id = e BY <1>1, <1>2, <2>1, FirstIs DEF Projecting
  <2>3. p.id = o.id BY <1>1, <2>2 DEF Marked, Observation
  <2> HIDE DEF o, p
  <2>4. (\A x : KnownNext(x) = Known(x)) /\ EventCountedOnce'
    BY <2>1, <2>2, <2>3 DEF Known, KnownNext, EventCountedOnce, AInv
  <2>5. Idle \in Call /\ Idle.at = "idle" /\ Own(c, Idle) BY IdleIsCall DEF Idle, Own
  <2> QED BY <1>1, <1>4, <2>1, <2>4, <2>5, ApieceCalls DEF AInv
<1>12. ASSUME NEW c \in Caller, Record(c) PROVE AInv'
  <2> DEFINE e == call[c].event
             new == [id |-> e, seq |-> seq + 1, counted |-> e \notin Control,
                     proj |-> InitialProjection(e)]
  <2>1. obs' = obs \cup {new} /\ UNCHANGED rows /\ call[c].at = "checked"
    BY <1>12 DEF Record
  <2>2. new.id = e OBVIOUS
  <2> HIDE DEF new
  <2>3. ~Known(e) BY <2>1 DEF AInv, Apiece
  <2>4. EventCountedOnce' BY <2>1, <2>2, <2>3 DEF EventCountedOnce, AInv, Known
  <2>5. PICK k \in Call : call' = [call EXCEPT ![c] = k] /\ k.at \in {"idle", "owed"}
                          /\ (k.at = "owed" => k.event = e)
    <3> DEFINE closed == ClosedGate(obs', fixes, resolved)
               k == [call[c] EXCEPT !.at = "owed", !.closed = closed]
    <3>1. call' = [call EXCEPT ![c] = Idle] \/ call' = [call EXCEPT ![c] = k]
      BY <1>12 DEF Record, Finished
    <3>2. closed \in BOOLEAN BY DEF ClosedGate
    <3> HIDE DEF closed
    <3>3. k \in Call /\ k.at = "owed" /\ k.event = e BY <1>2, <3>2 DEF Call
    <3>4. Idle \in Call /\ Idle.at = "idle" BY IdleIsCall DEF Idle
    <3> HIDE DEF k
    <3> QED BY <3>1, <3>3, <3>4
  <2>6. call'[c] = k /\ \A d \in Caller \ {c} : call'[d] = call[d] BY <1>1, <2>5
  <2>7. \A x : KnownNext(x) <=> Known(x) \/ x = e BY <2>1, <2>2 DEF Known, KnownNext
  <2>8. \A d \in Caller \ {c} : call[d].at # "idle" => call[d].event # e
    BY <2>1 DEF AInv, Apiece
  <2>9. \A d \in Caller : call'[d].at = "checked" => ~KnownNext(call'[d].event)
    BY <2>5, <2>6, <2>7, <2>8 DEF AInv, Apiece
  <2>10. \A b, d \in Caller : b # d /\ call'[b].at # "idle" /\ call'[d].at # "idle"
                                => call'[b].event # call'[d].event
    BY <2>5, <2>6, <2>8 DEF AInv, Apiece
  <2>11. \A d \in Caller : call'[d].at = "writing" /\ ~call'[d].had => rows'[call'[d].event] = 0
    BY <2>1, <2>5, <2>6 DEF AInv, Apiece
  <2>12. Apiece' BY <2>9, <2>10, <2>11 DEF Apiece, Known, KnownNext
  <2> QED BY <1>4, <2>1, <2>4, <2>12 DEF AInv
<1>13. ASSUME Resolve \/ \E cited \in Cited : RecordCorrectiveAction(cited[1], cited[2])
       PROVE  AInv'
  <2>1. UNCHANGED <<obs, call, rows>> BY <1>13 DEF Resolve, RecordCorrectiveAction
  <2> QED BY <2>1 DEF AInv, Apiece, EventCountedOnce, OneRowPerEvent, Known
<1>14. ASSUME NEW e \in Event, SupersedeObservation(e) PROVE AInv'
  <2> DEFINE o == First(e)
             p == [o EXCEPT !.counted = FALSE]
  <2>1. obs' = (obs \ {o}) \cup {p} /\ UNCHANGED <<call, rows>> /\ Known(e)
    BY <1>14 DEF SupersedeObservation
  <2>2. o \in obs /\ o.id = e BY <1>1, <2>1, FirstIs
  <2>3. p.id = o.id BY <1>1, <2>2 DEF Observation
  <2> HIDE DEF o, p
  <2>4. (\A x : KnownNext(x) = Known(x)) /\ EventCountedOnce'
    BY <2>1, <2>2, <2>3 DEF Known, KnownNext, EventCountedOnce, AInv
  <2>5. Apiece' BY <2>1, <2>4 DEF AInv, Apiece, Known, KnownNext
  <2> QED BY <1>4, <2>1, <2>4, <2>5 DEF AInv
<1> QED BY <1>5, <1>6, <1>7, <1>8, <1>9, <1>10, <1>11, <1>12, <1>13, <1>14 DEF RecNext

LEMMA AInvHolds == ASSUME ~SameEventTogether PROVE RecSpec => []AInv
<1>1. RecInit => AInv
  BY DEF RecInit, AInv, Apiece, EventCountedOnce, OneRowPerEvent, Idle
<1>2. RInv /\ AInv /\ [RecNext]_recurrence => AInv'
  <2> SUFFICES ASSUME RInv, AInv, [RecNext]_recurrence PROVE AInv' OBVIOUS
  <2>1. CASE RecNext BY <2>1, ApieceKept
  <2>2. CASE UNCHANGED recurrence
    <3>1. obs' = obs /\ call' = call /\ rows' = rows BY <2>2 DEF recurrence, store
    <3> QED BY <3>1 DEF AInv, Apiece, EventCountedOnce, OneRowPerEvent, Known
  <2> QED BY <2>1, <2>2
<1> QED BY <1>1, <1>2, RInvHolds, PTL DEF RecSpec

-----------------------------------------------------------------------------
(* The theorems. *)

\* The store, the calls under way and the ledger's side stay well typed.
THEOREM RecTypes == RecSpec => []RecTypeOK
<1>1. RInv => RecTypeOK BY DEF RInv
<1> QED BY <1>1, RInvHolds, PTL

\* A gate that stands open over two failures stands on a correction proven against all
\* of them and later than all of them.
THEOREM OpenGatesAreProven == RecSpec => []OpenGateIsProven
<1>1. RInv => OpenGateIsProven
  <2> SUFFICES ASSUME RInv, Cardinality(CountedIn(obs)) >= 2, ~Closed
               PROVE  \E f \in fixes : /\ f.bound
                                       /\ \A o \in CountedIn(obs) : o.seq < f.seq /\ BuiltOn(o, f)
    BY DEF OpenGateIsProven, BuiltOn
  <2>1. /\ obs \subseteq Observation /\ fixes \subseteq Fix /\ resolved \in Nat /\ MaxSeq \in Nat
        /\ \A o \in CountedIn(obs) : o.seq \in Nat
        /\ \A f \in Bound(fixes) : f.seq \in Nat
    BY RecurrenceAssumption DEF RInv, RecTypeOK, CountedIn, Bound, Observation, Fix
  <2>2. LastCounted(obs) \in Nat /\ \A o \in CountedIn(obs) : o.seq <= LastCounted(obs)
    BY <2>1, LastCountedIs
  <2>3. LastFix(fixes) > LastCounted(obs) \/ resolved > LastCounted(obs)
    BY DEF Closed, ClosedGate, Corrected
  <2>4. PICK f \in Bound(fixes) : \A o \in CountedIn(obs) : o.seq < f.seq
    <3>1. CASE LastFix(fixes) > LastCounted(obs)
      <4>1. LastFix(fixes) \in Nat BY <2>1, LastFixIs
      <4>2. PICK f \in Bound(fixes) : f.seq = LastFix(fixes)
        BY <2>1, <2>2, <3>1, <4>1, LastFixIs
      <4> QED BY <2>1, <2>2, <3>1, <4>2
    <3>2. CASE resolved > LastCounted(obs)
      <4>1. resolved > 0 BY <2>1, <2>2, <3>2
      <4>2. PICK f \in Bound(fixes) : \A o \in CountedIn(obs) : o.seq < resolved => o.seq < f.seq
        BY <4>1 DEF RInv, History, Grounded
      <4> QED BY <2>1, <2>2, <3>2, <4>2
    <3> QED BY <2>3, <3>1, <3>2
  <2>5. f \in fixes /\ f.bound BY DEF Bound
  <2>6. \A o \in CountedIn(obs) : BuiltOn(o, f) BY <2>4 DEF RInv, History, Grounded
  <2> QED BY <2>4, <2>5, <2>6
<1> QED BY <1>1, RInvHolds, PTL

\* One escalation between two corrections, however often the failure comes back.
THEOREM EscalatedOncePerEpoch == RecSpec => []OneEscalationPerEpoch
<1>1. RInv => OneEscalationPerEpoch BY DEF RInv, History
<1> QED BY <1>1, RInvHolds, PTL

\* A failure that came back in spite of its correction was escalated again.
THEOREM EscalatedAreAnnounced == RecSpec => []EscalatedIsAnnounced
<1>1. RInv => EscalatedIsAnnounced BY DEF RInv, History
<1> QED BY <1>1, RInvHolds, PTL

\* No crash and no refused write loses a row the ledger is owed.
THEOREM OwedAreNotLost == RecSpec => []OwedIsNotLost
<1>1. RInv => OwedIsNotLost BY DEF RInv
<1> QED BY <1>1, RInvHolds, PTL

\* Where no two callers ingest the same event at the same time, an event is counted once.
THEOREM EventsCountOnce == ASSUME ~SameEventTogether PROVE RecSpec => []EventCountedOnce
<1>1. AInv => EventCountedOnce BY DEF AInv
<1> QED BY <1>1, AInvHolds, PTL

\* Where no two callers ingest the same event at the same time, it gets one row.
THEOREM EventsHaveOneRow == ASSUME ~SameEventTogether PROVE RecSpec => []OneRowPerEvent
<1>1. AInv => OneRowPerEvent BY DEF AInv
<1> QED BY <1>1, AInvHolds, PTL
=============================================================================
