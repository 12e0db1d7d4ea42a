-------------------------- MODULE DispatchLoopProofs --------------------------
(***************************************************************************)
(* One run of the dispatcher, for any board, any limits and any numbers of *)
(* ticks: what it counts stays in its bounds, the zero-merge gate caps the *)
(* workers between two landings, and "done" means that the board was       *)
(* drained.                                                                *)
(***************************************************************************)
EXTENDS DispatchLoop, TLAPS, FiniteSetTheorems

\* What the run counts on the way from the gates to the end of the tick.
Going == {"head", "read", "gates", "dispatch", "drain"}

Counts ==
  /\ pc \in {"read", "gates", "dispatch"} => elapsed < MaxTicks /\ dispatches < MaxDispatches
  /\ pc \in Going => nomerge < HaltTicks /\ noprogress < IdleTicks

LType == TypeOK /\ Counts

\* The count of landings is compared with the best there has been, and the workers
\* started since then are at most the ticks that the gate has counted, and one more
\* from a dispatch to the next gate.
Paced ==
  /\ prevDone = best
  /\ since <= (IF pc = "dispatch" THEN nomerge ELSE nomerge + 1)
  /\ DispatchesBetweenLandings

\* The board that was read differs from the board only where a card has moved, and a
\* run that calls itself done has ended on a board that was drained.
Known ==
  /\ \A c \in Card : column[c] # cache[c] => c \in moved
  /\ why = "done" => pc = "ended" /\ Active(cache) = {}

PInv == LType /\ Paced
KInv == LType /\ Known

-----------------------------------------------------------------------------

LEMMA CountTyped ==
  ASSUME NEW b, NEW s
  PROVE  Count(b, s) \in 0..Cardinality(Card)
<1> DEFINE S == {c \in Card : b[c] = s}
<1>1. IsFiniteSet(Card)
  BY LoopAssumption
<1>2. IsFiniteSet(S) /\ Cardinality(S) <= Cardinality(Card)
  BY <1>1, FS_Subset
<1>3. Cardinality(S) \in Nat /\ Cardinality(Card) \in Nat
  BY <1>1, <1>2, FS_CardinalityType
<1>4. Count(b, s) = Cardinality(S)
  BY DEF Count
<1> HIDE DEF S
<1> QED BY <1>2, <1>3, <1>4

LEMMA LTypeInit == Init => LType
<1> SUFFICES ASSUME Init PROVE LType
  OBVIOUS
<1>1. Count(column, "Done") \in 0..Cardinality(Card)
  BY CountTyped
<1>2. {alive, busy, wave} \subseteq BOOLEAN /\ (alive => laneCard \in Card)
  BY DEF Init
<1>3. TypeOK
  BY <1>1, <1>2, LoopAssumption DEF Init, TypeOK
<1> QED BY <1>3, LoopAssumption DEF Init, LType, Counts, Going

LEMMA LTypeRun == LType /\ RunStep => LType'
<1> SUFFICES ASSUME LType, RunStep PROVE LType'
  OBVIOUS
<1> USE LoopAssumption DEF LType, TypeOK, Counts, Going
<1>1. CASE WaveHalt
  BY <1>1 DEF WaveHalt, End, counters, history
<1>2. CASE CeilingHalt
  BY <1>2 DEF CeilingHalt, Drain, counters, history
<1>3. CASE CheapTick
  BY <1>3 DEF CheapTick, CeilingReached, SurvivesSweep, Sleep, counters, history
<1>4. CASE CannotRead
  BY <1>4 DEF CannotRead, Drain, counters, history
<1>5. CASE ReadBoard
  BY <1>5 DEF ReadBoard, SurvivesSweep, counters, history
<1>6. CASE Gates
  <2> DEFINE done == Count(cache, "Done")
  <2>1. done \in 0..Cardinality(Card)
    BY CountTyped
  <2> HIDE DEF done
  <2>2. /\ pc = "gates" /\ CountLanding(done)
        /\ \/ End("no-merge")
           \/ End("done")
           \/ nomerge' < HaltTicks /\ pc' = "dispatch" /\ UNCHANGED why
        /\ best' = (IF done > best THEN done ELSE best)
        /\ since' = (IF done > best THEN 0 ELSE since)
        /\ UNCHANGED <<maxWorkers, column, cache, laneCard, alive, busy, wave, elapsed, dispatches,
                       noprogress, drained, moved>>
    BY <1>6 DEF Gates, done, CountLanding, Landed
  <2>3. nomerge' \in 0..HaltTicks /\ prevDone' \in 0..Cardinality(Card)
    BY <2>1, <2>2 DEF CountLanding, Landed
  <2>4. best' \in 0..Cardinality(Card) /\ since' \in Nat
    BY <2>1, <2>2
  <2>5. /\ pc' \in {"ended", "dispatch"}
        /\ why' \in {"no-merge", "done", why}
        /\ pc' = "dispatch" => nomerge' < HaltTicks
    BY <2>2 DEF End
  <2>6. TypeOK'
    BY <2>2, <2>3, <2>4, <2>5
  <2> QED BY <2>2, <2>5, <2>6
<1>7. CASE TryNothing
  BY <1>7 DEF TryNothing, Sleep, counters, history
<1>8. CASE NoProgressHalt
  BY <1>8 DEF NoProgressHalt, End, counters, history
<1>9. ASSUME NEW c \in Card, TryCard(c)
      PROVE  LType'
  <2>1. /\ pc = "dispatch" /\ pc' = "head" /\ elapsed' = elapsed + 1 /\ noprogress' = 0
        /\ UNCHANGED <<maxWorkers, column, cache, busy, wave, why, nomerge, prevDone, drained,
                       moved, best>>
    BY <1>9 DEF TryCard, Sleep
  <2>2. \/ /\ alive' = TRUE /\ laneCard' = c
           /\ dispatches' = dispatches + 1 /\ since' = since + 1
        \/ UNCHANGED <<alive, laneCard, dispatches, since>>
    BY <1>9 DEF TryCard
  <2>3. dispatches' \in 0..MaxDispatches /\ elapsed' \in 0..MaxTicks /\ since' \in Nat
    BY <2>1, <2>2
  <2>4. laneCard' \in Card \cup {None} /\ alive' \in BOOLEAN /\ (alive' => laneCard' \in Card)
    <3>1. CASE alive' = TRUE /\ laneCard' = c
      BY <3>1
    <3>2. CASE UNCHANGED <<alive, laneCard>>
      BY <3>2
    <3> QED BY <2>2, <3>1, <3>2
  <2> QED BY <2>1, <2>3, <2>4
<1>10. CASE DrainWait \/ DrainEnd
  BY <1>10 DEF DrainWait, DrainEnd, counters, history
<1> QED BY <1>1, <1>2, <1>3, <1>4, <1>5, <1>6, <1>7, <1>8, <1>9, <1>10 DEF RunStep

LEMMA LTypeEnv == LType /\ EnvStep => LType'
<1> SUFFICES ASSUME LType, EnvStep PROVE LType'
  OBVIOUS
<1> USE LoopAssumption DEF LType, TypeOK, Counts, Going
<1>1. CASE WorkerExits
  <2>1. {alive', busy', wave'} \subseteq BOOLEAN /\ ~alive'
    BY <1>1 DEF WorkerExits
  <2> QED BY <1>1, <2>1 DEF WorkerExits, counters, history
<1>3. CASE WaveStarts
  <2>1. {alive', busy', wave'} \subseteq BOOLEAN
    BY <1>3 DEF WaveStarts
  <2> QED BY <1>3, <2>1 DEF WaveStarts, counters, history
<1>2. ASSUME NEW c \in Card, NEW s \in Status, CardMoves(c, s)
      PROVE  LType'
  BY <1>2 DEF CardMoves, counters
<1> QED BY <1>1, <1>2, <1>3 DEF EnvStep

LEMMA LTypeStep == LType /\ [Next]_vars => LType'
<1>1. ASSUME LType, UNCHANGED vars
      PROVE  LType'
  BY <1>1 DEF LType, TypeOK, Counts, vars, counters, history
<1> QED BY <1>1, LTypeRun, LTypeEnv DEF Next

\* Types and bounds of the main loop: the ceiling on dispatches, the limits of the
\* three counters and of the wait at the end.
THEOREM LoopTypes == Spec => []TypeOK
<1>1. Init => LType
  BY LTypeInit
<1>2. LType /\ [Next]_vars => LType'
  BY LTypeStep
<1>3. LType => TypeOK
  BY DEF LType
<1> QED BY <1>1, <1>2, <1>3, PTL DEF Spec

-----------------------------------------------------------------------------
(* The zero-merge gate. *)

LEMMA PacedInit == Init => Paced
BY LoopAssumption DEF Init, Paced, DispatchesBetweenLandings

LEMMA PacedStep == PInv /\ [Next]_vars => Paced'
<1> SUFFICES ASSUME PInv, [Next]_vars PROVE Paced'
  OBVIOUS
<1> USE LoopAssumption DEF PInv, Paced, DispatchesBetweenLandings
<1>1. /\ nomerge \in 0..HaltTicks /\ since \in Nat /\ HaltTicks \in Nat \ {0}
      /\ pc \in Going => nomerge < HaltTicks
  BY DEF LType, TypeOK, Counts
<1>2. CASE Gates
  <2> DEFINE done == Count(cache, "Done")
  <2>1. /\ CountLanding(done)
        /\ pc = "gates"
        /\ pc' \in {"ended", "dispatch"}
        /\ best' = (IF done > best THEN done ELSE best)
        /\ since' = (IF done > best THEN 0 ELSE since)
    BY <1>2 DEF Gates, End
  <2> HIDE DEF done
  <2>2. CASE Landed(done)
    BY <1>1, <2>1, <2>2 DEF CountLanding, Landed
  <2>3. CASE ~Landed(done)
    BY <1>1, <2>1, <2>3 DEF CountLanding, Landed, Going
  <2> QED BY <2>2, <2>3
<1>3. ASSUME NEW c \in Card, TryCard(c)
      PROVE  Paced'
  <2>1. /\ pc = "dispatch" /\ pc' = "head" /\ UNCHANGED <<nomerge, prevDone, best>>
        /\ since' \in {since, since + 1}
    BY <1>3 DEF TryCard, Sleep
  <2> QED BY <1>1, <2>1 DEF Going
<1>4. CASE /\ UNCHANGED <<nomerge, prevDone, best, since>>
           /\ pc' = "dispatch" => pc = "dispatch"
  BY <1>1, <1>4
<1>5. CASE WaveHalt \/ CeilingHalt \/ CheapTick \/ CannotRead \/ ReadBoard
  BY <1>4, <1>5 DEF WaveHalt, CeilingHalt, CheapTick, CannotRead, ReadBoard, End, Drain, Sleep,
                    counters, history
<1>6. CASE TryNothing \/ NoProgressHalt \/ DrainWait \/ DrainEnd
  BY <1>4, <1>6 DEF TryNothing, NoProgressHalt, DrainWait, DrainEnd, End, Sleep, counters, history
<1>7. CASE EnvStep \/ UNCHANGED vars
  BY <1>4, <1>7 DEF EnvStep, WorkerExits, WaveStarts, CardMoves, vars, counters, history
<1> QED BY <1>2, <1>3, <1>5, <1>6, <1>7 DEF Next, RunStep

\* The token-runaway gate: between two rises of the Done column above all it has
\* been, at most HaltTicks workers are started, for any board, any moves of its cards
\* and any limits.
THEOREM LandingsPaceDispatches == Spec => []DispatchesBetweenLandings
<1>1. Init => PInv
  BY LTypeInit, PacedInit DEF PInv
<1>2. PInv /\ [Next]_vars => PInv'
  BY LTypeStep, PacedStep DEF PInv
<1>3. PInv => DispatchesBetweenLandings
  BY DEF PInv, Paced
<1> QED BY <1>1, <1>2, <1>3, PTL DEF Spec

-----------------------------------------------------------------------------
(* The done condition. *)

LEMMA KnownInit == Init => Known
BY DEF Init, Known

LEMMA KnownStep == KInv /\ [Next]_vars => Known'
<1> SUFFICES ASSUME KInv, [Next]_vars PROVE Known'
  OBVIOUS
<1> USE DEF KInv, Known
<1>1. column \in [Card -> Status]
  BY DEF LType, TypeOK
<1>2. CASE /\ UNCHANGED <<column, cache, moved>>
           /\ why' # "done" \/ UNCHANGED <<pc, why>>
  BY <1>2 DEF Active
<1>3. CASE Gates
  <2>1. /\ UNCHANGED <<column, cache, moved>> /\ pc = "gates"
        /\ why' = "done" => why = "done" \/ (pc' = "ended" /\ Active(cache) = {})
    BY <1>3 DEF Gates, End
  <2> QED BY <2>1 DEF Active
<1>4. CASE ReadBoard
  BY <1>4 DEF ReadBoard
<1>5. ASSUME NEW c \in Card, NEW s \in Status, pc # "ended", CardMoves(c, s)
      PROVE  Known'
  BY <1>1, <1>5 DEF CardMoves
<1>6. CASE WaveHalt \/ CeilingHalt \/ CheapTick \/ CannotRead
  BY <1>2, <1>6 DEF WaveHalt, CeilingHalt, CheapTick, CannotRead, End, Drain, history
<1>7. CASE TryNothing \/ NoProgressHalt \/ DrainWait \/ DrainEnd
  BY <1>2, <1>7 DEF TryNothing, NoProgressHalt, DrainWait, DrainEnd, End, history
<1>8. ASSUME NEW c \in Card, TryCard(c)
      PROVE  Known'
  BY <1>2, <1>8 DEF TryCard
<1>9. CASE (pc # "ended" /\ (WorkerExits \/ WaveStarts)) \/ UNCHANGED vars
  BY <1>2, <1>9 DEF WorkerExits, WaveStarts, vars, history
<1> QED BY <1>3, <1>4, <1>5, <1>6, <1>7, <1>8, <1>9 DEF Next, RunStep, EnvStep

\* A run that says the board is drained tells the truth of the board it read: every
\* card still in the pipeline has moved there since. A board that cannot be read is
\* never taken for one.
THEOREM DoneIsDrained == Spec => []DoneMeansDrained
<1>1. Init => KInv
  BY LTypeInit, KnownInit DEF KInv
<1>2. KInv /\ [Next]_vars => KInv'
  BY LTypeStep, KnownStep DEF KInv
<1>3. KInv => DoneMeansDrained
  <2> SUFFICES ASSUME KInv, why = "done", NEW c \in Active(column)
               PROVE  c \in moved
    BY DEF DoneMeansDrained
  <2>1. c \in Card /\ column[c] \in {"Ready", "Building", "QA"} /\ c \notin Active(cache)
    BY DEF KInv, Known, Active
  <2> QED BY <2>1 DEF KInv, Known, Active
<1> QED BY <1>1, <1>2, <1>3, PTL DEF Spec
=============================================================================
