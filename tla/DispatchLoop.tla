----------------------------- MODULE DispatchLoop -----------------------------
(***************************************************************************)
(* The main loop of scripts/super-board-run.sh: what one run of one        *)
(* dispatcher counts, when it halts, and with which outcome. Locks and     *)
(* claims are module Dispatcher's; here a dispatch starts a worker or is   *)
(* refused, and the lane is either busy or idle.                           *)
(*                                                                         *)
(* Only the entry lane ever gets a worker, so there is one at most. Time   *)
(* is counted in ticks: MaxTicks of them make max_hours.                   *)
(***************************************************************************)
EXTENDS Naturals, FiniteSets

CONSTANTS
  Card,
  Status,          \* board columns: "QA" stands for QA and Review
  MaxWorkers,      \* the largest config.max_workers considered
  MaxDispatches, MaxTicks,
  HaltTicks,       \* noprogress_halt_ticks
  IdleTicks,       \* the 3 ticks of the no-progress gate
  DrainTicks,      \* max_drain_ticks
  None

ASSUME LoopAssumption ==
  /\ {"Ready", "Building", "QA", "Done"} \subseteq Status
  /\ {MaxWorkers, MaxDispatches, MaxTicks, HaltTicks, IdleTicks, DrainTicks} \subseteq Nat \ {0}
  /\ IsFiniteSet(Card) /\ None \notin Card

VARIABLES
  maxWorkers,  \* config.max_workers
  column,      \* the board
  cache,       \* the board as last read
  laneCard,    \* BUILD_ISSUE
  alive,       \* is the lane's worker alive?
  busy,        \* the lane as the tick last looked at it: *_IDLE = 0
  wave,        \* does workflow-wave.lock exist?
  pc,          \* where the run is
  why,         \* why it is draining, or has ended
  elapsed,     \* ticks since RUN_START_EPOCH
  dispatches,  \* TOTAL_DISPATCHES
  nomerge,     \* NOMERGE_TICKS
  prevDone,    \* PREV_DONE_COUNT
  noprogress,  \* NO_PROGRESS_TICKS
  drained,     \* wait_ticks of drain_in_flight
  moved,       \* history: the cards that moved since the board was read
  best, since  \* history: the most Done cards ever read, the dispatches since

counters == <<elapsed, dispatches, nomerge, prevDone, noprogress, drained>>
history == <<moved, best, since>>
vars == <<maxWorkers, column, cache, laneCard, alive, busy, wave, pc, why, counters, history>>

Count(b, s) == Cardinality({c \in Card : b[c] = s})
Active(b) == {c \in Card : b[c] \in {"Ready", "Building", "QA"}}

Init ==
  /\ maxWorkers \in 1..MaxWorkers
  /\ column \in [Card -> Status]
  /\ cache = column
  /\ laneCard = None /\ alive = FALSE /\ busy = FALSE /\ wave = FALSE
  /\ pc = "head" /\ why = "running"
  /\ prevDone = Count(column, "Done") /\ best = prevDone
  /\ elapsed = 0 /\ dispatches = 0 /\ nomerge = 0 /\ noprogress = 0 /\ drained = 0
  /\ moved = {} /\ since = 0

End(reason) == pc' = "ended" /\ why' = reason
Drain(reason) == pc' = "drain" /\ why' = reason
Sleep == pc' = "head" /\ elapsed' = elapsed + 1

-----------------------------------------------------------------------------
(* The head of a tick. *)

\* A wave of the workflow backend has appeared: exit 74, workers left alone.
WaveHalt ==
  /\ pc = "head" /\ wave
  /\ End("wave")
  /\ UNCHANGED <<maxWorkers, column, cache, laneCard, alive, busy, wave, counters, history>>

CeilingReached == elapsed >= MaxTicks \/ dispatches >= MaxDispatches

CeilingHalt ==
  /\ pc = "head" /\ ~wave /\ CeilingReached
  /\ Drain("ceiling")
  /\ UNCHANGED <<maxWorkers, column, cache, laneCard, alive, busy, wave, counters, history>>

\* sweep_lane_zombies on board b: the worker survives if its card is in place.
SurvivesSweep(b) == alive /\ b[laneCard] \in {"Ready", "Building"}

\* The sweep on the last board read; at the cap, the tick ends here.
CheapTick ==
  /\ pc = "head" /\ ~wave /\ ~CeilingReached
  /\ alive' = SurvivesSweep(cache)
  /\ IF (IF alive' THEN 1 ELSE 0) >= maxWorkers
     THEN Sleep
     ELSE pc' = "read" /\ UNCHANGED elapsed
  /\ UNCHANGED <<maxWorkers, column, cache, laneCard, busy, wave, why, history,
                 dispatches, nomerge, prevDone, noprogress, drained>>

-----------------------------------------------------------------------------
(* The expensive part of a tick. *)

\* Mutant of CannotRead: a board that cannot be read is an empty one.
UnreadableIsEmpty ==
  /\ pc = "read"
  /\ cache' = [c \in Card |-> "Done"]
  /\ busy' = alive
  /\ moved' = {}
  /\ pc' = "gates"
  /\ UNCHANGED <<maxWorkers, column, laneCard, alive, wave, why, counters, best, since>>

\* gh_quota_guard (exit 75) and halt_unreadable_board (exit 65).
CannotRead ==
  /\ pc = "read"
  /\ \E reason \in {"quota", "unreadable"} : Drain(reason)
  /\ UNCHANGED <<maxWorkers, column, cache, laneCard, alive, busy, wave, counters, history>>

\* The board, the second sweep, and the lane as the rest of the tick sees it.
ReadBoard ==
  /\ pc = "read"
  /\ cache' = column
  /\ alive' = SurvivesSweep(column)
  /\ busy' = alive'
  /\ moved' = {}
  /\ pc' = "gates"
  /\ UNCHANGED <<maxWorkers, column, laneCard, wave, why, counters, best, since>>

Landed(done) == done > prevDone

\* Mutant of CountLanding: the count is compared with the last tick's.
CountFromLastTick(done) ==
  /\ prevDone' = done
  /\ nomerge' = IF Landed(done) THEN 0 ELSE nomerge + 1

CountLanding(done) ==
  /\ prevDone' = IF Landed(done) THEN done ELSE prevDone
  /\ nomerge' = IF Landed(done) THEN 0 ELSE nomerge + 1

\* The zero-merge gate, then the done condition, then on to the dispatch.
Gates ==
  LET done == Count(cache, "Done") IN
  /\ pc = "gates"
  /\ CountLanding(done)
  /\ CASE nomerge' >= HaltTicks -> End("no-merge")
       [] nomerge' < HaltTicks /\ Active(cache) = {} /\ ~busy -> End("done")
       [] OTHER -> pc' = "dispatch" /\ UNCHANGED why
  /\ best' = IF done > best THEN done ELSE best
  /\ since' = IF done > best THEN 0 ELSE since
  /\ UNCHANGED <<maxWorkers, column, cache, laneCard, alive, busy, wave, elapsed, dispatches,
                 noprogress, drained, moved>>

\* A card the plan returned is tried; it starts a worker, or is refused on the
\* way. Both count as progress.
TryCard(c) ==
  /\ pc = "dispatch" /\ ~busy /\ cache[c] = "Ready"
  /\ \/ /\ alive' = TRUE /\ laneCard' = c
        /\ dispatches' = dispatches + 1 /\ since' = since + 1
     \/ UNCHANGED <<alive, laneCard, dispatches, since>>
  /\ noprogress' = 0
  /\ Sleep
  /\ UNCHANGED <<maxWorkers, column, cache, busy, wave, why, nomerge, prevDone, drained, moved, best>>

\* Nothing may be dispatched, or the eligibility call has failed.
TryNothing ==
  /\ pc = "dispatch"
  /\ noprogress' = IF busy THEN 0 ELSE noprogress + 1
  /\ noprogress' < IdleTicks
  /\ Sleep
  /\ UNCHANGED <<maxWorkers, column, cache, laneCard, alive, busy, wave, why,
                 dispatches, nomerge, prevDone, drained, history>>

NoProgressHalt ==
  /\ pc = "dispatch" /\ ~busy /\ noprogress + 1 >= IdleTicks
  /\ noprogress' = noprogress + 1
  /\ End("no-progress")
  /\ UNCHANGED <<maxWorkers, column, cache, laneCard, alive, busy, wave, elapsed,
                 dispatches, nomerge, prevDone, drained, history>>

-----------------------------------------------------------------------------
(* drain_in_flight. *)

DrainWait ==
  /\ pc = "drain" /\ alive /\ drained < DrainTicks
  /\ drained' = drained + 1
  /\ UNCHANGED <<maxWorkers, column, cache, laneCard, alive, busy, wave, pc, why, history,
                 elapsed, dispatches, nomerge, prevDone, noprogress>>

\* Mutant of DrainEnd: no limit on the wait.
DrainForever ==
  /\ pc = "drain" /\ ~alive
  /\ pc' = "ended"
  /\ UNCHANGED <<maxWorkers, column, cache, laneCard, alive, busy, wave, why, counters, history>>

DrainEnd ==
  /\ pc = "drain"
  /\ ~alive \/ drained = DrainTicks
  /\ pc' = "ended"
  /\ UNCHANGED <<maxWorkers, column, cache, laneCard, alive, busy, wave, why, counters, history>>

-----------------------------------------------------------------------------
(* The environment: the worker, the board, the other backend. *)

WorkerExits ==
  /\ alive
  /\ alive' = FALSE
  /\ UNCHANGED <<maxWorkers, column, cache, laneCard, busy, wave, pc, why, counters, history>>

CardMoves(c, s) ==
  /\ column[c] # s
  /\ column' = [column EXCEPT ![c] = s]
  /\ moved' = moved \cup {c}
  /\ UNCHANGED <<maxWorkers, cache, laneCard, alive, busy, wave, pc, why, counters, best, since>>

WaveStarts ==
  /\ ~wave /\ wave' = TRUE
  /\ UNCHANGED <<maxWorkers, column, cache, laneCard, alive, busy, pc, why, counters, history>>

RunStep ==
  \/ WaveHalt \/ CeilingHalt \/ CheapTick
  \/ CannotRead \/ ReadBoard \/ Gates
  \/ TryNothing \/ NoProgressHalt \/ \E c \in Card : TryCard(c)
  \/ DrainWait \/ DrainEnd

EnvStep ==
  /\ pc # "ended"
  /\ WorkerExits \/ WaveStarts \/ \E c \in Card, s \in Status : CardMoves(c, s)

Next == RunStep \/ EnvStep
Spec == Init /\ [][Next]_vars
FairSpec == Spec /\ WF_vars(RunStep)

-----------------------------------------------------------------------------
(* Properties. *)

\* Types, and the ceiling on dispatches.
TypeOK ==
  /\ maxWorkers \in 1..MaxWorkers
  /\ column \in [Card -> Status] /\ cache \in [Card -> Status]
  /\ laneCard \in Card \cup {None} /\ {alive, busy, wave} \subseteq BOOLEAN
  /\ alive => laneCard \in Card
  /\ pc \in {"head", "read", "gates", "dispatch", "drain", "ended"}
  /\ why \in {"running", "wave", "ceiling", "quota", "unreadable", "no-merge", "done", "no-progress"}
  /\ elapsed \in 0..MaxTicks /\ dispatches \in 0..MaxDispatches
  /\ nomerge \in 0..HaltTicks /\ noprogress \in 0..IdleTicks /\ drained \in 0..DrainTicks
  /\ prevDone \in 0..Cardinality(Card) /\ best \in 0..Cardinality(Card)
  /\ moved \subseteq Card /\ since \in Nat

\* A run that says the board is drained tells the truth of the board it read:
\* every card still in the pipeline has moved there since. An unreadable board
\* never looks like a drained one.
DoneMeansDrained == why = "done" => Active(column) \subseteq moved

\* The token-runaway gate: between two rises of the Done column above all it has
\* been, at most HaltTicks workers are started, however cards come and go.
DispatchesBetweenLandings == since <= HaltTicks

\* Every run ends, with a worker that hangs, a board that never empties and
\* dispatches that are refused for ever.
EveryRunEnds == <>(pc = "ended")

=============================================================================
