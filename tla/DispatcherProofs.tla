--------------------------- MODULE DispatcherProofs ---------------------------
(***************************************************************************)
(* What scripts/super-board-run.sh and super-board-stop.sh guarantee for   *)
(* any number of dispatchers, hosts, identities, cards and workers: the    *)
(* in-flight lock file on a shared host (see Undisturbed), the lane where  *)
(* a dispatcher has its host for itself (OwnHost), the claim between       *)
(* identities (Apart, Calm), and the stop, with no hypothesis.             *)
(***************************************************************************)
EXTENDS DispatchStop, TLAPS

\* The hypothesis of the exclusion theorem. GitHub calls may fail and halts may
\* come at any time; each of the other events breaks exclusion on a shared host.
Undisturbed ==
  Env \cap {"slow-claim", "blind-unlink", "crash"} = {}

BlindSteps ==
  {"reap-unlink", "zombie-unlink", "unlink", "misread"}

\* A worker that was spawned has a dispatcher and a card.
Born ==
  \A p \in Pid : wstate[p] # "unborn" => wby[p] \in Dispatcher /\ wcard[p] \in Card

\* The shell functions that work on a card have one.
HasCard ==
  \A d \in Dispatcher :
    pc[d] \in ClaimSteps \cup {"lock", "unlink", "misread", "reap-unlink", "reap-release"} => cur[d] \in Card

\* A dispatcher that claims a card holds its lock file, with no PID in it yet.
ClaimerHoldsLock ==
  \A d \in Dispatcher :
    pc[d] \in ClaimSteps => lock[HostOf[d]][cur[d]] = "claiming"

\* ... and no other dispatcher of the host is claiming the same card.
OneClaimer ==
  \A d, e \in Dispatcher :
    pc[d] \in ClaimSteps /\ pc[e] \in ClaimSteps /\ HostOf[d] = HostOf[e]
      /\ cur[d] = cur[e] => d = e

\* The child of a dispatcher about to record it.
ChildKnown ==
  \A d \in Dispatcher : pc[d] = "record" =>
    child[d] \in Pid /\ wstate[child[d]] # "unborn"
      /\ wby[child[d]] = d /\ wcard[child[d]] = cur[d]

\* The lane variables name a worker of this dispatcher and its card.
LaneKnown ==
  \A d \in Dispatcher : lanePid[d] # NoPid =>
    wstate[lanePid[d]] # "unborn" /\ wby[lanePid[d]] = d
      /\ wcard[lanePid[d]] = laneCard[d]

NoBlindStep == \A d \in Dispatcher : pc[d] \notin BlindSteps

TInv == TypeOK /\ Born /\ HasCard

LockInv ==
  /\ TInv
  /\ ClaimerHoldsLock /\ OneClaimer
  /\ ChildKnown /\ LaneKnown
  /\ NoBlindStep
  /\ LiveWorkerTracked

-----------------------------------------------------------------------------
(* Type correctness, with what it needs: no hypothesis on Env. *)

\* The initial states are well typed.
LEMMA TypeInit == Init => TInv
BY DispatcherAssumption DEF Init, TInv, TypeOK, Born, HasCard, ClaimSteps, Steps, PidlessLocks

\* Giving a claim back leaves a well-typed assignee map.
LEMMA ReleaseTyped ==
  ASSUME NEW d \in Dispatcher, NEW c, assignees \in [Card -> SUBSET Login], ReleaseClaim(d, c)
  PROVE  assignees' \in [Card -> SUBSET Login]
<1>1. CASE assignees' = [assignees EXCEPT ![c] = @ \ {LoginOf[d]}]
  BY <1>1
<1>2. CASE UNCHANGED assignees
  BY <1>2
<1> QED BY <1>1, <1>2 DEF ReleaseClaim

LockType == [Host -> [Card -> Pid \cup PidlessLocks \cup {"free"}]]

\* Unlinking goes to one of its two steps and leaves well-typed lock files.
LEMMA UnlinkTyped ==
  ASSUME NEW d \in Dispatcher, NEW c, NEW later, NEW done, lock \in LockType,
         Unlink(d, c, later, done)
  PROVE  lock' \in LockType /\ (Goto(d, later) \/ Goto(d, done))
<1> HostOf[d] \in Host
  BY DispatcherAssumption
<1>1. CASE "blind-unlink" \in Env
  BY <1>1 DEF Unlink
<1>2. CASE "blind-unlink" \notin Env
  BY <1>2 DEF Unlink, SetLock, LockType
<1> QED BY <1>1, <1>2

\* Every step keeps the types, whatever Env allows.
LEMMA TypeStep == TInv /\ [Next]_vars => TInv'
<1> SUFFICES ASSUME TInv, [Next]_vars PROVE TInv'
  OBVIOUS
<1> USE DispatcherAssumption
    DEF TInv, TypeOK, Born, HasCard, ClaimSteps, Steps, PidlessLocks, Goto,
        board, workers, locals
<1>1. ASSUME NEW d \in Dispatcher, DispatcherStep(d) PROVE TInv'
  <2>1. CASE Tick(d)
    BY <2>1 DEF Tick, LocksOn
  <2>2. CASE ReapUnlink(d)
    BY <2>2 DEF ReapUnlink, SetLock
  <2>3. CASE ReapRelease(d)
    <3> assignees' \in [Card -> SUBSET Login]
      BY <2>3, ReleaseTyped DEF ReapRelease
    <3> QED BY <2>3 DEF ReapRelease
  <2>4. CASE ReapDone(d)
    BY <2>4 DEF ReapDone
  <2>5. CASE SweepKill(d)
    <3>1. lock' \in LockType /\ (Goto(d, "zombie-unlink") \/ Goto(d, "zombie-release"))
      BY <2>5, UnlinkTyped DEF SweepKill, LockType
    <3>2. lanePid[d] \in Pid /\ wstate[lanePid[d]] # "unborn"
      BY <2>5 DEF SweepKill, LaneZombie, LaneIdle, Alive
    <3>3. /\ wstate' \in [Pid -> {"unborn", "spawned", "working", "lingering", "dead"}]
        /\ \A p \in Pid : wstate'[p] # "unborn" => wstate[p] # "unborn"
      BY <2>5, <3>2 DEF SweepKill
    <3> HIDE DEF Goto
    <3>4. pc' \in [Dispatcher -> Steps] /\ \A e \in Dispatcher : pc'[e] = pc[e] \/ (e = d /\ pc'[e] \in {"zombie-unlink", "zombie-release"})
      BY <3>1 DEF Goto
    <3> QED BY <2>5, <3>1, <3>3, <3>4 DEF SweepKill, LockType
  <2>6. CASE ZombieUnlink(d)
    BY <2>6 DEF ZombieUnlink, SetLock
  <2>7. CASE ZombieRelease(d)
    <3> assignees' \in [Card -> SUBSET Login]
      BY <2>7, ReleaseTyped DEF ZombieRelease
    <3> QED BY <2>7 DEF ZombieRelease
  <2>8. CASE SweepDone(d)
    BY <2>8 DEF SweepDone
  <2>9. CASE Fetch(d)
    BY <2>9 DEF Fetch
  <2>10. CASE ChosenUnlink(d)
    BY <2>10 DEF ChosenUnlink, SetLock
  <2>11. CASE NothingToDispatch(d)
    BY <2>11 DEF NothingToDispatch, EndTick, ForgetTick
  <2>12. CASE TakeLock(d)
    BY <2>12 DEF TakeLock, SetLock
  <2>13. CASE LockTaken(d)
    BY <2>13 DEF LockTaken, EndTick, ForgetTick
  <2>14. CASE PermitClaim(d)
    BY <2>14 DEF PermitClaim
  <2>15. CASE AddAssignee(d)
    <3>1. assignees' \in [Card -> SUBSET Login]
      <4>1. LoginOf[d] \in Login
        OBVIOUS
      <4>2. CASE UNCHANGED assignees
        BY <4>2
      <4>3. CASE assignees' = [assignees EXCEPT ![cur[d]] = @ \cup {LoginOf[d]}]
        BY <4>1, <4>3
      <4> QED BY <2>15, <4>2, <4>3 DEF AddAssignee
    <3>2. Goto(d, "verify") \/ Goto(d, "drop")
      BY <2>15 DEF AddAssignee
    <3> QED BY <2>15, <3>1, <3>2 DEF AddAssignee
  <2>16. CASE VerifyClaim(d)
    BY <2>16 DEF VerifyClaim
  <2>17. CASE PermitLaunch(d)
    BY <2>17 DEF PermitLaunch
  <2>18. CASE Spawn(d)
    BY <2>18 DEF Spawn
  <2>19. CASE SpawnBound(d)
    BY <2>19 DEF SpawnBound
  <2>20. CASE SpawnFailed(d)
    BY <2>20 DEF SpawnFailed
  <2>21. CASE RecordPid(d)
    BY <2>21 DEF RecordPid, SetLock, EndTick, ForgetTick, Alive
  <2>22. CASE Unclaim(d)
    <3> assignees' \in [Card -> SUBSET Login]
      BY <2>22, ReleaseTyped DEF Unclaim
    <3> QED BY <2>22 DEF Unclaim
  <2>23. CASE DropLock(d)
    BY <2>23 DEF DropLock, SetLock, EndTick, ForgetTick
  <2>27. ASSUME NEW c \in Card, ReapKeep(d, c) \/ ReapJudge(d, c) \/ SkipLocked(d, c)
                          \/ Choose(d, c) \/ Misread(d, c)
         PROVE TInv'
    <3>1. CASE ReapKeep(d, c)
      BY <3>1 DEF ReapKeep
    <3>2. CASE ReapJudge(d, c)
      <4>1. lock' \in LockType /\ (Goto(d, "reap-unlink") \/ Goto(d, "reap-release"))
        BY <3>2, UnlinkTyped DEF ReapJudge, LockType
      <4> QED BY <3>2, <4>1 DEF ReapJudge, LockType
    <3>3. CASE SkipLocked(d, c)
      BY <3>3 DEF SkipLocked
    <3>4. CASE Choose(d, c)
      <4>1. lock' \in LockType /\ (Goto(d, "unlink") \/ Goto(d, "lock"))
        BY <3>4, UnlinkTyped DEF Choose, LockType
      <4> QED BY <3>4, <4>1 DEF Choose, LockType
    <3>6. CASE Misread(d, c)
      <4>1. lock' \in LockType /\ (Goto(d, "misread") \/ Goto(d, "select"))
        BY <3>6, UnlinkTyped DEF Misread, LockType
      <4> QED BY <3>6, <4>1 DEF Misread, LockType
    <3> QED BY <2>27, <3>1, <3>2, <3>3, <3>4, <3>6
  <2> QED BY <1>1, <2>1, <2>2, <2>3, <2>4, <2>5, <2>6, <2>7, <2>8, <2>9, <2>10, <2>11, <2>12, <2>13, <2>14, <2>15, <2>16, <2>17, <2>18, <2>19, <2>20, <2>21, <2>22, <2>23, <2>27 DEF DispatcherStep
<1>2. ASSUME NEW d \in Dispatcher, Start(d) PROVE TInv'
  BY <1>2 DEF Start, LocksOn
<1>3. ASSUME NEW d \in Dispatcher, Halt(d) PROVE TInv'
  BY <1>3 DEF Halt, ForgetAll, ForgetTick, NoBoard
<1>4. ASSUME NEW d \in Dispatcher, Crash(d) PROVE TInv'
  BY <1>4 DEF Crash, Killed, ForgetAll, ForgetTick, NoBoard
<1>6. ASSUME NEW h \in Host, NEW c \in Card, GraceExpires(h, c) PROVE TInv'
  BY <1>6 DEF GraceExpires, SetLock
<1>7. ASSUME NEW p \in Pid, WorkerClaims(p) PROVE TInv'
  BY <1>7 DEF WorkerClaims
<1>8. ASSUME NEW p \in Pid, WorkerReleases(p) PROVE TInv'
  BY <1>8 DEF WorkerReleases
<1>9. ASSUME NEW p \in Pid, WorkerExits(p) PROVE TInv'
  BY <1>9 DEF WorkerExits, Alive
<1>10. ASSUME NEW c \in Card, NEW s \in Status, CardMoves(c, s) PROVE TInv'
  BY <1>10 DEF CardMoves
<1>11. CASE UNCHANGED vars
  BY <1>11 DEF vars
<1> QED
  BY <1>1, <1>2, <1>3, <1>4, <1>6, <1>7, <1>8, <1>9, <1>10, <1>11 DEF Next

\* Every reachable state is well typed, whatever the environment does; the shell
\* never works on a card it has not named.
THEOREM TypeCorrect == Spec => []TypeOK
<1>1. TInv => TypeOK
  BY DEF TInv
<1> QED BY <1>1, TypeInit, TypeStep, PTL DEF Spec

-----------------------------------------------------------------------------
(* Exclusion by the lock file, on a shared host, when Undisturbed. *)

\* A step that neither touches a lock file, nor starts a worker, nor begins or
\* forgets a claim, keeps the lock invariant.
LEMMA QuietStep ==
  ASSUME LockInv, TInv', UNCHANGED <<lock, wcard, wby>>,
         \A p \in Pid : /\ Alive(p)' => Alive(p)
                        /\ wstate[p] # "unborn" => wstate'[p] # "unborn",
         \A e \in Dispatcher :
           /\ pc'[e] \in ClaimSteps => pc[e] \in ClaimSteps /\ cur'[e] = cur[e]
           /\ pc'[e] = "record" => pc[e] = "record" /\ child'[e] = child[e]
           /\ \A p \in Pid :
                pc[e] = "record" /\ child[e] = p /\ Alive(p)' => pc'[e] = "record"
           /\ pc'[e] \notin BlindSteps
           /\ lanePid'[e] # NoPid => lanePid'[e] = lanePid[e] /\ laneCard'[e] = laneCard[e]
  PROVE  LockInv'
<1> USE DEF LockInv
<1>1. ClaimerHoldsLock'
  BY DEF ClaimerHoldsLock
<1>2. OneClaimer'
  BY DEF OneClaimer
<1>3. ChildKnown'
  BY DEF ChildKnown, ClaimSteps
<1>4. LaneKnown'
  BY DEF LaneKnown, TInv, TypeOK
<1>5. NoBlindStep'
  BY DEF NoBlindStep
<1>6. LiveWorkerTracked'
  <2> SUFFICES ASSUME NEW p \in Pid, Alive(p)'
               PROVE  \/ lock[HostOf[wby[p]]][wcard[p]] = p
                      \/ pc'[wby[p]] = "record" /\ child'[wby[p]] = p
    BY DEF LiveWorkerTracked
  <2>1. Alive(p) /\ wby[p] \in Dispatcher
    BY DEF TInv, Born, Alive
  <2>2. CASE lock[HostOf[wby[p]]][wcard[p]] = p
    BY <2>2
  <2>3. CASE pc[wby[p]] = "record" /\ child[wby[p]] = p
    <3>1. pc'[wby[p]] = "record"
      BY <2>1, <2>3
    <3> QED BY <2>1, <2>3, <3>1
  <2> QED BY <2>1, <2>2, <2>3 DEF LiveWorkerTracked
<1> QED BY <1>1, <1>2, <1>3, <1>4, <1>5, <1>6

\* Removing a lock file that is not held disturbs neither a claimer nor a worker.
LEMMA StaleUnlink ==
  ASSUME LockInv, NEW h \in Host, NEW c \in Card, LockStale(h, c)
  PROVE  /\ \A e \in Dispatcher :
              pc[e] \in ClaimSteps => ~(HostOf[e] = h /\ cur[e] = c)
         /\ \A p \in Pid : Alive(p) => lock[h][c] # p
BY DEF LockInv, ClaimerHoldsLock, LockStale, LockHeld, Alive

\* The lock invariant holds before anybody starts.
LEMMA LockInit == Init => LockInv
<1> SUFFICES ASSUME Init PROVE LockInv
  OBVIOUS
<1>1. TInv
  BY TypeInit
<1> QED
  BY <1>1, DispatcherAssumption
  DEF Init, LockInv, ClaimerHoldsLock, OneClaimer, ChildKnown, LaneKnown, NoBlindStep,
      LiveWorkerTracked, ClaimSteps, BlindSteps, Alive

\* A lock file is freed that belongs to no claimer and names no live worker.
LEMMA FreeStep ==
  ASSUME LockInv, TInv', NEW h \in Host, NEW c \in Card, SetLock(h, c, "free"),
         UNCHANGED <<wcard, wby, child, lanePid, laneCard>>,
         \A p \in Pid : /\ Alive(p)' => Alive(p) /\ lock[h][c] # p
                        /\ wstate[p] # "unborn" => wstate'[p] # "unborn",
         \A e \in Dispatcher :
           /\ pc'[e] \in ClaimSteps =>
                pc[e] = pc'[e] /\ cur'[e] = cur[e] /\ ~(HostOf[e] = h /\ cur[e] = c)
           /\ pc[e] = "record" => pc'[e] = "record"
           /\ pc'[e] \notin BlindSteps
  PROVE  LockInv'
<1> USE DEF LockInv
<1>0. \A g \in Host, b \in Card : ~(g = h /\ b = c) => lock'[g][b] = lock[g][b]
  BY DEF SetLock, TInv, TypeOK
<1>1. ClaimerHoldsLock'
  BY <1>0, DispatcherAssumption DEF ClaimerHoldsLock, TInv, HasCard
<1>2. OneClaimer'
  BY DEF OneClaimer
<1>3. ChildKnown'
  BY DEF ChildKnown, ClaimSteps
<1>4. LaneKnown'
  BY DEF LaneKnown, TInv, TypeOK
<1>5. NoBlindStep'
  BY DEF NoBlindStep
<1>6. LiveWorkerTracked'
  <2> SUFFICES ASSUME NEW p \in Pid, Alive(p)'
               PROVE  \/ lock'[HostOf[wby[p]]][wcard[p]] = p
                      \/ pc'[wby[p]] = "record" /\ child[wby[p]] = p
    BY DEF LiveWorkerTracked
  <2>1. Alive(p) /\ wby[p] \in Dispatcher /\ wcard[p] \in Card /\ lock[h][c] # p
    BY DEF TInv, Born, Alive
  <2>2. CASE lock[HostOf[wby[p]]][wcard[p]] = p
    BY <1>0, <2>1, <2>2, DispatcherAssumption
  <2>3. CASE pc[wby[p]] = "record" /\ child[wby[p]] = p
    BY <2>1, <2>3
  <2> QED BY <2>1, <2>2, <2>3 DEF LiveWorkerTracked
<1> QED BY <1>1, <1>2, <1>3, <1>4, <1>5, <1>6

\* A dispatcher that claims nothing frees a stale lock file and turns to its card.
LEMMA StaleFreeStep ==
  ASSUME LockInv, TInv', NEW d \in Dispatcher, NEW c \in Card, NEW step,
         step \in {"reap-release", "lock", "select"},
         pc[d] \in {"reap", "select"}, pc' = [pc EXCEPT ![d] = step],
         cur' = [cur EXCEPT ![d] = c],
         LockStale(HostOf[d], c), SetLock(HostOf[d], c, "free"),
         UNCHANGED <<wstate, wcard, wby, child, lanePid, laneCard>>
  PROVE  LockInv'
<1>1. HostOf[d] \in Host /\ TypeOK /\ NoBlindStep
  BY DispatcherAssumption DEF LockInv, TInv
<1>2. /\ \A e \in Dispatcher :
            pc[e] \in ClaimSteps => ~(HostOf[e] = HostOf[d] /\ cur[e] = c)
      /\ \A p \in Pid : Alive(p) => lock[HostOf[d]][c] # p
  BY <1>1, StaleUnlink
<1>3. pc'[d] = step /\ \A e \in Dispatcher \ {d} : pc'[e] = pc[e] /\ cur'[e] = cur[e]
  BY <1>1 DEF TypeOK
<1>4. step \notin ClaimSteps \cup BlindSteps /\ pc[d] # "record"
  BY DEF ClaimSteps, BlindSteps
<1>5. \A e \in Dispatcher :
        /\ pc'[e] \in ClaimSteps =>
             pc[e] = pc'[e] /\ cur'[e] = cur[e] /\ ~(HostOf[e] = HostOf[d] /\ cur[e] = c)
        /\ pc[e] = "record" => pc'[e] = "record"
        /\ pc'[e] \notin BlindSteps
  BY <1>1, <1>2, <1>3, <1>4 DEF NoBlindStep
<1>6. \A p \in Pid : /\ Alive(p)' => Alive(p) /\ lock[HostOf[d]][c] # p
                     /\ wstate[p] # "unborn" => wstate'[p] # "unborn"
  BY <1>2 DEF Alive
<1> QED BY <1>1, <1>5, <1>6, FreeStep

\* One dispatcher step.
LEMMA LockStepDispatcher ==
  ASSUME Undisturbed, LockInv, TInv', NEW d \in Dispatcher, DispatcherStep(d)
  PROVE  LockInv'
<1> USE DispatcherAssumption DEF Goto, board, workers, locals
<1>0. /\ TypeOK /\ HasCard /\ NoBlindStep
      /\ HostOf[d] \in Host
      /\ "blind-unlink" \notin Env
  BY DEF Undisturbed, LockInv, TInv
<1>1. CASE Tick(d)
  BY <1>0, <1>1, QuietStep DEF Tick, TypeOK, Steps, TrapSteps, ClaimSteps, BlindSteps, NoBlindStep, Alive
<1>2. CASE ReapRelease(d)
  BY <1>0, <1>2, QuietStep DEF ReapRelease, TypeOK, Steps, TrapSteps, ClaimSteps, BlindSteps, NoBlindStep, Alive
<1>3. CASE ReapDone(d)
  BY <1>0, <1>3, QuietStep DEF ReapDone, TypeOK, Steps, TrapSteps, ClaimSteps, BlindSteps, NoBlindStep, Alive
<1>4. CASE ZombieRelease(d)
  BY <1>0, <1>4, QuietStep DEF ZombieRelease, TypeOK, Steps, TrapSteps, ClaimSteps, BlindSteps, NoBlindStep, Alive
<1>5. CASE SweepDone(d)
  BY <1>0, <1>5, QuietStep DEF SweepDone, TypeOK, Steps, TrapSteps, ClaimSteps, BlindSteps, NoBlindStep, Alive
<1>6. CASE Fetch(d)
  BY <1>0, <1>6, QuietStep DEF Fetch, TypeOK, Steps, TrapSteps, ClaimSteps, BlindSteps, NoBlindStep, Alive
<1>7. CASE NothingToDispatch(d)
  BY <1>0, <1>7, QuietStep DEF NothingToDispatch, EndTick, ForgetTick, TypeOK, Steps, TrapSteps, ClaimSteps, BlindSteps, NoBlindStep, Alive
<1>8. CASE LockTaken(d)
  BY <1>0, <1>8, QuietStep DEF LockTaken, EndTick, ForgetTick, TypeOK, Steps, TrapSteps, ClaimSteps, BlindSteps, NoBlindStep, Alive
<1>9. CASE PermitClaim(d)
  BY <1>0, <1>9, QuietStep DEF PermitClaim, TypeOK, Steps, TrapSteps, ClaimSteps, BlindSteps, NoBlindStep, Alive
<1>10. CASE AddAssignee(d)
  BY <1>0, <1>10, QuietStep DEF AddAssignee, TypeOK, Steps, TrapSteps, ClaimSteps, BlindSteps, NoBlindStep, Alive
<1>11. CASE VerifyClaim(d)
  BY <1>0, <1>11, QuietStep DEF VerifyClaim, TypeOK, Steps, TrapSteps, ClaimSteps, BlindSteps, NoBlindStep, Alive
<1>12. CASE PermitLaunch(d)
  BY <1>0, <1>12, QuietStep DEF PermitLaunch, TypeOK, Steps, TrapSteps, ClaimSteps, BlindSteps, NoBlindStep, Alive
<1>13. CASE SpawnBound(d)
  BY <1>0, <1>13, QuietStep DEF SpawnBound, TypeOK, Steps, TrapSteps, ClaimSteps, BlindSteps, NoBlindStep, Alive
<1>14. CASE SpawnFailed(d)
  BY <1>0, <1>14, QuietStep DEF SpawnFailed, Alive, TypeOK, Steps, TrapSteps, ClaimSteps, BlindSteps, NoBlindStep, Alive
<1>15. CASE Unclaim(d)
  BY <1>0, <1>15, QuietStep DEF Unclaim, TypeOK, Steps, TrapSteps, ClaimSteps, BlindSteps, NoBlindStep, Alive
<1>16. CASE ReapUnlink(d)
  BY <1>0, <1>16 DEF ReapUnlink, NoBlindStep, BlindSteps
<1>17. CASE ZombieUnlink(d)
  BY <1>0, <1>17 DEF ZombieUnlink, NoBlindStep, BlindSteps
<1>18. CASE ChosenUnlink(d)
  BY <1>0, <1>18 DEF ChosenUnlink, NoBlindStep, BlindSteps
<1>22. CASE SweepKill(d)
  <2> DEFINE p == lanePid[d]
             c == laneCard[d]
  <2>1. p \in Pid /\ Alive(p) /\ pc[d] = "sweep"
    BY <1>22 DEF SweepKill, LaneZombie, LaneIdle, Alive
  <2>2. wby[p] = d /\ wcard[p] = c /\ c \in Card
    BY <1>0, <2>1 DEF LockInv, LaneKnown, TInv, Born, TypeOK, Alive
  <2>3. lock[HostOf[d]][c] = p
    BY <2>1, <2>2 DEF LockInv, LiveWorkerTracked
  <2>4. /\ SetLock(HostOf[d], c, "free")
        /\ pc' = [pc EXCEPT ![d] = "zombie-release"]
        /\ wstate' = [wstate EXCEPT ![p] = "dead"]
        /\ UNCHANGED <<wcard, wby, cur, child, lanePid, laneCard>>
    BY <1>0, <1>22 DEF SweepKill, Unlink
  <2>5. \A q \in Pid : /\ Alive(q)' => Alive(q) /\ lock[HostOf[d]][c] # q
                       /\ wstate[q] # "unborn" => wstate'[q] # "unborn"
    BY <1>0, <2>3, <2>4 DEF TypeOK, Alive
  <2>6. \A e \in Dispatcher :
          pc[e] \in ClaimSteps => ~(HostOf[e] = HostOf[d] /\ cur[e] = c)
    BY <2>1, <2>3 DEF LockInv, ClaimerHoldsLock, PidlessLocks
  <2>7. \A e \in Dispatcher :
          /\ pc'[e] \in ClaimSteps =>
               pc[e] = pc'[e] /\ cur'[e] = cur[e] /\ ~(HostOf[e] = HostOf[d] /\ cur[e] = c)
          /\ pc[e] = "record" => pc'[e] = "record"
          /\ pc'[e] \notin BlindSteps
    BY <1>0, <2>1, <2>4, <2>6 DEF TypeOK, ClaimSteps, BlindSteps, NoBlindStep
  <2> HIDE DEF p, c
  <2> QED BY <1>0, <2>2, <2>4, <2>5, <2>7, FreeStep
<1>23. CASE TakeLock(d)
  <2> DEFINE h == HostOf[d]
             c == cur[d]
  <2>1. /\ c \in Card /\ pc[d] = "lock" /\ lock[h][c] = "free"
        /\ SetLock(h, c, "claiming")
        /\ pc' = [pc EXCEPT ![d] = "permit"]
        /\ UNCHANGED <<wstate, wcard, wby, cur, child, lanePid, laneCard>>
    BY <1>0, <1>23 DEF TakeLock, HasCard
  <2>2. /\ lock'[h][c] = "claiming"
        /\ \A g \in Host, b \in Card : ~(g = h /\ b = c) => lock'[g][b] = lock[g][b]
    BY <1>0, <2>1 DEF SetLock, TypeOK
  <2>3. /\ pc'[d] = "permit"
        /\ \A e \in Dispatcher \ {d} : pc'[e] = pc[e]
    BY <1>0, <2>1 DEF TypeOK
  <2>4. \A e \in Dispatcher : pc[e] \in ClaimSteps => ~(HostOf[e] = h /\ cur[e] = c)
    BY <2>1 DEF LockInv, ClaimerHoldsLock
  <2>5. ClaimerHoldsLock'
    BY <1>0, <2>1, <2>2, <2>3 DEF LockInv, ClaimerHoldsLock, HasCard
  <2>6. OneClaimer'
    BY <2>1, <2>3, <2>4 DEF LockInv, OneClaimer
  <2>7. ChildKnown'
    BY <2>1, <2>3 DEF LockInv, ChildKnown
  <2>8. LaneKnown'
    BY <2>1 DEF LockInv, LaneKnown
  <2>9. NoBlindStep'
    BY <1>0, <2>3 DEF NoBlindStep, BlindSteps
  <2>10. LiveWorkerTracked'
    <3> SUFFICES ASSUME NEW p \in Pid, Alive(p)'
                 PROVE  \/ lock'[HostOf[wby[p]]][wcard[p]] = p
                        \/ pc'[wby[p]] = "record" /\ child[wby[p]] = p
      BY <2>1 DEF LiveWorkerTracked
    <3>1. Alive(p) /\ wby[p] \in Dispatcher /\ wcard[p] \in Card
      BY <2>1 DEF LockInv, TInv, Born, Alive
    <3>2. CASE lock[HostOf[wby[p]]][wcard[p]] = p
      BY <2>1, <2>2, <3>1, <3>2
    <3>3. CASE pc[wby[p]] = "record" /\ child[wby[p]] = p
      BY <2>1, <2>3, <3>1, <3>3
    <3> QED BY <3>1, <3>2, <3>3 DEF LockInv, LiveWorkerTracked
  <2> QED BY <2>5, <2>6, <2>7, <2>8, <2>9, <2>10 DEF LockInv
<1>24. CASE Spawn(d)
  <2>1. PICK p \in Pid :
          /\ wstate[p] = "unborn"
          /\ wstate' = [wstate EXCEPT ![p] = "spawned"]
          /\ wcard' = [wcard EXCEPT ![p] = cur[d]]
          /\ wby' = [wby EXCEPT ![p] = d]
          /\ child' = [child EXCEPT ![d] = p]
    BY <1>24 DEF Spawn
  <2>2. /\ pc[d] = "spawn" /\ pc' = [pc EXCEPT ![d] = "record"]
        /\ UNCHANGED <<lock, cur, lanePid, laneCard>>
    BY <1>24 DEF Spawn
  <2>3. /\ wstate'[p] = "spawned" /\ wcard'[p] = cur[d] /\ wby'[p] = d /\ child'[d] = p
        /\ \A q \in Pid \ {p} : wstate'[q] = wstate[q] /\ wcard'[q] = wcard[q] /\ wby'[q] = wby[q]
        /\ pc'[d] = "record"
        /\ \A e \in Dispatcher \ {d} : pc'[e] = pc[e] /\ child'[e] = child[e]
    BY <1>0, <2>1, <2>2 DEF TypeOK
  <2>4. ClaimerHoldsLock'
    BY <2>2, <2>3 DEF LockInv, ClaimerHoldsLock, ClaimSteps
  <2>5. OneClaimer'
    BY <2>2, <2>3 DEF LockInv, OneClaimer, ClaimSteps
  <2>6. ChildKnown'
    BY <2>1, <2>2, <2>3 DEF LockInv, ChildKnown
  <2>7. LaneKnown'
    BY <1>0, <2>1, <2>2, <2>3 DEF LockInv, LaneKnown, TypeOK
  <2>8. NoBlindStep'
    BY <1>0, <2>3 DEF NoBlindStep, BlindSteps
  <2>9. LiveWorkerTracked'
    <3> SUFFICES ASSUME NEW q \in Pid, Alive(q)'
                 PROVE  \/ lock[HostOf[wby'[q]]][wcard'[q]] = q
                        \/ pc'[wby'[q]] = "record" /\ child'[wby'[q]] = q
      BY <2>2 DEF LiveWorkerTracked
    <3>1. CASE q = p
      BY <2>3, <3>1
    <3>2. CASE q # p
      <4>1. Alive(q) /\ wby[q] \in Dispatcher
        BY <2>3, <3>2 DEF LockInv, TInv, Born, Alive
      <4> QED BY <2>2, <2>3, <3>2, <4>1 DEF LockInv, LiveWorkerTracked
    <3> QED BY <3>1, <3>2
  <2> QED BY <2>4, <2>5, <2>6, <2>7, <2>8, <2>9 DEF LockInv
<1>25. CASE RecordPid(d)
  <2> DEFINE h == HostOf[d]
             c == cur[d]
             p == child[d]
  <2>1. /\ pc[d] = "record" /\ Alive(p) /\ p \in Pid
        /\ wby[p] = d /\ wcard[p] = c /\ c \in Card
    BY <1>0, <1>25 DEF RecordPid, LockInv, ChildKnown, HasCard, ClaimSteps
  <2>2. /\ SetLock(h, c, p)
        /\ pc' = [pc EXCEPT ![d] = "sleep"]
        /\ lanePid' = [lanePid EXCEPT ![d] = p]
        /\ laneCard' = [laneCard EXCEPT ![d] = c]
        /\ cur' = [cur EXCEPT ![d] = NoCard]
        /\ child' = [child EXCEPT ![d] = NoPid]
        /\ UNCHANGED <<wstate, wcard, wby>>
    BY <1>25 DEF RecordPid, EndTick, ForgetTick
  <2>3. /\ lock'[h][c] = p
        /\ \A g \in Host, b \in Card : ~(g = h /\ b = c) => lock'[g][b] = lock[g][b]
    BY <1>0, <2>1, <2>2 DEF SetLock, TypeOK
  <2>4. /\ pc'[d] = "sleep" /\ lanePid'[d] = p /\ laneCard'[d] = c
        /\ \A e \in Dispatcher \ {d} :
             /\ pc'[e] = pc[e] /\ cur'[e] = cur[e] /\ child'[e] = child[e]
             /\ lanePid'[e] = lanePid[e] /\ laneCard'[e] = laneCard[e]
    BY <1>0, <2>2 DEF TypeOK
  <2>5. \A e \in Dispatcher \ {d} :
          pc[e] \in ClaimSteps => ~(HostOf[e] = h /\ cur[e] = c)
    BY <2>1 DEF LockInv, OneClaimer, ClaimSteps
  <2>6. ClaimerHoldsLock'
    BY <1>0, <2>1, <2>3, <2>4, <2>5 DEF LockInv, ClaimerHoldsLock, HasCard, ClaimSteps
  <2>7. OneClaimer'
    BY <2>4 DEF LockInv, OneClaimer, ClaimSteps
  <2>8. ChildKnown'
    BY <2>2, <2>4 DEF LockInv, ChildKnown
  <2>9. LaneKnown'
    BY <2>1, <2>2, <2>4 DEF LockInv, LaneKnown, Alive
  <2>10. NoBlindStep'
    BY <1>0, <2>4 DEF NoBlindStep, BlindSteps
  <2>11. LiveWorkerTracked'
    <3> SUFFICES ASSUME NEW q \in Pid, Alive(q)'
                 PROVE  \/ lock'[HostOf[wby[q]]][wcard[q]] = q
                        \/ pc'[wby[q]] = "record" /\ child'[wby[q]] = q
      BY <2>2 DEF LiveWorkerTracked
    <3>1. Alive(q) /\ wby[q] \in Dispatcher /\ wcard[q] \in Card
      BY <2>2 DEF LockInv, TInv, Born, Alive
    <3>2. CASE q = p
      BY <2>1, <2>3, <3>2
    <3>3. CASE q # p /\ lock[HostOf[wby[q]]][wcard[q]] = q
      <4>1. ~(HostOf[wby[q]] = h /\ wcard[q] = c)
        BY <2>1, <3>3 DEF LockInv, ClaimerHoldsLock, ClaimSteps, PidlessLocks
      <4> QED BY <2>3, <3>1, <3>3, <4>1
    <3>4. CASE q # p /\ pc[wby[q]] = "record" /\ child[wby[q]] = q
      BY <2>4, <3>1, <3>4
    <3> QED BY <3>1, <3>2, <3>3, <3>4 DEF LockInv, LiveWorkerTracked
  <2> QED BY <2>6, <2>7, <2>8, <2>9, <2>10, <2>11 DEF LockInv
<1>26. CASE DropLock(d)
  <2> DEFINE h == HostOf[d]
             c == cur[d]
  <2>1. /\ pc[d] = "drop" /\ c \in Card /\ lock[h][c] = "claiming"
    BY <1>0, <1>26 DEF DropLock, LockInv, HasCard, ClaimerHoldsLock, ClaimSteps
  <2>2. /\ SetLock(h, c, "free")
        /\ pc' = [pc EXCEPT ![d] = "sleep"]
        /\ cur' = [cur EXCEPT ![d] = NoCard]
        /\ child' = [child EXCEPT ![d] = NoPid]
        /\ UNCHANGED <<wstate, wcard, wby, lanePid, laneCard>>
    BY <1>26 DEF DropLock, EndTick, ForgetTick
  <2>3. /\ pc'[d] = "sleep"
        /\ \A e \in Dispatcher \ {d} : pc'[e] = pc[e] /\ cur'[e] = cur[e] /\ child'[e] = child[e]
        /\ \A g \in Host, b \in Card : ~(g = h /\ b = c) => lock'[g][b] = lock[g][b]
    BY <1>0, <2>1, <2>2 DEF TypeOK, SetLock
  <2>4. \A e \in Dispatcher \ {d} :
          pc[e] \in ClaimSteps => ~(HostOf[e] = h /\ cur[e] = c)
    BY <2>1 DEF LockInv, OneClaimer, ClaimSteps
  <2>5. ClaimerHoldsLock'
    BY <1>0, <2>3, <2>4 DEF LockInv, ClaimerHoldsLock, HasCard, ClaimSteps
  <2>6. OneClaimer'
    BY <2>3 DEF LockInv, OneClaimer, ClaimSteps
  <2>7. ChildKnown'
    BY <2>2, <2>3 DEF LockInv, ChildKnown
  <2>8. LaneKnown'
    BY <2>2 DEF LockInv, LaneKnown
  <2>9. NoBlindStep'
    BY <1>0, <2>3 DEF NoBlindStep, BlindSteps
  <2>10. LiveWorkerTracked'
    <3> SUFFICES ASSUME NEW q \in Pid, Alive(q)'
                 PROVE  \/ lock'[HostOf[wby[q]]][wcard[q]] = q
                        \/ pc'[wby[q]] = "record" /\ child'[wby[q]] = q
      BY <2>2 DEF LiveWorkerTracked
    <3>1. Alive(q) /\ wby[q] \in Dispatcher /\ wcard[q] \in Card
      BY <2>2 DEF LockInv, TInv, Born, Alive
    <3>2. CASE lock[HostOf[wby[q]]][wcard[q]] = q
      <4>1. ~(HostOf[wby[q]] = h /\ wcard[q] = c)
        BY <2>1, <3>2 DEF PidlessLocks
      <4> QED BY <2>3, <3>1, <3>2, <4>1
    <3>3. CASE pc[wby[q]] = "record" /\ child[wby[q]] = q
      BY <2>1, <2>3, <3>1, <3>3
    <3> QED BY <3>1, <3>2, <3>3 DEF LockInv, LiveWorkerTracked
  <2> QED BY <2>5, <2>6, <2>7, <2>8, <2>9, <2>10 DEF LockInv
<1>27. ASSUME NEW c \in Card, ReapKeep(d, c) \/ ReapJudge(d, c) \/ SkipLocked(d, c)
                          \/ Choose(d, c) \/ Misread(d, c)
      PROVE  LockInv'
  <2>1. CASE ReapKeep(d, c)
    BY <1>0, <2>1, QuietStep DEF ReapKeep, TypeOK, Steps, TrapSteps, ClaimSteps, BlindSteps, NoBlindStep, Alive
  <2>2. CASE SkipLocked(d, c)
    BY <1>0, <2>2, QuietStep DEF SkipLocked, TypeOK, Steps, TrapSteps, ClaimSteps, BlindSteps, NoBlindStep, Alive
  <2>3. CASE ReapJudge(d, c)
    <3>1. /\ SetLock(HostOf[d], c, "free") /\ LockStale(HostOf[d], c)
          /\ pc[d] = "reap" /\ pc' = [pc EXCEPT ![d] = "reap-release"]
          /\ cur' = [cur EXCEPT ![d] = c]
          /\ UNCHANGED <<wstate, wcard, wby, child, lanePid, laneCard>>
      BY <1>0, <2>3 DEF ReapJudge, Unlink
    <3> QED BY <3>1, StaleFreeStep
  <2>4. CASE Choose(d, c) /\ LockStale(HostOf[d], c)
    <3>1. /\ SetLock(HostOf[d], c, "free")
          /\ pc[d] = "select" /\ pc' = [pc EXCEPT ![d] = "lock"]
          /\ cur' = [cur EXCEPT ![d] = c]
          /\ UNCHANGED <<wstate, wcard, wby, child, lanePid, laneCard>>
      BY <1>0, <2>4 DEF Choose, Unlink
    <3> QED BY <2>4, <3>1, StaleFreeStep
  <2>5. CASE Choose(d, c) /\ ~LockStale(HostOf[d], c)
    BY <1>0, <2>5, QuietStep DEF Choose, TypeOK, Steps, TrapSteps, ClaimSteps, BlindSteps, NoBlindStep, Alive
  <2>6. CASE Misread(d, c)
    <3>1. /\ SetLock(HostOf[d], c, "free") /\ lock[HostOf[d]][c] = "expired"
          /\ pc[d] = "select" /\ pc' = [pc EXCEPT ![d] = "select"]
          /\ cur' = [cur EXCEPT ![d] = c]
          /\ UNCHANGED <<wstate, wcard, wby, child, lanePid, laneCard>>
      BY <1>0, <2>6 DEF Misread, Unlink
    <3>2. LockStale(HostOf[d], c)
      BY <3>1 DEF LockStale, LockHeld, Alive, PidlessLocks
    <3> QED BY <3>1, <3>2, StaleFreeStep
  <2> QED BY <1>27, <2>1, <2>2, <2>3, <2>4, <2>5, <2>6
<1> QED BY <1>1, <1>2, <1>3, <1>4, <1>5, <1>6, <1>7, <1>8, <1>9, <1>10, <1>11, <1>12, <1>13, <1>14, <1>15, <1>16, <1>17, <1>18, <1>22, <1>23, <1>24, <1>25, <1>26, <1>27 DEF DispatcherStep

\* Every step keeps the lock invariant, when Undisturbed.
LEMMA LockStep == Undisturbed /\ LockInv /\ [Next]_vars => LockInv'
<1> SUFFICES ASSUME Undisturbed, LockInv, [Next]_vars PROVE LockInv'
  OBVIOUS
<1> USE DispatcherAssumption DEF Goto, board, workers, locals
<1>0. /\ TypeOK /\ HasCard /\ NoBlindStep
      /\ Env \cap {"slow-claim", "crash"} = {}
      /\ TInv'
  BY TypeStep DEF Undisturbed, LockInv, TInv
<1>1. ASSUME NEW d \in Dispatcher, DispatcherStep(d) PROVE LockInv'
  BY <1>0, <1>1, LockStepDispatcher
<1>2. ASSUME NEW d \in Dispatcher, Start(d) PROVE LockInv'
  BY <1>0, <1>2, QuietStep DEF Start, TypeOK, ClaimSteps, BlindSteps, NoBlindStep, Alive
<1>3. ASSUME NEW d \in Dispatcher, Halt(d) PROVE LockInv'
  BY <1>0, <1>3, QuietStep
  DEF Halt, ForgetAll, ForgetTick, TypeOK, ClaimSteps, BlindSteps, NoBlindStep, Alive
<1>4. ASSUME NEW d \in Dispatcher, Crash(d) PROVE LockInv'
  BY <1>0, <1>4 DEF Crash
<1>5. ASSUME NEW h \in Host, NEW c \in Card, GraceExpires(h, c) PROVE LockInv'
  <2>1. /\ lock[h][c] = "claiming" /\ SetLock(h, c, "expired")
        /\ \A e \in Dispatcher : pc[e] \in ClaimSteps => ~(HostOf[e] = h /\ cur[e] = c)
        /\ UNCHANGED <<wstate, wcard, wby, pc, cur, child, lanePid, laneCard>>
    BY <1>0, <1>5 DEF GraceExpires, Claiming
  <2>2. \A g \in Host, b \in Card : ~(g = h /\ b = c) => lock'[g][b] = lock[g][b]
    BY <1>0, <2>1 DEF TypeOK, SetLock
  <2>3. ClaimerHoldsLock'
    BY <1>0, <2>1, <2>2 DEF LockInv, ClaimerHoldsLock, HasCard
  <2>4. OneClaimer' /\ ChildKnown' /\ LaneKnown' /\ NoBlindStep'
    BY <2>1 DEF LockInv, OneClaimer, ChildKnown, LaneKnown, NoBlindStep
  <2>5. LiveWorkerTracked'
    <3> SUFFICES ASSUME NEW q \in Pid, Alive(q)'
                 PROVE  \/ lock'[HostOf[wby[q]]][wcard[q]] = q
                        \/ pc[wby[q]] = "record" /\ child[wby[q]] = q
      BY <2>1 DEF LiveWorkerTracked
    <3>1. Alive(q) /\ wby[q] \in Dispatcher /\ wcard[q] \in Card
      BY <2>1 DEF LockInv, TInv, Born, Alive
    <3>2. CASE lock[HostOf[wby[q]]][wcard[q]] = q
      <4>1. ~(HostOf[wby[q]] = h /\ wcard[q] = c)
        BY <2>1, <3>2 DEF PidlessLocks
      <4> QED BY <2>2, <3>1, <3>2, <4>1
    <3> QED BY <3>1, <3>2 DEF LockInv, LiveWorkerTracked
  <2> QED BY <1>0, <2>3, <2>4, <2>5 DEF LockInv
<1>6. ASSUME NEW p \in Pid, WorkerClaims(p) \/ WorkerReleases(p) \/ WorkerExits(p)
      PROVE  LockInv'
  <2>1. /\ UNCHANGED <<lock, wcard, wby, pc, cur, child, lanePid, laneCard>>
        /\ wstate[p] # "unborn" /\ Alive(p)
        /\ \E s \in {"working", "lingering", "dead"} : wstate' = [wstate EXCEPT ![p] = s]
    BY <1>6 DEF WorkerClaims, WorkerReleases, WorkerExits, Alive
  <2>2. \A q \in Pid : /\ Alive(q)' => Alive(q)
                       /\ wstate[q] # "unborn" => wstate'[q] # "unborn"
    BY <1>0, <2>1 DEF TypeOK, Alive
  <2> QED BY <1>0, <2>1, <2>2, QuietStep DEF NoBlindStep
<1>7. ASSUME NEW c \in Card, NEW s \in Status, CardMoves(c, s) PROVE LockInv'
  BY <1>0, <1>7, QuietStep DEF CardMoves, NoBlindStep, Alive
<1>8. CASE UNCHANGED vars
  BY <1>0, <1>8, QuietStep DEF vars, NoBlindStep, Alive
<1> QED BY <1>1, <1>2, <1>3, <1>4, <1>5, <1>6, <1>7, <1>8 DEF Next

\* The lock invariant holds in every reachable state, when Undisturbed.
LEMMA LockInvariant == Undisturbed => (Spec => []LockInv)
<1> SUFFICES ASSUME Undisturbed PROVE Spec => []LockInv
  OBVIOUS
<1>1. LockInv /\ [Next]_vars => LockInv'
  BY LockStep
<1> QED BY <1>1, LockInit, PTL DEF Spec

\* A live worker stays in reach of the reaper and of the stop: its card's lock
\* file names it, or its dispatcher is about to write that, for any number of
\* dispatchers, hosts and cards.
THEOREM Tracking == Undisturbed => (Spec => []LiveWorkerTracked)
<1> SUFFICES ASSUME Undisturbed PROVE Spec => []LiveWorkerTracked
  OBVIOUS
<1>1. LockInv => LiveWorkerTracked
  BY DEF LockInv
<1> QED BY <1>1, LockInvariant, PTL

\* No card ever has two live workers of one host. Two that are tracked by the
\* lock file are the same, since it names one; a dispatcher about to record its
\* child still holds the lock file without a PID; and no two dispatchers of a
\* host do that for one card.
THEOREM Exclusion == Undisturbed => (Spec => []OneWorkerPerCard)
<1> SUFFICES ASSUME Undisturbed PROVE Spec => []OneWorkerPerCard
  OBVIOUS
<1>1. LockInv => OneWorkerPerCard
  <2> SUFFICES ASSUME LockInv, NEW p \in Pid, NEW q \in Pid, Alive(p), Alive(q),
                      wcard[p] = wcard[q], SameHost(p, q)
               PROVE  p = q
    BY DEF OneWorkerPerCard
  <2> USE DEF LockInv, SameHost
  <2>1. wby[p] \in Dispatcher /\ wby[q] \in Dispatcher
    BY DEF TInv, Born, Alive
  <2>2. CASE lock[HostOf[wby[p]]][wcard[p]] = p /\ lock[HostOf[wby[q]]][wcard[q]] = q
    BY <2>2
  <2>3. CASE pc[wby[p]] = "record" /\ child[wby[p]] = p
    <3>1. lock[HostOf[wby[p]]][wcard[p]] = "claiming"
      BY <2>1, <2>3 DEF ClaimerHoldsLock, ChildKnown, ClaimSteps
    <3>2. lock[HostOf[wby[q]]][wcard[q]] # q
      BY <3>1, DispatcherAssumption DEF PidlessLocks
    <3>3. pc[wby[q]] = "record" /\ child[wby[q]] = q
      BY <2>1, <3>2 DEF LiveWorkerTracked
    <3> QED BY <2>1, <2>3, <3>3 DEF OneClaimer, ChildKnown, ClaimSteps
  <2>4. CASE pc[wby[q]] = "record" /\ child[wby[q]] = q
    <3>1. lock[HostOf[wby[q]]][wcard[q]] = "claiming"
      BY <2>1, <2>4 DEF ClaimerHoldsLock, ChildKnown, ClaimSteps
    <3>2. lock[HostOf[wby[p]]][wcard[p]] # p
      BY <3>1, DispatcherAssumption DEF PidlessLocks
    <3>3. pc[wby[p]] = "record" /\ child[wby[p]] = p
      BY <2>1, <3>2 DEF LiveWorkerTracked
    <3> QED BY <2>1, <2>4, <3>3 DEF OneClaimer, ChildKnown, ClaimSteps
  <2> QED BY <2>2, <2>3, <2>4 DEF LiveWorkerTracked
<1> QED BY <1>1, LockInvariant, PTL

-----------------------------------------------------------------------------
(* The lane: whom a dispatcher has at work, whatever Env allows. *)

\* The shell is in the middle of giving the lane's card up, or of taking a card.
IdleSteps == ClaimSteps \cup {"lock", "unlink", "misread", "zombie-unlink", "zombie-release"}

\* ... and then no worker has the lane.
LaneFree == \A d \in Dispatcher : pc[d] \in IdleSteps => LaneIdle(d)

\* A running dispatcher has each of its live workers in the lane, or is about to.
LaneHolds ==
  \A p \in Pid : Alive(p) =>
    \/ pc[wby[p]] = "off"
    \/ lanePid[wby[p]] = p
    \/ pc[wby[p]] = "record" /\ child[wby[p]] = p

OneLive == \A p, q \in Pid : Alive(p) /\ Alive(q) /\ wby[p] = wby[q] => p = q

LaneInv == TInv /\ ChildKnown /\ LaneKnown /\ LaneFree /\ LaneHolds /\ OneLive

LEMMA LaneInit == Init => LaneInv
<1> SUFFICES ASSUME Init PROVE LaneInv
  OBVIOUS
<1>1. TInv
  BY TypeInit
<1> QED
  BY <1>1 DEF Init, LaneInv, ChildKnown, LaneKnown, LaneFree, LaneHolds, OneLive, IdleSteps, ClaimSteps, Alive

\* A step that starts no worker and puts none in a lane.
LEMMA LaneQuietStep ==
  ASSUME LaneInv, TInv', UNCHANGED <<wcard, wby>>,
         \A p \in Pid : /\ Alive(p)' => Alive(p)
                        /\ wstate[p] # "unborn" => wstate'[p] # "unborn",
         \A e \in Dispatcher :
           /\ pc'[e] = "record" => pc[e] = "record" /\ child'[e] = child[e] /\ cur'[e] = cur[e]
           /\ lanePid'[e] # NoPid => lanePid'[e] = lanePid[e] /\ laneCard'[e] = laneCard[e]
           /\ pc'[e] \in IdleSteps => pc[e] \in IdleSteps \/ LaneIdle(e)'
           /\ pc'[e] # "off" => pc[e] # "off" /\ (lanePid'[e] = lanePid[e] \/ LaneIdle(e))
           /\ \A p \in Pid :
                pc[e] = "record" /\ child[e] = p /\ Alive(p)' => pc'[e] \in {"record", "off"}
  PROVE  LaneInv'
<1> USE DEF LaneInv
<1>1. ChildKnown'
  BY DEF ChildKnown
<1>2. LaneKnown'
  BY DEF LaneKnown, TInv, TypeOK
<1>3. \A e \in Dispatcher : LaneIdle(e) => LaneIdle(e)'
  <2> SUFFICES ASSUME NEW e \in Dispatcher, LaneIdle(e) PROVE LaneIdle(e)'
    OBVIOUS
  <2>1. CASE lanePid'[e] = NoPid
    BY <2>1, DispatcherAssumption DEF LaneIdle, Alive
  <2>2. CASE lanePid'[e] # NoPid
    BY <2>2, DispatcherAssumption DEF LaneIdle, Alive, TInv, TypeOK
  <2> QED BY <2>1, <2>2
<1>4. LaneFree'
  BY <1>3 DEF LaneFree
<1>5. LaneHolds'
  <2> SUFFICES ASSUME NEW p \in Pid, Alive(p)', pc'[wby[p]] # "off"
               PROVE  \/ lanePid'[wby[p]] = p
                      \/ pc'[wby[p]] = "record" /\ child'[wby[p]] = p
    BY DEF LaneHolds
  <2>1. Alive(p) /\ wby[p] \in Dispatcher
    BY DEF TInv, Born, Alive
  <2>2. CASE lanePid[wby[p]] = p
    BY <2>1, <2>2 DEF LaneIdle
  <2>3. CASE pc[wby[p]] = "record" /\ child[wby[p]] = p
    BY <2>1, <2>3
  <2> QED BY <2>1, <2>2, <2>3 DEF LaneHolds
<1>6. OneLive'
  BY DEF OneLive
<1> QED BY <1>1, <1>2, <1>4, <1>5, <1>6

LEMMA LaneStepDispatcher ==
  ASSUME LaneInv, TInv', NEW d \in Dispatcher, DispatcherStep(d)
  PROVE  LaneInv'
<1> USE DispatcherAssumption DEF Goto, board, workers, locals, LaneInv, Alive, LaneIdle
<1>0. /\ TypeOK /\ LaneFree /\ ChildKnown
  BY DEF TInv
<1>1. CASE Tick(d)
  BY <1>0, <1>1, LaneQuietStep DEF Tick, TypeOK, IdleSteps, ClaimSteps, CanDispatch
<1>2. CASE ReapUnlink(d)
  BY <1>0, <1>2, LaneQuietStep DEF ReapUnlink, TypeOK, IdleSteps, ClaimSteps, CanDispatch
<1>3. CASE ReapRelease(d)
  BY <1>0, <1>3, LaneQuietStep DEF ReapRelease, TypeOK, IdleSteps, ClaimSteps, CanDispatch
<1>4. CASE ReapDone(d)
  BY <1>0, <1>4, LaneQuietStep DEF ReapDone, TypeOK, IdleSteps, ClaimSteps, CanDispatch
<1>5. CASE ZombieUnlink(d)
  BY <1>0, <1>5, LaneQuietStep DEF ZombieUnlink, TypeOK, IdleSteps, ClaimSteps, CanDispatch
<1>6. CASE ZombieRelease(d)
  <2>1. pc[d] = "zombie-release" /\ LaneIdle(d)
    BY <1>0, <1>6 DEF ZombieRelease, LaneFree, IdleSteps
  <2> QED BY <1>0, <1>6, <2>1, LaneQuietStep DEF ZombieRelease, TypeOK, IdleSteps, ClaimSteps
<1>7. CASE SweepDone(d)
  BY <1>0, <1>7, LaneQuietStep DEF SweepDone, TypeOK, IdleSteps, ClaimSteps, CanDispatch
<1>8. CASE Fetch(d)
  BY <1>0, <1>8, LaneQuietStep DEF Fetch, TypeOK, IdleSteps, ClaimSteps, CanDispatch
<1>9. CASE ChosenUnlink(d)
  BY <1>0, <1>9, LaneQuietStep DEF ChosenUnlink, TypeOK, IdleSteps, ClaimSteps, CanDispatch
<1>10. CASE NothingToDispatch(d)
  BY <1>0, <1>10, LaneQuietStep DEF NothingToDispatch, EndTick, ForgetTick, TypeOK, IdleSteps, ClaimSteps, CanDispatch
<1>11. CASE TakeLock(d)
  BY <1>0, <1>11, LaneQuietStep DEF TakeLock, TypeOK, IdleSteps, ClaimSteps, CanDispatch
<1>12. CASE LockTaken(d)
  BY <1>0, <1>12, LaneQuietStep DEF LockTaken, EndTick, ForgetTick, TypeOK, IdleSteps, ClaimSteps, CanDispatch
<1>13. CASE PermitClaim(d)
  BY <1>0, <1>13, LaneQuietStep DEF PermitClaim, TypeOK, IdleSteps, ClaimSteps, CanDispatch
<1>14. CASE AddAssignee(d)
  BY <1>0, <1>14, LaneQuietStep DEF AddAssignee, TypeOK, IdleSteps, ClaimSteps, CanDispatch
<1>15. CASE VerifyClaim(d)
  BY <1>0, <1>15, LaneQuietStep DEF VerifyClaim, TypeOK, IdleSteps, ClaimSteps, CanDispatch
<1>16. CASE PermitLaunch(d)
  BY <1>0, <1>16, LaneQuietStep DEF PermitLaunch, TypeOK, IdleSteps, ClaimSteps, CanDispatch
<1>17. CASE SpawnBound(d)
  BY <1>0, <1>17, LaneQuietStep DEF SpawnBound, TypeOK, IdleSteps, ClaimSteps, CanDispatch
<1>18. CASE SpawnFailed(d)
  BY <1>0, <1>18, LaneQuietStep DEF SpawnFailed, TypeOK, IdleSteps, ClaimSteps, CanDispatch
<1>19. CASE Unclaim(d)
  BY <1>0, <1>19, LaneQuietStep DEF Unclaim, TypeOK, IdleSteps, ClaimSteps, CanDispatch
<1>20. CASE DropLock(d)
  BY <1>0, <1>20, LaneQuietStep DEF DropLock, EndTick, ForgetTick, TypeOK, IdleSteps, ClaimSteps, CanDispatch
<1>21. CASE SweepKill(d)
  <2>1. /\ lanePid[d] \in Pid /\ wstate[lanePid[d]] # "unborn" /\ pc[d] = "sweep"
        /\ wstate' = [wstate EXCEPT ![lanePid[d]] = "dead"]
        /\ UNCHANGED <<wcard, wby, cur, child, lanePid, laneCard>>
        /\ \E s \in {"zombie-unlink", "zombie-release"} : pc' = [pc EXCEPT ![d] = s]
    BY <1>0, <1>21 DEF SweepKill, LaneZombie, Unlink
  <2> QED BY <1>0, <2>1, LaneQuietStep DEF TypeOK, IdleSteps, ClaimSteps
<1>22. CASE Spawn(d)
  <2>1. PICK p \in Pid :
          /\ wstate[p] = "unborn"
          /\ wstate' = [wstate EXCEPT ![p] = "spawned"]
          /\ wcard' = [wcard EXCEPT ![p] = cur[d]]
          /\ wby' = [wby EXCEPT ![p] = d]
          /\ child' = [child EXCEPT ![d] = p]
    BY <1>22 DEF Spawn
  <2>2. /\ pc[d] = "spawn" /\ pc' = [pc EXCEPT ![d] = "record"]
        /\ UNCHANGED <<cur, lanePid, laneCard>>
    BY <1>22 DEF Spawn
  <2>3. /\ wstate'[p] = "spawned" /\ wcard'[p] = cur[d] /\ wby'[p] = d /\ child'[d] = p
        /\ \A q \in Pid \ {p} : wstate'[q] = wstate[q] /\ wcard'[q] = wcard[q] /\ wby'[q] = wby[q]
        /\ pc'[d] = "record"
        /\ \A e \in Dispatcher \ {d} : pc'[e] = pc[e] /\ child'[e] = child[e]
    BY <1>0, <2>1, <2>2 DEF TypeOK
  <2>4. ~Alive(lanePid[d]) /\ \A q \in Pid : Alive(q) => wby[q] # d
    BY <1>0, <2>2 DEF LaneFree, LaneHolds, IdleSteps, ClaimSteps
  <2>5. \A e \in Dispatcher : lanePid[e] # p
    BY <2>1 DEF LaneKnown
  <2>6. ChildKnown'
    BY <1>0, <2>1, <2>2, <2>3 DEF ChildKnown
  <2>7. LaneKnown'
    BY <1>0, <2>1, <2>2, <2>3 DEF LaneKnown, TypeOK
  <2>8. LaneFree'
    BY <1>0, <2>2, <2>3, <2>4, <2>5 DEF LaneFree, IdleSteps, TypeOK
  <2>9. LaneHolds'
    <3> SUFFICES ASSUME NEW q \in Pid, Alive(q)'
                 PROVE  \/ pc'[wby'[q]] = "off" \/ lanePid[wby'[q]] = q
                        \/ pc'[wby'[q]] = "record" /\ child'[wby'[q]] = q
      BY <2>2 DEF LaneHolds
    <3>1. CASE q = p
      BY <2>3, <3>1
    <3>2. CASE q # p
      <4>1. Alive(q) /\ wby[q] \in Dispatcher /\ wby[q] # d
        BY <2>3, <2>4, <3>2 DEF TInv, Born
      <4> QED BY <2>2, <2>3, <3>2, <4>1 DEF LaneHolds
    <3> QED BY <3>1, <3>2
  <2>10. OneLive'
    BY <2>3, <2>4 DEF OneLive
  <2> QED BY <2>6, <2>7, <2>8, <2>9, <2>10
<1>23. CASE RecordPid(d)
  <2> DEFINE p == child[d]
  <2>1. /\ pc[d] = "record" /\ Alive(p) /\ p \in Pid /\ wby[p] = d /\ wcard[p] = cur[d]
        /\ ~Alive(lanePid[d])
    BY <1>0, <1>23 DEF RecordPid, ChildKnown, LaneFree, IdleSteps, ClaimSteps
  <2>2. /\ pc' = [pc EXCEPT ![d] = "sleep"]
        /\ lanePid' = [lanePid EXCEPT ![d] = p]
        /\ laneCard' = [laneCard EXCEPT ![d] = cur[d]]
        /\ cur' = [cur EXCEPT ![d] = NoCard]
        /\ child' = [child EXCEPT ![d] = NoPid]
        /\ UNCHANGED <<wstate, wcard, wby>>
    BY <1>23 DEF RecordPid, EndTick, ForgetTick
  <2>3. /\ pc'[d] = "sleep" /\ lanePid'[d] = p /\ laneCard'[d] = cur[d]
        /\ \A e \in Dispatcher \ {d} :
             /\ pc'[e] = pc[e] /\ cur'[e] = cur[e] /\ child'[e] = child[e]
             /\ lanePid'[e] = lanePid[e] /\ laneCard'[e] = laneCard[e]
    BY <1>0, <2>2 DEF TypeOK
  <2> HIDE DEF p
  <2>4. ChildKnown'
    BY <1>0, <2>2, <2>3 DEF ChildKnown
  <2>5. LaneKnown'
    BY <2>1, <2>2, <2>3 DEF LaneKnown
  <2>6. LaneFree'
    BY <1>0, <2>2, <2>3 DEF LaneFree, IdleSteps, ClaimSteps
  <2>7. LaneHolds'
    <3> SUFFICES ASSUME NEW q \in Pid, Alive(q)'
                 PROVE  \/ pc'[wby[q]] = "off" \/ lanePid'[wby[q]] = q
                        \/ pc'[wby[q]] = "record" /\ child'[wby[q]] = q
      BY <2>2 DEF LaneHolds
    <3>1. Alive(q) /\ wby[q] \in Dispatcher
      BY <2>2 DEF TInv, Born
    <3>2. CASE wby[q] = d
      BY <2>1, <2>3, <3>1, <3>2 DEF OneLive
    <3>3. CASE wby[q] # d
      BY <2>3, <3>1, <3>3 DEF LaneHolds
    <3> QED BY <3>2, <3>3
  <2>8. OneLive'
    BY <2>2 DEF OneLive
  <2> QED BY <2>4, <2>5, <2>6, <2>7, <2>8
<1>24. ASSUME NEW c \in Card, ReapKeep(d, c) \/ ReapJudge(d, c) \/ SkipLocked(d, c)
                          \/ Choose(d, c) \/ Misread(d, c)
      PROVE  LaneInv'
  <2>1. CASE ReapKeep(d, c)
    BY <1>0, <2>1, LaneQuietStep DEF ReapKeep
  <2>2. CASE SkipLocked(d, c)
    BY <1>0, <2>2, LaneQuietStep DEF SkipLocked
  <2>3. CASE ReapJudge(d, c)
    <3>1. /\ pc[d] = "reap" /\ UNCHANGED <<workers, child, lanePid, laneCard>> /\ cur' = [cur EXCEPT ![d] = c]
          /\ \E s \in {"reap-unlink", "reap-release"} : pc' = [pc EXCEPT ![d] = s]
      BY <2>3 DEF ReapJudge, Unlink
    <3> QED BY <1>0, <3>1, LaneQuietStep DEF TypeOK, IdleSteps, ClaimSteps
  <2>4. CASE Choose(d, c) \/ Misread(d, c)
    <3>1. /\ pc[d] = "select" /\ LaneIdle(d)
          /\ UNCHANGED <<workers, child, lanePid, laneCard>> /\ cur' = [cur EXCEPT ![d] = c]
          /\ \E s \in {"unlink", "lock", "misread", "select"} : pc' = [pc EXCEPT ![d] = s]
      BY <2>4 DEF Choose, Misread, Unlink, CanDispatch
    <3> QED BY <1>0, <3>1, LaneQuietStep DEF TypeOK, IdleSteps, ClaimSteps
  <2> QED BY <1>24, <2>1, <2>2, <2>3, <2>4
<1> QED BY <1>1, <1>2, <1>3, <1>4, <1>5, <1>6, <1>7, <1>8, <1>9, <1>10, <1>11, <1>12, <1>13, <1>14, <1>15, <1>16, <1>17, <1>18, <1>19, <1>20, <1>21, <1>22, <1>23, <1>24 DEF DispatcherStep

\* Every step keeps the lanes, whatever Env allows and whoever shares the host.
LEMMA LaneStep == LaneInv /\ [Next]_vars => LaneInv'
<1> SUFFICES ASSUME LaneInv, [Next]_vars PROVE LaneInv'
  OBVIOUS
<1> USE DispatcherAssumption DEF Goto, board, workers, locals, LaneInv, Alive, LaneIdle
<1>0. TypeOK /\ LaneFree /\ TInv'
  BY TypeStep DEF TInv
<1>1. ASSUME NEW d \in Dispatcher, DispatcherStep(d) PROVE LaneInv'
  BY <1>0, <1>1, LaneStepDispatcher
<1>2. ASSUME NEW d \in Dispatcher, Start(d) PROVE LaneInv'
  <2>1. /\ pc[d] = "off" /\ pc' = [pc EXCEPT ![d] = "reap"]
        /\ UNCHANGED <<workers, cur, child, lanePid, laneCard>>
        /\ \A p \in Pid : Alive(p) => wby[p] # d
    BY <1>2 DEF Start, OrphanFree
  <2>2. pc'[d] = "reap" /\ \A e \in Dispatcher \ {d} : pc'[e] = pc[e]
    BY <1>0, <2>1 DEF TypeOK
  <2>3. ChildKnown' /\ LaneKnown' /\ OneLive'
    BY <2>1, <2>2 DEF ChildKnown, LaneKnown, OneLive
  <2>4. LaneFree'
    BY <2>1, <2>2 DEF LaneFree, IdleSteps, ClaimSteps
  <2>5. LaneHolds'
    BY <2>1, <2>2 DEF LaneHolds, TInv, Born
  <2> QED BY <1>0, <2>3, <2>4, <2>5
<1>3. ASSUME NEW d \in Dispatcher, Halt(d) \/ Crash(d) PROVE LaneInv'
  <2>1. /\ pc' = [pc EXCEPT ![d] = "off"] /\ UNCHANGED workers /\ ForgetAll(d)
    BY <1>3 DEF Halt, Crash, Killed
  <2> QED BY <1>0, <2>1, LaneQuietStep DEF ForgetAll, ForgetTick, TypeOK, IdleSteps, ClaimSteps
<1>4. ASSUME NEW h \in Host, NEW c \in Card, GraceExpires(h, c) PROVE LaneInv'
  BY <1>0, <1>4, LaneQuietStep DEF GraceExpires
<1>5. ASSUME NEW p \in Pid, WorkerClaims(p) \/ WorkerReleases(p) \/ WorkerExits(p) PROVE LaneInv'
  <2>1. /\ UNCHANGED <<wcard, wby, pc, cur, child, lanePid, laneCard>>
        /\ wstate[p] # "unborn" /\ Alive(p)
        /\ \E s \in {"working", "lingering", "dead"} : wstate' = [wstate EXCEPT ![p] = s]
    BY <1>5 DEF WorkerClaims, WorkerReleases, WorkerExits
  <2>2. \A q \in Pid : /\ Alive(q)' => Alive(q)
                       /\ wstate[q] # "unborn" => wstate'[q] # "unborn"
    BY <1>0, <2>1 DEF TypeOK
  <2> QED BY <1>0, <2>1, <2>2, LaneQuietStep
<1>6. ASSUME NEW c \in Card, NEW s \in Status, CardMoves(c, s) PROVE LaneInv'
  BY <1>0, <1>6, LaneQuietStep DEF CardMoves
<1>7. CASE UNCHANGED vars
  BY <1>0, <1>7, LaneQuietStep DEF vars
<1> QED BY <1>1, <1>2, <1>3, <1>4, <1>5, <1>6, <1>7 DEF Next

\* Every step keeps the lanes.
LEMMA LaneInvariant == Spec => []LaneInv
BY LaneInit, LaneStep, PTL DEF Spec

\* The hypothesis of one dispatcher per machine.
OwnHost == \A d, e \in Dispatcher : HostOf[d] = HostOf[e] => d = e

\* With one dispatcher per machine, a machine never has two live workers, on
\* whatever cards, whatever crashes, restarts, slow claims and failed calls came
\* between: a restart waits for the workers of the earlier run, and a dispatcher
\* takes no card before its own lane is free.
THEOREM OnePerHost == OwnHost => (Spec => []OneWorkerPerHost)
<1> SUFFICES ASSUME OwnHost PROVE Spec => []OneWorkerPerHost
  OBVIOUS
<1>1. LaneInv => OneWorkerPerHost
  <2> SUFFICES ASSUME LaneInv, NEW p \in Pid, NEW q \in Pid, Alive(p), Alive(q), SameHost(p, q)
               PROVE  p = q
    BY DEF OneWorkerPerHost
  <2>1. wby[p] \in Dispatcher /\ wby[q] \in Dispatcher
    BY DEF LaneInv, TInv, Born, Alive
  <2>2. wby[p] = wby[q]
    BY <2>1 DEF OwnHost, SameHost
  <2> QED BY <2>2 DEF LaneInv, OneLive
<1> QED BY <1>1, LaneInvariant, PTL

-----------------------------------------------------------------------------
(* What a dispatcher that has its host for itself knows of its lock files. *)

ReapSteps == {"reap-unlink", "reap-release"}

\* The lock file of the lane's card names the lane's worker ...
LaneLocked ==
  \A d \in Dispatcher : ~LaneIdle(d) => lock[HostOf[d]][laneCard[d]] = lanePid[d]

\* ... and it is not that card the reaper is giving back.
NotReaped ==
  \A d \in Dispatcher : pc[d] \in ReapSteps /\ ~LaneIdle(d) => cur[d] # laneCard[d]

HostInv == LaneInv /\ LaneLocked /\ NotReaped

LEMMA HostInit == Init => HostInv
BY LaneInit, DispatcherAssumption DEF Init, HostInv, LaneLocked, NotReaped, ReapSteps, LaneIdle, Alive

\* A dispatcher writes its own machine's lock files only.
LEMMA OwnLocks ==
  ASSUME OwnHost, TypeOK, NEW d \in Dispatcher, NEW c, NEW v,
         lock' = lock \/ SetLock(HostOf[d], c, v),
         NEW e \in Dispatcher, NEW b \in Card, e # d \/ b # c
  PROVE  lock'[HostOf[e]][b] = lock[HostOf[e]][b]
BY DispatcherAssumption DEF TypeOK, SetLock, OwnHost

\* The worker of a lane is one of the dispatcher's, on a card of the board.
LEMMA LaneWorker ==
  ASSUME LaneInv, NEW d \in Dispatcher, ~LaneIdle(d)
  PROVE  /\ lanePid[d] \in Pid /\ Alive(lanePid[d]) /\ wby[lanePid[d]] = d
         /\ laneCard[d] \in Card /\ wcard[lanePid[d]] = laneCard[d]
BY DispatcherAssumption DEF LaneInv, LaneIdle, LaneKnown, TInv, Born, Alive

\* While a dispatcher gives up its lane or takes a card, it has no live worker.
LEMMA NoWorker ==
  ASSUME LaneInv, NEW d \in Dispatcher, pc[d] \in IdleSteps \ {"record"}, NEW p \in Pid, Alive(p)
  PROVE  wby[p] # d
BY DEF LaneInv, LaneFree, LaneHolds, LaneIdle, IdleSteps, ClaimSteps

\* A step that starts no worker and leaves the lock files of busy lanes alone.
LEMMA HostQuietStep ==
  ASSUME HostInv, LaneInv',
         \A p \in Pid : Alive(p)' => Alive(p),
         \A e \in Dispatcher : ~LaneIdle(e)' =>
           /\ lanePid'[e] = lanePid[e] /\ laneCard'[e] = laneCard[e]
           /\ lock'[HostOf[e]][laneCard[e]] = lock[HostOf[e]][laneCard[e]]
           /\ pc'[e] \in ReapSteps => \/ pc[e] \in ReapSteps /\ cur'[e] = cur[e]
                                      \/ cur'[e] # laneCard[e]
  PROVE  HostInv'
<1> USE DEF HostInv
<1>1. \A e \in Dispatcher : ~LaneIdle(e)' => ~LaneIdle(e)
  BY DEF LaneIdle, Alive
<1>2. LaneLocked'
  BY <1>1 DEF LaneLocked
<1>3. NotReaped'
  BY <1>1 DEF NotReaped
<1> QED BY <1>2, <1>3

\* A step of a dispatcher that does not touch the lock file of a busy lane.
LEMMA HostOwnStep ==
  ASSUME OwnHost, HostInv, LaneInv', NEW d \in Dispatcher, NEW c, NEW v,
         lock' = lock \/ SetLock(HostOf[d], c, v),
         UNCHANGED <<lanePid, laneCard, wstate>>,
         LaneIdle(d) \/ lock' = lock \/ c # laneCard[d],
         \A e \in Dispatcher \ {d} : pc'[e] = pc[e] /\ cur'[e] = cur[e],
         pc'[d] \in ReapSteps => \/ pc[d] \in ReapSteps /\ cur'[d] = cur[d]
                                 \/ LaneIdle(d)
                                 \/ cur'[d] # laneCard[d]
  PROVE  HostInv'
<1>1. \A p \in Pid : Alive(p)' <=> Alive(p)
  BY DEF Alive
<1>2. \A e \in Dispatcher : LaneIdle(e)' <=> LaneIdle(e)
  BY DEF LaneIdle, Alive
<1>3. ASSUME NEW e \in Dispatcher, ~LaneIdle(e)
      PROVE  lock'[HostOf[e]][laneCard[e]] = lock[HostOf[e]][laneCard[e]]
  <2>1. laneCard[e] \in Card /\ TypeOK
    BY <1>3, LaneWorker DEF HostInv, LaneInv, TInv
  <2>2. CASE lock' = lock
    BY <2>2
  <2>3. CASE SetLock(HostOf[d], c, v) /\ (e # d \/ c # laneCard[e])
    BY <2>1, <2>3, DispatcherAssumption DEF TypeOK, SetLock, OwnHost
  <2> QED BY <1>3, <2>2, <2>3
<1> QED BY <1>1, <1>2, <1>3, HostQuietStep

LEMMA HostStepDispatcher ==
  ASSUME OwnHost, HostInv, LaneInv', NEW d \in Dispatcher, DispatcherStep(d)
  PROVE  HostInv'
<1> USE DispatcherAssumption DEF Goto, board, workers, locals
<1>0. /\ TypeOK /\ LaneFree /\ LaneInv
  BY DEF HostInv, LaneInv, TInv
<1>1. CASE Tick(d)
  BY <1>0, <1>1, HostOwnStep DEF Tick, TypeOK, ReapSteps
<1>2. CASE ReapRelease(d)
  BY <1>0, <1>2, HostOwnStep DEF ReapRelease, TypeOK, ReapSteps
<1>3. CASE ReapDone(d)
  BY <1>0, <1>3, HostOwnStep DEF ReapDone, TypeOK, ReapSteps
<1>4. CASE SweepDone(d)
  BY <1>0, <1>4, HostOwnStep DEF SweepDone, TypeOK, ReapSteps
<1>5. CASE Fetch(d)
  BY <1>0, <1>5, HostOwnStep DEF Fetch, TypeOK, ReapSteps
<1>6. CASE NothingToDispatch(d)
  BY <1>0, <1>6, HostOwnStep DEF NothingToDispatch, EndTick, ForgetTick, TypeOK, ReapSteps
<1>7. CASE LockTaken(d)
  BY <1>0, <1>7, HostOwnStep DEF LockTaken, EndTick, ForgetTick, TypeOK, ReapSteps
<1>8. CASE PermitClaim(d)
  BY <1>0, <1>8, HostOwnStep DEF PermitClaim, TypeOK, ReapSteps
<1>9. CASE AddAssignee(d)
  BY <1>0, <1>9, HostOwnStep DEF AddAssignee, TypeOK, ReapSteps
<1>10. CASE VerifyClaim(d)
  BY <1>0, <1>10, HostOwnStep DEF VerifyClaim, TypeOK, ReapSteps
<1>11. CASE PermitLaunch(d)
  BY <1>0, <1>11, HostOwnStep DEF PermitLaunch, TypeOK, ReapSteps
<1>12. CASE SpawnBound(d)
  BY <1>0, <1>12, HostOwnStep DEF SpawnBound, TypeOK, ReapSteps
<1>13. CASE SpawnFailed(d)
  BY <1>0, <1>13, HostOwnStep DEF SpawnFailed, TypeOK, ReapSteps
<1>14. CASE Unclaim(d)
  BY <1>0, <1>14, HostOwnStep DEF Unclaim, TypeOK, ReapSteps
<1>15. CASE ZombieUnlink(d)
  <2>1. LaneIdle(d)
    BY <1>0, <1>15 DEF ZombieUnlink, LaneFree, IdleSteps, ClaimSteps
  <2> QED BY <1>0, <1>15, <2>1, HostOwnStep DEF ZombieUnlink, TypeOK, ReapSteps
<1>16. CASE ChosenUnlink(d)
  <2>1. LaneIdle(d)
    BY <1>0, <1>16 DEF ChosenUnlink, LaneFree, IdleSteps, ClaimSteps
  <2> QED BY <1>0, <1>16, <2>1, HostOwnStep DEF ChosenUnlink, TypeOK, ReapSteps
<1>17. CASE TakeLock(d)
  <2>1. LaneIdle(d)
    BY <1>0, <1>17 DEF TakeLock, LaneFree, IdleSteps, ClaimSteps
  <2> QED BY <1>0, <1>17, <2>1, HostOwnStep DEF TakeLock, TypeOK, ReapSteps
<1>18. CASE DropLock(d)
  <2>1. LaneIdle(d)
    BY <1>0, <1>18 DEF DropLock, LaneFree, IdleSteps, ClaimSteps
  <2> QED BY <1>0, <1>18, <2>1, HostOwnStep DEF DropLock, EndTick, ForgetTick, TypeOK, ReapSteps
<1>19. CASE ReapUnlink(d)
  <2>1. LaneIdle(d) \/ cur[d] # laneCard[d]
    BY <1>19 DEF ReapUnlink, HostInv, NotReaped, ReapSteps
  <2> QED BY <1>0, <1>19, <2>1, HostOwnStep DEF ReapUnlink, TypeOK, ReapSteps
<1>20. CASE ZombieRelease(d)
  <2>1. /\ pc[d] = "zombie-release" /\ pc' = [pc EXCEPT ![d] = "sweep"]
        /\ lanePid' = [lanePid EXCEPT ![d] = NoPid] /\ laneCard' = [laneCard EXCEPT ![d] = NoCard]
        /\ UNCHANGED <<lock, wstate, cur>>
    BY <1>20 DEF ZombieRelease
  <2>2. LaneIdle(d)'
    BY <1>0, <2>1 DEF LaneIdle, Alive, TypeOK
  <2> QED BY <1>0, <2>1, <2>2, HostQuietStep DEF TypeOK, Alive
<1>21. CASE SweepKill(d)
  <2>1. /\ lanePid[d] \in Pid /\ wstate' = [wstate EXCEPT ![lanePid[d]] = "dead"]
        /\ UNCHANGED <<cur, lanePid, laneCard>>
        /\ lock' = lock \/ SetLock(HostOf[d], laneCard[d], "free")
        /\ \E s \in {"zombie-unlink", "zombie-release"} : pc' = [pc EXCEPT ![d] = s]
    BY <1>21 DEF SweepKill, LaneZombie, LaneIdle, Alive, Unlink
  <2>2. LaneIdle(d)' /\ \A p \in Pid : Alive(p)' => Alive(p)
    BY <1>0, <2>1 DEF LaneIdle, Alive, TypeOK
  <2>3. ASSUME NEW e \in Dispatcher, ~LaneIdle(e)'
        PROVE  e # d /\ lock'[HostOf[e]][laneCard[e]] = lock[HostOf[e]][laneCard[e]]
    <3>1. ~LaneIdle(e) /\ e # d
      BY <2>1, <2>2, <2>3 DEF LaneIdle, Alive
    <3>2. laneCard[e] \in Card
      BY <1>0, <3>1, LaneWorker
    <3> QED BY <1>0, <2>1, <3>1, <3>2, OwnLocks
  <2> QED BY <1>0, <2>1, <2>2, <2>3, HostQuietStep DEF TypeOK
<1>22. CASE Spawn(d)
  <2>1. /\ pc[d] = "spawn" /\ pc' = [pc EXCEPT ![d] = "record"] /\ UNCHANGED <<lock, cur, lanePid, laneCard>>
        /\ \E p \in Pid : wstate[p] = "unborn" /\ wstate' = [wstate EXCEPT ![p] = "spawned"]
    BY <1>22 DEF Spawn
  <2>2. \A e \in Dispatcher : LaneIdle(e)' <=> LaneIdle(e)
    BY <1>0, <2>1 DEF LaneInv, LaneKnown, LaneIdle, Alive, TypeOK
  <2> QED BY <1>0, <2>1, <2>2 DEF HostInv, LaneLocked, NotReaped, ReapSteps, TypeOK
<1>23. CASE RecordPid(d)
  <2>1. /\ pc[d] = "record" /\ cur[d] \in Card
        /\ SetLock(HostOf[d], cur[d], child[d]) /\ pc' = [pc EXCEPT ![d] = "sleep"]
        /\ lanePid' = [lanePid EXCEPT ![d] = child[d]] /\ laneCard' = [laneCard EXCEPT ![d] = cur[d]]
        /\ cur' = [cur EXCEPT ![d] = NoCard] /\ UNCHANGED wstate
    BY <1>0, <1>23 DEF RecordPid, EndTick, ForgetTick, LaneInv, TInv, HasCard, ClaimSteps
  <2>2. lock'[HostOf[d]][laneCard'[d]] = lanePid'[d]
    BY <1>0, <2>1 DEF SetLock, TypeOK
  <2>3. ASSUME NEW e \in Dispatcher \ {d}
        PROVE  /\ lanePid'[e] = lanePid[e] /\ laneCard'[e] = laneCard[e]
               /\ pc'[e] = pc[e] /\ cur'[e] = cur[e] /\ (LaneIdle(e)' <=> LaneIdle(e))
               /\ ~LaneIdle(e) => lock'[HostOf[e]][laneCard[e]] = lock[HostOf[e]][laneCard[e]]
    <3>1. lanePid'[e] = lanePid[e] /\ laneCard'[e] = laneCard[e] /\ pc'[e] = pc[e] /\ cur'[e] = cur[e]
      BY <1>0, <2>1, <2>3 DEF TypeOK
    <3>2. LaneIdle(e)' <=> LaneIdle(e)
      BY <2>1, <3>1 DEF LaneIdle, Alive
    <3>3. ~LaneIdle(e) => lock'[HostOf[e]][laneCard[e]] = lock[HostOf[e]][laneCard[e]]
      BY <1>0, <2>1, <2>3, LaneWorker, OwnLocks
    <3> QED BY <3>1, <3>2, <3>3
  <2>4. LaneLocked'
    BY <2>2, <2>3 DEF HostInv, LaneLocked
  <2>5. NotReaped'
    BY <1>0, <2>1, <2>3 DEF HostInv, NotReaped, ReapSteps, TypeOK
  <2> QED BY <2>4, <2>5 DEF HostInv
<1>24. ASSUME NEW c \in Card, ReapKeep(d, c) \/ ReapJudge(d, c) \/ SkipLocked(d, c)
                          \/ Choose(d, c) \/ Misread(d, c)
      PROVE  HostInv'
  <2>1. CASE ReapKeep(d, c)
    BY <1>0, <2>1, HostOwnStep DEF ReapKeep, ReapSteps
  <2>2. CASE SkipLocked(d, c)
    BY <1>0, <2>2, HostOwnStep DEF SkipLocked, ReapSteps
  <2>3. CASE ReapJudge(d, c)
    <3>1. /\ UNCHANGED <<wstate, lanePid, laneCard>> /\ cur' = [cur EXCEPT ![d] = c]
          /\ LockStale(HostOf[d], c)
          /\ lock' = lock \/ SetLock(HostOf[d], c, "free")
          /\ \E s \in ReapSteps : pc' = [pc EXCEPT ![d] = s]
      BY <2>3 DEF ReapJudge, Unlink, ReapSteps
    <3>2. LaneIdle(d) \/ c # laneCard[d]
      BY <3>1 DEF HostInv, LaneLocked, LockStale, LockHeld, LaneIdle
    <3> QED BY <1>0, <3>1, <3>2, HostOwnStep DEF TypeOK
  <2>4. CASE Choose(d, c) \/ Misread(d, c)
    <3>1. /\ LaneIdle(d) /\ UNCHANGED <<wstate, lanePid, laneCard>> /\ cur' = [cur EXCEPT ![d] = c]
          /\ lock' = lock \/ SetLock(HostOf[d], c, "free")
          /\ \E s \in {"unlink", "lock", "misread", "select"} : pc' = [pc EXCEPT ![d] = s]
      BY <2>4 DEF Choose, Misread, Unlink, CanDispatch
    <3> QED BY <1>0, <3>1, HostOwnStep DEF TypeOK, ReapSteps
  <2> QED BY <1>24, <2>1, <2>2, <2>3, <2>4
<1> QED BY <1>1, <1>2, <1>3, <1>4, <1>5, <1>6, <1>7, <1>8, <1>9, <1>10, <1>11, <1>12, <1>13, <1>14, <1>15, <1>16, <1>17, <1>18, <1>19, <1>20, <1>21, <1>22, <1>23, <1>24 DEF DispatcherStep

\* Every step keeps it, with one dispatcher per machine.
LEMMA HostStep == OwnHost /\ HostInv /\ [Next]_vars => HostInv'
<1> SUFFICES ASSUME OwnHost, HostInv, [Next]_vars PROVE HostInv'
  OBVIOUS
<1> USE DispatcherAssumption DEF Goto, board, workers, locals
<1>0. TypeOK /\ LaneInv /\ LaneInv'
  BY LaneStep DEF HostInv, LaneInv, TInv
<1>1. ASSUME NEW d \in Dispatcher, DispatcherStep(d) PROVE HostInv'
  BY <1>0, <1>1, HostStepDispatcher
<1>2. ASSUME NEW d \in Dispatcher, Start(d) PROVE HostInv'
  BY <1>0, <1>2, HostOwnStep DEF Start, TypeOK, ReapSteps
<1>3. ASSUME NEW d \in Dispatcher, Halt(d) \/ Crash(d) PROVE HostInv'
  <2>1. /\ pc' = [pc EXCEPT ![d] = "off"] /\ UNCHANGED <<lock, wstate>> /\ ForgetAll(d)
    BY <1>3 DEF Halt, Crash, Killed
  <2>2. LaneIdle(d)'
    BY <1>0, <2>1 DEF ForgetAll, LaneIdle, Alive, TypeOK
  <2> QED BY <1>0, <2>1, <2>2, HostQuietStep DEF ForgetAll, ForgetTick, TypeOK, Alive
<1>4. ASSUME NEW h \in Host, NEW c \in Card, GraceExpires(h, c) PROVE HostInv'
  <2>1. /\ lock[h][c] = "claiming" /\ SetLock(h, c, "expired")
        /\ UNCHANGED <<wstate, pc, cur, lanePid, laneCard>>
    BY <1>4 DEF GraceExpires
  <2>2. \A e \in Dispatcher : LaneIdle(e)' <=> LaneIdle(e)
    BY <2>1 DEF LaneIdle, Alive
  <2>3. ASSUME NEW e \in Dispatcher, ~LaneIdle(e)
        PROVE  lock'[HostOf[e]][laneCard[e]] = lock[HostOf[e]][laneCard[e]]
    <3>1. lanePid[e] \in Pid /\ laneCard[e] \in Card /\ lock[HostOf[e]][laneCard[e]] = lanePid[e]
      BY <1>0, <2>3, LaneWorker DEF HostInv, LaneLocked
    <3> QED BY <1>0, <2>1, <3>1 DEF SetLock, TypeOK, PidlessLocks
  <2> QED BY <1>0, <2>1, <2>2, <2>3, HostQuietStep DEF Alive
<1>5. ASSUME NEW p \in Pid, WorkerClaims(p) \/ WorkerReleases(p) \/ WorkerExits(p) PROVE HostInv'
  <2>1. /\ UNCHANGED <<lock, pc, cur, lanePid, laneCard>> /\ Alive(p)
        /\ \E s \in {"working", "lingering", "dead"} : wstate' = [wstate EXCEPT ![p] = s]
    BY <1>5 DEF WorkerClaims, WorkerReleases, WorkerExits, Alive
  <2>2. \A q \in Pid : Alive(q)' => Alive(q)
    BY <1>0, <2>1 DEF TypeOK, Alive
  <2> QED BY <1>0, <2>1, <2>2, HostQuietStep
<1>6. ASSUME NEW c \in Card, NEW s \in Status, CardMoves(c, s) PROVE HostInv'
  BY <1>0, <1>6, HostQuietStep DEF CardMoves, Alive
<1>7. CASE UNCHANGED vars
  BY <1>0, <1>7, HostQuietStep DEF vars, Alive
<1> QED BY <1>1, <1>2, <1>3, <1>4, <1>5, <1>6, <1>7 DEF Next

-----------------------------------------------------------------------------
(* The claim on GitHub, between dispatchers of different identities. *)

\* The hypothesis of the claim: no two dispatchers share a machine or an identity.
Apart == OwnHost /\ \A d, e \in Dispatcher : LoginOf[d] = LoginOf[e] => d = e

\* d has read its claim on c back and nobody has given it back since: d launches,
\* or its worker is engaged.
Holds(d, c) ==
  \/ pc[d] \in {"launch", "spawn"} /\ cur[d] = c
  \/ \E p \in Pid : Engaged(p) /\ wby[p] = d /\ wcard[p] = c

\* Who holds a card is among its assignees ...
HoldClaimed == \A d \in Dispatcher, c \in Card : Holds(d, c) => LoginOf[d] \in assignees[c]

\* ... and holds it alone.
HoldOne == \A d, e \in Dispatcher, c \in Card : Holds(d, c) /\ Holds(e, c) => d = e

ClaimInv == HostInv /\ HoldClaimed /\ HoldOne

LEMMA ClaimInit == Init => ClaimInv
BY HostInit DEF Init, ClaimInv, HoldClaimed, HoldOne, Holds, Engaged

\* A step in which nobody comes to hold a card, and whoever goes on holding one
\* stays among its assignees.
LEMMA ClaimQuietStep ==
  ASSUME ClaimInv, HostInv',
         \A e \in Dispatcher, c \in Card : Holds(e, c)' =>
           Holds(e, c) /\ (LoginOf[e] \in assignees[c] => LoginOf[e] \in assignees'[c])
  PROVE  ClaimInv'
BY DEF ClaimInv, HoldClaimed, HoldOne

\* A dispatcher step that neither enters the launch nor touches a worker.
LEMMA HoldsOnly ==
  ASSUME NEW d \in Dispatcher, NEW e \in Dispatcher, NEW c \in Card, TypeOK,
         \A p \in Pid : Engaged(p)' => Engaged(p),
         UNCHANGED <<wby, wcard>>,
         \A f \in Dispatcher \ {d} : pc'[f] = pc[f] /\ cur'[f] = cur[f],
         pc'[d] \in {"launch", "spawn"} => pc[d] \in {"launch", "spawn"} /\ cur'[d] = cur[d],
         Holds(e, c)'
  PROVE  Holds(e, c)
BY DEF Holds

\* One dispatcher takes its own identity off a card on which it has no worker.
LEMMA GivenBack ==
  ASSUME Apart, TypeOK, NEW d \in Dispatcher, NEW b, ReleaseClaim(d, b),
         NEW e \in Dispatcher, NEW c \in Card, LoginOf[e] \in assignees[c], e # d \/ b # c
  PROVE  LoginOf[e] \in assignees'[c]
BY DispatcherAssumption DEF ReleaseClaim, TypeOK, Apart

LEMMA ClaimStepDispatcher ==
  ASSUME Apart, ClaimInv, HostInv', NEW d \in Dispatcher, DispatcherStep(d)
  PROVE  ClaimInv'
<1> USE DispatcherAssumption DEF Goto, board, workers, locals
<1>0. /\ TypeOK /\ LaneFree /\ LaneInv /\ HostInv /\ HasCard
  BY DEF ClaimInv, HostInv, LaneInv, TInv
<1>1. CASE Tick(d)
  BY <1>0, <1>1, HoldsOnly, ClaimQuietStep DEF Tick, TypeOK, Engaged
<1>2. CASE ReapUnlink(d)
  BY <1>0, <1>2, HoldsOnly, ClaimQuietStep DEF ReapUnlink, TypeOK, Engaged
<1>3. CASE ReapDone(d)
  BY <1>0, <1>3, HoldsOnly, ClaimQuietStep DEF ReapDone, TypeOK, Engaged
<1>4. CASE ZombieUnlink(d)
  BY <1>0, <1>4, HoldsOnly, ClaimQuietStep DEF ZombieUnlink, TypeOK, Engaged
<1>5. CASE SweepDone(d)
  BY <1>0, <1>5, HoldsOnly, ClaimQuietStep DEF SweepDone, TypeOK, Engaged
<1>6. CASE Fetch(d)
  BY <1>0, <1>6, HoldsOnly, ClaimQuietStep DEF Fetch, TypeOK, Engaged
<1>7. CASE ChosenUnlink(d)
  BY <1>0, <1>7, HoldsOnly, ClaimQuietStep DEF ChosenUnlink, TypeOK, Engaged
<1>8. CASE NothingToDispatch(d)
  BY <1>0, <1>8, HoldsOnly, ClaimQuietStep DEF NothingToDispatch, EndTick, ForgetTick, TypeOK, Engaged
<1>9. CASE TakeLock(d)
  BY <1>0, <1>9, HoldsOnly, ClaimQuietStep DEF TakeLock, TypeOK, Engaged
<1>10. CASE LockTaken(d)
  BY <1>0, <1>10, HoldsOnly, ClaimQuietStep DEF LockTaken, EndTick, ForgetTick, TypeOK, Engaged
<1>11. CASE PermitClaim(d)
  BY <1>0, <1>11, HoldsOnly, ClaimQuietStep DEF PermitClaim, TypeOK, Engaged
<1>12. CASE PermitLaunch(d)
  BY <1>0, <1>12, HoldsOnly, ClaimQuietStep DEF PermitLaunch, TypeOK, Engaged
<1>13. CASE SpawnBound(d)
  BY <1>0, <1>13, HoldsOnly, ClaimQuietStep DEF SpawnBound, TypeOK, Engaged
<1>14. CASE SpawnFailed(d)
  BY <1>0, <1>14, HoldsOnly, ClaimQuietStep DEF SpawnFailed, TypeOK, Engaged
<1>15. CASE RecordPid(d)
  BY <1>0, <1>15, HoldsOnly, ClaimQuietStep DEF RecordPid, EndTick, ForgetTick, TypeOK, Engaged
<1>16. CASE DropLock(d)
  BY <1>0, <1>16, HoldsOnly, ClaimQuietStep DEF DropLock, EndTick, ForgetTick, TypeOK, Engaged
<1>17. CASE AddAssignee(d)
  <2>1. /\ UNCHANGED <<wstate, wby, wcard, cur>> /\ pc[d] = "claim"
        /\ \E s \in {"verify", "drop"} : pc' = [pc EXCEPT ![d] = s]
        /\ assignees' = assignees \/ assignees' = [assignees EXCEPT ![cur[d]] = @ \cup {LoginOf[d]}]
    BY <1>17 DEF AddAssignee
  <2>2. \A e \in Dispatcher, c \in Card : Holds(e, c)' => Holds(e, c)
    BY <1>0, <2>1, HoldsOnly DEF TypeOK, Engaged
  <2>3. ASSUME NEW l, NEW c \in Card, l \in assignees[c] PROVE l \in assignees'[c]
    <3>1. assignees \in [Card -> SUBSET Login]
      BY <1>0 DEF TypeOK
    <3>2. CASE assignees' = [assignees EXCEPT ![cur[d]] = @ \cup {LoginOf[d]}]
      <4>1. assignees'[c] = IF c = cur[d] THEN assignees[c] \cup {LoginOf[d]} ELSE assignees[c]
        BY <3>1, <3>2
      <4> QED BY <2>3, <4>1
    <3> QED BY <2>1, <2>3, <3>2
  <2> QED BY <2>2, <2>3, ClaimQuietStep
<1>18. CASE ReapRelease(d)
  <2>1. /\ UNCHANGED <<wstate, wby, wcard>> /\ pc[d] = "reap-release" /\ ReleaseClaim(d, cur[d])
        /\ pc' = [pc EXCEPT ![d] = "reap"] /\ cur' = [cur EXCEPT ![d] = NoCard]
    BY <1>18 DEF ReapRelease
  <2>2. ASSUME NEW e \in Dispatcher, NEW c \in Card, Holds(e, c)'
        PROVE  Holds(e, c) /\ (e # d \/ cur[d] # c)
    <3>1. Holds(e, c)
      BY <1>0, <2>1, <2>2, HoldsOnly DEF TypeOK, Engaged
    <3>2. ASSUME e = d PROVE cur[d] # c
      <4>1. PICK p \in Pid : Alive(p) /\ wby[p] = d /\ wcard[p] = c
        BY <1>0, <2>1, <2>2, <3>2 DEF Holds, Engaged, Alive, TypeOK
      <4>2. lanePid[d] = p
        BY <1>0, <2>1, <4>1 DEF LaneInv, LaneHolds
      <4>3. laneCard[d] = c /\ ~LaneIdle(d)
        BY <1>0, <4>1, <4>2, LaneWorker DEF LaneIdle
      <4> QED BY <1>0, <2>1, <4>3 DEF HostInv, NotReaped, ReapSteps
    <3> QED BY <3>1, <3>2
  <2> QED BY <1>0, <2>1, <2>2, GivenBack, ClaimQuietStep
<1>19. CASE ZombieRelease(d)
  <2>1. /\ UNCHANGED <<wstate, wby, wcard, cur>> /\ pc[d] = "zombie-release" /\ ReleaseClaim(d, laneCard[d])
        /\ \E s \in {"sweep", "drop"} : pc' = [pc EXCEPT ![d] = s]
    BY <1>19 DEF ZombieRelease
  <2>2. ASSUME NEW e \in Dispatcher, NEW c \in Card, Holds(e, c)' PROVE Holds(e, c) /\ e # d
    <3>1. Holds(e, c)
      BY <1>0, <2>1, <2>2, HoldsOnly DEF TypeOK, Engaged
    <3>2. \A p \in Pid : Engaged(p) => wby[p] # d
      BY <1>0, <2>1, NoWorker DEF IdleSteps, ClaimSteps, Engaged, Alive
    <3> QED BY <2>1, <3>1, <3>2 DEF Holds
  <2> QED BY <1>0, <2>1, <2>2, GivenBack, ClaimQuietStep
<1>20. CASE Unclaim(d)
  <2>1. /\ UNCHANGED <<wstate, wby, wcard, cur>> /\ pc[d] = "unclaim" /\ ReleaseClaim(d, cur[d])
        /\ \E s \in {"sweep", "drop"} : pc' = [pc EXCEPT ![d] = s]
    BY <1>20 DEF Unclaim
  <2>2. ASSUME NEW e \in Dispatcher, NEW c \in Card, Holds(e, c)' PROVE Holds(e, c) /\ e # d
    <3>1. Holds(e, c)
      BY <1>0, <2>1, <2>2, HoldsOnly DEF TypeOK, Engaged
    <3>2. \A p \in Pid : Engaged(p) => wby[p] # d
      BY <1>0, <2>1, NoWorker DEF IdleSteps, ClaimSteps, Engaged, Alive
    <3> QED BY <2>1, <3>1, <3>2 DEF Holds
  <2> QED BY <1>0, <2>1, <2>2, GivenBack, ClaimQuietStep
<1>21. CASE SweepKill(d)
  <2>1. /\ wstate' = [wstate EXCEPT ![lanePid[d]] = "dead"] /\ UNCHANGED <<assignees, wby, wcard, cur>>
        /\ \E s \in {"zombie-unlink", "zombie-release"} : pc' = [pc EXCEPT ![d] = s]
    BY <1>21 DEF SweepKill, Unlink
  <2> QED BY <1>0, <2>1, HoldsOnly, ClaimQuietStep DEF TypeOK, Engaged
<1>22. CASE VerifyClaim(d)
  <2>1. UNCHANGED <<assignees, wstate, wby, wcard, cur>> /\ pc[d] = "verify" /\ cur[d] \in Card
    BY <1>0, <1>22 DEF VerifyClaim, HasCard, ClaimSteps
  <2>2. CASE pc' = [pc EXCEPT ![d] = "unclaim"]
    BY <1>0, <2>1, <2>2, HoldsOnly, ClaimQuietStep DEF TypeOK, Engaged
  <2>3. CASE pc' = [pc EXCEPT ![d] = "launch"] /\ assignees[cur[d]] = {LoginOf[d]}
    <3>1. ASSUME NEW e \in Dispatcher, NEW c \in Card, Holds(e, c)'
          PROVE  Holds(e, c) \/ (e = d /\ c = cur[d])
      BY <1>0, <2>1, <2>3, <3>1 DEF Holds, Engaged, TypeOK
    <3>2. ASSUME NEW e \in Dispatcher, Holds(e, cur[d]) PROVE e = d
      BY <2>1, <2>3, <3>2 DEF ClaimInv, HoldClaimed, Apart
    <3>3. HoldClaimed'
      BY <2>1, <2>3, <3>1 DEF ClaimInv, HoldClaimed
    <3>4. HoldOne'
      BY <2>1, <3>1, <3>2 DEF ClaimInv, HoldOne
    <3> QED BY <3>3, <3>4 DEF ClaimInv
  <2> QED BY <1>22, <2>2, <2>3 DEF VerifyClaim
<1>23. CASE Spawn(d)
  <2>1. PICK p \in Pid :
          /\ wstate[p] = "unborn" /\ wstate' = [wstate EXCEPT ![p] = "spawned"]
          /\ wcard' = [wcard EXCEPT ![p] = cur[d]] /\ wby' = [wby EXCEPT ![p] = d]
    BY <1>23 DEF Spawn
  <2>2. pc[d] = "spawn" /\ pc' = [pc EXCEPT ![d] = "record"] /\ UNCHANGED <<assignees, cur>>
    BY <1>23 DEF Spawn
  <2>3. ASSUME NEW e \in Dispatcher, NEW c \in Card, Holds(e, c)' PROVE Holds(e, c)
    <3>1. CASE \E q \in Pid : Engaged(q)' /\ wby'[q] = e /\ wcard'[q] = c
      <4>1. PICK q \in Pid : Engaged(q)' /\ wby'[q] = e /\ wcard'[q] = c
        BY <3>1
      <4>2. CASE q = p
        BY <1>0, <2>1, <2>2, <4>1, <4>2 DEF Holds, TypeOK
      <4>3. CASE q # p
        BY <1>0, <2>1, <4>1, <4>3 DEF Holds, Engaged, TypeOK
      <4> QED BY <4>2, <4>3
    <3>2. CASE pc'[e] \in {"launch", "spawn"} /\ cur'[e] = c
      BY <1>0, <2>2, <3>2 DEF Holds, TypeOK
    <3> QED BY <2>3, <3>1, <3>2 DEF Holds
  <2> QED BY <2>2, <2>3, ClaimQuietStep
<1>24. ASSUME NEW c \in Card, ReapKeep(d, c) \/ ReapJudge(d, c) \/ SkipLocked(d, c)
                          \/ Choose(d, c) \/ Misread(d, c)
      PROVE  ClaimInv'
  <2>1. /\ UNCHANGED <<assignees, wstate, wby, wcard>>
        /\ cur' = cur \/ cur' = [cur EXCEPT ![d] = c]
        /\ \/ pc' = pc /\ pc[d] \in {"reap", "select"}
           \/ \E s \in {"reap-unlink", "reap-release", "unlink", "lock", "misread", "select"} :
                pc' = [pc EXCEPT ![d] = s]
    BY <1>24 DEF ReapKeep, ReapJudge, SkipLocked, Choose, Misread, Unlink
  <2>2. pc'[d] \notin {"launch", "spawn"} /\ \A f \in Dispatcher \ {d} : pc'[f] = pc[f] /\ cur'[f] = cur[f]
    BY <1>0, <2>1 DEF TypeOK
  <2>3. ASSUME NEW e \in Dispatcher, NEW b \in Card, Holds(e, b)' PROVE Holds(e, b)
    BY <2>1, <2>2, <2>3 DEF Holds, Engaged
  <2> QED BY <2>1, <2>3, ClaimQuietStep
<1> QED BY <1>1, <1>2, <1>3, <1>4, <1>5, <1>6, <1>7, <1>8, <1>9, <1>10, <1>11, <1>12, <1>13, <1>14, <1>15, <1>16, <1>17, <1>18, <1>19, <1>20, <1>21, <1>22, <1>23, <1>24 DEF DispatcherStep

\* Every step keeps the claims, when the dispatchers are apart.
LEMMA ClaimStep == Apart /\ ClaimInv /\ [Next]_vars => ClaimInv'
<1> SUFFICES ASSUME Apart, ClaimInv, [Next]_vars PROVE ClaimInv'
  OBVIOUS
<1> USE DispatcherAssumption DEF Goto, board, workers, locals
<1>0. TypeOK /\ TInv /\ LaneInv /\ HostInv /\ HostInv'
  BY HostStep DEF Apart, ClaimInv, HostInv, LaneInv, TInv
<1>1. ASSUME NEW d \in Dispatcher, DispatcherStep(d) PROVE ClaimInv'
  BY <1>0, <1>1, ClaimStepDispatcher
<1>2. ASSUME NEW d \in Dispatcher, Start(d) PROVE ClaimInv'
  BY <1>0, <1>2, HoldsOnly, ClaimQuietStep DEF Start, TypeOK, Engaged
<1>3. ASSUME NEW d \in Dispatcher, Halt(d) \/ Crash(d) PROVE ClaimInv'
  <2>1. /\ pc' = [pc EXCEPT ![d] = "off"] /\ cur' = [cur EXCEPT ![d] = NoCard]
        /\ UNCHANGED <<assignees, workers>>
    BY <1>3 DEF Halt, Crash, Killed, ForgetAll, ForgetTick
  <2> QED BY <1>0, <2>1, HoldsOnly, ClaimQuietStep DEF TypeOK, Engaged
<1>4. ASSUME NEW h \in Host, NEW c \in Card, GraceExpires(h, c) PROVE ClaimInv'
  BY <1>0, <1>4, ClaimQuietStep DEF GraceExpires, Holds, Engaged
<1>5. ASSUME NEW p \in Pid, WorkerClaims(p) \/ WorkerReleases(p) PROVE ClaimInv'
  <2> DEFINE d == wby[p]
             b == wcard[p]
  <2>1. /\ UNCHANGED <<wcard, wby, pc, cur>> /\ Alive(p) /\ Engaged(p)
        /\ d \in Dispatcher /\ b \in Card
        /\ \E s \in {"working", "lingering"} : wstate' = [wstate EXCEPT ![p] = s]
    BY <1>0, <1>5 DEF WorkerClaims, WorkerReleases, Alive, Engaged, TInv, Born
  <2>2. \A e \in Dispatcher, c \in Card : Holds(e, c)' => Holds(e, c)
    BY <1>0, <2>1 DEF Holds, Engaged, TypeOK
  <2>3. CASE wstate' = [wstate EXCEPT ![p] = "working"]
    <3>1. assignees[b] \subseteq {LoginOf[d]} /\ assignees' = [assignees EXCEPT ![b] = {LoginOf[d]}]
      BY <1>0, <1>5, <2>1, <2>3 DEF WorkerClaims, WorkerReleases, TypeOK
    <3>2. \A c \in Card : assignees[c] \subseteq assignees'[c]
      BY <1>0, <2>1, <3>1 DEF TypeOK
    <3> QED BY <1>0, <2>2, <3>2, ClaimQuietStep
  <2>4. CASE wstate' = [wstate EXCEPT ![p] = "lingering"]
    <3>1. assignees' = [assignees EXCEPT ![b] = @ \ {LoginOf[d]}]
      BY <1>0, <1>5, <2>1, <2>4 DEF WorkerClaims, WorkerReleases, TypeOK
    <3>2. ~Engaged(p)'
      BY <1>0, <2>4 DEF Engaged, TypeOK
    <3>3. ASSUME NEW e \in Dispatcher, NEW c \in Card, Holds(e, c)' PROVE e # d
      <4>1. CASE pc[e] \in {"launch", "spawn"}
        BY <1>0, <2>1, <4>1, NoWorker DEF IdleSteps, ClaimSteps
      <4>2. ASSUME NEW q \in Pid, Engaged(q)', wby[q] = e PROVE e # d
        <5>1. q # p /\ Alive(q)
          BY <1>0, <2>4, <3>2, <4>2 DEF Engaged, Alive, TypeOK
        <5> QED BY <1>0, <2>1, <4>2, <5>1 DEF LaneInv, OneLive
      <4> QED BY <2>1, <3>3, <4>1, <4>2 DEF Holds
    <3>4. \A e \in Dispatcher, c \in Card :
            e # d => (LoginOf[e] \in assignees[c] => LoginOf[e] \in assignees'[c])
      BY <1>0, <2>1, <3>1 DEF Apart, TypeOK
    <3> QED BY <1>0, <2>2, <3>3, <3>4, ClaimQuietStep
  <2> QED BY <2>1, <2>3, <2>4
<1>6. ASSUME NEW p \in Pid, WorkerExits(p) PROVE ClaimInv'
  <2>1. UNCHANGED <<assignees, wcard, wby, pc, cur>> /\ wstate' = [wstate EXCEPT ![p] = "dead"]
    BY <1>6 DEF WorkerExits
  <2>2. \A e \in Dispatcher, c \in Card : Holds(e, c)' => Holds(e, c)
    BY <1>0, <2>1 DEF Holds, Engaged, TypeOK
  <2> QED BY <1>0, <2>1, <2>2, ClaimQuietStep
<1>7. ASSUME NEW c \in Card, NEW s \in Status, CardMoves(c, s) PROVE ClaimInv'
  BY <1>0, <1>7, ClaimQuietStep DEF CardMoves, Holds, Engaged
<1>8. CASE UNCHANGED vars
  BY <1>0, <1>8, ClaimQuietStep DEF vars, Holds, Engaged
<1> QED BY <1>1, <1>2, <1>3, <1>4, <1>5, <1>6, <1>7, <1>8 DEF Next

LEMMA ClaimInvariant == Apart => (Spec => []ClaimInv)
<1> SUFFICES ASSUME Apart PROVE Spec => []ClaimInv
  OBVIOUS
<1>1. ClaimInv /\ [Next]_vars => ClaimInv'
  BY ClaimStep
<1> QED BY <1>1, ClaimInit, PTL DEF Spec

\* Two workers that have not given their card back are never on one card, on any
\* machines: the assignee claim, added and read back, excludes. It is read as
\* exactly one's own identity, whoever holds the card is among the assignees,
\* and only the holder's own dispatcher takes that identity off.
THEOREM ClaimExclusion == Apart => (Spec => []ClaimExcludes)
<1> SUFFICES ASSUME Apart PROVE Spec => []ClaimExcludes
  OBVIOUS
<1>1. ClaimInv => ClaimExcludes
  <2> SUFFICES ASSUME ClaimInv, NEW p \in Pid, NEW q \in Pid, Engaged(p), Engaged(q), wcard[p] = wcard[q]
               PROVE  p = q
    BY DEF ClaimExcludes
  <2>1. /\ Alive(p) /\ Alive(q) /\ wcard[p] \in Card
        /\ wby[p] \in Dispatcher /\ wby[q] \in Dispatcher
    BY DEF ClaimInv, HostInv, LaneInv, TInv, Born, Engaged, Alive
  <2>2. Holds(wby[p], wcard[p]) /\ Holds(wby[q], wcard[p])
    BY DEF Holds
  <2>3. wby[p] = wby[q]
    BY <2>1, <2>2 DEF ClaimInv, HoldOne
  <2> QED BY <2>1, <2>3 DEF ClaimInv, HostInv, LaneInv, OneLive
<1> QED BY <1>1, ClaimInvariant, PTL

\* While a worker works, the issue stays assigned to its dispatcher's identity,
\* whatever was reaped, restarted or failed meanwhile.
THEOREM ClaimsAreHeld == Apart => (Spec => []ClaimIsHeld)
<1> SUFFICES ASSUME Apart PROVE Spec => []ClaimIsHeld
  OBVIOUS
<1>1. ClaimInv => ClaimIsHeld
  <2> SUFFICES ASSUME ClaimInv, NEW p \in Pid, wstate[p] = "working"
               PROVE  LoginOf[wby[p]] \in assignees[wcard[p]]
    BY DEF ClaimIsHeld
  <2>1. wcard[p] \in Card /\ wby[p] \in Dispatcher
    BY DEF ClaimInv, HostInv, LaneInv, TInv, Born
  <2>2. Holds(wby[p], wcard[p])
    BY DEF Holds, Engaged
  <2> QED BY <2>1, <2>2 DEF ClaimInv, HoldClaimed
<1> QED BY <1>1, ClaimInvariant, PTL

-----------------------------------------------------------------------------
(* Claims left behind, when nothing fails. *)

\* The hypothesis: no dispatcher is killed between two steps and no call to
\* GitHub fails. Each of the two can strand a claim.
Calm == Env \cap {"crash", "gh-failure"} = {}

\* The steps at which a dispatcher has not yet claimed its card, or no longer.
OpenSteps == {"unlink", "misread", "lock", "permit", "claim", "drop"}

\* Where the claims of one dispatcher are: on a locked card, or on their way off.
\* A card it plans, picks or lets go is not claimed by it; a card it claims is locked.
CalmAt(d) ==
  /\ \A c \in Card : LoginOf[d] \in assignees[c] => lock[HostOf[d]][c] # "free" \/ Releasing(d, c)
  /\ pc[d] \in OpenSteps => LoginOf[d] \notin assignees[cur[d]]
  /\ pc[d] \notin ClaimSteps => \A c \in eligible[d] : LoginOf[d] \notin assignees[c]
  /\ pc[d] \in ClaimSteps => lock[HostOf[d]][cur[d]] # "free"

\* Nobody is assigned but the dispatchers' identities.
OwnBots == \A c \in Card : \A l \in assignees[c] : \E d \in Dispatcher : l = LoginOf[d]

CalmInv == ClaimInv /\ OwnBots /\ \A d \in Dispatcher : CalmAt(d)

LEMMA CalmInit == Init => CalmInv
BY ClaimInit, DispatcherAssumption DEF Init, CalmInv, CalmAt, OwnBots, OpenSteps, ClaimSteps

\* A step that another takes leaves the claims of e where they are.
LEMMA CalmOther ==
  ASSUME NEW e \in Dispatcher, CalmAt(e),
         pc'[e] = pc[e], cur'[e] = cur[e], eligible'[e] = eligible[e], laneCard'[e] = laneCard[e],
         eligible[e] \subseteq Card, pc[e] \in OpenSteps \cup ClaimSteps => cur[e] \in Card,
         \A c \in Card : /\ LoginOf[e] \in assignees'[c] => LoginOf[e] \in assignees[c]
                         /\ lock[HostOf[e]][c] # "free" => lock'[HostOf[e]][c] # "free"
  PROVE  CalmAt(e)'
BY DEF CalmAt, Releasing

\* A dispatcher's step leaves the claims of the others where they are.
LEMMA CalmOthers ==
  ASSUME Apart, CalmInv, NEW d \in Dispatcher, NEW c, NEW v,
         lock' = lock \/ SetLock(HostOf[d], c, v),
         \A b \in Card : \A l \in Login \ {LoginOf[d]} : l \in assignees'[b] => l \in assignees[b],
         \A e \in Dispatcher \ {d} :
           pc'[e] = pc[e] /\ cur'[e] = cur[e] /\ eligible'[e] = eligible[e] /\ laneCard'[e] = laneCard[e]
  PROVE  \A e \in Dispatcher \ {d} : CalmAt(e)'
<1> SUFFICES ASSUME NEW e \in Dispatcher \ {d} PROVE CalmAt(e)'
  OBVIOUS
<1>1. TypeOK /\ HasCard /\ CalmAt(e) /\ OwnHost
  BY DEF CalmInv, ClaimInv, HostInv, LaneInv, TInv, Apart
<1>2. LoginOf[e] \in Login \ {LoginOf[d]}
  BY DispatcherAssumption DEF Apart
<1>3. \A b \in Card : lock'[HostOf[e]][b] = lock[HostOf[e]][b]
  BY <1>1, OwnLocks
<1>4. eligible[e] \subseteq Card /\ (pc[e] \in OpenSteps \cup ClaimSteps => cur[e] \in Card)
  BY <1>1 DEF TypeOK, HasCard, OpenSteps, ClaimSteps
<1> QED BY <1>1, <1>2, <1>3, <1>4, CalmOther

\* Only identities of dispatchers come on.
LEMMA BotsOnly ==
  ASSUME OwnBots, \A b \in Card : \A l \in assignees'[b] :
           l \in assignees[b] \/ \E d \in Dispatcher : l = LoginOf[d]
  PROVE  OwnBots'
BY DEF OwnBots

\* What a step of d leaves: its own claims in place, and the others' alone.
OwnBusiness(d) ==
  /\ CalmAt(d)'
  /\ assignees' \in [Card -> SUBSET Login]
  /\ \A b \in Card : \A l \in Login \ {LoginOf[d]} : l \in assignees'[b] => l \in assignees[b]
  /\ \E c, v : lock' = lock \/ SetLock(HostOf[d], c, v)
  /\ \A e \in Dispatcher \ {d} : /\ pc'[e] = pc[e] /\ cur'[e] = cur[e]
                                 /\ eligible'[e] = eligible[e] /\ laneCard'[e] = laneCard[e]

LEMMA CalmStepDispatcher ==
  ASSUME Apart, Calm, CalmInv, ClaimInv', NEW d \in Dispatcher, DispatcherStep(d)
  PROVE  CalmInv'
<1> USE DispatcherAssumption DEF Goto, board, workers, locals
<1>0. /\ TypeOK /\ HasCard /\ CalmAt(d) /\ OwnBots /\ HostOf[d] \in Host
      /\ "crash" \notin Env /\ "gh-failure" \notin Env
  BY DEF CalmInv, ClaimInv, HostInv, LaneInv, TInv, Calm
<1>a. SUFFICES OwnBusiness(d)
  <2>1. \A e \in Dispatcher \ {d} : CalmAt(e)'
    BY <1>a, CalmOthers DEF OwnBusiness
  <2>2. OwnBots'
    BY <1>0, <1>a, BotsOnly DEF OwnBusiness
  <2> QED BY <1>a, <2>1, <2>2 DEF CalmInv, OwnBusiness
<1>1. CASE Tick(d)
  <2>1. UNCHANGED <<lock, assignees>>
    BY <1>1 DEF Tick
  <2>2. CalmAt(d)'
    BY <1>0, <1>1, <2>1 DEF Tick, CalmAt, Releasing, OpenSteps, ClaimSteps, TypeOK
  <2>3. \A e \in Dispatcher \ {d} : /\ pc'[e] = pc[e] /\ cur'[e] = cur[e]
                                    /\ eligible'[e] = eligible[e] /\ laneCard'[e] = laneCard[e]
    BY <1>0, <1>1 DEF Tick, TypeOK
  <2> QED BY <1>0, <2>1, <2>2, <2>3 DEF TypeOK, OwnBusiness
<1>2. CASE ReapDone(d)
  <2>1. UNCHANGED <<lock, assignees>>
    BY <1>2 DEF ReapDone
  <2>2. CalmAt(d)'
    BY <1>0, <1>2, <2>1 DEF ReapDone, CalmAt, Releasing, OpenSteps, ClaimSteps, TypeOK
  <2>3. \A e \in Dispatcher \ {d} : /\ pc'[e] = pc[e] /\ cur'[e] = cur[e]
                                    /\ eligible'[e] = eligible[e] /\ laneCard'[e] = laneCard[e]
    BY <1>0, <1>2 DEF ReapDone, TypeOK
  <2> QED BY <1>0, <2>1, <2>2, <2>3 DEF TypeOK, OwnBusiness
<1>3. CASE SweepDone(d)
  <2>1. UNCHANGED <<lock, assignees>>
    BY <1>3 DEF SweepDone
  <2>2. CalmAt(d)'
    BY <1>0, <1>3, <2>1 DEF SweepDone, CalmAt, Releasing, OpenSteps, ClaimSteps, TypeOK
  <2>3. \A e \in Dispatcher \ {d} : /\ pc'[e] = pc[e] /\ cur'[e] = cur[e]
                                    /\ eligible'[e] = eligible[e] /\ laneCard'[e] = laneCard[e]
    BY <1>0, <1>3 DEF SweepDone, TypeOK
  <2> QED BY <1>0, <2>1, <2>2, <2>3 DEF TypeOK, OwnBusiness
<1>4. CASE Fetch(d)
  <2>1. UNCHANGED <<lock, assignees>>
    BY <1>4 DEF Fetch
  <2>2. CalmAt(d)'
    BY <1>0, <1>4, <2>1 DEF Fetch, CalmAt, Releasing, OpenSteps, ClaimSteps, TypeOK
  <2>3. \A e \in Dispatcher \ {d} : /\ pc'[e] = pc[e] /\ cur'[e] = cur[e]
                                    /\ eligible'[e] = eligible[e] /\ laneCard'[e] = laneCard[e]
    BY <1>0, <1>4 DEF Fetch, TypeOK
  <2> QED BY <1>0, <2>1, <2>2, <2>3 DEF TypeOK, OwnBusiness
<1>5. CASE NothingToDispatch(d)
  <2>1. UNCHANGED <<lock, assignees>>
    BY <1>5 DEF NothingToDispatch
  <2>2. CalmAt(d)'
    BY <1>0, <1>5, <2>1 DEF NothingToDispatch, EndTick, ForgetTick, CalmAt, Releasing, OpenSteps, ClaimSteps, TypeOK
  <2>3. \A e \in Dispatcher \ {d} : /\ pc'[e] = pc[e] /\ cur'[e] = cur[e]
                                    /\ eligible'[e] = eligible[e] /\ laneCard'[e] = laneCard[e]
    BY <1>0, <1>5 DEF NothingToDispatch, EndTick, ForgetTick, TypeOK
  <2> QED BY <1>0, <2>1, <2>2, <2>3 DEF TypeOK, OwnBusiness
<1>6. CASE LockTaken(d)
  <2>1. UNCHANGED <<lock, assignees>>
    BY <1>6 DEF LockTaken
  <2>2. CalmAt(d)'
    BY <1>0, <1>6, <2>1 DEF LockTaken, EndTick, ForgetTick, CalmAt, Releasing, OpenSteps, ClaimSteps, TypeOK
  <2>3. \A e \in Dispatcher \ {d} : /\ pc'[e] = pc[e] /\ cur'[e] = cur[e]
                                    /\ eligible'[e] = eligible[e] /\ laneCard'[e] = laneCard[e]
    BY <1>0, <1>6 DEF LockTaken, EndTick, ForgetTick, TypeOK
  <2> QED BY <1>0, <2>1, <2>2, <2>3 DEF TypeOK, OwnBusiness
<1>7. CASE PermitClaim(d)
  <2>1. UNCHANGED <<lock, assignees>>
    BY <1>7 DEF PermitClaim
  <2>2. CalmAt(d)'
    BY <1>0, <1>7, <2>1 DEF PermitClaim, CalmAt, Releasing, OpenSteps, ClaimSteps, TypeOK
  <2>3. \A e \in Dispatcher \ {d} : /\ pc'[e] = pc[e] /\ cur'[e] = cur[e]
                                    /\ eligible'[e] = eligible[e] /\ laneCard'[e] = laneCard[e]
    BY <1>0, <1>7 DEF PermitClaim, TypeOK
  <2> QED BY <1>0, <2>1, <2>2, <2>3 DEF TypeOK, OwnBusiness
<1>8. CASE VerifyClaim(d)
  <2>1. UNCHANGED <<lock, assignees>>
    BY <1>8 DEF VerifyClaim
  <2>2. CalmAt(d)'
    BY <1>0, <1>8, <2>1 DEF VerifyClaim, CalmAt, Releasing, OpenSteps, ClaimSteps, TypeOK
  <2>3. \A e \in Dispatcher \ {d} : /\ pc'[e] = pc[e] /\ cur'[e] = cur[e]
                                    /\ eligible'[e] = eligible[e] /\ laneCard'[e] = laneCard[e]
    BY <1>0, <1>8 DEF VerifyClaim, TypeOK
  <2> QED BY <1>0, <2>1, <2>2, <2>3 DEF TypeOK, OwnBusiness
<1>9. CASE PermitLaunch(d)
  <2>1. UNCHANGED <<lock, assignees>>
    BY <1>9 DEF PermitLaunch
  <2>2. CalmAt(d)'
    BY <1>0, <1>9, <2>1 DEF PermitLaunch, CalmAt, Releasing, OpenSteps, ClaimSteps, TypeOK
  <2>3. \A e \in Dispatcher \ {d} : /\ pc'[e] = pc[e] /\ cur'[e] = cur[e]
                                    /\ eligible'[e] = eligible[e] /\ laneCard'[e] = laneCard[e]
    BY <1>0, <1>9 DEF PermitLaunch, TypeOK
  <2> QED BY <1>0, <2>1, <2>2, <2>3 DEF TypeOK, OwnBusiness
<1>10. CASE Spawn(d)
  <2>1. UNCHANGED <<lock, assignees>>
    BY <1>10 DEF Spawn
  <2>2. CalmAt(d)'
    BY <1>0, <1>10, <2>1 DEF Spawn, CalmAt, Releasing, OpenSteps, ClaimSteps, TypeOK
  <2>3. \A e \in Dispatcher \ {d} : /\ pc'[e] = pc[e] /\ cur'[e] = cur[e]
                                    /\ eligible'[e] = eligible[e] /\ laneCard'[e] = laneCard[e]
    BY <1>0, <1>10 DEF Spawn, TypeOK
  <2> QED BY <1>0, <2>1, <2>2, <2>3 DEF TypeOK, OwnBusiness
<1>11. CASE SpawnBound(d)
  <2>1. UNCHANGED <<lock, assignees>>
    BY <1>11 DEF SpawnBound
  <2>2. CalmAt(d)'
    BY <1>0, <1>11, <2>1 DEF SpawnBound, CalmAt, Releasing, OpenSteps, ClaimSteps, TypeOK
  <2>3. \A e \in Dispatcher \ {d} : /\ pc'[e] = pc[e] /\ cur'[e] = cur[e]
                                    /\ eligible'[e] = eligible[e] /\ laneCard'[e] = laneCard[e]
    BY <1>0, <1>11 DEF SpawnBound, TypeOK
  <2> QED BY <1>0, <2>1, <2>2, <2>3 DEF TypeOK, OwnBusiness
<1>12. CASE SpawnFailed(d)
  <2>1. UNCHANGED <<lock, assignees>>
    BY <1>12 DEF SpawnFailed
  <2>2. CalmAt(d)'
    BY <1>0, <1>12, <2>1 DEF SpawnFailed, CalmAt, Releasing, OpenSteps, ClaimSteps, TypeOK
  <2>3. \A e \in Dispatcher \ {d} : /\ pc'[e] = pc[e] /\ cur'[e] = cur[e]
                                    /\ eligible'[e] = eligible[e] /\ laneCard'[e] = laneCard[e]
    BY <1>0, <1>12 DEF SpawnFailed, TypeOK
  <2> QED BY <1>0, <2>1, <2>2, <2>3 DEF TypeOK, OwnBusiness
<1>13. CASE ReapUnlink(d)
  <2>1. SetLock(HostOf[d], cur[d], "free") /\ UNCHANGED assignees
    BY <1>13 DEF ReapUnlink
  <2>2. CalmAt(d)'
    BY <1>0, <1>13, <2>1 DEF ReapUnlink, SetLock, HasCard, PidlessLocks, Alive, CalmAt, Releasing, OpenSteps, ClaimSteps, TypeOK
  <2>3. \A e \in Dispatcher \ {d} : /\ pc'[e] = pc[e] /\ cur'[e] = cur[e]
                                    /\ eligible'[e] = eligible[e] /\ laneCard'[e] = laneCard[e]
    BY <1>0, <1>13 DEF ReapUnlink, TypeOK
  <2> QED BY <1>0, <2>1, <2>2, <2>3 DEF TypeOK, OwnBusiness
<1>14. CASE ZombieUnlink(d)
  <2>1. SetLock(HostOf[d], laneCard[d], "free") /\ UNCHANGED assignees
    BY <1>14 DEF ZombieUnlink
  <2>2. CalmAt(d)'
    BY <1>0, <1>14, <2>1 DEF ZombieUnlink, SetLock, HasCard, PidlessLocks, Alive, CalmAt, Releasing, OpenSteps, ClaimSteps, TypeOK
  <2>3. \A e \in Dispatcher \ {d} : /\ pc'[e] = pc[e] /\ cur'[e] = cur[e]
                                    /\ eligible'[e] = eligible[e] /\ laneCard'[e] = laneCard[e]
    BY <1>0, <1>14 DEF ZombieUnlink, TypeOK
  <2> QED BY <1>0, <2>1, <2>2, <2>3 DEF TypeOK, OwnBusiness
<1>15. CASE ChosenUnlink(d)
  <2>1. SetLock(HostOf[d], cur[d], "free") /\ UNCHANGED assignees
    BY <1>15 DEF ChosenUnlink
  <2>2. CalmAt(d)'
    BY <1>0, <1>15, <2>1 DEF ChosenUnlink, SetLock, HasCard, PidlessLocks, Alive, CalmAt, Releasing, OpenSteps, ClaimSteps, TypeOK
  <2>3. \A e \in Dispatcher \ {d} : /\ pc'[e] = pc[e] /\ cur'[e] = cur[e]
                                    /\ eligible'[e] = eligible[e] /\ laneCard'[e] = laneCard[e]
    BY <1>0, <1>15 DEF ChosenUnlink, TypeOK
  <2> QED BY <1>0, <2>1, <2>2, <2>3 DEF TypeOK, OwnBusiness
<1>16. CASE TakeLock(d)
  <2>1. SetLock(HostOf[d], cur[d], "claiming") /\ UNCHANGED assignees
    BY <1>16 DEF TakeLock
  <2>2. CalmAt(d)'
    BY <1>0, <1>16, <2>1 DEF TakeLock, SetLock, HasCard, PidlessLocks, Alive, CalmAt, Releasing, OpenSteps, ClaimSteps, TypeOK
  <2>3. \A e \in Dispatcher \ {d} : /\ pc'[e] = pc[e] /\ cur'[e] = cur[e]
                                    /\ eligible'[e] = eligible[e] /\ laneCard'[e] = laneCard[e]
    BY <1>0, <1>16 DEF TakeLock, TypeOK
  <2> QED BY <1>0, <2>1, <2>2, <2>3 DEF TypeOK, OwnBusiness
<1>17. CASE RecordPid(d)
  <2>1. SetLock(HostOf[d], cur[d], child[d]) /\ UNCHANGED assignees
    BY <1>17 DEF RecordPid
  <2>2. CalmAt(d)'
    BY <1>0, <1>17, <2>1 DEF RecordPid, EndTick, ForgetTick, SetLock, HasCard, PidlessLocks, Alive, CalmAt, Releasing, OpenSteps, ClaimSteps, TypeOK
  <2>3. \A e \in Dispatcher \ {d} : /\ pc'[e] = pc[e] /\ cur'[e] = cur[e]
                                    /\ eligible'[e] = eligible[e] /\ laneCard'[e] = laneCard[e]
    BY <1>0, <1>17 DEF RecordPid, EndTick, ForgetTick, TypeOK
  <2> QED BY <1>0, <2>1, <2>2, <2>3 DEF TypeOK, OwnBusiness
<1>18. CASE DropLock(d)
  <2>1. SetLock(HostOf[d], cur[d], "free") /\ UNCHANGED assignees
    BY <1>18 DEF DropLock
  <2>2. CalmAt(d)'
    BY <1>0, <1>18, <2>1 DEF DropLock, EndTick, ForgetTick, SetLock, HasCard, PidlessLocks, Alive, CalmAt, Releasing, OpenSteps, ClaimSteps, TypeOK
  <2>3. \A e \in Dispatcher \ {d} : /\ pc'[e] = pc[e] /\ cur'[e] = cur[e]
                                    /\ eligible'[e] = eligible[e] /\ laneCard'[e] = laneCard[e]
    BY <1>0, <1>18 DEF DropLock, EndTick, ForgetTick, TypeOK
  <2> QED BY <1>0, <2>1, <2>2, <2>3 DEF TypeOK, OwnBusiness
<1>19. CASE ReapRelease(d)
  <2>1. assignees' = [assignees EXCEPT ![cur[d]] = @ \ {LoginOf[d]}] /\ UNCHANGED lock
    BY <1>0, <1>19 DEF ReapRelease, ReleaseClaim
  <2>2. \A c \in Card : /\ assignees'[c] \subseteq assignees[c]
                        /\ c = cur[d] => LoginOf[d] \notin assignees'[c]
    BY <1>0, <2>1 DEF TypeOK
  <2>3. CalmAt(d)'
    BY <1>0, <1>19, <2>1, <2>2 DEF ReapRelease, HasCard, CalmAt, Releasing, OpenSteps, ClaimSteps, TypeOK
  <2>4. \A e \in Dispatcher \ {d} : /\ pc'[e] = pc[e] /\ cur'[e] = cur[e]
                                    /\ eligible'[e] = eligible[e] /\ laneCard'[e] = laneCard[e]
    BY <1>0, <1>19 DEF ReapRelease, TypeOK
  <2>5. assignees' \in [Card -> SUBSET Login]
    BY <1>0, <2>1 DEF TypeOK
  <2> QED BY <2>1, <2>2, <2>3, <2>4, <2>5 DEF OwnBusiness
<1>20. CASE ZombieRelease(d)
  <2>1. assignees' = [assignees EXCEPT ![laneCard[d]] = @ \ {LoginOf[d]}] /\ UNCHANGED lock
    BY <1>0, <1>20 DEF ZombieRelease, ReleaseClaim
  <2>2. \A c \in Card : /\ assignees'[c] \subseteq assignees[c]
                        /\ c = laneCard[d] => LoginOf[d] \notin assignees'[c]
    BY <1>0, <2>1 DEF TypeOK
  <2>3. CalmAt(d)'
    BY <1>0, <1>20, <2>1, <2>2 DEF ZombieRelease, HasCard, CalmAt, Releasing, OpenSteps, ClaimSteps, TypeOK
  <2>4. \A e \in Dispatcher \ {d} : /\ pc'[e] = pc[e] /\ cur'[e] = cur[e]
                                    /\ eligible'[e] = eligible[e] /\ laneCard'[e] = laneCard[e]
    BY <1>0, <1>20 DEF ZombieRelease, TypeOK
  <2>5. assignees' \in [Card -> SUBSET Login]
    BY <1>0, <2>1 DEF TypeOK
  <2> QED BY <2>1, <2>2, <2>3, <2>4, <2>5 DEF OwnBusiness
<1>21. CASE Unclaim(d)
  <2>1. assignees' = [assignees EXCEPT ![cur[d]] = @ \ {LoginOf[d]}] /\ UNCHANGED lock
    BY <1>0, <1>21 DEF Unclaim, ReleaseClaim
  <2>2. \A c \in Card : /\ assignees'[c] \subseteq assignees[c]
                        /\ c = cur[d] => LoginOf[d] \notin assignees'[c]
    BY <1>0, <2>1 DEF TypeOK
  <2>3. CalmAt(d)'
    BY <1>0, <1>21, <2>1, <2>2 DEF Unclaim, HasCard, CalmAt, Releasing, OpenSteps, ClaimSteps, TypeOK
  <2>4. \A e \in Dispatcher \ {d} : /\ pc'[e] = pc[e] /\ cur'[e] = cur[e]
                                    /\ eligible'[e] = eligible[e] /\ laneCard'[e] = laneCard[e]
    BY <1>0, <1>21 DEF Unclaim, TypeOK
  <2>5. assignees' \in [Card -> SUBSET Login]
    BY <1>0, <2>1 DEF TypeOK
  <2> QED BY <2>1, <2>2, <2>3, <2>4, <2>5 DEF OwnBusiness
<1>22. CASE AddAssignee(d)
  <2>1. /\ assignees' = [assignees EXCEPT ![cur[d]] = @ \cup {LoginOf[d]}] /\ UNCHANGED <<lock, locals>>
        /\ pc[d] = "claim" /\ pc' = [pc EXCEPT ![d] = "verify"] /\ cur[d] \in Card
    BY <1>0, <1>22 DEF AddAssignee, HasCard, ClaimSteps
  <2>2. /\ assignees' \in [Card -> SUBSET Login]
        /\ \A c \in Card : c # cur[d] => assignees'[c] = assignees[c]
        /\ \A l \in Login \ {LoginOf[d]} : l \in assignees'[cur[d]] => l \in assignees[cur[d]]
    BY <1>0, <2>1 DEF TypeOK
  <2>3. CalmAt(d)'
    BY <1>0, <2>1, <2>2 DEF CalmAt, Releasing, OpenSteps, ClaimSteps, TypeOK
  <2> QED BY <1>0, <2>1, <2>2, <2>3 DEF TypeOK, OwnBusiness
<1>23. CASE SweepKill(d)
  <2>1. /\ UNCHANGED <<assignees, locals>> /\ pc[d] = "sweep"
        /\ \/ lock' = lock /\ pc' = [pc EXCEPT ![d] = "zombie-unlink"]
           \/ SetLock(HostOf[d], laneCard[d], "free") /\ pc' = [pc EXCEPT ![d] = "zombie-release"]
    BY <1>23 DEF SweepKill, Unlink
  <2>2. CalmAt(d)'
    BY <1>0, <2>1 DEF SetLock, CalmAt, Releasing, OpenSteps, ClaimSteps, TypeOK
  <2> QED BY <1>0, <2>1, <2>2 DEF TypeOK, OwnBusiness
<1>24. ASSUME NEW c \in Card, ReapKeep(d, c) \/ ReapJudge(d, c) \/ SkipLocked(d, c)
                          \/ Choose(d, c) \/ Misread(d, c)
      PROVE  OwnBusiness(d)
  <2>1. UNCHANGED <<assignees, laneCard>>
    BY <1>24 DEF ReapKeep, ReapJudge, SkipLocked, Choose, Misread
  <2>2. CASE ReapKeep(d, c) \/ SkipLocked(d, c)
    <3>1. /\ UNCHANGED <<lock, pc, cur>> /\ pc[d] \in {"reap", "select"}
          /\ eligible' = eligible \/ eligible' = [eligible EXCEPT ![d] = @ \ {c}]
      BY <2>2 DEF ReapKeep, SkipLocked
    <3>2. CalmAt(d)'
      BY <1>0, <2>1, <3>1 DEF CalmAt, Releasing, OpenSteps, ClaimSteps, TypeOK
    <3> QED BY <1>0, <2>1, <3>1, <3>2 DEF TypeOK, OwnBusiness
  <2>3. CASE ReapJudge(d, c)
    <3>1. /\ UNCHANGED eligible /\ pc[d] = "reap" /\ cur' = [cur EXCEPT ![d] = c]
          /\ \/ lock' = lock /\ pc' = [pc EXCEPT ![d] = "reap-unlink"]
             \/ SetLock(HostOf[d], c, "free") /\ pc' = [pc EXCEPT ![d] = "reap-release"]
      BY <2>3 DEF ReapJudge, Unlink
    <3>2. CalmAt(d)'
      BY <1>0, <2>1, <3>1 DEF SetLock, CalmAt, Releasing, OpenSteps, ClaimSteps, TypeOK
    <3> QED BY <1>0, <2>1, <3>1, <3>2 DEF TypeOK, OwnBusiness
  <2>4. CASE Choose(d, c) \/ Misread(d, c)
    <3>1. /\ pc[d] = "select" /\ c \in eligible[d] /\ cur' = [cur EXCEPT ![d] = c]
          /\ lock' = lock \/ SetLock(HostOf[d], c, "free")
          /\ eligible' = eligible \/ eligible' = [eligible EXCEPT ![d] = {}]
          /\ \E s \in {"unlink", "lock", "misread", "select"} : pc' = [pc EXCEPT ![d] = s]
      BY <2>4 DEF Choose, Misread, Unlink
    <3>2. LoginOf[d] \notin assignees[c]
      BY <1>0, <3>1 DEF CalmAt, ClaimSteps
    <3>3. CalmAt(d)'
      BY <1>0, <2>1, <3>1, <3>2 DEF SetLock, CalmAt, Releasing, OpenSteps, ClaimSteps, TypeOK
    <3> QED BY <1>0, <2>1, <3>1, <3>3 DEF TypeOK, OwnBusiness
  <2> QED BY <1>24, <2>2, <2>3, <2>4
<1> QED BY <1>1, <1>2, <1>3, <1>4, <1>5, <1>6, <1>7, <1>8, <1>9, <1>10, <1>11, <1>12, <1>13, <1>14, <1>15, <1>16, <1>17, <1>18, <1>19, <1>20, <1>21, <1>22, <1>23, <1>24 DEF DispatcherStep

\* Every step keeps the claims in place, when the dispatchers are apart and calm.
LEMMA CalmStep == Apart /\ Calm /\ CalmInv /\ [Next]_vars => CalmInv'
<1> SUFFICES ASSUME Apart, Calm, CalmInv, [Next]_vars PROVE CalmInv'
  OBVIOUS
<1> USE DispatcherAssumption DEF Goto, board, workers, locals
<1>0. /\ TypeOK /\ TInv /\ HasCard /\ ClaimInv /\ ClaimInv' /\ OwnBots
      /\ \A e \in Dispatcher : CalmAt(e)
      /\ "crash" \notin Env
  BY ClaimStep DEF CalmInv, ClaimInv, HostInv, LaneInv, TInv, Calm
<1>b. ASSUME NEW e \in Dispatcher
      PROVE  eligible[e] \subseteq Card /\ (pc[e] \in OpenSteps \cup ClaimSteps => cur[e] \in Card)
  BY <1>0 DEF TypeOK, HasCard, OpenSteps, ClaimSteps
<1>1. ASSUME NEW d \in Dispatcher, DispatcherStep(d) PROVE CalmInv'
  BY <1>0, <1>1, CalmStepDispatcher
<1>2. ASSUME NEW d \in Dispatcher, Start(d) \/ Halt(d) PROVE CalmInv'
  <2>1. /\ UNCHANGED <<lock, assignees>>
        /\ pc[d] \in {"off", "sleep", "fetch", "select"}
        /\ pc'[d] \in {"off", "reap"} /\ eligible'[d] \subseteq eligible[d]
        /\ \A e \in Dispatcher \ {d} : /\ pc'[e] = pc[e] /\ cur'[e] = cur[e]
                                       /\ eligible'[e] = eligible[e] /\ laneCard'[e] = laneCard[e]
    BY <1>0, <1>2 DEF Start, Halt, ForgetAll, ForgetTick, TypeOK
  <2>2. CalmAt(d)'
    BY <1>0, <2>1 DEF CalmAt, Releasing, OpenSteps, ClaimSteps
  <2>3. \A e \in Dispatcher \ {d} : CalmAt(e)'
    BY <1>0, <1>b, <2>1, CalmOther
  <2> QED BY <1>0, <2>1, <2>2, <2>3 DEF CalmInv, OwnBots
<1>3. ASSUME NEW d \in Dispatcher, Crash(d) PROVE CalmInv'
  BY <1>0, <1>3 DEF Crash
<1>4. ASSUME NEW h \in Host, NEW c \in Card, GraceExpires(h, c) PROVE CalmInv'
  <2>1. /\ SetLock(h, c, "expired") /\ UNCHANGED <<assignees, pc, cur, eligible, laneCard>>
    BY <1>4 DEF GraceExpires
  <2>2. \A g \in Host, b \in Card : lock[g][b] # "free" => lock'[g][b] # "free"
    BY <1>0, <2>1 DEF SetLock, TypeOK
  <2>3. \A e \in Dispatcher : CalmAt(e)'
    BY <1>0, <1>b, <2>1, <2>2, CalmOther
  <2> QED BY <1>0, <2>1, <2>3 DEF CalmInv, OwnBots
<1>5. ASSUME NEW p \in Pid, WorkerClaims(p) \/ WorkerReleases(p) \/ WorkerExits(p) PROVE CalmInv'
  <2>1. /\ UNCHANGED <<lock, pc, cur, eligible, laneCard>>
        /\ wcard[p] \in Card /\ wby[p] \in Dispatcher
    BY <1>0, <1>5 DEF WorkerClaims, WorkerReleases, WorkerExits, TInv, Born, Alive
  <2>2. \A c \in Card : assignees'[c] \subseteq assignees[c]
    <3>1. CASE WorkerClaims(p)
      <4>1. LoginOf[wby[p]] \in assignees[wcard[p]]
        BY <1>0, <2>1, <3>1 DEF WorkerClaims, ClaimInv, HoldClaimed, Holds, Engaged
      <4>2. \/ assignees' = [assignees EXCEPT ![wcard[p]] = {LoginOf[wby[p]]}]
            \/ assignees' = [assignees EXCEPT ![wcard[p]] = @ \ {LoginOf[wby[p]]}]
        BY <3>1 DEF WorkerClaims
      <4> QED BY <1>0, <2>1, <4>1, <4>2 DEF TypeOK
    <3>2. CASE WorkerReleases(p)
      BY <1>0, <3>2 DEF WorkerReleases, TypeOK
    <3>3. CASE WorkerExits(p)
      BY <3>3 DEF WorkerExits
    <3> QED BY <1>5, <3>1, <3>2, <3>3
  <2>3. \A e \in Dispatcher : CalmAt(e)'
    BY <1>0, <1>b, <2>1, <2>2, CalmOther
  <2> QED BY <1>0, <2>2, <2>3 DEF CalmInv, OwnBots
<1>6. CASE UNCHANGED vars \/ \E c \in Card, s \in Status : CardMoves(c, s)
  <2>1. UNCHANGED <<lock, assignees, pc, cur, eligible, laneCard>>
    BY <1>6 DEF vars, CardMoves
  <2> QED BY <1>0, <2>1 DEF CalmInv, CalmAt, Releasing, OwnBots
<1> QED BY <1>1, <1>2, <1>3, <1>4, <1>5, <1>6 DEF Next

\* A claim is never stranded while nobody is killed and GitHub answers: the lock
\* file of the card is there, or the claim is about to be taken off. What a
\* dispatcher plans, chooses or lets go carries no claim of its own, and what it
\* claims, or its worker works on, is locked on its machine.
THEOREM NoClaimIsStranded == Apart /\ Calm => (Spec => []NoStrandedClaim)
<1> SUFFICES ASSUME Apart, Calm PROVE Spec => []NoStrandedClaim
  OBVIOUS
<1>1. CalmInv => NoStrandedClaim
  <2> SUFFICES ASSUME CalmInv, NEW c \in Card, NEW l \in assignees[c]
               PROVE  \E d \in Dispatcher :
                        LoginOf[d] = l /\ (lock[HostOf[d]][c] # "free" \/ Releasing(d, c))
    BY DEF NoStrandedClaim
  <2>1. PICK d \in Dispatcher : l = LoginOf[d]
    BY DEF CalmInv, OwnBots
  <2> QED BY <2>1 DEF CalmInv, CalmAt
<1>2. CalmInv /\ [Next]_vars => CalmInv'
  BY CalmStep
<1> QED BY <1>1, <1>2, CalmInit, PTL DEF Spec

-----------------------------------------------------------------------------
(* Stopping: the trap of the dispatchers and the stop script. *)

\* What a dispatcher's step may do to the lock files and to the workers.
LEMMA StepShape ==
  ASSUME TInv, NEW d \in Dispatcher, DispatcherStep(d)
  PROVE  /\ pc[d] # "off"
         /\ \E c, v : lock' = lock \/ SetLock(HostOf[d], c, v)
         /\ \A p \in Pid : wstate[p] # "unborn" =>
              wstate'[p] # "unborn" /\ wby'[p] = wby[p] /\ (Alive(p)' => Alive(p))
         /\ \A p \in Pid : Alive(p)' => Alive(p) \/ wby'[p] = d
<1> USE DEF board, workers, locals, Alive
<1>0. TypeOK
  BY DEF TInv
<1>1. pc[d] # "off"
  BY DEF DispatcherStep, Tick, ReapUnlink, ReapRelease, ReapDone, SweepKill, ZombieUnlink,
         ZombieRelease, SweepDone, Fetch, ChosenUnlink, NothingToDispatch, TakeLock, LockTaken,
         PermitClaim, AddAssignee, VerifyClaim, PermitLaunch, Spawn, SpawnBound, SpawnFailed,
         RecordPid, Unclaim, DropLock, ReapKeep, ReapJudge, SkipLocked, Choose, Misread
<1>2. \E c, v : lock' = lock \/ SetLock(HostOf[d], c, v)
  BY DEF DispatcherStep, Tick, ReapUnlink, ReapRelease, ReapDone, SweepKill, ZombieUnlink,
         ZombieRelease, SweepDone, Fetch, ChosenUnlink, NothingToDispatch, TakeLock, LockTaken,
         PermitClaim, AddAssignee, VerifyClaim, PermitLaunch, Spawn, SpawnBound, SpawnFailed,
         RecordPid, Unclaim, DropLock, ReapKeep, ReapJudge, SkipLocked, Choose, Misread, Unlink
<1>3. CASE Spawn(d)
  <2>1. PICK p \in Pid : /\ wstate[p] = "unborn" /\ wstate' = [wstate EXCEPT ![p] = "spawned"]
                         /\ wby' = [wby EXCEPT ![p] = d]
    BY <1>3 DEF Spawn
  <2> QED BY <1>0, <1>1, <1>2, <2>1 DEF TypeOK
<1>4. CASE SweepKill(d)
  <2>1. /\ wstate[lanePid[d]] # "unborn" /\ lanePid[d] \in Pid
        /\ wstate' = [wstate EXCEPT ![lanePid[d]] = "dead"] /\ UNCHANGED wby
    BY <1>4 DEF SweepKill, LaneZombie, LaneIdle
  <2> QED BY <1>0, <1>1, <1>2, <2>1 DEF TypeOK
<1>5. CASE ~Spawn(d) /\ ~SweepKill(d)
  <2>1. UNCHANGED workers
    BY <1>5 DEF DispatcherStep, Tick, ReapUnlink, ReapRelease, ReapDone, ZombieUnlink,
         ZombieRelease, SweepDone, Fetch, ChosenUnlink, NothingToDispatch, TakeLock, LockTaken,
         PermitClaim, AddAssignee, VerifyClaim, PermitLaunch, SpawnBound, SpawnFailed,
         RecordPid, Unclaim, DropLock, ReapKeep, ReapJudge, SkipLocked, Choose, Misread
  <2> QED BY <1>1, <1>2, <2>1
<1> QED BY <1>3, <1>4, <1>5

StopTypes ==
  /\ spc \in {"idle", "find", "wrap", "wrap-kill", "sweep", "dispatchers", "unlink"}
  /\ DOMAIN inv \subseteq Card /\ left \subseteq DOMAIN inv
  /\ \A c \in DOMAIN inv : inv[c] \in Pid \cup PidlessLocks
  /\ scard \in Card \cup {NoCard}
  /\ runs \subseteq Dispatcher /\ orphans \subseteq Pid /\ before \subseteq Pid /\ quiet \in BOOLEAN

\* The workers stop found when it began are of its host. It kills them all before
\* it turns to the dispatchers: whoever its inventory missed is an orphan to it.
Doomed ==
  /\ \A p \in before : wstate[p] # "unborn" /\ HostOf[wby[p]] = StopHost
  /\ spc \in {"wrap", "wrap-kill", "sweep"} => \A p \in before : Alive(p) => p \in orphans
  /\ spc \in {"dispatchers", "unlink"} => \A p \in before : ~Alive(p)

\* Where no dispatcher runs, no worker and no lock file comes up behind stop.
AtRest ==
  /\ quiet => RunningOn(StopHost) = {}
  /\ quiet /\ spc # "idle" => LiveOn(StopHost) \subseteq before /\ LocksOn(StopHost) \subseteq DOMAIN inv
  /\ quiet /\ spc = "unlink" => LocksOn(StopHost) \subseteq left

StopInv == TInv /\ StopTypes /\ Doomed /\ AtRest

\* What any step leaves of the lock files, the workers and the running dispatchers.
Afterwards ==
  /\ TInv'
  /\ \A p \in Pid : wstate[p] # "unborn" =>
       wstate'[p] # "unborn" /\ wby'[p] = wby[p] /\ (Alive(p)' => Alive(p))

\* Nothing comes up on the stopped host.
NothingNew ==
  /\ RunningOn(StopHost)' = {}
  /\ \A p \in Pid : Alive(p)' /\ HostOf[wby'[p]] = StopHost => Alive(p)
  /\ LocksOn(StopHost)' \subseteq LocksOn(StopHost)

\* Killing workers keeps the types and brings nobody up.
LEMMA Kills ==
  ASSUME TInv, NEW P, KillWorkers(P)
  PROVE  /\ wstate' \in [Pid -> {"unborn", "spawned", "working", "lingering", "dead"}]
         /\ \A p \in Pid : (wstate'[p] # "unborn" <=> wstate[p] # "unborn")
                            /\ (Alive(p)' => Alive(p) /\ p \notin P)
BY DEF KillWorkers, TInv, TypeOK, Alive

\* A step that starts nothing: a kill, the trap, or an unlink.
LEMMA StartsNothing ==
  ASSUME TInv, TypeOK', UNCHANGED <<wcard, wby>>,
         \A p \in Pid : (wstate'[p] # "unborn" <=> wstate[p] # "unborn") /\ (Alive(p)' => Alive(p)),
         \A e \in Dispatcher : (pc'[e] = pc[e] /\ cur'[e] = cur[e])
                                 \/ (pc'[e] \in TrapSteps \cup {"off"} /\ pc[e] # "off")
  PROVE  Afterwards /\ RunningOn(StopHost)' \subseteq RunningOn(StopHost)
<1>1. Born'
  BY DEF TInv, Born
<1>2. HasCard'
  BY DEF TInv, HasCard, ClaimSteps, TrapSteps
<1>3. RunningOn(StopHost)' \subseteq RunningOn(StopHost)
  BY DEF RunningOn
<1>4. TInv'
  BY <1>1, <1>2 DEF TInv
<1>5. \A p \in Pid : wstate[p] # "unborn" =>
        wstate'[p] # "unborn" /\ wby'[p] = wby[p] /\ (Alive(p)' => Alive(p))
  OBVIOUS
<1> QED BY <1>3, <1>4, <1>5 DEF Afterwards

\* What goes on beside stop keeps its invariant.
LEMMA Bystander ==
  ASSUME StopInv, StopUntouched, Afterwards,
         RunningOn(StopHost) = {} /\ RunningOn(StopHost)' = {} => NothingNew
  PROVE  StopInv'
<1>1. StopTypes'
  BY DEF StopInv, StopTypes, StopUntouched
<1>2. Doomed'
  <2>1. ASSUME NEW p \in before
        PROVE  wstate'[p] # "unborn" /\ HostOf[wby'[p]] = StopHost /\ (Alive(p)' => Alive(p))
    BY <2>1 DEF StopInv, StopTypes, Doomed, Afterwards
  <2> QED BY <2>1 DEF StopInv, Doomed, StopUntouched
<1>3. AtRest'
  <2>1. CASE ~quiet'
    BY <2>1 DEF AtRest
  <2>2. CASE quiet'
    <3>1. quiet /\ RunningOn(StopHost) = {} /\ RunningOn(StopHost)' = {}
      BY <2>2 DEF StopInv, StopTypes, AtRest, StopUntouched
    <3>2. NothingNew
      BY <3>1
    <3>3. LiveOn(StopHost)' \subseteq LiveOn(StopHost)
      <4>1. ASSUME NEW p \in Pid, Alive(p)', HostOf[wby'[p]] = StopHost
            PROVE  Alive(p) /\ HostOf[wby[p]] = StopHost
        <5>1. Alive(p)
          BY <3>2, <4>1 DEF NothingNew
        <5> QED BY <4>1, <5>1 DEF Afterwards, Alive
      <4> QED BY <4>1 DEF LiveOn
    <3> QED BY <3>1, <3>2, <3>3 DEF StopInv, AtRest, NothingNew, StopUntouched
  <2> QED BY <2>1, <2>2
<1> QED BY <1>1, <1>2, <1>3 DEF StopInv, Afterwards

\* A step of the dispatchers, of their workers or of the board leaves born
\* workers as they are, or ends them.
LEMMA NextAfterwards ==
  ASSUME TInv, Next
  PROVE  Afterwards
<1>1. TInv'
  BY TypeStep
<1>2. ASSUME NEW d \in Dispatcher, DispatcherStep(d)
      PROVE  \A p \in Pid : wstate[p] # "unborn" =>
               wstate'[p] # "unborn" /\ wby'[p] = wby[p] /\ (Alive(p)' => Alive(p))
  BY <1>2, StepShape
<1>3. ASSUME NEW d \in Dispatcher, Start(d) \/ Halt(d) \/ Crash(d)
      PROVE  UNCHANGED workers
  BY <1>3 DEF Start, Halt, Crash, Killed
<1>4. ASSUME NEW h \in Host, NEW c \in Card, GraceExpires(h, c)
      PROVE  UNCHANGED workers
  BY <1>4 DEF GraceExpires
<1>5. ASSUME NEW p \in Pid, WorkerClaims(p) \/ WorkerReleases(p) \/ WorkerExits(p)
      PROVE  UNCHANGED <<wcard, wby>> /\ \A q \in Pid : wstate[q] # "unborn" =>
               wstate'[q] # "unborn" /\ (Alive(q)' => Alive(q))
  BY <1>5 DEF WorkerClaims, WorkerReleases, WorkerExits, TInv, TypeOK, Alive
<1>6. ASSUME NEW c \in Card, NEW s \in Status, CardMoves(c, s)
      PROVE  UNCHANGED workers
  BY <1>6 DEF CardMoves
<1>7. \A p \in Pid : wstate[p] # "unborn" =>
        wstate'[p] # "unborn" /\ wby'[p] = wby[p] /\ (Alive(p)' => Alive(p))
  BY <1>2, <1>3, <1>4, <1>5, <1>6 DEF Next, workers, Alive
<1> QED BY <1>1, <1>7 DEF Afterwards

\* With no dispatcher running on the host before or after it, such a step brings
\* up neither a worker nor a lock file there: all of them come from dispatch_lane.
LEMMA NextBringsNothing ==
  ASSUME TInv, Next, RunningOn(StopHost) = {}, RunningOn(StopHost)' = {}
  PROVE  NothingNew
<1> USE DispatcherAssumption
<1>1. ASSUME NEW d \in Dispatcher, DispatcherStep(d)
      PROVE  NothingNew
  <2>1. HostOf[d] # StopHost
    BY <1>1, StepShape DEF RunningOn
  <2>2. LocksOn(StopHost)' = LocksOn(StopHost)
    <3>1. PICK c, v : lock' = lock \/ SetLock(HostOf[d], c, v)
      BY <1>1, StepShape
    <3>2. lock'[StopHost] = lock[StopHost]
      BY <2>1, <3>1, StopAssumption DEF SetLock, TInv, TypeOK
    <3> QED BY <3>2 DEF LocksOn
  <2>3. ASSUME NEW p \in Pid, Alive(p)', HostOf[wby'[p]] = StopHost
        PROVE  Alive(p)
    BY <1>1, <2>1, <2>3, StepShape
  <2> QED BY <2>2, <2>3 DEF NothingNew
<1>2. ASSUME NEW d \in Dispatcher, Start(d) \/ Halt(d) \/ Crash(d)
      PROVE  NothingNew
  BY <1>2 DEF Start, Halt, Crash, Killed, NothingNew, LocksOn, workers, Alive
<1>3. ASSUME NEW h \in Host, NEW c \in Card, GraceExpires(h, c)
      PROVE  NothingNew
  <2>1. LocksOn(StopHost)' \subseteq LocksOn(StopHost)
    BY <1>3 DEF GraceExpires, SetLock, LocksOn, TInv, TypeOK
  <2> QED BY <1>3, <2>1 DEF GraceExpires, NothingNew, workers, Alive
<1>4. ASSUME NEW p \in Pid, WorkerClaims(p) \/ WorkerReleases(p) \/ WorkerExits(p)
      PROVE  NothingNew
  BY <1>4 DEF WorkerClaims, WorkerReleases, WorkerExits, TInv, TypeOK, Alive, NothingNew, LocksOn
<1>5. ASSUME NEW c \in Card, NEW s \in Status, CardMoves(c, s)
      PROVE  NothingNew
  BY <1>5 DEF CardMoves, NothingNew, LocksOn, workers, Alive
<1> QED BY <1>1, <1>2, <1>3, <1>4, <1>5 DEF Next

\* The trap of a dispatcher starts nothing and removes lock files.
LEMMA TrapAfterwards ==
  ASSUME TInv, NEW d \in Dispatcher, TrapStep(d)
  PROVE  /\ StopUntouched /\ Afterwards
         /\ RunningOn(StopHost)' \subseteq RunningOn(StopHost)
         /\ \A p \in Pid : Alive(p)' => Alive(p)
         /\ \A h \in Host : LocksOn(h)' \subseteq LocksOn(h)
<1> USE DispatcherAssumption
<1>1. StopUntouched
  BY DEF TrapStep, Signal, TermRelease, TermUnlink, TermExit, TermGone, TermKill
<1>2. UNCHANGED <<wcard, wby>>
  BY DEF TrapStep, Signal, OnTerminate, TermRelease, TermUnlink, TermExit, TermGone, TermKill, workers
<1>3. \A p \in Pid : (wstate'[p] # "unborn" <=> wstate[p] # "unborn") /\ (Alive(p)' => Alive(p))
  <2>1. ASSUME NEW c \in Card, TermKill(d, c)
        PROVE  \A p \in Pid : (wstate'[p] # "unborn" <=> wstate[p] # "unborn") /\ (Alive(p)' => Alive(p))
    BY <2>1, Kills DEF TermKill
  <2>2. CASE ~\E c \in Card : TermKill(d, c)
    <3>1. UNCHANGED workers
      BY <2>2 DEF TrapStep, Signal, OnTerminate, TermRelease, TermUnlink, TermExit, TermGone
    <3> QED BY <3>1 DEF workers, Alive
  <2> QED BY <2>1, <2>2
<1>4. \A e \in Dispatcher : (pc'[e] = pc[e] /\ cur'[e] = cur[e])
                              \/ (pc'[e] \in TrapSteps \cup {"off"} /\ pc[e] # "off")
  BY DEF TrapStep, Signal, OnTerminate, TermRelease, TermUnlink, TermExit, TermGone, TermKill, Goto,
         ForgetTick, ForgetAll, TrapSteps, TInv, TypeOK, locals
<1>5. \A h \in Host : LocksOn(h)' \subseteq LocksOn(h)
  <2>1. CASE TermUnlink(d)
    BY <2>1 DEF TermUnlink, SetLock, LocksOn, TInv, TypeOK
  <2>2. CASE ~TermUnlink(d)
    <3>1. UNCHANGED lock
      BY <2>2 DEF TrapStep, Signal, OnTerminate, TermRelease, TermExit, TermGone, TermKill
    <3> QED BY <3>1 DEF LocksOn
  <2> QED BY <2>1, <2>2
<1>6. TypeOK'
  <2> USE DEF TInv, TypeOK, Goto, Steps, TrapSteps, board, workers, locals
  <2>1. CASE Signal(d)
    BY <2>1 DEF Signal, OnTerminate, ForgetTick, LocksOn
  <2>2. CASE TermRelease(d)
    BY <2>2, ReleaseTyped DEF TermRelease
  <2>3. CASE TermUnlink(d)
    BY <2>3 DEF TermUnlink, SetLock
  <2>4. CASE TermExit(d)
    BY <2>4 DEF TermExit, ForgetAll, ForgetTick, NoBoard
  <2>5. ASSUME NEW c \in Card, TermGone(d, c)
        PROVE  TypeOK'
    BY <2>5 DEF TermGone
  <2>6. ASSUME NEW c \in Card, TermKill(d, c)
        PROVE  TypeOK'
    BY <2>6, Kills DEF TermKill
  <2> QED BY <2>1, <2>2, <2>3, <2>4, <2>5, <2>6 DEF TrapStep
<1>7. Afterwards /\ RunningOn(StopHost)' \subseteq RunningOn(StopHost)
  BY <1>2, <1>3, <1>4, <1>6, StartsNothing DEF TInv
<1> QED BY <1>1, <1>3, <1>5, <1>7

\* The steps of stop that touch only its own state.
LEMMA StopNotes ==
  ASSUME StopInv,
         StopScan \/ StopFind \/ StopWrapped \/ StopDispatchersGone \/ StopDone
  PROVE  StopInv'
<1> USE StopAssumption, DispatcherAssumption
<1>1. UNCHANGED vars
  BY DEF StopScan, StopFind, StopWrapped, StopDispatchersGone, StopDone
<1>2. TInv' /\ LiveOn(StopHost)' = LiveOn(StopHost) /\ LocksOn(StopHost)' = LocksOn(StopHost)
      /\ RunningOn(StopHost)' = RunningOn(StopHost) /\ (\A p \in Pid : Alive(p)' <=> Alive(p))
  <2>1. TInv'
    BY <1>1, TypeStep DEF StopInv
  <2>2. \A p \in Pid : Alive(p)' <=> Alive(p)
    BY <1>1 DEF vars, workers, Alive
  <2> QED BY <1>1, <2>1, <2>2 DEF vars, workers, LiveOn, LocksOn, RunningOn, Alive
<1>3. CASE StopScan
  <2>1. StopTypes'
    BY <1>2, <1>3 DEF StopScan, StopTypes, StopInv, TInv, TypeOK, LiveOn, LocksOn
  <2>2. Doomed'
    BY <1>1, <1>3 DEF StopScan, Doomed, StopInv, LiveOn, Alive, vars, workers
  <2>3. AtRest'
    BY <1>2, <1>3 DEF StopScan, AtRest
  <2> QED BY <1>2, <2>1, <2>2, <2>3 DEF StopInv
<1>4. CASE StopFind
  <2>1. StopTypes'
    BY <1>4 DEF StopFind, StopTypes, StopInv, LiveOn, RunningOn
  <2>2. Doomed'
    BY <1>1, <1>2, <1>4 DEF StopFind, Doomed, StopInv, StopTypes, LiveOn, vars, workers
  <2>3. AtRest'
    BY <1>2, <1>4 DEF StopFind, AtRest, StopInv
  <2> QED BY <1>2, <2>1, <2>2, <2>3 DEF StopInv
<1>5. CASE StopWrapped
  <2>1. StopTypes' /\ AtRest'
    BY <1>2, <1>5 DEF StopWrapped, StopTypes, AtRest, StopInv
  <2>2. Doomed'
    BY <1>1, <1>2, <1>5 DEF StopWrapped, Doomed, StopInv, StopTypes, vars, workers
  <2> QED BY <1>2, <2>1, <2>2 DEF StopInv
<1>6. CASE StopDispatchersGone
  <2>1. StopTypes' /\ AtRest'
    BY <1>2, <1>6 DEF StopDispatchersGone, StopTypes, AtRest, StopInv
  <2>2. Doomed'
    BY <1>1, <1>2, <1>6 DEF StopDispatchersGone, Doomed, StopInv, StopTypes, vars, workers
  <2> QED BY <1>2, <2>1, <2>2 DEF StopInv
<1>7. CASE StopDone
  <2>1. StopTypes' /\ AtRest'
    BY <1>2, <1>7 DEF StopDone, StopTypes, AtRest, StopInv
  <2>2. Doomed'
    BY <1>1, <1>2, <1>7 DEF StopDone, Doomed, StopInv, StopTypes, vars, workers
  <2> QED BY <1>2, <2>1, <2>2 DEF StopInv
<1> QED BY <1>3, <1>4, <1>5, <1>6, <1>7

\* The steps of stop that act on the host: they start nothing and create no lock
\* file.
LEMMA StopActs ==
  ASSUME TInv, StopTypes,
         \/ StopKillWorker \/ StopSweep
         \/ \E c \in Card : StopRelease(c) \/ StopUnlink(c)
         \/ \E d \in Dispatcher : StopTerm(d) \/ StopKill(d)
  PROVE  /\ Afterwards
         /\ RunningOn(StopHost)' \subseteq RunningOn(StopHost)
         /\ LiveOn(StopHost)' \subseteq LiveOn(StopHost)
         /\ LocksOn(StopHost)' \subseteq LocksOn(StopHost)
<1> USE StopAssumption, DispatcherAssumption
<1>1. UNCHANGED <<wcard, wby>>
      /\ \A p \in Pid : (wstate'[p] # "unborn" <=> wstate[p] # "unborn") /\ (Alive(p)' => Alive(p))
  <2>1. CASE StopKillWorker \/ StopSweep
    BY <2>1, Kills DEF StopKillWorker, StopSweep
  <2>2. CASE \E c \in Card : StopRelease(c) \/ StopUnlink(c)
    BY <2>2 DEF StopRelease, StopUnlink, workers, Alive
  <2>3. CASE \E d \in Dispatcher : StopTerm(d) \/ StopKill(d)
    BY <2>3 DEF StopTerm, StopKill, OnTerminate, Killed, vars, workers, Alive
  <2> QED BY <2>1, <2>2, <2>3
<1>2. TypeOK'
  <2> USE DEF TInv, TypeOK, Goto, Steps, TrapSteps, board, workers, locals
  <2>1. CASE StopKillWorker
    BY <2>1, Kills DEF StopKillWorker
  <2>2. CASE StopSweep
    BY <2>2, Kills DEF StopSweep
  <2>3. ASSUME NEW c \in Card, StopRelease(c)
        PROVE  TypeOK'
    BY <2>3 DEF StopRelease
  <2>4. ASSUME NEW c \in Card, StopUnlink(c)
        PROVE  TypeOK'
    BY <2>4 DEF StopUnlink, SetLock
  <2>5. ASSUME NEW d \in Dispatcher, StopTerm(d)
        PROVE  TypeOK'
    BY <2>5 DEF StopTerm, OnTerminate, ForgetTick, LocksOn
  <2>6. ASSUME NEW d \in Dispatcher, StopKill(d)
        PROVE  TypeOK'
    <3>1. CASE pc[d] = "off"
      BY <2>6, <3>1 DEF StopKill, vars
    <3>2. CASE pc[d] # "off"
      <4>1. Killed(d)
        BY <2>6, <3>2 DEF StopKill
      <4> QED BY <4>1, DispatcherAssumption DEF Killed, ForgetAll, ForgetTick, NoBoard
    <3> QED BY <3>1, <3>2
  <2> QED BY <2>1, <2>2, <2>3, <2>4, <2>5, <2>6
<1>3. \A e \in Dispatcher : (pc'[e] = pc[e] /\ cur'[e] = cur[e])
                              \/ (pc'[e] \in TrapSteps \cup {"off"} /\ pc[e] # "off")
  BY DEF StopKillWorker, StopSweep, StopRelease, StopUnlink, StopTerm, StopKill, OnTerminate, Killed,
         Goto, ForgetTick, ForgetAll, TrapSteps, TInv, TypeOK, vars, locals
<1>4. Afterwards /\ RunningOn(StopHost)' \subseteq RunningOn(StopHost)
  BY <1>1, <1>2, <1>3, StartsNothing DEF TInv
<1>5. LiveOn(StopHost)' \subseteq LiveOn(StopHost)
  <2>1. \A p \in Pid : Alive(p)' => wby'[p] = wby[p]
    BY <1>1
  <2> QED BY <1>1, <2>1 DEF LiveOn
<1>6. LocksOn(StopHost)' \subseteq LocksOn(StopHost)
  <2>1. CASE \E c \in Card : StopUnlink(c)
    BY <2>1 DEF StopUnlink, SetLock, LocksOn, TInv, TypeOK
  <2>2. CASE ~\E c \in Card : StopUnlink(c)
    <3>1. UNCHANGED lock
      BY <2>2 DEF StopKillWorker, StopSweep, StopRelease, StopTerm, StopKill, OnTerminate, Killed, vars
    <3> QED BY <3>1 DEF LocksOn
  <2> QED BY <2>1, <2>2
<1> QED BY <1>4, <1>5, <1>6

\* Every step of the stop script keeps the invariant.
LEMMA StopStepKeeps ==
  ASSUME StopInv, StopStep
  PROVE  StopInv'
<1> USE StopAssumption, DispatcherAssumption DEF StopInv
<1>1. CASE StopScan \/ StopFind \/ StopWrapped \/ StopDispatchersGone \/ StopDone
  BY <1>1, StopNotes
<1>2. CASE StopKillWorker
  <2>1. Afterwards /\ AtRest'
    BY <1>2, StopActs DEF StopKillWorker, AtRest
  <2>2. StopTypes'
    BY <1>2 DEF StopKillWorker, StopTypes
  <2>3. Doomed'
    BY <1>2, <2>1 DEF StopKillWorker, StopTypes, Doomed, Afterwards
  <2> QED BY <2>1, <2>2, <2>3 DEF Afterwards
<1>3. CASE StopSweep
  <2>1. Afterwards /\ AtRest'
    BY <1>3, StopActs DEF StopSweep, AtRest
  <2>2. StopTypes'
    BY <1>3 DEF StopSweep, StopTypes
  <2>3. \A p \in before : ~Alive(p)'
    BY <1>3, <2>1, Kills DEF StopSweep, StopTypes, Doomed
  <2>4. Doomed'
    BY <1>3, <2>1, <2>3 DEF StopSweep, StopTypes, Doomed, Afterwards
  <2> QED BY <2>1, <2>2, <2>4 DEF Afterwards
<1>4. ASSUME NEW c \in Card, StopRelease(c)
      PROVE  StopInv'
  <2>1. Afterwards /\ AtRest'
    BY <1>4, StopActs DEF StopRelease, AtRest
  <2>2. StopTypes'
    BY <1>4 DEF StopRelease, StopTypes
  <2>3. Doomed'
    BY <1>4, <2>1 DEF StopRelease, StopTypes, Doomed, Afterwards
  <2> QED BY <2>1, <2>2, <2>3 DEF Afterwards
<1>5. ASSUME NEW c \in Card, StopUnlink(c)
      PROVE  StopInv'
  <2>1. Afterwards /\ RunningOn(StopHost)' \subseteq RunningOn(StopHost)
        /\ LiveOn(StopHost)' \subseteq LiveOn(StopHost)
        /\ LocksOn(StopHost)' \subseteq LocksOn(StopHost)
    BY <1>5, StopActs
  <2>2. StopTypes'
    BY <1>5 DEF StopUnlink, StopTypes
  <2>3. Doomed'
    BY <1>5, <2>1 DEF StopUnlink, StopTypes, Doomed, Afterwards
  <2>4. c \notin LocksOn(StopHost)'
    BY <1>5 DEF StopUnlink, SetLock, LocksOn, TInv, TypeOK
  <2>5. AtRest'
    BY <1>5, <2>1, <2>4 DEF StopUnlink, AtRest
  <2> QED BY <2>1, <2>2, <2>3, <2>5 DEF Afterwards
<1>6. ASSUME NEW d \in Dispatcher, StopTerm(d) \/ StopKill(d)
      PROVE  StopInv'
  <2>1. Afterwards /\ AtRest'
    BY <1>6, StopActs DEF StopTerm, StopKill, stop, AtRest
  <2>2. StopTypes'
    BY <1>6 DEF StopTerm, StopKill, stop, StopTypes
  <2>3. Doomed'
    BY <1>6, <2>1 DEF StopTerm, StopKill, stop, StopTypes, Doomed, Afterwards
  <2> QED BY <2>1, <2>2, <2>3 DEF Afterwards
<1> QED BY <1>1, <1>2, <1>3, <1>4, <1>5, <1>6 DEF StopStep

\* Every step of the system with its traps and the stop script does.
LEMMA StopNextKeeps == StopInv /\ [StopNext]_allVars => StopInv'
<1> SUFFICES ASSUME StopInv, [StopNext]_allVars PROVE StopInv'
  OBVIOUS
<1>1. CASE StopStep
  BY <1>1, StopStepKeeps
<1>2. CASE Next /\ StopUntouched
  BY <1>2, NextAfterwards, NextBringsNothing, Bystander DEF StopInv
<1>3. ASSUME NEW d \in Dispatcher, TrapStep(d)
      PROVE  StopInv'
  <2>1. /\ StopUntouched /\ Afterwards
        /\ RunningOn(StopHost)' \subseteq RunningOn(StopHost)
        /\ \A p \in Pid : Alive(p)' => Alive(p)
        /\ LocksOn(StopHost)' \subseteq LocksOn(StopHost)
    BY <1>3, TrapAfterwards, StopAssumption DEF StopInv
  <2> QED BY <2>1, Bystander DEF NothingNew
<1>4. CASE UNCHANGED allVars
  <2>1. TInv'
    BY <1>4, TypeStep DEF StopInv, allVars
  <2>2. StopTypes' /\ Doomed' /\ AtRest'
    BY <1>4 DEF StopInv, StopTypes, Doomed, AtRest, allVars, stop, vars, workers, LiveOn, LocksOn,
                RunningOn, Alive
  <2> QED BY <2>1, <2>2 DEF StopInv
<1> QED BY <1>1, <1>2, <1>3, <1>4 DEF StopNext

\* It holds at the start, and so always.
LEMMA StopInvariant == StopSpec => []StopInv
<1>1. StopInit => StopInv
  <2> SUFFICES ASSUME StopInit PROVE StopInv
    OBVIOUS
  <2>1. TInv
    BY TypeInit DEF StopInit
  <2>2. inv = << >> /\ DOMAIN inv = {}
    BY DEF StopInit
  <2> QED BY <2>1, <2>2 DEF StopInit, StopInv, StopTypes, Doomed, AtRest
<1> QED BY <1>1, StopNextKeeps, PTL DEF StopSpec

\* The state of stop and of what it stops is always well typed (StopTypeOK),
\* whatever Env allows and however the steps of stop, of the traps, of the
\* dispatchers and of the workers interleave.
THEOREM StopTypeCorrect == StopSpec => []StopTypeOK
<1>1. StopInv => StopTypeOK
  BY DEF StopInv, StopTypes, StopTypeOK, TInv
<1> QED BY <1>1, StopInvariant, PTL

\* scripts/super-board-stop.sh stops what it came to stop, for every number of
\* dispatchers, hosts and cards and with everything in Env allowed: no worker that
\* was alive on the host when it took its inventory outlives it.
THEOREM StopStops == StopSpec => StopStopsWorkers
<1>1. StopInv => (StopDone => \A p \in before : ~Alive(p))
  BY DEF StopInv, Doomed, StopDone
<1> QED BY <1>1, StopInvariant, PTL DEF StopSpec, StopStopsWorkers

\* ... and where no dispatcher of the host ran meanwhile, it leaves neither a
\* live worker nor a lock file there.
THEOREM StopClears == StopSpec => StopLeavesHostAtRest
<1>1. StopInv => (StopDone /\ quiet => LiveOn(StopHost) = {} /\ LocksOn(StopHost) = {})
  BY DEF StopInv, Doomed, AtRest, StopTypes, StopDone, LiveOn
<1> QED BY <1>1, StopInvariant, PTL DEF StopSpec, StopLeavesHostAtRest

=============================================================================
