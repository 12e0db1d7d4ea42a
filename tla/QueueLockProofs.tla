--------------------------- MODULE QueueLockProofs ---------------------------
(***************************************************************************)
(* The queue lock excludes, and what happens under it implements the       *)
(* atomic queue, for any number of processes and calls.                    *)
(***************************************************************************)
EXTENDS QueueLock, TLAPS

\* The hypothesis: no live holder keeps the lock for max_hold.  An overrun breaks
\* both theorems, since the waiters may not wait for ever.
InTime == "overrun" \notin Env

\* No token is given out twice, and none is seen before it is given out.
TokensFresh ==
  /\ \A p \in Proc : token[p] <= calls /\ judged[p] <= calls
  /\ dir.token <= calls
  /\ \A p, q \in Proc : token[p] = token[q] /\ token[p] # NoToken => p = q

\* The token of a call that does not yet hold the lock is in no lock directory,
\* and nobody has judged it stale.
Asking(p) == pc[p] \in {"try", "reclaim", "made"}
UnseenTokens ==
  \A p \in Proc : Asking(p) =>
    /\ token[p] # NoToken /\ dir.token # token[p]
    /\ \A q \in Proc : judged[q] # token[p]

\* Who is inside has made the directory that is there, and in time.
InsideOwns ==
  \A p \in Proc : Inside(p) =>
    /\ token[p] # NoToken
    /\ dir = Owned(token[p], p)

\* The directory has a token when it has an info file.
DirShape ==
  /\ dir.state = "owned" <=> dir.token # NoToken
  /\ guard # NoProc => dir.state = "bare"

\* A verdict stays right: the lock it was passed on is dead or old for good.
VerdictsHold ==
  \A p \in Proc : judged[p] # NoToken /\ dir.token = judged[p] =>
    dir.pid \notin up \/ dir.old

\* What a process is about to write comes from the queue that is there.
SnapCurrent == \A p \in up : pc[p] = "write" => snap[p] = file

\* An entry taken for dead is dead.
DeadAreDead == \A p \in Proc : dead[p] \cap up = {}

QInv ==
  /\ TypeOK /\ TokensFresh /\ UnseenTokens /\ InsideOwns
  /\ DirShape /\ VerdictsHold /\ SnapCurrent /\ DeadAreDead

LEMMA QInit == Init => QInv
BY QueueLockAssumption
DEF Init, QInv, TypeOK, TokensFresh, UnseenTokens, Asking, InsideOwns, Inside, Owned, DirShape,
    VerdictsHold, SnapCurrent, DeadAreDead, Absent, Op, NoToken, Token

\* Two processes inside own the same directory, so they are the same.
LEMMA InsideExcludes == QInv => OneInside
BY DEF QInv, InsideOwns, OneInside, Owned

-----------------------------------------------------------------------------
(* One lemma per action. *)

LEMMA BeginStep ==
  ASSUME QInv, NEW p \in Proc, NEW o \in Op, Begin(p, o)
  PROVE  QInv'
<1> USE QueueLockAssumption DEF QInv, Begin, Goto
<1>1. TypeOK'
  BY DEF TypeOK, Op, Token, NoToken
<1>2. TokensFresh' /\ UnseenTokens'
  BY DEF TypeOK, TokensFresh, UnseenTokens, Asking, NoToken, Token
<1>3. InsideOwns'
  BY DEF TypeOK, InsideOwns, Inside, Owned
<1>4. DirShape' /\ VerdictsHold' /\ SnapCurrent' /\ DeadAreDead'
  BY DEF TypeOK, DirShape, VerdictsHold, SnapCurrent, DeadAreDead
<1> QED BY <1>1, <1>2, <1>3, <1>4

LEMMA MakeDirStep ==
  ASSUME QInv, NEW p \in Proc, MakeDir(p)
  PROVE  QInv'
<1> USE QueueLockAssumption DEF QInv, MakeDir, Goto, Bare, Absent
<1>1. TypeOK'
  BY DEF TypeOK, NoToken
<1>2. TokensFresh' /\ UnseenTokens'
  BY DEF TypeOK, TokensFresh, UnseenTokens, Asking, NoToken, Token
<1>3. InsideOwns'
  BY DEF TypeOK, InsideOwns, Inside, Owned
<1>4. DirShape' /\ VerdictsHold' /\ SnapCurrent' /\ DeadAreDead'
  BY DEF TypeOK, DirShape, VerdictsHold, SnapCurrent, DeadAreDead, NoToken
<1> QED BY <1>1, <1>2, <1>3, <1>4

LEMMA WriteInfoStep ==
  ASSUME QInv, NEW p \in Proc, WriteInfo(p)
  PROVE  QInv'
<1> USE QueueLockAssumption DEF QInv, WriteInfo, Goto
<1>0. guard = p /\ dir.state = "bare" /\ token[p] # NoToken /\ Asking(p)
      /\ \A q \in Proc : ~Inside(q)
  BY DEF TypeOK, DirShape, UnseenTokens, Asking, InsideOwns, Owned
<1>1. TypeOK'
  BY <1>0 DEF TypeOK, Owned, NoToken, Token
<1>2. TokensFresh' /\ UnseenTokens'
  BY <1>0 DEF TypeOK, TokensFresh, UnseenTokens, Asking, NoToken, Token, Owned
<1>3. InsideOwns'
  BY <1>0 DEF TypeOK, InsideOwns, Inside
<1>4. DirShape' /\ SnapCurrent' /\ DeadAreDead'
  BY <1>0 DEF TypeOK, DirShape, SnapCurrent, DeadAreDead, NoToken, Owned
<1>5. VerdictsHold'
  BY <1>0 DEF TypeOK, VerdictsHold, UnseenTokens, Owned
<1> QED BY <1>1, <1>2, <1>3, <1>4, <1>5

\* Every step that ends a call: the directory is left alone or removed by its
\* maker, and the locals of the call are cleared.
LEMMA ReturnStep ==
  ASSUME QInv, NEW p \in up, Return(p), UNCHANGED <<up, calls, file, silent>>,
         \/ UNCHANGED <<guard, dir>> /\ pc[p] # "made"
         \/ guard' = guard /\ pc[p] # "made" /\ dir' = Absent
            /\ guard = NoProc /\ Inside(p)
         \/ guard' = NoProc /\ dir' = Absent /\ pc[p] = "made"
  PROVE  QInv'
<1> USE QueueLockAssumption DEF QInv, Return, Goto
<1>0. p \in Proc
  BY DEF TypeOK
<1>1. TypeOK'
  <2>1. dir' \in [state : {"absent", "bare", "owned"}, token : Token \cup {NoToken},
                  pid : Proc \cup {NoProc}, old : BOOLEAN]
    <3>1. Absent \in [state : {"absent", "bare", "owned"}, token : Token \cup {NoToken},
                      pid : Proc \cup {NoProc}, old : BOOLEAN]
      BY DEF Absent
    <3>2. dir' = dir \/ dir' = Absent
      OBVIOUS
    <3> QED BY <3>1, <3>2 DEF TypeOK
  <2>2. guard' \in up' \cup {NoProc} /\ \A q \in up' : guard' = q <=> pc'[q] = "made"
    <3>1. /\ up' = up /\ NoProc \notin up
          /\ \A q \in up : pc'[q] = IF q = p THEN "idle" ELSE pc[q]
          /\ \A q \in up : guard = q <=> pc[q] = "made"
          /\ guard \in up \cup {NoProc}
      BY <1>0 DEF TypeOK
    <3>2. CASE guard' = guard /\ pc[p] # "made"
      BY <3>1, <3>2
    <3>3. CASE guard' = NoProc /\ pc[p] = "made"
      BY <3>1, <3>3
    <3> QED BY <3>2, <3>3
  <2> QED BY <1>0, <2>1, <2>2 DEF TypeOK, Op
<1>2. TokensFresh' /\ UnseenTokens'
  BY <1>0 DEF TypeOK, TokensFresh, UnseenTokens, Asking, NoToken, Token, Absent
<1>3. InsideOwns'
  <2>1. SUFFICES ASSUME NEW q \in Proc, Inside(q)' PROVE token'[q] # NoToken /\ dir' = Owned(token'[q], q)
    BY DEF InsideOwns, Owned
  <2>2. q # p /\ Inside(q) /\ token'[q] = token[q]
    BY <1>0, <2>1 DEF TypeOK, Inside
  <2>3. dir = Owned(token[q], q) /\ token[q] # NoToken
    BY <2>2 DEF InsideOwns
  <2>4. ~Inside(p)
    BY <2>2, <1>0, InsideExcludes DEF OneInside
  <2>5. pc[p] # "made"
    BY <2>3, <1>0 DEF TypeOK, DirShape, Owned
  <2> QED BY <2>2, <2>3, <2>4, <2>5
<1>4. DirShape' /\ VerdictsHold' /\ SnapCurrent' /\ DeadAreDead'
  BY <1>0 DEF TypeOK, DirShape, VerdictsHold, SnapCurrent, DeadAreDead, NoToken, Absent
<1> QED BY <1>1, <1>2, <1>3, <1>4

LEMMA JudgeStep ==
  ASSUME QInv, NEW p \in Proc, Judge(p)
  PROVE  QInv'
<1> USE QueueLockAssumption DEF QInv, Judge, Goto
<1>1. TypeOK'
  BY DEF TypeOK
<1>2. TokensFresh' /\ UnseenTokens'
  BY DEF TypeOK, TokensFresh, UnseenTokens, Asking, NoToken, Token
<1>3. InsideOwns'
  BY DEF TypeOK, InsideOwns, Inside, Owned
<1>4. DirShape' /\ SnapCurrent' /\ DeadAreDead'
  BY DEF TypeOK, DirShape, SnapCurrent, DeadAreDead
<1>5. VerdictsHold'
  BY DEF TypeOK, VerdictsHold, Stale, DirShape, NoToken
<1> QED BY <1>1, <1>2, <1>3, <1>4, <1>5

\* A reclaimed directory is nobody's who is inside.
LEMMA ReclaimStep ==
  ASSUME QInv, NEW p \in Proc, Reclaim(p)
  PROVE  QInv'
<1> USE QueueLockAssumption DEF QInv, Reclaim, Goto
<1>0. dir' = dir \/ (dir' = Absent /\ \A q \in Proc : ~Inside(q))
  <2>1. CASE judged[p] # NoToken /\ dir.token = judged[p]
    BY <2>1 DEF VerdictsHold, InsideOwns, Inside, Owned
  <2>2. CASE judged[p] = NoToken /\ dir.state = "bare" /\ dir.old
    BY <2>2 DEF InsideOwns, Owned
  <2> QED BY <2>1, <2>2
<1>1. TypeOK'
  BY <1>0 DEF TypeOK, Absent, NoToken
<1>2. TokensFresh' /\ UnseenTokens'
  BY <1>0 DEF TypeOK, TokensFresh, UnseenTokens, Asking, NoToken, Token, Absent
<1>3. InsideOwns'
  BY <1>0 DEF TypeOK, InsideOwns, Inside, Owned
<1>4. DirShape' /\ VerdictsHold' /\ SnapCurrent' /\ DeadAreDead'
  BY <1>0 DEF TypeOK, DirShape, VerdictsHold, SnapCurrent, DeadAreDead, NoToken, Absent
<1> QED BY <1>1, <1>2, <1>3, <1>4

\* Read and write: only who is inside, so alone, touches the file.
LEMMA InsideStep ==
  ASSUME QInv, NEW p \in Proc, Read(p) \/ Write(p) \/ FileFails(p)
  PROVE  QInv'
<1> USE QueueLockAssumption DEF QInv, Goto
<1>0. /\ Inside(p) /\ UNCHANGED <<up, op, token, dead, judged, calls, guard, dir>>
      /\ \A q \in Proc : Inside(q) => q = p
      /\ pc[p] \in {"read", "write"}
  BY InsideExcludes DEF Read, Write, FileFails, Inside, OneInside
<1>1. /\ snap' \in [Proc -> SUBSET Proc] /\ file' \subseteq Proc /\ silent' \subseteq file'
      /\ pc' = [pc EXCEPT ![p] = pc'[p]] /\ pc'[p] \in {"write", "leave"}
  BY DEF TypeOK, Read, Write, FileFails, Updated, Op
<1>2. TypeOK'
  BY <1>0, <1>1 DEF TypeOK
<1>3. TokensFresh' /\ UnseenTokens'
  BY <1>0, <1>1 DEF TypeOK, TokensFresh, UnseenTokens, Asking
<1>4. InsideOwns'
  BY <1>0, <1>1 DEF TypeOK, InsideOwns, Inside, Owned
<1>5. DirShape' /\ VerdictsHold' /\ DeadAreDead'
  BY <1>0 DEF DirShape, VerdictsHold, DeadAreDead
<1>6. SnapCurrent'
  <2>1. SUFFICES ASSUME NEW q \in up, pc'[q] = "write" PROVE snap'[q] = file'
    BY <1>0 DEF SnapCurrent
  <2>2. CASE q # p
    BY <1>0, <1>1, <2>1, <2>2 DEF TypeOK, Inside
  <2>3. CASE q = p
    BY <1>0, <2>1, <2>3 DEF TypeOK, Read, Write, FileFails
  <2> QED BY <2>2, <2>3
<1> QED BY <1>2, <1>3, <1>4, <1>5, <1>6

LEMMA CrashStep ==
  ASSUME QInv, NEW p \in Proc, Crash(p)
  PROVE  QInv'
<1> USE QueueLockAssumption DEF QInv, Crash, local
<1>1. TypeOK'
  BY DEF TypeOK
<1>2. TokensFresh' /\ UnseenTokens'
  BY DEF TokensFresh, UnseenTokens, Asking
<1>3. InsideOwns'
  BY DEF InsideOwns, Inside, Owned
<1>4. DirShape' /\ VerdictsHold' /\ SnapCurrent' /\ DeadAreDead'
  BY DEF TypeOK, DirShape, VerdictsHold, SnapCurrent, DeadAreDead
<1> QED BY <1>1, <1>2, <1>3, <1>4

LEMMA LapseStep ==
  ASSUME QInv, NEW p \in Proc, Lapse(p)
  PROVE  QInv'
<1> USE QueueLockAssumption DEF QInv, Lapse, local
<1>1. TypeOK'
  BY DEF TypeOK
<1>2. TokensFresh' /\ UnseenTokens' /\ InsideOwns'
  BY DEF TokensFresh, UnseenTokens, Asking, InsideOwns, Inside, Owned
<1>3. DirShape' /\ VerdictsHold' /\ SnapCurrent' /\ DeadAreDead'
  BY DEF DirShape, VerdictsHold, SnapCurrent, DeadAreDead
<1> QED BY <1>1, <1>2, <1>3

LEMMA AgeStep ==
  ASSUME InTime, QInv, Age
  PROVE  QInv'
<1> USE QueueLockAssumption DEF QInv, Age, local, InTime
<1>1. \A q \in Proc : ~Inside(q)
  BY DEF InsideOwns, Owned
<1>2. /\ dir'.state = dir.state /\ dir'.token = dir.token /\ dir'.pid = dir.pid /\ dir'.old
      /\ dir' \in [state : {"absent", "bare", "owned"}, token : Token \cup {NoToken},
                   pid : Proc \cup {NoProc}, old : BOOLEAN]
  BY DEF TypeOK
<1>3. TypeOK'
  BY <1>2 DEF TypeOK
<1>4. TokensFresh' /\ UnseenTokens' /\ InsideOwns'
  BY <1>1, <1>2 DEF TokensFresh, UnseenTokens, Asking, InsideOwns, Inside
<1>5. DirShape' /\ VerdictsHold' /\ SnapCurrent' /\ DeadAreDead'
  BY <1>2 DEF DirShape, VerdictsHold, SnapCurrent, DeadAreDead
<1> QED BY <1>3, <1>4, <1>5

LEMMA QStep == InTime /\ QInv /\ [Next]_vars => QInv'
<1> SUFFICES ASSUME InTime, QInv, [Next]_vars PROVE QInv'
  OBVIOUS
<1>1. ASSUME NEW p \in Proc, ProcStep(p) PROVE QInv'
  <2>1. CASE MakeDir(p) \/ WriteInfo(p) \/ Judge(p) \/ Reclaim(p) \/ Read(p) \/ Write(p)
    BY <2>1, MakeDirStep, WriteInfoStep, JudgeStep, ReclaimStep, InsideStep
  <2>2. CASE ReclaimLater(p)
    BY <2>2 DEF ReclaimLater, Goto, QInv, TypeOK, TokensFresh, UnseenTokens, Asking, InsideOwns,
      Inside, DirShape, VerdictsHold, SnapCurrent, DeadAreDead, NoToken, Token, Owned
  <2>3. CASE Leave(p)
    <3>1. Inside(p) /\ pc[p] # "made" /\ dir' = Absent /\ guard = NoProc
      BY <2>3 DEF Leave, QInv, InsideOwns, Inside, Owned
    <3> QED BY <2>3, <3>1, ReturnStep DEF Leave
  <2> QED BY <1>1, <2>1, <2>2, <2>3 DEF ProcStep
<1>2. ASSUME NEW p \in Proc, WriteInfoFails(p) \/ TimedOut(p) \/ LeaveFails(p) PROVE QInv'
  BY <1>2, ReturnStep DEF WriteInfoFails, TimedOut, LeaveFails
<1>3. ASSUME NEW p \in Proc, Crash(p) \/ Lapse(p) \/ FileFails(p) \/ \E o \in Op : Begin(p, o)
      PROVE QInv'
  BY <1>3, CrashStep, LapseStep, InsideStep, BeginStep
<1>4. CASE Age
  BY <1>4, AgeStep
<1>5. CASE UNCHANGED vars
  BY <1>5 DEF vars, local, QInv, TypeOK, TokensFresh, UnseenTokens, Asking, InsideOwns,
    Inside, DirShape, VerdictsHold, SnapCurrent, DeadAreDead
<1> QED BY <1>1, <1>2, <1>3, <1>4, <1>5 DEF Next

LEMMA QInvariant == ASSUME InTime PROVE Spec => []QInv
BY QInit, QStep, PTL DEF Spec

-----------------------------------------------------------------------------

\* One process at a time is inside the queue lock, for any number of processes.
THEOREM QueueLockExcludes == ASSUME InTime PROVE Spec => []OneInside
BY QInvariant, InsideExcludes, PTL

\* Every step is a step of the atomic queue, or leaves it alone.
Seen == <<file, silent, Proc \ up>>

LEMMA WriteAtomic ==
  ASSUME QInv, NEW p \in Proc, Write(p)
  PROVE  Queue!Next \/ UNCHANGED Seen
<1> USE DEF QInv
<1>1. /\ snap[p] = file /\ p \in up /\ up' = up /\ dead[p] \in SUBSET (Proc \ up)
      /\ op[p] \in Op /\ silent \subseteq file
  BY DEF Write, SnapCurrent, DeadAreDead, TypeOK
<1>2. CASE UNCHANGED <<file, silent>>
  BY <1>1, <1>2 DEF Seen
<1>3. CASE file' = Updated(p) /\ silent' = (silent \cap Updated(p)) \ Refreshed(p)
           /\ (Updated(p) # file \/ Refreshed(p) \cap file # {})
  <2>1. CASE op[p] = "enqueue"
    <3>1. /\ file' = (file \ (dead[p] \cup silent)) \cup {p}
          /\ silent' = silent \ (dead[p] \cup silent \cup {p})
      BY <1>1, <1>3, <2>1 DEF Updated, Refreshed
    <3>2. dead[p] \cup silent \in SUBSET ((Proc \ up) \cup silent)
      BY <1>1
    <3>3. Queue!Enqueue(p)
      BY <1>1, <3>1, <3>2 DEF Queue!Enqueue
    <3> QED BY <3>3 DEF Queue!Next
  <2>2. CASE op[p] = "dequeue"
    <3>1. file' = file \ {p} /\ silent' = silent \ {p}
      BY <1>1, <1>3, <2>2 DEF Updated, Refreshed
    <3>2. Queue!Dequeue(p)
      BY <1>1, <3>1 DEF Queue!Dequeue
    <3> QED BY <3>2 DEF Queue!Next
  <2>3. CASE op[p] = "heartbeat"
    <3>1. file' = file /\ silent' = silent \ {p} /\ p \in file
      BY <1>1, <1>3, <2>3 DEF Updated, Refreshed
    <3>2. Queue!Heartbeat(p)
      BY <1>1, <3>1 DEF Queue!Heartbeat
    <3> QED BY <3>2 DEF Queue!Next
  <2>4. CASE op[p] = "clean"
    <3>1. /\ file' = file \ (dead[p] \cup silent)
          /\ silent' = silent \ (dead[p] \cup silent)
      BY <1>1, <1>3, <2>4 DEF Updated, Refreshed
    <3>2. dead[p] \cup silent \in SUBSET ((Proc \ up) \cup silent)
      BY <1>1
    <3>3. Queue!Prune
      BY <1>1, <3>1, <3>2 DEF Queue!Prune
    <3> QED BY <3>3 DEF Queue!Next
  <2> QED BY <1>1, <2>1, <2>2, <2>3, <2>4 DEF Op
<1> QED BY <1>1, <1>2, <1>3 DEF Write

LEMMA AtomicStep == QInv /\ [Next]_vars => [Queue!Next]_Seen
<1> SUFFICES ASSUME QInv, Next PROVE Queue!Next \/ UNCHANGED Seen
  BY DEF vars, Seen
<1> USE DEF local, Seen
<1>1. ASSUME NEW p \in Proc, Crash(p) PROVE Queue!Next
  <2>1. Queue!Die(p)
    BY <1>1 DEF Crash, Queue!Die, QInv, TypeOK
  <2> QED BY <2>1 DEF Queue!Next
<1>2. ASSUME NEW p \in Proc, Lapse(p) PROVE Queue!Next
  <2>1. Queue!Lapse(p)
    BY <1>2 DEF Lapse, Queue!Lapse
  <2> QED BY <2>1 DEF Queue!Next
<1>3. ASSUME NEW p \in Proc, ProcStep(p) PROVE Queue!Next \/ UNCHANGED Seen
  <2>1. CASE Write(p)
    BY <2>1, WriteAtomic
  <2>2. CASE ~Write(p)
    BY <1>3, <2>2 DEF ProcStep, MakeDir, WriteInfo, Judge, Reclaim, ReclaimLater, Read, Leave
  <2> QED BY <2>1, <2>2
<1>4. ASSUME NEW p \in Proc,
             \/ WriteInfoFails(p) \/ TimedOut(p) \/ FileFails(p) \/ LeaveFails(p)
             \/ \E o \in Op : Begin(p, o)
      PROVE UNCHANGED Seen
  BY <1>4 DEF WriteInfoFails, TimedOut, FileFails, LeaveFails, Begin
<1>5. CASE Age
  BY <1>5 DEF Age
<1> QED BY <1>1, <1>2, <1>3, <1>4, <1>5 DEF Next

\* The queue file under its lock implements the atomic queue: no entry is lost or
\* brought back, and none leaves but by its owner's call or after its death.
THEOREM QueueLockImplements == ASSUME InTime PROVE Spec => ActsAtomically
<1>1. Init => Queue!Init
  BY DEF Init, Queue!Init
<1> QED BY <1>1, QInvariant, AtomicStep, PTL DEF ActsAtomically, Queue!Spec, Spec, Seen
=============================================================================
