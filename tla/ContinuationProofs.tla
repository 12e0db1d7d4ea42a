-------------------------- MODULE ContinuationProofs --------------------------
(***************************************************************************)
(* What the ledger, the native attempts and the recurrence guard keep from *)
(* any number of drivers, task hosts, pushes, checkouts and crashes.       *)
(***************************************************************************)
EXTENDS Continuation, FiniteSetTheorems, TLAPS

-----------------------------------------------------------------------------
(* Types, of the attempts and of the drivers too. *)

AttemptRecord ==
  [n : Nat, st : {"absent", "prepared", "dispatched", "finalized", "blocked"},
   by : Handle \cup {None}, out : Head \cup {None}]

Result ==
  [status : {"pending", "blocked", "advanced", "error"}, run : Run \cup {None},
   fault : Fault \cup {None}]

DriverRecord ==
  [pc : {"off", "built", "loop", "step", "working", "judged", "credited", "stepped"},
   copy : Journal \cup {None}, active : SUBSET Req, seen : Key \cup {None},
   job : Key \cup {None}, out : Head \cup {None}, res : Result \cup {None}]

\* What a driver knows at each point of its run. The verdict it reads on a native
\* run is the only failure it reports under that run.
Shape(R) ==
  /\ R \in DriverRecord
  /\ R.pc # "off" => R.copy \in Journal
  /\ R.pc \in {"step", "working", "judged", "credited", "stepped"} => R.seen \in Key
  /\ R.pc \in {"working", "judged", "credited"} => R.job \in Key
  /\ R.pc \in {"judged", "credited"} => R.out \in Head
  /\ R.pc = "credited" => R.job.stage = "qa"
  /\ R.pc = "stepped" =>
       /\ R.res \in Result
       /\ R.res.status = "pending" => R.res.run \in Run
       /\ R.res.status \in {"blocked", "error"} =>
            R.res.fault \in Fault /\ (R.res.run # None => R.res.fault = "verdict")

EntryType ==
  [Req -> [st : {"implementation", "QA", "review", "awaiting authorization"},
           head : Head, proven : SUBSET Stages, fresh : BOOLEAN]]

LedgerTyped ==
  /\ entry \in EntryType
  /\ tree \in Head /\ commits \in Head /\ asked \subseteq Req
  /\ backend \in Backend

JournalTyped ==
  disk \in Journal /\ (clerk = None \/ clerk \in Journal)

NativeTyped ==
  /\ att \in [Key -> AttemptRecord] /\ task \in [Handle -> Run \cup {None}]
  /\ \A k \in Key : (att[k].n = 0 <=> att[k].st = "absent")
                    /\ (att[k].st = "finalized" => att[k].out \in Head)

DriversTyped ==
  /\ lock \in Driver \cup {None} /\ orphans \subseteq Key
  /\ drv \in [Driver -> DriverRecord] /\ \A d \in Driver : Shape(drv[d])

MemoryTyped ==
  failures \subseteq Observation /\ IsFiniteSet(failures) /\ passed \cup moved \subseteq Key

\* A driver past its start holds the run lock; the request it is about to dispatch
\* is not waiting for an authorization.
LockHeld ==
  \A d \in Driver : drv[d].pc \notin {"off", "built"} => lock = d

Dispatchable ==
  \A d \in Driver :
    drv[d].pc = "step" => entry[drv[d].seen.req].st # "awaiting authorization"

TInv ==
  /\ LedgerTyped /\ JournalTyped /\ NativeTyped /\ DriversTyped /\ MemoryTyped
  /\ LockHeld /\ Dispatchable

\* The initial states have these types.
LEMMA TypeInit == Init => TInv
<1> SUFFICES ASSUME Init PROVE TInv
  OBVIOUS
<1> USE ContinuationAssumption DEF Init
<1>1. LedgerTyped
  <2> DEFINE A == [st : {"implementation", "QA"}, head : {0}, proven : {{}}, fresh : {FALSE}]
             B == [st : {"review"}, head : {0}, proven : {{"qa"}}, fresh : {TRUE}]
             Q == [st : {"implementation", "QA", "review", "awaiting authorization"},
                   head : Head, proven : SUBSET Stages, fresh : BOOLEAN]
  <2>1. MaxCommit \in Nat /\ 0 \in Head
    BY DEF Head
  <2>2. A \subseteq Q /\ B \subseteq Q
    BY <2>1 DEF Stages
  <2>3. entry \in [Req -> A \cup B]
    OBVIOUS
  <2> HIDE DEF A, B
  <2>4. entry \in [Req -> Q]
    BY <2>2, <2>3
  <2> QED BY <2>1, <2>4 DEF LedgerTyped, EntryType
<1>2. JournalTyped
  BY DEF JournalTyped, Journal
<1>3. NativeTyped
  BY DEF NativeTyped, AttemptRecord, Absent
<1>4. DriversTyped
  BY DEF DriversTyped, Shape, DriverRecord, Idle
<1>5. MemoryTyped
  BY FS_EmptySet DEF MemoryTyped, Key, Stages, Head
<1>6. LockHeld /\ Dispatchable
  BY DEF LockHeld, Dispatchable, Idle
<1> QED BY <1>1, <1>2, <1>3, <1>4, <1>5, <1>6 DEF TInv

\* The stage of a request that can be dispatched.
LEMMA StageTyped ==
  /\ StageOf("implementation") = "build" /\ StageOf("QA") = "qa" /\ StageOf("review") = "review"
  /\ \A s \in {"implementation", "QA", "review"} : StageOf(s) \in Stages
BY DEF StageOf, Stages

\* Where a passed stage takes a request.
LEMMA AfterTyped ==
  /\ StageAfter["build"] = "QA" /\ StageAfter["qa"] = "review"
  /\ StageAfter["review"] = "awaiting authorization"
  /\ \A s \in Stages : StageAfter[s] \in {"QA", "review", "awaiting authorization"}
<1>1. StageAfter["build"] = "QA"
  BY DEF StageAfter
<1>2. StageAfter["qa"] = "review"
  BY DEF StageAfter
<1>3. StageAfter["review"] = "awaiting authorization"
  BY DEF StageAfter
<1> QED BY <1>1, <1>2, <1>3 DEF Stages

\* Moving the head of a request, and advancing it, keep the types.
LEMMA EntryTyped ==
  ASSUME entry \in EntryType, NEW r \in Req, NEW h \in Head, NEW s \in Stages
  PROVE  /\ [entry EXCEPT ![r] = WithHead(@, h)] \in EntryType
         /\ [entry EXCEPT ![r] = Advanced(@, s, h)] \in EntryType
<1> DEFINE Q == [st : {"implementation", "QA", "review", "awaiting authorization"},
                 head : Head, proven : SUBSET Stages, fresh : BOOLEAN]
<1>1. WithHead(entry[r], h) \in Q
  BY DEF EntryType, WithHead
<1>2. ASSUME NEW q \in Q
      PROVE  [q EXCEPT !.proven = @ \cup {s}, !.st = StageAfter[s]] \in Q
  <2>1. StageAfter[s] \in {"QA", "review", "awaiting authorization"}
    BY AfterTyped
  <2> QED BY <2>1
<1>3. Advanced(entry[r], s, h) \in Q
  BY <1>1, <1>2 DEF Advanced
<1> QED BY <1>1, <1>3 DEF EntryType

\* A driver that becomes rec, well shaped, leaves the others as they are.
LEMMA Becoming ==
  ASSUME DriversTyped, NEW d \in Driver, NEW rec, Shape(rec), Become(d, rec)
  PROVE  /\ drv' \in [Driver -> DriverRecord] /\ \A e \in Driver : Shape(drv'[e])
         /\ drv'[d] = rec /\ \A e \in Driver \ {d} : drv'[e] = drv[e]
<1>1. rec \in DriverRecord
  BY DEF Shape
<1>2. drv' = [drv EXCEPT ![d] = rec] /\ drv \in [Driver -> DriverRecord]
  BY DEF Become, DriversTyped
<1> QED BY <1>1, <1>2 DEF DriversTyped

\* What the step of the adapter returns is well shaped.
LEMMA ReturnedShape ==
  ASSUME DriversTyped, NEW d \in Driver, drv[d].pc # "off", drv[d].seen \in Key,
         NEW status \in {"pending", "blocked", "advanced", "error"},
         NEW run \in Run \cup {None}, NEW fault \in Fault \cup {None},
         status = "pending" => run \in Run,
         status \in {"blocked", "error"} => fault \in Fault /\ (run # None => fault = "verdict")
  PROVE  Shape(Returned(d, status, run, fault))
<1> DEFINE res == [status |-> status, run |-> run, fault |-> fault]
<1>1. res \in Result
  BY DEF Result
<1>2. Shape(drv[d]) /\ drv[d] \in DriverRecord
  BY DEF DriversTyped
<1>3. Returned(d, status, run, fault) = [drv[d] EXCEPT !.pc = "stepped", !.job = None, !.out = None, !.res = res]
  BY DEF Returned
<1> HIDE DEF res
<1>4. Returned(d, status, run, fault) \in DriverRecord
  BY <1>1, <1>2, <1>3 DEF DriverRecord
<1>5. /\ Returned(d, status, run, fault).pc = "stepped"
      /\ Returned(d, status, run, fault).copy = drv[d].copy
      /\ Returned(d, status, run, fault).seen = drv[d].seen
      /\ Returned(d, status, run, fault).res = res
  BY <1>1, <1>2, <1>3 DEF DriverRecord
<1>6. res.status = status /\ res.run = run /\ res.fault = fault
  BY DEF res
<1> QED BY <1>1, <1>2, <1>4, <1>5, <1>6 DEF Shape

\* A driver past its start is the only one: the others are off or not started.
LEMMA HeldByOne ==
  ASSUME LockHeld, NEW d \in Driver, NEW e \in Driver,
         drv[d].pc \notin {"off", "built"}, e # d, None \notin Driver
  PROVE  drv[e].pc \in {"off", "built"}
BY DEF LockHeld

\* A step of a driver that holds the lock and keeps it.
LEMMA HolderStep ==
  ASSUME TInv, NEW d \in Driver, drv[d].pc \notin {"off", "built"}, UNCHANGED lock,
         \A e \in Driver \ {d} : drv'[e] = drv[e],
         drv'[d].pc = "step" => entry'[drv'[d].seen.req].st # "awaiting authorization"
  PROVE  LockHeld' /\ Dispatchable'
<1>1. \A e \in Driver \ {d} : drv'[e].pc \in {"off", "built"}
  BY HeldByOne, ContinuationAssumption DEF TInv
<1>2. lock' = d
  BY DEF TInv, LockHeld
<1>3. LockHeld'
  BY <1>1, <1>2 DEF LockHeld
<1>4. Dispatchable'
  BY <1>1 DEF Dispatchable
<1> QED BY <1>3, <1>4

\* A step that leaves the drivers alone and moves no request to its authorization.
LEMMA OtherStep ==
  ASSUME TInv, UNCHANGED drivers,
         \A r \in Req : entry'[r].st = "awaiting authorization" =>
                          entry[r].st = "awaiting authorization"
  PROVE  DriversTyped' /\ LockHeld' /\ Dispatchable'
<1>1. DriversTyped' /\ LockHeld'
  BY DEF TInv, DriversTyped, LockHeld, drivers
<1>2. Dispatchable'
  <2> SUFFICES ASSUME NEW d \in Driver, drv[d].pc = "step"
               PROVE  entry'[drv[d].seen.req].st # "awaiting authorization"
    BY DEF Dispatchable, drivers
  <2>1. drv[d].seen.req \in Req
    BY DEF TInv, DriversTyped, Shape, Key
  <2> QED BY <2>1 DEF TInv, Dispatchable
<1> QED BY <1>1, <1>2

\* What is remembered of a run, and of a dispatch, is an observation.
LEMMA ObservationTyped ==
  /\ \A run \in Run, fault \in Fault : OfRun(run, fault) \in Observation
  /\ MemoryTyped =>
       \A seen \in Key, fault \in Fault : OfDispatch(seen, fault, None) \in Observation
<1>1. ASSUME NEW run \in Run, NEW fault \in Fault
      PROVE  OfRun(run, fault) \in Observation
  BY DEF OfRun, Observation, Run, Key
<1>2. ASSUME MemoryTyped, NEW seen \in Key, NEW fault \in Fault
      PROVE  OfDispatch(seen, fault, None) \in Observation
  <2>1. Cardinality(failures) + 1 \in Nat
    BY <1>2, FS_CardinalityType DEF MemoryTyped
  <2> QED BY <2>1 DEF OfDispatch, Observation, Key
<1> QED BY <1>1, <1>2

\* The attempts, each for its key.
LEMMA AttemptTyped ==
  /\ \A k \in Key, n \in Nat : Attempt(k, n) \in Run /\ Attempt(k, n).key = k /\ Attempt(k, n).n = n
  /\ \A n \in Nat \ {0} : Prepared(n) \in AttemptRecord /\ Prepared(n).n = n
                          /\ Prepared(n).st = "prepared"
BY DEF Attempt, Run, Prepared, AttemptRecord

\* What the host does keeps the types.
LEMMA HostTyped ==
  ASSUME TInv, NEW a \in Handle, Host(a)
  PROVE  TInv'
<1> USE ContinuationAssumption
<1>1. UNCHANGED <<ledger, git, journal, drivers, backend, moved>>
  BY DEF Host, Launch, Bind, ObserveAndDie, Complete, memory
<1>2. LedgerTyped' /\ JournalTyped'
  BY <1>1 DEF TInv, LedgerTyped, JournalTyped, ledger, git, journal
<1>3. DriversTyped' /\ LockHeld' /\ Dispatchable'
  BY <1>1, OtherStep DEF ledger
<1>4. NativeTyped' /\ MemoryTyped'
  <2> USE DEF TInv, NativeTyped
  <2>1. ASSUME NEW k \in Key, Launch(a, k)
        PROVE  NativeTyped' /\ MemoryTyped'
    <3>1. Attempt(k, att[k].n) \in Run
      BY AttemptTyped DEF AttemptRecord
    <3>2. NativeTyped'
      BY <2>1, <3>1 DEF Launch
    <3> QED BY <2>1, <3>2 DEF Launch, memory, MemoryTyped
  <2>2. CASE Bind(a)
    <3> DEFINE k == task[a].key
    <3>1. k \in Key
      BY <2>2 DEF Bind, Run
    <3>2. NativeTyped'
      BY <2>2, <3>1 DEF Bind, AttemptRecord
    <3> QED BY <2>2, <3>2 DEF Bind, memory, MemoryTyped
  <2>3. CASE ObserveAndDie(a)
    <3>1. task[a] \in Run
      BY <2>3, AttemptTyped DEF ObserveAndDie, AttemptRecord
    <3>2. OfRun(task[a], "verdict") \in Observation
      BY <3>1, ObservationTyped DEF Fault
    <3>3. MemoryTyped'
      BY <1>1, <2>3, <3>2, FS_AddElement DEF ObserveAndDie, MemoryTyped
    <3>4. NativeTyped'
      BY <2>3 DEF ObserveAndDie, native
    <3> QED BY <3>3, <3>4
  <2>4. ASSUME NEW ok \in BOOLEAN, NEW artifacts \in BOOLEAN, Complete(a, ok, artifacts)
        PROVE  NativeTyped' /\ MemoryTyped'
    <3> DEFINE k == task[a].key
    <3>1. task[a] \in Run /\ k \in Key
      BY <2>4 DEF Complete, Run
    <3>2. OfRun(task[a], "verdict") \in Observation
      BY <3>1, ObservationTyped DEF Fault
    <3>3. PICK good \in BOOLEAN :
            Settled(a, good)
            /\ failures' = IF good THEN failures ELSE failures \cup {OfRun(task[a], "verdict")}
      BY <2>4 DEF Complete, Accepted
    <3>4. MemoryTyped'
      BY <1>1, <3>1, <3>2, <3>3, FS_AddElement DEF Settled, MemoryTyped
    <3>5. att[k].st = "dispatched"
      BY <2>4 DEF Complete
    <3>6. tree \in Head
      BY DEF LedgerTyped
    <3>7. NativeTyped'
      BY <3>1, <3>3, <3>5, <3>6 DEF Settled, AttemptRecord
    <3> QED BY <3>4, <3>7
  <2> QED BY <2>1, <2>2, <2>3, <2>4 DEF Host
<1> QED BY <1>2, <1>3, <1>4 DEF TInv

\* The key of the stage a step is about to dispatch.
KeyOf(d) ==
  [req |-> Request(d), stage |-> StageOf(entry[Request(d)].st), head |-> entry[Request(d)].head]

\* What the step of the adapter does on an attempt, or without one.
LEMMA EvaluateCases ==
  ASSUME TInv, NEW d \in Driver, Evaluate(d)
  PROVE  /\ KeyOf(d) \in Key /\ entry[Request(d)].st # "awaiting authorization"
         /\ UNCHANGED <<ledger, git, journal, memory, backend, task, lock, orphans>>
         /\ \/ /\ Become(d, Returned(d, "blocked", None, "decision")) /\ UNCHANGED att
            \/ /\ Become(d, Returned(d, "blocked", None, "tree")) /\ UNCHANGED att
            \/ /\ backend = "native" /\ att[KeyOf(d)].n = 0
               /\ att' = [att EXCEPT ![KeyOf(d)] = Prepared(1)]
               /\ Become(d, Returned(d, "pending", Attempt(KeyOf(d), 1), None))
            \/ /\ Become(d, Returned(d, "pending", Attempt(KeyOf(d), att[KeyOf(d)].n), None))
               /\ UNCHANGED att
            \/ /\ Become(d, Returned(d, "blocked", Attempt(KeyOf(d), att[KeyOf(d)].n), "verdict"))
               /\ UNCHANGED att
            \/ /\ backend = "native" /\ att[KeyOf(d)].st = "finalized" /\ UNCHANGED att
               /\ Become(d, [drv[d] EXCEPT !.pc = "judged", !.job = KeyOf(d),
                                           !.out = att[KeyOf(d)].out])
            \/ /\ backend = "cli" /\ tree = KeyOf(d).head /\ UNCHANGED att
               /\ Become(d, [drv[d] EXCEPT !.pc = "working", !.job = KeyOf(d)])
<1> DEFINE r == Request(d)
           k == KeyOf(d)
<1>1. drv[d].pc = "step" /\ drv[d].seen \in Key
  BY DEF Evaluate, TInv, DriversTyped, Shape
<1>2. r \in Req
  BY <1>1 DEF Request, Key
<1>3. entry[r].st \in {"implementation", "QA", "review"}
  BY <1>1, <1>2 DEF TInv, Dispatchable, Request, LedgerTyped, EntryType
<1>4. k \in Key
  BY <1>2, <1>3, StageTyped DEF KeyOf, Key, TInv, LedgerTyped, EntryType
<1>5. /\ UNCHANGED <<ledger, git, journal, memory, backend, task, lock, orphans>>
      /\ CASE r \in asked -> Become(d, Returned(d, "blocked", None, "decision")) /\ UNCHANGED att
           [] r \notin asked /\ backend = "native" -> Native(d, k)
           [] r \notin asked /\ backend = "cli" ->
                /\ Become(d, IF tree = k.head THEN [drv[d] EXCEPT !.pc = "working", !.job = k]
                             ELSE Returned(d, "blocked", None, "tree"))
                /\ UNCHANGED att
  BY DEF Evaluate, KeyOf
<1>6. att[k].st \in {"absent", "prepared", "dispatched", "finalized", "blocked"}
      /\ (att[k].n = 0 <=> att[k].st = "absent")
  BY <1>4 DEF TInv, NativeTyped, AttemptRecord
<1>7. backend \in {"native", "cli"}
  BY ContinuationAssumption DEF TInv, LedgerTyped
<1> HIDE DEF r, k
<1>8. CASE r \in asked
  <2>1. Become(d, Returned(d, "blocked", None, "decision")) /\ UNCHANGED att
    BY <1>5, <1>8
  <2> QED BY <1>3, <1>4, <1>5, <2>1 DEF r, k
<1>9. CASE r \notin asked /\ backend = "native"
  <2>1. Native(d, k)
    BY <1>5, <1>9
  <2>2. CASE att[k].n = 0 /\ tree = k.head
    <3>1. att' = [att EXCEPT ![k] = Prepared(1)]
          /\ Become(d, Returned(d, "pending", Attempt(k, 1), None))
      BY <1>6, <2>1, <2>2 DEF Native
    <3> QED BY <1>3, <1>4, <1>5, <1>9, <2>2, <3>1 DEF r, k
  <2>3. CASE att[k].n = 0 /\ tree # k.head
    <3>1. Become(d, Returned(d, "blocked", None, "tree")) /\ UNCHANGED att
      BY <1>6, <2>1, <2>3 DEF Native
    <3> QED BY <1>3, <1>4, <1>5, <3>1 DEF r, k
  <2>4. CASE att[k].st \in {"prepared", "dispatched"}
    <3>1. Become(d, Returned(d, "pending", Attempt(k, att[k].n), None)) /\ UNCHANGED att
      BY <1>6, <2>1, <2>4 DEF Native
    <3> QED BY <1>3, <1>4, <1>5, <3>1 DEF r, k
  <2>5. CASE att[k].st = "blocked"
    <3>1. Become(d, Returned(d, "blocked", Attempt(k, att[k].n), "verdict")) /\ UNCHANGED att
      BY <1>6, <2>1, <2>5 DEF Native
    <3> QED BY <1>3, <1>4, <1>5, <3>1 DEF r, k
  <2>6. CASE att[k].st = "finalized"
    <3>1. Become(d, [drv[d] EXCEPT !.pc = "judged", !.job = k, !.out = att[k].out]) /\ UNCHANGED att
      BY <1>6, <2>1, <2>6 DEF Native
    <3> QED BY <1>3, <1>4, <1>5, <1>9, <2>6, <3>1 DEF r, k
  <2> QED BY <1>6, <2>2, <2>3, <2>4, <2>5, <2>6
<1>10. CASE r \notin asked /\ backend = "cli"
  <2>1. /\ Become(d, IF tree = k.head THEN [drv[d] EXCEPT !.pc = "working", !.job = k]
                     ELSE Returned(d, "blocked", None, "tree"))
        /\ UNCHANGED att
    BY <1>5, <1>10
  <2>2. CASE tree = k.head
    <3>1. Become(d, [drv[d] EXCEPT !.pc = "working", !.job = k])
      BY <2>1, <2>2
    <3> QED BY <1>3, <1>4, <1>5, <1>10, <2>1, <2>2, <3>1 DEF r, k
  <2>3. CASE tree # k.head
    <3>1. Become(d, Returned(d, "blocked", None, "tree"))
      BY <2>1, <2>3
    <3> QED BY <1>3, <1>4, <1>5, <2>1, <3>1 DEF r, k
  <2> QED BY <2>2, <2>3
<1> QED BY <1>7, <1>8, <1>9, <1>10

\* Parking a request, writing down a run or a completed stage keeps a journal one.
LEMMA JournalKept ==
  ASSUME NEW J \in Journal, NEW r \in Req
  PROVE  /\ Parked(J, r) \in Journal
         /\ \A run \in Run \cup {None} : [J EXCEPT ![r].inflight = run] \in Journal
         /\ \A run \in Run \cup {None}, x \in Stages \X Head :
              [J EXCEPT ![r].inflight = run, ![r].done = @ \cup {x}] \in Journal
         /\ [J EXCEPT ![r].parked = FALSE, ![r].inflight = None] \in Journal
<1> DEFINE E == [parked : BOOLEAN, inflight : Run \cup {None}, done : SUBSET (Stages \X Head)]
<1>1. J \in [Req -> E] /\ Journal = [Req -> E]
  BY DEF Journal
<1>2. Parked(J, r) \in [Req -> E]
  BY <1>1 DEF Parked
<1>3. ASSUME NEW run \in Run \cup {None}
      PROVE  [J EXCEPT ![r].inflight = run] \in [Req -> E]
  BY <1>1
<1>4. ASSUME NEW run \in Run \cup {None}, NEW x \in Stages \X Head
      PROVE  [J EXCEPT ![r].inflight = run, ![r].done = @ \cup {x}] \in [Req -> E]
  <2>1. J[r] \in E
    BY <1>1
  <2>2. [J[r] EXCEPT !.inflight = run, !.done = @ \cup {x}] \in E
    BY <2>1
  <2> QED BY <1>1, <2>2
<1>5. [J EXCEPT ![r].parked = FALSE, ![r].inflight = None] \in [Req -> E]
  BY <1>1
<1> HIDE DEF E
<1> QED BY <1>1, <1>2, <1>3, <1>4, <1>5

\* The steps of a driver that take the run lock, or give it up, keep the types.
LEMMA RunTyped ==
  ASSUME TInv, NEW d \in Driver, Construct(d) \/ Start(d) \/ End(d) \/ Crash(d)
  PROVE  TInv'
<1> USE ContinuationAssumption
<1>1. UNCHANGED <<ledger, git, native, memory, backend>>
  BY DEF Construct, Start, End, Crash
<1>2. LedgerTyped' /\ NativeTyped' /\ MemoryTyped'
  BY <1>1 DEF TInv, LedgerTyped, NativeTyped, MemoryTyped, ledger, git, native, memory
<1>3. Shape(Idle) /\ Idle.pc = "off"
  BY DEF Shape, Idle, DriverRecord
<1>4. Shape(drv[d]) /\ drv[d] \in DriverRecord
  BY DEF TInv, DriversTyped
<1>5. CASE Construct(d)
  <2> DEFINE rec == [Idle EXCEPT !.pc = "built", !.copy = disk]
  <2>1. Shape(rec) /\ rec.pc = "built"
    BY <1>3 DEF Shape, Idle, DriverRecord, TInv, JournalTyped
  <2>2. /\ DriversTyped' /\ drv'[d] = rec /\ \A e \in Driver \ {d} : drv'[e] = drv[e]
    BY <1>5, <2>1, Becoming DEF Construct, TInv, DriversTyped
  <2> HIDE DEF rec
  <2>3. LockHeld' /\ Dispatchable'
    <3>1. UNCHANGED <<lock, ledger>>
      BY <1>5 DEF Construct
    <3> QED BY <2>1, <2>2, <3>1 DEF LockHeld, Dispatchable, TInv, ledger
  <2> QED BY <1>2, <1>5, <2>2, <2>3 DEF Construct, TInv, JournalTyped, journal
<1>6. CASE Start(d)
  <2>1. CASE lock = None
    <3> DEFINE rec == [drv[d] EXCEPT !.pc = "loop", !.active = {r \in Req : ~drv[d].copy[r].parked}]
    <3>1. Become(d, rec) /\ lock' = d
      BY <1>6, <2>1 DEF Start
    <3>2. Shape(rec) /\ rec.pc = "loop"
      BY <1>4, <1>6 DEF Start, Shape, DriverRecord
    <3> HIDE DEF rec
    <3>3. DriversTyped' /\ drv'[d] = rec /\ \A e \in Driver \ {d} : drv'[e] = drv[e]
      BY <1>6, <3>1, <3>2, Becoming DEF Start, TInv, DriversTyped
    <3>4. \A e \in Driver \ {d} : drv'[e].pc \in {"off", "built"}
      BY <2>1, <3>3 DEF TInv, LockHeld
    <3>5. LockHeld' /\ Dispatchable'
      BY <3>1, <3>2, <3>3, <3>4 DEF LockHeld, Dispatchable
    <3> QED BY <1>2, <1>6, <3>3, <3>5 DEF Start, TInv, JournalTyped, journal
  <2>2. CASE lock # None
    <3>1. Become(d, Idle) /\ UNCHANGED lock
      BY <1>6, <2>2 DEF Start
    <3>2. DriversTyped' /\ drv'[d] = Idle /\ \A e \in Driver \ {d} : drv'[e] = drv[e]
      BY <1>3, <1>6, <3>1, Becoming DEF Start, TInv, DriversTyped
    <3>3. LockHeld' /\ Dispatchable'
      BY <1>1, <1>3, <3>1, <3>2 DEF LockHeld, Dispatchable, TInv, ledger
    <3> QED BY <1>2, <1>6, <3>2, <3>3 DEF Start, TInv, JournalTyped, journal
  <2> QED BY <2>1, <2>2
<1>7. CASE End(d) \/ Crash(d)
  <2>1. Become(d, Idle) /\ lock' \in {lock, None} /\ (drv[d].pc \notin {"off", "built"} => lock' = None)
        /\ (lock' # lock => lock = d \/ drv[d].pc = "loop")
    BY <1>7 DEF End, Crash, TInv, LockHeld
  <2>2. orphans' \subseteq Key
    BY <1>4, <1>7 DEF End, Crash, TInv, DriversTyped, Shape
  <2>3. DriversTyped' /\ drv'[d] = Idle /\ \A e \in Driver \ {d} : drv'[e] = drv[e]
    BY <1>3, <2>1, <2>2, Becoming DEF TInv, DriversTyped
  <2>4. \A e \in Driver \ {d} : lock' = lock \/ drv'[e].pc \in {"off", "built"}
    BY <2>1, <2>3 DEF TInv, LockHeld
  <2>5. LockHeld' /\ Dispatchable'
    BY <1>1, <1>3, <2>3, <2>4 DEF LockHeld, Dispatchable, TInv, ledger
  <2>6. JournalTyped'
    BY <1>4, <1>7 DEF End, Crash, TInv, JournalTyped, Shape, journal
  <2> QED BY <1>2, <2>3, <2>5, <2>6 DEF TInv
<1> QED BY <1>5, <1>6, <1>7

\* So do those that consider a request and dispatch its stage.
LEMMA DispatchTyped ==
  ASSUME TInv, NEW d \in Driver,
         Evaluate(d) \/ \E r \in Req : Consider(d, r)
  PROVE  TInv'
<1> USE ContinuationAssumption
<1>1. UNCHANGED <<ledger, git, journal, memory, backend, task, lock, orphans>>
  BY EvaluateCases DEF Consider, native
<1>2. LedgerTyped' /\ JournalTyped' /\ MemoryTyped'
  BY <1>1 DEF TInv, LedgerTyped, JournalTyped, MemoryTyped, ledger, git, journal, memory
<1>3. Shape(drv[d]) /\ drv[d] \in DriverRecord
  BY DEF TInv, DriversTyped
<1>4. ASSUME NEW r \in Req, Consider(d, r)
      PROVE  TInv'
  <2> DEFINE over == [drv[d] EXCEPT !.copy = Parked(@, r), !.active = @ \ {r}]
             seen == [req |-> r, stage |-> StageOf(entry[r].st), head |-> entry[r].head]
             next == [drv[d] EXCEPT !.pc = "step", !.seen = seen]
  <2>1. drv[d].pc = "loop" /\ UNCHANGED native
    BY <1>4 DEF Consider
  <2>2. Shape(over) /\ over.pc = "loop"
    <3>1. Parked(drv[d].copy, r) \in Journal
      BY <1>3, <2>1, JournalKept DEF Shape
    <3> QED BY <1>3, <2>1, <3>1 DEF Shape, DriverRecord
  <2>3. ASSUME ~Undrivable(d, r)
        PROVE  Shape(next) /\ next.pc = "step" /\ next.seen = seen /\ seen.req = r
               /\ entry[r].st # "awaiting authorization"
    <3>1. entry[r].st \in {"implementation", "QA", "review"}
      BY <2>3 DEF Undrivable, TInv, LedgerTyped, EntryType
    <3>2. seen \in Key
      BY <3>1, StageTyped DEF Key, TInv, LedgerTyped, EntryType
    <3> HIDE DEF seen
    <3>3. Shape(next) /\ next.pc = "step" /\ next.seen = seen
      BY <1>3, <2>1, <3>2 DEF Shape, DriverRecord
    <3> QED BY <3>1, <3>3 DEF seen
  <2>4. PICK rec : /\ Become(d, rec) /\ Shape(rec)
                   /\ rec.pc = "step" => entry[rec.seen.req].st # "awaiting authorization"
    <3>0. Become(d, over) \/ (~Undrivable(d, r) /\ Become(d, next))
      BY <1>4 DEF Consider
    <3>1. CASE Become(d, over)
      <4> HIDE DEF over
      <4> QED BY <2>2, <3>1
    <3>2. CASE ~Undrivable(d, r) /\ Become(d, next)
      <4> HIDE DEF next, seen
      <4> QED BY <2>3, <3>2
    <3> QED BY <3>0, <3>1, <3>2
  <2> HIDE DEF over, seen, next
  <2>5. DriversTyped' /\ drv'[d] = rec /\ \A e \in Driver \ {d} : drv'[e] = drv[e]
    BY <1>1, <2>4, Becoming DEF TInv, DriversTyped
  <2>6. LockHeld' /\ Dispatchable'
    BY <1>1, <2>1, <2>4, <2>5, HolderStep DEF ledger
  <2> QED BY <1>2, <2>1, <2>5, <2>6 DEF TInv, NativeTyped, native
<1>5. CASE Evaluate(d)
  <2> DEFINE k == KeyOf(d)
  <2>1. k \in Key /\ drv[d].pc = "step" /\ drv[d].seen \in Key
    BY <1>3, <1>5, EvaluateCases DEF Evaluate, Shape
  <2>2. att[k] \in AttemptRecord /\ \A n \in Nat : Attempt(k, n) \in Run
    BY <2>1, AttemptTyped DEF TInv, NativeTyped
  <2>3. NativeTyped'
    <3>1. CASE att' = [att EXCEPT ![k] = Prepared(1)]
      BY <1>1, <2>1, <3>1, AttemptTyped DEF TInv, NativeTyped
    <3>2. CASE UNCHANGED att
      BY <1>1, <3>2 DEF TInv, NativeTyped
    <3> QED BY <1>5, <3>1, <3>2, EvaluateCases
  <2>4. PICK rec : Become(d, rec) /\ Shape(rec) /\ rec.pc # "step"
    <3> DEFINE pending(n) == Returned(d, "pending", Attempt(k, n), None)
               refused(run, fault) == Returned(d, "blocked", run, fault)
               judged == [drv[d] EXCEPT !.pc = "judged", !.job = k, !.out = att[k].out]
               working == [drv[d] EXCEPT !.pc = "working", !.job = k]
    <3>1. ASSUME NEW n \in Nat
          PROVE  Shape(pending(n)) /\ pending(n).pc # "step"
      <4>1. Attempt(k, n) \in Run
        BY <2>2
      <4>2. Shape(pending(n))
        BY <2>1, <4>1, ReturnedShape DEF TInv
      <4>3. pending(n).pc = "stepped"
        BY <1>3 DEF Returned, DriverRecord
      <4> QED BY <4>2, <4>3
    <3>2. ASSUME NEW run \in Run \cup {None}, NEW fault \in Fault, run # None => fault = "verdict"
          PROVE  Shape(refused(run, fault)) /\ refused(run, fault).pc # "step"
      <4>1. Shape(refused(run, fault))
        BY <2>1, <3>2, ReturnedShape DEF TInv
      <4>2. refused(run, fault).pc = "stepped"
        BY <1>3 DEF Returned, DriverRecord
      <4> QED BY <4>1, <4>2
    <3>3. att[k].st = "finalized" => Shape(judged) /\ judged.pc # "step"
      BY <1>3, <2>1, <2>2 DEF Shape, DriverRecord, TInv, NativeTyped
    <3>4. Shape(working) /\ working.pc # "step"
      BY <1>3, <2>1 DEF Shape, DriverRecord
    <3>5. att[k].n \in Nat /\ Attempt(k, att[k].n) \in Run
      BY <2>2 DEF AttemptRecord
    <3>6. \/ Become(d, refused(None, "decision")) \/ Become(d, refused(None, "tree"))
          \/ Become(d, refused(Attempt(k, att[k].n), "verdict"))
          \/ Become(d, pending(1)) \/ Become(d, pending(att[k].n))
          \/ att[k].st = "finalized" /\ Become(d, judged)
          \/ Become(d, working)
      BY <1>5, EvaluateCases
    <3> HIDE DEF pending, refused, judged, working, k
    <3>7. {"decision", "tree", "verdict"} \subseteq Fault
      BY DEF Fault
    <3> QED BY <3>1, <3>2, <3>3, <3>4, <3>5, <3>6, <3>7
  <2>5. DriversTyped' /\ drv'[d] = rec /\ \A e \in Driver \ {d} : drv'[e] = drv[e]
    BY <1>1, <2>4, Becoming DEF TInv, DriversTyped
  <2>6. LockHeld' /\ Dispatchable'
    BY <1>1, <2>1, <2>4, <2>5, HolderStep
  <2> QED BY <1>2, <2>3, <2>5, <2>6 DEF TInv
<1> QED BY <1>4, <1>5

\* A driver that has judged a passed stage either advances the request, whatever the
\* board says to that, or finds the update refused.
LEMMA AdvanceCases ==
  ASSUME TInv, NEW d \in Driver, NEW synced \in BOOLEAN, Advance(d, synced)
  PROVE  /\ drv[d].pc \in {"judged", "credited"} /\ drv[d].seen \in Key
         /\ drv[d].job \in Key /\ drv[d].out \in Head /\ drv[d].job.req \in Req
         /\ drv[d].job.stage \in Stages
         /\ UNCHANGED <<git, journal, native, backend, asked, lock, orphans, failures, passed>>
         /\ \/ /\ CanAdvance(entry[drv[d].job.req], drv[d].job.stage, drv[d].out)
               /\ entry' = [entry EXCEPT ![drv[d].job.req] =
                              Advanced(entry[drv[d].job.req], drv[d].job.stage, drv[d].out)]
               /\ moved' = Recalled(drv[d].job.req, drv[d].out) \cup {drv[d].job}
               /\ \/ Become(d, Returned(d, "advanced", None, None))
                  \/ Become(d, Returned(d, "blocked", None, "board"))
            \/ /\ UNCHANGED <<entry, moved>>
               /\ Become(d, Returned(d, "error", None, "raised"))
<1>1. drv[d].pc \in {"judged", "credited"}
  BY DEF Advance
<1>2. drv[d].seen \in Key /\ drv[d].job \in Key /\ drv[d].out \in Head
  BY <1>1 DEF TInv, DriversTyped, Shape
<1>3. drv[d].job.req \in Req /\ drv[d].job.stage \in Stages
  BY <1>2 DEF Key
<1>4. UNCHANGED <<git, journal, native, backend, asked, lock, orphans, failures, passed>>
  BY DEF Advance
<1>5. CASE CanAdvance(entry[drv[d].job.req], drv[d].job.stage, drv[d].out)
  <2>1. /\ entry' = [entry EXCEPT ![drv[d].job.req] =
                       Advanced(entry[drv[d].job.req], drv[d].job.stage, drv[d].out)]
        /\ moved' = Recalled(drv[d].job.req, drv[d].out) \cup {drv[d].job}
        /\ Become(d, IF synced THEN Returned(d, "advanced", None, None)
                     ELSE Returned(d, "blocked", None, "board"))
    BY <1>5 DEF Advance
  <2> QED BY <1>1, <1>2, <1>3, <1>4, <1>5, <2>1
<1>6. CASE ~CanAdvance(entry[drv[d].job.req], drv[d].job.stage, drv[d].out)
  <2>1. UNCHANGED <<entry, moved>> /\ Become(d, Returned(d, "error", None, "raised"))
    BY <1>6 DEF Advance
  <2> QED BY <1>1, <1>2, <1>3, <1>4, <2>1
<1> QED BY <1>5, <1>6

\* A step that ends in a returned outcome.
LEMMA Reported ==
  ASSUME TInv, NEW d \in Driver, drv[d].pc \notin {"off", "built"}, drv[d].seen \in Key,
         UNCHANGED <<lock, orphans>>,
         NEW status \in {"blocked", "advanced", "error"}, NEW fault \in Fault \cup {None},
         status # "advanced" => fault \in Fault,
         Become(d, Returned(d, status, None, fault))
  PROVE  DriversTyped' /\ LockHeld' /\ Dispatchable'
<1> DEFINE rec == Returned(d, status, None, fault)
<1>1. Shape(rec)
  BY ReturnedShape DEF TInv
<1>2. rec.pc = "stepped"
  BY DEF Returned, TInv, DriversTyped, DriverRecord
<1>3. Become(d, rec)
  OBVIOUS
<1> HIDE DEF rec
<1>4. DriversTyped' /\ drv'[d] = rec /\ \A e \in Driver \ {d} : drv'[e] = drv[e]
  BY <1>1, <1>3, Becoming DEF TInv, DriversTyped
<1>5. LockHeld' /\ Dispatchable'
  BY <1>2, <1>4, HolderStep
<1> QED BY <1>4, <1>5

\* The steps that judge a stage and apply its outcome keep the types.
LEMMA OutcomeTyped ==
  ASSUME TInv, NEW d \in Driver,
         \/ \E ok, artifacts \in BOOLEAN : WorkerEnds(d, ok, artifacts)
         \/ PublishFails(d) \/ Reopen(d) \/ Credit(d)
         \/ \E synced \in BOOLEAN : Advance(d, synced)
  PROVE  TInv'
<1> USE ContinuationAssumption
<1>1. UNCHANGED <<git, journal, native, backend, asked, lock, orphans, failures>>
  BY AdvanceCases DEF WorkerEnds, PublishFails, Reopen, Credit, ledger, memory
<1>2. JournalTyped' /\ NativeTyped'
  BY <1>1 DEF TInv, JournalTyped, NativeTyped, journal, native
<1>3. drv[d].pc \in {"working", "judged", "credited"}
  BY AdvanceCases DEF WorkerEnds, PublishFails, Reopen, Credit
<1>4. /\ Shape(drv[d]) /\ drv[d] \in DriverRecord /\ drv[d].seen \in Key /\ drv[d].job \in Key
      /\ drv[d].job.req \in Req /\ drv[d].job.stage \in Stages
  BY <1>3 DEF TInv, DriversTyped, Shape, Key
<1>5. {"verdict", "publish", "reopened", "board", "raised"} \subseteq Fault
  BY DEF Fault
<1>6. ASSUME NEW ok \in BOOLEAN, NEW artifacts \in BOOLEAN, WorkerEnds(d, ok, artifacts)
      PROVE  TInv'
  <2>1. LedgerTyped' /\ MemoryTyped'
    BY <1>1, <1>4, <1>6 DEF WorkerEnds, TInv, LedgerTyped, MemoryTyped, ledger, git
  <2>2. CASE ok /\ Accepted(drv[d].job, tree, artifacts)
    <3> DEFINE rec == [drv[d] EXCEPT !.pc = "judged", !.out = tree]
    <3>1. Become(d, rec)
      BY <1>6, <2>2 DEF WorkerEnds
    <3>2. Shape(rec) /\ rec.pc = "judged"
      BY <1>3, <1>4 DEF Shape, DriverRecord, TInv, LedgerTyped
    <3> HIDE DEF rec
    <3>3. DriversTyped' /\ drv'[d] = rec /\ \A e \in Driver \ {d} : drv'[e] = drv[e]
      BY <1>1, <3>1, <3>2, Becoming DEF TInv, DriversTyped
    <3>4. LockHeld' /\ Dispatchable'
      BY <1>1, <1>3, <3>2, <3>3, HolderStep
    <3> QED BY <1>2, <2>1, <3>3, <3>4 DEF TInv
  <2>3. CASE ~(ok /\ Accepted(drv[d].job, tree, artifacts))
    <3>1. Become(d, Returned(d, "blocked", None, "verdict"))
      BY <1>6, <2>3 DEF WorkerEnds
    <3> QED BY <1>1, <1>2, <1>3, <1>4, <1>5, <2>1, <3>1, Reported DEF TInv
  <2> QED BY <2>2, <2>3
<1>7. CASE PublishFails(d)
  <2>1. LedgerTyped' /\ MemoryTyped'
    BY <1>1, <1>7 DEF PublishFails, TInv, LedgerTyped, MemoryTyped, ledger, git, memory
  <2>2. Become(d, Returned(d, "blocked", None, "publish"))
    BY <1>7 DEF PublishFails
  <2> QED BY <1>1, <1>2, <1>3, <1>4, <1>5, <2>1, <2>2, Reported DEF TInv
<1>8. CASE Reopen(d)
  <2>1. LedgerTyped' /\ MemoryTyped'
    BY <1>1, <1>8 DEF Reopen, TInv, LedgerTyped, MemoryTyped, EntryType, git
  <2>2. Become(d, Returned(d, "blocked", None, "reopened"))
    BY <1>8 DEF Reopen
  <2> QED BY <1>1, <1>2, <1>3, <1>4, <1>5, <2>1, <2>2, Reported DEF TInv
<1>9. CASE Credit(d)
  <2> DEFINE rec == [drv[d] EXCEPT !.pc = "credited"]
  <2>1. LedgerTyped' /\ MemoryTyped'
    BY <1>1, <1>4, <1>9 DEF Credit, TInv, LedgerTyped, MemoryTyped, EntryType, git, memory
  <2>2. Become(d, rec) /\ drv[d].pc = "judged" /\ drv[d].job.stage = "qa"
    BY <1>9 DEF Credit
  <2>3. Shape(rec) /\ rec.pc = "credited"
    BY <1>4, <2>2 DEF Shape, DriverRecord
  <2> HIDE DEF rec
  <2>4. DriversTyped' /\ drv'[d] = rec /\ \A e \in Driver \ {d} : drv'[e] = drv[e]
    BY <1>1, <2>2, <2>3, Becoming DEF TInv, DriversTyped
  <2>5. LockHeld' /\ Dispatchable'
    BY <1>1, <1>3, <2>3, <2>4, HolderStep
  <2> QED BY <1>2, <2>1, <2>4, <2>5 DEF TInv
<1>10. ASSUME NEW synced \in BOOLEAN, Advance(d, synced)
       PROVE  TInv'
  <2>1. LedgerTyped'
    <3>1. entry \in EntryType /\ drv[d].out \in Head
      BY <1>10, AdvanceCases DEF TInv, LedgerTyped
    <3>2. [entry EXCEPT ![drv[d].job.req] =
             Advanced(entry[drv[d].job.req], drv[d].job.stage, drv[d].out)] \in EntryType
      BY <1>4, <3>1, EntryTyped
    <3>3. entry' \in EntryType
      BY <1>10, <3>1, <3>2, AdvanceCases
    <3> QED BY <1>1, <3>3 DEF TInv, LedgerTyped, git
  <2>2. MemoryTyped'
    <3>1. moved' \subseteq moved \cup {drv[d].job} /\ UNCHANGED <<failures, passed>>
      BY <1>10, AdvanceCases DEF Recalled
    <3> QED BY <1>4, <3>1 DEF TInv, MemoryTyped
  <2>3. DriversTyped' /\ LockHeld' /\ Dispatchable'
    BY <1>1, <1>3, <1>4, <1>5, <1>10, AdvanceCases, Reported
  <2> QED BY <1>2, <2>1, <2>2, <2>3 DEF TInv
<1> QED BY <1>6, <1>7, <1>8, <1>9, <1>10

\* So do those that make something of the returned outcome.
LEMMA FollowTyped ==
  ASSUME TInv, NEW d \in Driver, Leave(d) \/ StageDone(d) \/ Park(d)
  PROVE  TInv'
<1> USE ContinuationAssumption
<1>1. UNCHANGED <<ledger, git, native, backend, lock, orphans, passed, moved>>
  BY DEF Leave, StageDone, Park, memory
<1>2. LedgerTyped' /\ NativeTyped'
  BY <1>1 DEF TInv, LedgerTyped, NativeTyped, ledger, git, native
<1>3. drv[d].pc = "stepped"
  BY DEF Leave, StageDone, Park
<1>4. /\ Shape(drv[d]) /\ drv[d] \in DriverRecord /\ drv[d].seen \in Key /\ drv[d].copy \in Journal
      /\ Request(d) \in Req /\ <<drv[d].seen.stage, drv[d].seen.head>> \in Stages \X Head
  BY <1>3 DEF TInv, DriversTyped, Shape, Key, Request
<1>5. ASSUME NEW J \in Journal, NEW A \in SUBSET Req, JournalTyped', MemoryTyped',
             Become(d, [drv[d] EXCEPT !.pc = "loop", !.copy = J, !.active = A,
                                      !.seen = None, !.res = None])
      PROVE  TInv'
  <2> DEFINE rec == [drv[d] EXCEPT !.pc = "loop", !.copy = J, !.active = A,
                                   !.seen = None, !.res = None]
  <2>1. Shape(rec) /\ rec.pc = "loop"
    BY <1>3, <1>4 DEF Shape, DriverRecord
  <2> HIDE DEF rec
  <2>2. DriversTyped' /\ drv'[d] = rec /\ \A e \in Driver \ {d} : drv'[e] = drv[e]
    BY <1>1, <1>5, <2>1, Becoming DEF TInv, DriversTyped, rec
  <2>3. LockHeld' /\ Dispatchable'
    BY <1>1, <1>3, <2>1, <2>2, HolderStep
  <2> QED BY <1>2, <1>5, <2>2, <2>3 DEF TInv
<1>6. drv[d].active \in SUBSET Req /\ drv[d].active \ {Request(d)} \in SUBSET Req
  BY <1>4 DEF DriverRecord
<1>7. CASE Leave(d)
  <2> DEFINE J == [drv[d].copy EXCEPT ![Request(d)].inflight = drv[d].res.run]
  <2>1. drv[d].res.run \in Run
    BY <1>3, <1>4, <1>7 DEF Leave, Shape
  <2>2. J \in Journal
    BY <1>4, <2>1, JournalKept
  <2>3. JournalTyped' /\ MemoryTyped'
    BY <1>7, <2>2 DEF Leave, TInv, JournalTyped, MemoryTyped, memory
  <2>4. Become(d, [drv[d] EXCEPT !.pc = "loop", !.copy = J, !.active = drv[d].active \ {Request(d)},
                                 !.seen = None, !.res = None])
    BY <1>7 DEF Leave
  <2> HIDE DEF J
  <2> QED BY <1>5, <1>6, <2>2, <2>3, <2>4
<1>8. CASE StageDone(d)
  <2> DEFINE J == [drv[d].copy EXCEPT ![Request(d)].inflight = None,
                     ![Request(d)].done = @ \cup {<<drv[d].seen.stage, drv[d].seen.head>>}]
  <2>1. J \in Journal
    BY <1>4, JournalKept
  <2>2. Parked(J, Request(d)) \in Journal
    BY <1>4, <2>1, JournalKept
  <2>3. JournalTyped' /\ MemoryTyped'
    BY <1>8, <2>1 DEF StageDone, TInv, JournalTyped, MemoryTyped, memory
  <2>4. \E last \in BOOLEAN :
          Become(d, [drv[d] EXCEPT !.pc = "loop", !.copy = IF last THEN Parked(J, Request(d)) ELSE J,
                       !.active = IF last THEN @ \ {Request(d)} ELSE @,
                       !.seen = None, !.res = None])
    BY <1>8 DEF StageDone
  <2> HIDE DEF J
  <2>5. PICK last \in BOOLEAN :
          Become(d, [drv[d] EXCEPT !.pc = "loop", !.copy = IF last THEN Parked(J, Request(d)) ELSE J,
                       !.active = IF last THEN @ \ {Request(d)} ELSE @,
                       !.seen = None, !.res = None])
    BY <2>4
  <2>6. CASE last
    BY <1>5, <1>6, <2>2, <2>3, <2>5, <2>6
  <2>7. CASE ~last
    BY <1>5, <1>6, <2>1, <2>3, <2>5, <2>7
  <2> QED BY <2>6, <2>7
<1>9. CASE Park(d)
  <2>1. Observed(d) \in Observation
    <3>1. drv[d].res \in Result /\ drv[d].res.fault \in Fault
      BY <1>3, <1>4, <1>9 DEF Park, Shape
    <3>2. CASE drv[d].res.run # None
      BY <3>1, <3>2, ObservationTyped DEF Observed, Result
    <3>3. CASE drv[d].res.run = None
      BY <1>4, <3>1, <3>3, ObservationTyped DEF Observed, TInv
    <3> QED BY <3>2, <3>3
  <2>2. MemoryTyped'
    BY <1>1, <1>9, <2>1, FS_AddElement DEF Park, TInv, MemoryTyped
  <2>3. JournalTyped' /\ Parked(drv[d].copy, Request(d)) \in Journal
    BY <1>4, <1>9, JournalKept DEF Park, TInv, JournalTyped, journal
  <2>4. Become(d, [drv[d] EXCEPT !.pc = "loop", !.copy = Parked(drv[d].copy, Request(d)),
                     !.active = drv[d].active \ {Request(d)}, !.seen = None, !.res = None])
    BY <1>9 DEF Park
  <2> QED BY <1>5, <1>6, <2>2, <2>3, <2>4
<1> QED BY <1>7, <1>8, <1>9

\* An unpark that prepares a retry: the run it names failed, or was replaced by an
\* attempt nobody has taken up.
LEMMA UnparkCases ==
  ASSUME TInv, NEW r \in Req, Unpark(r)
  PROVE  /\ UNCHANGED <<ledger, git, drivers, memory, backend, disk, task>>
         /\ clerk' = [disk EXCEPT ![r].parked = FALSE, ![r].inflight = None]
         /\ \/ UNCHANGED att
            \/ \E k \in Key : att[k].st = "blocked" /\ att' = [att EXCEPT ![k] = Prepared(att[k].n + 1)]
<1>1. /\ UNCHANGED <<ledger, git, drivers, memory, backend, disk, task>>
      /\ clerk' = [disk EXCEPT ![r].parked = FALSE, ![r].inflight = None]
  BY DEF Unpark
<1>2. CASE disk[r].inflight = None
  <2>1. UNCHANGED att
    BY <1>2 DEF Unpark
  <2> QED BY <1>1, <2>1
<1>3. CASE disk[r].inflight # None
  <2> DEFINE run == disk[r].inflight
  <2>1. run \in Run /\ run.key \in Key
    BY <1>3 DEF TInv, JournalTyped, Journal, Run
  <2>2. RetryAccepted(run) /\ Retry(run)
    BY <1>3 DEF Unpark
  <2>3. CASE att[run.key].st = "prepared"
    <3>1. UNCHANGED att
      BY <2>2, <2>3 DEF Retry
    <3> QED BY <1>1, <3>1
  <2>4. CASE att[run.key].st # "prepared"
    <3>1. att[run.key].st = "blocked"
      BY <2>2, <2>4 DEF RetryAccepted
    <3>2. att' = [att EXCEPT ![run.key] = Prepared(att[run.key].n + 1)]
      BY <2>2, <2>4 DEF Retry
    <3> QED BY <1>1, <2>1, <3>1, <3>2
  <2> QED BY <2>3, <2>4
<1> QED BY <1>2, <1>3

\* Unparking keeps the types.
LEMMA UnparkTyped ==
  ASSUME TInv, UnparkSaves \/ UnparkCrashes \/ \E r \in Req : Unpark(r)
  PROVE  TInv'
<1> USE ContinuationAssumption
<1>1. UNCHANGED <<ledger, git, drivers, memory, backend, task>>
  BY UnparkCases DEF UnparkSaves, UnparkCrashes, native
<1>2. LedgerTyped' /\ MemoryTyped'
  BY <1>1 DEF TInv, LedgerTyped, MemoryTyped, ledger, git, memory
<1>3. DriversTyped' /\ LockHeld' /\ Dispatchable'
  BY <1>1, OtherStep DEF ledger
<1>4. CASE UnparkSaves \/ UnparkCrashes
  <2>1. JournalTyped' /\ NativeTyped'
    BY <1>4 DEF UnparkSaves, UnparkCrashes, TInv, JournalTyped, NativeTyped, native
  <2> QED BY <1>2, <1>3, <2>1 DEF TInv
<1>5. ASSUME NEW r \in Req, Unpark(r)
      PROVE  TInv'
  <2>1. JournalTyped'
    <3>1. disk' = disk /\ clerk' = [disk EXCEPT ![r].parked = FALSE, ![r].inflight = None]
      BY <1>5, UnparkCases
    <3>2. disk \in Journal
      BY DEF TInv, JournalTyped
    <3>3. [disk EXCEPT ![r].parked = FALSE, ![r].inflight = None] \in Journal
      BY <3>2, JournalKept
    <3> QED BY <3>1, <3>2, <3>3 DEF JournalTyped
  <2>2. ASSUME NEW k \in Key, att' = [att EXCEPT ![k] = Prepared(att[k].n + 1)]
        PROVE  NativeTyped'
    <3>1. att[k].n + 1 \in Nat \ {0}
      BY DEF TInv, NativeTyped, AttemptRecord
    <3> QED BY <1>1, <2>2, <3>1, AttemptTyped DEF TInv, NativeTyped
  <2>3. NativeTyped'
    <3>1. CASE UNCHANGED att
      BY <1>1, <3>1 DEF TInv, NativeTyped
    <3> QED BY <1>5, <2>2, <3>1, UnparkCases
  <2> QED BY <1>2, <1>3, <2>1, <2>3 DEF TInv
<1> QED BY <1>4, <1>5

\* And so does what others do to the ledger and the tree.
LEMMA OthersTyped ==
  ASSUME TInv, Others \/ Commit \/ \E k \in Key : OrphanEnds(k)
  PROVE  TInv'
<1> USE ContinuationAssumption
<1>1. UNCHANGED <<journal, native, failures, backend>>
  BY DEF Others, Push, Checkout, Ask, Answer, Send, Commit, OrphanEnds, memory
<1>2. JournalTyped' /\ NativeTyped'
  BY <1>1 DEF TInv, JournalTyped, NativeTyped, journal, native
<1>3. ASSUME NEW r \in Req, Push(r)
      PROVE  TInv'
  <2>1. commits + 1 \in Head
    BY <1>3 DEF Push, TInv, LedgerTyped, Head
  <2>2. entry' \in EntryType
    <3>1. entry' = [entry EXCEPT ![r] = WithHead(@, commits + 1)]
      BY <1>3 DEF Push
    <3>2. [entry EXCEPT ![r] = WithHead(@, commits + 1)] \in EntryType
      <4>1. "build" \in Stages
        BY DEF Stages
      <4> QED BY <2>1, <4>1, EntryTyped DEF TInv, LedgerTyped
    <3> QED BY <3>1, <3>2
  <2>3. LedgerTyped' /\ MemoryTyped'
    BY <1>1, <1>3, <2>1, <2>2 DEF Push, TInv, LedgerTyped, MemoryTyped, Recalled
  <2>4. \A q \in Req : entry'[q].st = "awaiting authorization" => entry[q].st = "awaiting authorization"
    BY <1>3 DEF Push, WithHead, TInv, LedgerTyped, EntryType
  <2>5. UNCHANGED drivers
    BY <1>3 DEF Push
  <2> QED BY <1>2, <2>3, <2>4, <2>5, OtherStep DEF TInv
<1>4. ASSUME NEW r \in Req, NEW s \in {"implementation", "QA"}, Send(r, s)
      PROVE  TInv'
  <2>1. LedgerTyped' /\ MemoryTyped'
    BY <1>1, <1>4 DEF Send, TInv, LedgerTyped, EntryType, MemoryTyped, git
  <2>2. \A q \in Req : entry'[q].st = "awaiting authorization" => entry[q].st = "awaiting authorization"
    BY <1>4 DEF Send, TInv, LedgerTyped, EntryType
  <2>3. UNCHANGED drivers
    BY <1>4 DEF Send
  <2> QED BY <1>2, <2>1, <2>2, <2>3, OtherStep DEF TInv
<1>5. ASSUME NEW r \in Req, Checkout(r) \/ Ask(r) \/ Answer(r)
      PROVE  TInv'
  <2>1. LedgerTyped' /\ MemoryTyped'
    <3>1. UNCHANGED <<entry, memory, backend>> /\ tree' \in {tree, entry[r].head}
          /\ commits' = commits /\ asked' \subseteq asked \cup {r}
      BY <1>5 DEF Checkout, Ask, Answer, ledger, git
    <3>2. entry[r].head \in Head
      BY DEF TInv, LedgerTyped, EntryType
    <3> QED BY <3>1, <3>2 DEF TInv, LedgerTyped, MemoryTyped, memory
  <2>2. UNCHANGED <<drivers, entry>>
    BY <1>5 DEF Checkout, Ask, Answer, ledger
  <2> QED BY <1>2, <2>1, <2>2, OtherStep DEF TInv
<1>6. CASE Commit
  <2>1. LedgerTyped' /\ MemoryTyped'
    BY <1>6 DEF Commit, TInv, LedgerTyped, Head, MemoryTyped, ledger, memory
  <2>2. UNCHANGED <<drivers, entry>>
    BY <1>6 DEF Commit, ledger
  <2> QED BY <1>2, <2>1, <2>2, OtherStep DEF TInv
<1>7. ASSUME NEW k \in Key, OrphanEnds(k)
      PROVE  TInv'
  <2>1. LedgerTyped' /\ MemoryTyped' /\ DriversTyped' /\ LockHeld' /\ Dispatchable'
    BY <1>7 DEF OrphanEnds, TInv, LedgerTyped, MemoryTyped, DriversTyped, LockHeld, Dispatchable,
                ledger, git, memory
  <2> QED BY <1>2, <2>1 DEF TInv
<1> QED BY <1>3, <1>4, <1>5, <1>6, <1>7 DEF Others

\* Every step keeps the types.
LEMMA TypeStep == TInv /\ [Next]_vars => TInv'
<1> SUFFICES ASSUME TInv, [Next]_vars PROVE TInv'
  OBVIOUS
<1>1. ASSUME NEW a \in Handle, Host(a)
      PROVE  TInv'
  BY <1>1, HostTyped
<1>2. ASSUME NEW d \in Driver, Drive(d) \/ Crash(d)
      PROVE  TInv'
  BY <1>2, RunTyped, DispatchTyped, OutcomeTyped, FollowTyped DEF Drive
<1>3. CASE UnparkSaves \/ UnparkCrashes \/ \E r \in Req : Unpark(r)
  BY <1>3, UnparkTyped
<1>4. CASE Others \/ Commit \/ \E k \in Key : OrphanEnds(k)
  BY <1>4, OthersTyped
<1>5. CASE UNCHANGED vars
  BY <1>5 DEF TInv, LedgerTyped, JournalTyped, NativeTyped, DriversTyped, MemoryTyped, LockHeld,
              Dispatchable, vars, ledger, git, journal, native, drivers, memory
<1> QED BY <1>1, <1>2, <1>3, <1>4, <1>5 DEF Next

\* What the driver, the adapter and the worker backend keep is always well typed.
THEOREM ContinuationTypes == Spec => []TypeOK
<1>1. TInv => TypeOK
  BY DEF TInv, TypeOK, LedgerTyped, EntryType, JournalTyped, NativeTyped, AttemptRecord,
         DriversTyped, DriverRecord, MemoryTyped
<1> QED BY <1>1, TypeInit, TypeStep, PTL DEF Spec

-----------------------------------------------------------------------------
(* What was tested, what was counted and what was moved. *)

\* A verification stage that passed ended on the head it was asked to verify.
VerifiedAttempts ==
  \A k \in Key :
    att[k].st = "finalized" /\ k.stage # "build" => att[k].out = k.head /\ k \in passed

\* Without a native backend nobody makes attempts.
NoAttempts ==
  backend = "cli" => \A k \in Key : att[k].st = "absent"

\* With a native backend no stage runs as a child of the driver.
OwnChild ==
  \A d \in Driver : drv[d].pc = "working" => backend = "cli"

\* So did the one a driver has judged.
Judged ==
  \A d \in Driver : drv[d].pc \in {"judged", "credited"} =>
    /\ drv[d].job.stage # "build" => drv[d].out = drv[d].job.head /\ drv[d].job \in passed
    /\ backend = "native" => att[drv[d].job].st = "finalized"

\* While a stage runs, or is being judged, its request is not ahead of it: only a
\* driver with the run lock moves a request on beyond QA.
NotBefore(stage) ==
  IF stage = "review" THEN {"implementation", "QA", "review"} ELSE {"implementation", "QA"}

NotAhead ==
  \A d \in Driver : drv[d].pc \in {"working", "judged", "credited"} =>
    entry[drv[d].job.req].st \in NotBefore(drv[d].job.stage)

\* The states a request can be in on the head from which the stage moved it.
Later(stage) ==
  {"awaiting authorization"} \cup (IF stage = "review" THEN {} ELSE {"review"})
                             \cup (IF stage = "build" THEN {"QA"} ELSE {})

MovedOn ==
  \A k \in moved :
    /\ entry[k.req].head = k.head => entry[k.req].st \in Later(k.stage)
    /\ backend = "native" => att[k].st = "finalized"

\* An observation about a run is the one every reader of that run would make.
OwnName ==
  \A o \in failures : o.about # None => o = OfRun(o.about, "verdict")

SoundInv ==
  /\ TInv
  /\ VerifiedAttempts /\ NoAttempts /\ OwnChild /\ Judged /\ NotAhead
  /\ TestedHead /\ MovedOn /\ OwnName

\* It holds at the start.
LEMMA SoundInit == Init => SoundInv
<1> SUFFICES ASSUME Init PROVE SoundInv
  OBVIOUS
<1>1. TInv
  BY TypeInit
<1>2. /\ \A k \in Key : att[k].st = "absent"
      /\ \A d \in Driver : drv[d].pc = "off"
      /\ failures = {} /\ moved = {}
  BY DEF Init, Absent, Idle
<1>3. VerifiedAttempts /\ NoAttempts /\ OwnChild /\ Judged /\ NotAhead /\ MovedOn /\ OwnName
  BY <1>2 DEF VerifiedAttempts, NoAttempts, OwnChild, Judged, NotAhead, MovedOn, OwnName
<1>4. TestedHead
  <2>1. ASSUME NEW r \in Req
        PROVE  /\ entry[r].st \in {"implementation", "QA", "review"} /\ entry[r].head = 0
               /\ entry[r].st = "review" => [req |-> r, stage |-> "qa", head |-> 0] \in passed
    <3> DEFINE A == [st : {"implementation", "QA"}, head : {0}, proven : {{}}, fresh : {FALSE}]
               B == [st : {"review"}, head : {0}, proven : {{"qa"}}, fresh : {TRUE}]
    <3>1. entry[r] \in A \cup B
      BY DEF Init
    <3>2. passed = {[req |-> x, stage |-> "qa", head |-> 0] : x \in {q \in Req : entry[q].st = "review"}}
      BY DEF Init
    <3> QED BY <3>1, <3>2
  <2> QED BY <2>1 DEF TestedHead
<1> QED BY <1>1, <1>3, <1>4 DEF SoundInv

\* Only an outcome changes what the attempts and the passed keys say to the rest.
LEMMA OutcomesKept ==
  ASSUME SoundInv, UNCHANGED <<entry, drivers, backend, moved>>, passed \subseteq passed',
         \A k \in Key : att[k].st = "finalized" => att'[k] = att[k]
  PROVE  OwnChild' /\ Judged' /\ NotAhead' /\ TestedHead' /\ MovedOn'
<1>1. Judged'
  <2> SUFFICES ASSUME NEW d \in Driver, drv[d].pc \in {"judged", "credited"}
               PROVE  /\ drv[d].job.stage # "build" => drv[d].out = drv[d].job.head /\ drv[d].job \in passed'
                      /\ backend = "native" => att'[drv[d].job].st = "finalized"
    BY DEF Judged, drivers
  <2>1. drv[d].job \in Key
    BY DEF SoundInv, TInv, DriversTyped, Shape
  <2> QED BY <2>1 DEF SoundInv, Judged
<1>2. OwnChild' /\ NotAhead'
  BY DEF SoundInv, OwnChild, NotAhead, drivers
<1>3. TestedHead'
  BY DEF SoundInv, TestedHead
<1>4. MovedOn'
  BY DEF SoundInv, MovedOn, TInv, MemoryTyped
<1> QED BY <1>1, <1>2, <1>3, <1>4

\* What the host does keeps the invariant.
LEMMA HostSound ==
  ASSUME SoundInv, NEW a \in Handle, Host(a)
  PROVE  SoundInv'
<1> USE DEF SoundInv
<1>1. TInv'
  BY HostTyped
<1>2. UNCHANGED <<entry, drivers, backend, moved>>
  BY DEF Host, Launch, Bind, ObserveAndDie, Complete, memory, ledger
<1>3. \A o \in failures' \ failures : o.about # None => o = OfRun(o.about, "verdict")
  BY DEF Host, Launch, Bind, ObserveAndDie, Complete, memory, OfRun
<1>4. OwnName'
  BY <1>3 DEF OwnName
<1>5. passed \subseteq passed'
  BY DEF Host, Launch, Bind, ObserveAndDie, Complete, Settled, memory
<1>6. NativeTyped
  BY DEF TInv
<1>7. ASSUME ~\E ok, artifacts \in BOOLEAN : Complete(a, ok, artifacts)
      PROVE  VerifiedAttempts' /\ NoAttempts' /\ \A k \in Key : att[k].st = "finalized" => att'[k] = att[k]
  <2>1. \/ UNCHANGED att
        \/ \E k \in Key : att[k].st = "prepared"
                          /\ att' = [att EXCEPT ![k].st = "dispatched", ![k].by = a]
    BY <1>6, <1>7 DEF Host, Launch, Bind, ObserveAndDie, native, NativeTyped, Run
  <2>2. CASE UNCHANGED att
    BY <1>2, <1>5, <2>2 DEF VerifiedAttempts, NoAttempts
  <2>3. ASSUME NEW k \in Key, att[k].st = "prepared",
               att' = [att EXCEPT ![k].st = "dispatched", ![k].by = a]
        PROVE  VerifiedAttempts' /\ NoAttempts' /\ \A x \in Key : att[x].st = "finalized" => att'[x] = att[x]
    <3>1. att'[k].st = "dispatched" /\ \A x \in Key \ {k} : att'[x] = att[x]
      BY <1>6, <2>3 DEF NativeTyped, AttemptRecord
    <3> QED BY <1>2, <1>5, <2>3, <3>1 DEF VerifiedAttempts, NoAttempts
  <2> QED BY <2>1, <2>2, <2>3
<1>8. ASSUME NEW ok \in BOOLEAN, NEW artifacts \in BOOLEAN, Complete(a, ok, artifacts)
      PROVE  VerifiedAttempts' /\ NoAttempts' /\ \A k \in Key : att[k].st = "finalized" => att'[k] = att[k]
  <2> DEFINE k == task[a].key
             good == ok /\ Accepted(k, tree, artifacts)
  <2>1. k \in Key /\ att[k].st = "dispatched"
    BY <1>6, <1>8 DEF Complete, NativeTyped, Run
  <2>2. /\ att'[k].st = (IF good THEN "finalized" ELSE "blocked") /\ att'[k].out = tree
        /\ \A x \in Key \ {k} : att'[x] = att[x]
        /\ good /\ tree = k.head => k \in passed'
    BY <1>6, <1>8, <2>1 DEF Complete, Settled, NativeTyped, AttemptRecord
  <2>3. good /\ k.stage # "build" => tree = k.head
    BY DEF Accepted
  <2> HIDE DEF k, good
  <2>4. VerifiedAttempts'
    BY <1>5, <2>1, <2>2, <2>3 DEF VerifiedAttempts
  <2>5. NoAttempts'
    BY <1>2, <2>1 DEF NoAttempts
  <2> QED BY <2>1, <2>2, <2>4, <2>5
<1>9. VerifiedAttempts' /\ NoAttempts' /\ \A k \in Key : att[k].st = "finalized" => att'[k] = att[k]
  BY <1>7, <1>8
<1> QED BY <1>1, <1>2, <1>4, <1>5, <1>9, OutcomesKept

\* So does unparking: it replaces an attempt only where that failed.
LEMMA UnparkSound ==
  ASSUME SoundInv, UnparkSaves \/ UnparkCrashes \/ \E r \in Req : Unpark(r)
  PROVE  SoundInv'
<1> USE DEF SoundInv
<1>1. TInv'
  BY UnparkTyped
<1>2. UNCHANGED <<entry, drivers, backend, memory>>
  BY UnparkCases DEF UnparkSaves, UnparkCrashes, ledger
<1>3. \/ UNCHANGED att
      \/ \E k \in Key : att[k].st = "blocked" /\ att' = [att EXCEPT ![k] = Prepared(att[k].n + 1)]
  BY UnparkCases DEF UnparkSaves, UnparkCrashes, native
<1>4. OwnName' /\ passed \subseteq passed'
  BY <1>2 DEF OwnName, memory
<1>5. VerifiedAttempts' /\ NoAttempts' /\ \A k \in Key : att[k].st = "finalized" => att'[k] = att[k]
  <2>1. CASE UNCHANGED att
    BY <1>2, <2>1 DEF VerifiedAttempts, NoAttempts, memory
  <2>2. ASSUME NEW k \in Key, att[k].st = "blocked", att' = [att EXCEPT ![k] = Prepared(att[k].n + 1)]
        PROVE  VerifiedAttempts' /\ NoAttempts' /\ \A x \in Key : att[x].st = "finalized" => att'[x] = att[x]
    <3>1. att'[k].st = "prepared" /\ \A x \in Key \ {k} : att'[x] = att[x]
      BY <2>2 DEF TInv, NativeTyped, Prepared
    <3> QED BY <1>2, <2>2, <3>1 DEF VerifiedAttempts, NoAttempts, memory
  <2> QED BY <1>3, <2>1, <2>2
<1> QED BY <1>1, <1>2, <1>4, <1>5, OutcomesKept DEF memory

\* What others do to the ledger and the tree takes a request back, or to a new head.
LEMMA OthersSound ==
  ASSUME SoundInv, Others \/ Commit \/ \E k \in Key : OrphanEnds(k)
  PROVE  SoundInv'
<1> USE DEF SoundInv
<1>1. TInv'
  BY OthersTyped
<1>2. UNCHANGED <<native, drv, backend, failures, passed>>
  BY DEF Others, Push, Checkout, Ask, Answer, Send, Commit, OrphanEnds, memory, drivers
<1>3. VerifiedAttempts' /\ NoAttempts' /\ OwnChild' /\ Judged' /\ OwnName'
  BY <1>2 DEF VerifiedAttempts, NoAttempts, OwnChild, Judged, OwnName, native
<1>4. ASSUME UNCHANGED <<entry, moved>>
      PROVE  NotAhead' /\ TestedHead' /\ MovedOn'
  BY <1>2, <1>4 DEF NotAhead, TestedHead, MovedOn, native
<1>5. ASSUME NEW r \in Req, Push(r)
      PROVE  NotAhead' /\ TestedHead' /\ MovedOn'
  <2>1. /\ \A q \in Req \ {r} : entry'[q] = entry[q]
        /\ entry'[r] = entry[r] \/ entry'[r].st = "implementation"
        /\ entry'[r].head = commits + 1
        /\ entry[r].head = commits + 1 => entry'[r] = entry[r]
    BY <1>5 DEF Push, WithHead, TInv, LedgerTyped, EntryType
  <2>2. \A k \in moved' : k \in moved /\ (k.req = r => entry[r].head = commits + 1 \/ k.head # commits + 1)
    BY <1>5 DEF Push, Recalled
  <2>3. NotAhead'
    <3>1. ASSUME NEW d \in Driver, drv[d].pc \in {"working", "judged", "credited"}
          PROVE  entry'[drv[d].job.req].st \in NotBefore(drv[d].job.stage)
      <4>1. drv[d].job.req \in Req
        BY <3>1 DEF TInv, DriversTyped, Shape, Key
      <4> QED BY <2>1, <3>1, <4>1 DEF NotAhead, NotBefore
    <3> QED BY <1>2, <3>1 DEF NotAhead
  <2>4. TestedHead'
    <3>1. \A q \in Req : entry'[q] = entry[q] \/ entry'[q].st = "implementation"
      BY <2>1
    <3> QED BY <1>2, <3>1 DEF TestedHead
  <2>5. MovedOn'
    <3>1. ASSUME NEW k \in moved'
          PROVE  entry'[k.req].head = k.head => entry'[k.req].st \in Later(k.stage)
      <4>1. k \in moved /\ k.req \in Req
        BY <2>2, <3>1 DEF TInv, MemoryTyped, Key
      <4>2. CASE k.req = r
        BY <2>1, <2>2, <3>1, <4>1, <4>2 DEF MovedOn
      <4>3. CASE k.req # r
        BY <2>1, <4>1, <4>3 DEF MovedOn
      <4> QED BY <4>2, <4>3
    <3> QED BY <1>2, <2>2, <3>1 DEF MovedOn, native
  <2> QED BY <2>3, <2>4, <2>5
<1>6. ASSUME NEW r \in Req, NEW s \in {"implementation", "QA"}, Send(r, s)
      PROVE  NotAhead' /\ TestedHead' /\ MovedOn'
  <2>1. /\ \A q \in Req \ {r} : entry'[q] = entry[q]
        /\ entry'[r].st \in {"implementation", "QA"}
        /\ moved' = {k \in moved : k.req # r}
    BY <1>6 DEF Send, TInv, LedgerTyped, EntryType
  <2>2. NotAhead'
    <3>1. ASSUME NEW d \in Driver, drv[d].pc \in {"working", "judged", "credited"}
          PROVE  entry'[drv[d].job.req].st \in NotBefore(drv[d].job.stage)
      <4>1. drv[d].job.req \in Req
        BY <3>1 DEF TInv, DriversTyped, Shape, Key
      <4> QED BY <2>1, <3>1, <4>1 DEF NotAhead, NotBefore
    <3> QED BY <1>2, <3>1 DEF NotAhead
  <2>3. TestedHead'
    BY <1>2, <2>1 DEF TestedHead
  <2>4. MovedOn'
    <3>1. \A k \in moved : k.req \in Req
      BY DEF TInv, MemoryTyped, Key
    <3> QED BY <1>2, <2>1, <3>1 DEF MovedOn, native
  <2> QED BY <2>2, <2>3, <2>4
<1>7. NotAhead' /\ TestedHead' /\ MovedOn'
  <2>1. (\E r \in Req : Checkout(r) \/ Ask(r) \/ Answer(r)) \/ Commit \/ (\E k \in Key : OrphanEnds(k))
          => UNCHANGED <<entry, moved>>
    BY DEF Checkout, Ask, Answer, Commit, OrphanEnds, ledger, memory
  <2> QED BY <1>4, <1>5, <1>6, <2>1 DEF Others
<1> QED BY <1>1, <1>3, <1>7

\* A step that leaves the driver with no verdict of its own, and the rest alone.
LEMMA IdleSound ==
  ASSUME SoundInv, TInv', NEW d \in Driver, \A e \in Driver \ {d} : drv'[e] = drv[e],
         drv'[d].pc \notin {"working", "judged", "credited"},
         UNCHANGED <<entry, backend, moved>>, passed \subseteq passed', OwnName',
         VerifiedAttempts', NoAttempts',
         \A k \in Key : att[k].st = "finalized" => att'[k] = att[k]
  PROVE  SoundInv'
<1> USE DEF SoundInv
<1>1. Judged'
  <2>1. ASSUME NEW e \in Driver, drv'[e].pc \in {"judged", "credited"}
        PROVE  /\ drv'[e].job.stage # "build" => drv'[e].out = drv'[e].job.head /\ drv'[e].job \in passed'
               /\ backend = "native" => att'[drv'[e].job].st = "finalized"
    <3>1. drv'[e] = drv[e]
      BY <2>1
    <3>2. drv[e].job \in Key
      BY <2>1, <3>1 DEF TInv, DriversTyped, Shape
    <3> QED BY <2>1, <3>1, <3>2 DEF Judged
  <2> QED BY <2>1 DEF Judged
<1>2. OwnChild' /\ NotAhead'
  BY DEF OwnChild, NotAhead
<1>3. TestedHead'
  BY DEF TestedHead
<1>4. MovedOn'
  BY DEF MovedOn, TInv, MemoryTyped
<1> QED BY <1>1, <1>2, <1>3, <1>4

\* What a driver that becomes rec looks like afterwards.
LEMMA BecomeFields ==
  ASSUME TInv, NEW d \in Driver, NEW rec, Become(d, rec)
  PROVE  drv'[d] = rec /\ \A e \in Driver \ {d} : drv'[e] = drv[e]
BY DEF Become, TInv, DriversTyped

\* Nor do the steps of a driver around the stages.
LEMMA RunFields ==
  ASSUME TInv, NEW d \in Driver,
         \/ Construct(d) \/ Start(d) \/ End(d) \/ Crash(d) \/ \E r \in Req : Consider(d, r)
         \/ Leave(d) \/ StageDone(d) \/ Park(d)
  PROVE  /\ \A e \in Driver \ {d} : drv'[e] = drv[e]
         /\ drv'[d].pc \notin {"working", "judged", "credited"}
<1>0. drv[d] \in DriverRecord
  BY DEF TInv, DriversTyped
<1>1. drv \in [Driver -> DriverRecord]
  BY DEF TInv, DriversTyped
<1>2. CASE Construct(d) \/ End(d) \/ Crash(d)
  <2>1. Become(d, Idle) \/ Become(d, [Idle EXCEPT !.pc = "built", !.copy = disk])
    BY <1>2 DEF Construct, End, Crash
  <2>2. Idle.pc = "off" /\ [Idle EXCEPT !.pc = "built", !.copy = disk].pc = "built"
    BY DEF Idle
  <2> QED BY <2>1, <2>2, BecomeFields
<1>3. CASE Start(d)
  <2>1. CASE lock = None
    <3> DEFINE rec == [drv[d] EXCEPT !.pc = "loop", !.active = {r \in Req : ~drv[d].copy[r].parked}]
    <3>1. Become(d, rec)
      BY <1>3, <2>1 DEF Start
    <3>2. rec.pc = "loop"
      BY <1>0 DEF DriverRecord
    <3> QED BY <3>1, <3>2, BecomeFields
  <2>2. CASE lock # None
    <3>1. Become(d, Idle) /\ Idle.pc = "off"
      BY <1>3, <2>2 DEF Start, Idle
    <3> QED BY <3>1, BecomeFields
  <2> QED BY <2>1, <2>2
<1>4. ASSUME NEW r \in Req, Consider(d, r)
      PROVE  /\ \A e \in Driver \ {d} : drv'[e] = drv[e]
             /\ drv'[d].pc \notin {"working", "judged", "credited"}
  <2> DEFINE over == [drv[d] EXCEPT !.copy = Parked(@, r), !.active = @ \ {r}]
             next == [drv[d] EXCEPT !.pc = "step",
                        !.seen = [req |-> r, stage |-> StageOf(entry[r].st),
                                  head |-> entry[r].head]]
  <2>1. drv[d].pc = "loop" /\ (Become(d, over) \/ Become(d, next))
    BY <1>4 DEF Consider
  <2>2. over.pc = "loop" /\ next.pc = "step"
    BY <1>0, <2>1 DEF DriverRecord
  <2> HIDE DEF over, next
  <2>3. PICK rec : Become(d, rec) /\ rec.pc \in {"loop", "step"}
    BY <2>1, <2>2
  <2> QED BY <2>3, BecomeFields
<1>5. CASE Leave(d)
  BY <1>0, <1>1, <1>5 DEF Leave, Become, DriverRecord
<1>6. CASE StageDone(d)
  BY <1>0, <1>1, <1>6 DEF StageDone, Become, DriverRecord
<1>7. CASE Park(d)
  BY <1>0, <1>1, <1>7 DEF Park, Become, DriverRecord
<1> QED BY <1>2, <1>3, <1>4, <1>5, <1>6, <1>7

\* The steps of a driver around the stages.
LEMMA RunSound ==
  ASSUME SoundInv, NEW d \in Driver,
         \/ Construct(d) \/ Start(d) \/ End(d) \/ Crash(d) \/ \E r \in Req : Consider(d, r)
         \/ Leave(d) \/ StageDone(d) \/ Park(d)
  PROVE  SoundInv'
<1> USE DEF SoundInv
<1>1. TInv'
  BY RunTyped, DispatchTyped, FollowTyped
<1>2. UNCHANGED <<entry, native, backend, passed, moved>>
  BY DEF Construct, Start, End, Crash, Consider, Leave, StageDone, Park, ledger, memory
<1>3. VerifiedAttempts' /\ NoAttempts' /\ \A k \in Key : att[k].st = "finalized" => att'[k] = att[k]
  BY <1>2 DEF VerifiedAttempts, NoAttempts, native
<1>4. drv[d] \in DriverRecord
  BY DEF TInv, DriversTyped
<1>5. /\ \A e \in Driver \ {d} : drv'[e] = drv[e]
      /\ drv'[d].pc \notin {"working", "judged", "credited"}
  BY RunFields
<1>6. OwnName'
  <2>1. CASE Park(d)
    <3>1. Shape(drv[d]) /\ drv[d].pc = "stepped" /\ drv[d].res.status \in {"blocked", "error"}
      BY <2>1 DEF Park, TInv, DriversTyped
    <3>2. Observed(d).about # None => Observed(d) = OfRun(Observed(d).about, "verdict")
      BY <3>1 DEF Observed, OfRun, OfDispatch, Shape
    <3> QED BY <2>1, <3>2 DEF Park, OwnName
  <2>2. CASE ~Park(d)
    <3>1. UNCHANGED failures
      BY <2>2 DEF Construct, Start, End, Crash, Consider, Leave, StageDone, memory
    <3> QED BY <3>1 DEF OwnName
  <2> QED BY <2>1, <2>2
<1> QED BY <1>1, <1>2, <1>3, <1>5, <1>6, IdleSound

\* A returned outcome carries no verdict.
LEMMA ReturnedFields ==
  ASSUME TInv, NEW d \in Driver, NEW status, NEW run, NEW fault
  PROVE  Returned(d, status, run, fault).pc = "stepped"
BY DEF Returned, TInv, DriversTyped, DriverRecord

\* What is true of the drivers that a step of another one leaves as they are.
LEMMA OthersJudged ==
  ASSUME SoundInv, NEW d \in Driver, drv[d].pc \notin {"off", "built"},
         \A e \in Driver \ {d} : drv'[e] = drv[e]
  PROVE  \A e \in Driver \ {d} : drv'[e].pc \in {"off", "built"}
BY HeldByOne, ContinuationAssumption DEF SoundInv, TInv

\* A step dispatches the stage its request is at, and takes up a finalized attempt.
LEMMA EvaluateSound ==
  ASSUME SoundInv, NEW d \in Driver, Evaluate(d)
  PROVE  SoundInv'
<1> USE DEF SoundInv
<1> DEFINE k == KeyOf(d)
<1>1. TInv'
  BY DispatchTyped
<1>2. /\ k \in Key /\ k.req \in Req /\ k.stage = StageOf(entry[k.req].st)
      /\ entry[k.req].st \in {"implementation", "QA", "review"}
  <2>1. k \in Key /\ entry[Request(d)].st # "awaiting authorization"
    BY EvaluateCases
  <2>2. k.req = Request(d) /\ k.stage = StageOf(entry[Request(d)].st) /\ k.req \in Req
    BY <2>1 DEF KeyOf, Key
  <2> QED BY <2>1, <2>2 DEF TInv, LedgerTyped, EntryType
<1>3. UNCHANGED <<entry, backend, memory>>
  BY EvaluateCases DEF ledger
<1>4. OwnName' /\ UNCHANGED <<moved, passed>>
  BY <1>3 DEF OwnName, memory
<1>5. \/ UNCHANGED att
      \/ backend = "native" /\ att[k].n = 0 /\ att' = [att EXCEPT ![k] = Prepared(1)]
  BY EvaluateCases
<1>6. VerifiedAttempts' /\ NoAttempts' /\ \A x \in Key : att[x].st = "finalized" => att'[x] = att[x]
  <2>1. CASE UNCHANGED att
    BY <1>3, <1>4, <2>1 DEF VerifiedAttempts, NoAttempts
  <2>2. CASE backend = "native" /\ att[k].n = 0 /\ att' = [att EXCEPT ![k] = Prepared(1)]
    <3>1. att[k].st = "absent" /\ att'[k].st = "prepared" /\ \A x \in Key \ {k} : att'[x] = att[x]
      BY <1>2, <2>2 DEF TInv, NativeTyped, Prepared
    <3> HIDE DEF k
    <3> QED BY <1>2, <1>3, <1>4, <2>2, <3>1 DEF VerifiedAttempts, NoAttempts
  <2> QED BY <1>5, <2>1, <2>2
<1>7. drv[d] \in DriverRecord /\ drv[d].pc = "step"
  BY DEF TInv, DriversTyped, Evaluate
<1>8. PICK rec : /\ Become(d, rec)
                 /\ \/ rec.pc = "stepped"
                    \/ /\ rec.pc = "judged" /\ rec.job = k /\ rec.out = att[k].out
                       /\ backend = "native" /\ att[k].st = "finalized"
                    \/ rec.pc = "working" /\ rec.job = k /\ backend = "cli"
  <2> DEFINE judged == [drv[d] EXCEPT !.pc = "judged", !.job = k, !.out = att[k].out]
             working == [drv[d] EXCEPT !.pc = "working", !.job = k]
  <2>1. judged.pc = "judged" /\ judged.job = k /\ judged.out = att[k].out
    BY <1>7 DEF DriverRecord
  <2>2. working.pc = "working" /\ working.job = k
    BY <1>7 DEF DriverRecord
  <2>3. CASE \E status, run, fault : Become(d, Returned(d, status, run, fault))
    BY <2>3, ReturnedFields
  <2>4. CASE backend = "native" /\ att[k].st = "finalized" /\ Become(d, judged)
    <3> HIDE DEF judged
    <3> QED BY <2>1, <2>4
  <2>5. CASE backend = "cli" /\ Become(d, working)
    <3> HIDE DEF working
    <3> QED BY <2>2, <2>5
  <2> QED BY <2>3, <2>4, <2>5, EvaluateCases
<1>9. drv'[d] = rec /\ \A e \in Driver \ {d} : drv'[e] = drv[e]
  BY <1>8, BecomeFields
<1> HIDE DEF k
<1>10. \A e \in Driver \ {d} : drv'[e].pc \in {"off", "built"}
  BY <1>7, <1>9, OthersJudged
<1>11. Judged'
  BY <1>2, <1>3, <1>4, <1>6, <1>8, <1>9, <1>10 DEF Judged, VerifiedAttempts
<1>12. OwnChild' /\ NotAhead'
  BY <1>2, <1>3, <1>8, <1>9, <1>10, StageTyped DEF OwnChild, NotAhead, NotBefore
<1>13. TestedHead'
  BY <1>3, <1>4 DEF TestedHead
<1>14. MovedOn'
  BY <1>3, <1>4, <1>6 DEF MovedOn, TInv, MemoryTyped
<1> QED BY <1>1, <1>4, <1>6, <1>11, <1>12, <1>13, <1>14

\* What a request becomes when a passed stage advances it.
LEMMA AdvancedFields ==
  ASSUME entry \in EntryType, NEW r \in Req, NEW h \in Head, NEW s \in Stages
  PROVE  /\ Advanced(entry[r], s, h).st = StageAfter[s] /\ Advanced(entry[r], s, h).head = h
         /\ CanAdvance(entry[r], s, h) =>
              \/ entry[r].head = h /\ entry[r].st = StageAfter[s]
              \/ entry[r].head = h /\ <<entry[r].st, StageAfter[s]>> \in Graph
              \/ entry[r].head # h /\ s = "build"
<1> DEFINE Q == [st : {"implementation", "QA", "review", "awaiting authorization"},
                 head : Head, proven : SUBSET Stages, fresh : BOOLEAN]
<1>1. entry[r] \in Q
  BY DEF EntryType
<1>2. WithHead(entry[r], h) \in Q /\ WithHead(entry[r], h).head = h
  BY <1>1 DEF WithHead
<1>3. ASSUME NEW q \in Q, NEW x \in {"QA", "review", "awaiting authorization"}
      PROVE  /\ [q EXCEPT !.proven = @ \cup {s}, !.st = x].st = x
             /\ [q EXCEPT !.proven = @ \cup {s}, !.st = x].head = q.head
  OBVIOUS
<1>4. StageAfter[s] \in {"QA", "review", "awaiting authorization"}
  BY AfterTyped
<1>5. Advanced(entry[r], s, h).st = StageAfter[s] /\ Advanced(entry[r], s, h).head = h
  BY <1>2, <1>3, <1>4 DEF Advanced
<1>6. ASSUME CanAdvance(entry[r], s, h), entry[r].head = h
      PROVE  entry[r].st = StageAfter[s] \/ <<entry[r].st, StageAfter[s]>> \in Graph
  BY <1>6 DEF CanAdvance, WithHead
<1>7. ASSUME CanAdvance(entry[r], s, h), entry[r].head # h
      PROVE  s = "build"
  <2>1. WithHead(entry[r], h).st = "implementation"
    BY <1>1, <1>7 DEF WithHead
  <2>2. StageAfter[s] # "implementation"
    BY <1>4
  <2>3. <<"implementation", StageAfter[s]>> \in Graph
    BY <1>7, <2>1, <2>2 DEF CanAdvance
  <2>4. StageAfter[s] = "QA"
    BY <2>3, <1>4 DEF Graph
  <2> QED BY <2>4, AfterTyped DEF Stages
<1> QED BY <1>5, <1>6, <1>7

\* The end of a worker: what passed ended on the head it was given.
LEMMA WorkerEndsSound ==
  ASSUME SoundInv, NEW d \in Driver, NEW ok \in BOOLEAN, NEW artifacts \in BOOLEAN,
         WorkerEnds(d, ok, artifacts)
  PROVE  SoundInv'
<1> USE DEF SoundInv
<1> DEFINE k == drv[d].job
<1>1. TInv'
  BY OutcomeTyped
<1>2. UNCHANGED <<entry, native, backend, failures, moved>> /\ drv[d].pc = "working"
  BY DEF WorkerEnds, ledger
<1>3. drv[d] \in DriverRecord /\ k \in Key
  BY <1>2 DEF TInv, DriversTyped, Shape
<1>4. passed \subseteq passed' /\ OwnName'
  BY <1>2 DEF WorkerEnds, OwnName
<1>5. VerifiedAttempts' /\ NoAttempts' /\ \A x \in Key : att[x].st = "finalized" => att'[x] = att[x]
  BY <1>2, <1>4 DEF VerifiedAttempts, NoAttempts, native
<1>6. CASE ok /\ Accepted(k, tree, artifacts)
  <2> DEFINE rec == [drv[d] EXCEPT !.pc = "judged", !.out = tree]
  <2>1. Become(d, rec)
    BY <1>6 DEF WorkerEnds
  <2>2. rec.pc = "judged" /\ rec.job = k /\ rec.out = tree
    BY <1>3 DEF DriverRecord
  <2>3. drv'[d] = rec /\ \A e \in Driver \ {d} : drv'[e] = drv[e]
    BY <2>1, BecomeFields
  <2>4. \A e \in Driver \ {d} : drv'[e].pc \in {"off", "built"}
    BY <1>2, <2>3, OthersJudged
  <2> HIDE DEF rec
  <2>5. k.stage # "build" => tree = k.head /\ k \in passed'
    BY <1>6 DEF Accepted, WorkerEnds
  <2>6. backend = "cli"
    BY <1>2 DEF OwnChild
  <2>7. OwnChild' /\ Judged'
    BY <1>2, <2>2, <2>3, <2>4, <2>5, <2>6 DEF OwnChild, Judged
  <2>8. NotAhead'
    BY <1>2, <2>2, <2>3, <2>4 DEF NotAhead
  <2>9. TestedHead' /\ MovedOn'
    BY <1>2, <1>4 DEF TestedHead, MovedOn, native
  <2> QED BY <1>1, <1>4, <1>5, <2>7, <2>8, <2>9
<1>7. CASE ~(ok /\ Accepted(k, tree, artifacts))
  <2>1. Become(d, Returned(d, "blocked", None, "verdict"))
    BY <1>7 DEF WorkerEnds
  <2>2. drv'[d].pc = "stepped" /\ \A e \in Driver \ {d} : drv'[e] = drv[e]
    BY <2>1, BecomeFields, ReturnedFields
  <2> QED BY <1>1, <1>2, <1>4, <1>5, <2>2, IdleSound
<1> QED BY <1>6, <1>7

\* A judged stage that is not advanced, or not yet.
LEMMA AppliedSound ==
  ASSUME SoundInv, NEW d \in Driver, PublishFails(d) \/ Reopen(d) \/ Credit(d)
  PROVE  SoundInv'
<1> USE DEF SoundInv
<1> DEFINE k == drv[d].job
<1>1. TInv'
  BY OutcomeTyped
<1>2. UNCHANGED <<native, backend, failures, passed>> /\ drv[d].pc = "judged"
  BY DEF PublishFails, Reopen, Credit, memory
<1>3. drv[d] \in DriverRecord /\ k \in Key /\ k.req \in Req
  BY <1>2 DEF TInv, DriversTyped, Shape, Key
<1>4. OwnName' /\ VerifiedAttempts' /\ NoAttempts'
  BY <1>2 DEF OwnName, VerifiedAttempts, NoAttempts, native
<1>5. CASE PublishFails(d)
  <2>1. UNCHANGED <<entry, moved>> /\ Become(d, Returned(d, "blocked", None, "publish"))
    BY <1>5 DEF PublishFails, ledger, memory
  <2>2. drv'[d].pc = "stepped" /\ \A e \in Driver \ {d} : drv'[e] = drv[e]
    BY <2>1, BecomeFields, ReturnedFields
  <2> QED BY <1>1, <1>2, <1>4, <2>1, <2>2, IdleSound DEF native
<1>6. CASE Reopen(d)
  <2>1. Become(d, Returned(d, "blocked", None, "reopened"))
    BY <1>6 DEF Reopen
  <2>2. drv'[d].pc = "stepped" /\ \A e \in Driver \ {d} : drv'[e] = drv[e]
    BY <2>1, BecomeFields, ReturnedFields
  <2>3. \A e \in Driver \ {d} : drv'[e].pc \in {"off", "built"}
    BY <1>2, <2>2, OthersJudged
  <2>4. OwnChild' /\ Judged' /\ NotAhead'
    BY <2>2, <2>3 DEF OwnChild, Judged, NotAhead
  <2>5. /\ \A q \in Req \ {k.req} : entry'[q] = entry[q]
        /\ entry'[k.req].st = "implementation"
        /\ moved' = {m \in moved : m.req # k.req}
    BY <1>3, <1>6 DEF Reopen, TInv, LedgerTyped, EntryType
  <2> HIDE DEF k
  <2>6. TestedHead'
    BY <1>2, <2>5 DEF TestedHead
  <2>7. \A m \in moved : m.req \in Req
    BY DEF TInv, MemoryTyped, Key
  <2>8. MovedOn'
    BY <1>2, <2>5, <2>7 DEF MovedOn, native
  <2> QED BY <1>1, <1>4, <2>4, <2>6, <2>8
<1>7. CASE Credit(d)
  <2> DEFINE rec == [drv[d] EXCEPT !.pc = "credited"]
  <2>1. Become(d, rec)
    BY <1>7 DEF Credit
  <2>2. rec.pc = "credited" /\ rec.job = k /\ rec.out = drv[d].out
    BY <1>3 DEF DriverRecord
  <2>3. drv'[d] = rec /\ \A e \in Driver \ {d} : drv'[e] = drv[e]
    BY <2>1, BecomeFields
  <2> HIDE DEF rec
  <2>4. \A e \in Driver \ {d} : drv'[e].pc \in {"off", "built"}
    BY <1>2, <2>3, OthersJudged
  <2>5. \A q \in Req : entry'[q].st = entry[q].st /\ entry'[q].head = entry[q].head
    BY <1>3, <1>7 DEF Credit, TInv, LedgerTyped, EntryType
  <2>6. UNCHANGED moved
    BY <1>7 DEF Credit, memory
  <2>7. OwnChild' /\ Judged'
    BY <1>2, <2>2, <2>3, <2>4 DEF OwnChild, Judged, native
  <2>8. NotAhead'
    BY <1>2, <1>3, <2>2, <2>3, <2>4, <2>5 DEF NotAhead
  <2>9. TestedHead'
    BY <1>2, <2>5 DEF TestedHead
  <2>10. \A m \in moved : m.req \in Req
    BY DEF TInv, MemoryTyped, Key
  <2>11. MovedOn'
    BY <1>2, <2>5, <2>6, <2>10 DEF MovedOn, native
  <2> QED BY <1>1, <1>4, <2>7, <2>8, <2>9, <2>11
<1> QED BY <1>5, <1>6, <1>7

\* A request moves on from a stage that passed on its head; from another head, only a
\* build takes it further.
LEMMA AdvanceSound ==
  ASSUME SoundInv, NEW d \in Driver, NEW synced \in BOOLEAN, Advance(d, synced)
  PROVE  SoundInv'
<1> USE DEF SoundInv
<1> DEFINE k == drv[d].job
           h == drv[d].out
<1>1. TInv'
  BY OutcomeTyped
<1>2. /\ UNCHANGED <<native, backend, failures, passed>>
      /\ drv[d].pc \in {"judged", "credited"} /\ k \in Key /\ h \in Head
      /\ k.req \in Req /\ k.stage \in Stages
  BY AdvanceCases
<1>3. OwnName' /\ VerifiedAttempts' /\ NoAttempts'
  BY <1>2 DEF OwnName, VerifiedAttempts, NoAttempts, native
<1>4. drv'[d].pc = "stepped" /\ \A e \in Driver \ {d} : drv'[e] = drv[e]
  <2>1. \E status, fault : Become(d, Returned(d, status, None, fault))
    BY AdvanceCases
  <2> QED BY <2>1, BecomeFields, ReturnedFields
<1>5. CASE UNCHANGED <<entry, moved>>
  BY <1>1, <1>2, <1>3, <1>4, <1>5, IdleSound DEF native
<1>6. CASE ~UNCHANGED <<entry, moved>>
  <2>1. /\ CanAdvance(entry[k.req], k.stage, h)
        /\ entry' = [entry EXCEPT ![k.req] = Advanced(entry[k.req], k.stage, h)]
        /\ moved' = Recalled(k.req, h) \cup {k}
    BY <1>6, AdvanceCases
  <2>2. /\ k.stage # "build" => h = k.head /\ k \in passed
        /\ backend = "native" => att[k].st = "finalized"
        /\ entry[k.req].st \in NotBefore(k.stage)
    BY <1>2 DEF Judged, NotAhead
  <2> HIDE DEF k, h
  <2>3. entry \in EntryType
    BY DEF TInv, LedgerTyped
  <2>4. /\ entry'[k.req].st = StageAfter[k.stage] /\ entry'[k.req].head = h
        /\ \A q \in Req \ {k.req} : entry'[q] = entry[q]
    <3>1. /\ entry'[k.req] = Advanced(entry[k.req], k.stage, h)
          /\ \A q \in Req \ {k.req} : entry'[q] = entry[q]
      BY <1>2, <2>1, <2>3 DEF EntryType
    <3>2. /\ Advanced(entry[k.req], k.stage, h).st = StageAfter[k.stage]
          /\ Advanced(entry[k.req], k.stage, h).head = h
      <4>1. \A r \in Req, g \in Head, s \in Stages :
              Advanced(entry[r], s, g).st = StageAfter[s] /\ Advanced(entry[r], s, g).head = g
        BY <2>3, AdvancedFields
      <4>2. k.req \in Req /\ h \in Head /\ k.stage \in Stages
        BY <1>2
      <4> QED BY <4>1, <4>2
    <3> QED BY <3>1, <3>2
  <2>5. \/ entry[k.req].head = h /\ entry[k.req].st = StageAfter[k.stage]
        \/ entry[k.req].head = h /\ <<entry[k.req].st, StageAfter[k.stage]>> \in Graph
        \/ entry[k.req].head # h /\ k.stage = "build"
    BY <1>2, <2>1, <2>3, AdvancedFields
  <2>6. \A e \in Driver \ {d} : drv'[e].pc \in {"off", "built"}
    BY <1>2, <1>4, OthersJudged
  <2>7. OwnChild' /\ Judged' /\ NotAhead'
    BY <1>4, <2>6 DEF OwnChild, Judged, NotAhead
  <2>8. k.stage \in {"build", "qa", "review"}
    BY <1>2 DEF Stages
  <2>9. TestedHead'
    <3>1. ASSUME NEW r \in Req, r # k.req
          PROVE  /\ entry'[r].st \in {"review", "awaiting authorization"} =>
                      [req |-> r, stage |-> "qa", head |-> entry'[r].head] \in passed'
                 /\ entry'[r].st = "awaiting authorization" =>
                      [req |-> r, stage |-> "review", head |-> entry'[r].head] \in passed'
      BY <1>2, <2>4, <3>1 DEF TestedHead
    <3>2. k = [req |-> k.req, stage |-> k.stage, head |-> k.head]
      BY <1>2 DEF Key
    <3>3. CASE k.stage = "build"
      <4>1. entry'[k.req].st = "QA"
        BY <2>4, <3>3, AfterTyped
      <4> QED BY <3>1, <4>1 DEF TestedHead
    <3>4. CASE k.stage = "qa"
      <4>1. entry'[k.req].st = "review" /\ entry'[k.req].head = k.head /\ k \in passed'
        BY <1>2, <2>2, <2>4, <3>4, AfterTyped
      <4>2. [req |-> k.req, stage |-> "qa", head |-> entry'[k.req].head] = k
        BY <3>2, <3>4, <4>1
      <4> QED BY <3>1, <4>1, <4>2 DEF TestedHead
    <3>5. CASE k.stage = "review"
      <4>1. entry'[k.req].head = k.head /\ k \in passed' /\ entry[k.req].head = k.head
        BY <1>2, <2>2, <2>4, <2>5, <3>5
      <4>2. entry[k.req].st \in {"review", "awaiting authorization"}
        BY <2>5, <3>5, AfterTyped DEF Graph
      <4>3. [req |-> k.req, stage |-> "review", head |-> entry'[k.req].head] = k
        BY <3>2, <3>5, <4>1
      <4>4. [req |-> k.req, stage |-> "qa", head |-> entry'[k.req].head] \in passed'
        BY <1>2, <4>1, <4>2 DEF TestedHead
      <4> QED BY <3>1, <4>1, <4>3, <4>4 DEF TestedHead
    <3> QED BY <2>8, <3>3, <3>4, <3>5
  <2>10. MovedOn'
    <3>1. ASSUME NEW m \in moved', entry'[m.req].head = m.head
          PROVE  entry'[m.req].st \in Later(m.stage)
      <4>1. CASE m = k
        BY <2>4, <2>8, <4>1, AfterTyped DEF Later
      <4>2. CASE m # k /\ m.req # k.req
        <5>1. m \in moved /\ m.req \in Req
          BY <2>1, <3>1, <4>2 DEF Recalled, TInv, MemoryTyped, Key
        <5> QED BY <2>4, <3>1, <4>2, <5>1 DEF MovedOn
      <4>3. CASE m # k /\ m.req = k.req
        <5>1. m \in moved /\ m.head = h /\ entry[k.req].head = h
          <6>1. m \in moved /\ (entry[k.req].head = h \/ <<m.req, m.head>> # <<k.req, h>>)
            BY <2>1, <4>3 DEF Recalled
          <6> QED BY <2>4, <3>1, <4>3, <6>1
        <5>2. entry[k.req].st \in Later(m.stage)
          BY <4>3, <5>1 DEF MovedOn
        <5>3. CASE entry[k.req].st = StageAfter[k.stage]
          BY <2>4, <4>3, <5>2, <5>3
        <5>4. CASE <<entry[k.req].st, StageAfter[k.stage]>> \in Graph
          BY <2>2, <2>4, <2>8, <4>3, <5>2, <5>4, AfterTyped DEF Later, NotBefore, Graph
        <5> QED BY <2>5, <5>1, <5>3, <5>4
      <4> QED BY <4>1, <4>2, <4>3
    <3>2. ASSUME NEW m \in moved', backend' = "native"
          PROVE  att'[m].st = "finalized"
      BY <1>2, <2>1, <2>2, <3>2 DEF Recalled, MovedOn, native
    <3> QED BY <3>1, <3>2 DEF MovedOn
  <2> QED BY <1>1, <1>3, <2>7, <2>9, <2>10
<1> QED BY <1>5, <1>6

\* Every step keeps the invariant.
LEMMA SoundStep == SoundInv /\ [Next]_vars => SoundInv'
<1> SUFFICES ASSUME SoundInv, [Next]_vars PROVE SoundInv'
  OBVIOUS
<1>1. ASSUME NEW a \in Handle, Host(a)
      PROVE  SoundInv'
  BY <1>1, HostSound
<1>2. ASSUME NEW d \in Driver, Drive(d) \/ Crash(d)
      PROVE  SoundInv'
  BY <1>2, RunSound, EvaluateSound, WorkerEndsSound, AppliedSound, AdvanceSound DEF Drive
<1>3. CASE UnparkSaves \/ UnparkCrashes \/ \E r \in Req : Unpark(r)
  BY <1>3, UnparkSound
<1>4. CASE Others \/ Commit \/ \E k \in Key : OrphanEnds(k)
  BY <1>4, OthersSound
<1>5. CASE UNCHANGED vars
  <2>1. TInv'
    BY <1>5, TypeStep DEF SoundInv
  <2> QED BY <1>5, <2>1 DEF SoundInv, VerifiedAttempts, NoAttempts, OwnChild, Judged, NotAhead,
                 TestedHead, MovedOn, OwnName, vars, ledger, native, drivers, memory
<1> QED BY <1>1, <1>2, <1>3, <1>4, <1>5 DEF Next

\* It always holds.
LEMMA SoundInvariant == Spec => []SoundInv
BY SoundInit, SoundStep, PTL DEF Spec

\* verify_and_advance_request brings to review only what a QA run tested on that very
\* head, and to the authorization only what was also reviewed on it (TestedHead),
\* whatever was pushed, committed or checked out while the workers ran.
THEOREM ReviewedWasTested == Spec => []TestedHead
BY SoundInvariant, PTL DEF SoundInv

\* The recurrence guard counts a failed native attempt once (FailureCountedOnce): the
\* worker that reports it, the driver that reads it and the one that reads it again
\* name it alike.
THEOREM FailuresCountOnce == Spec => []FailureCountedOnce
<1>1. SoundInv => FailureCountedOnce
  BY DEF SoundInv, OwnName, FailureCountedOnce
<1> QED BY <1>1, SoundInvariant, PTL

\* What a step may make of an attempt.
LEMMA AttemptStep ==
  ASSUME TInv, Next, NEW k \in Key
  PROVE  \/ att'[k] = att[k]
         \/ att[k].st \in {"prepared", "dispatched"} /\ att'[k].n = att[k].n
         \/ att[k].st = "blocked" /\ att'[k] = Prepared(att[k].n + 1)
         \/ att[k].st = "absent" /\ \E d \in Driver : Evaluate(d) /\ KeyOf(d) = k
<1> USE DEF TInv, NativeTyped
<1>1. ASSUME NEW a \in Handle, Host(a)
      PROVE  att'[k] = att[k] \/ (att[k].st \in {"prepared", "dispatched"} /\ att'[k].n = att[k].n)
  <2>1. CASE (\E x \in Key : Launch(a, x)) \/ ObserveAndDie(a)
    BY <2>1 DEF Launch, ObserveAndDie, native
  <2>2. CASE Bind(a)
    <3>1. task[a].key \in Key
      BY <2>2 DEF Bind, Run
    <3>2. \/ UNCHANGED att
          \/ /\ att[task[a].key].st = "prepared"
             /\ att' = [att EXCEPT ![task[a].key].st = "dispatched", ![task[a].key].by = a]
      BY <2>2 DEF Bind
    <3> QED BY <3>1, <3>2 DEF AttemptRecord
  <2>3. ASSUME NEW ok \in BOOLEAN, NEW artifacts \in BOOLEAN, Complete(a, ok, artifacts)
        PROVE  att'[k] = att[k] \/ (att[k].st \in {"prepared", "dispatched"} /\ att'[k].n = att[k].n)
    <3>1. task[a].key \in Key /\ att[task[a].key].st = "dispatched"
      BY <2>3 DEF Complete, Run
    <3>2. PICK s : att' = [att EXCEPT ![task[a].key].st = s, ![task[a].key].out = tree]
      BY <2>3 DEF Complete, Settled
    <3> QED BY <3>1, <3>2 DEF AttemptRecord
  <2> QED BY <1>1, <2>1, <2>2, <2>3 DEF Host
<1>2. ASSUME NEW d \in Driver, Drive(d) \/ Crash(d)
      PROVE  att'[k] = att[k] \/ (att[k].st = "absent" /\ Evaluate(d) /\ KeyOf(d) = k)
  <2>1. CASE Evaluate(d)
    BY <2>1, EvaluateCases
  <2>2. CASE ~Evaluate(d)
    <3>1. UNCHANGED att
      BY <1>2, <2>2 DEF Drive, Crash, Construct, Start, End, Consider, WorkerEnds, PublishFails,
                        Reopen, Credit, Advance, Leave, StageDone, Park, native
    <3> QED BY <3>1
  <2> QED BY <2>1, <2>2
<1>3. CASE UnparkSaves \/ UnparkCrashes
  BY <1>3 DEF UnparkSaves, UnparkCrashes, native
<1>4. ASSUME NEW r \in Req, Unpark(r)
      PROVE  att'[k] = att[k] \/ (att[k].st = "blocked" /\ att'[k] = Prepared(att[k].n + 1))
  BY <1>4, UnparkCases
<1>5. CASE Others \/ Commit \/ \E x \in Key : OrphanEnds(x)
  BY <1>5 DEF Others, Push, Checkout, Ask, Answer, Send, Commit, OrphanEnds, native
<1> QED BY <1>1, <1>2, <1>3, <1>4, <1>5 DEF Next

\* Only the step of the adapter begins a stage as a child, that of the request's key.
LEMMA ChildStep ==
  ASSUME TInv, Next, NEW d \in Driver, drv'[d].pc = "working", drv[d].pc # "working"
  PROVE  Evaluate(d) /\ drv'[d].job = KeyOf(d)
<1>1. PICK e \in Driver : Drive(e) \/ Crash(e)
  <2>1. UNCHANGED drv \/ \E e \in Driver : Drive(e) \/ Crash(e)
    BY DEF Next, Host, Launch, Bind, ObserveAndDie, Complete, UnparkSaves, UnparkCrashes,
           Unpark, Others, Push, Checkout, Ask, Answer, Send, Commit, OrphanEnds, drivers
  <2> QED BY <2>1
<1>2. drv[e] \in DriverRecord /\ drv \in [Driver -> DriverRecord]
  BY DEF TInv, DriversTyped
<1>3. CASE \/ Construct(e) \/ Start(e) \/ End(e) \/ Crash(e) \/ \E r \in Req : Consider(e, r)
           \/ Leave(e) \/ StageDone(e) \/ Park(e)
  BY <1>3, RunFields
<1>4. ASSUME NEW rec, Become(e, rec), rec.pc # "working"
      PROVE  FALSE
  BY <1>4, BecomeFields
<1>5. ASSUME NEW status, NEW run, NEW fault, Become(e, Returned(e, status, run, fault))
      PROVE  FALSE
  BY <1>4, <1>5, ReturnedFields
<1>6. ASSUME NEW ok \in BOOLEAN, NEW artifacts \in BOOLEAN, WorkerEnds(e, ok, artifacts)
      PROVE  FALSE
  <2> DEFINE rec == [drv[e] EXCEPT !.pc = "judged", !.out = tree]
  <2>1. rec.pc = "judged"
    BY <1>2 DEF DriverRecord
  <2>2. Become(e, rec) \/ Become(e, Returned(e, "blocked", None, "verdict"))
    BY <1>6 DEF WorkerEnds
  <2> HIDE DEF rec
  <2> QED BY <1>4, <1>5, <2>1, <2>2
<1>7. CASE PublishFails(e) \/ Reopen(e) \/ Credit(e)
  <2> DEFINE rec == [drv[e] EXCEPT !.pc = "credited"]
  <2>1. rec.pc = "credited"
    BY <1>2 DEF DriverRecord
  <2>2. \/ Become(e, Returned(e, "blocked", None, "publish"))
        \/ Become(e, Returned(e, "blocked", None, "reopened")) \/ Become(e, rec)
    BY <1>7 DEF PublishFails, Reopen, Credit
  <2> HIDE DEF rec
  <2> QED BY <1>4, <1>5, <2>1, <2>2
<1>8. ASSUME NEW synced \in BOOLEAN, Advance(e, synced)
      PROVE  FALSE
  BY <1>5, <1>8, AdvanceCases
<1>9. CASE Evaluate(e)
  <2> DEFINE judged == [drv[e] EXCEPT !.pc = "judged", !.job = KeyOf(e), !.out = att[KeyOf(e)].out]
             working == [drv[e] EXCEPT !.pc = "working", !.job = KeyOf(e)]
  <2>1. judged.pc = "judged" /\ working.job = KeyOf(e)
    BY <1>2 DEF DriverRecord
  <2>2. Become(e, judged) \/ Become(e, working)
    BY <1>5, <1>9, EvaluateCases
  <2> HIDE DEF judged, working
  <2>3. Become(e, working)
    BY <1>4, <2>1, <2>2
  <2> QED BY <1>9, <2>1, <2>3, BecomeFields
<1> QED BY <1>1, <1>3, <1>6, <1>7, <1>8, <1>9 DEF Drive

\* The stage a step is about to dispatch is not one that moved its request on.
LEMMA NotMovedOn ==
  ASSUME SoundInv, NEW d \in Driver, Evaluate(d)
  PROVE  KeyOf(d) \notin moved
<1>1. KeyOf(d) \in Key /\ entry[Request(d)].st # "awaiting authorization"
  BY EvaluateCases DEF SoundInv
<1>2. /\ KeyOf(d).req = Request(d) /\ KeyOf(d).head = entry[Request(d)].head
      /\ KeyOf(d).stage = StageOf(entry[Request(d)].st)
  BY DEF KeyOf
<1>3. entry[Request(d)].st \in {"implementation", "QA", "review"}
  BY <1>1, <1>2 DEF SoundInv, TInv, LedgerTyped, EntryType, Key
<1>4. KeyOf(d) \in moved => entry[Request(d)].st \in Later(KeyOf(d).stage)
  BY <1>2 DEF SoundInv, MovedOn
<1> QED BY <1>2, <1>3, <1>4, StageTyped DEF Later

\* A recorded outcome of worker_backend.py is final: only a failed attempt is followed
\* by another, the next one (OutcomeSettled).
THEOREM OutcomesAreSettled == Spec => OutcomeSettled
<1>1. ASSUME TInv, [Next]_vars, NEW k \in Key, Terminal(k), att'[k] # att[k]
      PROVE  att[k].st = "blocked" /\ att'[k] = Prepared(att[k].n + 1)
  <2>1. Next
    BY <1>1 DEF vars, native
  <2> QED BY <1>1, <2>1, AttemptStep DEF Terminal
<1>2. TInv /\ [Next]_vars => [\A k \in Key : Terminal(k) /\ att'[k] # att[k] =>
                               att[k].st = "blocked" /\ att'[k] = Prepared(att[k].n + 1)]_vars
  BY <1>1
<1> QED BY <1>2, TypeInit, TypeStep, PTL DEF Spec, OutcomeSettled

\* A stage that moved its request on from a head is neither prepared again nor begun
\* again there while the head stays and nobody sends the request back
\* (StageNotRepeated), with any journal, lost, stale or unparked.
THEOREM StagesAreNotRepeated == Spec => StageNotRepeated
<1>1. ASSUME SoundInv, Next, NEW k \in moved
      PROVE  att'[k].n = att[k].n
  <2>1. /\ k \in Key
        /\ backend = "native" => att[k].st = "finalized"
        /\ backend = "cli" => att[k].st = "absent"
        /\ backend \in {"native", "cli"}
    BY <1>1, ContinuationAssumption
       DEF SoundInv, MovedOn, NoAttempts, TInv, MemoryTyped, LedgerTyped
  <2>2. att[k].st \in {"finalized", "absent"}
    BY <2>1
  <2> QED BY <1>1, <2>1, <2>2, AttemptStep, NotMovedOn DEF SoundInv
<1>2. ASSUME SoundInv, Next, NEW k \in moved, NEW d \in Driver,
             drv'[d].pc = "working", drv'[d].job = k
      PROVE  drv[d].pc = "working"
  BY <1>2, ChildStep, NotMovedOn DEF SoundInv
<1>3. SoundInv /\ [Next]_vars =>
        [\A k \in moved :
           /\ att'[k].n = att[k].n
           /\ \A d \in Driver : drv'[d].pc = "working" /\ drv'[d].job = k => drv[d].pc = "working"]_vars
  BY <1>1, <1>2
<1> QED BY <1>3, SoundInvariant, PTL DEF Spec, StageNotRepeated
===============================================================================
