----------------------------- MODULE Continuation -----------------------------
(***************************************************************************)
(* The continuation driver (workflows/portable/continuation_driver.py), the*)
(* adapter step it repeats (superboard_adapter.py) and the worker backend  *)
(* the step dispatches to (worker_backend.py).                             *)
(* A driver reads its journal when it is constructed, takes the run lock   *)
(* when it starts and writes the journal at a few points of the run. A     *)
(* stage runs as a child of the driver ("cli") or as a background task of  *)
(* the host ("native"), recorded attempt by attempt in files of its own.   *)
(* All workers share one git tree. Commits are numbered as they come about.*)
(***************************************************************************)
EXTENDS Naturals, FiniteSets

CONSTANTS
  Req,          \* the authorized requests
  Driver,       \* driver processes
  Handle,       \* task handles of the host
  Backend,      \* the backends the workers may be configured for
  MaxCommit,    \* bound on the commits
  MaxRuns,      \* bound on the runs started
  MaxEdits,     \* bound on what others do to the ledger, and on mishaps
  MaxUnparks,   \* bound on unpark commands
  MaxCrashes,   \* bound on crashes
  None

Head == 0 .. MaxCommit
Stages == {"build", "qa", "review"}
Key == [req : Req, stage : Stages, head : Head]
Run == [key : Key, n : Nat]      \* a native run id: the attempt n of a key

ASSUME ContinuationAssumption ==
  /\ Backend \subseteq {"native", "cli"}
  /\ {MaxCommit, MaxRuns, MaxEdits, MaxUnparks, MaxCrashes} \subseteq Nat
  /\ None \notin Driver \cup Handle \cup Key \cup Run

VARIABLES
  entry,      \* the ledger: state, head, stages proven on the head, criteria fresh on it
  tree,       \* HEAD of the repository
  commits,    \* the latest commit
  asked,      \* requests with an open decision
  disk,       \* the journal file: per request parked, inflight, completed stages
  att,        \* the current native attempt of every key
  task,       \* background tasks: the run each handle works on
  drv,        \* drivers
  lock,       \* the holder of the run lock
  orphans,    \* builds of cli workers that outlived their driver: the keys
  clerk,      \* the unpark command: the journal it read
  failures,   \* observations of the recurrence guard
  passed,     \* keys of which a worker began and ended on the head it claims
  moved,      \* keys whose pass moved the ledger, until the request is sent back or
              \* its head comes back to theirs from another
  budget,     \* what is left of the bounds
  backend     \* the configured backend; it stays

ledger == <<entry, asked>>
git == <<tree, commits>>
journal == <<disk, clerk>>
native == <<att, task>>
drivers == <<drv, lock, orphans>>
memory == <<failures, passed, moved>>

vars == <<ledger, git, journal, native, drivers, memory, budget, backend>>

Journal ==
  [Req -> [parked : BOOLEAN, inflight : Run \cup {None}, done : SUBSET (Stages \X Head)]]

Idle == [pc |-> "off", copy |-> None, active |-> {}, seen |-> None,
         job |-> None, out |-> None, res |-> None]

Spend(f) == budget[f] > 0 /\ budget' = [budget EXCEPT ![f] = @ - 1]

-----------------------------------------------------------------------------
(* The ledger's rules, as far as a driver meets them. *)

StageOf(s) ==
  CASE s = "implementation" -> "build" [] s = "QA" -> "qa" [] s = "review" -> "review"

StageAfter == [build |-> "QA", qa |-> "review", review |-> "awaiting authorization"]

Graph ==
  {<<"implementation", "QA">>, <<"QA", "review">>, <<"QA", "implementation">>,
   <<"review", "awaiting authorization">>, <<"review", "QA">>, <<"review", "implementation">>,
   <<"awaiting authorization", "implementation">>}

\* Mutant of WithHead: a request that is being verified stays where it is.
WithHeadStaying(q, h) ==
  IF h = q.head THEN q ELSE [q EXCEPT !.head = h, !.proven = {}, !.fresh = FALSE]

WithHead(q, h) ==
  IF h = q.head THEN q
  ELSE [q EXCEPT !.head = h, !.proven = {}, !.fresh = FALSE, !.st = "implementation"]

\* The update that ends a passed stage: the head, the evidence and the move in one
\* call, which is refused as a whole.
Advanced(q, stage, h) ==
  [WithHead(q, h) EXCEPT !.proven = @ \cup {stage}, !.st = StageAfter[stage]]

CanAdvance(q, stage, h) ==
  LET w == WithHead(q, h) IN
  \/ w.st = StageAfter[stage]
  \/ /\ <<w.st, StageAfter[stage]>> \in Graph
     /\ stage # "build" => w.fresh

\* What is left of moved when the head of request r becomes h.
Recalled(r, h) ==
  {k \in moved : entry[r].head = h \/ <<k.req, k.head>> # <<r, h>>}

-----------------------------------------------------------------------------
(* Native attempts. *)

Attempt(k, n) == [key |-> k, n |-> n]
Absent == [n |-> 0, st |-> "absent", by |-> None, out |-> None]
Prepared(n) == [n |-> n, st |-> "prepared", by |-> None, out |-> None]
Terminal(k) == att[k].st \in {"finalized", "blocked"}

\* _validate_result, on a truthful worker that says it passed: a build made a commit
\* or an artifact, a verification stage left HEAD where the request has it.
Accepted(k, head, artifacts) ==
  IF k.stage = "build" THEN head # k.head \/ artifacts ELSE head = k.head

\* A failure is remembered under an identity. That of a native attempt is its run;
\* any other has the ordinal of the dispatch, which is never seen again.
\* "about" is the run that failed, where there is one.
OfRun(run, fault) ==
  [req |-> run.key.req, stage |-> run.key.stage, fault |-> fault, id |-> 0, about |-> run]
OfDispatch(seen, fault, about) ==
  [req |-> seen.req, stage |-> seen.stage, fault |-> fault,
   id |-> Cardinality(failures) + 1, about |-> about]

\* check_retry refuses only when two observations of a stage share a fault. It need
\* not: the fault of a verdict names the head it was found on, and a proven correction
\* opens the gate again (module Recurrence). What is asked of the guard here holds
\* whichever it answers.
MayRefuse(r) ==
  \E o, p \in failures :
    o # p /\ o.req = r /\ p.req = r /\ o.stage = p.stage /\ o.fault = p.fault

\* The host launches a background task for a prepared attempt ...
Launch(a, k) ==
  /\ task[a] = None /\ att[k].st = "prepared"
  /\ task' = [task EXCEPT ![a] = Attempt(k, att[k].n)]
  /\ UNCHANGED <<ledger, git, journal, drivers, memory, backend, att, budget>>

\* ... and binds its handle: record_native_dispatch. The task of a refused one goes.
Bind(a) ==
  LET k == task[a].key IN
  /\ task[a] # None /\ att[k].by # a
  /\ IF att[k].n = task[a].n /\ att[k].st = "prepared" /\ tree = k.head
     THEN /\ att' = [att EXCEPT ![k].st = "dispatched", ![k].by = a]
          /\ UNCHANGED task
     ELSE /\ task' = [task EXCEPT ![a] = None]
          /\ UNCHANGED att
  /\ UNCHANGED <<ledger, git, journal, drivers, memory, budget, backend>>

\* A build commits in the tree: a task, the child of a driver or an orphan.
Building ==
  \/ \E a \in Handle : task[a] # None /\ task[a].key.stage = "build"
  \/ \E d \in Driver : drv[d].pc = "working" /\ drv[d].job.stage = "build"
  \/ orphans # {}

Commit ==
  /\ Building
  /\ commits < MaxCommit
  /\ commits' = commits + 1 /\ tree' = commits + 1
  /\ UNCHANGED <<ledger, journal, native, drivers, memory, backend, budget>>

Settled(a, good) ==
  LET k == task[a].key IN
  /\ att' = [att EXCEPT ![k].st = IF good THEN "finalized" ELSE "blocked", ![k].out = tree]
  /\ task' = [task EXCEPT ![a] = None]
  /\ passed' = IF good /\ tree = k.head THEN passed \cup {k} ELSE passed

\* Mutant of Complete: any task of the attempt may complete it, and again.
CompleteAgain(a, ok, artifacts) ==
  LET good == ok /\ Accepted(task[a].key, tree, artifacts) IN
  /\ task[a] # None
  /\ att[task[a].key].n = task[a].n
  /\ Settled(a, good)
  /\ failures' = IF good THEN failures ELSE failures \cup {OfRun(task[a], "verdict")}
  /\ UNCHANGED <<ledger, git, journal, drivers, moved, budget, backend>>

\* complete_native, by the bound task; what any other sends is refused, and a
\* terminal record answers without a change.
Complete(a, ok, artifacts) ==
  LET good == ok /\ Accepted(task[a].key, tree, artifacts) IN
  /\ task[a] # None
  /\ LET now == att[task[a].key] IN now.n = task[a].n /\ now.by = a /\ now.st = "dispatched"
  /\ Settled(a, good)
  /\ failures' = IF good THEN failures ELSE failures \cup {OfRun(task[a], "verdict")}
  /\ UNCHANGED <<ledger, git, journal, drivers, moved, budget, backend>>

\* A failure is observed before the record is written: the host may die in between,
\* and will complete the attempt again.
ObserveAndDie(a) ==
  /\ task[a] # None /\ att[task[a].key].by = a /\ Spend("crashes")
  /\ failures' = failures \cup {OfRun(task[a], "verdict")}
  /\ UNCHANGED <<ledger, git, journal, native, drivers, passed, moved, backend>>

-----------------------------------------------------------------------------
(* A driver: its start, and what it parks without a step. *)

Become(d, rec) == drv' = [drv EXCEPT ![d] = rec]
Request(d) == drv[d].seen.req
Parked(J, r) == [J EXCEPT ![r].parked = TRUE]

Construct(d) ==
  /\ drv[d].pc = "off" /\ Spend("runs")
  /\ Become(d, [Idle EXCEPT !.pc = "built", !.copy = disk])
  /\ UNCHANGED <<ledger, git, journal, native, memory, backend, lock, orphans>>

Start(d) ==
  /\ drv[d].pc = "built"
  /\ IF lock = None
     THEN /\ lock' = d
          /\ Become(d, [drv[d] EXCEPT !.pc = "loop",
                                      !.active = {r \in Req : ~drv[d].copy[r].parked}])
     ELSE /\ Become(d, Idle)
          /\ UNCHANGED lock
  /\ UNCHANGED <<ledger, git, journal, native, memory, backend, orphans, budget>>

\* What keeps a request from being dispatched by this run.
Undrivable(d, r) ==
  \/ entry[r].st = "awaiting authorization"
  \/ <<StageOf(entry[r].st), entry[r].head>> \in drv[d].copy[r].done
  \/ r \in asked

Consider(d, r) ==
  /\ drv[d].pc = "loop" /\ r \in drv[d].active
  /\ \E refused \in BOOLEAN :
       /\ refused => MayRefuse(r)
       /\ Become(d, IF refused \/ Undrivable(d, r)
                    THEN [drv[d] EXCEPT !.copy = Parked(@, r), !.active = @ \ {r}]
                    ELSE [drv[d] EXCEPT !.pc = "step",
                            !.seen = [req |-> r, stage |-> StageOf(entry[r].st),
                                      head |-> entry[r].head]])
  /\ UNCHANGED <<ledger, git, journal, native, memory, backend, lock, orphans, budget>>

\* The end of a run: nothing is left to drive, the step ceiling, or a signal.
End(d) ==
  /\ drv[d].pc = "loop"
  /\ disk' = drv[d].copy
  /\ lock' = None
  /\ Become(d, Idle)
  /\ UNCHANGED <<ledger, git, native, memory, backend, orphans, clerk, budget>>

-----------------------------------------------------------------------------
(* One step of the adapter: it reads the ledger again, dispatches, and applies *)
(* the outcome.                                                               *)

Returned(d, status, run, fault) ==
  [drv[d] EXCEPT !.pc = "stepped", !.job = None, !.out = None,
                 !.res = [status |-> status, run |-> run, fault |-> fault]]

\* prepare_native: the current attempt of the key, or a first one.
Native(d, k) ==
  LET run == Attempt(k, att[k].n) IN
  CASE att[k].n = 0 /\ tree = k.head ->
         /\ att' = [att EXCEPT ![k] = Prepared(1)]
         /\ Become(d, Returned(d, "pending", Attempt(k, 1), None))
    [] att[k].n = 0 /\ tree # k.head ->
         /\ Become(d, Returned(d, "blocked", None, "tree")) /\ UNCHANGED att
    [] att[k].st \in {"prepared", "dispatched"} ->
         /\ Become(d, Returned(d, "pending", run, None)) /\ UNCHANGED att
    [] att[k].st = "blocked" ->
         /\ Become(d, Returned(d, "blocked", run, "verdict")) /\ UNCHANGED att
    [] att[k].st = "finalized" ->
         /\ Become(d, [drv[d] EXCEPT !.pc = "judged", !.job = k, !.out = att[k].out])
         /\ UNCHANGED att

Evaluate(d) ==
  LET r == Request(d)
      k == [req |-> r, stage |-> StageOf(entry[r].st), head |-> entry[r].head] IN
  /\ drv[d].pc = "step"
  /\ CASE r \in asked ->
            Become(d, Returned(d, "blocked", None, "decision")) /\ UNCHANGED att
       [] r \notin asked /\ backend = "native" -> Native(d, k)
       [] r \notin asked /\ backend = "cli" ->
            /\ Become(d, IF tree = k.head THEN [drv[d] EXCEPT !.pc = "working", !.job = k]
                         ELSE Returned(d, "blocked", None, "tree"))
            /\ UNCHANGED att
  /\ UNCHANGED <<ledger, git, journal, memory, backend, task, lock, orphans, budget>>

\* execute: the child ends or is timed out, and its result is judged.
WorkerEnds(d, ok, artifacts) ==
  LET k == drv[d].job IN
  /\ drv[d].pc = "working"
  /\ Become(d, IF ok /\ Accepted(k, tree, artifacts)
               THEN [drv[d] EXCEPT !.pc = "judged", !.out = tree]
               ELSE Returned(d, "blocked", None, "verdict"))
  /\ passed' = IF ok /\ tree = k.head THEN passed \cup {k} ELSE passed
  /\ UNCHANGED <<ledger, git, journal, native, backend, lock, orphans, failures, moved, budget>>

\* verify_and_advance_request. A step that applies nothing: the report could not be
\* published, or the reproduced bug goes back.
PublishFails(d) ==
  /\ drv[d].pc = "judged" /\ Spend("edits")
  /\ Become(d, Returned(d, "blocked", None, "publish"))
  /\ UNCHANGED <<ledger, git, journal, native, memory, backend, lock, orphans>>

Reopen(d) ==
  LET r == drv[d].job.req IN
  /\ drv[d].pc = "judged" /\ drv[d].job.stage = "qa" /\ Spend("edits")
  /\ entry' = [entry EXCEPT ![r].st = "implementation"]
  /\ moved' = {k \in moved : k.req # r}
  /\ Become(d, Returned(d, "blocked", None, "reopened"))
  /\ UNCHANGED <<git, journal, native, backend, asked, lock, orphans, failures, passed>>

\* A passed QA run credits the criteria first, on the head the ledger names by then.
Credit(d) ==
  LET r == drv[d].job.req IN
  /\ drv[d].pc = "judged" /\ drv[d].job.stage = "qa"
  /\ entry' = [entry EXCEPT ![r].fresh = TRUE]
  /\ Become(d, [drv[d] EXCEPT !.pc = "credited"])
  /\ UNCHANGED <<git, journal, native, memory, backend, asked, lock, orphans, budget>>

\* The update; one the ledger refuses makes the step raise. The board may refuse its
\* part of a step the ledger has taken.
Advance(d, synced) ==
  LET k == drv[d].job
      q == entry[k.req] IN
  /\ drv[d].pc = IF k # None /\ k.stage = "qa" THEN "credited" ELSE "judged"
  /\ IF CanAdvance(q, k.stage, drv[d].out)
     THEN /\ entry' = [entry EXCEPT ![k.req] = Advanced(q, k.stage, drv[d].out)]
          /\ moved' = Recalled(k.req, drv[d].out) \cup {k}
          /\ Become(d, IF synced THEN Returned(d, "advanced", None, None)
                       ELSE Returned(d, "blocked", None, "board"))
     ELSE /\ Become(d, Returned(d, "error", None, "raised"))
          /\ UNCHANGED <<entry, moved>>
  /\ IF synced THEN UNCHANGED budget ELSE Spend("edits")
  /\ UNCHANGED <<git, journal, native, backend, asked, lock, orphans, failures, passed>>

-----------------------------------------------------------------------------
(* What the driver makes of the step. *)

\* Native work is outstanding: it is journalled, and the run leaves it.
Leave(d) ==
  LET r == Request(d)
      J == [drv[d].copy EXCEPT ![r].inflight = drv[d].res.run] IN
  /\ drv[d].pc = "stepped" /\ drv[d].res.status = "pending"
  /\ disk' = J
  /\ Become(d, [drv[d] EXCEPT !.pc = "loop", !.copy = J, !.active = @ \ {r},
                              !.seen = None, !.res = None])
  /\ UNCHANGED <<ledger, git, native, memory, backend, lock, orphans, clerk, budget>>

\* The stage is complete; the journal is written, and a request that now awaits its
\* authorization is parked after that.
StageDone(d) ==
  LET r == Request(d)
      J == [drv[d].copy EXCEPT ![r].inflight = None,
                               ![r].done = @ \cup {<<drv[d].seen.stage, drv[d].seen.head>>}]
      last == entry[r].st = "awaiting authorization" IN
  /\ drv[d].pc = "stepped" /\ drv[d].res.status = "advanced"
  /\ disk' = J
  /\ Become(d, [drv[d] EXCEPT !.pc = "loop", !.copy = IF last THEN Parked(J, r) ELSE J,
                              !.active = IF last THEN @ \ {r} ELSE @,
                              !.seen = None, !.res = None])
  /\ UNCHANGED <<ledger, git, native, memory, backend, lock, orphans, clerk, budget>>

\* Mutant of Observed: the driver counts the failed attempt under its own name.
ObservedAnew(d) == OfDispatch(drv[d].seen, drv[d].res.fault, drv[d].res.run)

Observed(d) ==
  IF drv[d].res.run # None THEN OfRun(drv[d].res.run, drv[d].res.fault)
  ELSE OfDispatch(drv[d].seen, drv[d].res.fault, None)

\* A failure is remembered and parked; the journal is written at the end of the run.
Park(d) ==
  LET r == Request(d) IN
  /\ drv[d].pc = "stepped" /\ drv[d].res.status \in {"blocked", "error"}
  /\ failures' = failures \cup {Observed(d)}
  /\ Become(d, [drv[d] EXCEPT !.pc = "loop", !.copy = Parked(@, r), !.active = @ \ {r},
                              !.seen = None, !.res = None])
  /\ UNCHANGED <<ledger, git, journal, native, backend, lock, orphans, passed, moved, budget>>

\* The lock goes with the process; the child of a cli step stays.
Crash(d) ==
  /\ drv[d].pc # "off" /\ Spend("crashes")
  /\ Become(d, Idle)
  /\ lock' = IF lock = d THEN None ELSE lock
  /\ orphans' = IF drv[d].pc = "working" /\ drv[d].job.stage = "build"
                THEN orphans \cup {drv[d].job} ELSE orphans
  /\ UNCHANGED <<ledger, git, journal, native, memory, backend>>

OrphanEnds(k) ==
  /\ k \in orphans /\ orphans' = orphans \ {k}
  /\ UNCHANGED <<ledger, git, journal, native, memory, backend, drv, lock, budget>>

-----------------------------------------------------------------------------
(* --unpark: read the journal, prepare the retry, write the journal back. *)

\* Mutant of RetryAccepted: whatever the current attempt is, it is replaced.
RetryAcceptedBlind(run) == tree = run.key.head

\* retry_native on the run the journal names. The recurrence guard may refuse it too.
RetryAccepted(run) ==
  LET k == run.key IN
  IF att[k].n # run.n THEN att[k].st = "prepared"
  ELSE att[k].st = "blocked" /\ tree = k.head

Retry(run) ==
  LET k == run.key IN
  IF att[k].st = "prepared" THEN UNCHANGED att
  ELSE att' = [att EXCEPT ![k] = Prepared(att[k].n + 1)]

\* Nobody asks whether the request is parked: the run of one that is not is retried
\* as well.
Unpark(r) ==
  LET run == disk[r].inflight IN
  /\ clerk = None /\ Spend("unparks")
  /\ IF run = None THEN UNCHANGED att ELSE RetryAccepted(run) /\ Retry(run)
  /\ clerk' = [disk EXCEPT ![r].parked = FALSE, ![r].inflight = None]
  /\ UNCHANGED <<ledger, git, drivers, memory, backend, disk, task>>

UnparkSaves ==
  /\ clerk # None
  /\ disk' = clerk /\ clerk' = None
  /\ UNCHANGED <<ledger, git, native, drivers, memory, backend, budget>>

UnparkCrashes ==
  /\ clerk # None /\ Spend("crashes")
  /\ clerk' = None
  /\ UNCHANGED <<ledger, git, native, drivers, memory, backend, disk>>

-----------------------------------------------------------------------------
(* Others: a push, a request taken back or forward, a checkout, a question. *)

Push(r) ==
  /\ commits < MaxCommit /\ Spend("edits")
  /\ commits' = commits + 1
  /\ entry' = [entry EXCEPT ![r] = WithHead(@, commits + 1)]
  /\ moved' = Recalled(r, commits + 1)
  /\ UNCHANGED <<journal, native, drivers, failures, passed, backend, tree, asked>>

Send(r, s) ==
  /\ s \in {"implementation", "QA"} /\ <<entry[r].st, s>> \in Graph /\ Spend("edits")
  /\ entry' = [entry EXCEPT ![r].st = s]
  /\ moved' = {k \in moved : k.req # r}
  /\ UNCHANGED <<git, journal, native, drivers, backend, asked, failures, passed>>

Checkout(r) ==
  /\ tree # entry[r].head
  /\ tree' = entry[r].head
  /\ UNCHANGED <<ledger, journal, native, drivers, memory, backend, commits, budget>>

Ask(r) ==
  /\ r \notin asked /\ Spend("edits")
  /\ asked' = asked \cup {r}
  /\ UNCHANGED <<git, journal, native, drivers, memory, backend, entry>>

Answer(r) ==
  /\ r \in asked
  /\ asked' = asked \ {r}
  /\ UNCHANGED <<git, journal, native, drivers, memory, backend, entry, budget>>

-----------------------------------------------------------------------------
\* A driver may take a request up at any stage, with a journal that knows nothing.
Init ==
  /\ backend \in Backend
  /\ entry \in [Req -> [st : {"implementation", "QA"}, head : {0}, proven : {{}},
                        fresh : {FALSE}]
                  \cup [st : {"review"}, head : {0}, proven : {{"qa"}}, fresh : {TRUE}]]
  /\ tree = 0 /\ commits = 0 /\ asked = {}
  /\ disk = [r \in Req |-> [parked |-> FALSE, inflight |-> None, done |-> {}]]
  /\ att = [k \in Key |-> Absent]
  /\ task = [a \in Handle |-> None]
  /\ drv = [d \in Driver |-> Idle]
  /\ lock = None /\ orphans = {} /\ clerk = None /\ failures = {} /\ moved = {}
  /\ passed = {[req |-> r, stage |-> "qa", head |-> 0] :
                  r \in {q \in Req : entry[q].st = "review"}}
  /\ budget = [runs |-> MaxRuns, edits |-> MaxEdits, unparks |-> MaxUnparks,
                crashes |-> MaxCrashes]

Host(a) ==
  \/ \E k \in Key : Launch(a, k)
  \/ Bind(a) \/ ObserveAndDie(a)
  \/ \E ok, artifacts \in BOOLEAN : Complete(a, ok, artifacts)

Drive(d) ==
  \/ Construct(d) \/ Start(d) \/ End(d) \/ \E r \in Req : Consider(d, r)
  \/ Evaluate(d) \/ \E ok, artifacts \in BOOLEAN : WorkerEnds(d, ok, artifacts)
  \/ PublishFails(d) \/ Reopen(d) \/ Credit(d) \/ \E synced \in BOOLEAN : Advance(d, synced)
  \/ Leave(d) \/ StageDone(d) \/ Park(d)

Others ==
  \/ \E r \in Req : Push(r) \/ Checkout(r) \/ Ask(r) \/ Answer(r)
  \/ \E r \in Req, s \in {"implementation", "QA"} : Send(r, s)

Next ==
  \/ \E a \in Handle : Host(a)
  \/ \E d \in Driver : Drive(d) \/ Crash(d)
  \/ Commit \/ \E k \in Key : OrphanEnds(k)
  \/ \E r \in Req : Unpark(r)
  \/ UnparkSaves \/ UnparkCrashes
  \/ Others

Spec == Init /\ [][Next]_vars

-----------------------------------------------------------------------------
(* Properties. *)

Fault == {"verdict", "tree", "decision", "publish", "reopened", "board", "raised"}
Observation ==
  [req : Req, stage : Stages, fault : Fault, id : Nat, about : Run \cup {None}]

\* Types of every variable.
TypeOK ==
  /\ entry \in [Req -> [st : {"implementation", "QA", "review", "awaiting authorization"},
                        head : Head, proven : SUBSET Stages, fresh : BOOLEAN]]
  /\ tree \in Head /\ commits \in Head /\ asked \subseteq Req
  /\ disk \in Journal /\ (clerk = None \/ clerk \in Journal)
  /\ \A k \in Key : /\ att[k].n \in Nat /\ att[k].by \in Handle \cup {None}
                    /\ att[k].out \in Head \cup {None}
                    /\ att[k].st \in {"absent", "prepared", "dispatched", "finalized", "blocked"}
  /\ \A a \in Handle : task[a] \in Run \cup {None}
  /\ lock \in Driver \cup {None}
  /\ \A d \in Driver : drv[d].copy = None \/ drv[d].copy \in Journal
  /\ failures \subseteq Observation
  /\ orphans \cup passed \cup moved \subseteq Key

\* A request in review was tested by a QA run that ended on its very head, and one
\* that awaits its authorization was reviewed on it too, whatever was pushed, committed
\* by an orphan or checked out while the workers ran.
TestedHead ==
  \A r \in Req :
    /\ entry[r].st \in {"review", "awaiting authorization"} =>
         [req |-> r, stage |-> "qa", head |-> entry[r].head] \in passed
    /\ entry[r].st = "awaiting authorization" =>
         [req |-> r, stage |-> "review", head |-> entry[r].head] \in passed

\* A failed native attempt is one observation of the recurrence guard, however often
\* its outcome is read again by runs that lost the journal or were started anew.
FailureCountedOnce ==
  \A o, p \in failures : o.about # None /\ o.about = p.about => o = p

\* The outcome of an attempt is final: what follows it is a fresh attempt, and only
\* after a failure.
OutcomeSettled ==
  [][\A k \in Key : Terminal(k) /\ att'[k] # att[k] =>
       att[k].st = "blocked" /\ att'[k] = Prepared(att[k].n + 1)]_vars

\* A stage that has moved the ledger on from a head is not begun again on that head
\* until somebody moves the request, or the head leaves and comes back (a build that
\* ends in a tree another request has checked out): neither a stale journal, nor a
\* lost one, nor an unpark brings it back.
StageNotRepeated ==
  [][\A k \in moved :
       /\ att'[k].n = att[k].n
       /\ \A d \in Driver : drv'[d].pc = "working" /\ drv'[d].job = k => drv[d].pc = "working"]_vars
=============================================================================
