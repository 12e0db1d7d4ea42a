---------------------------- MODULE DecisionProofs ----------------------------
(***************************************************************************)
(* The decision workflow for any decisions, requests, comments and         *)
(* pollers, and any number of faults: what a job knows while it goes on,   *)
(* and what follows for the registry and the ledger. Then the reminders    *)
(* beside it: they leave the decisions alone, so that the workflow still   *)
(* does what it promises, what a comment answered is not asked again, and  *)
(* what was asked is not asked again too soon.                             *)
(***************************************************************************)
EXTENDS Reminders, TLAPS, FiniteSetTheorems, WellFoundedInduction

Locking == {"answer", "press", "clarify", "refuse"}

\* A job that writes holds the lock, and its decision is not answered.
Holds(p) == work[p].job \in Locking => lock = p /\ reg[work[p].dec].st # "answered"

\* A reply that chooses names an option.
Meant(r) == r.kind = "choice" => r.opt \in Option

\* Who does which job, and about what.
Owns(p) ==
  /\ work[p].job = "register" =>
       p \in Dec /\ work[p].dec = p /\ p \notin posted /\ reg[p].st # "absent"
  /\ work[p].job \in {"judge", "answer", "clarify", "refuse", "note"} =>
       p \in Poller /\ work[p].dec \in posted /\ work[p].com \in Comment
  /\ work[p].job = "press" => p = Button
  /\ work[p].job \in {"register", "press"} => work[p].com = None
  /\ work[p].job # "idle" => work[p].dec \in Dec
  /\ work[p].job \in {"answer", "press"} => work[p].reply.opt \in Option
  /\ Meant(work[p].reply) /\ \A r \in work[p].rest : Meant(r)
  /\ work[p].job \in {"idle", "judge", "clarify", "refuse", "note"} => work[p].cur = None

\* An answer under way has resolved the requests it is done with.
Reached(p) ==
  work[p].job = "answer" => \A q \in Deps[work[p].dec] :
    (q \notin work[p].todo \/ q = work[p].cur) =>
       entry[q][work[p].dec] \in {"none", Recorded(work[p].reply.opt, work[p].reply.also)}

PostedOnce == \A d \in posted : reg[d].st # "absent"
FromIssue == \A d \in Dec : ByComment(d) => d \in posted
RecordsTheChoice ==
  \A d \in Dec : ByComment(d) =>
    \A q \in Deps[d] : entry[q][d] \in {"none", "pending", reg[d].ans}
Agrees == AnswerReachesLedger /\ (Words = {} => RecordsTheChoice)
SaidWell == \A c \in Comment : \A r \in history[c] \cup {said[c]} : Meant(r)

DInv ==
  /\ TypeOK
  /\ \A p \in Process : Holds(p) /\ Owns(p) /\ Reached(p)
  /\ PostedOnce /\ FromIssue /\ SaidWell /\ Agrees

-----------------------------------------------------------------------------
(* Operators. *)

\* The least index of an option among the words is one, and its option counts.
LEMMA RecordedOption ==
  ASSUME NEW o \in Option, NEW also \in SUBSET Words
  PROVE  /\ Recorded(o, also) \in Option
         /\ also = {} => Recorded(o, also) = o
<1> DEFINE hits == {i \in DOMAIN Listed : Listed[i] \in {o} \cup also}
           least == CHOOSE i \in hits : \A j \in hits : i <= j
<1>1. hits \subseteq Nat /\ hits # {}
  BY DecisionAssumption DEF DecisionAssumption, Option
<1>2. PICK i \in hits : \A j \in hits : <<j, i>> \notin OpToRel(<, Nat)
  BY <1>1, WFMin, NatLessThanWellFounded, Zenon
<1>3. \A j \in hits : ~(j < i)
  BY <1>1, <1>2 DEF OpToRel
<1>4. \A j \in hits : i <= j
  BY <1>1, <1>3
<1>5. least \in hits
  BY <1>4, Zenon
<1>6. Recorded(o, also) = Listed[least]
  BY DEF Recorded
<1> QED
  BY <1>5, <1>6 DEF Option

LEMMA Names ==
  /\ \A d \in Dec : d \notin Poller /\ d # Button /\ d # None
  /\ \A p \in Poller : p # Button /\ p # None
  /\ Question \subseteq Comment /\ None \notin Comment /\ None \notin Request
  /\ Button # None /\ Button \notin Comment
  /\ "pending" \notin Option /\ None \notin Option
  BY DecisionAssumption DEF DecisionAssumption, Option

LEMMA IdleWork == Idle \in Work /\ Idle.job = "idle" /\ Idle.reply.kind = "unsaid"
                 /\ Idle.cur = None /\ Idle.com = None /\ Idle.rest = {} /\ ~Idle.blind
                 /\ Idle.reply = Unsaid /\ Unsaid \in Reply /\ Meant(Unsaid)
  BY DEF Meant, Idle, Work, Jobs, Unsaid, Reply, Kind

\* What a process does next is its own affair.
LEMMA DoFrame ==
  ASSUME work \in [Process -> Work], NEW p \in Process, NEW w \in Work, Do(p, w)
  PROVE  /\ work' \in [Process -> Work]
         /\ work'[p] = w
         /\ \A x \in Process : x # p => work'[x] = work[x]
  BY DEF Do

LEMMA LostIsCounted ==
  ASSUME NEW lost \in SUBSET Request
  PROVE  Cardinality(lost) \in Nat
  BY DecisionAssumption, FS_CardinalityType, FS_Subset DEF DecisionAssumption

\* One entry is written, the others stay.
LEMMA EntryWrite ==
  ASSUME NEW f \in [Request -> [Dec -> {"none", "pending"} \cup Option]],
         NEW q \in Request, NEW d \in Dec, NEW v \in {"none", "pending"} \cup Option
  PROVE  /\ [f EXCEPT ![q][d] = v] \in [Request -> [Dec -> {"none", "pending"} \cup Option]]
         /\ [f EXCEPT ![q][d] = v][q][d] = v
         /\ \A k \in Request, e \in Dec :
              k # q \/ e # d => [f EXCEPT ![q][d] = v][k][e] = f[k][e]
<1> DEFINE g == [f EXCEPT ![q][d] = v]
           row == [f[q] EXCEPT ![d] = v]
<1>1. f[q] \in [Dec -> {"none", "pending"} \cup Option]
  OBVIOUS
<1>2. /\ row \in [Dec -> {"none", "pending"} \cup Option] /\ row[d] = v
      /\ \A e \in Dec : e # d => row[e] = f[q][e]
  BY <1>1
<1>3. g = [f EXCEPT ![q] = row]
  OBVIOUS
<1> HIDE DEF row, g
<1>4. /\ g \in [Request -> [Dec -> {"none", "pending"} \cup Option]]
      /\ g[q] = row /\ \A k \in Request : k # q => g[k] = f[k]
  BY <1>2, <1>3
<1> QED
  BY <1>2, <1>4 DEF g

LEMMA InitDInv == Init => DInv
<1> SUFFICES ASSUME Init PROVE DInv
  OBVIOUS
<1>1. \A p \in Process : work[p] = Idle
  BY DEF Init
<1>2. TypeOK
  BY IdleWork, DecisionAssumption
     DEF Init, TypeOK, DecisionAssumption, Status
<1>3. \A p \in Process : Holds(p) /\ Owns(p) /\ Reached(p)
  BY <1>1, IdleWork DEF Holds, Owns, Reached, Locking
<1>4. PostedOnce /\ FromIssue /\ SaidWell /\ Agrees
  BY IdleWork DEF Init, PostedOnce, FromIssue, SaidWell, Agrees,
     AnswerReachesLedger, RecordsTheChoice, ByComment
<1> QED
  BY <1>2, <1>3, <1>4 DEF DInv

-----------------------------------------------------------------------------
(* Steps: one lemma for each action, or for the actions of one kind. *)

LEMMA RegisterStep ==
  ASSUME DInv, NEW d \in Dec, Register(d)
  PROVE  DInv'
<1>1. PICK lost \in SUBSET (Deps[d] \ done) :
        /\ faults + Cardinality(lost) <= MaxFaults
        /\ faults' = faults + Cardinality(lost)
        /\ Do(d, [[Idle EXCEPT !.job = "register", !.dec = d]
                     EXCEPT !.todo = (Deps[d] \ done) \ lost])
  BY IdleWork DEF Register, Screened, Idle
<1> DEFINE todo == (Deps[d] \ done) \ lost
           w == [[Idle EXCEPT !.job = "register", !.dec = d] EXCEPT !.todo = todo]
<1>2. Deps[d] \in SUBSET Request /\ d \in Process
  BY DecisionAssumption DEF DecisionAssumption, Process
<1>3. todo \in SUBSET Request
  BY <1>2
<1> HIDE DEF todo
<1>4. /\ w \in Work /\ w.job = "register" /\ w.dec = d /\ w.reply = Unsaid /\ w.com = None
      /\ w.rest = {}
  BY <1>3 DEF Idle, Work, Jobs, Unsaid, Reply, Kind
<1>5. Do(d, w)
  BY <1>1 DEF todo
<1> HIDE DEF w
<1>6. /\ work' \in [Process -> Work] /\ work'[d] = w
      /\ \A x \in Process : x # d => work'[x] = work[x]
  BY <1>2, <1>4, <1>5, DoFrame DEF DInv, TypeOK
<1>7. lost \in SUBSET Request /\ Cardinality(lost) \in Nat
  BY <1>2, LostIsCounted
<1>8. /\ reg' = [reg EXCEPT ![d].st = "pending"] /\ reg[d].st = "absent" /\ lock = None
      /\ UNCHANGED <<handled, posted, entry, blocker, done, said, history, snap, lock>>
  BY DEF Register, ledger, issue
<1>9. /\ \A e \in Dec : e # d => reg'[e] = reg[e]
      /\ reg'[d].st = "pending" /\ reg'[d].by = reg[d].by
      /\ reg' \in [Dec -> [st : Status, ans : Option \cup {None},
                           by : Comment \cup {Button, None}]]
  BY <1>8 DEF DInv, TypeOK, Status
<1>10. faults' \in 0..MaxFaults
  BY <1>1, <1>7, DecisionAssumption DEF DInv, TypeOK, DecisionAssumption
<1>11. TypeOK'
  BY <1>6, <1>8, <1>9, <1>10 DEF DInv, TypeOK
<1>12. d \notin posted
  BY <1>8 DEF DInv, PostedOnce
<1>13. ASSUME NEW x \in Process PROVE (Holds(x) /\ Owns(x) /\ Reached(x))'
  <2>1. CASE x = d
    BY <2>1, <1>4, <1>6, <1>8, <1>9, <1>12, IdleWork DEF Holds, Owns, Reached, Locking
  <2>2. CASE x # d
    BY <2>2, <1>6, <1>8, <1>9 DEF DInv, Holds, Owns, Reached, Locking
  <2> QED BY <2>1, <2>2
<1>14. PostedOnce' /\ FromIssue' /\ SaidWell' /\ Agrees'
  BY <1>8, <1>9 DEF DInv, PostedOnce, FromIssue, SaidWell, Agrees,
     AnswerReachesLedger, RecordsTheChoice, ByComment,
     Pending, TypeOK
<1> QED
  BY <1>11, <1>13, <1>14 DEF DInv

LEMMA AddEntryStep ==
  ASSUME DInv, NEW d \in Dec, NEW q \in Request, AddEntry(d, q)
  PROVE  DInv'
<1> DEFINE w == [work[d] EXCEPT !.cur = q]
<1>1. d \in Process /\ work[d] \in Work
  BY DEF DInv, TypeOK, Process
<1>2. /\ w \in Work /\ w.job = "register" /\ w.dec = work[d].dec /\ w.reply = work[d].reply
      /\ w.com = work[d].com /\ w.rest = work[d].rest
  BY <1>1 DEF AddEntry, Work
<1>3. Do(d, w)
  BY DEF AddEntry
<1> HIDE DEF w
<1>4. /\ work' \in [Process -> Work] /\ work'[d] = w
      /\ \A x \in Process : x # d => work'[x] = work[x]
  BY <1>1, <1>2, <1>3, DoFrame DEF DInv, TypeOK
<1>5. /\ entry' = [entry EXCEPT ![q][d] = "pending"] \/ entry' = entry
      /\ faults' \in 0..MaxFaults
      /\ UNCHANGED <<reg, handled, posted, blocker, done, said, history, snap, lock>>
      /\ work[d].job = "register"
  BY DecisionAssumption DEF AddEntry, Fault, DInv, TypeOK, DecisionAssumption, issue
<1>6. /\ entry' \in [Request -> [Dec -> {"none", "pending"} \cup Option]]
      /\ \A k \in Request, e \in Dec : e # d => entry'[k][e] = entry[k][e]
  <2>1. entry \in [Request -> [Dec -> {"none", "pending"} \cup Option]]
    BY DEF DInv, TypeOK
  <2>2. CASE entry' = entry
    BY <2>1, <2>2
  <2>3. CASE entry' = [entry EXCEPT ![q][d] = "pending"]
    BY <2>1, <2>3, EntryWrite
  <2> QED BY <1>5, <2>2, <2>3
<1>7. TypeOK'
  BY <1>4, <1>5, <1>6 DEF DInv, TypeOK
<1>8. d \notin posted /\ work[d].dec = d
  BY <1>1, <1>5 DEF DInv, Owns
<1>9. ASSUME NEW x \in Process PROVE (Holds(x) /\ Owns(x) /\ Reached(x))'
  <2>1. CASE x = d
    BY <2>1, <1>1, <1>2, <1>4, <1>5 DEF DInv, Holds, Owns, Reached, Locking
  <2>2. CASE x # d
    <3>1. Holds(x)' /\ Owns(x)'
      BY <2>2, <1>4, <1>5 DEF DInv, Holds, Owns
    <3>2. work[x].job = "answer" => work[x].dec # d /\ work[x].dec \in Dec
                                    /\ Deps[work[x].dec] \subseteq Request
      BY <1>8, DecisionAssumption DEF DInv, Owns, DecisionAssumption
    <3>3. Reached(x)
      BY DEF DInv
    <3>4. Reached(x)'
      BY <2>2, <1>4, <1>6, <3>2, <3>3 DEF Reached
    <3> QED BY <3>1, <3>4
  <2> QED BY <2>1, <2>2
<1>10. PostedOnce' /\ FromIssue' /\ SaidWell'
  BY <1>5 DEF DInv, PostedOnce, FromIssue, SaidWell, ByComment
<1>11. Agrees'
  <2>1. \A e \in Dec : ByComment(e) => e # d
    BY <1>8 DEF DInv, FromIssue
  <2>2. \A e \in Dec : Deps[e] \subseteq Request
    BY DecisionAssumption DEF DecisionAssumption
  <2> QED
    BY <1>5, <1>6, <2>1, <2>2 DEF DInv, Agrees, AnswerReachesLedger,
       RecordsTheChoice, ByComment, Pending
<1> QED
  BY <1>7, <1>9, <1>10, <1>11 DEF DInv

LEMMA PostStep ==
  ASSUME DInv, NEW d \in Dec, Post(d)
  PROVE  DInv'
<1>1. d \in Process /\ Do(d, Idle)
  BY DEF Post, Process
<1>2. /\ work' \in [Process -> Work] /\ work'[d] = Idle
      /\ \A x \in Process : x # d => work'[x] = work[x]
  BY <1>1, IdleWork, DoFrame DEF DInv, TypeOK
<1>3. /\ posted' = posted \cup {d} /\ work[d].job = "register"
      /\ UNCHANGED <<reg, handled, entry, blocker, done, said, history, snap, lock, faults>>
  BY DEF Post, ledger, issue
<1>4. TypeOK'
  BY <1>2, <1>3 DEF DInv, TypeOK
<1>5. ASSUME NEW x \in Process PROVE (Holds(x) /\ Owns(x) /\ Reached(x))'
  <2>1. CASE x = d
    BY <2>1, <1>2, IdleWork DEF Holds, Owns, Reached, Locking
  <2>2. CASE x # d
    BY <2>2, <1>2, <1>3 DEF DInv, Holds, Owns, Reached
  <2> QED BY <2>1, <2>2
<1>6. reg[d].st # "absent"
  BY <1>1, <1>3 DEF DInv, Owns
<1>7. PostedOnce' /\ FromIssue' /\ SaidWell' /\ Agrees'
  BY <1>3, <1>6 DEF DInv, PostedOnce, FromIssue, SaidWell, Agrees,
     AnswerReachesLedger, RecordsTheChoice, ByComment,
     Pending
<1> QED
  BY <1>4, <1>5, <1>7 DEF DInv

\* A job that is given up, or done with: nothing but its lock is touched.
LEMMA AbortStep ==
  ASSUME DInv, NEW p \in Process, Abort(p), faults' \in 0..MaxFaults,
         UNCHANGED <<reg, handled, posted, entry, done, said, history>>,
         snap' \in [Comment -> Nat], blocker' \in [Request -> Dec \cup {None}]
  PROVE  DInv'
<1>1. Do(p, Idle) /\ lock' = IF lock = p THEN None ELSE lock
  BY DEF Abort
<1>2. /\ work' \in [Process -> Work] /\ work'[p] = Idle
      /\ \A x \in Process : x # p => work'[x] = work[x]
  BY <1>1, IdleWork, DoFrame DEF DInv, TypeOK
<1>3. TypeOK'
  BY <1>1, <1>2 DEF DInv, TypeOK
<1>4. ASSUME NEW x \in Process PROVE (Holds(x) /\ Owns(x) /\ Reached(x))'
  <2>1. CASE x = p
    BY <2>1, <1>2, IdleWork DEF Holds, Owns, Reached, Locking
  <2>2. CASE x # p
    <3>1. Holds(x)'
      BY <2>2, <1>1, <1>2 DEF DInv, Holds
    <3>2. Owns(x)' /\ Reached(x)'
      BY <2>2, <1>2 DEF DInv, Owns, Reached
    <3> QED BY <3>1, <3>2
  <2> QED BY <2>1, <2>2
<1>5. PostedOnce' /\ FromIssue' /\ SaidWell' /\ Agrees'
  BY DEF DInv, PostedOnce, FromIssue, SaidWell, Agrees,
     AnswerReachesLedger, RecordsTheChoice, ByComment, Pending
<1> QED
  BY <1>3, <1>4, <1>5 DEF DInv

\* The latest revision of a question is judged again, now without its history.
LEMMA FallBackStep ==
  ASSUME DInv, NEW p \in Poller, NEW w \in Work, FallBack(p, w), faults' \in 0..MaxFaults,
         w.dec \in Dec, w.dec \in posted, w.com \in Comment,
         UNCHANGED <<reg, handled, posted, entry, done, said, history, snap>>,
         blocker' \in [Request -> Dec \cup {None}]
  PROVE  DInv'
<1>1. /\ p \in Process /\ w.last \in Reply
      /\ lock' = IF lock = p THEN None ELSE lock
  BY DEF Process, FallBack, Work
<1>2. PICK k \in {"unclear", "refused"} :
        Do(p, [Idle EXCEPT !.job = "judge", !.dec = w.dec, !.com = w.com, !.last = w.last,
                 !.rest = {[Unsaid EXCEPT !.kind = k, !.rev = w.last.rev]}, !.blind = TRUE])
  BY DEF FallBack
<1> DEFINE r == [Unsaid EXCEPT !.kind = k, !.rev = w.last.rev]
           v == [Idle EXCEPT !.job = "judge", !.dec = w.dec, !.com = w.com,
                   !.last = w.last, !.rest = {r}, !.blind = TRUE]
<1>3. r \in Reply /\ Meant(r)
  BY <1>1 DEF Unsaid, Reply, Kind, Meant
<1>4. Do(p, v)
  BY <1>2
<1> HIDE DEF r
<1>5. /\ v \in Work /\ v.job = "judge" /\ v.dec = w.dec /\ v.com = w.com /\ v.cur = None
      /\ v.reply = Unsaid /\ v.rest = {r}
  BY <1>1, <1>3, IdleWork DEF Idle, Work, Jobs
<1> HIDE DEF v
<1>6. /\ work' \in [Process -> Work] /\ work'[p] = v
      /\ \A x \in Process : x # p => work'[x] = work[x]
  BY <1>1, <1>4, <1>5, DoFrame DEF DInv, TypeOK
<1>7. TypeOK'
  BY <1>1, <1>6 DEF DInv, TypeOK
<1>8. ASSUME NEW x \in Process PROVE (Holds(x) /\ Owns(x) /\ Reached(x))'
  <2>1. CASE x = p
    BY <2>1, <1>3, <1>5, <1>6, IdleWork DEF Holds, Owns, Reached, Locking
  <2>2. CASE x # p
    <3>1. Holds(x)'
      BY <2>2, <1>1, <1>6 DEF DInv, Holds
    <3>2. Owns(x)' /\ Reached(x)'
      BY <2>2, <1>6 DEF DInv, Owns, Reached
    <3> QED BY <3>1, <3>2
  <2> QED BY <2>1, <2>2
<1>9. PostedOnce' /\ FromIssue' /\ SaidWell' /\ Agrees'
  BY DEF DInv, PostedOnce, FromIssue, SaidWell, Agrees,
     AnswerReachesLedger, RecordsTheChoice, ByComment, Pending
<1> QED
  BY <1>7, <1>8, <1>9 DEF DInv

\* A ledger call failed.
LEMMA FailsStep ==
  ASSUME DInv, NEW p \in Process, Fails(p), faults' \in 0..MaxFaults,
         work[p].job \in Locking \cup {"register"},
         UNCHANGED <<reg, handled, posted, entry, done, said, history, snap>>,
         blocker' \in [Request -> Dec \cup {None}]
  PROVE  DInv'
<1>1. snap' \in [Comment -> Nat] /\ work[p] \in Work /\ Owns(p)
  BY DEF DInv, TypeOK
<1>2. CASE Abort(p)
  BY <1>1, <1>2, AbortStep
<1>3. CASE work[p].com \in Question /\ FallBack(p, work[p])
  <2>1. work[p].job \notin {"register", "press"}
    BY <1>1, <1>3, Names DEF Owns
  <2>2. p \in Poller /\ work[p].dec \in Dec /\ work[p].dec \in posted
        /\ work[p].com \in Comment
    BY <1>1, <2>1 DEF Owns, Locking
  <2> QED BY <1>1, <1>3, <2>2, FallBackStep
<1> QED BY <1>2, <1>3 DEF Fails

\* A job that goes on with fewer requests to do, having written a blocker text.
LEMMA GoesOnStep ==
  ASSUME DInv, NEW p \in Process, NEW w \in Work, Do(p, w),
         w.job = work[p].job, w.dec = work[p].dec, w.com = work[p].com,
         w.reply = work[p].reply, w.rest = work[p].rest, w.cur = None, faults' \in 0..MaxFaults,
         work[p].job = "answer" =>
           \A q \in Deps[work[p].dec] : q \notin w.todo =>
             q \notin work[p].todo \/ q = work[p].cur
               \/ entry[q][work[p].dec] \in
                    {"none", Recorded(work[p].reply.opt, work[p].reply.also)},
         UNCHANGED <<reg, handled, posted, entry, done, said, history, snap, lock>>,
         blocker' \in [Request -> Dec \cup {None}]
  PROVE  DInv'
<1>1. /\ work' \in [Process -> Work] /\ work'[p] = w
      /\ \A x \in Process : x # p => work'[x] = work[x]
  BY DoFrame DEF DInv, TypeOK
<1>2. TypeOK'
  BY <1>1 DEF DInv, TypeOK
<1>3. ASSUME NEW x \in Process PROVE (Holds(x) /\ Owns(x) /\ Reached(x))'
  <2>1. CASE x = p
    <3>1. Holds(p) /\ Owns(p) /\ Reached(p)
      BY DEF DInv
    <3>2. Holds(p)' /\ Owns(p)'
      BY <3>1, <1>1 DEF Holds, Owns
    <3>3. Reached(p)'
      <4> SUFFICES ASSUME w.job = "answer", NEW q \in Deps[w.dec],
                          q \notin w.todo \/ q = w.cur
                   PROVE  entry[q][w.dec] \in {"none", Recorded(w.reply.opt, w.reply.also)}
        BY <1>1 DEF Reached
      <4>1. Owns(p) => w.dec \in Dec
        BY DEF Owns
      <4>2. q # None
        BY <3>1, <4>1, Names, DecisionAssumption DEF DecisionAssumption
      <4> QED BY <3>1, <4>2 DEF Reached
    <3> QED BY <2>1, <3>2, <3>3
  <2>2. CASE x # p
    BY <2>2, <1>1 DEF DInv, Holds, Owns, Reached
  <2> QED BY <2>1, <2>2
<1>4. PostedOnce' /\ FromIssue' /\ SaidWell' /\ Agrees'
  BY DEF DInv, PostedOnce, FromIssue, SaidWell, Agrees,
     AnswerReachesLedger, RecordsTheChoice, ByComment, Pending
<1> QED
  BY <1>2, <1>3, <1>4 DEF DInv

LEMMA FaultTyped ==
  ASSUME faults \in 0..MaxFaults, Fault
  PROVE  faults' \in 0..MaxFaults
  BY DecisionAssumption DEF DecisionAssumption, Fault

LEMMA WriteBlockerStep ==
  ASSUME DInv, NEW p \in Process, NEW q \in Request, WriteBlocker(p, q)
  PROVE  DInv'
<1>1. /\ work[p] \in Work /\ work[p].job \in {"clarify", "refuse", "register"}
      /\ UNCHANGED <<reg, handled, posted, entry, done, said, history, snap>>
      /\ blocker \in [Request -> Dec \cup {None}] /\ faults \in 0..MaxFaults
  BY DEF WriteBlocker, DInv, TypeOK, issue
<1>2. work[p].dec \in Dec
  BY <1>1 DEF DInv, Owns
<1>3. CASE Fault /\ Fails(p) /\ UNCHANGED blocker
  BY <1>1, <1>3, FailsStep, FaultTyped DEF Locking
<1>4. CASE /\ blocker' = [blocker EXCEPT ![q] = work[p].dec]
           /\ Do(p, [work[p] EXCEPT !.todo = @ \ {q}, !.cur = None])
           /\ UNCHANGED <<lock, faults>>
  <2> DEFINE w == [work[p] EXCEPT !.todo = @ \ {q}, !.cur = None]
  <2>1. /\ w \in Work /\ w.job = work[p].job /\ w.dec = work[p].dec
        /\ w.com = work[p].com /\ w.reply = work[p].reply /\ w.cur = None
        /\ w.rest = work[p].rest
    BY <1>1 DEF Work
  <2>2. Do(p, w)
    BY <1>4
  <2> HIDE DEF w
  <2> QED BY <1>1, <1>2, <1>4, <2>1, <2>2, GoesOnStep
<1> QED
  BY <1>3, <1>4 DEF WriteBlocker

LEMMA ClearBlockerStep ==
  ASSUME DInv, NEW p \in Process, ClearBlocker(p)
  PROVE  DInv'
<1> DEFINE w == [work[p] EXCEPT !.todo = @ \ {work[p].cur}, !.cur = None]
<1>1. /\ work[p] \in Work
      /\ UNCHANGED <<reg, handled, posted, entry, done, said, history, snap>>
      /\ blocker \in [Request -> Dec \cup {None}] /\ faults \in 0..MaxFaults
      /\ work[p].job \in {"answer", "press"}
  BY DEF ClearBlocker, DInv, TypeOK, issue
<1>2. /\ w \in Work /\ w.job = work[p].job /\ w.dec = work[p].dec /\ w.com = work[p].com
      /\ w.reply = work[p].reply /\ w.cur = None /\ w.todo = work[p].todo \ {work[p].cur}
      /\ w.rest = work[p].rest
  BY <1>1 DEF Work
<1>3. \/ /\ Fault /\ UNCHANGED blocker
         /\ \/ Do(p, w) /\ UNCHANGED lock
            \/ Fails(p)
      \/ /\ blocker' = [blocker EXCEPT ![work[p].cur] = None]
         /\ Do(p, w) /\ UNCHANGED <<lock, faults>>
  BY DEF ClearBlocker
<1> HIDE DEF w
<1>4. blocker' \in [Request -> Dec \cup {None}] /\ faults' \in 0..MaxFaults
  BY <1>1, <1>3, FaultTyped
<1>5. CASE Fails(p)
  BY <1>1, <1>4, <1>5, FailsStep DEF Locking
<1>6. CASE Do(p, w) /\ UNCHANGED lock
  BY <1>1, <1>2, <1>4, <1>6, GoesOnStep
<1> QED
  BY <1>3, <1>5, <1>6

LEMMA CrashStep ==
  ASSUME DInv, NEW p \in Process, Crash(p)
  PROVE  DInv'
<1>1. /\ Fault /\ Abort(p)
      /\ UNCHANGED <<reg, handled, posted, entry, blocker, done, said, history, snap>>
      /\ blocker \in [Request -> Dec \cup {None}] /\ faults \in 0..MaxFaults
      /\ snap' \in [Comment -> Nat]
  BY DEF Crash, ledger, issue, DInv, TypeOK
<1> QED
  BY <1>1, AbortStep, FaultTyped

LEMMA NoteStep ==
  ASSUME DInv, NEW p \in Poller, Note(p)
  PROVE  DInv'
<1>1. /\ p \in Process /\ work[p] \in Work /\ lock = None /\ Do(p, Idle)
      /\ UNCHANGED <<reg, handled, posted, entry, blocker, done, said, history, lock, faults>>
      /\ snap' = [snap EXCEPT ![work[p].com] = work[p].last.rev]
      /\ faults \in 0..MaxFaults /\ blocker \in [Request -> Dec \cup {None}]
  BY DEF Note, ledger, issue, DInv, TypeOK, Process
<1>2. work[p].last.rev \in Nat
  BY <1>1 DEF Work, Reply
<1>3. snap' \in [Comment -> Nat]
  BY <1>1, <1>2 DEF DInv, TypeOK
<1>4. Abort(p)
  BY <1>1, Names DEF Abort
<1> QED
  BY <1>1, <1>3, <1>4, AbortStep

\* A poller takes up a reply, and the lock when something is to be done.
LEMMA FetchStep ==
  ASSUME DInv, NEW p \in Poller, NEW c \in Comment, Fetch(p, c)
  PROVE  DInv'
<1> DEFINE w == [Idle EXCEPT !.job = "judge", !.dec = On[c], !.com = c, !.last = said[c],
                             !.rest = history[c] \cup {said[c]}]
<1>1. /\ p \in Process /\ said[c] \in Reply /\ history[c] \in SUBSET Reply /\ On[c] \in Dec
      /\ faults \in 0..MaxFaults /\ blocker \in [Request -> Dec \cup {None}]
  BY DecisionAssumption DEF DInv, TypeOK, Process, DecisionAssumption
<1>2. /\ w \in Work /\ w.job = "judge" /\ w.dec = On[c] /\ w.com = c /\ w.reply = Unsaid
      /\ w.cur = None /\ w.rest = history[c] \cup {said[c]}
  BY <1>1, IdleWork DEF Idle, Work, Jobs
<1>3. /\ \/ Do(p, w) /\ UNCHANGED <<lock, faults>>
         \/ Fault /\ FallBack(p, w)
      /\ On[c] \in posted
      /\ UNCHANGED <<reg, handled, posted, entry, blocker, done, said, history, snap>>
  BY DEF Fetch, ledger, issue
<1> HIDE DEF w
<1>4. CASE Fault /\ FallBack(p, w)
  BY <1>1, <1>2, <1>3, <1>4, FallBackStep, FaultTyped
<1>5. CASE Do(p, w) /\ UNCHANGED <<lock, faults>>
  <2>1. /\ work' \in [Process -> Work] /\ work'[p] = w
        /\ \A x \in Process : x # p => work'[x] = work[x]
    BY <1>1, <1>2, <1>5, DoFrame DEF DInv, TypeOK
  <2>2. TypeOK'
    BY <2>1, <1>3, <1>5 DEF DInv, TypeOK
  <2>3. ASSUME NEW x \in Process PROVE (Holds(x) /\ Owns(x) /\ Reached(x))'
    <3>1. CASE x = p
      BY <3>1, <1>1, <1>2, <1>3, <2>1, IdleWork
         DEF DInv, SaidWell, Holds, Owns, Reached, Locking
    <3>2. CASE x # p
      BY <3>2, <1>3, <1>5, <2>1 DEF DInv, Holds, Owns, Reached
    <3> QED BY <3>1, <3>2
  <2>4. PostedOnce' /\ FromIssue' /\ SaidWell' /\ Agrees'
    BY <1>3 DEF DInv, PostedOnce, FromIssue, SaidWell, Agrees,
       AnswerReachesLedger, RecordsTheChoice, ByComment, Pending
  <2> QED BY <2>2, <2>3, <2>4 DEF DInv
<1> QED
  BY <1>3, <1>4, <1>5

\* A process takes the free lock for a job about a decision that is not answered.
LEMMA TakesStep ==
  ASSUME DInv, NEW p \in Poller \cup {Button}, NEW w \in Work, Do(p, w),
         lock = None, lock' = p, w.job \in Locking, w.dec \in Dec,
         reg[w.dec].st # "answered", faults' \in 0..MaxFaults, w.cur = None,
         w.job = "press" => p = Button /\ w.com = None,
         w.job # "press" => p \in Poller /\ w.dec \in posted /\ w.com \in Comment,
         w.job = "answer" => w.todo = Deps[w.dec],
         w.job \in {"answer", "press"} => w.reply.opt \in Option,
         Meant(w.reply), \A r \in w.rest : Meant(r),
         UNCHANGED <<reg, handled, posted, entry, blocker, done, said, history, snap>>
  PROVE  DInv'
<1>1. /\ p \in Process /\ work' \in [Process -> Work] /\ work'[p] = w
      /\ \A x \in Process : x # p => work'[x] = work[x]
  BY DoFrame DEF DInv, TypeOK, Process
<1>2. TypeOK'
  BY <1>1 DEF DInv, TypeOK
<1>3. ASSUME NEW x \in Process PROVE (Holds(x) /\ Owns(x) /\ Reached(x))'
  <2>1. CASE x = p
    <3>1. Holds(p)' /\ Owns(p)'
      BY <1>1 DEF Holds, Owns, Locking
    <3>2. Reached(p)'
      BY <1>1, Names, DecisionAssumption DEF Reached, DecisionAssumption
    <3> QED BY <2>1, <3>1, <3>2
  <2>2. CASE x # p
    <3>1. x # None
      BY Names DEF Process
    <3>2. Holds(x)'
      BY <2>2, <3>1, <1>1 DEF DInv, Holds
    <3> QED BY <2>2, <1>1, <3>2 DEF DInv, Owns, Reached
  <2> QED BY <2>1, <2>2
<1>4. PostedOnce' /\ FromIssue' /\ SaidWell' /\ Agrees'
  BY DEF DInv, PostedOnce, FromIssue, SaidWell, Agrees,
     AnswerReachesLedger, RecordsTheChoice, ByComment, Pending
<1> QED
  BY <1>2, <1>3, <1>4 DEF DInv

LEMMA JudgeStep ==
  ASSUME DInv, NEW p \in Poller, Judge(p)
  PROVE  DInv'
<1> DEFINE v(r) == [work[p] EXCEPT !.reply = r, !.rest = @ \ {r}]
<1>1. /\ p \in Process /\ work[p] \in Work /\ work[p].job = "judge" /\ lock = None
      /\ UNCHANGED <<reg, handled, posted, entry, blocker, done, said, history, snap>>
      /\ faults \in 0..MaxFaults /\ blocker \in [Request -> Dec \cup {None}]
      /\ snap \in [Comment -> Nat]
  BY DEF Judge, ledger, issue, DInv, TypeOK, Process
<1>2. PICK r \in work[p].rest :
        IF Settled(v(r))
          THEN Do(p, Idle) /\ UNCHANGED <<lock, faults>>
          ELSE /\ lock' = p
               /\ IF r.kind = "choice"
                    THEN /\ Do(p, [v(r) EXCEPT !.job = "answer", !.todo = Deps[v(r).dec]])
                         /\ UNCHANGED faults
                    ELSE Screened(p, [v(r) EXCEPT !.job =
                           IF r.kind = "unclear" THEN "clarify" ELSE "refuse"])
  BY Zenon DEF Judge
<1> DEFINE w == v(r)
<1>3. /\ w \in Work /\ w.dec = work[p].dec /\ w.com = work[p].com /\ w.reply = r
      /\ w.rest = work[p].rest \ {r} /\ w.cur = work[p].cur
  BY <1>1, <1>2 DEF Work
<1>4. /\ w.dec \in Dec /\ w.dec \in posted /\ w.com \in Comment /\ w.cur = None
      /\ Meant(w.reply) /\ \A s \in w.rest : Meant(s)
  BY <1>1, <1>2, <1>3 DEF DInv, Owns
<1>5. Deps[w.dec] \in SUBSET Request
  BY <1>4, DecisionAssumption DEF DecisionAssumption
<1> HIDE DEF v
<1>6. CASE Settled(w)
  <2>1. Abort(p)
    BY <1>1, <1>2, <1>6, Names DEF Abort
  <2> QED BY <1>1, <1>2, <1>6, <2>1, AbortStep
<1>7. CASE ~Settled(w) /\ r.kind = "choice"
  <2> DEFINE u == [w EXCEPT !.job = "answer", !.todo = Deps[w.dec]]
  <2>1. Do(p, u) /\ lock' = p /\ UNCHANGED faults
    BY <1>2, <1>7
  <2>2. /\ u \in Work /\ u.job = "answer" /\ u.dec = w.dec /\ u.com = w.com
        /\ u.reply = r /\ u.todo = Deps[w.dec] /\ u.cur = None /\ u.rest = w.rest
    BY <1>3, <1>4, <1>5 DEF Work, Jobs
  <2>3. reg[w.dec].st # "answered"
    BY <1>7 DEF Settled
  <2>4. r.opt \in Option
    BY <1>3, <1>4, <1>7 DEF Meant
  <2> HIDE DEF u
  <2> QED BY <1>1, <1>3, <1>4, <2>1, <2>2, <2>3, <2>4, TakesStep DEF Locking
<1>8. CASE ~Settled(w) /\ r.kind # "choice"
  <2> DEFINE j == IF r.kind = "unclear" THEN "clarify" ELSE "refuse"
             u == [w EXCEPT !.job = j]
  <2>1. Screened(p, u) /\ lock' = p
    BY <1>2, <1>8
  <2>2. u.dec = w.dec /\ j \in {"clarify", "refuse"}
    BY <1>3 DEF Work
  <2>3. PICK lost \in SUBSET (Deps[w.dec] \ done) :
          /\ faults + Cardinality(lost) <= MaxFaults
          /\ faults' = faults + Cardinality(lost)
          /\ Do(p, [u EXCEPT !.todo = (Deps[w.dec] \ done) \ lost])
    BY <2>1, <2>2 DEF Screened
  <2> DEFINE todo == (Deps[w.dec] \ done) \ lost
             x == [u EXCEPT !.todo = todo]
  <2>4. todo \in SUBSET Request /\ lost \in SUBSET Request
    BY <1>5
  <2>5. Do(p, x)
    BY <2>3
  <2> HIDE DEF todo, j
  <2>6. /\ x \in Work /\ x.job = j /\ x.dec = w.dec /\ x.com = w.com
        /\ x.reply = r /\ x.cur = None /\ x.rest = w.rest
    BY <1>3, <1>4, <2>2, <2>4 DEF Work, Jobs
  <2> HIDE DEF x
  <2>7. faults' \in 0..MaxFaults
    BY <1>1, <2>3, <2>4, LostIsCounted, DecisionAssumption DEF DecisionAssumption
  <2>8. reg[w.dec].st # "answered"
    BY <1>8 DEF Settled
  <2> QED BY <1>1, <1>3, <1>4, <2>1, <2>2, <2>5, <2>6, <2>7, <2>8, TakesStep DEF Locking
<1> QED
  BY <1>6, <1>7, <1>8

LEMMA PressStep ==
  ASSUME DInv, NEW d \in Dec, NEW o \in Option, Press(d, o)
  PROVE  DInv'
<1> DEFINE r == [kind |-> "choice", opt |-> o, also |-> {}, rev |-> 0]
           v == [Idle EXCEPT !.job = "press", !.dec = d, !.todo = Deps[d], !.reply = r]
<1>1. Deps[d] \in SUBSET Request
  BY DecisionAssumption DEF DecisionAssumption
<1>2. r \in Reply /\ r.opt = o /\ Meant(r)
  BY DEF Reply, Kind, Meant
<1>3. Do(Button, v)
  BY DEF Press
<1> HIDE DEF r
<1>4. /\ v \in Work /\ v.job = "press" /\ v.dec = d /\ v.reply = r /\ v.cur = None
      /\ v.com = None /\ v.rest = {}
  BY <1>1, <1>2, IdleWork DEF Idle, Work, Jobs
<1> HIDE DEF v
<1>5. /\ lock = None /\ lock' = Button /\ IsOpen(d)
      /\ UNCHANGED <<reg, handled, posted, entry, blocker, done, said, history, snap, faults>>
  BY DEF Press, ledger, issue
<1>6. reg[d].st # "answered" /\ faults' \in 0..MaxFaults
  BY <1>5 DEF IsOpen, DInv, TypeOK
<1> QED
  BY <1>2, <1>3, <1>4, <1>5, <1>6, TakesStep DEF Locking

LEMMA ResolveStep ==
  ASSUME DInv, NEW p \in Process, NEW q \in Request, Resolve(p, q)
  PROVE  DInv'
<1> DEFINE w == work[p]
           d == work[p].dec
           rec == Recorded(w.reply.opt, w.reply.also)
           skip == [w EXCEPT !.todo = @ \ {q}]
           v == [w EXCEPT !.cur = q]
<1>1. /\ w \in Work /\ w.job \in {"answer", "press"} /\ w.cur = None
      /\ UNCHANGED <<reg, handled, posted, blocker, done, said, history, snap>>
      /\ blocker \in [Request -> Dec \cup {None}] /\ faults \in 0..MaxFaults
      /\ entry \in [Request -> [Dec -> {"none", "pending"} \cup Option]]
  BY DEF Resolve, DInv, TypeOK, issue
<1>2. d \in Dec /\ w.reply.opt \in Option /\ w.reply.also \in SUBSET Words
  BY <1>1 DEF DInv, Owns, Work, Reply
<1>3. rec \in Option
  BY <1>2, RecordedOption
<1>4. /\ skip \in Work /\ skip.job = w.job /\ skip.dec = d /\ skip.com = w.com
      /\ skip.reply = w.reply /\ skip.cur = None /\ skip.todo = w.todo \ {q}
      /\ skip.rest = w.rest
  BY <1>1 DEF Work
<1>5. /\ v \in Work /\ v.job = w.job /\ v.dec = d /\ v.com = w.com
      /\ v.reply = w.reply /\ v.cur = q /\ v.todo = w.todo /\ v.rest = w.rest
  BY <1>1 DEF Work
<1>6. \/ /\ ~Known(q, d) /\ Do(p, skip) /\ UNCHANGED <<entry, lock, faults>>
      \/ /\ entry' = [entry EXCEPT ![q][d] = rec] /\ Do(p, v) /\ UNCHANGED <<lock, faults>>
      \/ /\ Fault /\ UNCHANGED entry
         /\ \/ Swallows(w) /\ Do(p, skip) /\ UNCHANGED lock
            \/ Fails(p)
  BY DEF Resolve
<1> HIDE DEF rec, skip, v
<1>7. CASE /\ ~Known(q, d) /\ Do(p, skip) /\ UNCHANGED <<entry, lock, faults>>
  BY <1>1, <1>4, <1>7, GoesOnStep DEF Known
<1>8. CASE Fault /\ UNCHANGED entry /\ Fails(p)
  BY <1>1, <1>8, FaultTyped, FailsStep DEF Locking
<1>9. CASE Fault /\ UNCHANGED entry /\ Swallows(w) /\ Do(p, skip) /\ UNCHANGED lock
  BY <1>1, <1>4, <1>9, FaultTyped, GoesOnStep DEF Swallows
<1>10. CASE entry' = [entry EXCEPT ![q][d] = rec] /\ Do(p, v) /\ UNCHANGED <<lock, faults>>
  <2>1. /\ work' \in [Process -> Work] /\ work'[p] = v
        /\ \A x \in Process : x # p => work'[x] = work[x]
    BY <1>5, <1>10, DoFrame DEF DInv, TypeOK
  <2>2. /\ entry' \in [Request -> [Dec -> {"none", "pending"} \cup Option]]
        /\ entry'[q][d] = rec
        /\ \A k \in Request, e \in Dec : k # q \/ e # d => entry'[k][e] = entry[k][e]
    BY <1>1, <1>2, <1>3, <1>10, EntryWrite
  <2>3. TypeOK'
    BY <1>1, <1>10, <2>1, <2>2 DEF DInv, TypeOK
  <2>4. Holds(p) /\ Owns(p) /\ Reached(p)
    BY DEF DInv
  <2>5. lock = p /\ reg[d].st # "answered"
    BY <1>1, <2>4 DEF Holds, Locking
  <2>6. Holds(p)' /\ Owns(p)'
    BY <1>1, <1>5, <1>10, <2>1, <2>4, <2>5 DEF Holds, Owns, Locking
  <2>7. \A e \in Dec : Deps[e] \subseteq Request
    BY DecisionAssumption DEF DecisionAssumption
  <2>8. Reached(p)'
    <3> SUFFICES ASSUME w.job = "answer", NEW k \in Deps[d], k \notin w.todo \/ k = q
                 PROVE  entry'[k][d] \in {"none", rec}
      BY <1>5, <2>1 DEF Reached, rec
    <3>1. CASE k = q
      BY <2>2, <3>1
    <3>2. CASE k # q
      BY <1>2, <2>2, <2>4, <2>7, <3>2 DEF Reached, rec
    <3> QED BY <3>1, <3>2
  <2>9. ASSUME NEW x \in Process, x # p PROVE (Holds(x) /\ Owns(x) /\ Reached(x))'
    <3>1. Holds(x) /\ Owns(x) /\ Reached(x)
      BY DEF DInv
    <3>2. Holds(x)' /\ Owns(x)'
      BY <1>1, <1>10, <2>1, <2>9, <3>1 DEF Holds, Owns
    <3>3. work[x].job # "answer"
      BY <2>5, <2>9, <3>1 DEF Holds, Locking
    <3> QED BY <2>1, <2>9, <3>2, <3>3 DEF Reached
  <2>10. PostedOnce' /\ FromIssue' /\ SaidWell'
    BY <1>1 DEF DInv, PostedOnce, FromIssue, SaidWell, ByComment
  <2>11. Agrees'
    <3>1. \A e \in Dec : ByComment(e) => e # d
      BY <2>5 DEF ByComment
    <3> QED
      BY <1>1, <2>2, <2>7, <3>1 DEF DInv, Agrees, AnswerReachesLedger,
         RecordsTheChoice, ByComment, Pending
  <2> QED BY <2>3, <2>4, <2>6, <2>8, <2>9, <2>10, <2>11 DEF DInv
<1> QED
  BY <1>6, <1>7, <1>8, <1>9, <1>10

\* Once a revision is dealt with, the job goes on about the same question.
GoesOn(p, w) ==
  /\ w \in Work /\ w.job \in {"judge", "note"} /\ p \in Poller
  /\ w.dec \in Dec /\ w.dec \in posted /\ w.com \in Comment /\ w.cur = None
  /\ Meant(w.reply) /\ \A r \in w.rest : Meant(r)

LEMMA AfterRefusal ==
  ASSUME NEW p \in Process, work[p] \in Work, work[p].job \in {"clarify", "refuse"}, Owns(p)
  PROVE  After(work[p]) = Idle \/ GoesOn(p, After(work[p]))
<1> DEFINE w == work[p]
           more == [[w EXCEPT !.reply = Unsaid] EXCEPT !.job = "judge"]
           note == [[w EXCEPT !.reply = Unsaid] EXCEPT !.job = "note"]
<1>1. /\ p \in Poller /\ w.dec \in Dec /\ w.dec \in posted /\ w.com \in Comment
      /\ w.cur = None /\ \A r \in w.rest : Meant(r)
  BY DEF Owns
<1>2. After(w) \in {Idle, more, note}
  BY DEF After
<1>3. GoesOn(p, more)
  <2>1. /\ more \in Work /\ more.job = "judge" /\ more.dec = w.dec /\ more.com = w.com
        /\ more.cur = w.cur /\ more.reply = Unsaid /\ more.rest = w.rest
    BY IdleWork DEF Work, Jobs
  <2> QED BY <1>1, <2>1, IdleWork DEF GoesOn
<1>4. GoesOn(p, note)
  <2>1. /\ note \in Work /\ note.job = "note" /\ note.dec = w.dec /\ note.com = w.com
        /\ note.cur = w.cur /\ note.reply = Unsaid /\ note.rest = w.rest
    BY IdleWork DEF Work, Jobs
  <2> QED BY <1>1, <2>1, IdleWork DEF GoesOn
<1> QED
  BY <1>2, <1>3, <1>4

LEMMA SaveStep ==
  ASSUME DInv, NEW p \in Process, Save(p)
  PROVE  DInv'
<1> DEFINE w == work[p]
           d == work[p].dec
           out == Outcome(w)
           next == After(w)
<1>1. /\ w \in Work /\ w.job \in Locking /\ w.todo = {}
      /\ reg' = [reg EXCEPT ![d] = out]
      /\ Do(p, next) /\ lock' = None
      /\ handled' = handled \cup
           {h \in {<<d, w.com, w.reply.rev>>} :
              w.job \in {"clarify", "refuse"} /\ w.com \notin Question}
      /\ UNCHANGED <<posted, entry, blocker, done, said, history, snap, faults>>
  BY DEF Save, ledger, issue, Locking, DInv, TypeOK
<1>2. Holds(p) /\ Owns(p) /\ Reached(p)
  BY DEF DInv
<1>3. d \in Dec /\ lock = p /\ reg[d].st # "answered"
  BY <1>1, <1>2 DEF Holds, Owns, Locking
<1>goes. next = Idle \/ GoesOn(p, next)
  <2>1. w.job \in {"answer", "press"} => next = Idle
    BY <1>2, Names DEF Owns, After
  <2>2. CASE w.job \in {"clarify", "refuse"}
    BY <1>1, <1>2, <2>2, AfterRefusal
  <2> QED BY <1>1, <2>1, <2>2 DEF Locking
<1> HIDE DEF next
<1>4. /\ work' \in [Process -> Work] /\ work'[p] = next
      /\ \A x \in Process : x # p => work'[x] = work[x]
  BY <1>1, <1>goes, IdleWork, DoFrame DEF DInv, TypeOK, GoesOn
<1>5. reg \in [Dec -> [st : Status, ans : Option \cup {None},
                      by : Comment \cup {Button, None}]]
  BY DEF DInv, TypeOK
<1>6. /\ out \in [st : Status, ans : Option \cup {None}, by : Comment \cup {Button, None}]
      /\ w.job = "answer" => out = [st |-> "answered", ans |-> w.reply.opt, by |-> w.com]
      /\ w.job = "press" => out.by = Button
      /\ w.job \in {"clarify", "refuse"} => out.st # "answered"
      /\ reg[d].st # "absent" => out.st # "absent"
  <2>1. CASE w.job = "answer"
    BY <2>1, <1>2 DEF Outcome, Owns, Status
  <2>2. CASE w.job = "press"
    BY <2>2, <1>2 DEF Outcome, Owns, Status
  <2>3. CASE w.job = "clarify"
    <3>1. out = [reg[d] EXCEPT !.st = "clarification_requested"]
      BY <2>3 DEF Outcome
    <3> QED BY <2>3, <3>1, <1>3, <1>5 DEF Status
  <2>4. CASE w.job = "refuse"
    <3>1. out = reg[d]
      BY <2>4 DEF Outcome
    <3> QED BY <2>4, <3>1, <1>3, <1>5
  <2> QED BY <1>1, <2>1, <2>2, <2>3, <2>4 DEF Locking
<1> HIDE DEF out
<1>7. /\ reg' \in [Dec -> [st : Status, ans : Option \cup {None},
                           by : Comment \cup {Button, None}]]
      /\ reg'[d] = out /\ \A e \in Dec : e # d => reg'[e] = reg[e]
  BY <1>1, <1>3, <1>5, <1>6
<1>8. handled' \subseteq Dec \X Comment \X Nat
  <2>1. w.reply.rev \in Nat
    BY <1>1 DEF Work, Reply
  <2>2. w.job \in {"clarify", "refuse"} => w.com \in Comment
    BY <1>2 DEF Owns
  <2> QED BY <1>1, <1>3, <2>1, <2>2 DEF DInv, TypeOK
<1>9. TypeOK'
  BY <1>1, <1>4, <1>7, <1>8 DEF DInv, TypeOK
<1>10. ASSUME NEW x \in Process PROVE (Holds(x) /\ Owns(x) /\ Reached(x))'
  <2>1. CASE x = p
    <3>1. CASE next = Idle
      BY <2>1, <3>1, <1>4, IdleWork DEF Holds, Owns, Reached, Locking
    <3>2. CASE GoesOn(p, next)
      BY <2>1, <3>2, <1>1, <1>4 DEF GoesOn, Holds, Owns, Reached, Locking
    <3> QED BY <3>1, <3>2, <1>goes
  <2>2. CASE x # p
    <3>1. Holds(x) /\ Owns(x) /\ Reached(x)
      BY DEF DInv
    <3>2. work[x].job \notin Locking
      BY <2>2, <3>1, <1>3 DEF Holds
    <3>3. Owns(x)'
      BY <2>2, <3>1, <1>1, <1>3, <1>4, <1>6, <1>7 DEF Owns
    <3> QED BY <2>2, <3>1, <3>2, <3>3, <1>4 DEF Holds, Reached, Locking
  <2> QED BY <2>1, <2>2
<1>11. PostedOnce' /\ SaidWell'
  BY <1>1, <1>3, <1>6, <1>7, <1>9 DEF DInv, PostedOnce, SaidWell, TypeOK
<1>12. out.st = "answered" /\ out.by \in Comment => w.job = "answer"
  BY <1>1, <1>6, Names DEF Locking
<1>13. ASSUME NEW e \in Dec, e # d PROVE reg'[e] = reg[e]
  BY <1>7, <1>13
<1>14. FromIssue'
  <2>1. ASSUME NEW e \in Dec, reg'[e].st = "answered", reg'[e].by \in Comment
        PROVE  e \in posted
    <3>1. CASE e = d
      <4>1. reg'[e] = out
        BY <3>1, <1>7
      <4>2. w.job = "answer"
        BY <4>1, <2>1, <1>12
      <4> QED BY <3>1, <4>1, <4>2, <1>2, <1>6 DEF Owns
    <3>2. CASE e # d
      BY <2>1, <3>2, <1>13 DEF DInv, FromIssue, ByComment
    <3> QED BY <3>1, <3>2
  <2> QED BY <2>1, <1>1 DEF FromIssue, ByComment
<1>15. w.job = "answer" => \A q \in Deps[d] :
          entry[q][d] \in {"none", Recorded(w.reply.opt, w.reply.also)}
  BY <1>1, <1>2 DEF Reached
<1>16. w.job = "answer" =>
         /\ Recorded(w.reply.opt, w.reply.also) # "pending"
         /\ Words = {} => Recorded(w.reply.opt, w.reply.also) = w.reply.opt
  <2>1. w.job = "answer" => w.reply.opt \in Option /\ w.reply.also \in SUBSET Words
    BY <1>1, <1>2 DEF Owns, Work, Reply
  <2> QED BY <2>1, RecordedOption, Names
<1>17. Agrees'
  <2>1. ASSUME NEW e \in Dec, ByComment(e)', NEW q \in Deps[e]
        PROVE  /\ e \notin Pending(q)'
               /\ Words = {} => entry'[q][e] \in {"none", "pending", reg'[e].ans}
    <3>1. CASE e = d
      <4>1. reg'[e] = out
        BY <3>1, <1>7
      <4>2. w.job = "answer"
        BY <4>1, <2>1, <1>12 DEF ByComment
      <4>3. reg'[e].ans = w.reply.opt
        BY <4>1, <4>2, <1>6
      <4> QED BY <3>1, <4>2, <4>3, <1>1, <1>15, <1>16 DEF Pending
    <3>2. CASE e # d
      <4>1. ByComment(e) /\ reg'[e] = reg[e]
        BY <2>1, <3>2, <1>13 DEF ByComment
      <4> QED BY <4>1, <1>1 DEF DInv, Agrees, AnswerReachesLedger, RecordsTheChoice, Pending
    <3> QED BY <3>1, <3>2
  <2> QED BY <2>1 DEF Agrees, AnswerReachesLedger, RecordsTheChoice
<1> QED
  BY <1>9, <1>10, <1>11, <1>14, <1>17 DEF DInv

\* What people do concerns no job under way.
LEMMA SayStep ==
  ASSUME DInv, NEW c \in Comment, Say(c)
  PROVE  DInv'
<1>1. PICK k \in Kinds[c], also \in SUBSET Words :
        \E o \in IF k = "choice" THEN Option ELSE {None} :
         said' = [said EXCEPT ![c] =
                    [kind |-> k, opt |-> o, also |-> IF k = "choice" THEN also ELSE {},
                     rev |-> @.rev + 1]]
  BY DEF Say
<1>2. PICK o \in IF k = "choice" THEN Option ELSE {None} :
         said' = [said EXCEPT ![c] =
                    [kind |-> k, opt |-> o, also |-> IF k = "choice" THEN also ELSE {},
                     rev |-> said[c].rev + 1]]
  BY <1>1
<1> DEFINE al == IF k = "choice" THEN also ELSE {}
           r == [kind |-> k, opt |-> o, also |-> al, rev |-> said[c].rev + 1]
<1>3. k \in {"choice", "unclear", "refused"} /\ said[c] \in Reply
  BY DecisionAssumption DEF DecisionAssumption, DInv, TypeOK
<1>4. al \in SUBSET Words /\ said[c].rev + 1 \in Nat
  BY <1>3 DEF Reply
<1> HIDE DEF al
<1>5. r \in Reply /\ Meant(r)
  BY <1>2, <1>3, <1>4 DEF Reply, Kind, Meant
<1>6. said' = [said EXCEPT ![c] = r]
  BY <1>2 DEF al
<1> HIDE DEF r
<1>7. /\ UNCHANGED <<reg, handled, posted, entry, blocker, done, snap, work, lock, faults>>
      /\ history' = [history EXCEPT ![c] = IF c \in Question /\ said[c].rev > 0
                                       THEN @ \cup {said[c]} ELSE @]
  BY DEF Say, ledger
<1>8. /\ \A e \in Comment : history'[e] \subseteq history[e] \cup {said[e]}
      /\ history' \in [Comment -> SUBSET Reply]
  BY <1>3, <1>7 DEF DInv, TypeOK
<1>9. TypeOK'
  BY <1>5, <1>6, <1>7, <1>8 DEF DInv, TypeOK
<1>10. SaidWell'
  <2>1. \A e \in Comment : said'[e] = said[e] \/ said'[e] = r
    BY <1>6 DEF DInv, TypeOK
  <2> QED BY <1>5, <1>8, <2>1 DEF DInv, SaidWell
<1>11. \A p \in Process : (Holds(p) /\ Owns(p) /\ Reached(p))'
  BY <1>7 DEF DInv, Holds, Owns, Reached
<1>12. PostedOnce' /\ FromIssue' /\ Agrees'
  BY <1>7 DEF DInv, PostedOnce, FromIssue, Agrees, AnswerReachesLedger,
     RecordsTheChoice, ByComment, Pending
<1> QED
  BY <1>9, <1>10, <1>11, <1>12 DEF DInv

LEMMA StutterStep ==
  ASSUME DInv, (\E q \in Request : Finish(q)) \/ UNCHANGED vars
  PROVE  DInv'
<1>1. /\ UNCHANGED <<reg, handled, posted, entry, blocker, said, history, snap, work, lock, faults>>
      /\ done' \subseteq Request
  BY DEF Finish, vars, ledger, issue, DInv, TypeOK
<1>2. TypeOK'
  BY <1>1 DEF DInv, TypeOK
<1>3. \A p \in Process : (Holds(p) /\ Owns(p) /\ Reached(p))'
  BY <1>1 DEF DInv, Holds, Owns, Reached
<1>4. PostedOnce' /\ FromIssue' /\ SaidWell' /\ Agrees'
  BY <1>1 DEF DInv, PostedOnce, FromIssue, SaidWell, Agrees, AnswerReachesLedger,
     RecordsTheChoice, ByComment, Pending
<1> QED
  BY <1>2, <1>3, <1>4 DEF DInv

-----------------------------------------------------------------------------
(* Theorems. *)

\* The invariant is kept by every step.
THEOREM DecisionInvariant == Spec => []DInv
<1>1. DInv /\ [Next]_vars => DInv'
  <2> SUFFICES ASSUME DInv, [Next]_vars PROVE DInv'
    OBVIOUS
  <2>1. CASE \E d \in Dec : Register(d) \/ Post(d)
    BY <2>1, RegisterStep, PostStep
  <2>2. CASE \E d \in Dec, q \in Request : AddEntry(d, q)
    BY <2>2, AddEntryStep
  <2>3. CASE \E c \in Comment : Say(c)
    BY <2>3, SayStep
  <2>4. CASE (\E q \in Request : Finish(q)) \/ UNCHANGED vars
    BY <2>4, StutterStep
  <2>5. CASE \E p \in Poller : Judge(p) \/ Note(p)
    BY <2>5, JudgeStep, NoteStep
  <2>6. CASE \E p \in Poller, c \in Comment : Fetch(p, c)
    BY <2>6, FetchStep
  <2>7. CASE \E d \in Dec, o \in Option : Press(d, o)
    BY <2>7, PressStep
  <2>8. CASE \E p \in Process, q \in Request : WriteBlocker(p, q) \/ Resolve(p, q)
    BY <2>8, WriteBlockerStep, ResolveStep
  <2>9. CASE \E p \in Process : ClearBlocker(p) \/ Save(p) \/ Crash(p)
    BY <2>9, ClearBlockerStep, SaveStep, CrashStep
  <2> QED BY <2>1, <2>2, <2>3, <2>4, <2>5, <2>6, <2>7, <2>8, <2>9 DEF Next
<1> QED
  BY <1>1, InitDInv, PTL DEF Spec

\* Types, for every value of the constants.
THEOREM DecisionTypes == Spec => []TypeOK
<1>1. DInv => TypeOK
  BY DEF DInv
<1> QED BY <1>1, DecisionInvariant, PTL

\* However many ledger calls fail on the way and whichever processes crash, no
\* request waits for a decision that a comment answered.
THEOREM AnswersReachTheLedger == Spec => []AnswerReachesLedger
<1>1. DInv => AnswerReachesLedger
  BY DEF DInv, Agrees
<1> QED BY <1>1, DecisionInvariant, PTL

\* When no reply names an option other than the one it picks, registry and
\* ledger record the same choice. Without the hypothesis it fails.
THEOREM LedgerNamesIt ==
  ASSUME Words = {}
  PROVE  Spec => []LedgerNamesTheChoice
<1>1. DInv => LedgerNamesTheChoice
  BY DEF DInv, Agrees, AnswerReachesLedger, RecordsTheChoice, LedgerNamesTheChoice, Pending
<1> QED BY <1>1, DecisionInvariant, PTL

\* The registry changes at a registration and when a job with the lock saves.
LEMMA AnswerKept ==
  ASSUME DInv, [Next]_vars
  PROVE  \A d \in Dec : reg[d].st = "answered" => reg'[d] = reg[d]
<1> SUFFICES ASSUME NEW d \in Dec, reg[d].st = "answered" PROVE reg'[d] = reg[d]
  OBVIOUS
<1>1. reg \in [Dec -> [st : Status, ans : Option \cup {None},
                      by : Comment \cup {Button, None}]]
  BY DEF DInv, TypeOK
<1>2. CASE \E e \in Dec : Register(e)
  BY <1>1, <1>2 DEF Register
<1>3. CASE \E p \in Process : Save(p)
  <2>1. PICK p \in Process : Save(p)
    BY <1>3
  <2>2. Holds(p) /\ work[p].job \in Locking
    BY <2>1 DEF DInv, Save, Locking
  <2> QED BY <2>1, <2>2, <1>1 DEF Save, Holds
<1>4. CASE UNCHANGED reg
  BY <1>4
<1>5. UNCHANGED reg \/ (\E e \in Dec : Register(e)) \/ (\E p \in Process : Save(p))
  BY DEF Next, Post, AddEntry, Say, Finish, Judge, Fetch, Note, Press, WriteBlocker, Resolve,
     ClearBlocker, Crash, vars
<1> QED BY <1>2, <1>3, <1>4, <1>5

\* An answer is final.
THEOREM AnswersAreFinal == Spec => AnswerIsFinal
<1>1. DInv /\ [Next]_vars =>
        [\A d \in Dec : reg[d].st = "answered" => reg'[d] = reg[d]]_reg
  BY AnswerKept
<1> QED BY <1>1, DecisionInvariant, PTL DEF Spec, AnswerIsFinal

\* Only a job that clarifies or refuses lets a poller block a request.
LEMMA LateReply ==
  ASSUME DInv, [Next]_vars, NEW p \in Poller, NEW q \in Request, NEW d \in Dec,
         work'[p] # work[p], blocker[q] # d, blocker'[q] = d
  PROVE  reg[d].st # "answered"
<1>1. /\ work \in [Process -> Work] /\ blocker \in [Request -> Dec \cup {None}]
      /\ p \in Process
  BY DEF DInv, TypeOK, Process
<1>2. blocker' # blocker
  OBVIOUS
<1>3. \/ \E x \in Process, k \in Request : WriteBlocker(x, k)
      \/ \E x \in Process : ClearBlocker(x)
  BY <1>2 DEF Next, Register, Screened, Post, AddEntry, Say, Finish, Judge, Note, Fetch,
     Press, Resolve, Save, Crash, vars, ledger
<1>4. CASE \E x \in Process : ClearBlocker(x)
  BY <1>1, <1>2, <1>4, Names DEF ClearBlocker
<1>5. CASE \E x \in Process, k \in Request : WriteBlocker(x, k)
  <2>1. PICK x \in Process, k \in Request : WriteBlocker(x, k)
    BY <1>5
  <2>2. \E w : Do(x, w)
    BY <2>1 DEF WriteBlocker, Fails, FallBack, Abort
  <2>3. x = p
    BY <2>2, <1>1 DEF Do
  <2>4. blocker' = [blocker EXCEPT ![k] = work[p].dec]
    BY <2>1, <2>3, <1>2 DEF WriteBlocker
  <2>5. d = work[p].dec
    BY <2>4, <1>1
  <2>6. Holds(p) /\ Owns(p) /\ p \notin Dec
    BY <1>1, Names DEF DInv
  <2>7. work[p].job \in {"clarify", "refuse", "register"}
    BY <2>1, <2>3 DEF WriteBlocker
  <2> QED BY <2>5, <2>6, <2>7 DEF Holds, Owns, Locking
<1> QED BY <1>3, <1>4, <1>5

\* A reply to an answered decision blocks nothing.
THEOREM LateRepliesAreHarmless == Spec => LateReplyBlocksNothing
<1>1. DInv /\ [Next]_vars =>
        [\A p \in Poller, q \in Request, d \in Dec :
           work'[p] # work[p] /\ blocker[q] # d /\ blocker'[q] = d
             => reg[d].st # "answered"]_<<work, blocker, reg>>
  BY LateReply
<1> QED BY <1>1, DecisionInvariant, PTL DEF Spec, LateReplyBlocksNothing

-----------------------------------------------------------------------------
(* The reminders. *)

Busy == {"load", "save", "merge", "state"}

\* What a round holds at each place, and when it has a copy of the notify state.
Fits(r, c) ==
  /\ r.at \in Busy => r.cur \in Item
  /\ r.at \in {"idle", "ledger"} => r.todo = {} /\ r.cur = None
  /\ c # None => r.at = "save"

RoundShape(l) == Fits(loop[l], copy[l])
RType == ReminderTypeOK /\ \A l \in Loop : RoundShape(l)

\* The round read that a comment had answered the decision.
Told(l, d) ==
  loop[l].seen[d].rec.st = "answered" /\ loop[l].seen[d].rec.by \in Comment

\* An entry of the ledger is about a decision the request depends on.
InScope ==
  /\ \A q \in Request, d \in Dec : entry[q][d] # "none" => q \in Deps[d]
  /\ \A d \in Dec : work[d].job = "register" => work[d].todo \subseteq Deps[d]

SeenTrue == \A l \in Loop, d \in Dec : Told(l, d) => ByComment(d)
AInv == RType /\ InScope /\ SeenTrue /\ AnsweredIsNotAsked

-----------------------------------------------------------------------------
(* The decision workflow goes on undisturbed. *)

LEMMA DecisionStep ==
  ASSUME [RNext]_allvars
  PROVE  [Next]_vars
<1>1. CASE Next
  BY <1>1
<1>2. CASE \E l \in Loop : MergeMeta(l)
  BY <1>2 DEF MergeMeta, Reread, vars, ledger
<1>3. CASE UNCHANGED allvars
  BY <1>3 DEF allvars, vars, ledger
<1>4. CASE \/ \E l \in Loop : \/ ScanRegistry(l) \/ ScanLedger(l)
                              \/ (\E i \in loop[l].todo : Send(l, i))
                              \/ LoadState(l) \/ SaveState(l) \/ NoteReminder(l) \/ Die(l)
           \/ \E p \in Other : LoadState(p) \/ SaveState(p)
           \/ \E d \in Dec : StopTopic(d) \/ StopNoted(d)
           \/ Tick
  BY <1>4 DEF ScanRegistry, ScanLedger, Send, LoadState, SaveState, NoteReminder, Die,
     StopTopic, StopNoted, Tick
<1> QED BY <1>1, <1>2, <1>3, <1>4 DEF RNext, LoopStep

\* The workflow with reminders implements the workflow: the reminders write to
\* the registry and the ledger, but nothing that the decisions are made of.
THEOREM RemindersImplementDecisions == RemindersSpec => Spec
<1>1. RInit => Init
  BY DEF RInit
<1> QED BY <1>1, DecisionStep, PTL DEF RemindersSpec, Spec

\* An answer survives the merges that write the whole registry back.
THEOREM AnswersSurvive == RemindersSpec => AnswerIsFinal
  BY RemindersImplementDecisions, AnswersAreFinal, PTL

-----------------------------------------------------------------------------
(* Types. *)

LEMMA LessTyped == \A k \in 0..Cadence : Less(k) \in 0..Cadence
  BY ReminderAssumption DEF ReminderAssumption, Less

LEMMA LaterTyped == \A s \in Stamp \cup {None} : Later(s) \in Stamp \cup {None}
  BY LessTyped DEF Later, Stamp

LEMMA LaterStateTyped == \A s \in State : LaterState(s) \in State
<1> SUFFICES ASSUME NEW s \in State PROVE LaterState(s) \in State
  OBVIOUS
<1>1. s.rem \in [Dec -> Stamp \cup {None}] /\ s.sent \in Signatures
  BY DEF State
<1>2. [d \in Dec |-> Later(s.rem[d])] \in [Dec -> Stamp \cup {None}]
  BY <1>1, LaterTyped
<1>3. [g \in DOMAIN s.sent |-> Less(s.sent[g])] \in Signatures
  BY <1>1, LessTyped DEF Signatures
<1> QED BY <1>2, <1>3 DEF LaterState, State

LEMMA ItemFacts ==
  \A i \in Item : /\ Signature(i) \in Dec \X Source \X (0..1)
                  /\ NextStamp(i) \in Stamp /\ i.d \in Dec
  BY ReminderAssumption DEF ReminderAssumption, Item, Signature, NextStamp, Stamp

LEMMA AsleepTyped == Asleep \in Round /\ Asleep.at = "idle" /\ Asleep.todo = {}
                     /\ Asleep.cur = None /\ Asleep.seen = Unread
  BY DEF Asleep, Unread, Round, Places, Record, Status, Item

LEMMA GotoFrame ==
  ASSUME loop \in [Loop -> Round], NEW l \in Loop, NEW r \in Round, Goto(l, r)
  PROVE  /\ loop' \in [Loop -> Round] /\ loop'[l] = r
         /\ \A k \in Loop : k # l => loop'[k] = loop[k]
  BY DEF Goto

LEMMA OnwardFrame ==
  ASSUME loop \in [Loop -> Round], NEW l \in Loop, NEW todo \in SUBSET Item,
         Onward(l, todo)
  PROVE  /\ loop' \in [Loop -> Round]
         /\ loop'[l].at \in {"idle", "send"} /\ loop'[l].cur = None
         /\ loop'[l].at = "idle" => loop'[l].todo = {}
         /\ loop'[l].todo = todo
         /\ loop'[l].seen \in {Unread, loop[l].seen}
         /\ \A k \in Loop : k # l => loop'[k] = loop[k]
<1> DEFINE r == IF todo = {} THEN Asleep
                ELSE [loop[l] EXCEPT !.at = "send", !.todo = todo, !.cur = None]
<1>1. r \in Round
  BY AsleepTyped DEF Round, Places
<1>2. Goto(l, r)
  BY DEF Onward
<1>3. /\ r.at \in {"idle", "send"} /\ r.cur = None /\ r.todo = todo
      /\ r.at = "idle" => r.todo = {}
      /\ r.seen \in {Unread, loop[l].seen}
  BY AsleepTyped DEF Round
<1> HIDE DEF r
<1> QED BY <1>1, <1>2, <1>3, GotoFrame

LEMMA PastTyped ==
  \A a, b \in Stamp \cup {None} : Past(a, b) \in Stamp
  BY ReminderAssumption DEF ReminderAssumption, Past, Stamp

LEMMA InitRType == RInit => RType
<1> SUFFICES ASSUME RInit PROVE RType
  OBVIOUS
<1>1. sent \in Signatures
  BY ReminderAssumption DEF ReminderAssumption, RInit, Signatures
<1>2. ReminderTypeOK
  BY <1>1, AsleepTyped, ReminderAssumption
     DEF ReminderAssumption, ReminderTypeOK, RInit, State, Stamp
<1>3. \A l \in Loop : RoundShape(l)
  BY AsleepTyped DEF RInit, RoundShape, Fits, Busy
<1> QED BY <1>2, <1>3 DEF RType

\* One loop goes on, with a round that fits its copy of the notify state.
LEMMA Moved ==
  ASSUME RType, NEW l \in Loop, NEW r \in Round, Goto(l, r),
         copy' \in [Loop \cup Other -> State \cup {None}],
         \A p \in Loop : p # l => copy'[p] = copy[p],
         Fits(r, copy'[l])
  PROVE  /\ loop' \in [Loop -> Round]
         /\ \A k \in Loop : RoundShape(k)'
<1>1. /\ loop' \in [Loop -> Round] /\ loop'[l] = r
      /\ \A k \in Loop : k # l => loop'[k] = loop[k]
  BY GotoFrame DEF RType, ReminderTypeOK
<1>2. ASSUME NEW k \in Loop, k # l PROVE RoundShape(k)'
  BY <1>1, <1>2 DEF RType, RoundShape
<1>3. RoundShape(l)'
  BY <1>1 DEF RoundShape
<1> QED BY <1>1, <1>2, <1>3

LEMMA MovedOn ==
  ASSUME RType, NEW l \in Loop, NEW todo \in SUBSET Item, Onward(l, todo),
         copy' = copy, copy[l] = None
  PROVE  /\ loop' \in [Loop -> Round]
         /\ \A k \in Loop : RoundShape(k)'
<1> DEFINE r == IF todo = {} THEN Asleep
                ELSE [loop[l] EXCEPT !.at = "send", !.todo = todo, !.cur = None]
<1>1. r \in Round
  BY AsleepTyped DEF Round, Places, RType, ReminderTypeOK
<1>2. Goto(l, r)
  BY DEF Onward
<1>3. r.at \in {"idle", "send"} /\ r.cur = None /\ (r.at = "idle" => r.todo = {})
  BY AsleepTyped DEF Round, RType, ReminderTypeOK
<1> HIDE DEF r
<1> QED BY <1>1, <1>2, <1>3, Moved DEF Fits, Busy, RType, ReminderTypeOK

LEMMA ScanRegistryTyped ==
  ASSUME RType, TypeOK, NEW l \in Loop, ScanRegistry(l)
  PROVE  RType'
<1> DEFINE seen == [d \in Dec |-> [rec |-> reg[d], stop |-> d \in stopped, own |-> meta[d]]]
           r == [loop[l] EXCEPT !.at = "ledger", !.seen = seen]
<1>1. seen \in [Dec -> Record]
  BY DEF TypeOK, RType, ReminderTypeOK, Record
<1>2. /\ r \in Round /\ r.at = "ledger" /\ r.todo = loop[l].todo /\ r.cur = loop[l].cur
  BY <1>1 DEF Round, Places, RType, ReminderTypeOK
<1>3. Fits(r, copy[l])
  BY <1>2 DEF RType, RoundShape, Fits, ScanRegistry, Busy
<1>4. Goto(l, r) /\ UNCHANGED <<stopped, meta, twin, rem, sent, copy, stopping, mishaps, quiet>>
  BY DEF ScanRegistry
<1> HIDE DEF r
<1>5. loop' \in [Loop -> Round] /\ \A k \in Loop : RoundShape(k)'
  BY <1>2, <1>3, <1>4, Moved DEF RType, ReminderTypeOK
<1> QED BY <1>4, <1>5 DEF RType, ReminderTypeOK

LEMMA DueTyped ==
  ASSUME RType, NEW seen \in [Dec -> Record]
  PROVE  DueItems(seen) \in SUBSET Item
<1>1. /\ rem \in [Dec -> Stamp \cup {None}]
      /\ twin \in [Request -> [Dec -> Stamp \cup {None}]]
  BY DEF RType, ReminderTypeOK, State
<1>2. \A d \in Dec : seen[d].own \in Stamp \cup {None}
  BY DEF Record
<1>3. \A d \in Dec : Past(seen[d].own, rem[d]).n \in 0..1
  BY <1>1, <1>2, PastTyped DEF Stamp
<1>4. \A d \in Dec, q \in Request : Past(twin[q][d], rem[d]).n \in 0..1
  BY <1>1, PastTyped DEF Stamp
<1>5. \A d \in Dec : (\E q \in Request : Waits(q, d)) =>
        (CHOOSE q \in Request : Waits(q, d)) \in Request
  OBVIOUS
<1> QED BY <1>3, <1>4, <1>5 DEF DueItems, Item, Source

LEMMA ScanLedgerTyped ==
  ASSUME RType, NEW l \in Loop, ScanLedger(l)
  PROVE  RType'
<1>1. loop[l].seen \in [Dec -> Record] /\ copy[l] = None
  BY DEF RType, ReminderTypeOK, Round, RoundShape, Fits, ScanLedger
<1>2. UNCHANGED <<stopped, meta, twin, rem, sent, copy, stopping, mishaps, quiet>>
  BY DEF ScanLedger
<1>3. PICK todo \in SUBSET Item : Onward(l, todo)
  BY <1>1, DueTyped DEF ScanLedger
<1>4. loop' \in [Loop -> Round] /\ \A k \in Loop : RoundShape(k)'
  BY <1>1, <1>2, <1>3, MovedOn
<1> QED BY <1>2, <1>4 DEF RType, ReminderTypeOK

LEMMA MishapTyped ==
  ASSUME mishaps \in 0..MaxMishaps, Mishap
  PROVE  mishaps' \in 0..MaxMishaps
  BY ReminderAssumption DEF ReminderAssumption, Mishap

LEMMA SendTyped ==
  ASSUME RType, NEW l \in Loop, NEW i \in loop[l].todo, Send(l, i)
  PROVE  RType'
<1>1. /\ loop[l] \in Round /\ i \in Item /\ loop[l].at = "send" /\ copy[l] = None
      /\ loop[l].todo \ {i} \in SUBSET Item
  BY DEF RType, ReminderTypeOK, Round, RoundShape, Fits, Send
<1>2. UNCHANGED <<stopped, meta, twin, rem, sent, copy, stopping, quiet>>
  BY DEF Send
<1>3. mishaps' \in 0..MaxMishaps
  BY MishapTyped DEF Send, RType, ReminderTypeOK
<1>4. loop' \in [Loop -> Round] /\ \A k \in Loop : RoundShape(k)'
  <2> DEFINE r == [loop[l] EXCEPT !.at = "load", !.todo = @ \ {i}, !.cur = i]
  <2>1. r \in Round /\ Fits(r, None)
    BY <1>1 DEF Round, Places, Fits, Busy
  <2>2. Goto(l, r) \/ Onward(l, loop[l].todo \ {i})
    BY DEF Send
  <2> HIDE DEF r
  <2>3. CASE Goto(l, r)
    BY <1>1, <1>2, <2>1, <2>3, Moved DEF RType, ReminderTypeOK
  <2>4. CASE Onward(l, loop[l].todo \ {i})
    BY <1>1, <1>2, <2>4, MovedOn
  <2> QED BY <2>2, <2>3, <2>4
<1> QED BY <1>2, <1>3, <1>4 DEF RType, ReminderTypeOK

LEMMA LoadTyped ==
  ASSUME RType, NEW p \in Loop \cup Other, LoadState(p)
  PROVE  RType'
<1> DEFINE c == [rem |-> rem, sent |-> sent]
<1>1. c \in State /\ copy \in [Loop \cup Other -> State \cup {None}]
  BY DEF RType, ReminderTypeOK
<1>2. copy' = [copy EXCEPT ![p] = c]
      /\ UNCHANGED <<stopped, meta, twin, rem, sent, stopping, quiet>>
  BY DEF LoadState
<1> HIDE DEF c
<1>3. /\ copy' \in [Loop \cup Other -> State \cup {None}]
      /\ \A x \in Loop \cup Other : x # p => copy'[x] = copy[x]
  BY <1>1, <1>2
<1>4. mishaps' \in 0..MaxMishaps
  BY MishapTyped DEF LoadState, RType, ReminderTypeOK
<1>5. loop' \in [Loop -> Round] /\ \A k \in Loop : RoundShape(k)'
  <2>1. CASE p \in Loop /\ loop[p].at = "load" /\ Goto(p, [loop[p] EXCEPT !.at = "save"])
    <3> DEFINE r == [loop[p] EXCEPT !.at = "save"]
    <3>1. r \in Round /\ r.at = "save" /\ r.cur = loop[p].cur
      BY <2>1 DEF Round, Places, RType, ReminderTypeOK
    <3>2. loop[p].cur \in Item
      BY <2>1 DEF RType, RoundShape, Fits, Busy
    <3>3. Goto(p, r)
      BY <2>1
    <3> HIDE DEF r
    <3>4. Fits(r, copy'[p])
      BY <3>1, <3>2 DEF Fits, Busy
    <3> QED BY <2>1, <1>3, <3>1, <3>3, <3>4, Moved
  <2>2. CASE p \in Other /\ UNCHANGED loop
    BY <2>2, <1>3, ReminderAssumption DEF ReminderAssumption, RType, ReminderTypeOK, RoundShape
  <2> QED BY <2>1, <2>2 DEF LoadState
<1> QED BY <1>2, <1>3, <1>4, <1>5 DEF RType, ReminderTypeOK

LEMMA SaveTyped ==
  ASSUME RType, NEW p \in Loop \cup Other, SaveState(p)
  PROVE  RType'
<1>1. copy[p] \in State /\ copy \in [Loop \cup Other -> State \cup {None}]
  BY DEF RType, ReminderTypeOK, SaveState
<1>2. /\ copy' = [copy EXCEPT ![p] = None] /\ rem' = copy[p].rem
      /\ UNCHANGED <<stopped, meta, twin, stopping, mishaps>>
  BY DEF SaveState
<1>3. /\ copy' \in [Loop \cup Other -> State \cup {None}] /\ copy'[p] = None
      /\ \A x \in Loop \cup Other : x # p => copy'[x] = copy[x]
  BY <1>1, <1>2
<1>4. /\ [rem |-> rem', sent |-> sent'] \in State
      /\ quiet' \in [Dec -> 0..Cadence]
      /\ loop' \in [Loop -> Round] /\ \A k \in Loop : RoundShape(k)'
  <2>1. CASE p \in Loop
    <3> DEFINE i == loop[p].cur
               r == [loop[p] EXCEPT !.at = "merge"]
    <3>1. loop[p] \in Round /\ i \in Item
      BY <2>1 DEF RType, ReminderTypeOK, RoundShape, Fits, SaveState, Busy
    <3>2. /\ sent' = [copy[p].sent EXCEPT ![Signature(i)] = Cadence]
          /\ quiet' = [quiet EXCEPT ![i.d] = IF i.src = "registry" THEN Cadence ELSE @]
          /\ Goto(p, r)
      BY <2>1 DEF SaveState
    <3>3. r \in Round /\ r.at = "merge" /\ r.cur = i
      BY <3>1 DEF Round, Places
    <3>4. Fits(r, copy'[p])
      BY <1>3, <3>1, <3>3 DEF Fits, Busy
    <3>5. Cadence \in 0..Cadence /\ Signature(i) \in Dec \X Source \X (0..1) /\ i.d \in Dec
      BY <3>1, ItemFacts, ReminderAssumption DEF ReminderAssumption
    <3>6. quiet \in [Dec -> 0..Cadence]
      BY DEF RType, ReminderTypeOK
    <3> HIDE DEF i, r
    <3>7. quiet' \in [Dec -> 0..Cadence]
      BY <3>2, <3>5, <3>6
    <3>8. [rem |-> rem', sent |-> sent'] \in State
      BY <1>1, <1>2, <3>2, <3>5 DEF State, Signatures
    <3>9. loop' \in [Loop -> Round] /\ \A k \in Loop : RoundShape(k)'
      BY <2>1, <1>3, <3>2, <3>3, <3>4, Moved
    <3> QED BY <3>7, <3>8, <3>9
  <2>2. CASE p \notin Loop
    <3>1. sent' = copy[p].sent /\ UNCHANGED <<quiet, loop>>
      BY <2>2 DEF SaveState
    <3>2. [rem |-> rem', sent |-> sent'] = copy[p]
      BY <1>1, <1>2, <3>1 DEF State
    <3> QED BY <1>1, <1>3, <2>2, <3>1, <3>2 DEF RType, ReminderTypeOK, RoundShape
  <2> QED BY <2>1, <2>2
<1> QED BY <1>2, <1>3, <1>4 DEF RType, ReminderTypeOK

LEMMA MergeTyped ==
  ASSUME RType, NEW l \in Loop, MergeMeta(l)
  PROVE  RType'
<1> DEFINE i == loop[l].cur
           r == [loop[l] EXCEPT !.at = "state"]
           found == CHOOSE q \in Request : entry[q][i.d] # "none"
<1>1. /\ loop[l] \in Round /\ loop[l].at = "merge" /\ i \in Item /\ copy[l] = None
      /\ loop[l].todo \in SUBSET Item
  BY DEF RType, ReminderTypeOK, Round, RoundShape, Fits, MergeMeta, Busy
<1>2. r \in Round /\ Fits(r, None)
  BY <1>1 DEF Round, Places, Fits, Busy
<1>3. NextStamp(i) \in Stamp /\ i.d \in Dec
  BY <1>1, ItemFacts
<1>4. UNCHANGED <<stopped, rem, sent, copy, stopping, quiet>>
  BY DEF MergeMeta
<1>5. Goto(l, r) \/ Onward(l, loop[l].todo)
  BY DEF MergeMeta
<1>6. meta' \in [Dec -> Stamp \cup {None}]
  <2>1. meta \in [Dec -> Stamp \cup {None}]
    BY DEF RType, ReminderTypeOK
  <2>2. UNCHANGED meta \/ meta' = [meta EXCEPT ![i.d] = NextStamp(i)]
    BY DEF MergeMeta
  <2> QED BY <1>3, <2>1, <2>2
<1>7. twin' \in [Request -> [Dec -> Stamp \cup {None}]]
  <2>1. twin \in [Request -> [Dec -> Stamp \cup {None}]]
    BY DEF RType, ReminderTypeOK
  <2>2. \/ UNCHANGED twin
        \/ (\E q \in Request : entry[q][i.d] # "none")
           /\ twin' = [twin EXCEPT ![found][i.d] = NextStamp(i)]
    BY DEF MergeMeta
  <2>3. (\E q \in Request : entry[q][i.d] # "none") => found \in Request
    OBVIOUS
  <2> HIDE DEF found, i
  <2>4. ASSUME found \in Request, twin' = [twin EXCEPT ![found][i.d] = NextStamp(i)]
        PROVE  twin' \in [Request -> [Dec -> Stamp \cup {None}]]
    <3>1. [twin[found] EXCEPT ![i.d] = NextStamp(i)] \in [Dec -> Stamp \cup {None}]
      BY <1>3, <2>1, <2>4
    <3> QED BY <2>1, <2>4, <3>1
  <2> QED BY <2>1, <2>2, <2>3, <2>4
<1>8. mishaps' \in 0..MaxMishaps
  BY MishapTyped DEF MergeMeta, RType, ReminderTypeOK
<1> HIDE DEF r
<1>9. loop' \in [Loop -> Round] /\ \A k \in Loop : RoundShape(k)'
  <2>1. CASE Goto(l, r)
    BY <1>1, <1>2, <1>4, <2>1, Moved DEF RType, ReminderTypeOK
  <2>2. CASE Onward(l, loop[l].todo)
    BY <1>1, <1>4, <2>2, MovedOn
  <2> QED BY <1>5, <2>1, <2>2
<1> QED BY <1>4, <1>6, <1>7, <1>8, <1>9 DEF RType, ReminderTypeOK

LEMMA NoteTyped ==
  ASSUME RType, NEW l \in Loop, NoteReminder(l)
  PROVE  RType'
<1>1. /\ loop[l] \in Round /\ loop[l].cur \in Item /\ copy[l] = None
      /\ loop[l].todo \in SUBSET Item
  BY DEF RType, ReminderTypeOK, Round, RoundShape, Fits, NoteReminder, Busy
<1>2. UNCHANGED <<stopped, meta, twin, sent, copy, stopping, quiet>>
  BY DEF NoteReminder
<1>3. loop' \in [Loop -> Round] /\ \A k \in Loop : RoundShape(k)'
  BY <1>1, <1>2, MovedOn DEF NoteReminder
<1>4. mishaps' \in 0..MaxMishaps
  BY MishapTyped DEF NoteReminder, RType, ReminderTypeOK
<1>5. [rem |-> rem', sent |-> sent'] \in State
  <2>1. rem \in [Dec -> Stamp \cup {None}] /\ sent \in Signatures
    BY DEF RType, ReminderTypeOK, State
  <2>2. rem' \in [Dec -> Stamp \cup {None}]
    BY <1>1, <2>1, ItemFacts DEF NoteReminder
  <2> QED BY <1>2, <2>1, <2>2 DEF State
<1> QED BY <1>2, <1>3, <1>4, <1>5 DEF RType, ReminderTypeOK

LEMMA DieTyped ==
  ASSUME RType, NEW l \in Loop, Die(l)
  PROVE  RType'
<1>1. copy \in [Loop \cup Other -> State \cup {None}]
  BY DEF RType, ReminderTypeOK
<1>2. /\ Goto(l, Asleep) /\ copy' = [copy EXCEPT ![l] = None]
      /\ UNCHANGED <<stopped, meta, twin, rem, sent, stopping, quiet>>
  BY DEF Die
<1>3. /\ copy' \in [Loop \cup Other -> State \cup {None}] /\ copy'[l] = None
      /\ \A p \in Loop : p # l => copy'[p] = copy[p]
  BY <1>1, <1>2
<1>4. Fits(Asleep, copy'[l])
  BY <1>3, AsleepTyped DEF Fits, Busy
<1>5. loop' \in [Loop -> Round] /\ \A k \in Loop : RoundShape(k)'
  BY <1>2, <1>3, <1>4, AsleepTyped, Moved
<1>6. mishaps' \in 0..MaxMishaps
  BY MishapTyped DEF Die, RType, ReminderTypeOK
<1> QED BY <1>2, <1>3, <1>5, <1>6 DEF RType, ReminderTypeOK

LEMMA StopTyped ==
  ASSUME RType, NEW d \in Dec, StopTopic(d) \/ StopNoted(d)
  PROVE  RType'
<1>1. /\ stopped' \subseteq Dec /\ stopping' \subseteq Dec
      /\ UNCHANGED <<meta, twin, sent, copy, loop, quiet>>
  BY DEF StopTopic, StopNoted, RType, ReminderTypeOK
<1>2. mishaps' \in 0..MaxMishaps
  BY MishapTyped DEF StopTopic, StopNoted, RType, ReminderTypeOK
<1>3. [rem |-> rem', sent |-> sent'] \in State
  <2>1. rem \in [Dec -> Stamp \cup {None}] /\ sent \in Signatures
    BY DEF RType, ReminderTypeOK, State
  <2>2. rem' \in [Dec -> Stamp \cup {None}]
    BY <2>1 DEF StopTopic, StopNoted
  <2> QED BY <1>1, <2>1, <2>2 DEF State
<1> QED BY <1>1, <1>2, <1>3 DEF RType, ReminderTypeOK, RoundShape

LEMMA TickTyped ==
  ASSUME RType, Tick
  PROVE  RType'
<1> DEFINE s == LaterState([rem |-> rem, sent |-> sent])
<1>1. s \in State
  BY LaterStateTyped DEF RType, ReminderTypeOK
<1>2. rem' = s.rem /\ sent' = s.sent
  BY DEF Tick
<1> HIDE DEF s
<1>3. [rem |-> rem', sent |-> sent'] \in State
  BY <1>1, <1>2 DEF State
<1>4. /\ meta' \in [Dec -> Stamp \cup {None}]
      /\ twin' \in [Request -> [Dec -> Stamp \cup {None}]]
      /\ quiet' \in [Dec -> 0..Cadence]
  BY LaterTyped, LessTyped DEF Tick, RType, ReminderTypeOK
<1>5. /\ copy' \in [Loop \cup Other -> State \cup {None}]
      /\ \A l \in Loop : copy[l] = None => copy'[l] = None
  BY LaterStateTyped DEF Tick, RType, ReminderTypeOK
<1>6. UNCHANGED <<stopped, stopping, loop, mishaps>> /\ \A l \in Loop : loop[l].at = "idle"
  BY DEF Tick
<1>7. \A l \in Loop : RoundShape(l)'
  BY <1>5, <1>6 DEF RType, RoundShape, Fits
<1> QED BY <1>3, <1>4, <1>5, <1>6, <1>7 DEF RType, ReminderTypeOK

LEMMA RTypeStep ==
  ASSUME RType, TypeOK, [RNext]_allvars
  PROVE  RType'
<1>1. CASE UNCHANGED rvars
  BY <1>1 DEF rvars, RType, ReminderTypeOK, RoundShape
<1>2. CASE \E l \in Loop : LoopStep(l) \/ Die(l)
  <2>1. PICK l \in Loop : LoopStep(l) \/ Die(l)
    BY <1>2
  <2> QED BY <2>1, ScanRegistryTyped, ScanLedgerTyped, SendTyped, LoadTyped, SaveTyped,
             MergeTyped, NoteTyped, DieTyped DEF LoopStep
<1>3. CASE \E p \in Other : LoadState(p) \/ SaveState(p)
  BY <1>3, LoadTyped, SaveTyped
<1>4. CASE \E d \in Dec : StopTopic(d) \/ StopNoted(d)
  BY <1>4, StopTyped
<1>5. CASE Tick
  BY <1>5, TickTyped
<1> QED BY <1>1, <1>2, <1>3, <1>4, <1>5 DEF RNext, allvars

\* Types, for any loops, notifiers, cadence and number of mishaps.
THEOREM RoundsAreTyped == RemindersSpec => []RType
  BY InitRType, RTypeStep, RemindersImplementDecisions, DecisionTypes, PTL DEF RemindersSpec

THEOREM ReminderTypes == RemindersSpec => []ReminderTypeOK
<1>1. RType => ReminderTypeOK
  BY DEF RType
<1> QED BY <1>1, RoundsAreTyped, PTL

-----------------------------------------------------------------------------
(* What a comment answered is not asked. *)

\* Who writes an entry of the ledger that was not there.
LEMMA EntriesInScope ==
  ASSUME DInv, InScope, [Next]_vars, NEW q \in Request, NEW d \in Dec,
         entry'[q][d] # "none"
  PROVE  q \in Deps[d]
<1>1. entry \in [Request -> [Dec -> {"none", "pending"} \cup Option]]
  BY DEF DInv, TypeOK
<1>2. CASE entry[q][d] # "none"
  BY <1>2 DEF InScope
<1>3. CASE \E e \in Dec, k \in Request : AddEntry(e, k)
  <2>1. PICK e \in Dec, k \in Request : AddEntry(e, k)
    BY <1>3
  <2>2. k \in Deps[e]
    BY <2>1 DEF InScope, AddEntry
  <2>3. CASE k = q /\ e = d
    BY <2>2, <2>3
  <2>4. CASE k # q \/ e # d
    <3>1. entry'[q][d] = entry[q][d]
      BY <1>1, <2>1, <2>4, EntryWrite DEF AddEntry
    <3> QED BY <3>1, <1>2
  <2> QED BY <2>3, <2>4
<1>4. CASE \E p \in Process, k \in Request : Resolve(p, k)
  <2>1. PICK p \in Process, k \in Request : Resolve(p, k)
    BY <1>4
  <2>2. CASE UNCHANGED entry
    BY <2>2, <1>2
  <2>3. CASE /\ Known(k, work[p].dec)
             /\ entry' = [entry EXCEPT ![k][work[p].dec] =
                            Recorded(work[p].reply.opt, work[p].reply.also)]
    <3>1. CASE k = q /\ work[p].dec = d
      BY <2>3, <3>1, <1>2 DEF Known
    <3>2. CASE k # q \/ work[p].dec # d
      <4>1. entry'[q][d] = entry[q][d]
        BY <1>1, <2>3, <3>2
      <4> QED BY <4>1, <1>2
    <3> QED BY <3>1, <3>2
  <2> QED BY <2>1, <2>2, <2>3 DEF Resolve
<1>5. \/ UNCHANGED entry \/ (\E e \in Dec, k \in Request : AddEntry(e, k))
      \/ (\E p \in Process, k \in Request : Resolve(p, k))
  BY DEF Next, Register, Post, Say, Finish, Judge, Note, Fetch, Press, WriteBlocker,
     ClearBlocker, Save, Crash, vars, ledger
<1> QED BY <1>2, <1>3, <1>4, <1>5

\* A registration goes through the dependencies of its decision.
LEMMA JobsInScope ==
  ASSUME DInv, InScope, [Next]_vars, NEW d \in Dec, work'[d].job = "register"
  PROVE  work'[d].todo \subseteq Deps[d]
<1>1. work \in [Process -> Work] /\ d \in Process
  BY DEF DInv, TypeOK, Process
<1>2. CASE work'[d] = work[d]
  BY <1>2 DEF InScope
<1>3. CASE \E p \in Process, w \in Work :
             /\ Do(p, w)
             /\ w.job = "register" => \/ work[p].job = "register" /\ w.todo \subseteq work[p].todo
                                      \/ w.todo \subseteq Deps[p]
  <2>1. PICK p \in Process, w \in Work :
             /\ Do(p, w)
             /\ w.job = "register" => \/ work[p].job = "register" /\ w.todo \subseteq work[p].todo
                                      \/ w.todo \subseteq Deps[p]
    BY <1>3
  <2>2. work'[p] = w /\ \A x \in Process : x # p => work'[x] = work[x]
    BY <1>1, <2>1, DoFrame
  <2> QED BY <1>1, <1>2, <2>1, <2>2 DEF InScope
<1>4. CASE \E p \in Process : Do(p, Idle)
  BY <1>3, <1>4, IdleWork
<1>5. CASE \E e \in Dec : Register(e)
  <2>1. PICK e \in Dec : Register(e)
    BY <1>5
  <2>2. PICK lost \in SUBSET (Deps[e] \ done) :
          Do(e, [[Idle EXCEPT !.job = "register", !.dec = e]
                   EXCEPT !.todo = (Deps[e] \ done) \ lost])
    BY <2>1, IdleWork DEF Register, Screened, Work
  <2> DEFINE w == [[Idle EXCEPT !.job = "register", !.dec = e]
                      EXCEPT !.todo = (Deps[e] \ done) \ lost]
  <2>3. Deps[e] \subseteq Request
    BY DecisionAssumption DEF DecisionAssumption
  <2>4. w \in Work /\ w.todo \subseteq Deps[e]
    BY <2>3, IdleWork DEF Work, Jobs
  <2>5. e \in Process
    BY DEF Process
  <2>6. Do(e, w)
    BY <2>2
  <2> HIDE DEF w
  <2> QED BY <1>3, <2>4, <2>5, <2>6
<1>6. CASE \E e \in Dec, k \in Request : AddEntry(e, k)
  <2>1. PICK e \in Dec, k \in Request : AddEntry(e, k)
    BY <1>6
  <2> DEFINE w == [work[e] EXCEPT !.cur = k]
  <2>2. e \in Process /\ Do(e, w)
    BY <2>1 DEF AddEntry, Process
  <2>3. w \in Work /\ w.job = work[e].job /\ w.todo = work[e].todo
    BY <1>1, <2>2 DEF Work
  <2> HIDE DEF w
  <2> QED BY <1>3, <2>2, <2>3
<1>7. CASE \E p \in Poller \cup {Button} : \A x \in Process : x # p => work'[x] = work[x]
  BY <1>1, <1>2, <1>7, Names
<1>8. CASE \E p \in Process, k \in Request : WriteBlocker(p, k)
  <2>1. PICK p \in Process, k \in Request : WriteBlocker(p, k)
    BY <1>8
  <2> DEFINE w == [work[p] EXCEPT !.todo = @ \ {k}, !.cur = None]
  <2>2. Do(p, w) \/ Fails(p)
    BY <2>1 DEF WriteBlocker
  <2>3. w \in Work /\ w.job = work[p].job /\ w.todo \subseteq work[p].todo
    BY <1>1 DEF Work
  <2> HIDE DEF w
  <2>4. CASE Do(p, w)
    BY <1>3, <2>3, <2>4
  <2>5. CASE Abort(p)
    BY <1>4, <2>5 DEF Abort
  <2>6. CASE Fails(p) /\ ~Abort(p)
    <3>1. work[p].com \in Question /\ \A x \in Process : x # p => work'[x] = work[x]
      BY <1>1, <2>6 DEF Fails, FallBack, Do
    <3>2. work[p].job \in {"clarify", "refuse"}
      BY <2>1, <3>1, Names DEF WriteBlocker, DInv, Owns
    <3>3. p \in Poller
      BY <3>2 DEF DInv, Owns
    <3> QED BY <1>7, <3>1, <3>3
  <2> QED BY <2>2, <2>4, <2>5, <2>6
<1>9. CASE \E p \in Process, k \in Request : Resolve(p, k)
  <2>1. PICK p \in Process, k \in Request : Resolve(p, k)
    BY <1>9
  <2>2. work[p].job \in {"answer", "press"}
    BY <2>1 DEF Resolve
  <2>3. p \in Poller \cup {Button}
    BY <2>2 DEF DInv, Owns
  <2>4. \A x \in Process : x # p => work'[x] = work[x]
    BY <1>1, <2>1 DEF Resolve, Fails, FallBack, Abort, Do
  <2> QED BY <1>7, <2>3, <2>4
<1>10. CASE \E p \in Poller, c \in Comment : Fetch(p, c)
  BY <1>1, <1>7, <1>10 DEF Fetch, FallBack, Do
<1>11. CASE \E o \in Option, e \in Dec : Press(e, o)
  BY <1>1, <1>7, <1>11 DEF Press, Do
<1>12. CASE UNCHANGED work
  BY <1>2, <1>12
<1>13. CASE \E p \in Poller : Judge(p)
  BY <1>1, <1>7, <1>13 DEF Judge, Screened, Do
<1>14. CASE \E p \in Process : ClearBlocker(p)
  <2>1. PICK p \in Process : ClearBlocker(p)
    BY <1>14
  <2>2. work[p].job \in {"answer", "press"}
    BY <2>1 DEF ClearBlocker
  <2>3. p \in Poller \cup {Button}
    BY <2>2 DEF DInv, Owns
  <2>4. \A x \in Process : x # p => work'[x] = work[x]
    BY <1>1, <2>1 DEF ClearBlocker, Fails, FallBack, Abort, Do
  <2> QED BY <1>7, <2>3, <2>4
<1>15. CASE \E p \in Process : Save(p)
  <2>1. PICK p \in Process : Save(p)
    BY <1>15
  <2>2. work[p].job \in {"answer", "press", "clarify", "refuse"}
    BY <2>1 DEF Save
  <2>3. p \in Poller \cup {Button}
    BY <2>2 DEF DInv, Owns
  <2>4. \A x \in Process : x # p => work'[x] = work[x]
    BY <1>1, <2>1 DEF Save, Do
  <2> QED BY <1>7, <2>3, <2>4
<1>16. CASE \E p \in Process : (p \in Dec /\ Post(p)) \/ (p \in Poller /\ Note(p)) \/ Crash(p)
  BY <1>4, <1>16 DEF Post, Note, Crash, Abort
<1> QED
  BY <1>5, <1>6, <1>8, <1>9, <1>10, <1>11, <1>12, <1>13, <1>14, <1>15, <1>16
     DEF Next, Say, Finish, vars, Process

LEMMA InScopeStep ==
  ASSUME DInv, InScope, [Next]_vars
  PROVE  InScope'
  BY EntriesInScope, JobsInScope DEF InScope

LEMMA ToldStays ==
  ASSUME DInv, [Next]_vars, NEW d \in Dec, ByComment(d)
  PROVE  ByComment(d)'
  BY AnswerKept DEF ByComment

\* What is due was not answered by a comment when the round began.
LEMMA DueIsOpen ==
  ASSUME DInv, InScope, NEW seen, NEW i \in DueItems(seen),
         \A d \in Dec : seen[d].rec.st = "answered" /\ seen[d].rec.by \in Comment
                          => ByComment(d)
  PROVE  ~(seen[i.d].rec.st = "answered" /\ seen[i.d].rec.by \in Comment)
<1>1. CASE i.d \in Dec /\ OpenIn(seen, i.d)
  BY <1>1 DEF OpenIn
<1>2. CASE i.d \in Dec /\ \E q \in Request : Waits(q, i.d)
  <2>1. PICK q \in Request : Waits(q, i.d)
    BY <1>2
  <2>2. q \in Deps[i.d] /\ i.d \in Pending(q)
    BY <1>2, <2>1 DEF InScope, Waits, Pending
  <2>3. ~ByComment(i.d)
    BY <1>2, <2>2 DEF DInv, Agrees, AnswerReachesLedger
  <2> QED BY <1>2, <2>3
<1> QED BY <1>1, <1>2 DEF DueItems

\* The items of a round are questions that it did not read an answer of.
Unasked(r) ==
  \A i \in r.todo \cup {x \in {r.cur} : x # None} :
    ~(r.seen[i.d].rec.st = "answered" /\ r.seen[i.d].rec.by \in Comment)

LEMMA OnwardUnasked ==
  ASSUME RType, NEW l \in Loop, NEW todo \in SUBSET Item, Onward(l, todo),
         \A i \in todo : ~(/\ loop[l].seen[i.d].rec.st = "answered"
                           /\ loop[l].seen[i.d].rec.by \in Comment)
  PROVE  /\ Unasked(loop'[l])
         /\ loop'[l].seen \in {Unread, loop[l].seen}
         /\ \A k \in Loop : k # l => loop'[k] = loop[k]
  BY OnwardFrame DEF RType, ReminderTypeOK, Unasked, Unread, Item

\* What a loop knows after a step that it takes itself.
Knows(l) ==
  /\ Unasked(loop'[l])
  /\ \A d \in Dec : Told(l, d)' => Told(l, d) \/ ByComment(d)
  /\ \A k \in Loop : k # l => loop'[k] = loop[k]

LEMMA UnreadUntold == \A d \in Dec : Unread[d].rec.st # "answered"
  BY DEF Unread

LEMMA LoopKnows ==
  ASSUME AInv, DInv, NEW l \in Loop, LoopStep(l) \/ Die(l)
  PROVE  Knows(l)
<1>1. /\ loop \in [Loop -> Round] /\ loop[l] \in Round /\ loop[l].todo \in SUBSET Item
      /\ Fits(loop[l], copy[l])
  BY DEF AInv, RType, ReminderTypeOK, RoundShape, Round
<1>2. /\ Unasked(loop[l])
      /\ \A d \in Dec : loop[l].seen[d].rec.st = "answered" /\ loop[l].seen[d].rec.by \in Comment
           => ByComment(d)
  BY DEF AInv, AnsweredIsNotAsked, Current, Unasked, SeenTrue, Told
<1>3. ASSUME NEW todo \in SUBSET Item, Onward(l, todo),
             \A i \in todo : ~(/\ loop[l].seen[i.d].rec.st = "answered"
                               /\ loop[l].seen[i.d].rec.by \in Comment)
      PROVE  Knows(l)
  BY <1>3, OnwardUnasked, UnreadUntold DEF AInv, Knows, Told
<1>4. ASSUME NEW todo \in SUBSET loop[l].todo, Onward(l, todo) PROVE Knows(l)
  BY <1>1, <1>2, <1>3, <1>4 DEF Unasked
<1>5. ASSUME NEW at \in Places, Goto(l, [loop[l] EXCEPT !.at = at]) PROVE Knows(l)
  <2>1. /\ loop'[l] = [loop[l] EXCEPT !.at = at]
        /\ \A k \in Loop : k # l => loop'[k] = loop[k]
    BY <1>1, <1>5 DEF Goto
  <2>2. loop'[l].todo = loop[l].todo /\ loop'[l].cur = loop[l].cur /\ loop'[l].seen = loop[l].seen
    BY <1>1, <2>1 DEF Round
  <2> QED BY <1>2, <2>1, <2>2 DEF Knows, Unasked, Told
<1>6. CASE ScanRegistry(l)
  <2> DEFINE seen == [d \in Dec |-> [rec |-> reg[d], stop |-> d \in stopped, own |-> meta[d]]]
             r == [loop[l] EXCEPT !.at = "ledger", !.seen = seen]
  <2>1. r.seen = seen /\ r.todo = {} /\ r.cur = None
    BY <1>1, <1>6 DEF Round, Fits, ScanRegistry
  <2>2. loop'[l] = r /\ \A k \in Loop : k # l => loop'[k] = loop[k]
    BY <1>1, <1>6 DEF ScanRegistry, Goto
  <2> QED BY <2>1, <2>2 DEF Knows, Unasked, Told, ByComment
<1>7. CASE ScanLedger(l)
  <2>1. Onward(l, DueItems(loop[l].seen)) /\ DueItems(loop[l].seen) \in SUBSET Item
    BY <1>1, <1>7, DueTyped DEF ScanLedger, AInv, Round
  <2>2. \A i \in DueItems(loop[l].seen) :
          ~(loop[l].seen[i.d].rec.st = "answered" /\ loop[l].seen[i.d].rec.by \in Comment)
    BY <1>2, DueIsOpen DEF AInv
  <2> QED BY <1>3, <2>1, <2>2
<1>8. CASE \E i \in loop[l].todo : Send(l, i)
  <2>1. PICK i \in loop[l].todo : Send(l, i)
    BY <1>8
  <2> DEFINE r == [loop[l] EXCEPT !.at = "load", !.todo = @ \ {i}, !.cur = i]
  <2>2. CASE Goto(l, r)
    <3>1. r.seen = loop[l].seen /\ r.todo \cup {r.cur} = loop[l].todo
      BY <1>1, <2>1 DEF Round
    <3>2. loop'[l] = r /\ \A k \in Loop : k # l => loop'[k] = loop[k]
      BY <1>1, <2>2 DEF Goto
    <3> HIDE DEF r
    <3> QED BY <1>2, <3>1, <3>2 DEF Knows, Unasked, Told
  <2>3. CASE Onward(l, loop[l].todo \ {i})
    BY <1>4, <2>3
  <2> QED BY <2>1, <2>2, <2>3 DEF Send
<1>9. CASE LoadState(l)
  BY <1>5, <1>9, ReminderAssumption DEF LoadState, ReminderAssumption, Places
<1>10. CASE SaveState(l)
  BY <1>5, <1>10 DEF SaveState, Places
<1>11. CASE MergeMeta(l)
  BY <1>4, <1>5, <1>11 DEF MergeMeta, Places
<1>12. CASE NoteReminder(l)
  BY <1>4, <1>12 DEF NoteReminder
<1>13. CASE Die(l)
  <2>1. loop'[l] = Asleep /\ \A k \in Loop : k # l => loop'[k] = loop[k]
    BY <1>1, <1>13 DEF Die, Goto
  <2> QED BY <2>1, AsleepTyped, UnreadUntold DEF Knows, Unasked, Told
<1> QED
  BY <1>6, <1>7, <1>8, <1>9, <1>10, <1>11, <1>12, <1>13 DEF LoopStep

LEMMA AInvStep ==
  ASSUME AInv, DInv, DInv', [RNext]_allvars
  PROVE  AInv'
<1>1. [Next]_vars
  BY DecisionStep
<1>2. RType' /\ InScope'
  BY <1>1, RTypeStep, InScopeStep DEF AInv, DInv
<1>3. CASE UNCHANGED loop
  <2>1. SeenTrue'
    BY <1>1, <1>3, ToldStays DEF AInv, SeenTrue, Told
  <2>2. AnsweredIsNotAsked'
    BY <1>3 DEF AInv, AnsweredIsNotAsked, Current
  <2> QED BY <1>2, <2>1, <2>2 DEF AInv
<1>4. CASE \E l \in Loop : LoopStep(l) \/ Die(l)
  <2>1. PICK l \in Loop : Knows(l)
    BY <1>4, LoopKnows
  <2>2. SeenTrue'
    BY <1>1, <2>1, ToldStays DEF Knows, AInv, SeenTrue, Told
  <2>3. AnsweredIsNotAsked'
    BY <2>1 DEF Knows, Unasked, AInv, AnsweredIsNotAsked, Current
  <2> QED BY <1>2, <2>2, <2>3 DEF AInv
<1>5. \/ UNCHANGED loop \/ \E l \in Loop : LoopStep(l) \/ Die(l)
  BY ReminderAssumption DEF ReminderAssumption, RNext, allvars, rvars, LoadState, SaveState,
     StopTopic, StopNoted, Tick
<1> QED BY <1>2, <1>3, <1>4, <1>5 DEF AInv

LEMMA InitAInv == RInit => AInv
<1> SUFFICES ASSUME RInit PROVE AInv
  OBVIOUS
<1>1. InScope
  BY IdleWork DEF InScope, RInit, Init, Process
<1>2. SeenTrue /\ AnsweredIsNotAsked
  BY AsleepTyped, UnreadUntold DEF RInit, SeenTrue, Told, AnsweredIsNotAsked, Current
<1> QED BY <1>1, <1>2, InitRType DEF AInv

\* Whatever fails on the way and however the loops, the pollers and the button
\* handler interleave: a question that a comment had answered is not sent.
THEOREM AnsweredAreNotAsked == RemindersSpec => []AnsweredIsNotAsked
<1>1. AInv => AnsweredIsNotAsked
  BY DEF AInv
<1> QED
  BY <1>1, InitAInv, AInvStep, RemindersImplementDecisions, DecisionInvariant, PTL
     DEF RemindersSpec
-----------------------------------------------------------------------------
(***************************************************************************)
(* SpacedReminders. A delivery is noted in the registry (Stamped), in the  *)
(* signatures of the notify state (Signed) and in its reminders (Noted).   *)
(* Until something goes wrong the three agree (Agreed), so whichever note  *)
(* the failure takes, another still keeps the question quiet.              *)
(***************************************************************************)
\* The hypothesis: one loop, and at most one of the failures of Mishap. Both are needed: two
\* loops send the same question side by side, and two failures take two notes away.
OneLoop == \A l, m \in Loop : l = m
OneMishap == MaxMishaps \in {0, 1}

\* Nobody has answered or stopped the question.
Live(d) == reg[d].st # "answered" /\ d \notin stopped

\* The reminder that is due next for the question, and its signature.
Due(d) == Past(meta[d], rem[d])
Sig(d, n) == <<d, "registry", 1 - n>>

\* What keeps a question quiet: the registry's own note; the merge under way, which
\* writes it; the signature of the reminder that would be next; the notify state's note.
Stamped(d) == meta[d] # None /\ meta[d].left >= quiet[d]
Merging(d) == \E l \in Loop : /\ loop[l].at = "merge"
                              /\ loop[l].cur.d = d /\ loop[l].cur.src = "registry"
Signed(d) == sent[Sig(d, Due(d).n)] >= quiet[d]
Noted(d) == meta[d] = None /\ rem[d] # None /\ rem[d].left >= quiet[d]

\* The questions of a round that come from the registry.
Asked(l) == {i \in loop[l].todo : i.src = "registry"}
Sending(l) == {i \in {loop[l].cur} : loop[l].at = "load" /\ i.src = "registry"}
Copying(l) == {i \in {loop[l].cur} : loop[l].at = "save" /\ i.src = "registry"}

\* A round has read the registry as it is, and asks of each question once.
Fresh(l) == loop[l].at = "ledger" => \A d \in Dec : loop[l].seen[d].own = meta[d]
Distinct(l) ==
  /\ \A i, j \in loop[l].todo : i.d = j.d => i = j
  /\ loop[l].at \in Busy => \A i \in loop[l].todo : i.d # loop[l].cur.d

Base == RType /\ stopping \subseteq stopped /\ \A l \in Loop : Fresh(l) /\ Distinct(l)

\* A recorded question is stamped, or about to be, and nobody asks it.
Kept ==
  /\ \A d \in Dec : Live(d) => quiet[d] = 0 \/ Stamped(d) \/ Merging(d)
  /\ \A l \in Loop : \A i \in Asked(l) \cup Sending(l) : Live(i.d) => quiet[i.d] = 0

Alone == \A o \in Other : copy[o] = None
Copied(l) ==
  copy[l] # None => copy[l].sent = sent /\ \A d \in Dec \ stopped : copy[l].rem[d] = rem[d]

\* As long as nothing has gone wrong, all notes agree.
Agreed ==
  /\ Alone
  /\ \A l \in Loop : Copied(l)
  /\ \A l \in Loop : \A i \in Asked(l) \cup Sending(l) \cup Copying(l) :
       i.d \notin stopped => i.n = Due(i.d).n
  /\ \A d \in Dec \ stopped : Merging(d) => Signed(d)

\* When the registry's note has been lost, the others stay.
Remembered ==
  /\ Alone
  /\ \A l \in Loop : Copied(l)
  /\ \A d \in Dec : Live(d) => quiet[d] = 0 \/ Stamped(d) \/ Merging(d) \/ Signed(d) \/ Noted(d)
  /\ \A l \in Loop : \A i \in Asked(l) : Live(i.d) => sent[Signature(i)] >= quiet[i.d]
  /\ \A l \in Loop : \A i \in Sending(l) : Live(i.d) => quiet[i.d] = 0

SpaceInv ==
  /\ Base
  /\ \/ Kept /\ (mishaps = 0 => Agreed)
     \/ Remembered /\ mishaps = MaxMishaps

-----------------------------------------------------------------------------
(* What a step does to the only loop. *)

Became(l, places, todo, cur) ==
  loop'[l].at \in places /\ loop'[l].todo = todo /\ loop'[l].cur = cur

Unmarked == UNCHANGED <<stopped, meta, rem, sent, quiet, stopping>>

LEMMA RoundTyped ==
  ASSUME RType, NEW l \in Loop
  PROVE  /\ loop \in [Loop -> Round] /\ loop[l] \in Round
         /\ loop[l].todo \in SUBSET Item
         /\ loop[l].at \in Busy => loop[l].cur \in Item
         /\ loop[l].at \in {"idle", "ledger"} => loop[l].todo = {} /\ loop[l].cur = None
         /\ copy[l] # None => loop[l].at = "save"
         /\ copy \in [Loop \cup Other -> State \cup {None}]
         /\ \A p \in Loop \cup Other : copy[p] # None =>
              copy[p].rem \in [Dec -> Stamp \cup {None}] /\ copy[p].sent \in Signatures
BY DEF RType, ReminderTypeOK, RoundShape, Fits, Round, State

LEMMA NotesTyped ==
  ASSUME RType
  PROVE  /\ quiet \in [Dec -> 0..Cadence] /\ meta \in [Dec -> Stamp \cup {None}]
         /\ rem \in [Dec -> Stamp \cup {None}] /\ sent \in Signatures
         /\ Cadence \in Nat \ {0} /\ mishaps \in 0..MaxMishaps /\ MaxMishaps \in Nat
BY ReminderAssumption DEF ReminderAssumption, RType, ReminderTypeOK, State

LEMMA ScanRegistryDoes ==
  ASSUME RType, NEW l \in Loop, ScanRegistry(l)
  PROVE  /\ loop[l].at = "idle" /\ Became(l, {"ledger"}, {}, None)
         /\ \A d \in Dec : loop'[l].seen[d].own = meta[d]
         /\ Unmarked /\ UNCHANGED <<reg, copy, mishaps>>
<1> DEFINE s == [d \in Dec |-> [rec |-> reg[d], stop |-> d \in stopped, own |-> meta[d]]]
<1>1. /\ loop[l].at = "idle" /\ loop'[l] = [loop[l] EXCEPT !.at = "ledger", !.seen = s]
      /\ Unmarked /\ UNCHANGED <<reg, copy, mishaps>>
  BY RoundTyped DEF ScanRegistry, Goto, Unmarked, vars
<1>2. /\ loop'[l].at = "ledger" /\ loop'[l].todo = loop[l].todo
      /\ loop'[l].cur = loop[l].cur /\ loop'[l].seen = s
  BY <1>1, RoundTyped DEF Round
<1> QED BY <1>1, <1>2, RoundTyped DEF Became

LEMMA ScanLedgerDoes ==
  ASSUME RType, NEW l \in Loop, ScanLedger(l)
  PROVE  /\ loop[l].at = "ledger"
         /\ Became(l, {"idle", "send"}, DueItems(loop[l].seen), None)
         /\ Unmarked /\ UNCHANGED <<reg, copy, mishaps>>
<1>1. loop[l].seen \in [Dec -> Record]
  BY RoundTyped DEF Round
<1>2. Onward(l, DueItems(loop[l].seen)) /\ DueItems(loop[l].seen) \in SUBSET Item
  BY <1>1, DueTyped DEF ScanLedger
<1> QED BY <1>2, OnwardFrame, RoundTyped DEF ScanLedger, Unmarked, Became, vars

LEMMA SendDoes ==
  ASSUME RType, NEW l \in Loop, NEW i \in loop[l].todo, Send(l, i)
  PROVE  /\ loop[l].at = "send" /\ Unmarked /\ UNCHANGED <<reg, copy>>
         /\ \/ ~Repeated(i) /\ Became(l, {"load"}, loop[l].todo \ {i}, i) /\ UNCHANGED mishaps
            \/ /\ Became(l, {"idle", "send"}, loop[l].todo \ {i}, None)
               /\ UNCHANGED mishaps \/ Mishap
<1>1. loop[l].at = "send" /\ Unmarked /\ UNCHANGED <<reg, copy>>
  BY DEF Send, Unmarked, vars
<1>2. CASE /\ ~Repeated(i) /\ UNCHANGED mishaps
           /\ Goto(l, [loop[l] EXCEPT !.at = "load", !.todo = @ \ {i}, !.cur = i])
  <2>1. loop'[l] = [loop[l] EXCEPT !.at = "load", !.todo = @ \ {i}, !.cur = i]
    BY <1>2, RoundTyped DEF Goto
  <2> QED BY <1>1, <1>2, <2>1, RoundTyped DEF Became, Round
<1>3. CASE Onward(l, loop[l].todo \ {i}) /\ (UNCHANGED mishaps \/ Mishap)
  <2>1. loop[l].todo \ {i} \in SUBSET Item
    BY RoundTyped
  <2> QED BY <1>1, <1>3, <2>1, OnwardFrame, RoundTyped DEF Became
<1> QED BY <1>2, <1>3 DEF Send

LEMMA LoadDoes ==
  ASSUME RType, NEW l \in Loop, LoadState(l)
  PROVE  /\ loop[l].at = "load" /\ Became(l, {"save"}, loop[l].todo, loop[l].cur)
         /\ copy' = [copy EXCEPT ![l] = [rem |-> rem, sent |-> sent]]
         /\ Unmarked /\ UNCHANGED <<reg, mishaps>>
<1>1. /\ loop[l].at = "load" /\ loop'[l] = [loop[l] EXCEPT !.at = "save"]
      /\ copy' = [copy EXCEPT ![l] = [rem |-> rem, sent |-> sent]]
      /\ Unmarked /\ UNCHANGED <<reg, mishaps>>
  BY RoundTyped, ReminderAssumption DEF LoadState, Goto, ReminderAssumption, Unmarked, vars
<1> QED BY <1>1, RoundTyped DEF Became, Round

LEMMA SaveDoes ==
  ASSUME RType, NEW l \in Loop, SaveState(l)
  PROVE  /\ loop[l].at = "save" /\ copy[l] # None
         /\ Became(l, {"merge"}, loop[l].todo, loop[l].cur)
         /\ rem' = copy[l].rem
         /\ sent' = [copy[l].sent EXCEPT ![Signature(loop[l].cur)] = Cadence]
         /\ quiet' = [quiet EXCEPT ![loop[l].cur.d] =
                        IF loop[l].cur.src = "registry" THEN Cadence ELSE @]
         /\ copy' = [copy EXCEPT ![l] = None]
         /\ UNCHANGED <<reg, stopped, meta, stopping, mishaps>>
<1>1. loop'[l] = [loop[l] EXCEPT !.at = "merge"]
  BY RoundTyped DEF SaveState, Goto
<1> QED BY <1>1, RoundTyped DEF Became, Round, SaveState, vars

LEMMA MergeDoes ==
  ASSUME RType, NEW l \in Loop, MergeMeta(l)
  PROVE  /\ loop[l].at = "merge" /\ UNCHANGED <<reg, stopped, rem, sent, copy, stopping, quiet>>
         /\ \/ /\ Became(l, {"state"}, loop[l].todo, loop[l].cur)
               /\ meta' = [meta EXCEPT ![loop[l].cur.d] = NextStamp(loop[l].cur)]
               /\ UNCHANGED mishaps
            \/ /\ ~Live(loop[l].cur.d)
               /\ Became(l, {"idle", "send"}, loop[l].todo, None)
               /\ UNCHANGED <<meta, mishaps>>
            \/ /\ Mishap /\ UNCHANGED meta
               /\ \/ Became(l, {"state"}, loop[l].todo, loop[l].cur)
                  \/ Became(l, {"idle", "send"}, loop[l].todo, None)
<1> DEFINE noted == Goto(l, [loop[l] EXCEPT !.at = "state"])
<1>1. /\ loop[l].at = "merge" /\ UNCHANGED <<reg, stopped, rem, sent, copy, stopping, quiet>>
      /\ \/ /\ noted /\ UNCHANGED mishaps
            /\ meta' = [meta EXCEPT ![loop[l].cur.d] = NextStamp(loop[l].cur)]
         \/ /\ ~Live(loop[l].cur.d) /\ Onward(l, loop[l].todo) /\ UNCHANGED <<meta, mishaps>>
         \/ Mishap /\ UNCHANGED meta /\ (noted \/ Onward(l, loop[l].todo))
  BY DEF MergeMeta, Reread, Live
<1>2. noted => Became(l, {"state"}, loop[l].todo, loop[l].cur)
  <2> SUFFICES ASSUME noted PROVE Became(l, {"state"}, loop[l].todo, loop[l].cur)
    OBVIOUS
  <2>1. loop'[l] = [loop[l] EXCEPT !.at = "state"]
    BY RoundTyped DEF Goto
  <2> QED BY <2>1, RoundTyped DEF Became, Round
<1>3. Onward(l, loop[l].todo) => Became(l, {"idle", "send"}, loop[l].todo, None)
  BY OnwardFrame, RoundTyped DEF Became
<1> HIDE DEF noted
<1> QED BY <1>1, <1>2, <1>3

LEMMA NoteDoes ==
  ASSUME RType, NEW l \in Loop, NoteReminder(l)
  PROVE  /\ loop[l].at = "state" /\ Became(l, {"idle", "send"}, loop[l].todo, None)
         /\ \/ rem' = [rem EXCEPT ![loop[l].cur.d] = NextStamp(loop[l].cur)] /\ UNCHANGED mishaps
            \/ Mishap /\ UNCHANGED rem
         /\ UNCHANGED <<reg, stopped, meta, sent, copy, stopping, quiet>>
<1>1. Onward(l, loop[l].todo)
  BY DEF NoteReminder
<1> QED BY <1>1, OnwardFrame, RoundTyped DEF NoteReminder, Became, vars

LEMMA DieDoes ==
  ASSUME RType, NEW l \in Loop, Die(l)
  PROVE  /\ Mishap /\ Became(l, {"idle"}, {}, None)
         /\ copy' = [copy EXCEPT ![l] = None] /\ Unmarked /\ UNCHANGED reg
BY RoundTyped, AsleepTyped DEF Die, Goto, Became, Unmarked, vars

LEMMA LiveShrinks ==
  ASSUME DInv, [RNext]_allvars, NEW d \in Dec, Live(d)'
  PROVE  Live(d)
<1>1. stopped \subseteq stopped'
  BY DEF RNext, LoopStep, ScanRegistry, ScanLedger, Send, LoadState, SaveState, MergeMeta,
     NoteReminder, Die, StopTopic, StopNoted, Tick, allvars, rvars
<1>2. reg[d].st = "answered" => reg'[d] = reg[d]
  BY DecisionStep, AnswerKept
<1> QED BY <1>1, <1>2 DEF Live

-----------------------------------------------------------------------------
(* Every step keeps the questions quiet. *)

\* What the cases have in common: one loop, and questions that stay open were open.
Going == OneLoop /\ SpaceInv /\ RType' /\ \A d \in Dec : Live(d)' => Live(d)

\* SpaceInv, said of the only loop.
LEMMA OneLoopInv ==
  ASSUME OneLoop, NEW l \in Loop
  PROVE  /\ Base <=> RType /\ stopping \subseteq stopped /\ Fresh(l) /\ Distinct(l)
         /\ \A d \in Dec : Merging(d) <=> /\ loop[l].at = "merge" /\ loop[l].cur.d = d
                                          /\ loop[l].cur.src = "registry"
BY DEF OneLoop, Base, Merging

LEMMA SpaceInit == RInit => SpaceInv
<1> SUFFICES ASSUME RInit PROVE SpaceInv
  OBVIOUS
<1>1. Base
  BY InitRType, AsleepTyped DEF RInit, Base, Fresh, Distinct, Busy
<1>2. \A l \in Loop : loop[l].at = "idle" /\ loop[l].todo = {}
  BY AsleepTyped DEF RInit
<1>3. Kept
  BY <1>2 DEF RInit, Kept, Asked, Sending
<1>4. Agreed
  BY <1>2, ReminderAssumption DEF RInit, Agreed, Alone, Copied, Asked, Sending, Copying,
     Merging, ReminderAssumption
<1> QED BY <1>1, <1>3, <1>4 DEF SpaceInv

LEMMA ScanRegistrySpaced ==
  ASSUME Going, NEW l \in Loop, ScanRegistry(l)
  PROVE  SpaceInv'
<1> USE DEF Going
<1>1. RType
  BY DEF SpaceInv, Base
<1>2. /\ loop[l].at = "idle" /\ loop'[l].at = "ledger" /\ loop'[l].todo = {} /\ loop'[l].cur = None
      /\ \A d \in Dec : loop'[l].seen[d].own = meta[d]
      /\ Unmarked /\ UNCHANGED <<reg, copy, mishaps>>
  BY <1>1, ScanRegistryDoes DEF Became
<1>3. Loop = {l}
  BY DEF OneLoop
<1>4. Base'
  BY <1>1, <1>2, <1>3 DEF SpaceInv, Base, Fresh, Distinct, Busy, Unmarked
<1>5. Kept => Kept'
  BY <1>2, <1>3 DEF Kept, Live, Stamped, Merging, Asked, Sending, Unmarked
<1>6. Agreed => Agreed'
  BY <1>2, <1>3 DEF Agreed, Alone, Copied, Asked, Sending, Copying, Merging, Unmarked
<1>7. Remembered => Remembered'
  BY <1>2, <1>3 DEF Remembered, Alone, Copied, Live, Stamped, Merging, Signed, Noted, Due,
                    Asked, Sending, Unmarked
<1> QED BY <1>2, <1>4, <1>5, <1>6, <1>7 DEF SpaceInv

\* What a round lists: one item of each question, and of a question that is open in the
\* registry the one that is due by the record, or by the notify state.
LEMMA DueFacts ==
  ASSUME RType, NEW l \in Loop, Fresh(l), loop[l].at = "ledger"
  PROVE  /\ \A i, j \in DueItems(loop[l].seen) : i.d = j.d => i = j
         /\ \A i \in DueItems(loop[l].seen) : i.src = "registry" =>
              i \in Item /\ i.n = Due(i.d).n /\ Due(i.d).left = 0
<1> DEFINE seen == loop[l].seen
           R == {[d |-> e, src |-> "registry", n |-> Past(seen[e].own, rem[e]).n]
                   : e \in {e \in Dec : OpenIn(seen, e) /\ Past(seen[e].own, rem[e]).left = 0}}
           q(e) == CHOOSE r \in Request : Waits(r, e)
           x(e) == [d |-> e, src |-> "ledger", n |-> Past(twin[q(e)][e], rem[e]).n]
           L == UNION {{i \in {x(e)} : Past(twin[q(e)][e], rem[e]).left = 0}
                   : e \in {e \in Dec : ~OpenIn(seen, e) /\ \E r \in Request : Waits(r, e)}}
<1>1. DueItems(seen) = R \cup L
  BY DEF DueItems
<1>2. \A i \in L : i.src = "ledger" /\ i = x(i.d) /\ ~OpenIn(seen, i.d)
  <2> SUFFICES ASSUME NEW i \in L PROVE i.src = "ledger" /\ i = x(i.d) /\ ~OpenIn(seen, i.d)
    OBVIOUS
  <2>1. PICK e \in Dec : ~OpenIn(seen, e) /\ i = x(e)
    <3> HIDE DEF x, seen, q
    <3> QED OBVIOUS
  <2>2. x(e).d = e /\ x(e).src = "ledger"
    OBVIOUS
  <2> HIDE DEF x
  <2> QED BY <2>1, <2>2
<1>3. \A i \in R : /\ i.src = "registry" /\ OpenIn(seen, i.d) /\ i.d \in Dec
                   /\ i.n = Past(seen[i.d].own, rem[i.d]).n
                   /\ Past(seen[i.d].own, rem[i.d]).left = 0
                   /\ i = [d |-> i.d, src |-> "registry", n |-> Past(seen[i.d].own, rem[i.d]).n]
  OBVIOUS
<1>4. \A d \in Dec : seen[d].own = meta[d]
  BY DEF Fresh
<1>5. seen \in [Dec -> Record]
  BY RoundTyped DEF Round
<1>6. DueItems(seen) \in SUBSET Item
  BY <1>5, DueTyped
<1> HIDE DEF seen, R, L, x, q
<1>7. \A i, j \in DueItems(seen) : i.d = j.d => i = j
  <2> SUFFICES ASSUME NEW i \in DueItems(seen), NEW j \in DueItems(seen), i.d = j.d PROVE i = j
    OBVIOUS
  <2>1. CASE i \in R /\ j \in R
    BY <1>3, <2>1
  <2>2. CASE i \in L /\ j \in L
    BY <1>2, <2>2
  <2>3. CASE (i \in R /\ j \in L) \/ (i \in L /\ j \in R)
    BY <1>2, <1>3, <2>3
  <2> QED BY <1>1, <2>1, <2>2, <2>3
<1>8. \A i \in DueItems(seen) : i.src = "registry" =>
        i \in Item /\ i.n = Due(i.d).n /\ Due(i.d).left = 0
  BY <1>1, <1>2, <1>3, <1>4, <1>6 DEF Due
<1> QED BY <1>7, <1>8 DEF seen

LEMMA ScanLedgerSpaced ==
  ASSUME Going, NEW l \in Loop, ScanLedger(l)
  PROVE  SpaceInv'
<1> USE DEF Going
<1> DEFINE D == DueItems(loop[l].seen)
<1>1. RType /\ Fresh(l)
  BY DEF SpaceInv, Base
<1>2. /\ loop[l].at = "ledger" /\ loop'[l].at \in {"idle", "send"}
      /\ loop'[l].todo = D /\ loop'[l].cur = None
      /\ Unmarked /\ UNCHANGED <<reg, copy, mishaps>>
  BY <1>1, ScanLedgerDoes DEF Became
<1>3. /\ \A i, j \in D : i.d = j.d => i = j
      /\ \A i \in D : i.src = "registry" => i \in Item /\ i.n = Due(i.d).n /\ Due(i.d).left = 0
  BY <1>1, <1>2, DueFacts
<1> HIDE DEF D
<1>4. Loop = {l}
  BY DEF OneLoop
<1>5. Base'
  BY <1>1, <1>2, <1>3, <1>4 DEF SpaceInv, Base, Fresh, Distinct, Busy, Unmarked
<1>6. ASSUME NEW i \in D, i.src = "registry"
      PROVE  /\ Stamped(i.d) \/ Noted(i.d) => quiet[i.d] = 0
             /\ Signed(i.d) => sent[Signature(i)] >= quiet[i.d]
  <2>1. i \in Item /\ i.d \in Dec
    BY <1>3, <1>6, ItemFacts
  <2>2. quiet[i.d] \in Nat
    BY <1>1, <2>1, NotesTyped
  <2>3. Signature(i) = Sig(i.d, Due(i.d).n)
    BY <1>3, <1>6 DEF Signature, Sig
  <2> QED BY <1>3, <1>6, <2>1, <2>2, <2>3 DEF Stamped, Noted, Signed, Due, Past
<1>7. /\ \A d \in Dec : ~Merging(d) /\ ~Merging(d)'
      /\ \A i \in D : i.src = "registry" => i.d \in Dec
  BY <1>2, <1>3, <1>4, ItemFacts DEF Merging
<1>8. Kept => Kept'
  BY <1>2, <1>4, <1>6, <1>7 DEF Kept, Live, Stamped, Asked, Sending, Unmarked
<1>9. Agreed => Agreed'
  BY <1>2, <1>3, <1>4, <1>7 DEF Agreed, Alone, Copied, Due, Asked, Sending, Copying, Unmarked
<1>10. Remembered => Remembered'
  <2>1. \A i \in D : i.src = "registry" /\ quiet[i.d] = 0 => sent[Signature(i)] >= quiet[i.d]
    BY <1>1, <1>3, NotesTyped, ItemFacts DEF Signatures
  <2> QED BY <1>2, <1>4, <1>6, <1>7, <2>1 DEF Remembered, Alone, Copied, Live, Stamped, Signed,
       Noted,
                Due, Asked, Sending, Unmarked
<1> QED BY <1>2, <1>5, <1>8, <1>9, <1>10 DEF SpaceInv

LEMMA MishapLast ==
  ASSUME RType, OneMishap, Mishap
  PROVE  mishaps = 0 /\ mishaps' = MaxMishaps
BY NotesTyped DEF Mishap, OneMishap

LEMMA SendSpaced ==
  ASSUME Going, OneMishap, NEW l \in Loop, NEW i \in loop[l].todo, Send(l, i)
  PROVE  SpaceInv'
<1> USE DEF Going
<1>1. RType /\ Distinct(l)
  BY DEF SpaceInv, Base
<1>2. /\ loop[l].at = "send" /\ Unmarked /\ UNCHANGED <<reg, copy>>
      /\ loop'[l].todo = loop[l].todo \ {i}
      /\ \/ ~Repeated(i) /\ loop'[l].at = "load" /\ loop'[l].cur = i /\ UNCHANGED mishaps
         \/ loop'[l].at \in {"idle", "send"} /\ (UNCHANGED mishaps \/ Mishap)
  BY <1>1, SendDoes DEF Became
<1>3. Loop = {l}
  BY DEF OneLoop
<1>4. Base'
  BY <1>1, <1>2, <1>3 DEF SpaceInv, Base, Fresh, Distinct, Busy, Unmarked
<1>5. \A d \in Dec : ~Merging(d) /\ ~Merging(d)'
  BY <1>2, <1>3 DEF Merging
<1>6. i \in Item /\ i.d \in Dec /\ \A x \in loop[l].todo : x.d \in Dec
  BY <1>1, RoundTyped, ItemFacts
<1>7. Kept => Kept'
  BY <1>2, <1>3, <1>5, <1>6 DEF Kept, Live, Stamped, Asked, Sending, Unmarked
<1>8. Agreed => Agreed'
  BY <1>2, <1>3, <1>5 DEF Agreed, Alone, Copied, Due, Asked, Sending, Copying, Unmarked
<1>9. Remembered => Remembered'
  <2>1. quiet[i.d] \in Nat /\ sent[Signature(i)] \in Nat
    BY <1>1, <1>6, NotesTyped, ItemFacts DEF Signatures
  <2>2. ASSUME Remembered, ~Repeated(i), i.src = "registry", Live(i.d) PROVE quiet[i.d] = 0
    BY <1>2, <1>3, <2>1, <2>2 DEF Remembered, Asked, Repeated
  <2> QED BY <1>2, <1>3, <1>5, <1>6, <2>2 DEF Remembered, Alone, Copied, Live, Stamped, Signed,
       Noted,
                Due, Asked, Sending, Unmarked
<1>10. CASE UNCHANGED mishaps
  BY <1>4, <1>7, <1>8, <1>9, <1>10 DEF SpaceInv
<1>11. CASE Mishap
  <2>1. mishaps = 0 /\ mishaps' = MaxMishaps /\ mishaps' # 0
    BY <1>1, <1>11, MishapLast, NotesTyped DEF Mishap
  <2> QED BY <1>4, <1>7, <1>9, <2>1 DEF SpaceInv
<1> QED BY <1>2, <1>10, <1>11

LEMMA LoadSpaced ==
  ASSUME Going, NEW l \in Loop, LoadState(l)
  PROVE  SpaceInv'
<1> USE DEF Going
<1>1. RType /\ Distinct(l)
  BY DEF SpaceInv, Base
<1>2. /\ loop[l].at = "load" /\ loop'[l].at = "save"
      /\ loop'[l].todo = loop[l].todo /\ loop'[l].cur = loop[l].cur
      /\ copy' = [copy EXCEPT ![l] = [rem |-> rem, sent |-> sent]]
      /\ Unmarked /\ UNCHANGED <<reg, mishaps>>
  BY <1>1, LoadDoes DEF Became
<1>3. Loop = {l} /\ l \notin Other
  BY ReminderAssumption DEF OneLoop, ReminderAssumption
<1>4. /\ copy'[l].rem = rem /\ copy'[l].sent = sent
      /\ \A o \in Other : copy'[o] = copy[o]
  BY <1>1, <1>2, <1>3, RoundTyped
<1>5. Base'
  BY <1>1, <1>2, <1>3 DEF SpaceInv, Base, Fresh, Distinct, Busy, Unmarked
<1>6. \A d \in Dec : ~Merging(d) /\ ~Merging(d)'
  BY <1>2, <1>3 DEF Merging
<1>7. loop[l].cur.d \in Dec /\ \A x \in loop[l].todo : x.d \in Dec
  BY <1>1, <1>2, RoundTyped, ItemFacts DEF Busy
<1>8. Kept => Kept'
  BY <1>2, <1>3, <1>6, <1>7 DEF Kept, Live, Stamped, Asked, Sending, Unmarked
<1>9. Agreed => Agreed'
  BY <1>2, <1>3, <1>4, <1>6 DEF Agreed, Alone, Copied, Due, Asked, Sending, Copying, Unmarked
<1>10. Remembered => Remembered'
  BY <1>2, <1>3, <1>4, <1>6, <1>7 DEF Remembered, Alone, Copied, Live, Stamped, Signed, Noted,
                Due, Asked, Sending, Unmarked
<1> QED BY <1>2, <1>5, <1>8, <1>9, <1>10 DEF SpaceInv

LEMMA SaveSpaced ==
  ASSUME Going, NEW l \in Loop, SaveState(l)
  PROVE  SpaceInv'
<1> USE DEF Going
<1> DEFINE k == loop[l].cur
           x == Signature(k)
<1>1. RType /\ Distinct(l)
  BY DEF SpaceInv, Base
<1>2. /\ loop[l].at = "save" /\ loop'[l].at = "merge" /\ copy[l] # None
      /\ loop'[l].todo = loop[l].todo /\ loop'[l].cur = k
      /\ rem' = copy[l].rem
      /\ sent' = [copy[l].sent EXCEPT ![x] = Cadence]
      /\ quiet' = [quiet EXCEPT ![k.d] = IF k.src = "registry" THEN Cadence ELSE @]
      /\ copy' = [copy EXCEPT ![l] = None]
      /\ UNCHANGED <<reg, stopped, meta, stopping, mishaps>>
  BY <1>1, SaveDoes DEF Became
<1>3. Loop = {l} /\ l \notin Other
  BY ReminderAssumption DEF OneLoop, ReminderAssumption
<1>4. /\ k \in Item /\ k.d \in Dec /\ x \in Dec \X Source \X (0..1)
      /\ \A i \in loop[l].todo : i \in Item /\ i.d \in Dec
  BY <1>1, <1>2, RoundTyped, ItemFacts DEF Busy
<1>5. /\ copy'[l] = None /\ \A o \in Other : copy'[o] = copy[o]
      /\ copy[l].sent \in Signatures
  BY <1>1, <1>2, <1>3, RoundTyped
<1>6. /\ \A d \in Dec \ {k.d} : quiet'[d] = quiet[d]
      /\ quiet'[k.d] = (IF k.src = "registry" THEN Cadence ELSE quiet[k.d])
      /\ \A i \in loop[l].todo : i.d # k.d
      /\ sent'[x] = Cadence
      /\ \A g \in Dec \X Source \X (0..1) : g # x => sent'[g] = copy[l].sent[g]
      /\ Cadence \in Nat
  BY <1>1, <1>2, <1>4, <1>5, NotesTyped DEF Distinct, Busy, Signatures
<1>7. x = <<k.d, k.src, 1 - k.n>> /\ k.n \in 0..1 /\ k.src \in Source
  BY <1>4 DEF Signature, Item
<1>8. Base'
  BY <1>1, <1>2, <1>3, <1>6 DEF SpaceInv, Base, Fresh, Distinct, Busy
<1>9. \A d \in Dec : ~Merging(d) /\ (Merging(d)' <=> d = k.d /\ k.src = "registry")
  BY <1>2, <1>3 DEF Merging
<1> HIDE DEF k, x
<1>10. Kept => Kept'
  BY <1>2, <1>3, <1>4, <1>6, <1>9 DEF Kept, Live, Stamped, Asked, Sending
<1>11. ASSUME Copied(l)
       PROVE  /\ \A d \in Dec \ stopped' : rem'[d] = rem[d] /\ Due(d)' = Due(d)
              /\ \A g \in Dec \X Source \X (0..1) : g # x => sent'[g] = sent[g]
  BY <1>2, <1>6, <1>11 DEF Copied, Due
<1>12. \A d \in Dec : Due(d).n \in 0..1
  BY <1>1, NotesTyped, PastTyped DEF Due, Stamp
<1>13. Agreed => Agreed'
  <2> SUFFICES ASSUME Agreed PROVE Agreed'
    OBVIOUS
  <2>1. Copied(l) /\ Alone' /\ Copied(l)'
    BY <1>3, <1>5 DEF Agreed, Alone, Copied
  <2>2. \A i \in Asked(l)' \cup Sending(l)' \cup Copying(l)' :
          i.d \notin stopped' => i.n = Due(i.d)'.n
    BY <1>2, <1>3, <1>4, <1>11, <2>1 DEF Agreed, Asked, Sending, Copying
  <2>3. ASSUME NEW d \in Dec \ stopped', Merging(d)'
        PROVE  Signed(d)'
    <3>1. d = k.d /\ k.src = "registry" /\ k.n = Due(d).n /\ Due(d)' = Due(d)
      BY <1>2, <1>3, <1>9, <1>11, <2>1, <2>3 DEF Agreed, Copying, k
    <3>2. x = Sig(d, Due(d)'.n)
      BY <1>7, <3>1 DEF Sig
    <3> QED BY <1>6, <3>1, <3>2 DEF Signed
  <2> QED BY <1>3, <2>1, <2>2, <2>3 DEF Agreed
<1>14. Remembered => Remembered'
  <2> SUFFICES ASSUME Remembered PROVE Remembered'
    OBVIOUS
  <2>1. Copied(l) /\ Alone' /\ Copied(l)'
    BY <1>3, <1>5 DEF Remembered, Alone, Copied
  <2>2. ASSUME NEW d \in Dec, Live(d)'
        PROVE  quiet'[d] = 0 \/ Stamped(d)' \/ Merging(d)' \/ Signed(d)' \/ Noted(d)'
    <3>1. CASE d = k.d /\ k.src = "registry"
      BY <1>9, <3>1
    <3>2. CASE d # k.d \/ k.src # "registry"
      <4>1. /\ quiet'[d] = quiet[d] /\ d \notin stopped' /\ Live(d)
            /\ rem'[d] = rem[d] /\ Due(d)' = Due(d) /\ meta'[d] = meta[d]
        BY <1>2, <1>6, <1>11, <2>1, <2>2, <3>2 DEF Live
      <4>2. Sig(d, Due(d).n) # x /\ Sig(d, Due(d).n) \in Dec \X Source \X (0..1)
        BY <1>7, <1>12, <3>2 DEF Sig, Source
      <4>3. sent'[Sig(d, Due(d).n)] = sent[Sig(d, Due(d).n)]
        BY <1>11, <2>1, <4>2
      <4> QED BY <1>9, <4>1, <4>3 DEF Remembered, Stamped, Signed, Noted
    <3> QED BY <3>1, <3>2
  <2>3. ASSUME NEW i \in Asked(l)', Live(i.d)'
        PROVE  sent'[Signature(i)] >= quiet'[i.d]
    <3>1. i \in Asked(l) /\ i.d # k.d /\ i \in Item /\ i.d \in Dec /\ Live(i.d)
      BY <1>2, <1>4, <1>6, <2>3 DEF Asked
    <3>2. Signature(i) # x /\ Signature(i) \in Dec \X Source \X (0..1)
      BY <1>7, <3>1, ItemFacts DEF Signature
    <3> QED BY <1>3, <1>6, <1>11, <2>1, <3>1, <3>2 DEF Remembered
  <2>4. Sending(l)' = {}
    BY <1>2 DEF Sending
  <2> QED BY <1>3, <2>1, <2>2, <2>3, <2>4 DEF Remembered
<1> QED BY <1>2, <1>8, <1>10, <1>13, <1>14 DEF SpaceInv

LEMMA MergeSpaced ==
  ASSUME Going, OneMishap, NEW l \in Loop, MergeMeta(l)
  PROVE  SpaceInv'
<1> USE DEF Going
<1>0. PICK k : k = loop[l].cur
  OBVIOUS
<1>1. RType /\ Distinct(l)
  BY DEF SpaceInv, Base
<1>2. /\ loop[l].at = "merge" /\ UNCHANGED <<reg, stopped, rem, sent, copy, stopping, quiet>>
      /\ loop'[l].todo = loop[l].todo
      /\ loop'[l].at \in {"state", "idle", "send"}
      /\ loop'[l].at = "state" => loop'[l].cur = k
      /\ \/ /\ meta' = [meta EXCEPT ![k.d] = NextStamp(k)] /\ UNCHANGED mishaps
         \/ ~Live(k.d) /\ UNCHANGED <<meta, mishaps>>
         \/ Mishap /\ UNCHANGED meta
  BY <1>0, <1>1, MergeDoes DEF Became
<1>3. Loop = {l}
  BY DEF OneLoop
<1>4. k \in Item /\ k.d \in Dec /\ NextStamp(k) \in Stamp /\ NextStamp(k).left = Cadence
      /\ \A i \in loop[l].todo : i.d \in Dec /\ i.d # k.d
  BY <1>0, <1>1, <1>2, RoundTyped, ItemFacts DEF Busy, Distinct, NextStamp
<1>5. Base'
  BY <1>0, <1>1, <1>2, <1>3, <1>4 DEF SpaceInv, Base, Fresh, Distinct, Busy
<1>6. \A d \in Dec : ~Merging(d)' /\ (Merging(d) => d = k.d)
  BY <1>0, <1>2, <1>3 DEF Merging
<1>7. /\ Asked(l)' = Asked(l) /\ Sending(l)' = {} /\ Copying(l)' = {}
      /\ Asked(l) \subseteq loop[l].todo
  BY <1>2 DEF Asked, Sending, Copying
<1>8. k.d \in Dec /\ quiet[k.d] \in 0..Cadence /\ Cadence \in Nat
      /\ None \notin Stamp
  BY <1>1, <1>4, NotesTyped, ReminderAssumption DEF ReminderAssumption, Stamp
<1>9. CASE meta' = [meta EXCEPT ![k.d] = NextStamp(k)] /\ UNCHANGED mishaps
  <2>1. meta'[k.d] = NextStamp(k) /\ \A d \in Dec \ {k.d} : meta'[d] = meta[d]
    BY <1>1, <1>4, <1>9, NotesTyped
  <2>2. Stamped(k.d)'
    BY <1>2, <1>4, <1>8, <2>1 DEF Stamped
  <2>3. Kept => Kept'
    BY <1>2, <1>3, <1>6, <1>7, <2>1, <2>2 DEF Kept, Live, Stamped
  <2>4. Agreed => Agreed'
    BY <1>2, <1>3, <1>4, <1>6, <1>7, <2>1 DEF Agreed, Alone, Copied, Due
  <2>5. Remembered => Remembered'
    BY <1>2, <1>3, <1>6, <1>7, <2>1, <2>2 DEF Remembered, Alone, Copied, Live, Stamped, Signed,
       Noted, Due
  <2> QED BY <1>5, <1>9, <2>3, <2>4, <2>5 DEF SpaceInv
<1>10. CASE ~Live(k.d) /\ UNCHANGED <<meta, mishaps>>
  <2>1. ~Live(k.d)'
    BY <1>2, <1>10 DEF Live
  <2>2. Kept => Kept'
    BY <1>2, <1>3, <1>6, <1>7, <1>10, <2>1 DEF Kept, Live, Stamped
  <2>3. Agreed => Agreed'
    BY <1>2, <1>3, <1>6, <1>7, <1>10 DEF Agreed, Alone, Copied, Due
  <2>4. Remembered => Remembered'
    BY <1>2, <1>3, <1>6, <1>7, <1>10, <2>1 DEF Remembered, Alone, Copied, Live, Stamped, Signed,
       Noted, Due
  <2> QED BY <1>5, <1>10, <2>2, <2>3, <2>4 DEF SpaceInv
<1>11. CASE Mishap /\ UNCHANGED meta
  <2>1. mishaps = 0 /\ mishaps' = MaxMishaps /\ MaxMishaps = 1
    BY <1>1, <1>11, MishapLast, NotesTyped DEF Mishap
  <2>2. Kept /\ Agreed
    BY <2>1 DEF SpaceInv
  <2>3. \A i \in loop[l].todo : i \in Item
    BY <1>1, RoundTyped
  <2>4. \A i \in Item : sent[Signature(i)] \in Nat
    BY <1>1, NotesTyped, ItemFacts DEF Signatures
  <2>5. Remembered'
    BY <1>2, <1>3, <1>4, <1>6, <1>7, <1>11, <2>2, <2>3, <2>4 DEF Kept, Agreed, Remembered, Alone,
         Copied,
       Live, Stamped, Signed, Noted, Due
  <2> QED BY <1>5, <2>1, <2>5 DEF SpaceInv
<1> QED BY <1>2, <1>9, <1>10, <1>11

LEMMA NoteSpaced ==
  ASSUME Going, OneMishap, NEW l \in Loop, NoteReminder(l)
  PROVE  SpaceInv'
<1> USE DEF Going
<1>0. PICK k : k = loop[l].cur
  OBVIOUS
<1>1. RType /\ Distinct(l)
  BY DEF SpaceInv, Base
<1>2. /\ loop[l].at = "state" /\ UNCHANGED <<reg, stopped, meta, sent, copy, stopping, quiet>>
      /\ loop'[l].todo = loop[l].todo /\ loop'[l].at \in {"idle", "send"}
      /\ \/ rem' = [rem EXCEPT ![k.d] = NextStamp(k)] /\ UNCHANGED mishaps
         \/ Mishap /\ UNCHANGED rem
  BY <1>0, <1>1, NoteDoes DEF Became
<1>3. Loop = {l} /\ copy[l] = None
  BY <1>1, <1>2, RoundTyped DEF OneLoop
<1>4. k \in Item /\ k.d \in Dec /\ NextStamp(k) \in Stamp /\ NextStamp(k).left = Cadence
      /\ \A i \in loop[l].todo : i.d \in Dec /\ i.d # k.d
  BY <1>0, <1>1, <1>2, RoundTyped, ItemFacts DEF Busy, Distinct, NextStamp
<1>5. Base'
  BY <1>1, <1>2, <1>3 DEF SpaceInv, Base, Fresh, Distinct, Busy
<1>6. \A d \in Dec : ~Merging(d)' /\ ~Merging(d)
  BY <1>0, <1>2, <1>3 DEF Merging
<1>7. /\ Asked(l)' = Asked(l) /\ Sending(l)' = {} /\ Copying(l)' = {}
      /\ Asked(l) \subseteq loop[l].todo
  BY <1>2 DEF Asked, Sending, Copying
<1>8. quiet[k.d] \in 0..Cadence /\ Cadence \in Nat /\ None \notin Stamp
  BY <1>1, <1>4, NotesTyped, ReminderAssumption DEF ReminderAssumption, Stamp
<1>9. Kept => Kept'
  BY <1>2, <1>3, <1>6, <1>7 DEF Kept, Live, Stamped
<1>10. CASE rem' = [rem EXCEPT ![k.d] = NextStamp(k)] /\ UNCHANGED mishaps
  <2>1. rem'[k.d] = NextStamp(k) /\ \A d \in Dec \ {k.d} : rem'[d] = rem[d]
    BY <1>1, <1>4, <1>10, NotesTyped
  <2>2. Agreed => Agreed'
    BY <1>2, <1>3, <1>4, <1>6, <1>7, <2>1 DEF Agreed, Alone, Copied, Due
  <2>3. meta[k.d] = None => Noted(k.d)'
    BY <1>2, <1>4, <1>8, <2>1 DEF Noted
  <2>4. meta[k.d] # None => Due(k.d)' = Due(k.d) /\ ~Noted(k.d)
    BY <1>2 DEF Due, Past, Noted
  <2>5. Remembered => Remembered'
    BY <1>2, <1>3, <1>6, <1>7, <2>1, <2>3, <2>4 DEF Remembered, Alone, Copied, Live, Stamped,
         Signed,
       Noted, Due
  <2> QED BY <1>5, <1>9, <1>10, <2>2, <2>5 DEF SpaceInv
<1>11. CASE Mishap /\ UNCHANGED rem
  <2>1. mishaps = 0 /\ mishaps' # 0
    BY <1>1, <1>11, MishapLast, NotesTyped DEF Mishap
  <2>2. Kept
    BY <1>11, <2>1, <1>1, NotesTyped DEF SpaceInv, Mishap
  <2> QED BY <1>5, <1>9, <2>1, <2>2 DEF SpaceInv
<1> QED BY <1>2, <1>10, <1>11

LEMMA DieSpaced ==
  ASSUME Going, OneMishap, NEW l \in Loop, Die(l)
  PROVE  SpaceInv'
<1> USE DEF Going
<1>1. RType
  BY DEF SpaceInv, Base
<1>2. /\ Mishap /\ loop'[l].at = "idle" /\ loop'[l].todo = {} /\ loop'[l].cur = None
      /\ copy' = [copy EXCEPT ![l] = None] /\ Unmarked /\ UNCHANGED reg
  BY <1>1, DieDoes DEF Became
<1>3. Loop = {l} /\ l \notin Other
  BY ReminderAssumption DEF OneLoop, ReminderAssumption
<1>4. Base'
  BY <1>2, <1>3 DEF SpaceInv, Base, Fresh, Distinct, Busy, Unmarked
<1>5. mishaps = 0 /\ mishaps' = MaxMishaps /\ MaxMishaps = 1
  BY <1>1, <1>2, MishapLast, NotesTyped DEF Mishap
<1>6. Kept /\ Agreed
  BY <1>5 DEF SpaceInv
<1>7. copy'[l] = None /\ \A o \in Other : copy'[o] = copy[o]
  BY <1>1, <1>2, <1>3, RoundTyped
<1>8. Remembered'
  BY <1>2, <1>3, <1>6, <1>7 DEF Kept, Agreed, Remembered, Alone, Copied, Live, Stamped, Signed,
       Noted,
     Due, Asked, Sending, Unmarked
<1> QED BY <1>4, <1>5, <1>8 DEF SpaceInv

LEMMA OtherSpaced ==
  ASSUME Going, OneMishap, NEW o \in Other, LoadState(o) \/ SaveState(o)
  PROVE  SpaceInv'
<1> USE DEF Going
<1>1. RType /\ o \notin Loop
  BY ReminderAssumption DEF ReminderAssumption, SpaceInv, Base
<1>2. /\ UNCHANGED <<reg, stopped, meta, stopping, loop, quiet>>
      /\ (copy[o] = None /\ Mishap) \/ (copy[o] # None /\ UNCHANGED mishaps)
  BY <1>1 DEF LoadState, SaveState, vars
<1>3. Base'
  BY <1>2 DEF SpaceInv, Base, Fresh, Distinct
<1>4. Kept /\ mishaps' # 0
  <2>1. CASE Mishap
    BY <1>1, <2>1, MishapLast, NotesTyped DEF SpaceInv, Mishap
  <2>2. CASE copy[o] # None /\ UNCHANGED mishaps
    BY <2>2 DEF SpaceInv, Agreed, Remembered, Alone
  <2> QED BY <1>2, <2>1, <2>2
<1>5. Kept'
  <2>1. \A l \in Loop : \A i \in Asked(l) \cup Sending(l) : i.d \in Dec
    <3> SUFFICES ASSUME NEW l \in Loop, NEW i \in Asked(l) \cup Sending(l) PROVE i.d \in Dec
      OBVIOUS
    <3> QED BY <1>1, RoundTyped, ItemFacts DEF Asked, Sending, Busy
  <2>2. \A d \in Dec : Merging(d)' <=> Merging(d)
    BY <1>2 DEF Merging
  <2> QED BY <1>2, <1>4, <2>1, <2>2 DEF Kept, Live, Stamped, Asked, Sending
<1> QED BY <1>3, <1>4, <1>5 DEF SpaceInv

\* A stop says less of its question, and leaves the others alone.
LEMMA StopSpaced ==
  ASSUME Going, OneMishap, NEW d \in Dec, StopTopic(d) \/ StopNoted(d)
  PROVE  SpaceInv'
<1> USE DEF Going
<1>1. RType
  BY DEF SpaceInv, Base
<1>2. /\ UNCHANGED <<reg, meta, sent, copy, loop, quiet>> /\ stopped \subseteq stopped'
      /\ stopping' \subseteq stopped'
      /\ \/ UNCHANGED <<rem, mishaps>>
         \/ /\ d \in stopped' /\ rem' = [rem EXCEPT ![d] = None] /\ UNCHANGED mishaps
         \/ Mishap /\ UNCHANGED rem
  BY DEF SpaceInv, Base, StopTopic, StopNoted, vars
<1>3. \A e \in Dec \ stopped' : rem'[e] = rem[e] /\ Due(e)' = Due(e)
  BY <1>1, <1>2, NotesTyped DEF Due
<1>4. Base'
  BY <1>2 DEF SpaceInv, Base, Fresh, Distinct
<1>5. \A l \in Loop : \A i \in Asked(l) \cup Sending(l) \cup Copying(l) : i.d \in Dec
  <2> SUFFICES ASSUME NEW l \in Loop, NEW i \in Asked(l) \cup Sending(l) \cup Copying(l)
               PROVE  i.d \in Dec
    OBVIOUS
  <2> QED BY <1>1, RoundTyped, ItemFacts DEF Asked, Sending, Copying, Busy
<1>6. \A e \in Dec : Merging(e)' <=> Merging(e)
  BY <1>2 DEF Merging
<1>7. \A l \in Loop : Asked(l)' = Asked(l) /\ Sending(l)' = Sending(l) /\ Copying(l)' = Copying(l)
  BY <1>2 DEF Asked, Sending, Copying
<1>8. Kept => Kept'
  BY <1>2, <1>5, <1>6, <1>7 DEF Kept, Stamped
<1>9. Agreed => Agreed'
  BY <1>2, <1>3, <1>5, <1>6, <1>7 DEF Agreed, Alone, Copied, Signed
<1>10. Remembered => Remembered'
  <2>1. \A e \in Dec : Live(e)' => e \notin stopped'
    BY DEF Live
  <2>2. Remembered => \A l \in Loop : Copied(l)'
    BY <1>2, <1>3 DEF Remembered, Copied
  <2>3. \A e \in Dec : Live(e)' => /\ Stamped(e)' <=> Stamped(e)
                                   /\ Signed(e)' <=> Signed(e)
                                   /\ Noted(e)' <=> Noted(e)
    BY <1>2, <1>3, <2>1 DEF Stamped, Signed, Noted
  <2> QED BY <1>2, <1>5, <1>6, <1>7, <2>2, <2>3 DEF Remembered, Alone
<1>11. CASE Mishap
  <2>1. mishaps = 0 /\ mishaps' # 0
    BY <1>1, <1>11, MishapLast, NotesTyped DEF Mishap
  <2>2. Kept
    BY <1>1, <1>11, <2>1, NotesTyped DEF SpaceInv, Mishap
  <2> QED BY <1>4, <1>8, <2>1, <2>2 DEF SpaceInv
<1>12. CASE UNCHANGED mishaps
  BY <1>4, <1>8, <1>9, <1>10, <1>12 DEF SpaceInv
<1> QED BY <1>2, <1>11, <1>12

\* Time takes as much from every note as from the cadence it stands for.
LEMMA TickSpaced ==
  ASSUME Going, Tick
  PROVE  SpaceInv'
<1> USE DEF Going
<1>1. RType
  BY DEF SpaceInv, Base
<1>2. /\ \A l \in Loop : loop[l].at = "idle" /\ loop[l].todo = {} /\ copy[l] = None
      /\ UNCHANGED <<reg, stopped, stopping, loop, mishaps>>
  BY <1>1, RoundTyped DEF Tick, vars
<1>3. /\ \A d \in Dec : /\ meta'[d] = Later(meta[d]) /\ rem'[d] = Later(rem[d])
                        /\ quiet'[d] = Less(quiet[d])
      /\ \A g \in Dec \X Source \X (0..1) : sent'[g] = Less(sent[g])
      /\ \A p \in Loop \cup Other : copy[p] = None => copy'[p] = None
  <2> DEFINE s == LaterState([rem |-> rem, sent |-> sent])
  <2>1. /\ meta' = [d \in Dec |-> Later(meta[d])] /\ quiet' = [d \in Dec |-> Less(quiet[d])]
        /\ rem' = s.rem /\ sent' = s.sent
        /\ copy' = [p \in DOMAIN copy |-> IF copy[p] = None THEN None ELSE LaterState(copy[p])]
    BY DEF Tick
  <2>2. s.rem = [d \in Dec |-> Later(rem[d])] /\ s.sent = [g \in DOMAIN sent |-> Less(sent[g])]
    BY DEF LaterState
  <2>3. DOMAIN sent = Dec \X Source \X (0..1) /\ DOMAIN copy = Loop \cup Other
    <3>1. sent \in [Dec \X Source \X (0..1) -> 0..Cadence]
      BY <1>1, NotesTyped DEF Signatures
    <3>2. copy \in [Loop \cup Other -> State \cup {None}]
      BY <1>1 DEF RType, ReminderTypeOK
    <3> QED BY <3>1, <3>2
  <2> HIDE DEF s
  <2> QED BY <2>1, <2>2, <2>3
<1>4. Base'
  BY <1>2 DEF SpaceInv, Base, Fresh, Distinct, Busy
<1>5. /\ \A d \in Dec : ~Merging(d) /\ ~Merging(d)'
      /\ \A l \in Loop : /\ Asked(l)' = {} /\ Sending(l)' = {} /\ Copying(l)' = {}
                         /\ copy'[l] = None
  BY <1>2, <1>3 DEF Merging, Asked, Sending, Copying
<1>6. \A a, b \in 0..Cadence : a >= b => Less(a) >= Less(b)
  BY <1>1, NotesTyped DEF Less
<1>7. \A s \in Stamp \cup {None} :
        /\ Later(s) = None <=> s = None
        /\ s # None => Later(s).n = s.n /\ Later(s).left = Less(s.left) /\ s.left \in 0..Cadence
  BY LessTyped, ReminderAssumption DEF ReminderAssumption, Later, Stamp
<1>8. ASSUME NEW d \in Dec
      PROVE  /\ quiet[d] = 0 => quiet'[d] = 0
             /\ Stamped(d) => Stamped(d)'
             /\ Noted(d) => Noted(d)'
             /\ Signed(d) => Signed(d)'
  <2>1. /\ quiet[d] \in 0..Cadence /\ meta[d] \in Stamp \cup {None} /\ rem[d] \in Stamp \cup {None}
    BY <1>1, NotesTyped
  <2>2. quiet[d] = 0 => quiet'[d] = 0
    BY <1>3 DEF Less
  <2>3. Stamped(d) => Stamped(d)'
    BY <1>3, <1>6, <1>7, <2>1 DEF Stamped
  <2>4. Noted(d) => Noted(d)'
    BY <1>3, <1>6, <1>7, <2>1 DEF Noted
  <2>5. Due(d)'.n = Due(d).n /\ Due(d).n \in 0..1
    <3>1. Due(d).n \in 0..1
      BY <2>1, <1>1, NotesTyped, PastTyped DEF Due, Stamp
    <3>2. Due(d)'.n = Due(d).n
      BY <1>3, <1>7, <2>1 DEF Due, Past
    <3> QED BY <3>1, <3>2
  <2>6. Sig(d, Due(d).n) \in Dec \X Source \X (0..1)
    BY <2>5 DEF Sig, Source
  <2>7. Signed(d) => Signed(d)'
    BY <1>1, <1>3, <1>6, <2>1, <2>5, <2>6, NotesTyped DEF Signed, Signatures, Sig
  <2> QED BY <2>2, <2>3, <2>4, <2>7
<1>9. Kept => Kept'
  BY <1>2, <1>5, <1>8 DEF Kept
<1>10. Agreed => Agreed'
  BY <1>3, <1>5 DEF Agreed, Alone, Copied
<1>11. Remembered => Remembered'
  BY <1>2, <1>3, <1>5, <1>8 DEF Remembered, Alone, Copied
<1> QED BY <1>2, <1>4, <1>9, <1>10, <1>11 DEF SpaceInv

\* Whatever the decision workflow does meanwhile, no question is opened again.
LEMMA OutsideSpaced ==
  ASSUME Going, UNCHANGED rvars
  PROVE  SpaceInv'
<1> USE DEF Going
<1>1. RType /\ UNCHANGED <<stopped, meta, rem, sent, copy, stopping, loop, mishaps, quiet>>
  BY DEF SpaceInv, Base, rvars
<1>2. Base'
  BY <1>1 DEF SpaceInv, Base, Fresh, Distinct
<1>3. \A l \in Loop : \A i \in Asked(l) \cup Sending(l) : i.d \in Dec
  <2> SUFFICES ASSUME NEW l \in Loop, NEW i \in Asked(l) \cup Sending(l) PROVE i.d \in Dec
    OBVIOUS
  <2> QED BY <1>1, RoundTyped, ItemFacts DEF Asked, Sending, Busy
<1>4. /\ \A d \in Dec : /\ Merging(d)' <=> Merging(d)
                        /\ Stamped(d)' <=> Stamped(d)
                        /\ Signed(d)' <=> Signed(d)
                        /\ Noted(d)' <=> Noted(d)
      /\ \A l \in Loop : /\ Asked(l)' = Asked(l) /\ Sending(l)' = Sending(l)
                         /\ Copying(l)' = Copying(l)
  BY <1>1 DEF Merging, Stamped, Signed, Noted, Due, Asked, Sending, Copying
<1>5. Kept => Kept'
  BY <1>1, <1>3, <1>4 DEF Kept
<1>6. Agreed => Agreed'
  BY <1>1 DEF Agreed, Alone, Copied, Due, Merging, Signed, Asked, Sending, Copying
<1>7. Remembered => Remembered'
  BY <1>1, <1>3, <1>4 DEF Remembered, Alone, Copied
<1> QED BY <1>1, <1>2, <1>5, <1>6, <1>7 DEF SpaceInv

LEMMA SpaceStep ==
  ASSUME OneLoop, OneMishap, SpaceInv, DInv, [RNext]_allvars
  PROVE  SpaceInv'
<1>1. Going
  <2>1. RType'
    BY RTypeStep DEF SpaceInv, Base, DInv
  <2>2. \A d \in Dec : Live(d)' => Live(d)
    BY LiveShrinks
  <2> QED BY <2>1, <2>2 DEF Going
<1>2. CASE UNCHANGED rvars
  BY <1>1, <1>2, OutsideSpaced
<1>3. CASE \E l \in Loop : LoopStep(l) \/ Die(l)
  <2>1. PICK l \in Loop : LoopStep(l) \/ Die(l)
    BY <1>3
  <2> QED
    BY <1>1, <2>1, ScanRegistrySpaced, ScanLedgerSpaced, SendSpaced, LoadSpaced, SaveSpaced,
       MergeSpaced, NoteSpaced, DieSpaced DEF LoopStep
<1>4. CASE \E p \in Other : LoadState(p) \/ SaveState(p)
  BY <1>1, <1>4, OtherSpaced
<1>5. CASE \E d \in Dec : StopTopic(d) \/ StopNoted(d)
  BY <1>1, <1>5, StopSpaced
<1>6. CASE Tick
  BY <1>1, <1>6, TickSpaced
<1> QED BY <1>2, <1>3, <1>4, <1>5, <1>6 DEF RNext, allvars

\* With one loop, and with any one failure at any moment - a lost note, a timeout, a
\* process that dies, a state file that another notifier writes back: a question that is
\* still open is not sent again before the cadence of its last recorded delivery is over.
THEOREM RemindersAreSpaced ==
  OneLoop /\ OneMishap => (RemindersSpec => []SpacedReminders)
<1> SUFFICES ASSUME OneLoop, OneMishap PROVE RemindersSpec => []SpacedReminders
  OBVIOUS
<1>1. SpaceInv => SpacedReminders
  <2> SUFFICES ASSUME SpaceInv, NEW l \in Loop,
                      loop[l].at = "load", loop[l].cur.src = "registry",
                      IsOpen(loop[l].cur.d), loop[l].cur.d \notin stopped
               PROVE  quiet[loop[l].cur.d] = 0
    BY DEF SpacedReminders
  <2>1. loop[l].cur \in Sending(l) /\ Live(loop[l].cur.d)
    BY DEF Sending, Live, IsOpen
  <2> QED BY <2>1 DEF SpaceInv, Kept, Remembered
<1> QED
  BY <1>1, SpaceInit, SpaceStep, RemindersImplementDecisions, DecisionInvariant, PTL
     DEF RemindersSpec
=============================================================================
