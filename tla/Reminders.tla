------------------------------ MODULE Reminders ------------------------------
(***************************************************************************)
(* The reminders of open questions                                         *)
(* (src/workflows/portable/telegram_notifier.py, QuestionReminderManager)  *)
(* beside the decision workflow. A loop reads the registry, then the       *)
(* ledger, sends what is due, and notes each delivery in three places: the *)
(* notify state (its signature), the registry (or the ledger, when the     *)
(* registry's lock is not to be had), and the notify state again.          *)
(*                                                                         *)
(* Times are countdowns: how long until the question is due, or until a    *)
(* signature may be sent again. Time passes between iterations; one        *)
(* iteration is short against the cadence. The reminder count only makes   *)
(* two signatures different that are less than a cadence apart: it is kept *)
(* modulo 2. Questions that only the ledger has, dry runs, forced and      *)
(* consolidated ones and questions owned by a session channel are left     *)
(* out; formatting, routing and the send budget are part of a send that    *)
(* fails. Where the code takes the first request of the ledger, any is     *)
(* taken here.                                                             *)
(***************************************************************************)
EXTENDS DecisionWorkflow

CONSTANTS
  Loop,         \* the processes that send reminders
  Other,        \* processes that notify of something else
  About,        \* [Dec -> Request]: request_id
  Cadence,      \* ticks between two reminders of a question
  MaxMishaps    \* failed sends, lock timeouts, overwritten states, crashes

ASSUME ReminderAssumption ==
  /\ About \in [Dec -> Request]
  /\ Cadence \in Nat \ {0} /\ MaxMishaps \in Nat
  /\ Loop \cap Other = {}
  /\ None \notin [n : 0..1, left : 0..Cadence]

VARIABLES
  stopped,    \* the registry: topics stopped by the operator
  meta,       \* the registry: when and how often a question was sent
  twin,       \* the ledger: the same of its own entry of the decision
  rem,        \* notify state: question_reminders
  sent,       \* notify state: sent_signatures
  copy,       \* the notify state as a notifier read it
  stopping,   \* stops that are still to be written to the notify state
  loop,       \* where each loop is
  mishaps,
  quiet       \* history: the cadence of the last recorded delivery

rvars == <<stopped, meta, twin, rem, sent, copy, stopping, loop, mishaps, quiet>>
allvars == <<vars, rvars>>

Source == {"registry", "ledger"}
Stamp == [n : 0..1, left : 0..Cadence]
Item == [d : Dec, src : Source, n : 0..1]
Signatures == [Dec \X Source \X (0..1) -> 0..Cadence]
State == [rem : [Dec -> Stamp \cup {None}], sent : Signatures]
Record == [rec : [st : Status, ans : Option \cup {None},
                  by : Comment \cup {Button, None}],
           stop : BOOLEAN, own : Stamp \cup {None}]
Places == {"idle", "ledger", "send", "load", "save", "merge", "state"}
Round == [at : Places, seen : [Dec -> Record], todo : SUBSET Item,
          cur : Item \cup {None}]

ReminderTypeOK ==
  /\ stopped \subseteq Dec /\ stopping \subseteq Dec
  /\ meta \in [Dec -> Stamp \cup {None}]
  /\ twin \in [Request -> [Dec -> Stamp \cup {None}]]
  /\ [rem |-> rem, sent |-> sent] \in State
  /\ copy \in [Loop \cup Other -> State \cup {None}]
  /\ loop \in [Loop -> Round]
  /\ mishaps \in 0..MaxMishaps
  /\ quiet \in [Dec -> 0..Cadence]

Unread == [d \in Dec |-> [rec |-> [st |-> "absent", ans |-> None, by |-> None],
                          stop |-> FALSE, own |-> None]]
Asleep == [at |-> "idle", seen |-> Unread, todo |-> {}, cur |-> None]

RInit ==
  /\ Init
  /\ stopped = {} /\ stopping = {}
  /\ meta = [d \in Dec |-> None]
  /\ twin = [q \in Request |-> [d \in Dec |-> None]]
  /\ rem = [d \in Dec |-> None]
  /\ sent = [s \in Dec \X Source \X (0..1) |-> 0]
  /\ copy = [p \in Loop \cup Other |-> None]
  /\ loop = [l \in Loop |-> Asleep]
  /\ mishaps = 0 /\ quiet = [d \in Dec |-> 0]

Mishap == mishaps < MaxMishaps /\ mishaps' = mishaps + 1
Goto(l, r) == loop' = [loop EXCEPT ![l] = r]

\* what is known of earlier reminders: the record's own, else the notify state's
Past(own, other) ==
  IF own # None THEN own ELSE IF other # None THEN other ELSE [n |-> 0, left |-> 0]

(***************************************************************************)
(* get_unresolved_questions. The registry is read first: a decision that   *)
(* is open in it hides the ledger's entries of the same name, one that is  *)
(* answered or stopped does not.                                           *)
(***************************************************************************)
ScanRegistry(l) ==
  /\ loop[l].at = "idle"
  /\ Goto(l, [loop[l] EXCEPT !.at = "ledger",
       !.seen = [d \in Dec |-> [rec |-> reg[d], stop |-> d \in stopped, own |-> meta[d]]]])
  /\ UNCHANGED <<vars, stopped, meta, twin, rem, sent, copy, stopping, mishaps, quiet>>

\* Mutant of OpenIn: a question that was sent once is taken for settled
OpenOnce(seen, d) ==
  /\ seen[d].rec.st \in {"pending", "clarification_requested"}
  /\ ~seen[d].stop /\ About[d] \notin done /\ seen[d].own = None

\* a question that nobody answered or stopped, of a request that is not done
OpenIn(seen, d) ==
  /\ seen[d].rec.st \in {"pending", "clarification_requested"}
  /\ ~seen[d].stop /\ About[d] \notin done

\* Mutant of Waits: an answered entry of the ledger is taken for an open one
WaitsForever(q, d) == q \notin done /\ entry[q][d] # "none"

\* a request that still waits for the decision
Waits(q, d) == q \notin done /\ entry[q][d] = "pending"

DueItems(seen) ==
  LET item(d, s, past) == [d |-> d, src |-> s, n |-> past.n]
      own(d) == Past(seen[d].own, rem[d])
  IN  {item(d, "registry", own(d)) : d \in {e \in Dec : OpenIn(seen, e) /\ own(e).left = 0}}
      \cup UNION {LET q == CHOOSE r \in Request : Waits(r, d)
                      past == Past(twin[q][d], rem[d])
                  IN  {i \in {item(d, "ledger", past)} : past.left = 0}
                  : d \in {e \in Dec : ~OpenIn(seen, e) /\ \E r \in Request : Waits(r, e)}}

\* to the next question, or to sleep
Onward(l, todo) ==
  Goto(l, IF todo = {} THEN Asleep
          ELSE [loop[l] EXCEPT !.at = "send", !.todo = todo, !.cur = None])

ScanLedger(l) ==
  /\ loop[l].at = "ledger"
  /\ Onward(l, DueItems(loop[l].seen))
  /\ UNCHANGED <<vars, stopped, meta, twin, rem, sent, copy, stopping, mishaps, quiet>>

Signature(i) == <<i.d, i.src, 1 - i.n>>

\* Mutant of Repeated: the signature of a delivery is not looked up
RepeatedNever(i) == FALSE

\* check_eligible: this very reminder was sent less than a cadence ago
Repeated(i) == sent[Signature(i)] > 0

(***************************************************************************)
(* notify: a send that fails, and one that is delivered but whose answer   *)
(* is lost, are the same to the loop.                                      *)
(***************************************************************************)
Send(l, i) ==
  /\ loop[l].at = "send" /\ i \in loop[l].todo
  /\ \/ /\ ~Repeated(i)
        /\ Goto(l, [loop[l] EXCEPT !.at = "load", !.todo = @ \ {i}, !.cur = i])
        /\ UNCHANGED mishaps
     \/ /\ Repeated(i) /\ UNCHANGED mishaps
        /\ Onward(l, loop[l].todo \ {i})
     \/ /\ ~Repeated(i) /\ Mishap
        /\ Onward(l, loop[l].todo \ {i})
  /\ UNCHANGED <<vars, stopped, meta, twin, rem, sent, copy, stopping, quiet>>

\* record_dispatch reads and writes the whole notify state, without its lock
LoadState(p) ==
  /\ copy[p] = None
  /\ \/ p \in Loop /\ loop[p].at = "load"
        /\ Goto(p, [loop[p] EXCEPT !.at = "save"]) /\ UNCHANGED mishaps
     \/ p \in Other /\ Mishap /\ UNCHANGED loop
  /\ copy' = [copy EXCEPT ![p] = [rem |-> rem, sent |-> sent]]
  /\ UNCHANGED <<vars, stopped, meta, twin, rem, sent, stopping, quiet>>

SaveState(p) ==
  /\ copy[p] # None
  /\ rem' = copy[p].rem
  /\ IF p \in Loop
       THEN /\ sent' = [copy[p].sent EXCEPT ![Signature(loop[p].cur)] = Cadence]
            /\ quiet' = [quiet EXCEPT ![loop[p].cur.d] =
                           IF loop[p].cur.src = "registry" THEN Cadence ELSE @]
            /\ Goto(p, [loop[p] EXCEPT !.at = "merge"])
       ELSE sent' = copy[p].sent /\ UNCHANGED <<quiet, loop>>
  /\ copy' = [copy EXCEPT ![p] = None]
  /\ UNCHANGED <<vars, stopped, meta, twin, stopping, mishaps>>

\* Mutant of Reread: what the scan read is judged and written back
RereadScan(l) == [d \in Dec |-> loop[l].seen[d].rec]

\* the records that the merge judges and writes back, read again under the lock
Reread(l) == reg

NextStamp(i) == [n |-> 1 - i.n, left |-> Cadence]

(***************************************************************************)
(* _save_decision_reminder_metadata_under_lock. A record that was answered *)
(* or stopped meanwhile is left alone; when the registry's lock times out, *)
(* the ledger's entry is stamped, if there is one that waits and if its    *)
(* lock is to be had.                                                      *)
(***************************************************************************)
MergeMeta(l) ==
  LET i == loop[l].cur
      live == Reread(l)[i.d].st # "answered" /\ i.d \notin stopped
      found == CHOOSE q \in Request : entry[q][i.d] # "none"
      noted == Goto(l, [loop[l] EXCEPT !.at = "state"])
  IN  /\ loop[l].at = "merge"
      /\ \/ /\ lock = None /\ live /\ noted
            /\ reg' = Reread(l)
            /\ meta' = [meta EXCEPT ![i.d] = NextStamp(i)]
            /\ UNCHANGED <<twin, mishaps>>
         \/ /\ lock = None /\ ~live
            /\ Onward(l, loop[l].todo)
            /\ UNCHANGED <<reg, meta, twin, mishaps>>
         \/ /\ Mishap
            /\ \E q \in Request : entry[q][i.d] # "none"
            /\ entry[found][i.d] = "pending"
            /\ twin' = [twin EXCEPT ![found][i.d] = NextStamp(i)]
            /\ noted /\ UNCHANGED <<reg, meta>>
         \/ /\ Mishap /\ Onward(l, loop[l].todo)
            /\ UNCHANGED <<reg, meta, twin>>
      /\ UNCHANGED <<handled, posted, ledger, issue, snap, work, lock, faults,
                     stopped, rem, sent, copy, stopping, quiet>>

\* _update_notify_state_reminder_under_lock; a timeout is swallowed
NoteReminder(l) ==
  /\ loop[l].at = "state"
  /\ \/ rem' = [rem EXCEPT ![loop[l].cur.d] = NextStamp(loop[l].cur)] /\ UNCHANGED mishaps
     \/ Mishap /\ UNCHANGED rem
  /\ Onward(l, loop[l].todo)
  /\ UNCHANGED <<vars, stopped, meta, twin, sent, copy, stopping, quiet>>

\* a one-shot run is ended by its deadline, a loop by its host; both are started again
Die(l) ==
  /\ Mishap /\ loop[l].at # "idle"
  /\ Goto(l, Asleep) /\ copy' = [copy EXCEPT ![l] = None]
  /\ UNCHANGED <<vars, stopped, meta, twin, rem, sent, stopping, quiet>>

\* stop_topic: the registry, then the notify state, whose entry names no times
StopTopic(d) ==
  /\ lock = None /\ reg[d].st # "absent" /\ d \notin stopped
  /\ stopped' = stopped \cup {d} /\ stopping' = stopping \cup {d}
  /\ UNCHANGED <<vars, meta, twin, rem, sent, copy, loop, mishaps, quiet>>

StopNoted(d) ==
  /\ d \in stopping
  /\ stopping' = stopping \ {d}
  /\ \/ rem' = [rem EXCEPT ![d] = None] /\ UNCHANGED mishaps
     \/ Mishap /\ UNCHANGED rem
  /\ UNCHANGED <<vars, stopped, meta, twin, sent, copy, loop, quiet>>

Less(k) == IF k = 0 THEN 0 ELSE k - 1
Later(stamp) == IF stamp = None THEN None ELSE [stamp EXCEPT !.left = Less(@)]
LaterState(s) == [rem |-> [d \in Dec |-> Later(s.rem[d])],
                  sent |-> [g \in DOMAIN s.sent |-> Less(s.sent[g])]]

Tick ==
  /\ \A l \in Loop : loop[l].at = "idle"
  /\ meta' = [d \in Dec |-> Later(meta[d])]
  /\ twin' = [q \in Request |-> [d \in Dec |-> Later(twin[q][d])]]
  /\ LET s == LaterState([rem |-> rem, sent |-> sent])
     IN  rem' = s.rem /\ sent' = s.sent
  /\ copy' = [p \in DOMAIN copy |-> IF copy[p] = None THEN None ELSE LaterState(copy[p])]
  /\ quiet' = [d \in Dec |-> Less(quiet[d])]
  /\ UNCHANGED <<vars, stopped, stopping, loop, mishaps>>

LoopStep(l) == \/ ScanRegistry(l) \/ ScanLedger(l)
               \/ \E i \in loop[l].todo : Send(l, i)
               \/ LoadState(l) \/ SaveState(l) \/ MergeMeta(l) \/ NoteReminder(l)

RNext ==
  \/ Next /\ UNCHANGED rvars
  \/ \E l \in Loop : LoopStep(l) \/ Die(l)
  \/ \E p \in Other : LoadState(p) \/ SaveState(p)
  \/ \E d \in Dec : StopTopic(d) \/ StopNoted(d)
  \/ Tick

RemindersSpec == RInit /\ [][RNext]_allvars

(***************************************************************************)
(* The loop goes on, and sleeps between its iterations while time passes.  *)
(* A process that holds the registry's lock goes on.                       *)
(***************************************************************************)
RemindersFairSpec ==
  /\ RemindersSpec
  /\ \A l \in Loop : WF_allvars(LoopStep(l))
  /\ SF_allvars(Tick)
  /\ \A p \in Poller \cup {Button} : WF_allvars(JobStep(p) /\ UNCHANGED rvars)

-----------------------------------------------------------------------------
(***************************************************************************)
(* Properties                                                              *)
(***************************************************************************)
Current(l) == loop[l].todo \cup {i \in {loop[l].cur} : i # None}

(* A question that is open in the registry is not sent from it again       *)
(* within the cadence of a delivery that the loop lived to record,         *)
(* although a lock timeout, a crash, a failed call or an overwritten state *)
(* file may take away one of the three notes. (The ledger's entry may be   *)
(* worded otherwise and then has a signature of its own.)                  *)
SpacedReminders ==
  \A l \in Loop : loop[l].at = "load" /\ loop[l].cur.src = "registry" =>
    LET d == loop[l].cur.d
    IN  IsOpen(d) /\ d \notin stopped => quiet[d] = 0

(* A decision that a comment had answered when an iteration began is not   *)
(* asked in it, not from the ledger's entries either: the ledger was told  *)
(* first, and is read last.                                                *)
AnsweredIsNotAsked ==
  \A l \in Loop : \A i \in Current(l) :
    LET rec == loop[l].seen[i.d].rec
    IN  ~(rec.st = "answered" /\ rec.by \in Comment)

(* A question that stays open, whose request is not done and that nobody   *)
(* stops, is sent again and again.                                         *)
AskedAgain ==
  \A d \in Dec :
    <>[](IsOpen(d) /\ d \notin stopped /\ About[d] \notin done)
      => []<>(\E l \in Loop : loop[l].at = "load" /\ loop[l].cur.d = d)
=============================================================================
