--------------------------- MODULE DecisionWorkflow ---------------------------
(***************************************************************************)
(* The decision workflow (src/workflows/portable/decision_workflow.py): a  *)
(* question for a human is registered, blocks the requests that depend on  *)
(* it, and is answered by a comment on its issue or by a button of the     *)
(* chat. The decision registry and the request ledger are two files, each  *)
(* with a lock of its own: what is said of a decision in both is brought   *)
(* together call by call.                                                  *)
(*                                                                         *)
(* The processes are the command that registers a decision, named by the   *)
(* decision, the pollers that run sync_decisions, and the button handler.  *)
(* A ledger call is one step; it may time out on the ledger's lock. Any    *)
(* process may crash; the kernel then frees its lock.                      *)
(*                                                                         *)
(* A reply is abstracted to what the parser makes of it, and an edit of    *)
(* the question's own checkboxes to what is made of the transition. The    *)
(* dependencies of a decision are handled in the order of a list in the    *)
(* code and in any order here. Test replies, session checks and events     *)
(* that are handed in from outside are left out.                           *)
(***************************************************************************)
EXTENDS Naturals, FiniteSets, Sequences

CONSTANTS
  Dec, Request, Comment,
  Deps,       \* [Dec -> SUBSET Request]: blocking_dependencies
  On,         \* [Comment -> Dec]: the decision whose issue carries the comment
  Question,   \* the comments that are a question: its boxes are ticked by edits
  Listed,     \* the options of every question, in the order of the contract
  Kinds,      \* [Comment -> SUBSET Kind]: what its author may write
  Words,      \* options whose name may also occur in the prose of a reply
  Poller,     \* the processes that run sync_decisions
  Button,     \* the handler of chat callbacks
  MaxEdits,   \* [Comment -> Nat]: how often a comment is edited
  MaxFaults,  \* ledger calls that time out, and crashes
  None

ASSUME DecisionAssumption ==
  /\ Deps \in [Dec -> SUBSET Request]
  /\ On \in [Comment -> Dec] /\ Question \subseteq Comment
  /\ Kinds \in [Comment -> SUBSET {"choice", "unclear", "refused"}]
  /\ Dec \cap (Poller \cup {Button}) = {} /\ Button \notin Poller
  /\ None \notin Dec \cup Poller \cup {Button} \cup Comment \cup Request
  /\ Button \notin Comment /\ IsFiniteSet(Request)
  /\ DOMAIN Listed \subseteq Nat
  /\ {"none", "pending", None} \cap {Listed[i] : i \in DOMAIN Listed} = {}
  /\ MaxEdits \in [Comment -> Nat] /\ MaxFaults \in Nat

VARIABLES
  reg,        \* the registry: status, answer and who gave it, per decision
  handled,    \* replies already clarified or refused: comment and revision
  posted,     \* decisions whose question is on the issue
  entry,      \* the ledger: what request q records of decision d
  blocker,    \* the ledger: the decision named in the blocker text
  done,       \* the ledger: finished requests
  said,       \* the comments on GitHub
  history,    \* GitHub's history of a question: its earlier revisions
  snap,       \* the registry: the revision of a question that was dealt with
  work,       \* per process: the job it is at
  lock,       \* the holder of the registry's lock
  faults      \* what happened of MaxFaults

ledger == <<entry, blocker, done>>
issue == <<said, history>>
vars == <<reg, handled, posted, ledger, issue, snap, work, lock, faults>>

Process == Dec \cup Poller \cup {Button}
Option == {Listed[i] : i \in DOMAIN Listed}
Status == {"absent", "pending", "clarification_requested", "answered"}
Kind == {"unsaid", "choice", "unclear", "refused"}
Reply == [kind : Kind, opt : Option \cup {None}, also : SUBSET Words,
          rev : Nat]
Jobs == {"idle", "register", "judge", "answer", "press", "clarify", "refuse", "note"}
Work == [job : Jobs, dec : Dec \cup {None}, com : Comment \cup {None},
         reply : Reply, todo : SUBSET Request, cur : Request \cup {None},
         rest : SUBSET Reply,   \* the revisions that are still to be judged
         last : Reply,          \* the latest revision of those that were read
         blind : BOOLEAN]       \* the edit is judged without its history

Unsaid == [kind |-> "unsaid", opt |-> None, also |-> {}, rev |-> 0]
Idle == [job |-> "idle", dec |-> None, com |-> None, reply |-> Unsaid,
         todo |-> {}, cur |-> None, rest |-> {}, last |-> Unsaid, blind |-> FALSE]

TypeOK ==
  /\ reg \in [Dec -> [st : Status, ans : Option \cup {None},
                      by : Comment \cup {Button, None}]]
  /\ handled \subseteq Dec \X Comment \X Nat
  /\ posted \subseteq Dec /\ done \subseteq Request
  /\ entry \in [Request -> [Dec -> {"none", "pending"} \cup Option]]
  /\ blocker \in [Request -> Dec \cup {None}]
  /\ said \in [Comment -> Reply] /\ history \in [Comment -> SUBSET Reply]
  /\ snap \in [Comment -> Nat]
  /\ work \in [Process -> Work]
  /\ lock \in Poller \cup {Button, None}
  /\ faults \in 0..MaxFaults

Init ==
  /\ reg = [d \in Dec |-> [st |-> "absent", ans |-> None, by |-> None]]
  /\ handled = {} /\ posted = {}
  /\ entry = [q \in Request |-> [d \in Dec |-> "none"]]
  /\ blocker = [q \in Request |-> None] /\ done = {}
  /\ said = [c \in Comment |-> Unsaid] /\ history = [c \in Comment |-> {}]
  /\ snap = [c \in Comment |-> 0]
  /\ work = [p \in Process |-> Idle]
  /\ lock = None /\ faults = 0

IsOpen(d) == reg[d].st \in {"pending", "clarification_requested"}
Pending(q) == {d \in Dec : entry[q][d] = "pending"}   \* decision_blockers

(***************************************************************************)
(* What the ledger records for an answer: the first listed option whose    *)
(* name occurs among the words of the interpretation, which quotes the     *)
(* reply.                                                                  *)
(***************************************************************************)
Recorded(o, also) ==
  LET hits == {i \in DOMAIN Listed : Listed[i] \in {o} \cup also}
  IN  Listed[CHOOSE i \in hits : \A j \in hits : i <= j]

Do(p, w) == work' = [work EXCEPT ![p] = w]

\* a ledger call that times out
Fault == faults < MaxFaults /\ faults' = faults + 1

(***************************************************************************)
(* The requests a blocker may be written onto. One that cannot be read is  *)
(* left out like one that is done. They are all looked at before the first *)
(* is written.                                                             *)
(***************************************************************************)
Screened(p, w) ==
  \E lost \in SUBSET (Deps[w.dec] \ done) :
    /\ faults + Cardinality(lost) <= MaxFaults
    /\ faults' = faults + Cardinality(lost)
    /\ Do(p, [w EXCEPT !.todo = (Deps[w.dec] \ done) \ lost])

(***************************************************************************)
(* The command that registers a decision: the registry is written first,   *)
(* then every request gets an entry and a blocker text, then the question  *)
(* is posted.                                                              *)
(***************************************************************************)
Register(d) ==
  /\ lock = None /\ work[d] = Idle /\ reg[d].st = "absent"
  /\ reg' = [reg EXCEPT ![d].st = "pending"]
  /\ Screened(d, [Idle EXCEPT !.job = "register", !.dec = d])
  /\ UNCHANGED <<handled, posted, ledger, issue, snap, lock>>

\* add_decision; a failure of it is swallowed
AddEntry(d, q) ==
  /\ work[d].job = "register" /\ work[d].cur = None /\ q \in work[d].todo
  /\ \/ entry' = [entry EXCEPT ![q][d] = "pending"] /\ UNCHANGED faults
     \/ Fault /\ UNCHANGED entry
  /\ Do(d, [work[d] EXCEPT !.cur = q])
  /\ UNCHANGED <<reg, handled, posted, blocker, done, issue, snap, lock>>

Post(d) ==
  /\ work[d].job = "register" /\ work[d].todo = {}
  /\ posted' = posted \cup {d}
  /\ Do(d, Idle)
  /\ UNCHANGED <<reg, handled, ledger, issue, snap, lock, faults>>

\* what a job that fails, or ends, gives up
Abort(p) == /\ Do(p, Idle)
            /\ lock' = IF lock = p THEN None ELSE lock

(***************************************************************************)
(* When the history of a question cannot be had, or anything fails while   *)
(* it is gone through, the latest revision is judged without it: its       *)
(* editor is unknown, so that it approves nothing. It is compared with the *)
(* body that was noted last, and refused for an invalid block of that one  *)
(* too; a body that was refused is noted only by an earlier fallback.      *)
(***************************************************************************)
NotedRefused(c) == \E r \in history[c] : r.kind = "refused" /\ r.rev <= snap[c]

FallBack(p, w) ==
  /\ \E k \in {"unclear", "refused"} :
       /\ k = "refused" => w.last.kind = "refused" \/ NotedRefused(w.com)
       /\ Do(p, [Idle EXCEPT !.job = "judge", !.dec = w.dec, !.com = w.com, !.last = w.last,
                   !.rest = {[Unsaid EXCEPT !.kind = k, !.rev = w.last.rev]}, !.blind = TRUE])
  /\ lock' = IF lock = p THEN None ELSE lock

\* a ledger call of a poller, or of the command that registers, failed
Fails(p) ==
  IF work[p].com \in Question /\ ~work[p].blind THEN FallBack(p, work[p]) ELSE Abort(p)

\* update_request(blocker = ...); a timeout ends the command or the reply
WriteBlocker(p, q) ==
  /\ \/ work[p].job \in {"clarify", "refuse"} /\ q \in work[p].todo
     \/ work[p].job = "register" /\ q = work[p].cur
  /\ \/ /\ blocker' = [blocker EXCEPT ![q] = work[p].dec]
        /\ Do(p, [work[p] EXCEPT !.todo = @ \ {q}, !.cur = None])
        /\ UNCHANGED <<lock, faults>>
     \/ Fault /\ Fails(p) /\ UNCHANGED blocker
  /\ UNCHANGED <<reg, handled, posted, entry, done, issue, snap>>

(***************************************************************************)
(* The people: a comment is made once the question is there, and edited;   *)
(* the question is edited to tick a box. Refused stands for every reply    *)
(* that may not answer (of someone not authorised, of an agent, stale,     *)
(* unsafe), unclear for every reply that names no option or whose origin   *)
(* is not established, and for every edit of the question that does more   *)
(* or less than tick one box where none was ticked.                        *)
(***************************************************************************)
Say(c) ==
  /\ On[c] \in posted /\ said[c].rev <= MaxEdits[c]
  /\ \E k \in Kinds[c], also \in SUBSET Words :
       /\ c \in Question /\ said[c].kind = "choice" => k # "choice"
       /\ \E o \in IF k = "choice" THEN Option ELSE {None} :
            said' = [said EXCEPT ![c] =
                       [kind |-> k, opt |-> o, also |-> IF k = "choice" THEN also ELSE {},
                        rev |-> @.rev + 1]]
  /\ history' = [history EXCEPT ![c] = IF c \in Question /\ said[c].rev > 0
                                   THEN @ \cup {said[c]} ELSE @]
  /\ UNCHANGED <<reg, handled, posted, ledger, snap, work, lock, faults>>

\* the worker ends its request: the ledger refuses while something blocks it
Finish(q) ==
  /\ q \notin done /\ Pending(q) = {} /\ blocker[q] = None
  /\ done' = done \cup {q}
  /\ UNCHANGED <<reg, handled, posted, entry, blocker, issue, snap, work, lock, faults>>

(***************************************************************************)
(* sync_decisions: the comments of every open, posted decision, one after  *)
(* the other. A comment is fetched before the registry's lock is taken. A  *)
(* question that was edited since it was dealt with is fetched with all    *)
(* its revisions.                                                          *)
(***************************************************************************)
Fetch(p, c) ==
  LET w == [Idle EXCEPT !.job = "judge", !.dec = On[c], !.com = c, !.last = said[c],
                        !.rest = history[c] \cup {said[c]}]
  IN  /\ work[p] = Idle /\ IsOpen(On[c]) /\ On[c] \in posted /\ said[c].rev # snap[c]
      /\ \/ Do(p, w) /\ UNCHANGED <<lock, faults>>
         \/ c \in Question /\ Fault /\ FallBack(p, w)
      /\ UNCHANGED <<reg, handled, posted, ledger, issue, snap>>

\* Mutant of Settled: an answered decision is not recognised
SettledOpen(w) == <<w.dec, w.com, w.reply.rev>> \in handled

\* nothing is done about a reply that was dealt with, or to a settled decision
Settled(w) == \/ reg[w.dec].st = "answered"
              \/ <<w.dec, w.com, w.reply.rev>> \in handled

\* process_reply, or process_issue_edit on the oldest revision that is left, up to
\* the first ledger call that writes
Judge(p) ==
  /\ work[p].job = "judge" /\ lock = None
  /\ \E r \in work[p].rest :
       LET w == [work[p] EXCEPT !.reply = r, !.rest = @ \ {r}]
       IN  /\ \A s \in w.rest : r.rev <= s.rev
           /\ IF Settled(w)
                THEN Do(p, Idle) /\ UNCHANGED <<lock, faults>>
                ELSE /\ lock' = p
                     /\ IF r.kind = "choice"
                          THEN /\ Do(p, [w EXCEPT !.job = "answer", !.todo = Deps[w.dec]])
                               /\ UNCHANGED faults
                          ELSE Screened(p, [w EXCEPT !.job =
                                 IF r.kind = "unclear" THEN "clarify" ELSE "refuse"])
  /\ UNCHANGED <<reg, handled, posted, ledger, issue, snap>>

(***************************************************************************)
(* resolve_telegram_callback: a button of an unanswered decision.          *)
(***************************************************************************)
Press(d, o) ==
  /\ lock = None /\ work[Button] = Idle /\ IsOpen(d)
  /\ lock' = Button
  /\ Do(Button, [Idle EXCEPT !.job = "press", !.dec = d, !.todo = Deps[d],
                !.reply = [kind |-> "choice", opt |-> o, also |-> {}, rev |-> 0]])
  /\ UNCHANGED <<reg, handled, posted, ledger, issue, snap, faults>>

\* Mutant of Known: the guard of the replay, that the decision still blocks the request
KnownBlocked(q, d) == d \in Pending(q)

\* a request that records nothing of the decision is passed over
Known(q, d) == entry[q][d] # "none"

\* the button goes on with the next request when a call fails
Swallows(w) == w.job = "press"

\* resolve_decision
Resolve(p, q) ==
  LET w == work[p]
  IN  /\ w.job \in {"answer", "press"} /\ w.cur = None /\ q \in w.todo
      /\ \/ /\ ~Known(q, w.dec)
            /\ Do(p, [w EXCEPT !.todo = @ \ {q}])
            /\ UNCHANGED <<entry, lock, faults>>
         \/ /\ Known(q, w.dec)
            /\ entry' = [entry EXCEPT ![q][w.dec] = Recorded(w.reply.opt, w.reply.also)]
            /\ Do(p, [w EXCEPT !.cur = q])
            /\ UNCHANGED <<lock, faults>>
         \/ /\ Fault /\ UNCHANGED entry
            /\ IF Swallows(w) THEN Do(p, [w EXCEPT !.todo = @ \ {q}]) /\ UNCHANGED lock
                              ELSE Fails(p)
      /\ UNCHANGED <<reg, handled, posted, blocker, done, issue, snap>>

\* update_request(clear_blocker), whatever the blocker text says
ClearBlocker(p) ==
  LET w == work[p]
      next == [w EXCEPT !.todo = @ \ {w.cur}, !.cur = None]
  IN  /\ w.job \in {"answer", "press"} /\ w.cur # None
      /\ \/ /\ blocker' = [blocker EXCEPT ![w.cur] = None]
            /\ Do(p, next) /\ UNCHANGED <<lock, faults>>
         \/ /\ Fault /\ UNCHANGED blocker
            /\ IF Swallows(w) THEN Do(p, next) /\ UNCHANGED lock ELSE Fails(p)
      /\ UNCHANGED <<reg, handled, posted, entry, done, issue, snap>>

\* Mutant of Outcome: a refused reply is stamped on the question
OutcomeStamped(w) ==
  CASE w.job = "answer" -> [st |-> "answered", ans |-> w.reply.opt, by |-> w.com]
    [] w.job = "press" -> [st |-> "answered", ans |-> w.reply.opt, by |-> Button]
    [] w.job = "clarify" -> [reg[w.dec] EXCEPT !.st = "clarification_requested"]
    [] OTHER -> [reg[w.dec] EXCEPT !.st = "rejected"]

\* what the registry says of the decision in the end; a refusal leaves it open
Outcome(w) ==
  CASE w.job = "answer" -> [st |-> "answered", ans |-> w.reply.opt, by |-> w.com]
    [] w.job = "press" -> [st |-> "answered", ans |-> w.reply.opt, by |-> Button]
    [] w.job = "clarify" -> [reg[w.dec] EXCEPT !.st = "clarification_requested"]
    [] OTHER -> reg[w.dec]

(***************************************************************************)
(* What a job goes on with: the next revision of the question, or the note *)
(* that the last one was dealt with. A revision that was refused at the    *)
(* end is not noted.                                                       *)
(***************************************************************************)
After(w) ==
  LET next == [w EXCEPT !.reply = Unsaid]
  IN  CASE w.com \notin Question \/ w.job = "answer" -> Idle
        [] w.com \in Question /\ w.job # "answer" /\ w.rest # {} ->
             [next EXCEPT !.job = "judge"]
        [] w.com \in Question /\ w.job # "answer" /\ w.rest = {} ->
             IF w.job = "clarify" \/ w.blind THEN [next EXCEPT !.job = "note"] ELSE Idle

\* the registry is written last
Save(p) ==
  LET w == work[p]
  IN  /\ w.job \in {"answer", "press", "clarify", "refuse"} /\ w.todo = {}
      /\ reg' = [reg EXCEPT ![w.dec] = Outcome(w)]
      /\ handled' = handled \cup
           {h \in {<<w.dec, w.com, w.reply.rev>>} :
              w.job \in {"clarify", "refuse"} /\ w.com \notin Question}
      /\ Do(p, After(w)) /\ lock' = None
      /\ UNCHANGED <<posted, ledger, issue, snap, faults>>

\* question_body_snapshot
Note(p) ==
  LET w == work[p]
  IN  /\ w.job = "note" /\ lock = None
      /\ snap' = [snap EXCEPT ![w.com] = w.last.rev]
      /\ Do(p, Idle)
      /\ UNCHANGED <<reg, handled, posted, ledger, issue, lock, faults>>

Crash(p) ==
  /\ Fault /\ work[p] # Idle /\ Abort(p)
  /\ UNCHANGED <<reg, handled, posted, ledger, issue, snap>>

Next ==
  \/ \E d \in Dec : Register(d) \/ Post(d)
  \/ \E d \in Dec, q \in Request : AddEntry(d, q)
  \/ \E c \in Comment : Say(c)
  \/ \E q \in Request : Finish(q)
  \/ \E p \in Poller : Judge(p) \/ Note(p)
  \/ \E p \in Poller, c \in Comment : Fetch(p, c)
  \/ \E d \in Dec, o \in Option : Press(d, o)
  \/ \E p \in Process, q \in Request : WriteBlocker(p, q) \/ Resolve(p, q)
  \/ \E p \in Process : ClearBlocker(p) \/ Save(p) \/ Crash(p)

Spec == Init /\ [][Next]_vars

(***************************************************************************)
(* sync_decisions is run at every execution barrier of a coordinator and,  *)
(* while a driver waits for an answer, between its attempts; every run     *)
(* comes by every comment of an open decision. A job that holds the lock   *)
(* goes on. Nobody has to register, comment or press.                      *)
(***************************************************************************)
JobStep(p) == \/ \E q \in Request : WriteBlocker(p, q) \/ Resolve(p, q)
              \/ ClearBlocker(p) \/ Save(p)

FairSpec == /\ Spec
            /\ \A p \in Poller : /\ WF_vars(Judge(p) \/ Note(p) \/ JobStep(p))
                                 /\ \A c \in Comment : SF_vars(Fetch(p, c))
            /\ WF_vars(JobStep(Button))

-----------------------------------------------------------------------------
(***************************************************************************)
(* Properties                                                              *)
(***************************************************************************)
ByComment(d) == reg[d].st = "answered" /\ reg[d].by \in Comment

(* An answer that a comment gave has reached every request that depends on *)
(* the decision: none of them still waits for it. process_reply commits    *)
(* the registry only after the ledger calls, whichever of them failed on   *)
(* the way.                                                                *)
AnswerReachesLedger ==
  \A d \in Dec : ByComment(d) => \A q \in Deps[d] : d \notin Pending(q)

(* What the ledger records of a decision that a comment answered is the    *)
(* option the registry records, or nothing where the decision was never    *)
(* entered; also when an attempt with another answer was cut off half way. *)
LedgerNamesTheChoice ==
  \A d \in Dec : ByComment(d) => \A q \in Deps[d] : entry[q][d] \in {"none", reg[d].ans}

(* An answer is final: neither a second reply, nor an edit, nor a button   *)
(* changes it.                                                             *)
AnswerIsFinal ==
  [][\A d \in Dec : reg[d].st = "answered" => reg'[d] = reg[d]]_reg

(* No reply to a decision that is answered blocks a request again, however *)
(* long ago it was fetched.                                                *)
LateReplyBlocksNothing ==
  [][\A p \in Poller, q \in Request, d \in Dec :
       work'[p] # work[p] /\ blocker[q] # d /\ blocker'[q] = d
         => reg[d].st # "answered"]_<<work, blocker, reg>>

(* A comment that names an option and is left so answers its decision,     *)
(* whatever replies were refused before it. So does a box that is ticked   *)
(* and left so, unless a call failed: then its author is asked to say      *)
(* more. Only where two calls failed may the tick be passed over silently: *)
(* the first fallback noted an invalid block, and the second refuses the   *)
(* tick for it.                                                            *)
AnswersArrive ==
  \A c \in Comment :
    <>[](On[c] \in posted /\ said[c].kind = "choice")
      => <>\/ reg[On[c]].st = "answered"
           \/ /\ c \in Question /\ faults > 0
              /\ \/ reg[On[c]].st = "clarification_requested"
                 \/ faults > 1 /\ NotedRefused(c)
=============================================================================
