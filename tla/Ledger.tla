-------------------------------- MODULE Ledger --------------------------------
(***************************************************************************)
(* The request ledger (workflows/portable/ledger.py): one JSON file that   *)
(* every command reads, changes and replaces under an exclusive file lock, *)
(* so that a call is one step and a refused call changes nothing. A crash  *)
(* inside a call leaves the old file or the new one.                       *)
(* What a call may do to a request depends on its head commit, on its      *)
(* criteria and evidence, on its decisions, and on other requests.         *)
(***************************************************************************)
EXTENDS Naturals, FiniteSets

CONSTANTS
  Req,            \* request ids
  Head,           \* commits
  Crit,           \* acceptance criteria of a request
  Dec,            \* decision ids
  Issue,          \* GitHub issues a request can be linked with
  Worked,         \* the requests that are worked on; the others only stand in their
                  \* way, as dependency, parent or child (a bound)
  InitialState,   \* the states the worked requests are added in (a bound)
  InitialStatus,  \* the statuses their criteria are added with (a bound)
  OtherState,     \* the states the others are added in (a bound)
  MaxEdits,       \* bound on the calls that are no step of the life cycle
  NoHead, NoReq, NoIssue

States == {"pending", "implementation", "QA", "review", "awaiting authorization",
           "integration", "live verification", "done"}
Deployment == {"integration", "live verification"}
InVerification == {"QA", "review", "awaiting authorization"} \cup Deployment
Ahead == InVerification \ {"QA"}
VerificationComplete == {"awaiting authorization", "done"} \cup Deployment
Stages == {"QA", "review"}

ASSUME LedgerAssumption ==
  /\ InitialState \cup OtherState \subseteq States
  /\ InitialStatus \subseteq {"removed", "pending", "verified"}
  /\ Worked \subseteq Req /\ MaxEdits \in Nat
  /\ NoHead \notin Head /\ NoReq \notin Req /\ NoIssue \notin Issue

VARIABLES
  entry,    \* the requests of the ledger file; one not added yet is "absent"
  reading,  \* refreshes that have left the lock to read GitHub: the issue they read
  edits,    \* calls counted by MaxEdits
  skipped   \* history, read by the properties alone: the requests that were added in
            \* review or beyond and have not been taken back since

ledger == <<entry, reading, edits, skipped>>

Entry == [state : States \cup {"absent"},
          local : BOOLEAN,                       \* a local_doc or harness task
          head : Head \cup {NoHead},
          crit : [Crit -> {"removed", "pending", "verified"}],
          at : [Crit -> Head \cup {NoHead}],     \* verified_head
          backed : SUBSET Crit,                  \* evidence neither empty nor [STALE
          evidence : SUBSET (Stages \X Head),    \* stage evidence that is not stale
          authorized : BOOLEAN, proof : BOOLEAN, blocker : BOOLEAN,
          asked : [Dec -> {"none", "pending", "resolved", "synthetic"}],
                                                 \* the first decision under the id
          reasked : SUBSET Dec,                  \* ids with later ones, which nothing resolves
          blockers : SUBSET Dec,
          deps : SUBSET Req, parent : Req \cup {NoReq},
          issue : Issue \cup {NoIssue}, cached : Issue \cup {NoIssue}]

Absent == [state |-> "absent", local |-> FALSE, head |-> NoHead,
           crit |-> [c \in Crit |-> "pending"], at |-> [c \in Crit |-> NoHead], backed |-> {},
           evidence |-> {}, authorized |-> FALSE, proof |-> FALSE, blocker |-> FALSE,
           asked |-> [d \in Dec |-> "none"], reasked |-> {}, blockers |-> {}, deps |-> {},
           parent |-> NoReq, issue |-> NoIssue, cached |-> NoIssue]

Added(r) == entry[r].state # "absent"
Done(r) == entry[r].state = "done"
Kept(q) == {c \in Crit : q.crit[c] # "removed"}
OpenChildren(r) == {k \in Req : Added(k) /\ entry[k].parent = r /\ ~Done(k)}

-----------------------------------------------------------------------------
(* The rules of update_request, on one entry q. *)

\* Mutant of WithHead: the criteria keep what was verified on the old head.
WithHeadOnly(q, h) ==
  IF h = q.head THEN q
  ELSE [q EXCEPT !.head = h, !.evidence = {e \in @ : e[2] = h}, !.proof = FALSE,
                 !.state = IF @ \in InVerification THEN "implementation" ELSE @]

\* Mutant of WithHead: a done request is taken back too.
WithHeadReopening(q, h) ==
  IF h = q.head THEN q
  ELSE [q EXCEPT !.head = h, !.evidence = {e \in @ : e[2] = h}, !.proof = FALSE,
                 !.backed = @ \ {c \in Crit : q.crit[c] = "verified"},
                 !.at = [c \in Crit |-> IF q.crit[c] = "verified" THEN NoHead ELSE @[c]],
                 !.crit = [c \in Crit |-> IF @[c] = "verified" THEN "pending" ELSE @[c]],
                 !.state = IF @ = "pending" THEN @ ELSE "implementation"]

\* Mutant of WithHead: a request in review stays there.
WithHeadStaying(q, h) ==
  IF h = q.head THEN q
  ELSE [q EXCEPT !.head = h, !.evidence = {e \in @ : e[2] = h}, !.proof = FALSE,
                 !.backed = @ \ {c \in Crit : q.crit[c] = "verified"},
                 !.at = [c \in Crit |-> IF q.crit[c] = "verified" THEN NoHead ELSE @[c]],
                 !.crit = [c \in Crit |-> IF @[c] = "verified" THEN "pending" ELSE @[c]],
                 !.state = IF @ \in InVerification \ {"review"} THEN "implementation" ELSE @]

\* A new head makes every proof about the old one stale and takes a request that
\* is being verified back to implementation; a done request stays done.
WithHead(q, h) ==
  IF h = q.head THEN q
  ELSE [q EXCEPT !.head = h, !.evidence = {e \in @ : e[2] = h}, !.proof = FALSE,
                 !.backed = @ \ {c \in Crit : q.crit[c] = "verified"},
                 !.at = [c \in Crit |-> IF q.crit[c] = "verified" THEN NoHead ELSE @[c]],
                 !.crit = [c \in Crit |-> IF @[c] = "verified" THEN "pending" ELSE @[c]],
                 !.state = IF @ \in InVerification THEN "implementation" ELSE @]

WithVerified(q, c) == [q EXCEPT !.crit[c] = "verified", !.at[c] = q.head]

WithEvidence(q, stage, h) == [q EXCEPT !.evidence = @ \cup {<<stage, h>>}]

FreshOn(q, h) ==
  \A c \in Kept(q) : q.crit[c] = "verified" /\ c \in q.backed /\ q.at[c] = h

\* require_current_head_stage_evidence
StageProven(q, stage) ==
  /\ q.head # NoHead /\ <<stage, q.head>> \in q.evidence
  /\ Kept(q) # {} /\ FreshOn(q, q.head)

Graph ==
  {<<"pending", "implementation">>, <<"implementation", "QA">>,
   <<"QA", "review">>, <<"QA", "implementation">>,
   <<"review", "awaiting authorization">>, <<"review", "QA">>, <<"review", "implementation">>,
   <<"awaiting authorization", "implementation">>, <<"integration", "implementation">>}
\* Mutant of DeployableGraph: a deployable task may be completed where a local one may.
DeployableGraphEnding ==
  Graph \cup
  {<<"awaiting authorization", "integration">>, <<"integration", "live verification">>,
   <<"live verification", "done">>, <<"live verification", "implementation">>,
   <<"review", "done">>, <<"awaiting authorization", "done">>, <<"integration", "done">>}

DeployableGraph ==
  Graph \cup
  {<<"awaiting authorization", "integration">>, <<"integration", "live verification">>,
   <<"live verification", "done">>, <<"live verification", "implementation">>}
LocalGraph ==
  Graph \cup
  {<<"review", "done">>, <<"awaiting authorization", "done">>, <<"integration", "done">>}

Allowed(q, s) == <<q.state, s>> \in IF q.local THEN LocalGraph ELSE DeployableGraph

\* What completion asks for beyond the transition graph. The live reads of the
\* sub-issues and of the unticked boxes (close_guard) may refuse as well.
Complete(r, q) ==
  /\ ~q.blocker /\ q.proof
  /\ Kept(q) # {}
  /\ \A c \in Kept(q) : /\ q.crit[c] = "verified" /\ c \in q.backed
                        /\ q.head = NoHead \/ q.at[c] \in {NoHead, q.head}
  /\ OpenChildren(r) = {}

CanMove(r, q, s) ==
  /\ Allowed(q, s)
  /\ s = "review" => StageProven(q, "QA")
  /\ s = "awaiting authorization" => StageProven(q, "review")
  /\ \A d \in q.deps : Done(d)
  /\ s = "integration" => q.authorized
  /\ s \in Deployment \cup {"done"} => q.blockers = {}
  /\ s = "done" => Complete(r, q)

\* No request of a set of requests waits for the others: _detect_dependency_cycles.
Acyclic(deps) ==
  \A S \in SUBSET Req : S # {} => \E r \in S : deps[r] \cap S = {}

-----------------------------------------------------------------------------
(* The calls that take a request through its life. *)

LedgerInit ==
  /\ entry = [r \in Req |-> Absent]
  /\ reading = [r \in Req |-> NoIssue]
  /\ edits = 0 /\ skipped = {}

Put(r, q) ==
  /\ entry' = [entry EXCEPT ![r] = q]
  /\ skipped' = IF q.state \in Ahead THEN skipped \cup ({r} \ {k \in Req : Added(k)})
                                     ELSE skipped \ {r}
  /\ UNCHANGED reading
Edit == edits < MaxEdits /\ edits' = edits + 1

\* A request is added in any state, with a head or without one, with criteria that
\* may be verified already, and without stage evidence.
AddRequest(r, s, l, h, crit, B, D, p, i) ==
  /\ ~Added(r)
  /\ l => s \notin Deployment
  /\ \A d \in D : Added(d) /\ (s # "pending" => Done(d))
  /\ Put(r, [Absent EXCEPT
       !.state = s, !.local = l, !.head = h, !.deps = D, !.parent = p, !.issue = i,
       !.crit = crit, !.at = [c \in Crit |-> IF crit[c] = "verified" THEN h ELSE NoHead],
       !.backed = {c \in B : crit[c] # "removed"}])
  /\ UNCHANGED edits

Move(r, s) ==
  /\ Added(r) /\ CanMove(r, entry[r], s)
  /\ Put(r, [entry[r] EXCEPT !.state = s])
  /\ UNCHANGED edits

\* One call that records a new head and moves on: a passed build.
MoveOnHead(r, h) ==
  LET q == WithHead(entry[r], h) IN
  /\ Added(r) /\ CanMove(r, q, "QA")
  /\ Put(r, [q EXCEPT !.state = "QA"])
  /\ UNCHANGED edits

VerifyCriterion(r, c) ==
  /\ Added(r) /\ c \in Kept(entry[r])
  /\ Put(r, [WithVerified(entry[r], c) EXCEPT !.backed = @ \cup {c}])
  /\ UNCHANGED edits

RecordEvidence(r, stage) ==
  /\ Added(r) /\ entry[r].head # NoHead
  /\ Put(r, WithEvidence(entry[r], stage, entry[r].head))
  /\ UNCHANGED edits

VerifyProof(r) ==
  /\ Added(r) /\ ~entry[r].proof
  /\ Put(r, [entry[r] EXCEPT !.proof = TRUE])
  /\ UNCHANGED edits

Authorize(r) ==
  /\ Added(r) /\ ~entry[r].authorized
  /\ Put(r, [entry[r] EXCEPT !.authorized = TRUE])
  /\ UNCHANGED edits

-----------------------------------------------------------------------------
(* The calls that take something back, or that change what a request is. *)

NewHead(r, h) ==
  /\ Added(r) /\ h # entry[r].head /\ Edit
  /\ Put(r, WithHead(entry[r], h))

\* Evidence may name the head it was taken on.
EvidenceElsewhere(r, stage, h) ==
  /\ Added(r) /\ h # entry[r].head /\ Edit
  /\ Put(r, WithEvidence(entry[r], stage, h))

\* A status without evidence: the evidence stays as it was.
VerifyUnbacked(r, c) ==
  /\ Added(r) /\ c \in Kept(entry[r]) /\ Edit
  /\ Put(r, WithVerified(entry[r], c))

ResetCriterion(r, c) ==
  /\ Added(r) /\ entry[r].crit[c] = "verified" /\ Edit
  /\ Put(r, [entry[r] EXCEPT !.crit[c] = "pending", !.at[c] = NoHead])

RemoveCriterion(r, c) ==
  /\ Added(r) /\ c \in Kept(entry[r]) /\ Edit
  /\ Put(r, [entry[r] EXCEPT !.crit[c] = "removed", !.at[c] = NoHead, !.backed = @ \ {c}])

Deny(r) ==
  /\ Added(r) /\ entry[r].authorized /\ Edit
  /\ Put(r, [entry[r] EXCEPT !.authorized = FALSE])

SetBlocker(r, on) ==
  /\ Added(r) /\ entry[r].blocker # on /\ Edit
  /\ Put(r, [entry[r] EXCEPT !.blocker = on])

Retype(r) ==
  /\ Added(r) /\ Edit
  /\ Put(r, [entry[r] EXCEPT !.local = ~@])

SetDependencies(r, D) ==
  /\ Added(r) /\ D # entry[r].deps /\ \A d \in D : Added(d)
  /\ Acyclic([k \in Req |-> IF k = r THEN D ELSE entry[k].deps])
  /\ Edit
  /\ Put(r, [entry[r] EXCEPT !.deps = D])

SetParent(r, p) ==
  /\ Added(r) /\ p \notin {r, entry[r].parent} /\ Edit
  /\ Put(r, [entry[r] EXCEPT !.parent = p])

-----------------------------------------------------------------------------
(* Decisions: a question put to a human, and the blocker it leaves. *)

\* Nobody looks whether there is a decision of this id already.
AddDecision(r, d, blocks) ==
  /\ Added(r) /\ Edit
  /\ LET first == entry[r].asked[d] = "none" IN
     Put(r, [entry[r] EXCEPT !.asked[d] = IF first THEN "pending" ELSE @,
                             !.reasked = IF first THEN @ ELSE @ \cup {d},
                             !.blockers = IF blocks THEN @ \cup {d} ELSE @])

\* The answer of the authorized responder, or the probe of a test run: for the first
\* decision of the id.
ResolveDecision(r, d, synthetic) ==
  /\ Added(r) /\ entry[r].asked[d] # "none"
  /\ Put(r, IF synthetic THEN [entry[r] EXCEPT !.asked[d] = "synthetic"]
            ELSE [entry[r] EXCEPT !.asked[d] = "resolved", !.blockers = @ \ {d}])
  /\ UNCHANGED edits

\* One blocker, if the first decision of its id is resolved or there is none.
ClearBlocker(r, d) ==
  /\ Added(r)
  /\ entry[r].asked[d] \in {"none", "resolved"}
  /\ Put(r, [entry[r] EXCEPT !.blockers = @ \ {d}])
  /\ UNCHANGED edits

\* "all", if every decision whose id is among the blockers is resolved.
ClearAllBlockers(r) ==
  /\ Added(r)
  /\ \A d \in entry[r].blockers :
       entry[r].asked[d] \in {"none", "resolved"} /\ d \notin entry[r].reasked
  /\ Put(r, [entry[r] EXCEPT !.blockers = {}])
  /\ UNCHANGED edits

\* A blocker may be added on its own, for a decision that does not exist.
AddBlocker(r, d) ==
  /\ Added(r) /\ d \notin entry[r].blockers /\ Edit
  /\ Put(r, [entry[r] EXCEPT !.blockers = @ \cup {d}])

-----------------------------------------------------------------------------
(* refresh_from_github reads the API between two turns of the lock. *)

RefreshRead(r) ==
  /\ Added(r) /\ reading[r] = NoIssue /\ Edit
  /\ reading' = [reading EXCEPT ![r] = entry[r].issue]
  /\ UNCHANGED <<entry, skipped>>

RefreshStore(r) ==
  /\ reading[r] # NoIssue
  /\ reading' = [reading EXCEPT ![r] = NoIssue]
  /\ entry' = IF entry[r].issue = reading[r] THEN [entry EXCEPT ![r].cached = reading[r]] ELSE entry
  /\ UNCHANGED <<edits, skipped>>

Relink(r, i) ==
  /\ Added(r) /\ i # entry[r].issue /\ Edit
  /\ Put(r, [entry[r] EXCEPT !.issue = i])

-----------------------------------------------------------------------------
\* In this instance a request is linked with its issue by a later call (a bound).
Adding(r) ==
  \E D \in SUBSET (Req \ {r}), p \in (Req \ {r}) \cup {NoReq} :
    \/ /\ r \in Worked
       /\ \E s \in InitialState, l \in BOOLEAN, h \in Head \cup {NoHead}, B \in SUBSET Crit,
             crit \in [Crit -> InitialStatus] : AddRequest(r, s, l, h, crit, B, D, p, NoIssue)
    \/ /\ r \notin Worked
       /\ \E s \in OtherState : AddRequest(r, s, FALSE, NoHead, Absent.crit, {}, D, p, NoIssue)

Relating(r) ==
  \/ Adding(r)
  \/ \E D \in SUBSET Req : SetDependencies(r, D)
  \/ \E p \in Req \cup {NoReq} : SetParent(r, p)

LifeCycle(r) ==
  \/ \E s \in States : Move(r, s)
  \/ \E h \in Head : MoveOnHead(r, h)
  \/ \E c \in Crit : VerifyCriterion(r, c)
  \/ \E stage \in Stages : RecordEvidence(r, stage)
  \/ VerifyProof(r) \/ Authorize(r)

Correction(r) ==
  \/ \E h \in Head : NewHead(r, h) \/ \E stage \in Stages : EvidenceElsewhere(r, stage, h)
  \/ \E c \in Crit : VerifyUnbacked(r, c) \/ ResetCriterion(r, c) \/ RemoveCriterion(r, c)
  \/ Deny(r) \/ Retype(r) \/ \E on \in BOOLEAN : SetBlocker(r, on)

Asking(r) ==
  \/ \E d \in Dec, yes \in BOOLEAN : AddDecision(r, d, yes) \/ ResolveDecision(r, d, yes)
  \/ \E d \in Dec : ClearBlocker(r, d) \/ AddBlocker(r, d)
  \/ ClearAllBlockers(r)

Linking(r) == RefreshRead(r) \/ RefreshStore(r) \/ \E i \in Issue : Relink(r, i)

LedgerNext ==
  \/ \E r \in Req : Relating(r)
  \/ \E r \in Worked : LifeCycle(r) \/ Correction(r) \/ Asking(r) \/ Linking(r)
LedgerSpec == LedgerInit /\ [][LedgerNext]_ledger

-----------------------------------------------------------------------------
(* Properties. *)

\* Types of every variable.
LedgerTypeOK ==
  /\ entry \in [Req -> Entry]
  /\ reading \in [Req -> Issue \cup {NoIssue}]
  /\ edits \in 0 .. MaxEdits
  /\ skipped \subseteq Req

Staged(q) ==
  /\ q.state \in Ahead => q.head # NoHead /\ <<"QA", q.head>> \in q.evidence
  /\ q.state \in {"awaiting authorization"} \cup Deployment => <<"review", q.head>> \in q.evidence

\* A stage is behind a request only on the commit it is about: in review and
\* beyond there is QA evidence for the current head, at the merge gate and beyond
\* also review evidence, whatever pushes, retypings and corrections came between.
\* Only a request that was put there when it was added is without, until it is
\* taken back.
StageEvidenceCurrent == \A r \in Req \ skipped : Staged(entry[r])

\* check_request: HEALTHY or BLOCKED.
Healthy(r) ==
  LET q == entry[r] IN
  /\ \A d \in q.deps : Done(d)
  /\ ~q.blocker /\ q.blockers = {}
  /\ q.state \in VerificationComplete =>
       \A c \in Kept(q) : /\ q.crit[c] = "verified" /\ c \in q.backed
                          /\ q.head = NoHead \/ q.at[c] \in {NoHead, q.head}
  /\ Done(r) => q.proof /\ OpenChildren(r) = {}
  /\ q.local => q.state \notin Deployment
  /\ q.state = "integration" => q.authorized

\* A request past its verification that the check calls healthy has every
\* criterion verified on the very head it names: a done request whose head moved,
\* or whose criteria were touched later, does not pass the check unnoticed.
HealthyIsVerified ==
  \A r \in Req : Healthy(r) /\ entry[r].state \in VerificationComplete =>
    FreshOn(entry[r], entry[r].head)

\* A deployable request that has gone through its stages, those before review at
\* least, is completed only with QA and review evidence for the head it is completed
\* on.
DoneOnReviewedHead ==
  [][\A r \in Req :
       Added(r) /\ ~Done(r) /\ r \notin skipped /\ entry'[r].state = "done" /\ ~entry'[r].local =>
         \A stage \in Stages : <<stage, entry'[r].head>> \in entry'[r].evidence]_ledger

\* A done parent with an open child comes about only by linking the two: no push,
\* correction or reopening of a child does it behind the parent's back.
ParentStaysClosed ==
  [][\A r, k \in Req :
       entry'[r].state = "done" /\ entry'[k].parent = r /\ entry'[k].state \notin {"absent", "done"}
         => ~Added(r) \/ (Done(r) /\ (entry[k].parent # r \/ k \in OpenChildren(r)))]_ledger

\* The blocker of a registered decision leaves only with a real answer to the first
\* decision under its id: neither a synthetic probe nor clearing all of them removes
\* it. (Where an id was asked again, the first answer takes the blocker of both.)
BlockerNeedsAnswer ==
  [][\A r \in Req : \A d \in entry[r].blockers \ entry'[r].blockers :
       entry[r].asked[d] # "none" => entry'[r].asked[d] = "resolved"]_ledger

\* A refresh that overlapped a change of the linked issue stores nothing: the
\* snapshot that is stored is one of the issue the request is linked with.
RefreshStoresOwnIssue ==
  [][\A r \in Req : entry'[r].cached # entry[r].cached => entry'[r].cached = entry'[r].issue]_ledger
=============================================================================
