----------------------------- MODULE LedgerProofs -----------------------------
(***************************************************************************)
(* What a call of the ledger may do to the request it is about, and what   *)
(* follows for all of them: for any requests, commits, criteria, decisions *)
(* and issues, and any number of calls.                                    *)
(***************************************************************************)
EXTENDS Ledger, TLAPS

\* What is verified is verified on the head the entry names.
OnHead(q) == \A c \in Crit : q.crit[c] = "verified" => q.at[c] = q.head

\* What is true of every entry of the file.
Sound(q) ==
  /\ q \in Entry
  /\ OnHead(q)
  /\ q.state = "absent" => q = Absent

LInv ==
  /\ entry \in [Req -> Entry]
  /\ \A r \in Req : Sound(entry[r])
  /\ skipped \subseteq Req
  /\ \A r \in Req \ skipped : Staged(entry[r])
  /\ reading \in [Req -> Issue \cup {NoIssue}]
  /\ \A r \in Req : reading[r] # NoIssue => Added(r)
  /\ edits \in 0 .. MaxEdits

\* What a call may make of an entry q of request r.
Fair(r, q, p) ==
  /\ Sound(p)
  /\ q.state = "done" => p.state = "done"
  /\ q.state # "absent" => p.state # "absent"
  /\ q.state \notin {"absent", "done"} /\ p.state = "done" =>
       /\ OpenChildren(r) = {}
       /\ ~p.local /\ r \notin skipped => \A stage \in Stages : <<stage, p.head>> \in p.evidence
  /\ \A d \in q.blockers \ p.blockers : q.asked[d] # "none" => p.asked[d] = "resolved"
  /\ p.cached # q.cached => p.cached = p.issue

Touches(r) ==
  /\ \E p \in Entry : entry' = [entry EXCEPT ![r] = p]
  /\ Fair(r, entry[r], entry'[r])
  /\ skipped' \subseteq Req /\ \A k \in Req \ {r} : k \in skipped' <=> k \in skipped
  /\ r \notin skipped' => Staged(entry'[r])
  /\ reading' \in [Req -> Issue \cup {NoIssue}]
  /\ \A k \in Req : reading'[k] # NoIssue => reading[k] # NoIssue \/ (k = r /\ Added(r))
  /\ edits' \in 0 .. MaxEdits

\* The rules on entries give entries.
LEMMA HeadEntry ==
  ASSUME NEW q \in Entry, NEW h \in Head
  PROVE  /\ WithHead(q, h) \in Entry
         /\ WithHead(q, h).local = q.local /\ WithHead(q, h).parent = q.parent
         /\ WithHead(q, h).blockers = q.blockers /\ WithHead(q, h).asked = q.asked
         /\ WithHead(q, h).cached = q.cached /\ WithHead(q, h).head = h
         /\ WithHead(q, h).state = IF h # q.head /\ q.state \in InVerification
                                   THEN "implementation" ELSE q.state
         /\ h = q.head => WithHead(q, h) = q
         /\ h # q.head => \A c \in Crit : WithHead(q, h).crit[c] # "verified"
  <1>1. CASE h = q.head
    BY <1>1 DEF WithHead, Entry
  <1>2. CASE h # q.head
    <2> DEFINE ev == {e \in q.evidence : e[2] = h}
               ba == q.backed \ {c \in Crit : q.crit[c] = "verified"}
               at == [c \in Crit |-> IF q.crit[c] = "verified" THEN NoHead ELSE q.at[c]]
               cr == [c \in Crit |-> IF q.crit[c] = "verified" THEN "pending" ELSE q.crit[c]]
               st == IF q.state \in InVerification THEN "implementation" ELSE q.state
               p == [q EXCEPT !.head = h, !.evidence = ev, !.proof = FALSE, !.backed = ba,
                              !.at = at, !.crit = cr, !.state = st]
    <2>1. WithHead(q, h) = p
      BY <1>2 DEF WithHead
    <2>2. /\ q.crit \in [Crit -> {"removed", "pending", "verified"}]
          /\ q.at \in [Crit -> Head \cup {NoHead}] /\ q.backed \in SUBSET Crit
          /\ q.evidence \in SUBSET (Stages \X Head) /\ q.state \in States \cup {"absent"}
      BY DEF Entry
    <2>3. /\ ev \in SUBSET (Stages \X Head) /\ ba \in SUBSET Crit
          /\ at \in [Crit -> Head \cup {NoHead}]
          /\ cr \in [Crit -> {"removed", "pending", "verified"}]
          /\ \A c \in Crit : cr[c] # "verified"
      BY <2>2
    <2>4. st \in States \cup {"absent"}
      BY <2>2 DEF States
    <2>5. st = IF q.state \in InVerification THEN "implementation" ELSE q.state
      OBVIOUS
    <2> HIDE DEF ev, ba, at, cr, st
    <2>6. p \in Entry
      <3> DEFINE p1 == [q EXCEPT !.head = h, !.evidence = ev, !.proof = FALSE, !.backed = ba]
      <3>1. p1 \in Entry
        BY <2>3 DEF Entry
      <3>2. p = [p1 EXCEPT !.at = at, !.crit = cr, !.state = st]
        BY DEF Entry
      <3> HIDE DEF p, p1
      <3> QED BY <2>3, <2>4, <3>1, <3>2 DEF Entry
    <2>7. /\ p.local = q.local /\ p.parent = q.parent /\ p.blockers = q.blockers
          /\ p.asked = q.asked /\ p.cached = q.cached /\ p.head = h /\ p.state = st
          /\ p.crit = cr
      BY DEF Entry
    <2> HIDE DEF p
    <2> QED BY <2>1, <2>3, <2>5, <2>6, <2>7, <1>2
  <1> QED BY <1>1, <1>2

LEMMA VerifiedEntry ==
  ASSUME NEW q \in Entry, NEW c \in Crit
  PROVE  /\ WithVerified(q, c) \in Entry
         /\ WithVerified(q, c) = [q EXCEPT !.crit = WithVerified(q, c).crit, !.at = WithVerified(q, c).at]
  BY DEF WithVerified, Entry

LEMMA EvidenceEntry ==
  ASSUME NEW q \in Entry, NEW stage \in Stages, NEW h \in Head
  PROVE  WithEvidence(q, stage, h) \in Entry
  BY DEF WithEvidence, Entry

LEMMA AbsentEntry == Absent \in Entry
  BY DEF Absent, Entry

\* A call that leaves the life of an entry alone is fair.
LEMMA SideCall ==
  ASSUME NEW r \in Req, NEW q, Sound(q), NEW p \in Entry,
         p.state = q.state, q.state # "absent", p.head = q.head, q.evidence \subseteq p.evidence,
         OnHead(p),
         p.blockers = q.blockers \/ \A d \in q.blockers \ p.blockers : q.asked[d] # "none" => p.asked[d] = "resolved",
         p.cached = q.cached \/ p.cached = p.issue
  PROVE  Fair(r, q, p) /\ (Staged(q) => Staged(p))
  BY DEF Fair, Sound, Staged

\* A call that puts a fair entry touches its request and nothing else.
LEMMA PutTouches ==
  ASSUME LInv, NEW r \in Req, NEW p \in Entry, Put(r, p), Fair(r, entry[r], p),
         Added(r) /\ Staged(entry[r]) => Staged(p), UNCHANGED edits \/ Edit
  PROVE  Touches(r)
  <1>1. entry'[r] = p
    BY DEF Put, LInv
  <1>2. edits' \in 0 .. MaxEdits
    BY LedgerAssumption DEF LInv, Edit
  <1>3. skipped' \subseteq Req /\ \A k \in Req \ {r} : k \in skipped' <=> k \in skipped
    BY DEF Put, LInv
  <1>4. ASSUME r \notin skipped' PROVE Staged(p)
    <2>1. CASE p.state \in Ahead
      BY <1>4, <2>1 DEF Put, LInv
    <2>2. CASE p.state \notin Ahead
      BY <2>2 DEF Staged, Ahead, InVerification, Deployment
    <2> QED BY <2>1, <2>2
  <1>5. /\ entry' = [entry EXCEPT ![r] = p] /\ reading' \in [Req -> Issue \cup {NoIssue}]
        /\ \A k \in Req : reading'[k] # NoIssue => reading[k] # NoIssue
    BY DEF Put, LInv
  <1> QED BY <1>1, <1>2, <1>3, <1>4, <1>5 DEF Touches

-----------------------------------------------------------------------------
(* The life cycle. *)

LEMMA AddTouches ==
  ASSUME LInv, NEW r \in Req, NEW s \in States, NEW l \in BOOLEAN, NEW h \in Head \cup {NoHead},
         NEW crit \in [Crit -> {"removed", "pending", "verified"}], NEW B \in SUBSET Crit,
         NEW D \in SUBSET Req, NEW p \in Req \cup {NoReq}, NEW i \in Issue \cup {NoIssue},
         AddRequest(r, s, l, h, crit, B, D, p, i)
  PROVE  Touches(r)
  <1> DEFINE at == [c \in Crit |-> IF crit[c] = "verified" THEN h ELSE NoHead]
             ba == {c \in B : crit[c] # "removed"}
             q == [Absent EXCEPT
                     !.state = s, !.local = l, !.head = h, !.deps = D, !.parent = p, !.issue = i,
                     !.crit = crit, !.at = at, !.backed = ba]
  <1>1. /\ at \in [Crit -> Head \cup {NoHead}] /\ ba \in SUBSET Crit
        /\ \A c \in Crit : crit[c] = "verified" => at[c] = h
    OBVIOUS
  <1>2. entry[r] = Absent /\ ~Added(r)
    BY DEF LInv, Sound, AddRequest, Added
  <1>3. Put(r, q) /\ UNCHANGED edits
    BY DEF AddRequest
  <1> HIDE DEF at, ba
  <1>4. Absent.cached = NoIssue
    BY DEF Absent
  <1>5. q \in Entry
    <2> DEFINE q1 == [Absent EXCEPT !.state = s, !.local = l, !.head = h, !.deps = D]
    <2>1. q1 \in Entry
      BY AbsentEntry DEF Entry
    <2>2. q = [q1 EXCEPT !.parent = p, !.issue = i, !.crit = crit, !.at = at, !.backed = ba]
      BY AbsentEntry DEF Entry
    <2> HIDE DEF q, q1
    <2> QED BY <1>1, <2>1, <2>2 DEF Entry
  <1>6. q.state = s /\ q.cached = NoIssue /\ q.crit = crit /\ q.at = at /\ q.head = h
    BY <1>4, AbsentEntry DEF Entry
  <1> HIDE DEF q
  <1>7. s # "absent"
    BY DEF States
  <1>8. Sound(q)
    BY <1>1, <1>5, <1>6, <1>7 DEF Sound, OnHead
  <1>9. Absent.state = "absent" /\ Absent.blockers = {} /\ Absent.cached = NoIssue
    BY DEF Absent
  <1>10. Fair(r, entry[r], q)
    BY <1>2, <1>6, <1>7, <1>8, <1>9 DEF Fair
  <1> QED BY <1>2, <1>3, <1>5, <1>10, PutTouches

\* A head that changes takes the stages with it.
LEMMA HeadStaged ==
  ASSUME NEW q \in Entry, OnHead(q), NEW h \in Head
  PROVE  (Staged(q) => Staged(WithHead(q, h))) /\ OnHead(WithHead(q, h))
  <1>1. CASE h = q.head
    BY <1>1, HeadEntry
  <1>2. CASE h # q.head
    <2>1. WithHead(q, h).state = IF q.state \in InVerification THEN "implementation" ELSE q.state
      BY <1>2, HeadEntry
    <2>2. WithHead(q, h).state \notin InVerification
      BY <2>1 DEF InVerification, Deployment
    <2>3. OnHead(WithHead(q, h))
      BY <1>2, HeadEntry DEF OnHead
    <2> QED BY <2>2, <2>3 DEF Staged, Ahead, InVerification
  <1> QED BY <1>1, <1>2

AtState(q, s) == [q EXCEPT !.state = s]

\* A permitted transition arrives in a stage with the evidence that stage needs.
LEMMA MoveStaged ==
  ASSUME NEW r \in Req, NEW q \in Entry, OnHead(q), NEW s \in States, CanMove(r, q, s),
         NEW p, p = AtState(q, s)
  PROVE  /\ p \in Entry /\ (Staged(q) => Staged(p)) /\ OnHead(p) /\ q.state \notin {"done", "absent"}
         /\ p.state = s /\ p.blockers = q.blockers /\ p.cached = q.cached /\ s # "absent"
         /\ s = "done" => /\ OpenChildren(r) = {}
                          /\ ~p.local /\ Staged(q) =>
                               \A stage \in Stages : <<stage, p.head>> \in p.evidence
  <1>1. /\ p \in Entry /\ p.state = s /\ p.head = q.head /\ p.evidence = q.evidence
        /\ p.local = q.local /\ p.blockers = q.blockers /\ p.cached = q.cached
        /\ p.crit = q.crit /\ p.at = q.at
    BY DEF Entry, AtState
  <1>2. q.state \notin {"done", "absent"} /\ s # "absent"
    BY DEF CanMove, Allowed, LocalGraph, DeployableGraph, Graph, States
  <1>3. s \in Deployment => q.state \in {"awaiting authorization"} \cup Deployment
    BY DEF CanMove, Allowed, LocalGraph, DeployableGraph, Graph, Deployment
  <1>4. s = "awaiting authorization" => q.state = "review"
    BY DEF CanMove, Allowed, LocalGraph, DeployableGraph, Graph
  <1>5. ASSUME Staged(q) PROVE Staged(p)
    <2>1. CASE s \in Deployment
      BY <1>1, <1>3, <1>5, <2>1 DEF Staged, Ahead, InVerification, Deployment
    <2>2. CASE s = "awaiting authorization"
      BY <1>1, <1>4, <1>5, <2>2 DEF Staged, Ahead, InVerification, Deployment, CanMove, StageProven
    <2>3. CASE s = "review"
      BY <1>1, <2>3 DEF Staged, Ahead, InVerification, Deployment, CanMove, StageProven
    <2>4. CASE s \notin Deployment \cup {"awaiting authorization", "review"}
      BY <1>1, <2>4 DEF Staged, Ahead, InVerification, Deployment
    <2> QED BY <2>1, <2>2, <2>3, <2>4
  <1>6. ASSUME s = "done" PROVE OpenChildren(r) = {}
    BY <1>6 DEF CanMove, Complete
  <1>7. ASSUME s = "done", ~q.local PROVE q.state = "live verification"
    BY <1>7 DEF CanMove, Allowed, LocalGraph, DeployableGraph, Graph
  <1>8. ASSUME s = "done", ~q.local, Staged(q)
        PROVE  \A stage \in Stages : <<stage, q.head>> \in q.evidence
    BY <1>7, <1>8 DEF Staged, Stages, Ahead, InVerification, Deployment
  <1>9. OnHead(p)
    BY <1>1 DEF OnHead
  <1> QED BY <1>1, <1>2, <1>5, <1>6, <1>8, <1>9

LEMMA MoveTouches ==
  ASSUME LInv, NEW r \in Req, NEW s \in States, Move(r, s)
  PROVE  Touches(r)
  <1> DEFINE q == entry[r]
             p == AtState(q, s)
  <1>1. q = entry[r] /\ q \in Entry /\ (r \notin skipped => Staged(q)) /\ OnHead(q)
    BY DEF LInv, Sound
  <1>2. Put(r, p) /\ UNCHANGED edits /\ CanMove(r, q, s)
    BY DEF Move, AtState
  <1>3. p = AtState(q, s)
    OBVIOUS
  <1> HIDE DEF p, q
  <1>4. /\ p \in Entry /\ (Staged(q) => Staged(p)) /\ OnHead(p) /\ q.state \notin {"done", "absent"}
        /\ p.state = s /\ p.blockers = q.blockers /\ p.cached = q.cached /\ s # "absent"
        /\ s = "done" => /\ OpenChildren(r) = {}
                         /\ ~p.local /\ Staged(q) =>
                              \A stage \in Stages : <<stage, p.head>> \in p.evidence
    BY <1>1, <1>2, <1>3, MoveStaged
  <1>5. Fair(r, q, p)
    BY <1>1, <1>4 DEF Fair, Sound
  <1> QED BY <1>1, <1>2, <1>4, <1>5, PutTouches

LEMMA MoveOnHeadTouches ==
  ASSUME LInv, NEW r \in Req, NEW h \in Head, MoveOnHead(r, h)
  PROVE  Touches(r)
  <1> DEFINE q == WithHead(entry[r], h)
             p == AtState(q, "QA")
  <1>1. entry[r] \in Entry /\ OnHead(entry[r]) /\ entry[r].state # "absent"
    BY DEF LInv, Sound, MoveOnHead, Added
  <1>2. Put(r, p) /\ UNCHANGED edits /\ CanMove(r, q, "QA")
    BY DEF MoveOnHead, AtState
  <1>3. /\ q \in Entry /\ (Staged(entry[r]) => Staged(q)) /\ OnHead(q)
        /\ q.blockers = entry[r].blockers /\ q.cached = entry[r].cached
        /\ entry[r].state = "done" => q.state = "done"
    BY <1>1, HeadEntry, HeadStaged DEF InVerification, Deployment
  <1>4. p = AtState(q, "QA")
    OBVIOUS
  <1> HIDE DEF p, q
  <1>5. /\ p \in Entry /\ (Staged(q) => Staged(p)) /\ OnHead(p) /\ q.state \notin {"done", "absent"}
        /\ p.state = "QA" /\ p.blockers = q.blockers /\ p.cached = q.cached
    <2>1. "QA" \in States
      BY DEF States
    <2> QED BY <1>2, <1>3, <1>4, <2>1, MoveStaged
  <1>6. Fair(r, entry[r], p)
    BY <1>1, <1>3, <1>5 DEF Fair, Sound
  <1> QED BY <1>2, <1>3, <1>5, <1>6, PutTouches

LEMMA VerifyTouches ==
  ASSUME LInv, NEW r \in Req, NEW c \in Crit, VerifyCriterion(r, c) \/ VerifyUnbacked(r, c)
  PROVE  Touches(r)
  <1> DEFINE q == entry[r]
             v == WithVerified(q, c)
             w == [v EXCEPT !.backed = @ \cup {c}]
  <1>1. q = entry[r] /\ q \in Entry /\ Sound(q) /\ OnHead(q) /\ q.state # "absent"
    BY DEF LInv, Sound, VerifyCriterion, VerifyUnbacked, Added
  <1>2. /\ v \in Entry /\ v.state = q.state /\ v.head = q.head /\ v.evidence = q.evidence
        /\ v.blockers = q.blockers /\ v.cached = q.cached /\ OnHead(v)
    BY <1>1 DEF WithVerified, Entry, Sound, OnHead
  <1> HIDE DEF v
  <1>3. /\ w \in Entry /\ w.state = q.state /\ w.head = q.head /\ w.evidence = q.evidence
        /\ w.blockers = q.blockers /\ w.cached = q.cached /\ OnHead(w)
    BY <1>2 DEF Entry, OnHead
  <1>4. (Put(r, v) \/ Put(r, w)) /\ (UNCHANGED edits \/ Edit)
    BY DEF VerifyCriterion, VerifyUnbacked, v
  <1> HIDE DEF q, w
  <1>5. Fair(r, q, v) /\ Fair(r, q, w) /\ (Staged(q) => Staged(v) /\ Staged(w))
    BY <1>1, <1>2, <1>3, SideCall
  <1> QED BY <1>1, <1>2, <1>3, <1>4, <1>5, PutTouches

LEMMA EvidenceTouches ==
  ASSUME LInv, NEW r \in Req, NEW stage \in Stages, NEW h \in Head,
         (RecordEvidence(r, stage) /\ h = entry[r].head) \/ EvidenceElsewhere(r, stage, h)
  PROVE  Touches(r)
  <1> DEFINE q == entry[r]
             p == WithEvidence(q, stage, h)
  <1>1. q = entry[r] /\ q \in Entry /\ Sound(q) /\ OnHead(q) /\ q.state # "absent"
    BY DEF LInv, Sound, RecordEvidence, EvidenceElsewhere, Added
  <1>2. /\ p \in Entry /\ p.state = q.state /\ p.head = q.head /\ q.evidence \subseteq p.evidence
        /\ p.blockers = q.blockers /\ p.cached = q.cached /\ OnHead(p)
    BY <1>1 DEF WithEvidence, Entry, Sound, OnHead
  <1>3. Put(r, p) /\ (UNCHANGED edits \/ Edit)
    BY DEF RecordEvidence, EvidenceElsewhere
  <1> HIDE DEF q, p
  <1>4. Fair(r, q, p) /\ (Staged(q) => Staged(p))
    BY <1>1, <1>2, SideCall
  <1> QED BY <1>1, <1>2, <1>3, <1>4, PutTouches

LEMMA NewHeadTouches ==
  ASSUME LInv, NEW r \in Req, NEW h \in Head, NewHead(r, h)
  PROVE  Touches(r)
  <1> DEFINE q == entry[r]
             p == WithHead(q, h)
  <1>1. q = entry[r] /\ q \in Entry /\ OnHead(q) /\ q.state # "absent"
    BY DEF LInv, Sound, NewHead, Added
  <1>2. /\ p \in Entry /\ (Staged(q) => Staged(p)) /\ OnHead(p) /\ p.blockers = q.blockers /\ p.cached = q.cached
        /\ p.state # "absent" /\ (q.state = "done" <=> p.state = "done")
    BY <1>1, HeadEntry, HeadStaged DEF InVerification, Deployment
  <1>3. Put(r, p) /\ Edit
    BY DEF NewHead
  <1> HIDE DEF q, p
  <1>4. Fair(r, q, p)
    BY <1>1, <1>2 DEF Fair, Sound
  <1> QED BY <1>1, <1>2, <1>3, <1>4, PutTouches

\* The calls that set a flag, a criterion, a relation or the issue.
LEMMA FieldTouches ==
  ASSUME LInv, NEW r \in Req,
         \/ VerifyProof(r) \/ Authorize(r) \/ Deny(r) \/ Retype(r)
         \/ \E on \in BOOLEAN : SetBlocker(r, on)
         \/ \E c \in Crit : ResetCriterion(r, c) \/ RemoveCriterion(r, c)
         \/ \E D \in SUBSET Req : SetDependencies(r, D)
         \/ \E p \in Req \cup {NoReq} : SetParent(r, p)
         \/ \E i \in Issue : Relink(r, i)
  PROVE  Touches(r)
  <1> DEFINE q == entry[r]
             Side(p) == /\ p \in Entry /\ p.state = q.state /\ p.head = q.head /\ OnHead(p)
                        /\ p.evidence = q.evidence /\ p.blockers = q.blockers /\ p.cached = q.cached
  <1>1. q = entry[r] /\ q \in Entry /\ Sound(q) /\ OnHead(q) /\ q.state # "absent"
    BY DEF LInv, Sound, VerifyProof, Authorize, Deny, Retype, SetBlocker, ResetCriterion,
           RemoveCriterion, SetDependencies, SetParent, Relink, Added
  <1>2. UNCHANGED edits \/ Edit
    BY DEF VerifyProof, Authorize, Deny, Retype, SetBlocker, ResetCriterion, RemoveCriterion,
           SetDependencies, SetParent, Relink
  <1>3. \E p : Put(r, p) /\ Side(p)
    <2>1. CASE VerifyProof(r)
      <3>1. Put(r, [q EXCEPT !.proof = TRUE])
        BY <2>1 DEF VerifyProof
      <3>2. Side([q EXCEPT !.proof = TRUE])
        BY <1>1 DEF Entry, OnHead
      <3> QED BY <3>1, <3>2
    <2>2. CASE Authorize(r) \/ Deny(r)
      <3>1. Put(r, [q EXCEPT !.authorized = TRUE]) \/ Put(r, [q EXCEPT !.authorized = FALSE])
        BY <2>2 DEF Authorize, Deny
      <3>2. Side([q EXCEPT !.authorized = TRUE]) /\ Side([q EXCEPT !.authorized = FALSE])
        BY <1>1 DEF Entry, OnHead
      <3> QED BY <3>1, <3>2
    <2>3. CASE Retype(r)
      <3>1. Put(r, [q EXCEPT !.local = ~q.local])
        BY <2>3 DEF Retype
      <3>2. Side([q EXCEPT !.local = ~q.local])
        BY <1>1 DEF Entry, OnHead
      <3> QED BY <3>1, <3>2
    <2>4. ASSUME NEW on \in BOOLEAN, SetBlocker(r, on) PROVE \E p : Put(r, p) /\ Side(p)
      <3>1. Put(r, [q EXCEPT !.blocker = on])
        BY <2>4 DEF SetBlocker
      <3>2. Side([q EXCEPT !.blocker = on])
        BY <1>1 DEF Entry, OnHead
      <3> QED BY <3>1, <3>2
    <2>5. ASSUME NEW c \in Crit, ResetCriterion(r, c) PROVE \E p : Put(r, p) /\ Side(p)
      <3>1. Put(r, [q EXCEPT !.crit[c] = "pending", !.at[c] = NoHead])
        BY <2>5 DEF ResetCriterion
      <3>2. Side([q EXCEPT !.crit[c] = "pending", !.at[c] = NoHead])
        BY <1>1 DEF Entry, OnHead
      <3> QED BY <3>1, <3>2
    <2>6. ASSUME NEW c \in Crit, RemoveCriterion(r, c) PROVE \E p : Put(r, p) /\ Side(p)
      <3>1. Put(r, [q EXCEPT !.crit[c] = "removed", !.at[c] = NoHead, !.backed = @ \ {c}])
        BY <2>6 DEF RemoveCriterion
      <3>2. Side([q EXCEPT !.crit[c] = "removed", !.at[c] = NoHead, !.backed = @ \ {c}])
        BY <1>1 DEF Entry, OnHead
      <3> QED BY <3>1, <3>2
    <2>7. ASSUME NEW D \in SUBSET Req, SetDependencies(r, D) PROVE \E p : Put(r, p) /\ Side(p)
      <3>1. Put(r, [q EXCEPT !.deps = D])
        BY <2>7 DEF SetDependencies
      <3>2. Side([q EXCEPT !.deps = D])
        BY <1>1 DEF Entry, OnHead
      <3> QED BY <3>1, <3>2
    <2>8. ASSUME NEW x \in Req \cup {NoReq}, SetParent(r, x) PROVE \E p : Put(r, p) /\ Side(p)
      <3>1. Put(r, [q EXCEPT !.parent = x])
        BY <2>8 DEF SetParent
      <3>2. Side([q EXCEPT !.parent = x])
        BY <1>1 DEF Entry, OnHead
      <3> QED BY <3>1, <3>2
    <2>9. ASSUME NEW i \in Issue, Relink(r, i) PROVE \E p : Put(r, p) /\ Side(p)
      <3>1. Put(r, [q EXCEPT !.issue = i])
        BY <2>9 DEF Relink
      <3>2. Side([q EXCEPT !.issue = i])
        BY <1>1 DEF Entry, OnHead
      <3> QED BY <3>1, <3>2
    <2> QED BY <2>1, <2>2, <2>3, <2>4, <2>5, <2>6, <2>7, <2>8, <2>9
  <1> HIDE DEF q
  <1>4. PICK p : Put(r, p) /\ Side(p)
    BY <1>3
  <1>5. Fair(r, q, p) /\ (Staged(q) => Staged(p))
    BY <1>1, <1>4, SideCall
  <1> QED BY <1>1, <1>2, <1>4, <1>5, PutTouches

-----------------------------------------------------------------------------
(* Decisions and refreshes. *)

LEMMA AskTouches ==
  ASSUME LInv, NEW r \in Req,
         \/ \E d \in Dec, yes \in BOOLEAN : AddDecision(r, d, yes) \/ ResolveDecision(r, d, yes)
         \/ \E d \in Dec : ClearBlocker(r, d) \/ AddBlocker(r, d)
         \/ ClearAllBlockers(r)
  PROVE  Touches(r)
  <1> DEFINE q == entry[r]
             Side(p) == /\ p \in Entry /\ p.state = q.state /\ p.head = q.head /\ OnHead(p)
                        /\ p.evidence = q.evidence /\ p.cached = q.cached
                        /\ \A d \in q.blockers \ p.blockers :
                             q.asked[d] # "none" => p.asked[d] = "resolved"
  <1>1. q = entry[r] /\ q \in Entry /\ Sound(q) /\ OnHead(q) /\ q.state # "absent"
    BY DEF LInv, Sound, AddDecision, ResolveDecision, ClearBlocker, ClearAllBlockers, AddBlocker,
           Added
  <1>2. UNCHANGED edits \/ Edit
    BY DEF AddDecision, ResolveDecision, ClearBlocker, ClearAllBlockers, AddBlocker
  <1>3. \E p : Put(r, p) /\ Side(p)
    <2>1. ASSUME NEW d \in Dec, NEW yes \in BOOLEAN, AddDecision(r, d, yes)
          PROVE  \E p : Put(r, p) /\ Side(p)
      <3> DEFINE B == IF yes THEN q.blockers \cup {d} ELSE q.blockers
                 a == IF q.asked[d] = "none" THEN "pending" ELSE q.asked[d]
                 R == IF q.asked[d] = "none" THEN q.reasked ELSE q.reasked \cup {d}
                 p == [q EXCEPT !.asked[d] = a, !.reasked = R, !.blockers = B]
      <3>1. Put(r, p)
        BY <2>1 DEF AddDecision
      <3>2. /\ B \in SUBSET Dec /\ q.blockers \subseteq B /\ R \in SUBSET Dec
            /\ a \in {"none", "pending", "resolved", "synthetic"}
        BY <1>1 DEF Entry, OnHead
      <3> HIDE DEF B, a, R
      <3>3. Side(p)
        BY <1>1, <3>2 DEF Entry, OnHead
      <3> QED BY <3>1, <3>3
    <2>2. ASSUME NEW d \in Dec, NEW yes \in BOOLEAN, ResolveDecision(r, d, yes)
          PROVE  \E p : Put(r, p) /\ Side(p)
      <3> DEFINE s == [q EXCEPT !.asked[d] = "synthetic"]
                 p == [q EXCEPT !.asked[d] = "resolved", !.blockers = @ \ {d}]
      <3>1. Put(r, s) \/ Put(r, p)
        BY <2>2 DEF ResolveDecision
      <3>2. Side(s)
        BY <1>1 DEF Entry, OnHead
      <3>3. Side(p)
        BY <1>1 DEF Entry, OnHead
      <3> QED BY <3>1, <3>2, <3>3
    <2>3. ASSUME NEW d \in Dec, ClearBlocker(r, d) PROVE \E p : Put(r, p) /\ Side(p)
      <3>1. Put(r, [q EXCEPT !.blockers = @ \ {d}]) /\ q.asked[d] \in {"none", "resolved"}
        BY <2>3 DEF ClearBlocker
      <3>2. Side([q EXCEPT !.blockers = @ \ {d}])
        BY <1>1, <3>1 DEF Entry, OnHead
      <3> QED BY <3>1, <3>2
    <2>4. ASSUME NEW d \in Dec, AddBlocker(r, d) PROVE \E p : Put(r, p) /\ Side(p)
      <3>1. Put(r, [q EXCEPT !.blockers = @ \cup {d}])
        BY <2>4 DEF AddBlocker
      <3>2. Side([q EXCEPT !.blockers = @ \cup {d}])
        BY <1>1 DEF Entry, OnHead
      <3> QED BY <3>1, <3>2
    <2>5. ASSUME ClearAllBlockers(r) PROVE \E p : Put(r, p) /\ Side(p)
      <3>1. /\ Put(r, [q EXCEPT !.blockers = {}])
            /\ \A d \in q.blockers : q.asked[d] \in {"none", "resolved"}
        BY <2>5 DEF ClearAllBlockers
      <3>2. Side([q EXCEPT !.blockers = {}])
        BY <1>1, <3>1 DEF Entry, OnHead
      <3> QED BY <3>1, <3>2
    <2> QED BY <2>1, <2>2, <2>3, <2>4, <2>5
  <1> HIDE DEF q
  <1>4. PICK p : Put(r, p) /\ Side(p)
    BY <1>3
  <1>5. Fair(r, q, p) /\ (Staged(q) => Staged(p))
    BY <1>1, <1>4, SideCall
  <1> QED BY <1>1, <1>2, <1>4, <1>5, PutTouches

LEMMA RefreshTouches ==
  ASSUME LInv, NEW r \in Req, RefreshRead(r) \/ RefreshStore(r)
  PROVE  Touches(r)
  <1> DEFINE q == entry[r]
             p == [q EXCEPT !.cached = reading[r]]
  <1>1. q = entry[r] /\ q \in Entry /\ Sound(q) /\ OnHead(q) /\ q.state # "absent"
    BY DEF LInv, Sound, RefreshRead, RefreshStore, Added
  <1>0. /\ skipped' = skipped /\ skipped' \subseteq Req
        /\ r \notin skipped' => Staged(q)
    BY DEF LInv, RefreshRead, RefreshStore
  <1>2. CASE RefreshRead(r)
    <2>1. Fair(r, q, q)
      BY <1>1 DEF Fair
    <2>2. entry' = [entry EXCEPT ![r] = q] /\ entry'[r] = q
      BY <1>2 DEF RefreshRead, LInv
    <2>3. reading' = [reading EXCEPT ![r] = q.issue] /\ Added(r) /\ q.issue \in Issue \cup {NoIssue}
      BY <1>1, <1>2 DEF RefreshRead, Entry
    <2>4. edits' \in 0 .. MaxEdits
      BY <1>2, LedgerAssumption DEF RefreshRead, Edit, LInv
    <2> HIDE DEF q
    <2> QED BY <1>0, <1>1, <2>1, <2>2, <2>3, <2>4 DEF Touches, LInv
  <1>3. CASE RefreshStore(r)
    <2>1. reading' = [reading EXCEPT ![r] = NoIssue] /\ UNCHANGED edits
      BY <1>3 DEF RefreshStore
    <2>2. reading[r] \in Issue \cup {NoIssue}
      BY DEF LInv
    <2>3. /\ p \in Entry /\ p.state = q.state /\ p.head = q.head /\ p.evidence = q.evidence
          /\ p.blockers = q.blockers /\ p.cached = reading[r] /\ p.issue = q.issue
          /\ OnHead(p)
      BY <1>1, <2>2 DEF Entry, OnHead
    <2>4. \/ entry' = [entry EXCEPT ![r] = p] /\ q.issue = reading[r]
          \/ entry' = entry
      BY <1>3 DEF RefreshStore
    <2> HIDE DEF p, q
    <2>5. CASE entry' = entry
      <3>1. Fair(r, q, q) /\ entry' = [entry EXCEPT ![r] = q] /\ entry'[r] = q
        BY <1>1, <2>5 DEF Fair, LInv
      <3> QED BY <1>0, <1>1, <2>1, <3>1 DEF Touches, LInv
    <2>6. CASE entry' = [entry EXCEPT ![r] = p] /\ q.issue = reading[r]
      <3>1. Fair(r, q, p) /\ (Staged(q) => Staged(p))
        BY <1>1, <2>3, <2>6, SideCall
      <3>2. entry'[r] = p
        BY <2>6 DEF LInv
      <3> QED BY <1>0, <1>1, <2>1, <2>3, <2>6, <3>1, <3>2 DEF Touches, LInv
    <2> QED BY <2>4, <2>5, <2>6
  <1> QED BY <1>2, <1>3

-----------------------------------------------------------------------------
(* Every step touches one request, fairly. *)

LEMMA EveryStep ==
  ASSUME LInv, LedgerNext
  PROVE  \E r \in Req : Touches(r)
  <1>1. ASSUME NEW r \in Req, Relating(r) PROVE Touches(r)
    <2>1. CASE Adding(r)
      <3>1. ASSUME NEW D \in SUBSET (Req \ {r}), NEW p \in (Req \ {r}) \cup {NoReq},
                   NEW s \in InitialState, NEW l \in BOOLEAN, NEW h \in Head \cup {NoHead},
                   NEW B \in SUBSET Crit, NEW crit \in [Crit -> InitialStatus],
                   AddRequest(r, s, l, h, crit, B, D, p, NoIssue)
            PROVE  Touches(r)
        <4>1. crit \in [Crit -> {"removed", "pending", "verified"}] /\ s \in States
          BY LedgerAssumption
        <4> QED BY <3>1, <4>1, AddTouches
      <3>2. ASSUME NEW D \in SUBSET (Req \ {r}), NEW p \in (Req \ {r}) \cup {NoReq},
                   NEW s \in OtherState,
                   AddRequest(r, s, FALSE, NoHead, Absent.crit, {}, D, p, NoIssue)
            PROVE  Touches(r)
        <4>1. Absent.crit \in [Crit -> {"removed", "pending", "verified"}] /\ s \in States
          BY LedgerAssumption DEF Absent
        <4> QED BY <3>2, <4>1, AddTouches
      <3> QED BY <2>1, <3>1, <3>2 DEF Adding
    <2>2. CASE \/ \E D \in SUBSET Req : SetDependencies(r, D)
               \/ \E p \in Req \cup {NoReq} : SetParent(r, p)
      BY <2>2, FieldTouches
    <2> QED BY <1>1, <2>1, <2>2 DEF Relating
  <1>2. ASSUME NEW r \in Req, LifeCycle(r) PROVE Touches(r)
    <2>1. ASSUME NEW stage \in Stages, RecordEvidence(r, stage) PROVE Touches(r)
      <3>1. entry[r].head \in Head
        BY <2>1 DEF RecordEvidence, LInv, Entry
      <3> QED BY <2>1, <3>1, EvidenceTouches
    <2> QED BY <1>2, <2>1, MoveTouches, MoveOnHeadTouches, VerifyTouches, FieldTouches DEF LifeCycle
  <1>3. ASSUME NEW r \in Req, Correction(r) PROVE Touches(r)
    BY <1>3, NewHeadTouches, EvidenceTouches, VerifyTouches, FieldTouches DEF Correction
  <1>4. ASSUME NEW r \in Req, Asking(r) PROVE Touches(r)
    BY <1>4, AskTouches DEF Asking
  <1>5. ASSUME NEW r \in Req, Linking(r) PROVE Touches(r)
    BY <1>5, RefreshTouches, FieldTouches DEF Linking
  <1> QED BY <1>1, <1>2, <1>3, <1>4, <1>5, LedgerAssumption DEF LedgerNext

LEMMA TouchedOnly ==
  ASSUME LInv, NEW r \in Req, Touches(r), NEW k \in Req, k # r
  PROVE  entry'[k] = entry[k]
  BY DEF Touches, LInv

LEMMA StepKeeps ==
  ASSUME LInv, [LedgerNext]_ledger
  PROVE  LInv'
  <1>1. CASE LedgerNext
    <2>1. PICK r \in Req : Touches(r)
      BY <1>1, EveryStep
    <2>2. /\ entry' \in [Req -> Entry] /\ reading' \in [Req -> Issue \cup {NoIssue}]
          /\ edits' \in 0 .. MaxEdits /\ skipped' \subseteq Req
      BY <2>1 DEF Touches, LInv
    <2>3. \A k \in Req : Sound(entry'[k]) /\ (Added(k) => entry'[k].state # "absent")
      BY <2>1, TouchedOnly DEF Touches, Fair, LInv, Added
    <2>4. \A k \in Req : reading'[k] # NoIssue => entry'[k].state # "absent"
      BY <2>1, <2>3 DEF Touches, LInv, Added
    <2>5. \A k \in Req \ skipped' : Staged(entry'[k])
      BY <2>1, TouchedOnly DEF Touches, LInv
    <2> QED BY <2>2, <2>3, <2>4, <2>5 DEF LInv, Added, Sound, OnHead, Staged
  <1>2. CASE UNCHANGED ledger
    BY <1>2 DEF ledger, LInv, Added, Sound, OnHead, Staged
  <1> QED BY <1>1, <1>2

LEMMA StartsSound == LedgerInit => LInv
  <1> SUFFICES ASSUME LedgerInit PROVE LInv
    OBVIOUS
  <1>1. Sound(Absent) /\ Staged(Absent)
    BY AbsentEntry DEF Sound, OnHead, Staged, Absent, Ahead, InVerification, Deployment
  <1> QED BY <1>1, AbsentEntry, LedgerAssumption DEF LedgerInit, LInv, Sound

LEMMA AlwaysSound == LedgerSpec => []LInv
  BY StartsSound, StepKeeps, PTL DEF LedgerSpec

\* Every reachable state of the ledger is well typed.
THEOREM LedgerTypes == LedgerSpec => []LedgerTypeOK
  <1>1. LInv => LedgerTypeOK
    BY DEF LInv, LedgerTypeOK
  <1> QED BY <1>1, AlwaysSound, PTL

\* A request in review or beyond has the evidence of the stages behind it, about
\* the head it has now, unless it was put there when it was added and has not been
\* taken back since.
THEOREM EvidenceIsCurrent == LedgerSpec => []StageEvidenceCurrent
  <1>1. LInv => StageEvidenceCurrent
    BY DEF LInv, StageEvidenceCurrent
  <1> QED BY <1>1, AlwaysSound, PTL

\* A request past its verification that the check finds healthy has every kept
\* criterion verified, with evidence, on the head it names.
THEOREM HealthyAreVerified == LedgerSpec => []HealthyIsVerified
  <1>1. ASSUME LInv, NEW r \in Req, Healthy(r), entry[r].state \in VerificationComplete,
               NEW c \in Kept(entry[r])
        PROVE  entry[r].crit[c] = "verified" /\ c \in entry[r].backed /\ entry[r].at[c] = entry[r].head
    <2>1. entry[r].crit[c] = "verified" /\ c \in entry[r].backed
      BY <1>1 DEF Healthy
    <2>2. OnHead(entry[r]) /\ c \in Crit
      BY <1>1 DEF LInv, Sound, Kept
    <2> QED BY <2>1, <2>2 DEF OnHead
  <1>2. LInv => HealthyIsVerified
    BY <1>1 DEF HealthyIsVerified, FreshOn
  <1> QED BY <1>2, AlwaysSound, PTL

\* A deployable request that was not put past QA when it was added is completed only on
\* a head that QA and review have seen.
THEOREM CompletedOnReviewedHead == LedgerSpec => DoneOnReviewedHead
  <1>1. ASSUME LInv, [LedgerNext]_ledger, NEW r \in Req, Added(r), ~Done(r),
               r \notin skipped, entry'[r].state = "done", ~entry'[r].local
        PROVE  \A stage \in Stages : <<stage, entry'[r].head>> \in entry'[r].evidence
    <2>1. LedgerNext
      BY <1>1 DEF ledger, Done
    <2>2. PICK x \in Req : Touches(x)
      BY <1>1, <2>1, EveryStep
    <2>3. x = r
      BY <1>1, <2>2, TouchedOnly DEF Done
    <2> QED BY <1>1, <2>2, <2>3 DEF Touches, Fair, Added, Done
  <1>2. LInv /\ [LedgerNext]_ledger =>
          [\A r \in Req :
             Added(r) /\ ~Done(r) /\ r \notin skipped /\ entry'[r].state = "done"
               /\ ~entry'[r].local =>
               \A stage \in Stages : <<stage, entry'[r].head>> \in entry'[r].evidence]_ledger
    BY <1>1
  <1> QED BY <1>2, AlwaysSound, PTL DEF LedgerSpec, DoneOnReviewedHead

\* Only a new link gives a done parent an open child.
THEOREM ParentsStayClosed == LedgerSpec => ParentStaysClosed
  <1>1. ASSUME LInv, LedgerNext, NEW r \in Req, NEW k \in Req, entry'[r].state = "done",
               entry'[k].parent = r, entry'[k].state \notin {"absent", "done"}, Added(r)
        PROVE  Done(r) /\ (entry[k].parent # r \/ k \in OpenChildren(r))
    <2>1. PICK x \in Req : Touches(x)
      BY <1>1, EveryStep
    <2>2. \A y \in Req : entry[y].state = "done" => entry'[y].state = "done"
      BY <1>1, <2>1, TouchedOnly DEF Touches, Fair
    <2>3. entry[k].parent = r => Added(k)
      BY <1>1, LedgerAssumption DEF LInv, Sound, Absent, Added
    <2>4. entry[k].parent = r => k \in OpenChildren(r)
      BY <1>1, <2>2, <2>3 DEF OpenChildren, Done
    <2>5. Done(r)
      <3> SUFFICES ASSUME ~Done(r) PROVE FALSE
        OBVIOUS
      <3>1. x = r /\ OpenChildren(r) = {}
        BY <1>1, <2>1, TouchedOnly DEF Touches, Fair, Added, Done
      <3>2. k # r
        BY <1>1
      <3>3. entry'[k] = entry[k]
        BY <1>1, <2>1, <3>1, <3>2, TouchedOnly
      <3> QED BY <1>1, <2>4, <3>1, <3>3
    <2> QED BY <2>4, <2>5
  <1>2. LInv /\ [LedgerNext]_ledger =>
          [\A r, k \in Req :
             entry'[r].state = "done" /\ entry'[k].parent = r /\ entry'[k].state \notin {"absent", "done"}
               => ~Added(r) \/ (Done(r) /\ (entry[k].parent # r \/ k \in OpenChildren(r)))]_ledger
    BY <1>1
  <1> QED BY <1>2, AlwaysSound, PTL DEF LedgerSpec, ParentStaysClosed

\* The blocker of an id under which decisions were asked leaves only with a real answer
\* to the first of them.
THEOREM BlockersNeedAnswers == LedgerSpec => BlockerNeedsAnswer
  <1>1. ASSUME LInv, LedgerNext, NEW r \in Req, NEW d \in entry[r].blockers \ entry'[r].blockers,
               entry[r].asked[d] # "none"
        PROVE  entry'[r].asked[d] = "resolved"
    <2>1. PICK x \in Req : Touches(x)
      BY <1>1, EveryStep
    <2>2. x = r
      BY <1>1, <2>1, TouchedOnly
    <2> QED BY <1>1, <2>1, <2>2 DEF Touches, Fair
  <1>2. LInv /\ [LedgerNext]_ledger =>
          [\A r \in Req : \A d \in entry[r].blockers \ entry'[r].blockers :
             entry[r].asked[d] # "none" => entry'[r].asked[d] = "resolved"]_ledger
    BY <1>1
  <1> QED BY <1>2, AlwaysSound, PTL DEF LedgerSpec, BlockerNeedsAnswer

\* What a refresh stores is about the issue the request is linked with.
THEOREM RefreshesStoreOwnIssue == LedgerSpec => RefreshStoresOwnIssue
  <1>1. ASSUME LInv, LedgerNext, NEW r \in Req, entry'[r].cached # entry[r].cached
        PROVE  entry'[r].cached = entry'[r].issue
    <2>1. PICK x \in Req : Touches(x)
      BY <1>1, EveryStep
    <2>2. x = r
      BY <1>1, <2>1, TouchedOnly
    <2> QED BY <1>1, <2>1, <2>2 DEF Touches, Fair
  <1>2. LInv /\ [LedgerNext]_ledger =>
          [\A r \in Req : entry'[r].cached # entry[r].cached => entry'[r].cached = entry'[r].issue]_ledger
    BY <1>1
  <1> QED BY <1>2, AlwaysSound, PTL DEF LedgerSpec, RefreshStoresOwnIssue
=============================================================================
