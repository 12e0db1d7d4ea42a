-------------------------- MODULE MCDecisionWorkflow --------------------------
(* A small instance of DecisionWorkflow: two requests wait for the decision *)
(* d1, which is answered by the comment c1, by the checkboxes of its        *)
(* question c2, or by a button.                                             *)
EXTENDS DecisionWorkflow, TLC

CONSTANTS d1, q1, q2, c1, c2, A, B

MCDeps == (d1 :> {q1, q2})
MCOn == (c1 :> d1) @@ (c2 :> d1)
MCEdits == (c1 :> 0) @@ (c2 :> 1)
MCKinds == (c1 :> {"choice", "unclear"}) @@ (c2 :> {"choice", "refused"})
MCListed == <<A, B>>
=============================================================================
