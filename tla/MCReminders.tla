---------------------------- MODULE MCReminders -----------------------------
(* A small instance of Reminders: one question that holds up one request.   *)
EXTENDS Reminders, TLC

CONSTANTS d1, q1, c1, A, B

MCDeps == d1 :> {q1}
MCOn == c1 :> d1
MCEdits == c1 :> 0
MCKinds == c1 :> {"choice"}
MCListed == <<A>>
MCAbout == d1 :> q1
=============================================================================
