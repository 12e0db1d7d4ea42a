---------------------------- MODULE MCContinuation ----------------------------
(* Small instances of Continuation. *)
EXTENDS Continuation, TLC

CONSTANTS r1, d1, d2, a1, a2

MCSymmetry == Permutations(Driver) \cup Permutations(Handle)
=============================================================================
