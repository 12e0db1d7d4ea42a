------------------------------- MODULE MCLedger -------------------------------
(* Small instances of Ledger. *)
EXTENDS Ledger, TLC

CONSTANTS r1, r2, h1, h2, i1

MCSymmetry == Permutations(Head)
=============================================================================
