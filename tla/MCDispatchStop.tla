---------------------------- MODULE MCDispatchStop ----------------------------
(* Small instances of DispatchStop. *)
EXTENDS DispatchStop, TLC

CONSTANTS d1, h1, bot1

OneHost == [d \in Dispatcher |-> h1]
SameLogin == [d \in Dispatcher |-> bot1]

MCSymmetry == Permutations(Card) \cup Permutations(Pid)
=============================================================================
