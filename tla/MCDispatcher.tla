----------------------------- MODULE MCDispatcher -----------------------------
(* Small instances of Dispatcher: who shares a host, who shares a login. *)
EXTENDS Dispatcher, TLC

CONSTANTS d1, d2, h1, h2, bot1, bot2

OneHost == [d \in Dispatcher |-> h1]
HostEach == [d \in Dispatcher |-> IF d = d1 THEN h1 ELSE h2]
SameLogin == [d \in Dispatcher |-> bot1]
LoginEach == [d \in Dispatcher |-> IF d = d1 THEN bot1 ELSE bot2]

MCSymmetry == Permutations(Card) \cup Permutations(Pid)
=============================================================================
