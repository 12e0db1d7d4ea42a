----------------------------- MODULE MCRecurrence -----------------------------
(* Small instances of Recurrence. *)
EXTENDS Recurrence, TLC

CONSTANTS c1, c2, h1, h2, h3

MCSymmetry == Permutations({c1, c2})

\* h2 is built on h1; h3 is another branch.
MCDescends == {<<h1, h2>>}

\* A change made on h2: proven, unless a failure on h3 counts.
MCCited == {<<h2, TRUE>>}

\* Two failures met by the driver of the request on h1, a third met by CI, which
\* names neither request nor commit, and a fourth on h3.
MCHeadOf == [e \in Event |-> IF e = "e3" THEN NoHead ELSE IF e = "e4" THEN h3 ELSE h1]
=============================================================================
