------------------------------ MODULE MCBuildSlot ------------------------------
EXTENDS BuildSlot, TLC

CONSTANTS a, b, c, A, B

\* Lane A acquires a heavy slot for its host; lane B runs a heavy and a light
\* command.
MCLaneOf == (a :> A) @@ (b :> B) @@ (c :> B)
MCArrivals == {(a :> 1) @@ (b :> 2) @@ (c :> 3)}
\* Room for all of them and two heavy jobs at a time; or for the smaller ones and
\* one heavy job.
MCMemory == {<<2, 1>>, <<3, 2>>}
MCNeed == (a :> 3) @@ (b :> 2) @@ (c :> 1)
MCClass == (a :> "heavy") @@ (b :> "heavy") @@ (c :> "light")
=============================================================================
