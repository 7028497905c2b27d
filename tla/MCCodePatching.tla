--------------------------- MODULE MCCodePatching ---------------------------
(* Small instances of CodePatching for TLC.                                *)
EXTENDS CodePatching, TLC

\* A function of two instructions at 1, a caller that goes on at 3, and a
\* second function at 4 that returns to the caller.
LoopFlow  == (1 :> {2}) @@ (2 :> {3}) @@ (3 :> {1, 4}) @@ (4 :> {5}) @@ (5 :> {3})
TwoSites  == (1 :> {1, 2}) @@ (4 :> {4, 5})

=============================================================================
