----------------------------- MODULE MCRunUntil -----------------------------
(* Small instances of RunUntil for TLC.                                    *)
EXTENDS RunUntil, TLC

CONSTANTS target_proc, child_proc, t1, t2, a1, a2, a3

\* Three instructions in a loop, with a short cut around a3.
LoopFlow  == (a1 :> {a2}) @@ (a2 :> {a1, a3}) @@ (a3 :> {a1})
\* Two instructions in a loop.
ShortFlow == (a1 :> {a2}) @@ (a2 :> {a1})

OneProcess   == (t1 :> target_proc) @@ (t2 :> target_proc)
OneThread    == t1 :> target_proc
TwoProcesses == (t1 :> target_proc) @@ (t2 :> child_proc)

=============================================================================
