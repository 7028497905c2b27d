---------------------------- MODULE MCEventLoop ----------------------------
(* Small instances of EventLoop for TLC.                                   *)
EXTENDS EventLoop, TLC

CONSTANTS main, c1, c2

\* Debug children are interchangeable.
Symmetry == Permutations({c1, c2})

=============================================================================
