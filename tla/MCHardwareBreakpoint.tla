------------------------ MODULE MCHardwareBreakpoint ------------------------
(* Small instances of HardwareBreakpoint for TLC.                          *)
EXTENDS HardwareBreakpoint, TLC

CONSTANTS t1, t2, t3, a1, a2

\* The threads other than the main one are interchangeable, so are addresses.
Symmetry == Permutations({t2, t3}) \cup Permutations({a1, a2})

=============================================================================
