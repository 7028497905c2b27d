-------------------------- MODULE MCSessionHandles --------------------------
(* Process ids and handle values are interchangeable.                      *)
EXTENDS SessionHandles, TLC

Symmetry == Permutations(Pids) \cup Permutations(Handles)

=============================================================================
