-------------------------- MODULE MCDebugRegisters --------------------------
(* A small instance of DebugRegisters for TLC: the addresses are alike.    *)
EXTENDS DebugRegisters

=============================================================================
