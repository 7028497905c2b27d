--------------------------- MODULE ThreadRegisters ---------------------------
(***************************************************************************)
(* What the debug registers of one thread are to the breakpoint manager: a *)
(* place per slot, given or taken as a whole, while the thread goes on     *)
(* executing as if nobody looked.  Module DebugRegisters shows that the    *)
(* two functions of cython/_bp.pxi, called as breakpoint/hardware.py calls *)
(* them, implement this.                                                   *)
(***************************************************************************)
EXTENDS Naturals

CONSTANTS
    Slots,       \* debug registers
    Breakpoints, \* what may be set: an address, a condition and a length
    MaxRun       \* bound: how many instructions the thread executes

VARIABLES
    at,          \* how far the thread has come
    armed        \* armed[s]: the breakpoint in slot s, {} or a singleton

Init == at = 0 /\ armed = [s \in Slots |-> {}]

Run           == at < MaxRun /\ at' = at + 1 /\ UNCHANGED armed
Arm(slot, bp) == armed' = [armed EXCEPT ![slot] = {bp}] /\ UNCHANGED at
Disarm(slot)  == armed' = [armed EXCEPT ![slot] = {}] /\ UNCHANGED at

Next == \/ Run
        \/ \E s \in Slots : Disarm(s) \/ \E bp \in Breakpoints : Arm(s, bp)

Spec == Init /\ [][Next]_<<at, armed>>

=============================================================================
