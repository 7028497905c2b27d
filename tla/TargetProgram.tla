--------------------------- MODULE TargetProgram ---------------------------
(***************************************************************************)
(* What a program does when nobody debugs it: threads that execute their   *)
(* own instructions, one after the other, and come and go.                 *)
(*                                                                         *)
(* This is the abstract side of the debugger's central promise.  pydbg     *)
(* patches INT3 over instructions, takes it out again, rewinds the         *)
(* instruction pointer and single-steps (breakpoint/software.py); the      *)
(* docstring of run() calls all of that "transparent": seen through the    *)
(* locations of the threads alone, a debugged target still is this         *)
(* program.  Module SoftwareBreakpoint states it as a refinement.          *)
(***************************************************************************)

CONSTANTS
    Threads,   \* the threads of the target
    Addrs,     \* the instructions of the target
    Flow,      \* Flow[a]: the instructions that may follow instruction a
    Exits      \* the threads that may exit (and be created again)

VARIABLES
    loc,       \* loc[t]: the instruction thread t executes next
    alive      \* alive[t]: thread t exists

Init == /\ loc \in [Threads -> Addrs]
        /\ alive \in [Threads -> BOOLEAN]

Execute(t) ==
    /\ alive[t]
    /\ \E a \in Flow[loc[t]] : loc' = [loc EXCEPT ![t] = a]
    /\ UNCHANGED alive

Exit(t) ==
    /\ t \in Exits /\ alive[t]
    /\ alive' = [alive EXCEPT ![t] = FALSE]
    /\ UNCHANGED loc

Start(t) ==
    /\ ~alive[t]
    /\ alive' = [alive EXCEPT ![t] = TRUE]
    /\ \E a \in Addrs : loc' = [loc EXCEPT ![t] = a]

Next == \E t \in Threads : Execute(t) \/ Exit(t) \/ Start(t)

Spec == Init /\ [][Next]_<<loc, alive>>

=============================================================================
