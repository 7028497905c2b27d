--------------------------- MODULE DebugRegisters ---------------------------
(***************************************************************************)
(* Arming and disarming one debug register of one thread, call by call:    *)
(* set_hw_breakpoint() and clear_hw_breakpoint() of cython/_bp.pxi inside  *)
(* _arm_thread() and _disarm_thread() of breakpoint/hardware.py.           *)
(*                                                                         *)
(* Both read the thread's context, change an address register and Dr7, and *)
(* write the context back.  A native context is asked for its debug        *)
(* registers only; a WOW64 one is read and written as a whole, instruction *)
(* pointer included, hence the thread is suspended around it.  Dr7 is a    *)
(* set of bit positions; the shifts that build it are those of a C int.    *)
(* Dr6 is left out.                                                        *)
(***************************************************************************)
EXTENDS Naturals

CONSTANTS
    Slots,     \* the debug registers that are used, of 0..3
    Addrs,     \* addresses of breakpoints
    Machines,  \* architectures of the thread: 32 (WOW64), 64
    None,      \* no call under way, no context read
    MaxRun,    \* bound: how many instructions the thread executes
    MaxStuck,  \* bound: how many times it cannot be resumed
    Faults     \* system calls that may fail: "suspend", "get", "set", "resume"

ASSUME SlotAssumption    == Slots \subseteq 0..3
ASSUME AddrAssumption    == 0 \notin Addrs
ASSUME MachineAssumption == Machines \subseteq {32, 64}
ASSUME BoundAssumption   == MaxRun \in Nat /\ MaxStuck \in Nat
ASSUME FaultAssumption   == Faults \subseteq {"suspend", "get", "set", "resume"}

VARIABLES
    machine,   \* arch_for_tid() of the thread
    \* the thread
    at,        \* how far it has come: its instruction pointer
    dr, dr7,   \* its address registers and its control register
    suspended, \* its suspend count
    \* the call under way
    stage,     \* "idle", "suspend", "get", "set", "resume": the system call it makes next
    call,      \* what it was asked for
    context,   \* the context it has read
    \* history
    stuck      \* calls to resume the thread that failed

thread == <<at, dr, dr7>>
vars   == <<machine, thread, suspended, stage, call, context, stuck>>

-----------------------------------------------------------------------------
(* Bits                                                                    *)

\* COND_MAP and LEN_MAP
CondBits == [x |-> 0, w |-> 1, rw |-> 3]
LenBits  == [n \in {1, 2, 4, 8} |-> CASE n = 1 -> 0 [] n = 2 -> 1 [] n = 4 -> 3 [] n = 8 -> 2]

BitsOf(n) == {i \in 0..3 : (n \div 2^i) % 2 = 1}

\* (unsigned long long)(n << k): the shift is one of an int, whose sign is
\* extended.
Shifted(n, k) ==
    LET int == {i + k : i \in BitsOf(n)} \cap 0..31
    IN  IF 31 \in int THEN int \cup 32..63 ELSE int

Field(slot)  == Shifted(15, 16 + 4 * slot)
Enable(slot) == Shifted(1, 2 * slot)

\* What fits the register of the context
Stored(bits) == IF machine = 32 THEN bits \cap 0..31 ELSE bits

\* Mutant of ArmedDr7: what the slot was used for before is left in its field.
Overlaid(old, slot, bp) ==
    Stored(old \cup Shifted(CondBits[bp.cond], 16 + 4 * slot)
               \cup Shifted(LenBits[bp.length], 18 + 4 * slot) \cup Enable(slot))

ArmedDr7(old, slot, bp) ==
    Stored((old \ Field(slot)) \cup Shifted(CondBits[bp.cond], 16 + 4 * slot)
                               \cup Shifted(LenBits[bp.length], 18 + 4 * slot)
                               \cup Enable(slot))
DisarmedDr7(old, slot)  == Stored(old \ (Field(slot) \cup Enable(slot)))

-----------------------------------------------------------------------------
(* The calls                                                               *)

\* What set() lets through; of 8 bytes only to a native target
Breakpoints == {bp \in [addr : Addrs, cond : DOMAIN CondBits, length : DOMAIN LenBits] :
                    bp.cond = "x" => bp.length = 1}
Requests    == [slot : Slots, bp : {{}} \cup {{bp} : bp \in Breakpoints}]
Allowed(r)  == \A bp \in r.bp : machine = 32 => bp.length # 8

TypeOK ==
    /\ machine \in Machines
    /\ at \in 0..MaxRun /\ dr \in [Slots -> Addrs \cup {0}] /\ dr7 \subseteq 0..63
    /\ suspended \in 0..(MaxStuck + 1)
    /\ stage \in {"idle", "suspend", "get", "set", "resume"}
    /\ call \in Requests \cup {None}
    /\ context \in [at : 0..MaxRun, dr : [Slots -> Addrs \cup {0}], dr7 : SUBSET (0..63)]
                   \cup {None}
    /\ stuck \in 0..MaxStuck

Init ==
    /\ machine \in Machines
    /\ at = 0 /\ dr = [s \in Slots |-> 0] /\ dr7 = {} /\ suspended = 0
    /\ stage = "idle" /\ call = None /\ context = None
    /\ stuck = 0

\* The thread executes its own instructions.
Run ==
    /\ suspended = 0 /\ at < MaxRun
    /\ at' = at + 1
    /\ UNCHANGED <<machine, dr, dr7, suspended, stage, call, context, stuck>>

\* Mutant of FirstCall: a WOW64 thread is treated like a native one.
NeverSuspended == "get"
FirstCall      == IF machine = 32 THEN "suspend" ELSE "get"

Begin(r) ==
    /\ stage = "idle" /\ Allowed(r)
    /\ call' = r /\ stage' = FirstCall
    /\ UNCHANGED <<machine, thread, suspended, context, stuck>>

\* The way out, for a call that succeeded and for one that raises: "finally"
\* resumes what was suspended.
Leave ==
    /\ stage' = IF stage # "resume" /\ suspended > stuck THEN "resume" ELSE "idle"
    /\ call' = None /\ context' = None

Suspend ==
    /\ stage = "suspend"
    /\ suspended' = suspended + 1 /\ stage' = "get"
    /\ UNCHANGED <<machine, thread, call, context, stuck>>

SuspendFails ==
    /\ stage = "suspend" /\ "suspend" \in Faults
    /\ Leave
    /\ UNCHANGED <<machine, thread, suspended, stuck>>

\* _get_context()
GetContext ==
    /\ stage = "get"
    /\ context' = [at |-> at, dr |-> dr, dr7 |-> dr7] /\ stage' = "set"
    /\ UNCHANGED <<machine, thread, suspended, call, stuck>>

\* The bits are worked out on the context that was read, and written.
SetContext ==
    /\ stage = "set"
    /\ \/ \E bp \in call.bp :
             /\ dr'  = [context.dr EXCEPT ![call.slot] = bp.addr]
             /\ dr7' = ArmedDr7(context.dr7, call.slot, bp)
       \/ /\ call.bp = {}
          /\ dr'  = [context.dr EXCEPT ![call.slot] = 0]
          /\ dr7' = DisarmedDr7(context.dr7, call.slot)
    /\ at' = IF machine = 32 THEN context.at ELSE at
    /\ Leave
    /\ UNCHANGED <<machine, suspended, stuck>>

\* GetThreadContext or SetThreadContext fails: OSError.
ContextFails ==
    /\ stage \in {"get", "set"} \cap Faults
    /\ Leave
    /\ UNCHANGED <<machine, thread, suspended, stuck>>

Resume ==
    /\ stage = "resume"
    /\ suspended' = suspended - 1
    /\ Leave
    /\ UNCHANGED <<machine, thread, stuck>>

\* The failure is ignored: the thread stays suspended.
ResumeFails ==
    /\ stage = "resume" /\ "resume" \in Faults /\ stuck < MaxStuck
    /\ stuck' = stuck + 1
    /\ Leave
    /\ UNCHANGED <<machine, thread, suspended>>

Next == \/ Run \/ \E r \in Requests : Begin(r)
        \/ Suspend \/ SuspendFails \/ GetContext \/ SetContext \/ ContextFails
        \/ Resume \/ ResumeFails

Spec == Init /\ [][Next]_vars

-----------------------------------------------------------------------------
(* Properties                                                              *)

\* What the processor takes slot s for
Means(s) ==
    IF 2 * s \notin dr7 THEN {}
    ELSE {bp \in Breakpoints :
            /\ dr[s] = bp.addr
            /\ {i \in 0..1 : 16 + 4 * s + i \in dr7} = BitsOf(CondBits[bp.cond])
            /\ {i \in 0..1 : 18 + 4 * s + i \in dr7} = BitsOf(LenBits[bp.length])}

Registers == INSTANCE ThreadRegisters WITH armed <- [s \in Slots |-> Means(s)]

\* Whatever fails and however far the thread runs meanwhile: a call gives or
\* takes its slot as a whole, leaves the other slots alone and never sets the
\* thread back.
OneSlotAtATime == Registers!Spec

\* Once a call is over, the thread is suspended only if it could not be
\* resumed.
LeftRunning == stage = "idle" => suspended = stuck

\* "Dr7 bit layout per slot: RW bits at positions 16, 20, 24, 28, LEN bits at
\* positions 18, 22, 26, 30, Local enable at bits 0, 2, 4, 6": no other bit is
\* set.
OnlyTheLayout ==
    dr7 \subseteq UNION {{2 * s} \cup (16 + 4 * s)..(19 + 4 * s) : s \in Slots}

=============================================================================
