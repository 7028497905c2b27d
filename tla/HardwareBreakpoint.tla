------------------------- MODULE HardwareBreakpoint -------------------------
(***************************************************************************)
(* Hardware breakpoints (breakpoint/hardware.py) and their replication to  *)
(* new threads by wait_event() (core/debugger.py).                         *)
(*                                                                         *)
(* A breakpoint is one of four debug registers, and every thread has its   *)
(* own.  set() enumerates the threads, arms one after the other and only   *)
(* then records the breakpoint; a thread that appears later is armed when  *)
(* its CREATE_THREAD event is handled.  The target may create and end      *)
(* threads between any two of these steps.                                 *)
(***************************************************************************)
EXTENDS Naturals, FiniteSets

CONSTANTS
    Threads,      \* the thread ids the target may use
    Main,         \* session.tid
    All,          \* the scope of a process-wide breakpoint (None in the code)
    Slots,        \* debug registers
    Addrs,        \* breakpoint addresses
    NoAddr,       \* a register that is not enabled
    MaxBps,       \* bound: how many breakpoints are ever set
    Concurrent,   \* may an event be handled while a call is under way (the
                  \* call is made from another Python thread)?
    Faults        \* which context changes may fail: "arm", "disarm"

ASSUME ThreadAssumption == Main \in Threads /\ All \notin Threads
ASSUME AddrAssumption   == NoAddr \notin Addrs
ASSUME BoundAssumption  == MaxBps \in Nat
ASSUME ModeAssumption   == Concurrent \in BOOLEAN /\ Faults \subseteq {"arm", "disarm"}

Ids    == 1..MaxBps
Scopes == Threads \cup {All}
Record == [addr : Addrs, slot : Slots, scope : Scopes]

VARIABLES
    \* the target
    life,        \* life[t]: "unborn", "live" or "dead"
    posted,      \* threads whose CREATE_THREAD event is waiting
    held,        \* an event is held: the target is stopped
    dr,          \* dr[t][s]: the address armed in register s of thread t
    \* the manager
    breakpoints, \* the hw records of session.breakpoints
    bp_counter,  \* session.bp_counter
    raised,      \* wait_event() was left by an exception
    \* the call under way
    op,          \* "idle", "arm", "rollback", "disarm"
    bp,          \* its breakpoint, as it is or will be recorded
    id,          \* the record remove() will delete; 0 for set() and clear()
    todo,        \* threads the current loop still has to visit
    armed,       \* _arm_scope(): threads armed so far
    \* history
    failed,      \* a process-wide set() raised although no thread ended during
                 \* the call and no context change failed
    excused,     \* a thread ended, or a context change failed, since it began
    cleared,     \* breakpoints whose slot clear() disarmed
    botched      \* breakpoints whose disarming raised

manager == <<breakpoints, bp_counter>>
caller  == <<op, bp, id, todo, armed>>
history == <<failed, excused, cleared, botched>>
vars    == <<life, posted, held, dr, manager, raised, caller, history>>

TypeOK ==
    /\ life \in [Threads -> {"unborn", "live", "dead"}]
    /\ posted \subseteq Threads
    /\ held \in BOOLEAN
    /\ dr \in [Threads -> [Slots -> Addrs \cup {NoAddr}]]
    /\ bp_counter \in 0..MaxBps
    /\ DOMAIN breakpoints \subseteq 1..bp_counter
    /\ breakpoints \in [DOMAIN breakpoints -> Record]
    /\ raised \in BOOLEAN
    /\ op \in {"idle", "arm", "rollback", "disarm"}
    /\ bp \in Record
    /\ id \in 0..MaxBps
    /\ todo \subseteq Threads
    /\ armed \subseteq Threads
    /\ failed \in BOOLEAN /\ excused \in BOOLEAN
    /\ cleared \subseteq Ids /\ botched \subseteq Ids

Clean == [s \in Slots |-> NoAddr]
Empty == [x \in {} |-> x]

Init ==
    /\ life \in [Threads -> {"unborn", "live"}] /\ life[Main] = "live"
    /\ posted = {}
    /\ held = FALSE
    /\ dr = [t \in Threads |-> Clean]
    /\ breakpoints = Empty /\ bp_counter = 0
    /\ raised = FALSE
    /\ op = "idle" /\ id = 0 /\ todo = {} /\ armed = {}
    /\ bp \in Record
    /\ failed = FALSE /\ excused = FALSE
    /\ cleared = {} /\ botched = {}

-----------------------------------------------------------------------------
(* The target                                                              *)

Live == {t \in Threads : life[t] = "live"}

CreateThread(t) ==
    /\ ~held /\ life[t] = "unborn" /\ Live \ posted # {}
    /\ life' = [life EXCEPT ![t] = "live"]
    /\ posted' = posted \cup {t}
    /\ dr' = [dr EXCEPT ![t] = Clean]
    /\ UNCHANGED <<held, manager, raised, caller, history>>

\* A thread ends; the process lives on.
EndThread(t) ==
    /\ ~held /\ life[t] = "live" /\ t \notin posted /\ Live # {t}
    /\ life' = [life EXCEPT ![t] = "dead"]
    /\ excused' = TRUE
    /\ UNCHANGED <<posted, held, dr, manager, raised, caller, failed, cleared,
                   botched>>

-----------------------------------------------------------------------------
(* The event loop                                                          *)

MayWait == ~held /\ ~raised /\ (op = "idle" \/ Concurrent)

\* Mutant of Replicated: new threads get nothing.
NotReplicated(t, ids) == dr[t]

\* The registers of t with the process-wide breakpoints among ids armed
Replicated(t, ids) ==
    [s \in Slots |->
        LET here == {i \in ids : breakpoints[i].scope = All /\ breakpoints[i].slot = s}
        IN  IF here = {} THEN dr[t][s] ELSE breakpoints[CHOOSE i \in here : TRUE].addr]

\* wait_event() returns t's CREATE_THREAD with every process-wide breakpoint
\* armed on t.
ThreadCreated(t) ==
    /\ MayWait /\ t \in posted
    /\ posted' = posted \ {t}
    /\ held' = TRUE
    /\ dr' = [dr EXCEPT ![t] = Replicated(t, DOMAIN breakpoints)]
    /\ UNCHANGED <<life, manager, raised, caller, history>>

\* The registers of t cannot be changed: _arm_thread() raises BreakpointError,
\* which "except OSError" does not catch.  Breakpoints before that one in the
\* table are armed, and wait_event() raises with the event held.
ReplicationFails(t, i) ==
    /\ MayWait /\ t \in posted /\ "arm" \in Faults
    /\ i \in DOMAIN breakpoints /\ breakpoints[i].scope = All
    /\ posted' = posted \ {t}
    /\ held' = TRUE
    /\ dr' = [dr EXCEPT ![t] = Replicated(t, {j \in DOMAIN breakpoints : j < i})]
    /\ raised' = TRUE
    /\ UNCHANGED <<life, manager, caller, history>>

\* Any other event.
OtherEvent == /\ MayWait /\ held' = TRUE
              /\ UNCHANGED <<life, posted, dr, manager, raised, caller, history>>

Continue == /\ held /\ ~raised /\ (op = "idle" \/ Concurrent) /\ held' = FALSE
            /\ UNCHANGED <<life, posted, dr, manager, raised, caller, history>>

-----------------------------------------------------------------------------
(* set(), remove() and clear()                                             *)

\* Mutant of InScope: a process-wide scope is taken for a thread.
ScopeItself(scope) == {scope}
AllThreadIds       == Live \cup {Main}
InScope(scope)     == IF scope = All THEN AllThreadIds ELSE {scope}

\* Mutant of SlotTaken: a breakpoint of another scope may share the slot.
TakenInScope(slot, scope) ==
    \E i \in DOMAIN breakpoints : breakpoints[i].slot = slot /\ breakpoints[i].scope = scope
SlotTaken(slot, scope) == \E i \in DOMAIN breakpoints : breakpoints[i].slot = slot

\* set() up to the enumeration of the threads
SetBegin(addr, slot, scope) ==
    /\ op = "idle" /\ bp_counter < MaxBps
    /\ ~SlotTaken(slot, scope)
    /\ scope # All => scope \in AllThreadIds
    /\ op' = "arm" /\ todo' = InScope(scope) /\ armed' = {}
    /\ bp' = [addr |-> addr, slot |-> slot, scope |-> scope] /\ id' = 0
    /\ excused' = FALSE
    /\ UNCHANGED <<life, posted, held, dr, manager, raised, failed, cleared,
                   botched>>

\* _arm_thread() on one thread
ArmOne(t) ==
    /\ op = "arm" /\ t \in todo /\ life[t] = "live"
    /\ dr' = [dr EXCEPT ![t][bp.slot] = bp.addr]
    /\ todo' = todo \ {t} /\ armed' = armed \cup {t}
    /\ UNCHANGED <<life, posted, held, manager, raised, op, bp, id, history>>

\* Mutant of RollbackSet: nothing is rolled back.
NoRollback  == {}
RollbackSet == armed

\* The thread cannot be opened, or its registers not be changed.
ArmFails(t) ==
    /\ op = "arm" /\ t \in todo
    /\ life[t] = "dead" \/ "arm" \in Faults
    /\ op' = "rollback" /\ todo' = RollbackSet
    /\ excused' = (excused \/ "arm" \in Faults)
    /\ UNCHANGED <<life, posted, held, dr, manager, raised, bp, id, armed, failed,
                   cleared, botched>>

\* One thread of the rollback; what goes wrong is ignored.
RollbackOne(t) ==
    /\ op = "rollback" /\ t \in todo
    /\ todo' = todo \ {t}
    /\ \/ life[t] = "live" /\ dr' = [dr EXCEPT ![t][bp.slot] = NoAddr]
       \/ (life[t] = "dead" \/ "disarm" \in Faults) /\ UNCHANGED dr
    /\ UNCHANGED <<life, posted, held, manager, raised, op, bp, id, armed, history>>

\* set() raises BreakpointError.
RollbackDone ==
    /\ op = "rollback" /\ todo = {}
    /\ op' = "idle"
    /\ failed' = (failed \/ (bp.scope = All /\ ~excused))
    /\ UNCHANGED <<life, posted, held, dr, manager, raised, bp, id, todo, armed, excused,
                   cleared, botched>>

\* Every thread is armed: the breakpoint is recorded.
SetDone ==
    /\ op = "arm" /\ todo = {}
    /\ op' = "idle"
    /\ bp_counter' = bp_counter + 1
    /\ breakpoints' = [i \in DOMAIN breakpoints \cup {bp_counter + 1} |->
                          IF i = bp_counter + 1 THEN bp ELSE breakpoints[i]]
    /\ UNCHANGED <<life, posted, held, dr, raised, bp, id, todo, armed, history>>

\* remove(), or clear() of a slot, up to the enumeration of the threads
RemoveBegin(i) ==
    /\ op = "idle" /\ i \in DOMAIN breakpoints
    /\ op' = "disarm" /\ bp' = breakpoints[i] /\ id' = i
    /\ todo' = InScope(breakpoints[i].scope)
    /\ UNCHANGED <<life, posted, held, dr, manager, raised, armed, history>>

ClearBegin(slot) ==
    /\ op = "idle"
    /\ bp' = [bp EXCEPT !.slot = slot, !.scope = All]
    /\ op' = "disarm" /\ id' = 0 /\ todo' = InScope(All)
    /\ UNCHANGED <<life, posted, held, dr, manager, raised, armed, history>>

\* _disarm_thread() on one thread; one that cannot be opened is skipped.
DisarmOne(t) ==
    /\ op = "disarm" /\ t \in todo
    /\ todo' = todo \ {t}
    /\ \/ life[t] = "live" /\ dr' = [dr EXCEPT ![t][bp.slot] = NoAddr]
       \/ life[t] = "dead" /\ UNCHANGED dr
    /\ UNCHANGED <<life, posted, held, manager, raised, op, bp, id, armed, history>>

\* The records the call under way is about
Concerned == IF id = 0 THEN {i \in DOMAIN breakpoints : breakpoints[i].slot = bp.slot}
                       ELSE {id}

\* The registers cannot be changed, or the thread has ended but its id still
\* opens: BreakpointError, and the record stays.
DisarmFails(t) ==
    /\ op = "disarm" /\ t \in todo
    /\ life[t] = "dead" \/ "disarm" \in Faults
    /\ op' = "idle" /\ todo' = {}
    /\ botched' = botched \cup Concerned
    /\ UNCHANGED <<life, posted, held, dr, manager, raised, bp, id, armed, failed,
                   excused, cleared>>

\* remove() deletes the record, clear() leaves it.
DisarmDone ==
    /\ op = "disarm" /\ todo = {}
    /\ op' = "idle"
    /\ breakpoints' = [i \in DOMAIN breakpoints \ {id} |-> breakpoints[i]]
    /\ cleared' = IF id = 0 THEN cleared \cup Concerned ELSE cleared
    /\ UNCHANGED <<life, posted, held, dr, bp_counter, raised, bp, id, todo, armed,
                   failed, excused, botched>>

-----------------------------------------------------------------------------

TargetStep == \E t \in Threads : CreateThread(t) \/ EndThread(t)
LoopStep   == \/ \E t \in Threads : \/ ThreadCreated(t)
                                    \/ \E i \in Ids : ReplicationFails(t, i)
              \/ OtherEvent \/ Continue
CallStep   == \/ \E addr \in Addrs, slot \in Slots, scope \in Scopes : SetBegin(addr, slot, scope)
              \/ \E t \in Threads : \/ ArmOne(t) \/ ArmFails(t) \/ RollbackOne(t)
                                    \/ DisarmOne(t) \/ DisarmFails(t)
              \/ RollbackDone \/ SetDone \/ DisarmDone
              \/ \E i \in Ids : RemoveBegin(i)
              \/ \E slot \in Slots : ClearBegin(slot)

Next == TargetStep \/ LoopStep \/ CallStep

Spec == Init /\ [][Next]_vars

-----------------------------------------------------------------------------
(* Properties                                                              *)

\* Between two calls a register is armed only for a record, with its address
\* and on a thread in its scope.
NoStrayRegister ==
    op = "idle" => \A t \in Live, s \in Slots :
        dr[t][s] # NoAddr =>
            \E i \in DOMAIN breakpoints : /\ breakpoints[i].slot = s
                                          /\ breakpoints[i].addr = dr[t][s]
                                          /\ breakpoints[i].scope \in {All, t}

\* A process-wide breakpoint is armed on every thread, new ones included as
\* soon as their creation has been handled.
ArmedEverywhere ==
    ~raised /\ op = "idle" => \A i \in DOMAIN breakpoints \ (cleared \cup botched) :
        breakpoints[i].scope = All =>
            \A t \in Live \ posted : dr[t][breakpoints[i].slot] = breakpoints[i].addr

\* Slots are unique across the records.
SlotsUnique ==
    \A i, j \in DOMAIN breakpoints : breakpoints[i].slot = breakpoints[j].slot => i = j

\* A process-wide set() fails only because a thread ended during the call or
\* its registers could not be changed.
SetFailsForCause == ~failed

\* A CREATE_THREAD event always reaches the caller of wait_event().
EventsDelivered == ~raised

\* After clear() the slot is disabled on every thread, until a breakpoint is
\* set in it.
ClearedStaysClear ==
    [][\A i \in cleared \cap DOMAIN breakpoints, t \in Live :
         op = "idle" /\ dr[t][breakpoints[i].slot] = NoAddr
            => dr'[t][breakpoints[i].slot] = NoAddr]_vars

=============================================================================
