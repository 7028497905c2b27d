------------------------- MODULE SoftwareBreakpoint -------------------------
(***************************************************************************)
(* INT3 breakpoints of pydbg (breakpoint/software.py) as the event loop    *)
(* run() of core/debugger.py drives them.                                  *)
(*                                                                         *)
(* A breakpoint is one byte of the target.  When a thread hits it the      *)
(* manager puts the displaced byte back, rewinds the instruction pointer,  *)
(* sets the trap flag and remembers that a step is pending; when the step  *)
(* reports, it writes INT3 again.  Between the two the site is unguarded,  *)
(* other threads run, more hits may already be queued, and the client may  *)
(* set or remove breakpoints from its callback.                            *)
(*                                                                         *)
(* Windows itself (the target's threads, the queue of debug events) is     *)
(* modelled from how the code uses it: while an event is held the threads  *)
(* of its process are stopped; exceptions raised by other threads before   *)
(* that stay queued and are delivered later.                               *)
(***************************************************************************)
EXTENDS Naturals, Functions

CONSTANTS
    Procs,          \* the debuggees: the target and its debug children
    Threads,        \* thread ids; a tid may be used again after an exit
    NoThread,       \* "no event is held"
    Home,           \* Home[t]: the process thread t belongs to
    Addrs,          \* the instruction addresses of every process
    Flow,           \* Flow[a]: the addresses that may follow a
    Native,         \* addresses where the program itself has an INT3
    Unpacked,       \* addresses the target may overwrite (self-unpacking)
    Sites,          \* addresses where the client sets breakpoints
    MaxBps,         \* bound: how many breakpoints are ever set
    HitCap,         \* bound: hit counters saturate here
    Sharing,        \* which second breakpoint the client sets on an address
                    \* that has one: "same" process, "other" process
    RemoveQueued,   \* may the client remove a breakpoint whose hit is queued?
    Faults,         \* the operations whose system calls may fail
    Exits           \* the threads that may exit

ASSUME HomeAssumption  == Home \in [Threads -> Procs] /\ NoThread \notin Threads
ASSUME FlowAssumption  == Flow \in [Addrs -> SUBSET Addrs]
ASSUME SitesAssumption == Native \subseteq Addrs /\ Unpacked \subseteq Addrs
                          /\ Sites \subseteq Addrs
ASSUME BoundAssumption == MaxBps \in Nat /\ HitCap \in Nat \ {0}
ASSUME ModeAssumption  == /\ Sharing \subseteq {"same", "other"}
                          /\ RemoveQueued \in BOOLEAN
                          /\ Faults \subseteq {"set", "remove", "hit", "context",
                                               "step", "verify"}
                          /\ Exits \subseteq Threads

Ids  == 1..MaxBps
Byte == {"insn", "new", "int3"}
Breakpoint == [addr : Addrs, original : Byte, proc : Procs]
Pending    == [id : Ids, addr : Addrs, proc : Procs]

VARIABLES
    \* the target
    code,        \* code[p][a]: the byte in memory
    own,         \* own[p][a]: the byte the program put there itself
    loc,         \* loc[t]: the instruction thread t is at
    past,        \* past[t]: its instruction pointer is one byte past loc[t]
    tf,          \* tf[t]: the trap flag is set
    exc,         \* exc[t]: the exception t waits with: "none", "bp", "ss"
    alive,       \* alive[t]: the thread exists
    \* the debugger
    event,       \* the thread whose event is held, or NoThread
    breakpoints, \* session.breakpoints (the int3 records)
    bp_counter,  \* session.bp_counter
    pending_single_step, \* session.pending_single_step
    hits,        \* SoftwareBreakpointManager.hits
    lost,        \* SoftwareBreakpointManager.lost
    raised,      \* run() was left by an exception
    \* history
    reached,     \* ids whose site was executed since they were set
    overwritten  \* ids whose site the target overwrote since they were set

target  == <<code, own, loc, past, tf, exc, alive>>
records == <<breakpoints, bp_counter, pending_single_step, hits, lost>>
vars    == <<target, event, records, raised, reached, overwritten>>

TypeOK ==
    /\ code \in [Procs -> [Addrs -> Byte]]
    /\ own \in [Procs -> [Addrs -> Byte]]
    /\ loc \in [Threads -> Addrs]
    /\ past \in [Threads -> BOOLEAN]
    /\ tf \in [Threads -> BOOLEAN]
    /\ exc \in [Threads -> {"none", "bp", "ss"}]
    /\ alive \in [Threads -> BOOLEAN]
    /\ event \in Threads \cup {NoThread}
    /\ bp_counter \in 0..MaxBps
    /\ DOMAIN breakpoints \subseteq 1..bp_counter
    /\ breakpoints \in [DOMAIN breakpoints -> Breakpoint]
    /\ DOMAIN pending_single_step \subseteq Threads
    /\ pending_single_step \in [DOMAIN pending_single_step -> Pending]
    /\ hits \in [DOMAIN breakpoints -> 0..HitCap]
    /\ lost \subseteq DOMAIN breakpoints
    /\ raised \in BOOLEAN
    /\ reached \subseteq 1..bp_counter
    /\ overwritten \subseteq 1..bp_counter

Empty == [x \in {} |-> x]

Init ==
    /\ own = [p \in Procs |-> [a \in Addrs |-> IF a \in Native THEN "int3" ELSE "insn"]]
    /\ code = own
    /\ loc \in [Threads -> Addrs]
    /\ past = [t \in Threads |-> FALSE]
    /\ tf = [t \in Threads |-> FALSE]
    /\ exc = [t \in Threads |-> "none"]
    /\ alive = [t \in Threads |-> TRUE]
    /\ event = NoThread
    /\ breakpoints = Empty /\ bp_counter = 0 /\ hits = Empty
    /\ pending_single_step = Empty
    /\ lost = {} /\ raised = FALSE /\ reached = {} /\ overwritten = {}

-----------------------------------------------------------------------------
(* Helpers                                                                 *)

At(p, a) == {id \in DOMAIN breakpoints :
                breakpoints[id].proc = p /\ breakpoints[id].addr = a}

\* find(): the first record for an address, whatever its process
Candidates(a) == {id \in DOMAIN breakpoints : breakpoints[id].addr = a}
Finds(a, id)  == id \in Candidates(a) /\ \A other \in Candidates(a) : id <= other

\* What write_process_memory between two virtual_protect_ex calls can come
\* to: every call succeeds; one fails before, or after, the byte is written.
Outcomes(op) == IF op \in Faults THEN {"ok", "before", "after"} ELSE {"ok"}
Poke(mem, p, a, byte, outcome) ==
    IF outcome = "before" THEN mem ELSE [mem EXCEPT ![p][a] = byte]

Put(f, k, v)  == [x \in DOMAIN f \cup {k} |-> IF x = k THEN v ELSE f[x]]
Drop(f, K)    == Restrict(f, DOMAIN f \ K)
Last(S)       == {id \in S : \A other \in S : other <= id}
Capped(n)     == IF n < HitCap THEN n ELSE HitCap

\* The threads of the process whose event is held are stopped.
Stopped(p)  == event # NoThread /\ Home[event] = p
Runnable(t) == alive[t] /\ exc[t] = "none" /\ ~Stopped(Home[t])

\* t trapped on the INT3 at (p, a) and its hit has not been handled yet.
Queued(t, p, a) == /\ exc[t] = "bp" /\ past[t] /\ event # t
                   /\ Home[t] = p /\ loc[t] = a

-----------------------------------------------------------------------------
(* The target                                                              *)

\* Executing INT3 raises an exception and leaves the pointer past it.
Trap(t) ==
    /\ Runnable(t) /\ ~past[t] /\ code[Home[t]][loc[t]] = "int3"
    /\ exc' = [exc EXCEPT ![t] = "bp"]
    /\ past' = [past EXCEPT ![t] = TRUE]
    /\ UNCHANGED <<code, own, loc, tf, alive, event, records, raised, reached, overwritten>>

\* The thread is about to execute what the program means to be executed.
Genuine(t) == IF past[t] THEN own[Home[t]][loc[t]] = "int3"
                         ELSE own[Home[t]][loc[t]] = code[Home[t]][loc[t]]

\* One instruction.  From the middle of one, or of one the program does not
\* mean to be there, the thread may end up anywhere.
Execute(t) ==
    /\ Runnable(t) /\ (past[t] \/ code[Home[t]][loc[t]] # "int3")
    /\ \E a \in IF Genuine(t) THEN Flow[loc[t]] ELSE Addrs :
            loc' = [loc EXCEPT ![t] = a]
    /\ past' = [past EXCEPT ![t] = FALSE]
    /\ tf' = [tf EXCEPT ![t] = FALSE]
    /\ exc' = [exc EXCEPT ![t] = IF tf[t] THEN "ss" ELSE "none"]
    /\ reached' = IF past[t] THEN reached ELSE reached \cup At(Home[t], loc[t])
    /\ UNCHANGED <<code, own, alive, event, records, raised, overwritten>>

\* A self-unpacking target writes over its own code.
Overwrite(p, a) ==
    /\ a \in Unpacked /\ ~Stopped(p)
    /\ code' = [code EXCEPT ![p][a] = "new"]
    /\ own' = [own EXCEPT ![p][a] = "new"]
    /\ overwritten' = overwritten \cup At(p, a)
    /\ UNCHANGED <<loc, past, tf, exc, alive, event, records, raised, reached>>

ExitThread(t) ==
    /\ t \in Exits /\ Runnable(t)
    /\ alive' = [alive EXCEPT ![t] = FALSE]
    /\ UNCHANGED <<code, own, loc, past, tf, exc, event, records, raised, reached, overwritten>>

\* A new thread, under an id that may have been another thread's.
StartThread(t) ==
    /\ ~alive[t] /\ ~Stopped(Home[t])
    /\ alive' = [alive EXCEPT ![t] = TRUE]
    /\ \E a \in Addrs : loc' = [loc EXCEPT ![t] = a]
    /\ past' = [past EXCEPT ![t] = FALSE]
    /\ tf' = [tf EXCEPT ![t] = FALSE]
    /\ UNCHANGED <<code, own, exc, event, records, raised, reached, overwritten>>

-----------------------------------------------------------------------------
(* The event loop: one event from wait_event() to its dispatch             *)

Deliverable(t) == event = NoThread /\ ~raised /\ alive[t]

\* Mutants of Counted, Rewind, SetTrapFlag and Restored: the hit is not
\* counted; the pointer is not rewound; the flag is not set; the byte is put
\* back in one fixed process, not in the record's.
NotCounted(id)        == hits
NoRewind(t)           == UNCHANGED past
NoTrapFlag(t)         == UNCHANGED tf
RestoredInOneProcess(id, outcome) ==
    Poke(code, CHOOSE p \in Procs : TRUE, breakpoints[id].addr,
         breakpoints[id].original, outcome)

Counted(id)    == [hits EXCEPT ![id] = Capped(@ + 1)]
Rewind(t)      == past' = [past EXCEPT ![t] = FALSE]
SetTrapFlag(t) == tf' = [tf EXCEPT ![t] = TRUE]

\* _restore_byte_handle(): memory with the displaced byte back in place
Restored(id, outcome) ==
    Poke(code, breakpoints[id].proc, breakpoints[id].addr,
         breakpoints[id].original, outcome)

\* handle_breakpoint_hit() for a record of ours, without the outcome.
BeginHit(t, id) ==
    /\ Deliverable(t) /\ exc[t] = "bp" /\ Finds(loc[t], id)
    /\ event' = t
    /\ hits' = Counted(id)
    /\ UNCHANGED <<own, loc, exc, alive, breakpoints, bp_counter, lost, reached, overwritten>>

\* Ours and completed: the callback runs with the thread rewound and the
\* single step pending.
HitBreakpoint(t, id) ==
    /\ BeginHit(t, id)
    /\ code' = Restored(id, "ok")
    /\ Rewind(t)
    /\ SetTrapFlag(t)
    /\ pending_single_step' = Put(pending_single_step, t,
            [id |-> id, addr |-> loc[t], proc |-> breakpoints[id].proc])
    /\ UNCHANGED raised

\* The byte could not be restored: BreakpointError out of run().
HitRestoreFails(t, id) ==
    /\ BeginHit(t, id)
    /\ \E outcome \in Outcomes("hit") \ {"ok"} : code' = Restored(id, outcome)
    /\ raised' = TRUE
    /\ UNCHANGED <<past, tf, pending_single_step>>

\* The thread context could not be changed: INT3 goes back in (that write
\* may fail too) and run() raises BreakpointError either way.
HitDegraded(t, id) ==
    /\ "context" \in Faults
    /\ BeginHit(t, id)
    /\ \E outcome \in {"ok", "before", "after"} :
          code' = Poke(Restored(id, "ok"), breakpoints[id].proc, loc[t], "int3", outcome)
    /\ raised' = TRUE
    /\ UNCHANGED <<past, tf, pending_single_step>>

\* An INT3 we have no record of (the loader's, the program's own): delivered
\* to the callback like any other exception.
ForeignBreakpoint(t) ==
    /\ Deliverable(t) /\ exc[t] = "bp"
    /\ Candidates(loc[t]) = {}
    /\ event' = t
    /\ UNCHANGED <<target, records, raised, reached, overwritten>>

\* Mutants of Recorded, Popped and Int3: a removed breakpoint is re-armed; the
\* pending entry is read but stays; INT3 stays out.
AlwaysRecorded(id)  == TRUE
NotPopped(t)        == pending_single_step
NoInt3(p, a, outcome) == code

Recorded(id) == id \in DOMAIN breakpoints
Popped(t)    == Drop(pending_single_step, {t})

\* _write_int3_handle(): memory with INT3 at (p, a)
Int3(p, a, outcome) == Poke(code, p, a, "int3", outcome)

\* handle_single_step(): the pending entry goes, INT3 is written if the
\* breakpoint still exists, and run() continues without telling the client.
Rearm(t) ==
    LET entry == pending_single_step[t] IN
    /\ Deliverable(t) /\ exc[t] = "ss" /\ t \in DOMAIN pending_single_step
    /\ pending_single_step' = Popped(t)
    /\ IF Recorded(entry.id)
       THEN \E outcome \in Outcomes("step") :
                /\ code' = Int3(entry.proc, entry.addr, outcome)
                /\ raised' = (outcome # "ok")
       ELSE UNCHANGED <<code, raised>>
    /\ IF raised' THEN event' = t /\ UNCHANGED exc
                  ELSE exc' = [exc EXCEPT ![t] = "none"] /\ UNCHANGED event
    /\ UNCHANGED <<own, loc, past, tf, alive, breakpoints, bp_counter, hits, lost,
                   reached, overwritten>>

\* A single step nobody scheduled here: the client asked for it.
ForeignStep(t) ==
    /\ Deliverable(t) /\ exc[t] = "ss" /\ t \notin DOMAIN pending_single_step
    /\ event' = t
    /\ UNCHANGED <<target, records, raised, reached, overwritten>>

\* The callback returned None, or the client called continue_event() itself.
Continue ==
    /\ event # NoThread /\ ~raised
    /\ event' = NoThread
    /\ exc' = [exc EXCEPT ![event] = "none"]
    /\ UNCHANGED <<code, own, loc, past, tf, alive, records, raised, reached, overwritten>>

-----------------------------------------------------------------------------
(* The client's calls, from its callback or from another Python thread     *)

MaySet(p, a) ==
    /\ a \in Sites /\ bp_counter < MaxBps
    /\ At(p, a) # {} => "same" \in Sharing
    /\ Candidates(a) \ At(p, a) # {} => "other" \in Sharing

\* Mutant of Displaced: the byte is read after INT3 was written over it.
ReadTooLate(p, a) == "int3"
Displaced(p, a)   == code[p][a]

\* set_breakpoint() -> set_handle()
Set(p, a) ==
    /\ MaySet(p, a)
    /\ code' = Int3(p, a, "ok")
    /\ bp_counter' = bp_counter + 1
    /\ breakpoints' = Put(breakpoints, bp_counter + 1,
                          [addr |-> a, original |-> Displaced(p, a), proc |-> p])
    /\ hits' = Put(hits, bp_counter + 1, 0)
    /\ UNCHANGED <<own, loc, past, tf, exc, alive, event, pending_single_step, lost,
                   raised, reached, overwritten>>

\* A system call of set_handle() fails after the write: INT3 is in the
\* target, the caller gets BreakpointError and no record exists.
SetFails(p, a) ==
    /\ MaySet(p, a) /\ "set" \in Faults
    /\ code' = [code EXCEPT ![p][a] = "int3"]
    /\ UNCHANGED <<own, loc, past, tf, exc, alive, event, records, raised, reached,
                   overwritten>>

MayRemove(id) ==
    RemoveQueued \/ ~\E t \in Threads :
                        Queued(t, breakpoints[id].proc, breakpoints[id].addr)

\* Mutant of CountsWithout: the hit count outlives the record.
AllCounts(K)     == hits
CountsWithout(K) == Drop(hits, K)

Forget(K) ==
    /\ breakpoints' = Drop(breakpoints, K)
    /\ hits' = CountsWithout(K)
    /\ lost' = lost \ K
    /\ UNCHANGED <<own, loc, past, tf, exc, alive, event, bp_counter,
                   pending_single_step, raised, reached, overwritten>>

\* remove(): the record goes first, then the byte is restored.
Remove(id) ==
    /\ id \in DOMAIN breakpoints /\ MayRemove(id)
    /\ Forget({id})
    /\ \E outcome \in Outcomes("remove") : code' = Restored(id, outcome)

\* remove_all_breakpoints(): remove() in the order of the ids, up to the
\* first that raises.
RemoveAll(outcome, last) ==
    LET gone    == {id \in DOMAIN breakpoints : id <= last}
        written == IF outcome = "before" THEN gone \ {last} ELSE gone
    IN
    /\ last \in DOMAIN breakpoints
    /\ outcome = "ok" => gone = DOMAIN breakpoints
    /\ \A id \in gone : MayRemove(id)
    /\ Forget(gone)
    /\ code' = [p \in Procs |-> [a \in Addrs |->
                  LET lastAt == Last(At(p, a) \cap written) IN
                  IF lastAt = {} THEN code[p][a]
                  ELSE breakpoints[CHOOSE id \in lastAt : TRUE].original]]

\* Mutant of Armed: the byte is read in one fixed process, not in the record's.
ReadInOneProcess(id) ==
    code[CHOOSE p \in Procs : TRUE][breakpoints[id].addr] = "int3"

\* armed_state() when the byte can be read
Armed(id) == code[breakpoints[id].proc][breakpoints[id].addr] = "int3"

\* verify_breakpoints() and breakpoint_report(): read every site; one that
\* cannot be read counts as lost.
VerifyAll ==
    /\ DOMAIN breakpoints # {}
    /\ \E unread \in IF "verify" \in Faults THEN SUBSET DOMAIN breakpoints ELSE {{}} :
         lost' = unread \cup {id \in DOMAIN breakpoints : ~Armed(id)}
    /\ UNCHANGED <<target, event, breakpoints, bp_counter, pending_single_step, hits,
                   raised, reached, overwritten>>

\* StepTracer.step() on a thread of the stopped process.
StepRequest(t) ==
    /\ event # NoThread /\ Stopped(Home[t]) /\ alive[t]
    /\ tf' = [tf EXCEPT ![t] = TRUE]
    /\ UNCHANGED <<code, own, loc, past, exc, alive, event, records, raised, reached,
                   overwritten>>

-----------------------------------------------------------------------------

TargetStep == \/ \E t \in Threads : Trap(t) \/ Execute(t) \/ ExitThread(t)
                                      \/ StartThread(t)
              \/ \E p \in Procs, a \in Addrs : Overwrite(p, a)

LoopStep == \/ \E t \in Threads : \/ \E id \in Ids : \/ HitBreakpoint(t, id)
                                                     \/ HitRestoreFails(t, id)
                                                     \/ HitDegraded(t, id)
                                  \/ ForeignBreakpoint(t)
                                  \/ Rearm(t)
                                  \/ ForeignStep(t)
            \/ Continue

ClientStep == \/ \E p \in Procs, a \in Addrs : Set(p, a) \/ SetFails(p, a)
              \/ \E id \in Ids : Remove(id)
              \/ \E id \in Ids, outcome \in Outcomes("remove") : RemoveAll(outcome, id)
              \/ VerifyAll
              \/ \E t \in Threads : StepRequest(t)

Next == TargetStep \/ LoopStep \/ ClientStep

Spec == Init /\ [][Next]_vars

\* Windows schedules every thread that can run and delivers every queued
\* event in time; the callback returns.  A thread stopped again and again by
\* other threads' events is still scheduled now and then: strong fairness.
Deliver(t) == \/ \E id \in Ids : HitBreakpoint(t, id)
              \/ ForeignBreakpoint(t) \/ Rearm(t) \/ ForeignStep(t)
Fairness == /\ \A t \in Threads : SF_vars(Trap(t) \/ Execute(t)) /\ SF_vars(Deliver(t))
            /\ WF_vars(Continue)

FairSpec == Spec /\ Fairness

-----------------------------------------------------------------------------
(* Properties                                                              *)

\* A thread that runs never runs from the middle of an instruction: every
\* INT3 it trapped on was the program's own or was rewound.
NoMidInstruction ==
    \A t \in Threads : alive[t] /\ past[t] /\ exc[t] = "none"
                          => own[Home[t]][loc[t]] = "int3"

\* The only bytes the debugger leaves different from the program's are INT3s
\* that a record accounts for.
CodeAccounted ==
    \A p \in Procs, a \in Addrs :
        code[p][a] = own[p][a] \/ (code[p][a] = "int3" /\ At(p, a) # {})

\* What remove() will put back is the program's byte, never a displaced INT3.
OriginalsAreOwn ==
    \A id \in DOMAIN breakpoints :
        breakpoints[id].original = own[breakpoints[id].proc][breakpoints[id].addr]

\* A recorded breakpoint without its INT3 is being stepped over right now: a
\* live thread will report the single step that re-arms it.
DisarmedOnlyWhileStepping ==
    raised \/ \A id \in DOMAIN breakpoints :
        Armed(id) \/ \E t \in DOMAIN pending_single_step :
                        /\ pending_single_step[t].id = id
                        /\ alive[t] /\ (tf[t] \/ exc[t] = "ss")

\* What keeps it so while no thread exits: a thread with a pending step
\* stands on the breakpoint with the trap flag set, or has just stepped.
StepsScheduled ==
    \A t \in Threads :
        /\ alive[t]
        /\ t \in DOMAIN pending_single_step =>
              exc[t] = "ss" \/ (tf[t] /\ loc[t] = pending_single_step[t].addr)
        /\ event = t /\ exc[t] = "ss" => t \notin DOMAIN pending_single_step

\* breakpoint_report(): armed with hits = 0 means the site never executed
\* since the breakpoint was set.
ZeroHitsNeverReached ==
    \A id \in DOMAIN breakpoints :
        hits[id] = 0 /\ Armed(id) => id \notin reached

\* What the proofs ask of the client and of the system calls: one breakpoint
\* per address, none on the program's own INT3, no self-modifying code, no
\* removal behind the back of a queued hit, no failing write in
\* set_breakpoint() and remove_breakpoint().
Disciplined ==
    /\ Sharing = {} /\ Unpacked = {} /\ RemoveQueued = FALSE
    /\ Native \cap Sites = {}
    /\ Faults \cap {"set", "remove"} = {}

\* The inductive invariant behind these properties.
ProgramUnchanged ==
    own = [p \in Procs |-> [a \in Addrs |-> IF a \in Native THEN "int3" ELSE "insn"]]

OneRecordPerAddress ==
    \A i \in DOMAIN breakpoints :
        /\ breakpoints[i].addr \in Sites
        /\ \A j \in DOMAIN breakpoints :
              breakpoints[i].addr = breakpoints[j].addr => i = j

PendingMatchesRecord ==
    \A t \in DOMAIN pending_single_step :
        LET entry == pending_single_step[t] IN
        /\ entry.id <= bp_counter
        /\ entry.id \in DOMAIN breakpoints =>
              /\ breakpoints[entry.id].addr = entry.addr
              /\ breakpoints[entry.id].proc = entry.proc

\* A thread past an INT3 that is not the program's waits with a hit some
\* record will answer for, or is the one whose failure made run() raise.
TrapsAccounted ==
    \A t \in Threads :
        /\ past[t] => \/ own[Home[t]][loc[t]] = "int3"
                      \/ exc[t] = "bp" /\ event = t /\ raised
                      \/ exc[t] = "bp" /\ event # t /\ At(Home[t], loc[t]) # {}
        /\ exc[t] = "bp" /\ event # t => past[t]
        /\ ~alive[t] => exc[t] = "none"
        /\ event = t => exc[t] # "none"

UncountedIsArmed ==
    \A id \in DOMAIN breakpoints :
        hits[id] = 0 => Armed(id) /\ id \notin reached

IInv == /\ ProgramUnchanged
        /\ OneRecordPerAddress
        /\ PendingMatchesRecord
        /\ TrapsAccounted
        /\ CodeAccounted
        /\ OriginalsAreOwn
        /\ UncountedIsArmed

\* With every breakpoint removed no INT3 of ours is left in the code.
NoneLeftBehind ==
    DOMAIN breakpoints = {} =>
        \A p \in Procs, a \in Addrs : code[p][a] = "int3" => own[p][a] = "int3"

\* verify_breakpoints() names breakpoints the target has overwritten.
LostMeansOverwritten == lost \subseteq overwritten

\* A breakpoint verify_breakpoints() starts to report was overwritten by the
\* target, or it is out because some thread has a step to make.
LostIsExplained ==
    [][\A id \in lost' \ lost :
         id \in overwritten \/ \E t \in DOMAIN pending_single_step :
                                    pending_single_step[t].id = id]_vars

\* When run() hands a hit to the callback the thread stands on the
\* breakpoint and the instruction it displaced is in place, in the process
\* that trapped: the program's own, where the target does not write code.
CallbackSeesOriginal ==
    [][\A t \in Threads, id \in Ids : HitBreakpoint(t, id) =>
         /\ ~past'[t] /\ code'[Home[t]][loc[t]] = breakpoints[id].original
         /\ loc[t] \notin Unpacked =>
               code'[Home[t]][loc[t]] = own[Home[t]][loc[t]]]_vars

\* Seen through its threads' locations the debugged target is the program.
Program == INSTANCE TargetProgram
Transparent == Program!Spec

\* A recorded breakpoint that is out is put back in.
Rearmed ==
    \A id \in Ids : (id \in DOMAIN breakpoints /\ ~Armed(id))
                        ~> (id \notin DOMAIN breakpoints \/ Armed(id))

\* A thread stopped at a breakpoint steps over it once it is continued.
StepsOver ==
    \A t \in Threads : (t \in DOMAIN pending_single_step)
                            ~> (t \notin DOMAIN pending_single_step)

=============================================================================
