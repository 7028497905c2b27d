--------------------------- MODULE SessionHandles ---------------------------
(***************************************************************************)
(* The process handles of a session (core/debugger.py): the target's from  *)
(* create_process() or attach(), the debug children's from their events,   *)
(* and those open_process() opens by pid and caches with their rights.     *)
(*                                                                         *)
(* A handle is a number.  Windows gives it out again once it is closed,    *)
(* and every breakpoint record keeps the handle it was set through: what a *)
(* number means must not change while somebody still uses it.              *)
(***************************************************************************)
EXTENDS Naturals, FiniteSets, Functions

CONSTANTS
    Pids,          \* process ids
    Handles,       \* handle values
    None,
    MaxBps,        \* bound: breakpoints ever set
    Tidy,          \* the client removes the breakpoints that go through a
                   \* handle before it has that handle closed, and detaches
                   \* before it starts another session
    Masks,         \* the access masks the client asks for
    Faults         \* "access": a process may refuse to be opened

ASSUME NoneAssumption  == None \notin Pids \cup Handles
ASSUME BoundAssumption == MaxBps \in Nat /\ Tidy \in BOOLEAN /\ Faults \subseteq {"access"}
ASSUME MaskAssumption  == Masks \subseteq {"read", "limited", "terminate", "all"}
                          /\ None \notin {"read", "limited", "terminate", "all"}

Ids      == 1..MaxBps
AnyMask  == Masks \cup {"read", "limited"}
Rights   == {"read", "write", "terminate"}
Grants   == [mask \in {"read", "limited", "terminate", "all"} |->
                IF mask = "all" THEN Rights
                ELSE IF mask = "terminate" THEN {"terminate"} ELSE {"read"}]
Object   == [pid : Pids \cup {None}, kind : {"process", "thread", "file"}, rights : SUBSET Rights]

VARIABLES
    \* Windows
    alive,           \* the processes that run
    debugged,        \* those this debugger is attached to
    follows,         \* those of them whose children are debugged too
    announced,       \* those whose CREATE_PROCESS event is waiting
    table,           \* open handle -> what it refers to
    \* the session
    debug_children,  \* set_debug_children()
    pid,             \* the target, or None
    process_handle,
    thread_handle,
    children,        \* child_processes: pid -> its two handles
    foreign,         \* foreign_handles and foreign_access: pid -> handle, mask
    breakpoints,     \* id -> the handle it was set through, the process meant
    bp_counter,
    \* history
    orphaned         \* breakpoints of debug children that exited

windows == <<alive, debugged, follows, announced, table>>
session == <<debug_children, pid, process_handle, thread_handle, children, foreign>>
records == <<breakpoints, bp_counter, orphaned>>
vars    == <<windows, session, records>>

TypeOK ==
    /\ alive \subseteq Pids /\ debugged \subseteq alive
    /\ follows \subseteq Pids /\ announced \subseteq debugged
    /\ DOMAIN table \subseteq Handles /\ table \in [DOMAIN table -> Object]
    /\ debug_children \in BOOLEAN
    /\ pid \in Pids \cup {None}
    /\ process_handle \in Handles \cup {None}
    /\ thread_handle \in Handles \cup {None}
    /\ DOMAIN children \subseteq Pids
    /\ children \in [DOMAIN children -> [process : Handles, thread : Handles]]
    /\ DOMAIN foreign \subseteq Pids
    /\ foreign \in [DOMAIN foreign -> [handle : Handles, access : AnyMask]]
    /\ bp_counter \in 0..MaxBps
    /\ DOMAIN breakpoints \subseteq 1..bp_counter
    /\ breakpoints \in [DOMAIN breakpoints -> [handle : Handles, pid : Pids]]
    /\ orphaned \subseteq 1..bp_counter

Empty == [x \in {} |-> x]

Init ==
    /\ alive \in SUBSET Pids
    /\ debugged = {} /\ follows = {} /\ announced = {}
    /\ table = Empty
    /\ debug_children = FALSE
    /\ pid = None /\ process_handle = None /\ thread_handle = None
    /\ children = Empty /\ foreign = Empty
    /\ breakpoints = Empty /\ bp_counter = 0 /\ orphaned = {}

-----------------------------------------------------------------------------
(* Helpers                                                                 *)

Put(f, k, v) == [x \in DOMAIN f \cup {k} |-> IF x = k THEN v ELSE f[x]]
Drop(f, K)   == Restrict(f, DOMAIN f \ K)
Fresh        == Handles \ DOMAIN table

Process(p, rights) == [pid |-> p, kind |-> "process", rights |-> rights]
Thread(p)          == [pid |-> p, kind |-> "thread", rights |-> {}]
\* The file a process was loaded from, whose handle keeps no process.
ImageFile          == [pid |-> None, kind |-> "file", rights |-> {}]

\* A pid is given to a new process when no open handle keeps the old one.
Unused(p) == p \notin alive /\ \A h \in DOMAIN table : table[h].pid # p

\* The client may close handles H only when no breakpoint goes through them.
MayClose(H) == Tidy => \A id \in DOMAIN breakpoints : breakpoints[id].handle \notin H
MayStart    == Tidy => process_handle = None /\ thread_handle = None /\ debugged = {}

\* Mutant of MayUse: the mask of a cached handle is not looked at.
AnyHandle(p, need) == TRUE
MayUse(p, need)    == need \subseteq Grants[foreign[p].access]

\* _get_process_handle(): the handle to change process p through; the empty
\* set where it raises ProcessError.
HandleFor(p, need) ==
    IF p = pid THEN {process_handle} \ {None}
    ELSE IF p \in DOMAIN children THEN {children[p].process}
    ELSE IF p \in DOMAIN foreign /\ MayUse(p, need) THEN {foreign[p].handle}
    ELSE {}

-----------------------------------------------------------------------------
(* Windows                                                                 *)

\* A process starts or ends without this debugger having a part in it.
Starts(p) ==
    /\ Unused(p)
    /\ alive' = alive \cup {p}
    /\ UNCHANGED <<debugged, follows, announced, table, session, records>>

\* The handles that came with the CREATE_PROCESS event of a debug child.
\* Windows closes them when the debugging of that child ends.
EventHandles(p) ==
    IF p \in debugged \cap DOMAIN children /\ p # pid
    THEN {children[p].process, children[p].thread} ELSE {}

Ended(p) ==
    /\ alive' = alive \ {p} /\ debugged' = debugged \ {p}
    /\ follows' = follows \ {p} /\ announced' = announced \ {p}
    /\ table' = Drop(table, EventHandles(p))
    /\ orphaned' = orphaned \cup {id \in DOMAIN breakpoints :
                                     breakpoints[id].handle \in EventHandles(p)}

Exits(p) ==
    /\ p \in alive
    /\ Ended(p)
    /\ UNCHANGED <<session, breakpoints, bp_counter>>

-----------------------------------------------------------------------------
(* The session                                                             *)

SetDebugChildren(enabled) ==
    /\ pid = None
    /\ debug_children' = enabled
    /\ UNCHANGED <<windows, pid, process_handle, thread_handle, children, foreign, records>>

CreateProcess(p) ==
    /\ MayStart /\ Unused(p)
    /\ \E hp, ht \in Fresh :
          /\ hp # ht
          /\ table' = Put(Put(table, hp, Process(p, Rights)), ht, Thread(p))
          /\ process_handle' = hp /\ thread_handle' = ht
    /\ alive' = alive \cup {p} /\ debugged' = debugged \cup {p}
    /\ follows' = IF debug_children THEN follows \cup {p} ELSE follows
    /\ announced' = announced \cup {p}
    /\ pid' = p
    /\ UNCHANGED <<debug_children, children, foreign, records>>

\* attach(): a process that refuses full access is attached to all the same,
\* and process_handle stays what it was.
Attach(p) ==
    /\ MayStart /\ p \in alive \ debugged
    /\ debugged' = debugged \cup {p} /\ announced' = announced \cup {p}
    /\ pid' = p
    /\ \/ \E h \in Fresh : /\ table' = Put(table, h, Process(p, Rights))
                           /\ process_handle' = h
       \/ "access" \in Faults /\ UNCHANGED <<table, process_handle>>
    /\ UNCHANGED <<alive, follows, debug_children, thread_handle, children, foreign, records>>

\* With CREATE_PROCESS comes an open handle of the image file, unless Windows
\* has none to give.  wait_for_debug_event() takes the two other handles out of
\* the event and nobody this one.
WithImage(opened) ==
    \/ table' = opened
    \/ \E h \in Handles \ DOMAIN opened : table' = Put(opened, h, ImageFile)

\* wait_event() on the target's CREATE_PROCESS: after attach() the main thread
\* is opened, if that works.
TargetAnnounced ==
    /\ pid \in announced
    /\ announced' = announced \ {pid}
    /\ \/ thread_handle = None /\ \E h \in Fresh : /\ WithImage(Put(table, h, Thread(pid)))
                                                   /\ thread_handle' = h
       \/ /\ thread_handle # None \/ "access" \in Faults
          /\ WithImage(table) /\ UNCHANGED thread_handle
    /\ UNCHANGED <<alive, debugged, follows, debug_children, pid, process_handle, children,
                   foreign, records>>

\* wait_event() on the CREATE_PROCESS of a debug child: _register_child()
ChildAnnounced(c) ==
    /\ follows # {} /\ debug_children /\ Unused(c) /\ c # pid
    /\ \E hp, ht \in Fresh :
          /\ hp # ht
          /\ WithImage(Put(Put(table, hp, Process(c, Rights)), ht, Thread(c)))
          /\ children' = Put(children, c, [process |-> hp, thread |-> ht])
    /\ alive' = alive \cup {c} /\ debugged' = debugged \cup {c} /\ follows' = follows \cup {c}
    /\ UNCHANGED <<announced, debug_children, pid, process_handle, thread_handle, foreign,
                   records>>

\* Mutant of Released: the thread handle stays open.
ThreadKept(p) == {foreign[q].handle : q \in DOMAIN foreign}
                   \cup (IF p = pid THEN {process_handle} ELSE {})
Released(p)   == {foreign[q].handle : q \in DOMAIN foreign}
                   \cup (IF p = pid THEN {process_handle, thread_handle} ELSE {})

\* detach(): every foreign handle goes; the target's go with the target.
Detach(p) ==
    /\ p \in debugged
    /\ MayClose(Released(p) \cup EventHandles(p))
    /\ debugged' = debugged \ {p} /\ follows' = follows \ {p} /\ announced' = announced \ {p}
    /\ table' = Drop(table, Released(p) \cup EventHandles(p))
    /\ foreign' = Empty
    /\ IF p = pid THEN process_handle' = None /\ thread_handle' = None
                  ELSE UNCHANGED <<process_handle, thread_handle>>
    /\ UNCHANGED <<alive, debug_children, pid, children, records>>

-----------------------------------------------------------------------------
(* Processes opened by pid                                                 *)

\* Mutant of Uncached: a closed handle stays in the cache.
StillCached(p) == foreign
Uncached(p)    == Drop(foreign, {p})

CloseProcess(p) ==
    /\ p \in DOMAIN foreign
    /\ MayClose({foreign[p].handle})
    /\ foreign' = Uncached(p)
    /\ table' = Drop(table, {foreign[p].handle})
    /\ UNCHANGED <<alive, debugged, follows, announced, debug_children, pid, process_handle,
                   thread_handle, children, records>>

\* What open_process() finds to close first: a cached handle opened with
\* another mask.  Mutant: it is forgotten and not closed.
ForgottenOnly(p) == {}
ToReopen(p)      == IF p \in DOMAIN foreign THEN {foreign[p].handle} ELSE {}

\* The mask recorded for a handle opened with "mask" when "asked" was asked
\* for.  Mutant: the default masks are recorded as None.
AsAsked(asked, mask) == asked
AsOpened(asked, mask) == mask

\* What asking for the access "asked" tries: None is read access, and limited
\* read access where that is refused.
Tried(asked) == IF asked # None THEN {asked}
                ELSE {"read"} \cup (IF "access" \in Faults THEN {"limited"} ELSE {})

\* open_process(p, asked) where the cache does not answer.  The old handle is
\* closed even when the process then refuses the new rights.
OpenProcess(p, asked) ==
    /\ p \in DOMAIN foreign => asked # None /\ foreign[p].access # asked
    /\ MayClose(ToReopen(p))
    /\ LET kept == Drop(table, ToReopen(p)) IN
       \/ \E h \in Handles \ DOMAIN kept, mask \in Tried(asked) :
             /\ p \in alive \/ \E g \in DOMAIN kept : kept[g].pid = p
             /\ table' = Put(kept, h, Process(p, Grants[mask]))
             /\ foreign' = Put(foreign, p, [handle |-> h, access |-> AsOpened(asked, mask)])
       \/ /\ p \notin alive \/ "access" \in Faults
          /\ table' = kept /\ foreign' = Uncached(p)
    /\ UNCHANGED <<alive, debugged, follows, announced, debug_children, pid, process_handle,
                   thread_handle, children, records>>

\* _get_read_handle(): a read of process p opens it on demand.
OpenForReading(p) ==
    /\ p # pid /\ p \notin DOMAIN children
    /\ OpenProcess(p, None)

-----------------------------------------------------------------------------
(* What goes through the handles                                           *)

SetBreakpoint(p) ==
    /\ bp_counter < MaxBps
    /\ Tidy /\ p \in DOMAIN children => p \in debugged \cup {pid}
    /\ \E h \in HandleFor(p, {"write"}) \cap DOMAIN table :
          breakpoints' = Put(breakpoints, bp_counter + 1, [handle |-> h, pid |-> p])
    /\ bp_counter' = bp_counter + 1
    /\ UNCHANGED <<windows, session, orphaned>>

RemoveBreakpoint(id) ==
    /\ id \in DOMAIN breakpoints
    /\ breakpoints' = Drop(breakpoints, {id})
    /\ UNCHANGED <<windows, session, bp_counter, orphaned>>

\* terminate_process(): whatever the handle refers to ends.
Terminate(p) ==
    /\ Tidy /\ p \in DOMAIN children => p \in debugged \cup {pid}
    /\ \E h \in HandleFor(p, {"terminate"}) \cap DOMAIN table :
          /\ table[h].pid \in alive
          /\ "terminate" \in table[h].rights
          /\ Ended(table[h].pid)
    /\ UNCHANGED <<session, breakpoints, bp_counter>>

-----------------------------------------------------------------------------

Next ==
    \/ \E p \in Pids : \/ Starts(p) \/ Exits(p)
                       \/ CreateProcess(p) \/ Attach(p) \/ Detach(p) \/ ChildAnnounced(p)
                       \/ CloseProcess(p) \/ OpenForReading(p)
                       \/ SetBreakpoint(p) \/ Terminate(p)
                       \/ \E asked \in Masks \cup {None} : OpenProcess(p, asked)
    \/ \E enabled \in BOOLEAN : SetDebugChildren(enabled)
    \/ TargetAnnounced
    \/ \E id \in Ids : RemoveBreakpoint(id)

Spec == Init /\ [][Next]_vars

-----------------------------------------------------------------------------
(* Properties                                                              *)

Refers(h, p) == h \in DOMAIN table /\ table[h].pid = p /\ table[h].kind = "process"

\* What _get_process_handle() answers is open, is a handle of the process that
\* was asked for and can do what it is needed for; only the children that are
\* no longer debugged are an exception, their handles being Windows' to reuse.
HandlesTrue ==
    \A p \in Pids, need \in SUBSET {"write", "terminate"} :
        (p \in DOMAIN children => p \in debugged \cup {pid})
            => \A h \in HandleFor(p, need) : Refers(h, p) /\ need \subseteq table[h].rights

\* The handle a breakpoint was set through, which every later write of its
\* byte goes through, still refers to the process it was set in, until that
\* process is a debug child that exited.
BreakpointsReached ==
    \A id \in DOMAIN breakpoints \ orphaned :
        Refers(breakpoints[id].handle, breakpoints[id].pid)

\* Repeated sessions leak nothing but the image files: every other open handle
\* is one the session still knows and closes, or Windows does with the child it
\* came with.  The file handle of each CREATE_PROCESS event does stay open.
OnlyImagesLeak ==
    \A h \in DOMAIN table :
        \/ table[h].kind = "file"
        \/ h \in {process_handle, thread_handle}
        \/ \E p \in DOMAIN foreign : foreign[p].handle = h
        \/ \E p \in DOMAIN children \cap debugged : h \in {children[p].process, children[p].thread}

\* A handle opened by pid is never handed out for what it cannot do: a request
\* for reading, which any cached handle answers, gets one that can read.
ReadsAllowed == \A p \in DOMAIN foreign : "read" \in Grants[foreign[p].access]

=============================================================================
