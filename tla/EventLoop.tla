----------------------------- MODULE EventLoop -----------------------------
(***************************************************************************)
(* The debug event loop of core/debugger.py: wait_event() with its table   *)
(* of child processes, run(), and the drain of terminate_process().        *)
(*                                                                         *)
(* Every debuggee, the target and its debug children, posts events and is  *)
(* stopped until its event is continued; the debugger takes them one at a  *)
(* time, in whatever order they come.  What an event says is modelled as   *)
(* far as the loop looks at it; breakpoint hits are the subject of         *)
(* SoftwareBreakpoint.                                                     *)
(***************************************************************************)
EXTENDS Naturals

CONSTANTS
    Target,       \* session.pid
    Children,     \* the debug children the target may have
    NoProc,       \* "no event is held"
    MaxIdle,      \* max_idle_timeouts; 0 is None
    DrainLimit,   \* the most events terminate_process() drains
    MaxEvents,    \* bound: events a process posts between start and exit
    Terminates,   \* when may the client call terminate_process()?  "never",
                  \* while there are no children ("alone"), "any" time
    Faults        \* "arch": the architecture of a child cannot be told

ASSUME ProcAssumption  == Target \notin Children /\ NoProc \notin Children \cup {Target}
ASSUME BoundAssumption == /\ MaxIdle \in Nat /\ MaxEvents \in Nat
                          /\ DrainLimit \in Nat \ {0}
ASSUME ModeAssumption  == Terminates \in {"never", "alone", "any"} /\ Faults \subseteq {"arch"}

Procs  == Children \cup {Target}
Events == {"CREATE_PROCESS", "EXIT_PROCESS", "STEP", "OTHER"}

VARIABLES
    \* the debuggees
    phase,      \* phase[p]: "unborn", "running", "exiting" or "gone"
    posted,     \* posted[p]: the event p waits with, or "none"
    sent,       \* sent[p]: events p has posted
    held,       \* the process whose event was received and not continued
    \* the debugger
    children,   \* child_processes: pid -> "none" or its exit code, "exited"
    stage,      \* "out" of any call, in "wait" or "callback" of run(), in "drain"
    idle,       \* consecutive empty waits
    drained,    \* events terminate_process() has drained
    result,     \* how the last run() ended: "exit", "stopped", "timeout", "error"
    exitOf,     \* whose exit code it returned
    \* history
    quiet,      \* empty waits since the last event was received
    refused     \* children whose registration failed

debuggees == <<phase, posted, sent>>
loop      == <<children, stage, idle, drained, result, exitOf>>
vars      == <<debuggees, held, loop, quiet, refused>>

TypeOK ==
    /\ phase \in [Procs -> {"unborn", "running", "exiting", "gone"}]
    /\ posted \in [Procs -> Events \cup {"none"}]
    /\ sent \in [Procs -> 0..MaxEvents]
    /\ held \in Procs \cup {NoProc}
    /\ DOMAIN children \subseteq Children
    /\ children \in [DOMAIN children -> {"none", "exited"}]
    /\ stage \in {"out", "wait", "callback", "drain"}
    /\ idle \in 0..MaxIdle
    /\ drained \in 0..DrainLimit
    /\ result \in {"none", "exit", "stopped", "timeout", "error"}
    /\ exitOf \in Procs \cup {NoProc}
    /\ quiet \in 0..MaxIdle
    /\ refused \subseteq Children

\* create_process() and attach() both announce the target first.
Init ==
    /\ phase = [p \in Procs |-> IF p = Target THEN "running" ELSE "unborn"]
    /\ posted = [p \in Procs |-> IF p = Target THEN "CREATE_PROCESS" ELSE "none"]
    /\ sent = [p \in Procs |-> 0]
    /\ held = NoProc
    /\ children = [c \in {} |-> "none"]
    /\ stage = "out" /\ idle = 0 /\ drained = 0
    /\ result = "none" /\ exitOf = NoProc
    /\ quiet = 0 /\ refused = {}

-----------------------------------------------------------------------------
(* The debuggees                                                           *)

Running(p) == phase[p] = "running" /\ posted[p] = "none" /\ held # p

\* The parent is stopped while the event of its new child is not continued,
\* or runs on: both happen.  A pid may be used again.
Spawn(parent, c) ==
    /\ Running(parent) /\ phase[c] \in {"unborn", "gone"} /\ sent[c] < MaxEvents
    /\ phase' = [phase EXCEPT ![c] = "running"]
    /\ posted' = [posted EXCEPT ![c] = "CREATE_PROCESS"]
    /\ sent' = [sent EXCEPT ![c] = @ + 1]
    /\ refused' = refused \ {c}
    /\ UNCHANGED <<held, loop, quiet>>

Post(p, event) ==
    /\ Running(p) /\ sent[p] < MaxEvents
    /\ posted' = [posted EXCEPT ![p] = event]
    /\ sent' = [sent EXCEPT ![p] = @ + 1]
    /\ UNCHANGED <<phase, held, loop, quiet, refused>>

Exit(p) ==
    /\ Running(p)
    /\ phase' = [phase EXCEPT ![p] = "exiting"]
    /\ posted' = [posted EXCEPT ![p] = "EXIT_PROCESS"]
    /\ UNCHANGED <<sent, held, loop, quiet, refused>>

-----------------------------------------------------------------------------
(* wait_event()                                                            *)

\* Mutant of Continued: the event is never given back.
StillHeld(p) == UNCHANGED <<held, phase, posted>>

\* ContinueDebugEvent for p: after its last event it is gone, and one that is
\* being terminated goes on to exit.
Continued(p) ==
    /\ held' = NoProc
    /\ IF posted[p] = "EXIT_PROCESS"
       THEN /\ phase' = [phase EXCEPT ![p] = "gone"]
            /\ posted' = [posted EXCEPT ![p] = "none"]
       ELSE /\ posted' = [posted EXCEPT ![p] =
                             IF phase[p] = "exiting" THEN "EXIT_PROCESS" ELSE "none"]
            /\ UNCHANGED phase

Arrives(p) == held = NoProc /\ posted[p] # "none"

\* Mutants of Tracked: the exit of a child is not noted; any process is
\* registered, the target too.
ExitIgnored(p) ==
    IF posted[p] = "CREATE_PROCESS" /\ p # Target
    THEN [c \in DOMAIN children \cup {p} |-> IF c = p THEN "none" ELSE children[c]]
    ELSE children
AllTracked(p) ==
    IF posted[p] = "CREATE_PROCESS"
    THEN [c \in DOMAIN children \cup {p} |-> IF c = p THEN "none" ELSE children[c]]
    ELSE children

\* _register_child() and _unregister_child()
Tracked(p) ==
    IF posted[p] = "CREATE_PROCESS" /\ p # Target
    THEN [c \in DOMAIN children \cup {p} |-> IF c = p THEN "none" ELSE children[c]]
    ELSE IF posted[p] = "EXIT_PROCESS" /\ p \in DOMAIN children
    THEN [children EXCEPT ![p] = "exited"]
    ELSE children

-----------------------------------------------------------------------------
(* run()                                                                   *)

RunBegin ==
    /\ stage = "out" /\ held = NoProc /\ phase[Target] # "gone"
    /\ stage' = "wait" /\ idle' = 0 /\ quiet' = 0
    /\ result' = "none" /\ exitOf' = NoProc
    /\ UNCHANGED <<debuggees, held, children, drained, refused>>

\* Mutant of Reset: the idle count is kept across events.
KeptIdle == idle
Reset    == 0

\* An event the callback gets to see.
Receive(p) ==
    /\ stage = "wait" /\ Arrives(p) /\ posted[p] # "STEP"
    /\ held' = p
    /\ children' = Tracked(p)
    /\ stage' = "callback" /\ idle' = Reset /\ quiet' = 0
    /\ UNCHANGED <<debuggees, drained, result, exitOf, refused>>

\* The internal step of a breakpoint: continued and never delivered.
ReceiveStep(p) ==
    /\ stage = "wait" /\ Arrives(p) /\ posted[p] = "STEP"
    /\ Continued(p)
    /\ idle' = Reset /\ quiet' = 0
    /\ UNCHANGED <<sent, children, stage, drained, result, exitOf, refused>>

\* _detect_target_arch() raises ProcessError out of wait_event(): the child
\* is not registered and its event is held by nobody who knows of it.
RegisterFails(p) ==
    /\ stage = "wait" /\ Arrives(p) /\ "arch" \in Faults
    /\ posted[p] = "CREATE_PROCESS" /\ p # Target
    /\ held' = p
    /\ stage' = "out" /\ result' = "error"
    /\ refused' = refused \cup {p}
    /\ UNCHANGED <<debuggees, children, idle, drained, exitOf, quiet>>

\* wait_event() returns None: nothing was posted in time.
EmptyWait ==
    /\ stage = "wait" /\ held = NoProc /\ MaxIdle > 0
    /\ \A p \in Procs : posted[p] = "none"
    /\ idle' = idle + 1 /\ quiet' = quiet + 1
    /\ IF idle' >= MaxIdle THEN stage' = "out" /\ result' = "timeout"
                           ELSE UNCHANGED <<stage, result>>
    /\ UNCHANGED <<debuggees, held, children, drained, exitOf, refused>>

\* The callback returned False: the event stays with the client.
CallbackStops ==
    /\ stage = "callback"
    /\ stage' = "out" /\ result' = "stopped"
    /\ UNCHANGED <<debuggees, held, children, idle, drained, exitOf, quiet, refused>>

Ends(p) == posted[p] = "EXIT_PROCESS"

\* The callback returned None: continue, and after EXIT_PROCESS the loop is
\* over.
CallbackReturns ==
    /\ stage = "callback"
    /\ Continued(held)
    /\ IF Ends(held) THEN stage' = "out" /\ result' = "exit" /\ exitOf' = held
                     ELSE stage' = "wait" /\ UNCHANGED <<result, exitOf>>
    /\ UNCHANGED <<sent, children, idle, drained, quiet, refused>>

-----------------------------------------------------------------------------
(* The client                                                              *)

\* continue_event() for the event held
ContinueEvent ==
    /\ stage = "out" /\ held # NoProc
    /\ Continued(held)
    /\ UNCHANGED <<sent, loop, quiet, refused>>

MayTerminate == \/ Terminates = "any"
                \/ Terminates = "alone" /\ \A c \in Children : phase[c] \in {"unborn", "gone"}

\* terminate_process(): the target exits as soon as no event holds it.
Terminate ==
    /\ MayTerminate /\ stage = "out" /\ phase[Target] = "running"
    /\ phase' = [phase EXCEPT ![Target] = "exiting"]
    /\ posted' = [posted EXCEPT ![Target] = IF @ = "none" THEN "EXIT_PROCESS" ELSE @]
    /\ stage' = "drain" /\ drained' = 0
    /\ UNCHANGED <<sent, held, children, idle, result, exitOf, quiet, refused>>

\* Mutant of DrainEnds: any event ends the drain.
OneIsEnough(p) == TRUE
DrainEnds(p)   == posted[p] = "EXIT_PROCESS" \/ drained' = DrainLimit

\* One event of the drain: continued, not looked at, and the last one if some
\* process exited.
Drain(p) ==
    /\ stage = "drain" /\ Arrives(p)
    /\ Continued(p)
    /\ drained' = drained + 1
    /\ IF DrainEnds(p) THEN stage' = "out" ELSE UNCHANGED stage
    /\ UNCHANGED <<sent, children, idle, result, exitOf, quiet, refused>>

\* Nothing comes within two seconds: the event the client holds is in the way.
DrainGivesUp ==
    /\ stage = "drain" /\ (held # NoProc \/ \A p \in Procs : posted[p] = "none")
    /\ stage' = "out"
    /\ UNCHANGED <<debuggees, held, children, idle, drained, result, exitOf, quiet, refused>>

-----------------------------------------------------------------------------

DebuggeeStep == \E p \in Procs : \/ \E c \in Children : Spawn(p, c)
                                 \/ \E event \in {"STEP", "OTHER"} : Post(p, event)
                                 \/ Exit(p)
RunStep      == \/ RunBegin \/ EmptyWait \/ CallbackStops \/ CallbackReturns
                \/ \E p \in Procs : Receive(p) \/ ReceiveStep(p) \/ RegisterFails(p)
ClientStep   == \/ ContinueEvent \/ Terminate \/ DrainGivesUp
                \/ \E p \in Procs : Drain(p)

Next == DebuggeeStep \/ RunStep \/ ClientStep

Spec == Init /\ [][Next]_vars

\* Waits end, with an event or without, and the callback returns.  Nothing
\* is assumed of the debuggees.
Fairness ==
    /\ WF_vars(EmptyWait)
    /\ WF_vars(\E p \in Procs : Receive(p) \/ ReceiveStep(p))
    /\ WF_vars(CallbackReturns)

FairSpec == Spec /\ Fairness

-----------------------------------------------------------------------------
(* Properties                                                              *)

\* A child is listed without an exit code from its CREATE_PROCESS event on,
\* and with one after its EXIT_PROCESS event; a child whose registration failed
\* is the exception.
ChildTableTrue ==
    \A c \in Children \ refused :
        /\ phase[c] = "running" /\ posted[c] # "CREATE_PROCESS" =>
              c \in DOMAIN children /\ children[c] = "none"
        /\ phase[c] = "gone" => c \in DOMAIN children /\ children[c] = "exited"

\* "Runs until process exits": run() returns an exit code only when the target
\* has exited, and it is the target's.
ReturnsTargetExit == result = "exit" => exitOf = Target /\ phase[Target] = "gone"

\* TimeoutError is raised after max_idle_timeouts waits in a row without any
\* event between them.
TimeoutMeansQuiet == result = "timeout" => quiet = MaxIdle

\* terminate_process() leaves no exit event of the target behind, unless the
\* client still held an event.
DrainedToTheEnd ==
    [][stage = "drain" /\ stage' = "out" =>
         phase'[Target] = "gone" \/ held # NoProc \/ drained' = DrainLimit]_vars

\* With max_idle_timeouts run() comes to an end: a target that stops posting
\* events, without exiting, does not keep it waiting for ever.
RunEnds == stage = "wait" ~> stage = "out"

=============================================================================
