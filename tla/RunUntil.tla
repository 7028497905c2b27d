------------------------------ MODULE RunUntil ------------------------------
(***************************************************************************)
(* Debugger.run_until(Goal) of core/debugger.py on top of the breakpoint   *)
(* manager: a temporary INT3, an event loop of its own with a time budget, *)
(* and a finally that takes the INT3 out again.                            *)
(*                                                                         *)
(* Outside a call the client drives the target as in SoftwareBreakpoint;   *)
(* while a call runs only its loop handles events.  Time is abstract: the  *)
(* budget may elapse whenever the loop looks at the clock.                 *)
(***************************************************************************)
EXTENDS SoftwareBreakpoint

CONSTANTS
    Target,       \* session.pid, whose handle set_breakpoint() uses
    MainThread,   \* session.tid, the thread continue_event() defaults to
    Goal,         \* the address
    HwAddrs,      \* addresses the client holds hardware breakpoints on
    MaxIdle,      \* max_idle_timeouts; 0 is None
    MaxCalls      \* bound: calls of run_until()

ASSUME GoalAssumption == /\ Target \in Procs /\ MainThread \in Threads
                         /\ Goal \in Addrs /\ HwAddrs \subseteq Addrs
ASSUME CallAssumption == MaxIdle \in Nat /\ MaxCalls \in Nat

VARIABLES
    stage,      \* where the call is: "out" of it, at the loop's "head", about
                \* to "resume" the target, or "leaving" through the finally
    own_bp,     \* the temporary breakpoint, 0 when the caller's is used
    idle,       \* consecutive empty waits
    result,     \* how the last call ended: "reached", "unreached", "error"
    calls,      \* calls made
    rf,         \* rf[t]: t reported a hardware breakpoint where it stands
    \* history
    before,     \* the breakpoints that existed when the call began
    came        \* how threads came to Goal during the call: "trapped" on the
                \* breakpoint there, "slipped" through while another thread's
                \* step kept it out, or "unseen", with no such step scheduled

call  == <<stage, own_bp, idle, result, calls, before>>
uvars == <<vars, call, rf, came>>

UTypeOK ==
    /\ TypeOK
    /\ stage \in {"out", "head", "resume", "leaving"}
    /\ own_bp \in 0..MaxBps
    /\ idle \in 0..MaxIdle
    /\ result \in {"none", "reached", "unreached", "error"}
    /\ calls \in 0..MaxCalls
    /\ rf \in [Threads -> BOOLEAN]
    /\ before \subseteq Ids
    /\ came \subseteq {"trapped", "slipped", "unseen"}

UInit ==
    /\ Init
    /\ stage = "out" /\ own_bp = 0 /\ idle = 0 /\ result = "none" /\ calls = 0
    /\ before = {} /\ came = {}
    /\ rf = [t \in Threads |-> FALSE]

-----------------------------------------------------------------------------
(* The target, with debug registers                                        *)

Waiting == stage \in {"head", "resume"}

\* A thread at Goal reports an exception now.
TrapsCounted ==
    came' = IF Waiting /\ \E t \in Threads : loc[t] = Goal /\ exc'[t] # exc[t]
              THEN came \cup {"trapped"} ELSE came

\* A hardware execution breakpoint reports a single step before the
\* instruction; the next attempt to execute it passes.
HwTrap(t) ==
    /\ Runnable(t) /\ ~past[t] /\ loc[t] \in HwAddrs /\ ~rf[t]
    /\ exc' = [exc EXCEPT ![t] = "ss"]
    /\ rf' = [rf EXCEPT ![t] = TRUE]
    /\ TrapsCounted
    /\ UNCHANGED <<code, own, loc, past, tf, alive, event, records, raised, reached,
                   overwritten, call>>

\* The threads that were reported at Goal and are to step over it: they do not
\* come, they leave, and until they have left Goal is unguarded.
Leaving == {t \in DOMAIN pending_single_step : pending_single_step[t].addr = Goal}

UExecute(t) ==
    /\ Execute(t)
    /\ loc[t] \in HwAddrs /\ ~past[t] => rf[t]
    /\ rf' = [rf EXCEPT ![t] = FALSE]
    /\ came' = IF Waiting /\ loc[t] = Goal /\ ~past[t] /\ ~rf[t] /\ t \notin Leaving
                 THEN came \cup {IF Leaving = {} THEN "unseen" ELSE "slipped"}
                 ELSE came
    /\ UNCHANGED call

\* A thread that exits takes its resume flag with it.
UTarget == \/ \E t \in Threads : HwTrap(t) \/ UExecute(t)
           \/ /\ \/ \E t \in Threads : Trap(t) \/ ExitThread(t) \/ StartThread(t)
                 \/ \E p \in Procs, a \in Addrs : Overwrite(p, a)
              /\ TrapsCounted
              /\ rf' = [t \in Threads |-> rf[t] /\ alive'[t]]
              /\ UNCHANGED call

-----------------------------------------------------------------------------
(* The client between two calls                                            *)

\* continue_event() without arguments: ContinueDebugEvent with the session's
\* default thread.  When another thread's event is held the call fails and
\* the failure is swallowed.
ContinueDefault ==
    /\ stage = "out" /\ event # NoThread
    /\ IF event = MainThread THEN Continue ELSE UNCHANGED vars
    /\ UNCHANGED <<call, rf, came>>

UClient ==
    \/ /\ stage = "out"
       /\ LoopStep \/ ClientStep
       /\ UNCHANGED <<call, rf, came>>
    \/ ContinueDefault

-----------------------------------------------------------------------------
(* The call                                                                *)

\* find_breakpoint(Goal) is not None
Known == Candidates(Goal) # {} \/ Goal \in HwAddrs

\* Entry: the caller's breakpoint is reused, or a temporary one set.  A set
\* that fails raises before the try: nothing is cleaned up.
Begin ==
    /\ stage = "out" /\ event = NoThread /\ ~raised /\ calls < MaxCalls
    /\ calls' = calls + 1
    /\ idle' = 0 /\ came' = {}
    /\ before' = DOMAIN breakpoints
    /\ \/ /\ Known /\ UNCHANGED vars
          /\ own_bp' = 0 /\ stage' = "head" /\ result' = "none"
       \/ /\ ~Known /\ Set(Target, Goal)
          /\ own_bp' = bp_counter' /\ stage' = "head" /\ result' = "none"
       \/ /\ ~Known /\ SetFails(Target, Goal)
          /\ own_bp' = 0 /\ stage' = "out" /\ result' = "error"
    /\ UNCHANGED rf

Leave(how) == /\ stage' = "leaving" /\ result' = how
              /\ UNCHANGED <<own_bp, calls, before, rf, came>>

\* The budget is spent when the loop looks at the clock.
Expire == /\ stage = "head" /\ ~raised
          /\ Leave("unreached")
          /\ UNCHANGED <<vars, idle>>

\* A wait returns nothing: no event was waiting.
EmptyWait ==
    /\ stage = "head" /\ event = NoThread /\ ~raised /\ MaxIdle > 0
    /\ \A t \in Threads : alive[t] => exc[t] = "none"
    /\ idle' = idle + 1
    /\ IF idle' >= MaxIdle THEN Leave("unreached")
       ELSE UNCHANGED <<stage, result, own_bp, calls, before, rf, came>>
    /\ UNCHANGED vars

\* Mutant of AtGoal: any breakpoint ends the call.
AnyHit(t) == TRUE
AtGoal(t) == loc[t] = Goal

\* A hit of one of our breakpoints: at Goal the call is over, elsewhere the
\* target is continued.
UntilHit(t, id) ==
    /\ stage = "head" /\ HitBreakpoint(t, id)
    /\ idle' = 0
    /\ \/ AtGoal(t) /\ Leave("reached")
       \/ /\ ~AtGoal(t) /\ stage' = "resume"
          /\ UNCHANGED <<own_bp, result, calls, before, rf, came>>

\* A hit that could not be completed: BreakpointError.
UntilFails(t, id) ==
    /\ stage = "head"
    /\ HitRestoreFails(t, id) \/ HitDegraded(t, id)
    /\ idle' = 0
    /\ Leave("error")

\* The internal single step: re-armed and continued, or BreakpointError.
UntilRearm(t) ==
    /\ stage = "head" /\ Rearm(t)
    /\ idle' = 0
    /\ IF raised' THEN Leave("error")
       ELSE UNCHANGED <<stage, result, own_bp, calls, before, rf, came>>

\* Every other event is continued, whatever it says.
UntilForeign(t) ==
    /\ stage = "head"
    /\ ForeignBreakpoint(t) \/ ForeignStep(t)
    /\ idle' = 0 /\ stage' = "resume"
    /\ UNCHANGED <<own_bp, result, calls, before, rf, came>>

UntilContinue ==
    /\ stage = "resume" /\ Continue
    /\ stage' = "head"
    /\ UNCHANGED <<own_bp, idle, result, calls, before, rf, came>>

\* Mutant of Temporary: the breakpoint at Goal goes, whoever set it.
WhoeverSetIt == Candidates(Goal)
Temporary    == IF own_bp = 0 THEN {} ELSE {own_bp}

\* The finally: the temporary breakpoint is removed, and a BreakpointError
\* from that is dropped.
Cleanup ==
    /\ stage = "leaving"
    /\ \/ Temporary \cap DOMAIN breakpoints = {} /\ UNCHANGED vars
       \/ \E id \in Temporary \cap DOMAIN breakpoints :
             /\ Forget({id})
             /\ \E outcome \in Outcomes("remove") : code' = Restored(id, outcome)
    /\ stage' = "out"
    /\ UNCHANGED <<own_bp, idle, result, calls, before, rf, came>>

UntilStep == \/ Begin \/ Expire \/ EmptyWait \/ UntilContinue \/ Cleanup
             \/ \E t \in Threads : \/ \E id \in Ids : UntilHit(t, id) \/ UntilFails(t, id)
                                   \/ UntilRearm(t) \/ UntilForeign(t)

UNext == UTarget \/ UClient \/ UntilStep

USpec == UInit /\ [][UNext]_uvars

-----------------------------------------------------------------------------
(* Properties                                                              *)

\* "On success the target is left PAUSED at addr, with the original
\* instruction in place": the thread whose event is held stands on Goal and
\* the byte the breakpoint there displaced is back.
PausedAtGoal ==
    [][stage = "leaving" /\ stage' = "out" /\ result = "reached" =>
         /\ event' # NoThread /\ loc'[event'] = Goal /\ ~past'[event']
         /\ At(Home[event], Goal) # {}
         /\ \A id \in At(Home[event], Goal) :
               code'[Home[event]][Goal] = breakpoints[id].original]_uvars

\* The temporary breakpoint is removed on the way out and nothing else is.
LeavesBreakpointsAlone ==
    [][stage = "leaving" /\ stage' = "out" => DOMAIN breakpoints' = before]_uvars

\* The report of a thread that came to Goal still waits in the queue.
Overdue(t) == \/ Queued(t, Home[t], Goal)
              \/ exc[t] = "ss" /\ rf[t] /\ loc[t] = Goal /\ event # t

\* "Answers 'did the target get there?' with a definite yes or no": when the
\* call gives up no thread has executed Goal unseen, and one that trapped on it
\* meanwhile lost a race: its report still waits in the queue.  After MaxIdle
\* empty waits the queue is empty, so nobody trapped at all; only the budget can
\* run out over a waiting report.  A thread may have slipped through while
\* another one was still stepping off Goal from before the call.
UnreachedIsTrue ==
    [][stage = "head" /\ stage' = "leaving" /\ result' = "unreached" =>
         /\ "unseen" \notin came
         /\ "trapped" \in came => \E t \in Threads : Overdue(t)]_uvars

=============================================================================
