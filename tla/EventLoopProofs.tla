-------------------------- MODULE EventLoopProofs --------------------------
(***************************************************************************)
(* That the event loop never waits for an event it holds itself, counts    *)
(* its empty waits, keeps a true table of the children and drains the exit *)
(* of the target, for any number of children, events and idle waits.  The  *)
(* theorems about the children need a client that terminates the target    *)
(* only while it has none: the drain does not look at the events of        *)
(* others.                                                                 *)
(***************************************************************************)
EXTENDS EventLoop, TLAPS

(* A held event is one that was posted; a process has an event exactly as  *)
(* its phase allows.                                                       *)
HeldIsPosted == held # NoProc => posted[held] # "none"
PhaseTrue(p) ==
  /\ posted[p] = "EXIT_PROCESS" => phase[p] = "exiting"
  /\ phase[p] \in {"unborn", "gone"} => posted[p] = "none"
  /\ phase[p] = "exiting" => posted[p] # "none"
  /\ phase[p] = "exiting" /\ p # Target => posted[p] = "EXIT_PROCESS"

(* Where run() stands tells who holds the event and how long it was quiet. *)
StageTrue ==
  /\ stage = "wait" => held = NoProc
  /\ stage = "callback" => held # NoProc
  /\ stage \in {"wait", "callback"} =>
        idle = quiet /\ result # "timeout" /\ (MaxIdle > 0 => idle < MaxIdle)
  /\ result = "timeout" => quiet = MaxIdle
  /\ stage = "drain" => drained < DrainLimit

LoopInv == TypeOK /\ HeldIsPosted /\ StageTrue /\ \A p \in Procs : PhaseTrue(p)

(* The table, with the event that is being handled.                        *)
ChildTrue(c) ==
  /\ phase[c] = "running" /\ (posted[c] # "CREATE_PROCESS" \/ held = c) =>
        c \in DOMAIN children /\ children[c] = "none"
  /\ phase[c] = "exiting" => c \in DOMAIN children /\ (held = c => children[c] = "exited")
  /\ phase[c] = "gone" => c \in DOMAIN children /\ children[c] = "exited"

DrainTrue ==
  stage = "drain" => /\ phase[Target] \in {"exiting", "gone"}
                     /\ \A c \in Children : phase[c] \in {"unborn", "gone"}

TableInv == DrainTrue /\ \A c \in Children \ refused : ChildTrue(c)

IInv == LoopInv /\ TableInv

-----------------------------------------------------------------------------
(* Giving an event back and looking at it.                                 *)

LEMMA ContinuedKeeps ==
  ASSUME LoopInv, NEW p \in Procs, posted[p] # "none", Continued(p)
  PROVE  /\ held' = NoProc
         /\ phase' \in [Procs -> {"unborn", "running", "exiting", "gone"}]
         /\ posted' \in [Procs -> Events \cup {"none"}]
         /\ \A q \in Procs : PhaseTrue(q)'
         /\ \A q \in Procs \ {p} : phase'[q] = phase[q] /\ posted'[q] = posted[q]
         /\ phase'[p] = IF posted[p] = "EXIT_PROCESS" THEN "gone" ELSE phase[p]
         /\ posted'[p] = IF posted[p] # "EXIT_PROCESS" /\ phase[p] = "exiting"
                         THEN "EXIT_PROCESS" ELSE "none"
<1>1. /\ phase \in [Procs -> {"unborn", "running", "exiting", "gone"}]
      /\ posted \in [Procs -> Events \cup {"none"}]
  BY DEF LoopInv, TypeOK
<1>2. PhaseTrue(p) /\ \A q \in Procs : PhaseTrue(q)
  BY DEF LoopInv
<1>3. CASE posted[p] = "EXIT_PROCESS"
  BY <1>1, <1>2, <1>3 DEF Continued, PhaseTrue, Events
<1>4. CASE posted[p] # "EXIT_PROCESS"
  BY <1>1, <1>2, <1>4 DEF Continued, PhaseTrue, Events
<1> QED BY <1>3, <1>4

LEMMA TrackedTyped ==
  ASSUME TypeOK, NEW p \in Procs
  PROVE  /\ DOMAIN Tracked(p) \subseteq Children
         /\ Tracked(p) \in [DOMAIN Tracked(p) -> {"none", "exited"}]
<1>1. DOMAIN children \subseteq Children /\ children \in [DOMAIN children -> {"none", "exited"}]
  BY DEF TypeOK
<1>2. CASE posted[p] = "CREATE_PROCESS" /\ p # Target
  BY <1>1, <1>2 DEF Tracked, Procs
<1>3. CASE posted[p] = "EXIT_PROCESS" /\ p \in DOMAIN children
  BY <1>1, <1>3 DEF Tracked
<1>4. CASE ~ (posted[p] = "CREATE_PROCESS" /\ p # Target)
           /\ ~ (posted[p] = "EXIT_PROCESS" /\ p \in DOMAIN children)
  BY <1>1, <1>4 DEF Tracked
<1> QED BY <1>2, <1>3, <1>4

-----------------------------------------------------------------------------
(* The loop and its counters.                                              *)

LEMMA LoopInit == Init => LoopInv
<1> SUFFICES ASSUME Init PROVE LoopInv
  OBVIOUS
<1>1. TypeOK
  BY ProcAssumption, BoundAssumption DEF Init, TypeOK, Procs, Events
<1>2. HeldIsPosted /\ StageTrue
  BY DEF Init, HeldIsPosted, StageTrue
<1>3. \A p \in Procs : PhaseTrue(p)
  BY DEF Init, PhaseTrue
<1> QED BY <1>1, <1>2, <1>3 DEF LoopInv

LEMMA SpawnKeepsLoop ==
  ASSUME LoopInv, NEW parent \in Procs, NEW c \in Children, Spawn(parent, c)
  PROVE  LoopInv'
<1>1. TypeOK /\ HeldIsPosted /\ StageTrue /\ \A q \in Procs : PhaseTrue(q)
  BY DEF LoopInv
<1>2. TypeOK'
  BY <1>1, ProcAssumption, BoundAssumption DEF Spawn, Running, loop, TypeOK, StageTrue,
     Procs, Events
<1>3. HeldIsPosted'
  BY <1>1, ProcAssumption DEF Spawn, Running, loop, TypeOK, HeldIsPosted, Procs
<1>4. StageTrue'
  BY <1>1, ProcAssumption, BoundAssumption DEF Spawn, Running, loop, TypeOK, StageTrue, Procs
<1>5. \A q \in Procs : PhaseTrue(q)'
  BY <1>1, ProcAssumption DEF Spawn, Running, loop, TypeOK, PhaseTrue, Procs
<1> QED BY <1>2, <1>3, <1>4, <1>5 DEF LoopInv

LEMMA PostKeepsLoop ==
  ASSUME LoopInv, NEW p \in Procs, NEW event \in {"STEP", "OTHER"}, Post(p, event)
  PROVE  LoopInv'
<1>1. TypeOK /\ HeldIsPosted /\ StageTrue /\ \A q \in Procs : PhaseTrue(q)
  BY DEF LoopInv
<1>2. TypeOK'
  BY <1>1, ProcAssumption, BoundAssumption DEF Post, Running, loop, TypeOK, StageTrue,
     Procs, Events
<1>3. HeldIsPosted'
  BY <1>1, ProcAssumption DEF Post, Running, loop, TypeOK, HeldIsPosted, Procs
<1>4. StageTrue'
  BY <1>1, ProcAssumption, BoundAssumption DEF Post, Running, loop, TypeOK, StageTrue, Procs
<1>5. \A q \in Procs : PhaseTrue(q)'
  BY <1>1, ProcAssumption DEF Post, Running, loop, TypeOK, PhaseTrue, Procs
<1> QED BY <1>2, <1>3, <1>4, <1>5 DEF LoopInv

LEMMA ExitKeepsLoop ==
  ASSUME LoopInv, NEW p \in Procs, Exit(p)
  PROVE  LoopInv'
<1>1. TypeOK /\ HeldIsPosted /\ StageTrue /\ \A q \in Procs : PhaseTrue(q)
  BY DEF LoopInv
<1>2. TypeOK'
  BY <1>1, ProcAssumption, BoundAssumption DEF Exit, Running, loop, TypeOK, StageTrue,
     Procs, Events
<1>3. HeldIsPosted'
  BY <1>1, ProcAssumption DEF Exit, Running, loop, TypeOK, HeldIsPosted, Procs
<1>4. StageTrue'
  BY <1>1, ProcAssumption, BoundAssumption DEF Exit, Running, loop, TypeOK, StageTrue, Procs
<1>5. \A q \in Procs : PhaseTrue(q)'
  BY <1>1, ProcAssumption DEF Exit, Running, loop, TypeOK, PhaseTrue, Procs
<1> QED BY <1>2, <1>3, <1>4, <1>5 DEF LoopInv

LEMMA RunBeginKeepsLoop ==
  ASSUME LoopInv, RunBegin
  PROVE  LoopInv'
<1>1. TypeOK /\ HeldIsPosted /\ StageTrue /\ \A q \in Procs : PhaseTrue(q)
  BY DEF LoopInv
<1>2. TypeOK'
  BY <1>1, ProcAssumption, BoundAssumption DEF RunBegin, debuggees, TypeOK, StageTrue,
     Procs, Events
<1>3. HeldIsPosted'
  BY <1>1, ProcAssumption DEF RunBegin, debuggees, TypeOK, HeldIsPosted, Procs
<1>4. StageTrue'
  BY <1>1, ProcAssumption, BoundAssumption DEF RunBegin, debuggees, TypeOK, StageTrue, Procs
<1>5. \A q \in Procs : PhaseTrue(q)'
  BY <1>1, ProcAssumption DEF RunBegin, debuggees, TypeOK, PhaseTrue, Procs
<1> QED BY <1>2, <1>3, <1>4, <1>5 DEF LoopInv

LEMMA EmptyWaitKeepsLoop ==
  ASSUME LoopInv, EmptyWait
  PROVE  LoopInv'
<1>1. TypeOK /\ HeldIsPosted /\ StageTrue /\ \A q \in Procs : PhaseTrue(q)
  BY DEF LoopInv
<1>2. TypeOK'
  BY <1>1, ProcAssumption, BoundAssumption DEF EmptyWait, debuggees, TypeOK, StageTrue,
     Procs, Events
<1>3. HeldIsPosted'
  BY <1>1, ProcAssumption DEF EmptyWait, debuggees, TypeOK, HeldIsPosted, Procs
<1>4. StageTrue'
  BY <1>1, ProcAssumption, BoundAssumption DEF EmptyWait, debuggees, TypeOK, StageTrue, Procs
<1>5. \A q \in Procs : PhaseTrue(q)'
  BY <1>1, ProcAssumption DEF EmptyWait, debuggees, TypeOK, PhaseTrue, Procs
<1> QED BY <1>2, <1>3, <1>4, <1>5 DEF LoopInv

LEMMA CallbackStopsKeepsLoop ==
  ASSUME LoopInv, CallbackStops
  PROVE  LoopInv'
<1>1. TypeOK /\ HeldIsPosted /\ StageTrue /\ \A q \in Procs : PhaseTrue(q)
  BY DEF LoopInv
<1>2. TypeOK'
  BY <1>1, ProcAssumption, BoundAssumption DEF CallbackStops, debuggees, TypeOK, StageTrue,
     Procs, Events
<1>3. HeldIsPosted'
  BY <1>1, ProcAssumption DEF CallbackStops, debuggees, TypeOK, HeldIsPosted, Procs
<1>4. StageTrue'
  BY <1>1, ProcAssumption, BoundAssumption DEF CallbackStops, debuggees, TypeOK, StageTrue,
     Procs
<1>5. \A q \in Procs : PhaseTrue(q)'
  BY <1>1, ProcAssumption DEF CallbackStops, debuggees, TypeOK, PhaseTrue, Procs
<1> QED BY <1>2, <1>3, <1>4, <1>5 DEF LoopInv

LEMMA CallbackReturnsKeepsLoop ==
  ASSUME LoopInv, CallbackReturns
  PROVE  LoopInv'
<1>1. TypeOK /\ HeldIsPosted /\ StageTrue /\ \A q \in Procs : PhaseTrue(q)
  BY DEF LoopInv
<1>a. held \in Procs /\ posted[held] # "none"
  BY <1>1, ProcAssumption DEF CallbackReturns, TypeOK, HeldIsPosted, StageTrue
<1>b. Continued(held)
  BY DEF CallbackReturns
<1>c. /\ held' = NoProc
      /\ phase' \in [Procs -> {"unborn", "running", "exiting", "gone"}]
      /\ posted' \in [Procs -> Events \cup {"none"}]
      /\ \A q \in Procs : PhaseTrue(q)'
  BY <1>a, <1>b, ContinuedKeeps
<1>2. TypeOK'
  BY <1>1, <1>c, ProcAssumption, BoundAssumption DEF CallbackReturns, Ends, TypeOK, StageTrue
<1>3. HeldIsPosted'
  BY <1>c DEF HeldIsPosted
<1>4. StageTrue'
  BY <1>1, <1>c, ProcAssumption, BoundAssumption DEF CallbackReturns, Ends, TypeOK, StageTrue
<1>5. \A q \in Procs : PhaseTrue(q)'
  BY <1>c
<1> QED BY <1>2, <1>3, <1>4, <1>5 DEF LoopInv

LEMMA ReceiveKeepsLoop ==
  ASSUME LoopInv, NEW p \in Procs, Receive(p)
  PROVE  LoopInv'
<1>1. TypeOK /\ HeldIsPosted /\ StageTrue /\ \A q \in Procs : PhaseTrue(q)
  BY DEF LoopInv
<1>2. TypeOK'
  BY <1>1, TrackedTyped, ProcAssumption, BoundAssumption DEF Receive, Arrives, Reset,
     debuggees, TypeOK, StageTrue, Procs, Events
<1>3. HeldIsPosted'
  BY <1>1, ProcAssumption DEF Receive, Arrives, Reset, debuggees, TypeOK, HeldIsPosted, Procs
<1>4. StageTrue'
  BY <1>1, ProcAssumption, BoundAssumption DEF Receive, Arrives, Reset, debuggees, TypeOK,
     StageTrue, Procs
<1>5. \A q \in Procs : PhaseTrue(q)'
  BY <1>1, ProcAssumption DEF Receive, Arrives, Reset, debuggees, TypeOK, PhaseTrue, Procs
<1> QED BY <1>2, <1>3, <1>4, <1>5 DEF LoopInv

LEMMA ReceiveStepKeepsLoop ==
  ASSUME LoopInv, NEW p \in Procs, ReceiveStep(p)
  PROVE  LoopInv'
<1>1. TypeOK /\ HeldIsPosted /\ StageTrue /\ \A q \in Procs : PhaseTrue(q)
  BY DEF LoopInv
<1>b. posted[p] # "none" /\ Continued(p)
  BY DEF ReceiveStep, Arrives
<1>c. /\ held' = NoProc
      /\ phase' \in [Procs -> {"unborn", "running", "exiting", "gone"}]
      /\ posted' \in [Procs -> Events \cup {"none"}]
      /\ \A q \in Procs : PhaseTrue(q)'
  BY <1>b, ContinuedKeeps
<1>2. TypeOK'
  BY <1>1, <1>c, ProcAssumption, BoundAssumption DEF ReceiveStep, Arrives, Reset, TypeOK,
     StageTrue
<1>3. HeldIsPosted'
  BY <1>c DEF HeldIsPosted
<1>4. StageTrue'
  BY <1>1, <1>c, ProcAssumption, BoundAssumption DEF ReceiveStep, Arrives, Reset, TypeOK,
     StageTrue
<1>5. \A q \in Procs : PhaseTrue(q)'
  BY <1>c
<1> QED BY <1>2, <1>3, <1>4, <1>5 DEF LoopInv

LEMMA RegisterFailsKeepsLoop ==
  ASSUME LoopInv, NEW p \in Procs, RegisterFails(p)
  PROVE  LoopInv'
<1>1. TypeOK /\ HeldIsPosted /\ StageTrue /\ \A q \in Procs : PhaseTrue(q)
  BY DEF LoopInv
<1>2. TypeOK'
  BY <1>1, ProcAssumption, BoundAssumption DEF RegisterFails, Arrives, debuggees, TypeOK,
     StageTrue, Procs, Events
<1>3. HeldIsPosted'
  BY <1>1, ProcAssumption DEF RegisterFails, Arrives, debuggees, TypeOK, HeldIsPosted, Procs
<1>4. StageTrue'
  BY <1>1, ProcAssumption, BoundAssumption DEF RegisterFails, Arrives, debuggees, TypeOK,
     StageTrue, Procs
<1>5. \A q \in Procs : PhaseTrue(q)'
  BY <1>1, ProcAssumption DEF RegisterFails, Arrives, debuggees, TypeOK, PhaseTrue, Procs
<1> QED BY <1>2, <1>3, <1>4, <1>5 DEF LoopInv

LEMMA ContinueEventKeepsLoop ==
  ASSUME LoopInv, ContinueEvent
  PROVE  LoopInv'
<1>1. TypeOK /\ HeldIsPosted /\ StageTrue /\ \A q \in Procs : PhaseTrue(q)
  BY DEF LoopInv
<1>a. held \in Procs /\ posted[held] # "none"
  BY <1>1, ProcAssumption DEF ContinueEvent, TypeOK, HeldIsPosted, StageTrue
<1>b. Continued(held)
  BY DEF ContinueEvent
<1>c. /\ held' = NoProc
      /\ phase' \in [Procs -> {"unborn", "running", "exiting", "gone"}]
      /\ posted' \in [Procs -> Events \cup {"none"}]
      /\ \A q \in Procs : PhaseTrue(q)'
  BY <1>a, <1>b, ContinuedKeeps
<1>2. TypeOK'
  BY <1>1, <1>c, ProcAssumption, BoundAssumption DEF ContinueEvent, loop, TypeOK, StageTrue
<1>3. HeldIsPosted'
  BY <1>c DEF HeldIsPosted
<1>4. StageTrue'
  BY <1>1, <1>c, ProcAssumption, BoundAssumption DEF ContinueEvent, loop, TypeOK, StageTrue
<1>5. \A q \in Procs : PhaseTrue(q)'
  BY <1>c
<1> QED BY <1>2, <1>3, <1>4, <1>5 DEF LoopInv

LEMMA TerminateKeepsLoop ==
  ASSUME LoopInv, Terminate
  PROVE  LoopInv'
<1>1. TypeOK /\ HeldIsPosted /\ StageTrue /\ \A q \in Procs : PhaseTrue(q)
  BY DEF LoopInv
<1>2. TypeOK'
  BY <1>1, ProcAssumption, BoundAssumption DEF Terminate, TypeOK, StageTrue, Procs, Events
<1>3. HeldIsPosted'
  BY <1>1, ProcAssumption DEF Terminate, TypeOK, HeldIsPosted, Procs
<1>4. StageTrue'
  BY <1>1, ProcAssumption, BoundAssumption DEF Terminate, TypeOK, StageTrue, Procs
<1>5. \A q \in Procs : PhaseTrue(q)'
  BY <1>1, ProcAssumption DEF Terminate, TypeOK, PhaseTrue, Procs
<1> QED BY <1>2, <1>3, <1>4, <1>5 DEF LoopInv

LEMMA DrainGivesUpKeepsLoop ==
  ASSUME LoopInv, DrainGivesUp
  PROVE  LoopInv'
<1>1. TypeOK /\ HeldIsPosted /\ StageTrue /\ \A q \in Procs : PhaseTrue(q)
  BY DEF LoopInv
<1>2. TypeOK'
  BY <1>1, ProcAssumption, BoundAssumption DEF DrainGivesUp, debuggees, TypeOK, StageTrue,
     Procs, Events
<1>3. HeldIsPosted'
  BY <1>1, ProcAssumption DEF DrainGivesUp, debuggees, TypeOK, HeldIsPosted, Procs
<1>4. StageTrue'
  BY <1>1, ProcAssumption, BoundAssumption DEF DrainGivesUp, debuggees, TypeOK, StageTrue, Procs
<1>5. \A q \in Procs : PhaseTrue(q)'
  BY <1>1, ProcAssumption DEF DrainGivesUp, debuggees, TypeOK, PhaseTrue, Procs
<1> QED BY <1>2, <1>3, <1>4, <1>5 DEF LoopInv

LEMMA DrainKeepsLoop ==
  ASSUME LoopInv, NEW p \in Procs, Drain(p)
  PROVE  LoopInv'
<1>1. TypeOK /\ HeldIsPosted /\ StageTrue /\ \A q \in Procs : PhaseTrue(q)
  BY DEF LoopInv
<1>b. posted[p] # "none" /\ Continued(p)
  BY DEF Drain, Arrives
<1>c. /\ held' = NoProc
      /\ phase' \in [Procs -> {"unborn", "running", "exiting", "gone"}]
      /\ posted' \in [Procs -> Events \cup {"none"}]
      /\ \A q \in Procs : PhaseTrue(q)'
  BY <1>b, ContinuedKeeps
<1>2. TypeOK'
  BY <1>1, <1>c, ProcAssumption, BoundAssumption DEF Drain, Arrives, DrainEnds, TypeOK,
     StageTrue
<1>3. HeldIsPosted'
  BY <1>c DEF HeldIsPosted
<1>4. StageTrue'
  BY <1>1, <1>c, ProcAssumption, BoundAssumption DEF Drain, Arrives, DrainEnds, TypeOK,
     StageTrue
<1>5. \A q \in Procs : PhaseTrue(q)'
  BY <1>c
<1> QED BY <1>2, <1>3, <1>4, <1>5 DEF LoopInv

-----------------------------------------------------------------------------
(* The loop invariant and what it says of the reachable states.            *)

LEMMA LoopStep == LoopInv /\ [Next]_vars => LoopInv'
<1> SUFFICES ASSUME LoopInv, [Next]_vars PROVE LoopInv'
  OBVIOUS
<1>1. CASE DebuggeeStep
  BY <1>1, SpawnKeepsLoop, PostKeepsLoop, ExitKeepsLoop DEF DebuggeeStep
<1>2. CASE RunStep
  BY <1>2, RunBeginKeepsLoop, EmptyWaitKeepsLoop, CallbackStopsKeepsLoop,
     CallbackReturnsKeepsLoop, ReceiveKeepsLoop, ReceiveStepKeepsLoop,
     RegisterFailsKeepsLoop DEF RunStep
<1>3. CASE ClientStep
  BY <1>3, ContinueEventKeepsLoop, TerminateKeepsLoop, DrainGivesUpKeepsLoop,
     DrainKeepsLoop DEF ClientStep
<1>4. CASE UNCHANGED vars
  BY <1>4 DEF vars, debuggees, loop, LoopInv, TypeOK, HeldIsPosted, StageTrue, PhaseTrue
<1> QED BY <1>1, <1>2, <1>3, <1>4 DEF Next

(* Every counter of the loop keeps its bounds and a held event is always   *)
(* one that was posted, whatever the client and the debuggees do.          *)
THEOREM LoopAccounts == Spec => []LoopInv
BY LoopInit, LoopStep, PTL DEF Spec

(* TimeoutError says that no event came in max_idle_timeouts waits.        *)
THEOREM TimeoutIsTrue == Spec => []TimeoutMeansQuiet
<1>1. LoopInv => TimeoutMeansQuiet
  BY DEF LoopInv, StageTrue, TimeoutMeansQuiet
<1> QED BY <1>1, LoopAccounts, PTL

-----------------------------------------------------------------------------
(* The table of children, for a client that terminates the target only     *)
(* while it has no child.                                                  *)

LEMMA TableInit == Init => TableInv
BY ProcAssumption DEF Init, TableInv, DrainTrue, ChildTrue, Procs

LEMMA SpawnKeepsTable ==
  ASSUME LoopInv, TableInv,
         NEW parent \in Procs, NEW c \in Children, Spawn(parent, c)
  PROVE  TableInv'
<1>1. /\ TypeOK /\ HeldIsPosted /\ StageTrue
      /\ DrainTrue /\ \A q \in Procs : PhaseTrue(q)
      /\ \A k \in Children \ refused : ChildTrue(k)
  BY DEF LoopInv, TableInv
<1>2. DrainTrue'
  BY <1>1, ProcAssumption DEF Spawn, Running, loop, TypeOK, DrainTrue, PhaseTrue, StageTrue,
     Procs
<1>3. ASSUME NEW k \in Children \ refused' PROVE ChildTrue(k)'
  BY <1>1, <1>3, ProcAssumption DEF Spawn, Running, loop, TypeOK, DrainTrue, PhaseTrue,
     ChildTrue, HeldIsPosted, StageTrue, Procs
<1> QED BY <1>2, <1>3 DEF TableInv

LEMMA PostKeepsTable ==
  ASSUME LoopInv, TableInv,
         NEW p \in Procs, NEW event \in {"STEP", "OTHER"}, Post(p, event)
  PROVE  TableInv'
<1>1. /\ TypeOK /\ HeldIsPosted /\ StageTrue
      /\ DrainTrue /\ \A q \in Procs : PhaseTrue(q)
      /\ \A k \in Children \ refused : ChildTrue(k)
  BY DEF LoopInv, TableInv
<1>2. DrainTrue'
  BY <1>1, ProcAssumption DEF Post, Running, loop, TypeOK, DrainTrue, PhaseTrue, StageTrue,
     Procs
<1>3. ASSUME NEW k \in Children \ refused' PROVE ChildTrue(k)'
  BY <1>1, <1>3, ProcAssumption DEF Post, Running, loop, TypeOK, DrainTrue, PhaseTrue,
     ChildTrue, HeldIsPosted, StageTrue, Procs
<1> QED BY <1>2, <1>3 DEF TableInv

LEMMA ExitKeepsTable ==
  ASSUME LoopInv, TableInv,
         NEW p \in Procs, Exit(p)
  PROVE  TableInv'
<1>1. /\ TypeOK /\ HeldIsPosted /\ StageTrue
      /\ DrainTrue /\ \A q \in Procs : PhaseTrue(q)
      /\ \A k \in Children \ refused : ChildTrue(k)
  BY DEF LoopInv, TableInv
<1>2. DrainTrue'
  BY <1>1, ProcAssumption DEF Exit, Running, loop, TypeOK, DrainTrue, PhaseTrue, StageTrue,
     Procs
<1>3. ASSUME NEW k \in Children \ refused' PROVE ChildTrue(k)'
  BY <1>1, <1>3, ProcAssumption DEF Exit, Running, loop, TypeOK, DrainTrue, PhaseTrue,
     ChildTrue, HeldIsPosted, StageTrue, Procs
<1> QED BY <1>2, <1>3 DEF TableInv

LEMMA RunBeginKeepsTable ==
  ASSUME LoopInv, TableInv,
         RunBegin
  PROVE  TableInv'
<1>1. /\ TypeOK /\ HeldIsPosted /\ StageTrue
      /\ DrainTrue /\ \A q \in Procs : PhaseTrue(q)
      /\ \A k \in Children \ refused : ChildTrue(k)
  BY DEF LoopInv, TableInv
<1>2. DrainTrue'
  BY <1>1, ProcAssumption DEF RunBegin, debuggees, TypeOK, DrainTrue, PhaseTrue, StageTrue,
     Procs
<1>3. ASSUME NEW k \in Children \ refused' PROVE ChildTrue(k)'
  BY <1>1, <1>3, ProcAssumption DEF RunBegin, debuggees, TypeOK, DrainTrue, PhaseTrue,
     ChildTrue, HeldIsPosted, StageTrue, Procs
<1> QED BY <1>2, <1>3 DEF TableInv

LEMMA EmptyWaitKeepsTable ==
  ASSUME LoopInv, TableInv,
         EmptyWait
  PROVE  TableInv'
<1>1. /\ TypeOK /\ HeldIsPosted /\ StageTrue
      /\ DrainTrue /\ \A q \in Procs : PhaseTrue(q)
      /\ \A k \in Children \ refused : ChildTrue(k)
  BY DEF LoopInv, TableInv
<1>2. DrainTrue'
  BY <1>1, ProcAssumption DEF EmptyWait, debuggees, TypeOK, DrainTrue, PhaseTrue, StageTrue,
     Procs
<1>3. ASSUME NEW k \in Children \ refused' PROVE ChildTrue(k)'
  BY <1>1, <1>3, ProcAssumption DEF EmptyWait, debuggees, TypeOK, DrainTrue, PhaseTrue,
     ChildTrue, HeldIsPosted, StageTrue, Procs
<1> QED BY <1>2, <1>3 DEF TableInv

LEMMA CallbackStopsKeepsTable ==
  ASSUME LoopInv, TableInv,
         CallbackStops
  PROVE  TableInv'
<1>1. /\ TypeOK /\ HeldIsPosted /\ StageTrue
      /\ DrainTrue /\ \A q \in Procs : PhaseTrue(q)
      /\ \A k \in Children \ refused : ChildTrue(k)
  BY DEF LoopInv, TableInv
<1>2. DrainTrue'
  BY <1>1, ProcAssumption DEF CallbackStops, debuggees, TypeOK, DrainTrue, PhaseTrue,
     StageTrue, Procs
<1>3. ASSUME NEW k \in Children \ refused' PROVE ChildTrue(k)'
  BY <1>1, <1>3, ProcAssumption DEF CallbackStops, debuggees, TypeOK, DrainTrue, PhaseTrue,
     ChildTrue, HeldIsPosted, StageTrue, Procs
<1> QED BY <1>2, <1>3 DEF TableInv

LEMMA CallbackReturnsKeepsTable ==
  ASSUME LoopInv, TableInv,
         CallbackReturns
  PROVE  TableInv'
<1>1. /\ TypeOK /\ HeldIsPosted /\ StageTrue
      /\ DrainTrue /\ \A q \in Procs : PhaseTrue(q)
      /\ \A k \in Children \ refused : ChildTrue(k)
  BY DEF LoopInv, TableInv
<1>a. held \in Procs /\ posted[held] # "none"
  BY <1>1, ProcAssumption DEF CallbackReturns, TypeOK, HeldIsPosted, StageTrue
<1>b. Continued(held)
  BY DEF CallbackReturns
<1>c. /\ held' = NoProc
      /\ \A q \in Procs \ {held} : phase'[q] = phase[q] /\ posted'[q] = posted[q]
      /\ phase'[held] = IF posted[held] = "EXIT_PROCESS" THEN "gone" ELSE phase[held]
      /\ posted'[held] = IF posted[held] # "EXIT_PROCESS" /\ phase[held] = "exiting"
                      THEN "EXIT_PROCESS" ELSE "none"
  BY <1>a, <1>b, ContinuedKeeps
<1>2. DrainTrue'
  BY <1>1, <1>a, <1>c, ProcAssumption DEF CallbackReturns, Ends, TypeOK, DrainTrue,
     PhaseTrue, StageTrue, Procs
<1>3. ASSUME NEW k \in Children \ refused' PROVE ChildTrue(k)'
  BY <1>1, <1>a, <1>c, <1>3, ProcAssumption DEF CallbackReturns, Ends, TypeOK, DrainTrue,
     PhaseTrue, ChildTrue, HeldIsPosted, StageTrue, Procs
<1> QED BY <1>2, <1>3 DEF TableInv

LEMMA ReceiveKeepsTable ==
  ASSUME LoopInv, TableInv,
         NEW p \in Procs, Receive(p)
  PROVE  TableInv'
<1>1. /\ TypeOK /\ HeldIsPosted /\ StageTrue
      /\ DrainTrue /\ \A q \in Procs : PhaseTrue(q)
      /\ \A k \in Children \ refused : ChildTrue(k)
  BY DEF LoopInv, TableInv
<1>2. DrainTrue'
  BY <1>1, ProcAssumption DEF Receive, Arrives, Reset, debuggees, TypeOK, DrainTrue,
     PhaseTrue, StageTrue, Procs
<1>3. ASSUME NEW k \in Children \ refused' PROVE ChildTrue(k)'
  BY <1>1, <1>3, ProcAssumption DEF Receive, Arrives, Reset, debuggees, Tracked, TypeOK,
     DrainTrue, PhaseTrue, ChildTrue, HeldIsPosted, StageTrue, Procs
<1> QED BY <1>2, <1>3 DEF TableInv

LEMMA ReceiveStepKeepsTable ==
  ASSUME LoopInv, TableInv,
         NEW p \in Procs, ReceiveStep(p)
  PROVE  TableInv'
<1>1. /\ TypeOK /\ HeldIsPosted /\ StageTrue
      /\ DrainTrue /\ \A q \in Procs : PhaseTrue(q)
      /\ \A k \in Children \ refused : ChildTrue(k)
  BY DEF LoopInv, TableInv
<1>b. posted[p] # "none" /\ Continued(p)
  BY DEF ReceiveStep, Arrives
<1>c. /\ held' = NoProc
      /\ \A q \in Procs \ {p} : phase'[q] = phase[q] /\ posted'[q] = posted[q]
      /\ phase'[p] = IF posted[p] = "EXIT_PROCESS" THEN "gone" ELSE phase[p]
      /\ posted'[p] = IF posted[p] # "EXIT_PROCESS" /\ phase[p] = "exiting"
                      THEN "EXIT_PROCESS" ELSE "none"
  BY <1>b, ContinuedKeeps
<1>2. DrainTrue'
  BY <1>1, <1>b, <1>c, ProcAssumption DEF ReceiveStep, Arrives, Reset, TypeOK, DrainTrue,
     PhaseTrue, StageTrue, Procs
<1>3. ASSUME NEW k \in Children \ refused' PROVE ChildTrue(k)'
  BY <1>1, <1>b, <1>c, <1>3, ProcAssumption DEF ReceiveStep, Arrives, Reset, TypeOK,
     DrainTrue, PhaseTrue, ChildTrue, HeldIsPosted, StageTrue, Procs
<1> QED BY <1>2, <1>3 DEF TableInv

LEMMA RegisterFailsKeepsTable ==
  ASSUME LoopInv, TableInv,
         NEW p \in Procs, RegisterFails(p)
  PROVE  TableInv'
<1>1. /\ TypeOK /\ HeldIsPosted /\ StageTrue
      /\ DrainTrue /\ \A q \in Procs : PhaseTrue(q)
      /\ \A k \in Children \ refused : ChildTrue(k)
  BY DEF LoopInv, TableInv
<1>2. DrainTrue'
  BY <1>1, ProcAssumption DEF RegisterFails, Arrives, debuggees, TypeOK, DrainTrue,
     PhaseTrue, StageTrue, Procs
<1>3. ASSUME NEW k \in Children \ refused' PROVE ChildTrue(k)'
  BY <1>1, <1>3, ProcAssumption DEF RegisterFails, Arrives, debuggees, TypeOK, DrainTrue,
     PhaseTrue, ChildTrue, HeldIsPosted, StageTrue, Procs
<1> QED BY <1>2, <1>3 DEF TableInv

LEMMA ContinueEventKeepsTable ==
  ASSUME LoopInv, TableInv,
         ContinueEvent
  PROVE  TableInv'
<1>1. /\ TypeOK /\ HeldIsPosted /\ StageTrue
      /\ DrainTrue /\ \A q \in Procs : PhaseTrue(q)
      /\ \A k \in Children \ refused : ChildTrue(k)
  BY DEF LoopInv, TableInv
<1>a. held \in Procs /\ posted[held] # "none"
  BY <1>1, ProcAssumption DEF ContinueEvent, TypeOK, HeldIsPosted, StageTrue
<1>b. Continued(held)
  BY DEF ContinueEvent
<1>c. /\ held' = NoProc
      /\ \A q \in Procs \ {held} : phase'[q] = phase[q] /\ posted'[q] = posted[q]
      /\ phase'[held] = IF posted[held] = "EXIT_PROCESS" THEN "gone" ELSE phase[held]
      /\ posted'[held] = IF posted[held] # "EXIT_PROCESS" /\ phase[held] = "exiting"
                      THEN "EXIT_PROCESS" ELSE "none"
  BY <1>a, <1>b, ContinuedKeeps
<1>2. DrainTrue'
  BY <1>1, <1>a, <1>c, ProcAssumption DEF ContinueEvent, loop, TypeOK, DrainTrue, PhaseTrue,
     StageTrue, Procs
<1>3. ASSUME NEW k \in Children \ refused' PROVE ChildTrue(k)'
  BY <1>1, <1>a, <1>c, <1>3, ProcAssumption DEF ContinueEvent, loop, TypeOK, DrainTrue,
     PhaseTrue, ChildTrue, HeldIsPosted, StageTrue, Procs
<1> QED BY <1>2, <1>3 DEF TableInv

LEMMA TerminateKeepsTable ==
  ASSUME LoopInv, TableInv, Terminates # "any",
         Terminate
  PROVE  TableInv'
<1>1. /\ TypeOK /\ HeldIsPosted /\ StageTrue
      /\ DrainTrue /\ \A q \in Procs : PhaseTrue(q)
      /\ \A k \in Children \ refused : ChildTrue(k)
  BY DEF LoopInv, TableInv
<1>2. DrainTrue'
  BY <1>1, ProcAssumption, ModeAssumption DEF Terminate, MayTerminate, TypeOK, DrainTrue,
     PhaseTrue, StageTrue, Procs
<1>3. ASSUME NEW k \in Children \ refused' PROVE ChildTrue(k)'
  BY <1>1, <1>3, ProcAssumption DEF Terminate, MayTerminate, TypeOK, DrainTrue, PhaseTrue,
     ChildTrue, HeldIsPosted, StageTrue, Procs
<1> QED BY <1>2, <1>3 DEF TableInv

LEMMA DrainGivesUpKeepsTable ==
  ASSUME LoopInv, TableInv,
         DrainGivesUp
  PROVE  TableInv'
<1>1. /\ TypeOK /\ HeldIsPosted /\ StageTrue
      /\ DrainTrue /\ \A q \in Procs : PhaseTrue(q)
      /\ \A k \in Children \ refused : ChildTrue(k)
  BY DEF LoopInv, TableInv
<1>2. DrainTrue'
  BY <1>1, ProcAssumption DEF DrainGivesUp, debuggees, TypeOK, DrainTrue, PhaseTrue,
     StageTrue, Procs
<1>3. ASSUME NEW k \in Children \ refused' PROVE ChildTrue(k)'
  BY <1>1, <1>3, ProcAssumption DEF DrainGivesUp, debuggees, TypeOK, DrainTrue, PhaseTrue,
     ChildTrue, HeldIsPosted, StageTrue, Procs
<1> QED BY <1>2, <1>3 DEF TableInv

LEMMA DrainKeepsTable ==
  ASSUME LoopInv, TableInv,
         NEW p \in Procs, Drain(p)
  PROVE  TableInv'
<1>1. /\ TypeOK /\ HeldIsPosted /\ StageTrue
      /\ DrainTrue /\ \A q \in Procs : PhaseTrue(q)
      /\ \A k \in Children \ refused : ChildTrue(k)
  BY DEF LoopInv, TableInv
<1>b. posted[p] # "none" /\ Continued(p)
  BY DEF Drain, Arrives
<1>c. /\ held' = NoProc
      /\ \A q \in Procs \ {p} : phase'[q] = phase[q] /\ posted'[q] = posted[q]
      /\ phase'[p] = IF posted[p] = "EXIT_PROCESS" THEN "gone" ELSE phase[p]
      /\ posted'[p] = IF posted[p] # "EXIT_PROCESS" /\ phase[p] = "exiting"
                      THEN "EXIT_PROCESS" ELSE "none"
  BY <1>b, ContinuedKeeps
<1>2. DrainTrue'
  BY <1>1, <1>b, <1>c, ProcAssumption DEF Drain, Arrives, DrainEnds, TypeOK, DrainTrue,
     PhaseTrue, StageTrue, Procs
<1>3. ASSUME NEW k \in Children \ refused' PROVE ChildTrue(k)'
  BY <1>1, <1>b, <1>c, <1>3, ProcAssumption DEF Drain, Arrives, DrainEnds, TypeOK,
     DrainTrue, PhaseTrue, ChildTrue, HeldIsPosted, StageTrue, Procs
<1> QED BY <1>2, <1>3 DEF TableInv

LEMMA TableStep ==
  ASSUME Terminates # "any"
  PROVE  LoopInv /\ TableInv /\ [Next]_vars => TableInv'
<1> SUFFICES ASSUME LoopInv, TableInv, [Next]_vars PROVE TableInv'
  OBVIOUS
<1>1. CASE DebuggeeStep
  BY <1>1, SpawnKeepsTable, PostKeepsTable, ExitKeepsTable DEF DebuggeeStep
<1>2. CASE RunStep
  BY <1>2, RunBeginKeepsTable, EmptyWaitKeepsTable, CallbackStopsKeepsTable,
     CallbackReturnsKeepsTable, ReceiveKeepsTable, ReceiveStepKeepsTable,
     RegisterFailsKeepsTable DEF RunStep
<1>3. CASE ClientStep
  BY <1>3, ContinueEventKeepsTable, TerminateKeepsTable, DrainGivesUpKeepsTable,
     DrainKeepsTable DEF ClientStep
<1>4. CASE UNCHANGED vars
  BY <1>4 DEF vars, debuggees, loop, TableInv, DrainTrue, ChildTrue
<1> QED BY <1>1, <1>2, <1>3, <1>4 DEF Next

LEMMA Tables ==
  ASSUME Terminates # "any"
  PROVE  Spec => []IInv
<1>1. Init => IInv
  BY LoopInit, TableInit DEF IInv
<1>2. IInv /\ [Next]_vars => IInv'
  BY LoopStep, TableStep DEF IInv
<1> QED BY <1>1, <1>2, PTL DEF Spec

(* child_processes lists every child whose registration did not fail, with *)
(* an exit code once it has exited, for any number of children and however *)
(* often a pid is used again.                                              *)
THEOREM ChildrenAreListed ==
  ASSUME Terminates # "any"
  PROVE  Spec => []ChildTableTrue
<1>1. IInv => ChildTableTrue
  BY ProcAssumption DEF IInv, TableInv, ChildTrue, ChildTableTrue
<1> QED BY <1>1, Tables, PTL

(* terminate_process() leaves the exit event of the target behind only if  *)
(* the client still held an event or the drain reached its limit.          *)
THEOREM ExitIsDrained ==
  ASSUME Terminates # "any"
  PROVE  Spec => DrainedToTheEnd
<1>1. ASSUME IInv, [Next]_vars, stage = "drain", stage' = "out"
      PROVE  phase'[Target] = "gone" \/ held # NoProc \/ drained' = DrainLimit
  <2>1. (\E p \in Procs : Drain(p)) \/ DrainGivesUp
    BY <1>1 DEF Next, DebuggeeStep, RunStep, ClientStep, Spawn, Post, Exit, RunBegin,
       Receive, ReceiveStep, RegisterFails, EmptyWait, CallbackStops, CallbackReturns,
       ContinueEvent, Terminate, loop, vars
  <2>2. CASE DrainGivesUp
    BY <1>1, <2>2 DEF DrainGivesUp, debuggees, IInv, LoopInv, TableInv, DrainTrue,
       PhaseTrue, Procs
  <2>3. ASSUME NEW p \in Procs, Drain(p), posted[p] = "EXIT_PROCESS"
        PROVE  phase'[Target] = "gone"
    <3>1. p = Target
      BY <1>1, <2>3 DEF IInv, LoopInv, TableInv, DrainTrue, PhaseTrue, Procs
    <3> QED BY <1>1, <2>3, <3>1, ContinuedKeeps DEF Drain, IInv
  <2> QED BY <1>1, <2>1, <2>2, <2>3 DEF Drain, DrainEnds
<1>2. IInv /\ [Next]_vars =>
        [stage = "drain" /\ stage' = "out" =>
           phase'[Target] = "gone" \/ held # NoProc \/ drained' = DrainLimit]_vars
  BY <1>1
<1> QED BY <1>2, Tables, PTL DEF Spec, DrainedToTheEnd

=============================================================================
