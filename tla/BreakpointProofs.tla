-------------------------- MODULE BreakpointProofs --------------------------
(***************************************************************************)
(* Theorems about SoftwareBreakpoint and, from "run_until()" on, about     *)
(* RunUntil, for every value of their constants: run_until() removes its   *)
(* temporary breakpoint and no other, whichever system call fails, and     *)
(* leaves the thread at the goal in front of the original instruction.     *)
(***************************************************************************)
EXTENDS RunUntil, TLAPS

(* Type correctness, whatever the client and the system calls do. *)
LEMMA TypeInit == Init => TypeOK
<1> SUFFICES ASSUME Init PROVE TypeOK
    OBVIOUS
<1> USE HomeAssumption, BoundAssumption DEF Init, Empty
<1>1. own \in [Procs -> [Addrs -> Byte]] /\ code = own
    BY DEF Byte
<1>2. bp_counter \in 0..MaxBps /\ DOMAIN breakpoints = {} /\ DOMAIN hits = {}
      /\ DOMAIN pending_single_step = {}
    OBVIOUS
<1>3. /\ breakpoints \in [DOMAIN breakpoints -> Breakpoint]
      /\ pending_single_step \in [DOMAIN pending_single_step -> Pending]
      /\ hits \in [DOMAIN breakpoints -> 0..HitCap]
    OBVIOUS
<1>4. QED
    BY <1>1, <1>2, <1>3 DEF TypeOK

LEMMA TypeTarget == TypeOK /\ TargetStep => TypeOK'
<1> SUFFICES ASSUME TypeOK, TargetStep PROVE TypeOK'
    OBVIOUS
<1> USE HomeAssumption, FlowAssumption, BoundAssumption DEF TypeOK, Byte, records
<1>0. \A p \in Procs, a \in Addrs : At(p, a) \subseteq 1..bp_counter
    BY DEF At
<1>1. ASSUME NEW t \in Threads, Trap(t) PROVE TypeOK'
    BY <1>1 DEF Trap
<1>2. ASSUME NEW t \in Threads, Execute(t) PROVE TypeOK'
    <2>1. loc' \in [Threads -> Addrs]
        BY <1>2 DEF Execute
    <2>2. reached' \subseteq 1..bp_counter
        BY <1>2, <1>0 DEF Execute
    <2>3. QED
        BY <1>2, <2>1, <2>2 DEF Execute
<1>3. ASSUME NEW t \in Threads, ExitThread(t) PROVE TypeOK'
    BY <1>3 DEF ExitThread
<1>4. ASSUME NEW t \in Threads, StartThread(t) PROVE TypeOK'
    BY <1>4 DEF StartThread
<1>5. ASSUME NEW p \in Procs, NEW a \in Addrs, Overwrite(p, a) PROVE TypeOK'
    BY <1>5, <1>0 DEF Overwrite
<1>6. QED
    BY <1>1, <1>2, <1>3, <1>4, <1>5 DEF TargetStep

LEMMA TypeLoop == TypeOK /\ LoopStep => TypeOK'
<1> SUFFICES ASSUME TypeOK, LoopStep PROVE TypeOK'
    OBVIOUS
<1> USE HomeAssumption, BoundAssumption DEF TypeOK
<1>0. \A mem \in [Procs -> [Addrs -> Byte]], p \in Procs, a \in Addrs, byte \in Byte :
         \A outcome : Poke(mem, p, a, byte, outcome) \in [Procs -> [Addrs -> Byte]]
    BY DEF Poke
<1>b. ASSUME NEW t \in Threads, NEW id \in Ids, BeginHit(t, id)
      PROVE  /\ id \in DOMAIN breakpoints /\ breakpoints[id] \in Breakpoint
             /\ \A outcome : Restored(id, outcome) \in [Procs -> [Addrs -> Byte]]
             /\ hits' \in [DOMAIN breakpoints -> 0..HitCap]
             /\ event' \in Threads
    <2>1. id \in DOMAIN breakpoints /\ breakpoints[id] \in Breakpoint
        BY <1>b DEF BeginHit, Finds, Candidates
    <2>2. \A outcome : Restored(id, outcome) \in [Procs -> [Addrs -> Byte]]
        BY <1>0, <2>1 DEF Restored, Breakpoint
    <2>3. hits[id] \in 0..HitCap /\ Capped(hits[id] + 1) \in 0..HitCap
        BY <2>1 DEF Capped
    <2>4. hits' \in [DOMAIN breakpoints -> 0..HitCap]
        BY <1>b, <2>3 DEF BeginHit, Counted
    <2>5. event' \in Threads
        BY <1>b DEF BeginHit
    <2>6. QED
        BY <2>1, <2>2, <2>4, <2>5
<1>1. ASSUME NEW t \in Threads, NEW id \in Ids, HitBreakpoint(t, id) PROVE TypeOK'
    <2> DEFINE entry == [id |-> id, addr |-> loc[t], proc |-> breakpoints[id].proc]
    <2>1. BeginHit(t, id) /\ pending_single_step' = Put(pending_single_step, t, entry)
        BY <1>1 DEF HitBreakpoint
    <2>2. entry \in Pending
        BY <1>b, <2>1 DEF Breakpoint, Pending
    <2> HIDE DEF entry
    <2>3. /\ DOMAIN pending_single_step' \subseteq Threads
          /\ pending_single_step' \in [DOMAIN pending_single_step' -> Pending]
        BY <2>1, <2>2 DEF Put
    <2>4. QED
        BY <1>1, <1>b, <2>1, <2>3 DEF HitBreakpoint, BeginHit, Rewind, SetTrapFlag
<1>2. ASSUME NEW t \in Threads, NEW id \in Ids, HitRestoreFails(t, id) PROVE TypeOK'
    BY <1>2, <1>b DEF HitRestoreFails, BeginHit
<1>3. ASSUME NEW t \in Threads, NEW id \in Ids, HitDegraded(t, id) PROVE TypeOK'
    <2>1. BeginHit(t, id)
        BY <1>3 DEF HitDegraded
    <2>2. code' \in [Procs -> [Addrs -> Byte]]
        <3>1. PICK outcome :
                 code' = Poke(Restored(id, "ok"), breakpoints[id].proc, loc[t], "int3",
                              outcome)
            BY <1>3 DEF HitDegraded
        <3>2. /\ Restored(id, "ok") \in [Procs -> [Addrs -> Byte]]
              /\ breakpoints[id].proc \in Procs /\ loc[t] \in Addrs /\ "int3" \in Byte
            BY <1>b, <2>1 DEF Breakpoint, Byte
        <3>3. QED
            BY <3>1, <3>2, <1>0
    <2>3. QED
        BY <1>3, <1>b, <2>1, <2>2 DEF HitDegraded, BeginHit
<1>4. ASSUME NEW t \in Threads, ForeignBreakpoint(t) \/ ForeignStep(t) PROVE TypeOK'
    BY <1>4 DEF ForeignBreakpoint, ForeignStep, target, records
<1>5. ASSUME NEW t \in Threads, Rearm(t) PROVE TypeOK'
    <2>1. pending_single_step[t] \in Pending
        BY <1>5 DEF Rearm
    <2>2. code' \in [Procs -> [Addrs -> Byte]] /\ raised' \in BOOLEAN
        <3>1. CASE pending_single_step[t].id \in DOMAIN breakpoints
            <4>1. PICK outcome \in Outcomes("step") :
                     /\ code' = Poke(code, pending_single_step[t].proc,
                                    pending_single_step[t].addr, "int3", outcome)
                     /\ raised' = (outcome # "ok")
                BY <1>5, <3>1 DEF Rearm, Recorded, Int3
            <4>2. QED
                BY <4>1, <2>1, <1>0 DEF Pending, Byte
        <3>2. CASE pending_single_step[t].id \notin DOMAIN breakpoints
            BY <1>5, <3>2 DEF Rearm, Recorded
        <3>3. QED
            BY <3>1, <3>2
    <2>3. /\ DOMAIN pending_single_step' \subseteq Threads
          /\ pending_single_step' \in [DOMAIN pending_single_step' -> Pending]
        BY <1>5 DEF Rearm, Popped, Drop, Restrict
    <2>4. event' \in Threads \cup {NoThread} /\ exc' \in [Threads -> {"none", "bp", "ss"}]
        BY <1>5 DEF Rearm
    <2>5. QED
        BY <1>5, <2>2, <2>3, <2>4 DEF Rearm
<1>6. CASE Continue
    BY <1>6 DEF Continue, records
<1>7. QED
    BY <1>1, <1>2, <1>3, <1>4, <1>5, <1>6 DEF LoopStep

LEMMA TypeClient == TypeOK /\ ClientStep => TypeOK'
<1> SUFFICES ASSUME TypeOK, ClientStep PROVE TypeOK'
    OBVIOUS
<1> USE HomeAssumption, SitesAssumption, BoundAssumption DEF TypeOK
<1>1. ASSUME NEW p \in Procs, NEW a \in Addrs, Set(p, a) PROVE TypeOK'
    <2> DEFINE entry == [addr |-> a, original |-> code[p][a], proc |-> p]
    <2>1. entry \in Breakpoint
        BY DEF Breakpoint
    <2>2. /\ breakpoints' = Put(breakpoints, bp_counter + 1, entry)
          /\ hits' = Put(hits, bp_counter + 1, 0)
          /\ bp_counter' = bp_counter + 1 /\ bp_counter < MaxBps
          /\ code' \in [Procs -> [Addrs -> Byte]]
        BY <1>1 DEF Set, MaySet, Displaced, Int3, Poke, Byte
    <2> HIDE DEF entry
    <2>3. /\ bp_counter' \in 0..MaxBps
          /\ DOMAIN breakpoints' = DOMAIN breakpoints \cup {bp_counter + 1}
          /\ DOMAIN breakpoints' \subseteq 1..bp_counter'
        BY <2>2 DEF Put
    <2>4. /\ breakpoints' \in [DOMAIN breakpoints' -> Breakpoint]
          /\ hits' \in [DOMAIN breakpoints' -> 0..HitCap]
        BY <2>1, <2>2, <2>3 DEF Put
    <2>5. reached' \subseteq 1..bp_counter' /\ overwritten' \subseteq 1..bp_counter'
        BY <1>1, <2>2 DEF Set
    <2>6. QED
        BY <1>1, <2>2, <2>3, <2>4, <2>5 DEF Set
<1>2. ASSUME NEW p \in Procs, NEW a \in Addrs, SetFails(p, a) PROVE TypeOK'
    BY <1>2 DEF SetFails, Byte, records
<1>3. ASSUME NEW K, Forget(K), code' \in [Procs -> [Addrs -> Byte]] PROVE TypeOK'
    <2>1. /\ DOMAIN breakpoints' = DOMAIN breakpoints \ K
          /\ breakpoints' \in [DOMAIN breakpoints' -> Breakpoint]
          /\ hits' \in [DOMAIN breakpoints' -> 0..HitCap]
          /\ lost' \subseteq DOMAIN breakpoints'
        BY <1>3 DEF Forget, CountsWithout, Drop, Restrict
    <2>2. QED
        BY <1>3, <2>1 DEF Forget
<1>4. ASSUME NEW id \in Ids, Remove(id) PROVE TypeOK'
    <2>1. breakpoints[id] \in Breakpoint
        BY <1>4 DEF Remove
    <2>2. code' \in [Procs -> [Addrs -> Byte]]
        BY <1>4, <2>1 DEF Remove, Restored, Poke, Breakpoint
    <2>3. QED
        BY <1>4, <2>2, <1>3 DEF Remove
<1>5. ASSUME NEW outcome, NEW last \in Ids, RemoveAll(outcome, last) PROVE TypeOK'
    <2>1. code' \in [Procs -> [Addrs -> Byte]]
        BY <1>5 DEF RemoveAll, Last, At, Breakpoint
    <2>2. QED
        BY <1>5, <2>1, <1>3 DEF RemoveAll
<1>6. CASE VerifyAll
    BY <1>6 DEF VerifyAll, target
<1>7. ASSUME NEW t \in Threads, StepRequest(t) PROVE TypeOK'
    BY <1>7 DEF StepRequest, records
<1>8. QED
    BY <1>1, <1>2, <1>4, <1>5, <1>6, <1>7 DEF ClientStep

\* Every variable keeps its type, under any faults and any client.
THEOREM TypeCorrect == Spec => []TypeOK
<1>1. TypeOK /\ UNCHANGED vars => TypeOK'
    BY DEF TypeOK, vars, target, records
<1>2. TypeOK /\ [Next]_vars => TypeOK'
    BY <1>1, TypeTarget, TypeLoop, TypeClient DEF Next
<1>3. QED
    BY <1>2, TypeInit, PTL DEF Spec

-----------------------------------------------------------------------------
(* The inductive invariant, for a disciplined client.                      *)

LEMMA InvInit == Init => IInv
<1> SUFFICES ASSUME Init PROVE IInv
    OBVIOUS
<1> USE HomeAssumption DEF Init, Empty
<1>1. DOMAIN breakpoints = {} /\ DOMAIN pending_single_step = {}
    OBVIOUS
<1>2. ProgramUnchanged /\ CodeAccounted
    BY DEF ProgramUnchanged, CodeAccounted
<1>3. TrapsAccounted
    BY DEF TrapsAccounted
<1>4. QED
    BY <1>1, <1>2, <1>3 DEF IInv, OneRecordPerAddress, PendingMatchesRecord,
       OriginalsAreOwn, UncountedIsArmed

LEMMA InvTarget == Disciplined /\ TypeOK /\ IInv /\ TargetStep => IInv'
<1> SUFFICES ASSUME Disciplined, TypeOK, IInv, TargetStep PROVE IInv'
    OBVIOUS
<1> USE HomeAssumption DEF IInv, TypeOK
\* Only a step of a thread can disturb the records' accounts.
<1>0. ASSUME UNCHANGED <<code, own, breakpoints, bp_counter, pending_single_step, hits>>
      PROVE  /\ ProgramUnchanged' /\ OneRecordPerAddress' /\ PendingMatchesRecord'
             /\ CodeAccounted' /\ OriginalsAreOwn'
             /\ \A p, a : At(p, a)' = At(p, a)
    <2>1. ProgramUnchanged' /\ OneRecordPerAddress' /\ OriginalsAreOwn'
        BY <1>0 DEF ProgramUnchanged, OneRecordPerAddress, OriginalsAreOwn
    <2>2. PendingMatchesRecord'
        BY <1>0 DEF PendingMatchesRecord
    <2>3. \A p, a : At(p, a)' = At(p, a)
        BY <1>0 DEF At
    <2>4. CodeAccounted'
        BY <1>0, <2>3 DEF CodeAccounted
    <2>5. QED
        BY <2>1, <2>2, <2>3, <2>4
<1>1. ASSUME NEW t \in Threads, Trap(t) PROVE IInv'
    <2>1. UncountedIsArmed'
        BY <1>1 DEF Trap, records, UncountedIsArmed, Armed
    <2>2. own[Home[t]][loc[t]] = "int3" \/ At(Home[t], loc[t]) # {}
        BY <1>1 DEF Trap, CodeAccounted
    <2>3. event # t
        BY <1>1 DEF Trap, Runnable, Stopped
    <2>4. TrapsAccounted'
        <3>1. \A p, a : At(p, a)' = At(p, a)
            BY <1>1, <1>0 DEF Trap, records
        <3>2. QED
            BY <1>1, <2>2, <2>3, <3>1 DEF Trap, TrapsAccounted, Runnable
    <2>5. QED
        BY <1>1, <1>0, <2>1, <2>4 DEF Trap, records
<1>2. ASSUME NEW t \in Threads, Execute(t) PROVE IInv'
    <2>1. UncountedIsArmed'
        BY <1>2 DEF Execute, records, UncountedIsArmed, Armed, At
    <2>2. event # t
        BY <1>2 DEF Execute, Runnable, Stopped
    <2>3. TrapsAccounted'
        BY <1>2, <2>2 DEF Execute, Runnable, records, TrapsAccounted, At
    <2>4. QED
        BY <1>2, <1>0, <2>1, <2>3 DEF Execute, records
<1>3. ASSUME NEW t \in Threads, ExitThread(t) \/ StartThread(t) PROVE IInv'
    <2>1. UncountedIsArmed'
        BY <1>3 DEF ExitThread, StartThread, records, UncountedIsArmed, Armed
    <2>2. TrapsAccounted'
        <3>1. \A p, a : At(p, a)' = At(p, a)
            BY <1>3, <1>0 DEF ExitThread, StartThread, records
        <3>2. CASE ExitThread(t)
            BY <3>1, <3>2 DEF ExitThread, Runnable, TrapsAccounted
        <3>3. CASE StartThread(t)
            BY <3>1, <3>3 DEF StartThread, TrapsAccounted
        <3>4. QED
            BY <1>3, <3>2, <3>3
    <2>3. QED
        BY <1>3, <1>0, <2>1, <2>2 DEF ExitThread, StartThread, records
<1>4. ASSUME NEW p \in Procs, NEW a \in Addrs PROVE ~Overwrite(p, a)
    BY DEF Overwrite, Disciplined
<1>5. QED
    BY <1>1, <1>2, <1>3, <1>4 DEF TargetStep

LEMMA InvLoop == Disciplined /\ TypeOK /\ IInv /\ LoopStep => IInv'
<1> SUFFICES ASSUME Disciplined, TypeOK, IInv, LoopStep PROVE IInv'
    OBVIOUS
<1> USE HomeAssumption, BoundAssumption DEF IInv, TypeOK
\* What the three outcomes of a hit have in common.
<1>h. ASSUME NEW t \in Threads, NEW id \in Ids, BeginHit(t, id),
             \A p \in Procs, a \in Addrs :
                 \/ code'[p][a] = code[p][a]
                 \/ /\ p = breakpoints[id].proc /\ a = loc[t]
                    /\ code'[p][a] \in {breakpoints[id].original, "int3"}
      PROVE  /\ ProgramUnchanged' /\ OneRecordPerAddress' /\ CodeAccounted'
             /\ OriginalsAreOwn' /\ UncountedIsArmed'
    <2>1. /\ id \in DOMAIN breakpoints /\ breakpoints[id].addr = loc[t]
          /\ breakpoints[id].proc \in Procs /\ loc[t] \in Addrs
          /\ UNCHANGED <<own, breakpoints, reached>>
        BY <1>h DEF BeginHit, Finds, Candidates, Breakpoint
    <2>2. ProgramUnchanged' /\ OneRecordPerAddress' /\ OriginalsAreOwn'
        BY <2>1 DEF ProgramUnchanged, OneRecordPerAddress, OriginalsAreOwn
    <2>3. CodeAccounted'
        <3>1. id \in At(breakpoints[id].proc, loc[t])
              /\ breakpoints[id].original = own[breakpoints[id].proc][loc[t]]
            BY <2>1 DEF At, OriginalsAreOwn
        <3>2. \A p, a : At(p, a)' = At(p, a)
            BY <2>1 DEF At
        <3>3. SUFFICES ASSUME NEW p \in Procs, NEW a \in Addrs
                       PROVE  \/ code'[p][a] = own[p][a]
                              \/ code'[p][a] = "int3" /\ At(p, a) # {}
            BY <2>1, <3>2 DEF CodeAccounted
        <3>4. CASE code'[p][a] = code[p][a]
            BY <3>4 DEF CodeAccounted
        <3>5. CASE /\ p = breakpoints[id].proc /\ a = loc[t]
                   /\ code'[p][a] \in {breakpoints[id].original, "int3"}
            BY <3>5, <3>1
        <3>6. QED
            BY <1>h, <3>4, <3>5
    <2>4. hits'[id] # 0 /\ \A i \in DOMAIN breakpoints : i # id => hits'[i] = hits[i]
        BY <1>h, <2>1 DEF BeginHit, Counted, Capped
    <2>5. UncountedIsArmed'
        BY <1>h, <2>1, <2>4 DEF UncountedIsArmed, Armed, OneRecordPerAddress, Breakpoint
    <2>6. QED
        BY <2>2, <2>3, <2>5
<1>b. ASSUME NEW t \in Threads, NEW id \in Ids, BeginHit(t, id)
      PROVE  /\ id \in DOMAIN breakpoints /\ breakpoints[id].addr = loc[t]
             /\ breakpoints[id] \in Breakpoint
             /\ event = NoThread /\ event' = t /\ past[t] /\ exc[t] = "bp"
             /\ UNCHANGED <<own, loc, exc, alive, breakpoints, bp_counter>>
             /\ \A p, a : At(p, a)' = At(p, a)
    BY <1>b DEF BeginHit, Finds, Candidates, Deliverable, TrapsAccounted, At
<1>1. ASSUME NEW t \in Threads, NEW id \in Ids, HitBreakpoint(t, id) PROVE IInv'
    <2>0. BeginHit(t, id)
        BY <1>1 DEF HitBreakpoint
    <2>1. TrapsAccounted'
        BY <1>1, <1>b, <2>0 DEF HitBreakpoint, Rewind, TrapsAccounted
    <2>2. PendingMatchesRecord'
        <3> DEFINE entry == [id |-> id, addr |-> loc[t], proc |-> breakpoints[id].proc]
        <3>1. pending_single_step' = Put(pending_single_step, t, entry)
            BY <1>1 DEF HitBreakpoint
        <3>2. /\ entry.id = id /\ entry.addr = loc[t]
              /\ entry.proc = breakpoints[id].proc
            OBVIOUS
        <3> HIDE DEF entry
        <3>3. id <= bp_counter
            BY <2>0, <1>b
        <3>4. QED
            BY <1>b, <2>0, <3>1, <3>2, <3>3 DEF PendingMatchesRecord, Put
    <2>3. \A p \in Procs, a \in Addrs :
             \/ code'[p][a] = code[p][a]
             \/ /\ p = breakpoints[id].proc /\ a = loc[t]
                /\ code'[p][a] \in {breakpoints[id].original, "int3"}
        BY <1>1, <1>b, <2>0 DEF HitBreakpoint, Restored, Poke, Breakpoint
    <2>4. QED
        BY <1>h, <2>0, <2>1, <2>2, <2>3
<1>2. ASSUME NEW t \in Threads, NEW id \in Ids, HitRestoreFails(t, id) \/ HitDegraded(t, id)
      PROVE  IInv'
    <2>1. BeginHit(t, id) /\ raised' = TRUE /\ UNCHANGED <<past, pending_single_step>>
        BY <1>2 DEF HitRestoreFails, HitDegraded
    <2>2. TrapsAccounted'
        BY <1>b, <2>1 DEF TrapsAccounted
    <2>3. PendingMatchesRecord'
        BY <1>b, <2>1 DEF PendingMatchesRecord
    <2>4. \A p \in Procs, a \in Addrs :
             \/ code'[p][a] = code[p][a]
             \/ /\ p = breakpoints[id].proc /\ a = loc[t]
                /\ code'[p][a] \in {breakpoints[id].original, "int3"}
        <3>1. CASE HitRestoreFails(t, id)
            <4>1. PICK outcome : code' = Restored(id, outcome)
                BY <3>1 DEF HitRestoreFails
            <4>2. QED
                BY <4>1, <1>b, <2>1 DEF Restored, Poke, Breakpoint
        <3>2. CASE HitDegraded(t, id)
            <4>1. PICK outcome :
                     code' = Poke(Restored(id, "ok"), breakpoints[id].proc, loc[t],
                                  "int3", outcome)
                BY <3>2 DEF HitDegraded
            <4>2. QED
                BY <4>1, <1>b, <2>1 DEF Restored, Poke, Breakpoint
        <3>3. QED
            BY <1>2, <3>1, <3>2
    <2>5. QED
        BY <1>h, <2>1, <2>2, <2>3, <2>4
\* The other steps of the loop do not touch the records.
<1>o. ASSUME UNCHANGED <<own, breakpoints, bp_counter, hits, reached>>
      PROVE  /\ ProgramUnchanged' /\ OneRecordPerAddress' /\ OriginalsAreOwn'
             /\ UNCHANGED code => CodeAccounted' /\ UncountedIsArmed'
             /\ \A p, a : At(p, a)' = At(p, a)
    BY <1>o DEF ProgramUnchanged, OneRecordPerAddress, OriginalsAreOwn, CodeAccounted,
       UncountedIsArmed, Armed, At
<1>4. ASSUME NEW t \in Threads, ForeignBreakpoint(t) \/ ForeignStep(t) PROVE IInv'
    <2>1. /\ UNCHANGED <<code, own, loc, past, exc, alive, breakpoints, bp_counter,
                         pending_single_step, hits, raised, reached>>
          /\ event = NoThread /\ event' = t
          /\ \/ exc[t] = "ss"
             \/ exc[t] = "bp" /\ Candidates(loc[t]) = {}
        BY <1>4 DEF ForeignBreakpoint, ForeignStep, target, records, Deliverable
    <2>2. TrapsAccounted'
        <3>1. \A p, a : At(p, a)' = At(p, a)
            BY <2>1, <1>o
        <3>2. exc[t] = "bp" => At(Home[t], loc[t]) = {}
            BY <2>1 DEF At, Candidates
        <3>3. QED
            BY <2>1, <3>1, <3>2 DEF TrapsAccounted
    <2>3. PendingMatchesRecord'
        BY <2>1 DEF PendingMatchesRecord
    <2>4. QED
        BY <2>1, <2>2, <2>3, <1>o
<1>5. ASSUME NEW t \in Threads, Rearm(t) PROVE IInv'
    <2> DEFINE entry == pending_single_step[t]
    <2>1. /\ UNCHANGED <<own, loc, past, alive, breakpoints, bp_counter, hits, reached>>
          /\ event = NoThread /\ exc[t] = "ss"
          /\ t \in DOMAIN pending_single_step
        BY <1>5 DEF Rearm, Deliverable
    <2>2. \/ UNCHANGED code
          \/ /\ entry.id \in DOMAIN breakpoints
             /\ code' = [code EXCEPT ![entry.proc][entry.addr] = "int3"]
        <3>1. CASE entry.id \in DOMAIN breakpoints
            <4>1. \E outcome : code' = Poke(code, entry.proc, entry.addr, "int3", outcome)
                BY <1>5, <3>1 DEF Rearm, Recorded, Int3
            <4>2. QED
                BY <4>1, <3>1 DEF Poke
        <3>2. CASE entry.id \notin DOMAIN breakpoints
            BY <1>5, <3>2 DEF Rearm, Recorded
        <3>3. QED
            BY <3>1, <3>2
    <2>3. /\ entry.proc \in Procs /\ entry.addr \in Addrs
          /\ entry.id \in DOMAIN breakpoints =>
                breakpoints[entry.id].addr = entry.addr
                /\ breakpoints[entry.id].proc = entry.proc
        BY <2>1 DEF PendingMatchesRecord, Pending
    <2> HIDE DEF entry
    <2>4. CodeAccounted' /\ UncountedIsArmed'
        <3>1. CASE UNCHANGED code
            BY <2>1, <3>1, <1>o
        <3>2. CASE /\ entry.id \in DOMAIN breakpoints
                   /\ code' = [code EXCEPT ![entry.proc][entry.addr] = "int3"]
            <4>1. entry.id \in At(entry.proc, entry.addr)
                BY <3>2, <2>3 DEF At
            <4>2. \A p, a : At(p, a)' = At(p, a)
                BY <2>1, <1>o
            <4>3. \A p \in Procs, a \in Addrs :
                     \/ code'[p][a] = code[p][a]
                     \/ code'[p][a] = "int3" /\ p = entry.proc /\ a = entry.addr
                BY <2>3, <3>2
            <4>4. CodeAccounted'
                BY <2>1, <4>1, <4>2, <4>3 DEF CodeAccounted
            <4>5. UncountedIsArmed'
                BY <2>1, <4>3 DEF UncountedIsArmed, Armed, Breakpoint
            <4>6. QED
                BY <4>4, <4>5
        <3>3. QED
            BY <2>2, <3>1, <3>2
    <2>5. PendingMatchesRecord'
        BY <1>5, <2>1 DEF Rearm, Popped, Drop, Restrict, PendingMatchesRecord
    <2>6. \/ event' = t /\ UNCHANGED exc
          \/ event' = event /\ exc' = [exc EXCEPT ![t] = "none"]
        BY <1>5 DEF Rearm, Deliverable
    <2>7. TrapsAccounted'
        BY <2>1, <2>6, <1>o DEF TrapsAccounted
    <2>8. QED
        BY <2>1, <2>4, <2>5, <2>7, <1>o
<1>6. CASE Continue
    <2>1. TrapsAccounted'
        BY <1>6 DEF Continue, records, TrapsAccounted, At
    <2>2. PendingMatchesRecord'
        BY <1>6 DEF Continue, records, PendingMatchesRecord
    <2>3. QED
        BY <1>6, <2>1, <2>2, <1>o DEF Continue, records
<1>7. QED
    BY <1>1, <1>2, <1>4, <1>5, <1>6 DEF LoopStep

\* Forgetting records whose bytes go back keeps the accounts.
LEMMA InvForget ==
    ASSUME Disciplined, TypeOK, IInv, NEW K, Forget(K),
           \A id \in DOMAIN breakpoints \cap K : MayRemove(id),
           \A p \in Procs, a \in Addrs :
              code'[p][a] = IF At(p, a) \cap K = {} THEN code[p][a] ELSE own[p][a]
    PROVE  IInv'
<1> USE HomeAssumption DEF IInv, TypeOK
<1>1. /\ DOMAIN breakpoints' = DOMAIN breakpoints \ K
      /\ \A id \in DOMAIN breakpoints' :
            breakpoints'[id] = breakpoints[id] /\ hits'[id] = hits[id]
      /\ UNCHANGED <<own, loc, past, exc, alive, event, bp_counter,
                     pending_single_step, raised, reached>>
    BY DEF Forget, CountsWithout, Drop, Restrict
<1>2. ProgramUnchanged' /\ OneRecordPerAddress' /\ PendingMatchesRecord' /\ OriginalsAreOwn'
    <2>1. ProgramUnchanged' /\ OneRecordPerAddress' /\ OriginalsAreOwn'
        BY <1>1 DEF ProgramUnchanged, OneRecordPerAddress, OriginalsAreOwn
    <2>2. PendingMatchesRecord'
        BY <1>1 DEF PendingMatchesRecord
    <2>3. QED
        BY <2>1, <2>2
<1>3. \A p, a : At(p, a)' = At(p, a) \ K
    BY <1>1 DEF At
<1>4. \A p \in Procs, a \in Addrs : At(p, a) \cap K = {} \/ At(p, a)' = {}
    <2> SUFFICES ASSUME NEW p \in Procs, NEW a \in Addrs, NEW id \in At(p, a) \cap K
                 PROVE  At(p, a)' = {}
        OBVIOUS
    <2>1. At(p, a) = {id}
        BY DEF At, OneRecordPerAddress
    <2>2. QED
        BY <2>1, <1>3
<1>5. CodeAccounted'
    <2> SUFFICES ASSUME NEW p \in Procs, NEW a \in Addrs
                 PROVE  code'[p][a] = own'[p][a]
                        \/ (code'[p][a] = "int3" /\ At(p, a)' # {})
        BY DEF CodeAccounted
    <2>1. CASE At(p, a) \cap K = {}
        BY <2>1, <1>1, <1>3 DEF CodeAccounted
    <2>2. CASE At(p, a) \cap K # {}
        BY <2>2, <1>1
    <2>3. QED
        BY <2>1, <2>2
<1>6. UncountedIsArmed'
    <2> SUFFICES ASSUME NEW id \in DOMAIN breakpoints', hits'[id] = 0
                 PROVE  Armed(id)' /\ id \notin reached'
        BY DEF UncountedIsArmed
    <2>1. /\ breakpoints[id].proc \in Procs /\ breakpoints[id].addr \in Addrs
          /\ id \in DOMAIN breakpoints /\ id \notin K
        BY <1>1 DEF Breakpoint
    <2>2. At(breakpoints[id].proc, breakpoints[id].addr) \cap K = {}
        BY <2>1 DEF At, OneRecordPerAddress
    <2>3. QED
        <3>1. Armed(id) /\ id \notin reached /\ breakpoints'[id] = breakpoints[id]
            BY <1>1, <2>1 DEF UncountedIsArmed
        <3>2. code'[breakpoints[id].proc][breakpoints[id].addr]
                = code[breakpoints[id].proc][breakpoints[id].addr]
            BY <2>1, <2>2
        <3>3. QED
            BY <1>1, <3>1, <3>2 DEF Armed
<1>7. TrapsAccounted'
    <2> SUFFICES ASSUME NEW u \in Threads, past[u], exc[u] = "bp", event # u,
                        At(Home[u], loc[u]) # {}, own[Home[u]][loc[u]] # "int3"
                 PROVE  At(Home[u], loc[u])' # {}
        BY <1>1 DEF TrapsAccounted
    <2>1. PICK id \in At(Home[u], loc[u]) : TRUE
        OBVIOUS
    <2>2. id \in DOMAIN breakpoints /\ ~MayRemove(id)
        BY <2>1 DEF At, MayRemove, Queued, Disciplined
    <2>3. QED
        BY <2>1, <2>2, <1>1, <1>3
<1>8. QED
    BY <1>2, <1>5, <1>6, <1>7

LEMMA InvClient == Disciplined /\ TypeOK /\ IInv /\ ClientStep => IInv'
<1> SUFFICES ASSUME Disciplined, TypeOK, IInv, ClientStep PROVE IInv'
    OBVIOUS
<1> USE HomeAssumption, BoundAssumption DEF IInv, TypeOK
<1>1. ASSUME NEW p \in Procs, NEW a \in Addrs, Set(p, a) PROVE IInv'
    <2> DEFINE new == bp_counter + 1
    <2>1. /\ a \in Sites /\ Candidates(a) = {} /\ a \notin Native
          /\ code' = [code EXCEPT ![p][a] = "int3"]
          /\ UNCHANGED <<own, loc, past, exc, alive, event, pending_single_step,
                         raised, reached>>
        BY <1>1 DEF Set, MaySet, Int3, Poke, Disciplined
    <2>2. /\ new \notin DOMAIN breakpoints /\ new \notin reached /\ bp_counter < new
          /\ bp_counter' = new
        BY <1>1 DEF Set
    <2>3. /\ DOMAIN breakpoints' = DOMAIN breakpoints \cup {new}
          /\ breakpoints'[new] = [addr |-> a, original |-> code[p][a], proc |-> p]
          /\ hits'[new] = 0
          /\ \A id \in DOMAIN breakpoints :
                breakpoints'[id] = breakpoints[id] /\ hits'[id] = hits[id]
        BY <1>1, <2>2 DEF Set, Put, Displaced
    <2> HIDE DEF new
    <2>4. At(p, a) = {} /\ code[p][a] = own[p][a]
        <3>1. At(p, a) = {}
            BY <2>1 DEF At, Candidates
        <3>2. QED
            BY <3>1 DEF CodeAccounted
    <2>5. \A q, b : At(q, b)' = IF q = p /\ b = a THEN At(q, b) \cup {new} ELSE At(q, b)
        BY <2>2, <2>3 DEF At
    <2>6. ProgramUnchanged' /\ OriginalsAreOwn'
        <3>1. ProgramUnchanged'
            BY <2>1 DEF ProgramUnchanged
        <3>2. /\ breakpoints'[new].original = own[p][a]
              /\ breakpoints'[new].proc = p /\ breakpoints'[new].addr = a
            BY <2>3, <2>4
        <3>3. OriginalsAreOwn'
            BY <2>1, <2>3, <3>2 DEF OriginalsAreOwn
        <3>4. QED
            BY <3>1, <3>3
    <2>7. OneRecordPerAddress'
        BY <2>1, <2>3 DEF OneRecordPerAddress, Candidates
    <2>8. PendingMatchesRecord'
        <3>1. \A t \in DOMAIN pending_single_step :
                 pending_single_step[t].id # new /\ pending_single_step[t].id <= new
            BY <2>2 DEF PendingMatchesRecord, Pending, Ids, new
        <3>2. QED
            BY <2>1, <2>2, <2>3, <3>1 DEF PendingMatchesRecord
    <2>9. CodeAccounted'
        <3>1. \A q \in Procs, b \in Addrs :
                 \/ code'[q][b] = code[q][b] /\ At(q, b) \subseteq At(q, b)'
                 \/ code'[q][b] = "int3" /\ At(q, b)' # {}
            BY <2>1, <2>5
        <3>2. QED
            BY <2>1, <3>1 DEF CodeAccounted
    <2>10. TrapsAccounted'
        <3>1. ASSUME NEW q, NEW b, At(q, b) # {} PROVE At(q, b)' # {}
            <4>1. At(q, b) \subseteq At(q, b)'
                <5> HIDE DEF IInv, TypeOK
                <5>1. QED
                    BY <2>5
            <4>2. QED
                BY <3>1, <4>1
        <3>2. QED
            BY <2>1, <3>1 DEF TrapsAccounted
    <2>11. UncountedIsArmed'
        BY <2>1, <2>2, <2>3 DEF UncountedIsArmed, Armed, Breakpoint
    <2>12. QED
        BY <2>6, <2>7, <2>8, <2>9, <2>10, <2>11
<1>2. ASSUME NEW p \in Procs, NEW a \in Addrs PROVE ~SetFails(p, a)
    BY DEF SetFails, Disciplined
<1>3. Outcomes("remove") = {"ok"}
    BY DEF Outcomes, Disciplined
<1>4. ASSUME NEW id \in Ids, Remove(id) PROVE IInv'
    <2>1. /\ id \in DOMAIN breakpoints /\ MayRemove(id) /\ Forget({id})
          /\ code' = [code EXCEPT ![breakpoints[id].proc][breakpoints[id].addr] =
                                     breakpoints[id].original]
        BY <1>4, <1>3 DEF Remove, Restored, Poke
    <2>2. breakpoints[id] \in Breakpoint
        BY <2>1
    <2>3. \A p \in Procs, a \in Addrs :
             code'[p][a] = IF At(p, a) \cap {id} = {} THEN code[p][a] ELSE own[p][a]
        BY <2>1, <2>2 DEF At, OriginalsAreOwn, Breakpoint
    <2>4. QED
        <3> HIDE DEF IInv, TypeOK
        <3>1. Forget({id}) /\ \A i \in DOMAIN breakpoints \cap {id} : MayRemove(i)
            BY <2>1
        <3>2. QED
            BY <2>3, <3>1, InvForget
<1>5. ASSUME NEW outcome \in Outcomes("remove"), NEW last \in Ids, RemoveAll(outcome, last)
      PROVE  IInv'
    <2> DEFINE gone == {id \in DOMAIN breakpoints : id <= last}
    <2>1. /\ gone = DOMAIN breakpoints /\ Forget(gone)
          /\ \A id \in gone : MayRemove(id)
          /\ code' = [p \in Procs |-> [a \in Addrs |->
                  IF Last(At(p, a) \cap gone) = {} THEN code[p][a]
                  ELSE breakpoints[CHOOSE id \in Last(At(p, a) \cap gone) : TRUE].original]]
        <3>1. outcome = "ok"
            BY <1>3
        <3> HIDE DEF IInv, TypeOK
        <3>2. QED
            BY <1>5, <3>1 DEF RemoveAll
    <2> HIDE DEF gone
    <2>2. ASSUME NEW p \in Procs, NEW a \in Addrs
          PROVE  code'[p][a] = IF At(p, a) \cap gone = {} THEN code[p][a] ELSE own[p][a]
        <3>1. At(p, a) \cap gone = At(p, a)
            BY <2>1 DEF At
        <3>2. CASE At(p, a) = {}
            <4>1. Last(At(p, a) \cap gone) = {}
                BY <3>2 DEF Last
            <4>2. QED
                BY <2>1, <3>1, <3>2, <4>1
        <3>3. CASE At(p, a) # {}
            <4>1. PICK id \in DOMAIN breakpoints : At(p, a) = {id}
                BY <3>3 DEF At, OneRecordPerAddress
            <4>2. Last(At(p, a) \cap gone) = {id}
                BY <3>1, <4>1 DEF Last
            <4>3. breakpoints[id].original = own[p][a]
                BY <4>1 DEF At, OriginalsAreOwn
            <4>4. QED
                BY <2>1, <3>1, <4>1, <4>2, <4>3
        <3>4. QED
            BY <3>2, <3>3
    <2>3. QED
        <3> HIDE DEF IInv, TypeOK
        <3>1. Forget(gone) /\ \A i \in DOMAIN breakpoints \cap gone : MayRemove(i)
            BY <2>1
        <3>2. QED
            BY <2>2, <3>1, InvForget
<1>6. ASSUME VerifyAll \/ \E t \in Threads : StepRequest(t) PROVE IInv'
    <2>1. UNCHANGED <<code, own, loc, past, exc, alive, event, breakpoints, bp_counter,
                      pending_single_step, hits, raised, reached>>
        BY <1>6 DEF VerifyAll, StepRequest, target, records
    <2>2. \A p, a : At(p, a)' = At(p, a)
        BY <2>1 DEF At
    <2>3. ProgramUnchanged' /\ OneRecordPerAddress' /\ OriginalsAreOwn' /\ UncountedIsArmed'
        BY <2>1 DEF ProgramUnchanged, OneRecordPerAddress, OriginalsAreOwn,
           UncountedIsArmed, Armed
    <2>4. PendingMatchesRecord'
        BY <2>1 DEF PendingMatchesRecord
    <2>5. CodeAccounted' /\ TrapsAccounted'
        BY <2>1, <2>2 DEF CodeAccounted, TrapsAccounted
    <2>6. QED
        BY <2>3, <2>4, <2>5
<1>7. QED
    BY <1>1, <1>2, <1>4, <1>5, <1>6 DEF ClientStep

LEMMA InvStutter == TypeOK /\ IInv /\ UNCHANGED vars => IInv'
<1> SUFFICES ASSUME TypeOK, IInv, UNCHANGED vars PROVE IInv'
    OBVIOUS
<1> USE DEF IInv, vars, target, records
<1>1. \A p, a : At(p, a)' = At(p, a)
    BY DEF At
<1>2. ProgramUnchanged' /\ OneRecordPerAddress' /\ OriginalsAreOwn' /\ UncountedIsArmed'
    BY DEF ProgramUnchanged, OneRecordPerAddress, OriginalsAreOwn, UncountedIsArmed, Armed
<1>3. PendingMatchesRecord'
    BY DEF PendingMatchesRecord
<1>4. CodeAccounted' /\ TrapsAccounted'
    BY <1>1 DEF CodeAccounted, TrapsAccounted
<1>5. QED
    BY <1>2, <1>3, <1>4

\* For a disciplined client the accounts always balance.
THEOREM Accounts == Disciplined => (Spec => []IInv)
<1> SUFFICES ASSUME Disciplined PROVE Spec => []IInv
    OBVIOUS
<1>1. TypeOK /\ IInv /\ [Next]_vars => IInv'
    BY InvTarget, InvLoop, InvClient, InvStutter DEF Next
<1>2. QED
    BY <1>1, InvInit, TypeCorrect, PTL DEF Spec

\* The safety properties the runs check follow from the accounts.
LEMMA AccountsSuffice ==
    TypeOK /\ IInv => /\ NoMidInstruction /\ CodeAccounted /\ OriginalsAreOwn
                      /\ ZeroHitsNeverReached /\ NoneLeftBehind
<1> SUFFICES ASSUME TypeOK, IInv
             PROVE  NoMidInstruction /\ ZeroHitsNeverReached /\ NoneLeftBehind
    BY DEF IInv
<1> USE HomeAssumption DEF TypeOK, IInv
<1>1. NoMidInstruction
    BY DEF NoMidInstruction, TrapsAccounted
<1>2. ZeroHitsNeverReached
    BY DEF ZeroHitsNeverReached, UncountedIsArmed
<1>3. NoneLeftBehind
    BY DEF NoneLeftBehind, CodeAccounted, At
<1>4. QED
    BY <1>1, <1>2, <1>3

\* No thread ever runs from the middle of an instruction.
THEOREM ThreadsStayAligned == Disciplined => (Spec => []NoMidInstruction)
<1>1. Disciplined => (Spec => [](TypeOK /\ IInv))
    BY Accounts, TypeCorrect, PTL
<1>2. QED
    BY <1>1, AccountsSuffice, PTL

\* The report's (armed, hits = 0) is a true "never reached".
THEOREM ReportIsTrue == Disciplined => (Spec => []ZeroHitsNeverReached)
<1>1. Disciplined => (Spec => [](TypeOK /\ IInv))
    BY Accounts, TypeCorrect, PTL
<1>2. QED
    BY <1>1, AccountsSuffice, PTL

\* remove_all_breakpoints() leaves no INT3 of ours in the target.
THEOREM NoStaleInt3 == Disciplined => (Spec => []NoneLeftBehind)
<1>1. Disciplined => (Spec => [](TypeOK /\ IInv))
    BY Accounts, TypeCorrect, PTL
<1>2. QED
    BY <1>1, AccountsSuffice, PTL

-----------------------------------------------------------------------------
(* Refinement: the debugged target is the program.                         *)

LEMMA StepIsProgramStep ==
    Disciplined /\ TypeOK /\ IInv /\ [Next]_vars => [Program!Next]_<<loc, alive>>
<1> SUFFICES ASSUME Disciplined, TypeOK, IInv, Next
             PROVE  Program!Next \/ UNCHANGED <<loc, alive>>
    BY DEF vars, target
<1>1. ASSUME NEW t \in Threads, Execute(t) PROVE Program!Execute(t)
    <2>1. Genuine(t)
        BY <1>1, HomeAssumption
           DEF Execute, Runnable, Genuine, TrapsAccounted, CodeAccounted, TypeOK, IInv
    <2>2. QED
        BY <1>1, <2>1 DEF Execute, Runnable, Program!Execute
<1>2. ASSUME NEW t \in Threads, ExitThread(t) PROVE Program!Exit(t)
    BY <1>2 DEF ExitThread, Runnable, Program!Exit
<1>3. ASSUME NEW t \in Threads, StartThread(t) PROVE Program!Start(t)
    BY <1>3 DEF StartThread, Program!Start
<1>4. ASSUME NEW t \in Threads, Trap(t) PROVE UNCHANGED <<loc, alive>>
    BY <1>4 DEF Trap
<1>5. ASSUME NEW p \in Procs, NEW a \in Addrs, Overwrite(p, a) PROVE UNCHANGED <<loc, alive>>
    BY <1>5 DEF Overwrite
<1>6. CASE TargetStep
    BY <1>6, <1>1, <1>2, <1>3, <1>4, <1>5 DEF TargetStep, Program!Next
<1>7. CASE LoopStep
    BY <1>7 DEF LoopStep, HitBreakpoint, HitRestoreFails, BeginHit, HitDegraded,
       ForeignBreakpoint, ForeignStep, Rearm, Continue, target
<1>8. CASE ClientStep
    BY <1>8 DEF ClientStep, Set, SetFails, Remove, RemoveAll, Forget, VerifyAll,
       StepRequest, target
<1>9. QED
    BY <1>6, <1>7, <1>8 DEF Next

\* Breakpoints are transparent: through the locations of its threads, a target
\* debugged by a disciplined client is the undebugged program.
THEOREM BreakpointsAreTransparent == Disciplined => (Spec => Transparent)
<1> SUFFICES ASSUME Disciplined PROVE Spec => Transparent
    OBVIOUS
<1>1. Init => Program!Init
    BY DEF Init, Program!Init
<1>2. TypeOK /\ IInv /\ [Next]_vars => [Program!Next]_<<loc, alive>>
    BY StepIsProgramStep
<1>3. QED
    BY <1>1, <1>2, Accounts, TypeCorrect, PTL DEF Spec, Transparent, Program!Spec

-----------------------------------------------------------------------------
(* No breakpoint is forgotten, as long as no thread exits, whatever fails. *)

\* An address has one record, and a pending step agrees with its record.
Slots == OneRecordPerAddress /\ PendingMatchesRecord

LEMMA SlotsForget ==
    ASSUME TypeOK, Slots, NEW K, Forget(K)
    PROVE  Slots'
<1>1. /\ DOMAIN breakpoints' = DOMAIN breakpoints \ K
      /\ \A id \in DOMAIN breakpoints' : breakpoints'[id] = breakpoints[id]
      /\ UNCHANGED <<bp_counter, pending_single_step>>
    BY DEF Forget, Drop, Restrict
<1>2. OneRecordPerAddress'
    BY <1>1 DEF Slots, OneRecordPerAddress
<1>3. PendingMatchesRecord'
    BY <1>1 DEF Slots, PendingMatchesRecord
<1>4. QED
    BY <1>2, <1>3 DEF Slots

LEMMA SlotsSet ==
    ASSUME Sharing = {}, TypeOK, Slots, NEW p \in Procs, NEW a \in Addrs, Set(p, a)
    PROVE  Slots'
<1> DEFINE new == bp_counter + 1
<1>1. /\ a \in Sites /\ Candidates(a) = {} /\ bp_counter' = new
      /\ new \notin DOMAIN breakpoints /\ bp_counter \in Nat
      /\ UNCHANGED pending_single_step
    BY DEF Set, MaySet, Candidates, At, TypeOK
<1>2. /\ DOMAIN breakpoints' = DOMAIN breakpoints \cup {new}
      /\ breakpoints'[new].addr = a
      /\ \A id \in DOMAIN breakpoints : breakpoints'[id] = breakpoints[id]
    BY <1>1 DEF Set, Put
<1>3. OneRecordPerAddress'
    BY <1>1, <1>2 DEF Slots, OneRecordPerAddress, Candidates
<1>4. PendingMatchesRecord'
    <2>1. \A u \in DOMAIN pending_single_step : pending_single_step[u].id \in Nat
        BY BoundAssumption DEF TypeOK, Pending, Ids
    <2>2. \A u \in DOMAIN pending_single_step : pending_single_step[u].id # new
        BY <1>1, <2>1 DEF Slots, PendingMatchesRecord
    <2>3. QED
        BY <1>1, <1>2, <2>1, <2>2 DEF Slots, PendingMatchesRecord
<1>5. QED
    BY <1>3, <1>4 DEF Slots

LEMMA SlotsLoop ==
    ASSUME TypeOK, Slots, LoopStep
    PROVE  Slots'
<1>1. UNCHANGED <<breakpoints, bp_counter>>
    BY DEF LoopStep, HitBreakpoint, HitRestoreFails, HitDegraded, BeginHit,
       ForeignBreakpoint, Rearm, ForeignStep, Continue, records
<1>2. \A t \in DOMAIN pending_single_step' :
         \/ t \in DOMAIN pending_single_step /\ pending_single_step'[t] = pending_single_step[t]
         \/ \E id \in DOMAIN breakpoints :
               pending_single_step'[t] = [id |-> id, addr |-> breakpoints[id].addr,
                                          proc |-> breakpoints[id].proc]
    <2>1. ASSUME NEW t \in Threads, NEW id \in Ids, HitBreakpoint(t, id)
          PROVE  /\ id \in DOMAIN breakpoints
                 /\ pending_single_step' = Put(pending_single_step, t,
                       [id |-> id, addr |-> breakpoints[id].addr, proc |-> breakpoints[id].proc])
        BY <2>1 DEF HitBreakpoint, BeginHit, Finds, Candidates
    <2>2. ASSUME NEW t \in Threads, Rearm(t)
          PROVE  pending_single_step' = Drop(pending_single_step, {t})
        BY <2>2 DEF Rearm, Popped
    <2>3. ASSUME NEW t \in Threads, NEW id \in Ids, HitRestoreFails(t, id) \/ HitDegraded(t, id)
          PROVE  UNCHANGED pending_single_step
        BY <2>3 DEF HitRestoreFails, HitDegraded
    <2>4. ASSUME Continue \/ \E t \in Threads : ForeignBreakpoint(t) \/ ForeignStep(t)
          PROVE  UNCHANGED pending_single_step
        BY <2>4 DEF Continue, ForeignBreakpoint, ForeignStep, records
    <2>5. CASE UNCHANGED pending_single_step
        BY <2>5
    <2>6. CASE \E t \in Threads, id \in Ids : HitBreakpoint(t, id)
        <3>1. PICK t \in Threads, id \in Ids : HitBreakpoint(t, id)
            BY <2>6
        <3> DEFINE entry == [id |-> id, addr |-> breakpoints[id].addr,
                             proc |-> breakpoints[id].proc]
        <3>2. id \in DOMAIN breakpoints /\ pending_single_step' = Put(pending_single_step, t, entry)
            BY <2>1, <3>1
        <3>3. \A u \in DOMAIN pending_single_step' :
                 \/ u \in DOMAIN pending_single_step /\ pending_single_step'[u] = pending_single_step[u]
                 \/ pending_single_step'[u] = entry
            <4> HIDE DEF entry
            <4>1. QED
                BY <3>2 DEF Put
        <3>4. QED
            BY <3>2, <3>3
    <2>7. CASE \E t \in Threads : Rearm(t)
        BY <2>2, <2>7 DEF Drop, Restrict
    <2>8. QED
        BY <2>3, <2>4, <2>5, <2>6, <2>7 DEF LoopStep
<1>3. DOMAIN breakpoints \subseteq 1..bp_counter /\ bp_counter \in Nat
    BY DEF TypeOK
<1>4. PendingMatchesRecord'
    BY <1>1, <1>2, <1>3 DEF Slots, PendingMatchesRecord
<1>5. QED
    BY <1>1, <1>4 DEF Slots, OneRecordPerAddress

LEMMA SlotsStep ==
    ASSUME Sharing = {}, TypeOK, Slots, [Next]_vars
    PROVE  Slots'
<1>1. CASE UNCHANGED <<breakpoints, bp_counter, pending_single_step>>
    BY <1>1 DEF Slots, OneRecordPerAddress, PendingMatchesRecord
<1>2. CASE TargetStep \/ UNCHANGED vars
    BY <1>1, <1>2 DEF TargetStep, Trap, Execute, ExitThread, StartThread, Overwrite, records, vars
<1>3. CASE ClientStep
    BY <1>1, <1>3, SlotsSet, SlotsForget DEF ClientStep, SetFails, Remove, RemoveAll,
       VerifyAll, StepRequest, records
<1>4. QED
    BY <1>2, <1>3, SlotsLoop DEF Next

LEMMA SlotsHold == Sharing = {} => (Spec => [](TypeOK /\ Slots))
<1> SUFFICES ASSUME Sharing = {} PROVE Spec => [](TypeOK /\ Slots)
    OBVIOUS
<1>1. Init => Slots
    BY DEF Init, Empty, Slots, OneRecordPerAddress, PendingMatchesRecord
<1>2. TypeOK /\ Slots /\ [Next]_vars => Slots'
    BY SlotsStep
<1>3. QED
    BY <1>1, <1>2, TypeCorrect, PTL DEF Spec

\* A record without its INT3 is about to be stepped off by a live thread, or
\* the target overwrote the site.
SteppedOver(id) == \E t \in DOMAIN pending_single_step :
                      /\ pending_single_step[t].id = id
                      /\ alive[t] /\ (tf[t] \/ exc[t] = "ss")
OutExplained ==
    raised \/ \A id \in DOMAIN breakpoints :
                 Armed(id) \/ id \in overwritten \/ SteppedOver(id)

\* The target overwrites what it unpacks, and nothing else.
WritesWhatItUnpacks ==
    \A id \in DOMAIN breakpoints \cap overwritten : breakpoints[id].addr \in Unpacked

LEMMA SteppingTarget ==
    ASSUME Exits = {}, TypeOK, StepsScheduled, OutExplained, TargetStep
    PROVE  StepsScheduled' /\ OutExplained'
<1> USE HomeAssumption DEF TypeOK
<1>1. ASSUME NEW t \in Threads, Trap(t) \/ Execute(t)
      PROVE  StepsScheduled' /\ OutExplained'
    <2>1. /\ UNCHANGED <<code, breakpoints, pending_single_step, raised, alive, event,
                         overwritten>>
          /\ exc[t] = "none" /\ event # t
          /\ \A u \in Threads : u # t => tf'[u] = tf[u] /\ exc'[u] = exc[u]
                                           /\ loc'[u] = loc[u]
          /\ \/ exc'[t] = "bp" /\ tf'[t] = tf[t] /\ loc'[t] = loc[t]
             \/ exc'[t] = IF tf[t] THEN "ss" ELSE "none"
        BY <1>1 DEF Trap, Execute, Runnable, Stopped, records
    <2>2. StepsScheduled'
        BY <2>1 DEF StepsScheduled
    <2>3. ASSUME NEW i \in DOMAIN breakpoints, ~raised, ~Armed(i), i \notin overwritten
          PROVE  \E u \in DOMAIN pending_single_step :
                    /\ pending_single_step[u].id = i
                    /\ alive[u] /\ (tf'[u] \/ exc'[u] = "ss")
        <3>1. PICK u \in DOMAIN pending_single_step :
                 pending_single_step[u].id = i /\ (tf[u] \/ exc[u] = "ss")
            BY <2>3 DEF OutExplained, SteppedOver
        <3>2. alive[u] /\ u \in Threads
            BY DEF StepsScheduled
        <3>3. tf'[u] \/ exc'[u] = "ss"
            <4>1. CASE u = t
                BY <4>1, <3>1, <2>1
            <4>2. CASE u # t
                BY <4>2, <3>1, <3>2, <2>1
            <4>3. QED
                BY <4>1, <4>2
        <3>4. QED
            BY <3>1, <3>2, <3>3
    <2>4. OutExplained'
        BY <2>1, <2>3 DEF OutExplained, SteppedOver, Armed
    <2>5. QED
        BY <2>2, <2>4
<1>2. ASSUME NEW t \in Threads PROVE ~ExitThread(t) /\ ~StartThread(t)
    BY DEF ExitThread, StartThread, StepsScheduled
<1>3. ASSUME NEW p \in Procs, NEW a \in Addrs, Overwrite(p, a)
      PROVE  StepsScheduled' /\ OutExplained'
    <2>1. /\ UNCHANGED <<exc, alive, loc, tf, event, pending_single_step, breakpoints, raised>>
          /\ code' = [code EXCEPT ![p][a] = "new"]
          /\ overwritten' = overwritten \cup At(p, a)
        BY <1>3 DEF Overwrite, records
    <2>2. ASSUME NEW i \in DOMAIN breakpoints, i \notin At(p, a), Armed(i) PROVE Armed(i)'
        BY <2>1, <2>2 DEF Armed, At, Breakpoint
    <2>3. OutExplained'
        BY <2>1, <2>2 DEF OutExplained, SteppedOver
    <2>4. QED
        BY <2>1, <2>3 DEF StepsScheduled
<1>4. QED
    BY <1>1, <1>2, <1>3 DEF TargetStep

LEMMA SteppingLoop ==
    ASSUME TypeOK, Slots, StepsScheduled, OutExplained, LoopStep
    PROVE  StepsScheduled' /\ OutExplained'
<1> USE HomeAssumption DEF TypeOK
<1>1. ASSUME NEW t \in Threads, NEW id \in Ids, HitBreakpoint(t, id)
      PROVE  StepsScheduled' /\ OutExplained'
    <2> DEFINE entry == [id |-> id, addr |-> loc[t], proc |-> breakpoints[id].proc]
    <2>1. /\ id \in DOMAIN breakpoints /\ breakpoints[id].addr = loc[t]
          /\ breakpoints[id] \in Breakpoint
          /\ event = NoThread /\ event' = t /\ exc[t] = "bp"
          /\ UNCHANGED <<exc, alive, loc, breakpoints, raised, overwritten>>
          /\ tf' = [tf EXCEPT ![t] = TRUE]
          /\ code' = [code EXCEPT ![breakpoints[id].proc][loc[t]] = breakpoints[id].original]
          /\ pending_single_step' = Put(pending_single_step, t, entry)
        BY <1>1 DEF HitBreakpoint, BeginHit, Finds, Candidates, Deliverable, Restored, Poke,
           Rewind, SetTrapFlag
    <2>2. entry.id = id /\ entry.addr = loc[t]
        OBVIOUS
    <2> HIDE DEF entry
    <2>3. /\ DOMAIN pending_single_step' = DOMAIN pending_single_step \cup {t}
          /\ pending_single_step'[t] = entry
          /\ \A u \in DOMAIN pending_single_step :
                u # t => pending_single_step'[u] = pending_single_step[u]
        BY <2>1 DEF Put
    <2>4. StepsScheduled'
        BY <2>1, <2>2, <2>3 DEF StepsScheduled
    <2>5. ASSUME NEW i \in DOMAIN breakpoints, ~Armed(i)', i \notin overwritten, ~raised
          PROVE  \E u \in DOMAIN pending_single_step' :
                    /\ pending_single_step'[u].id = i
                    /\ alive'[u] /\ (tf'[u] \/ exc'[u] = "ss")
        <3>1. CASE i = id
            BY <3>1, <2>1, <2>2, <2>3 DEF StepsScheduled
        <3>2. CASE i # id
            <4>1. breakpoints[i].addr # loc[t]
                BY <3>2, <2>1 DEF Slots, OneRecordPerAddress
            <4>2. breakpoints[i] \in Breakpoint
                OBVIOUS
            <4>3. ~Armed(i)
                BY <2>5, <2>1, <4>1, <4>2 DEF Armed, Breakpoint
            <4>4. PICK u \in DOMAIN pending_single_step :
                     pending_single_step[u].id = i /\ (tf[u] \/ exc[u] = "ss")
                BY <4>3, <2>5 DEF OutExplained, SteppedOver
            <4>5. u # t
                BY <4>4, <4>1, <2>1 DEF StepsScheduled, Slots, PendingMatchesRecord
            <4>6. QED
                BY <4>4, <4>5, <2>1, <2>3 DEF StepsScheduled
        <3>3. QED
            BY <3>1, <3>2
    <2>6. QED
        BY <2>1, <2>4, <2>5 DEF OutExplained, SteppedOver
<1>2. ASSUME NEW t \in Threads, NEW id \in Ids, HitRestoreFails(t, id) \/ HitDegraded(t, id)
      PROVE  StepsScheduled' /\ OutExplained'
    <2>1. /\ exc[t] = "bp" /\ event' = t /\ raised'
          /\ UNCHANGED <<exc, alive, loc, tf, pending_single_step>>
        BY <1>2 DEF HitRestoreFails, HitDegraded, BeginHit
    <2>2. QED
        BY <2>1 DEF StepsScheduled, OutExplained
<1>3. ASSUME NEW t \in Threads, ForeignBreakpoint(t) \/ ForeignStep(t)
      PROVE  StepsScheduled' /\ OutExplained'
    <2>1. /\ event' = t /\ (exc[t] = "bp" \/ t \notin DOMAIN pending_single_step)
          /\ UNCHANGED <<code, exc, alive, loc, tf, pending_single_step, breakpoints, raised,
                         overwritten>>
        BY <1>3 DEF ForeignBreakpoint, ForeignStep, target, records
    <2>2. QED
        BY <2>1 DEF StepsScheduled, OutExplained, SteppedOver, Armed
<1>4. ASSUME NEW t \in Threads, Rearm(t)
      PROVE  StepsScheduled' /\ OutExplained'
    <2> DEFINE entry == pending_single_step[t]
    <2>1. /\ t \in DOMAIN pending_single_step /\ event = NoThread /\ ~raised
          /\ DOMAIN pending_single_step' = DOMAIN pending_single_step \ {t}
          /\ \A u \in DOMAIN pending_single_step' :
                pending_single_step'[u] = pending_single_step[u]
          /\ UNCHANGED <<alive, loc, tf, breakpoints, overwritten>>
          /\ \A u \in Threads : u # t => exc'[u] = exc[u]
          /\ event' \in {t, NoThread}
        BY <1>4 DEF Rearm, Popped, Deliverable, Drop, Restrict
    <2>2. StepsScheduled'
        BY <2>1 DEF StepsScheduled
    <2>3. entry \in Pending
        BY <2>1
    <2>4. raised' \/ \A i \in DOMAIN breakpoints :
                       (Armed(i) \/ i = entry.id) => Armed(i)'
        <3>1. CASE entry.id \in DOMAIN breakpoints
            <4>1. PICK outcome :
                     /\ code' = Poke(code, entry.proc, entry.addr, "int3", outcome)
                     /\ raised' = (outcome # "ok")
                BY <1>4, <3>1 DEF Rearm, Recorded, Int3
            <4>2. breakpoints[entry.id].addr = entry.addr
                  /\ breakpoints[entry.id].proc = entry.proc
                BY <3>1, <2>1 DEF Slots, PendingMatchesRecord
            <4>3. \A i \in DOMAIN breakpoints : breakpoints[i] \in Breakpoint
                OBVIOUS
            <4>4. raised' \/ code' = [code EXCEPT ![entry.proc][entry.addr] = "int3"]
                BY <4>1 DEF Poke
            <4> HIDE DEF entry
            <4>5. ASSUME ~raised', NEW i \in DOMAIN breakpoints, Armed(i) \/ i = entry.id
                  PROVE  Armed(i)'
                <5>1. /\ code' = [code EXCEPT ![entry.proc][entry.addr] = "int3"]
                      /\ breakpoints' = breakpoints
                    BY <4>4, <4>5, <2>1
                <5>2. breakpoints[i].proc \in Procs /\ breakpoints[i].addr \in Addrs
                    BY <4>3 DEF Breakpoint
                <5>3. CASE i = entry.id
                    BY <5>1, <5>2, <5>3, <4>2 DEF Armed
                <5>4. CASE Armed(i)
                    BY <5>1, <5>2, <5>4 DEF Armed
                <5>5. QED
                    BY <4>5, <5>3, <5>4
            <4>6. QED
                BY <4>5
        <3>2. CASE entry.id \notin DOMAIN breakpoints
            BY <1>4, <3>2, <2>1 DEF Rearm, Recorded, Armed
        <3>3. QED
            BY <3>1, <3>2
    <2>5. ASSUME NEW i \in DOMAIN breakpoints, ~raised', ~Armed(i)', i \notin overwritten
          PROVE  \E u \in DOMAIN pending_single_step' :
                    /\ pending_single_step'[u].id = i
                    /\ alive'[u] /\ (tf'[u] \/ exc'[u] = "ss")
        <3>1. i # entry.id /\ ~Armed(i)
            BY <2>4, <2>5
        <3>2. PICK u \in DOMAIN pending_single_step :
                 /\ pending_single_step[u].id = i
                 /\ alive[u] /\ (tf[u] \/ exc[u] = "ss")
            BY <3>1, <2>1, <2>5 DEF OutExplained, SteppedOver
        <3>3. u # t /\ u \in Threads
            BY <3>1, <3>2
        <3>4. QED
            BY <3>2, <3>3, <2>1
    <2>6. OutExplained'
        BY <2>1, <2>5 DEF OutExplained, SteppedOver
    <2>7. QED
        BY <2>2, <2>6
<1>5. CASE Continue
    <2>1. /\ UNCHANGED <<code, alive, loc, tf, pending_single_step, breakpoints, raised,
                         overwritten>>
          /\ event \in Threads /\ event' = NoThread
          /\ exc' = [exc EXCEPT ![event] = "none"]
        BY <1>5 DEF Continue, records
    <2>2. StepsScheduled'
        BY <2>1 DEF StepsScheduled
    <2>3. OutExplained'
        BY <2>1 DEF StepsScheduled, OutExplained, SteppedOver, Armed
    <2>4. QED
        BY <2>2, <2>3
<1>6. QED
    BY <1>1, <1>2, <1>3, <1>4, <1>5 DEF LoopStep

\* Forgetting records disarms none of those that stay.
LEMMA ForgetDisarmsNone ==
    ASSUME TypeOK, Slots, NEW K, Forget(K),
           \A p \in Procs, a \in Addrs :
              code'[p][a] = code[p][a] \/ At(p, a) \cap K # {},
           NEW i \in DOMAIN breakpoints'
    PROVE  /\ i \in DOMAIN breakpoints
           /\ Armed(i) => Armed(i)'
<1> USE DEF TypeOK
<1>1. i \in DOMAIN breakpoints /\ i \notin K /\ breakpoints'[i] = breakpoints[i]
    BY DEF Forget, CountsWithout, Drop, Restrict
<1>2. breakpoints[i].proc \in Procs /\ breakpoints[i].addr \in Addrs
    BY <1>1 DEF Breakpoint
<1>3. At(breakpoints[i].proc, breakpoints[i].addr) \cap K = {}
    BY <1>1 DEF At, Slots, OneRecordPerAddress
<1>4. QED
    BY <1>1, <1>2, <1>3 DEF Armed

\* remove() writes to the address of its record, whatever comes of the write.
LEMMA RestoredTouches ==
    ASSUME TypeOK, NEW id \in DOMAIN breakpoints, NEW outcome
    PROVE  \A p \in Procs, a \in Addrs :
              Restored(id, outcome)[p][a] = code[p][a] \/ At(p, a) \cap {id} # {}
<1>1. breakpoints[id] \in Breakpoint
    BY DEF TypeOK
<1>2. QED
    BY <1>1 DEF Restored, Poke, At, Breakpoint, TypeOK

LEMMA SteppingClient ==
    ASSUME Sharing = {}, TypeOK, Slots, StepsScheduled, OutExplained, ClientStep
    PROVE  StepsScheduled' /\ OutExplained'
<1> USE HomeAssumption DEF TypeOK
<1>1. /\ UNCHANGED <<alive, exc, loc, event, pending_single_step, raised, overwritten>>
      /\ \A t \in Threads : tf[t] => tf'[t]
    BY DEF ClientStep, Set, SetFails, Remove, RemoveAll, Forget, VerifyAll, StepRequest,
       target, records
<1>2. StepsScheduled'
    BY <1>1 DEF StepsScheduled
\* No call disarms a breakpoint whose record stays.
<1>3. \A i \in DOMAIN breakpoints' :
         \/ Armed(i)'
         \/ i \in DOMAIN breakpoints /\ ~Armed(i)
    <2> SUFFICES ASSUME NEW i \in DOMAIN breakpoints', i \in DOMAIN breakpoints => Armed(i)
                 PROVE  Armed(i)'
        OBVIOUS
    <2>1. TypeOK'
        BY TypeClient
    <2>2. ASSUME NEW p \in Procs, NEW a \in Addrs, Set(p, a) PROVE Armed(i)'
        <3>1. /\ code' = [code EXCEPT ![p][a] = "int3"]
              /\ DOMAIN breakpoints' = DOMAIN breakpoints \cup {bp_counter + 1}
              /\ breakpoints'[i] = IF i = bp_counter + 1
                                   THEN [addr |-> a, original |-> code[p][a], proc |-> p]
                                   ELSE breakpoints[i]
            BY <2>2 DEF Set, Put, Int3, Poke, Displaced
        <3>2. breakpoints'[i] \in Breakpoint
            BY <2>1
        <3>3. QED
            BY <3>1, <3>2 DEF Armed, Breakpoint
    <2>3. ASSUME NEW p \in Procs, NEW a \in Addrs, SetFails(p, a) PROVE Armed(i)'
        <3>1. code' = [code EXCEPT ![p][a] = "int3"] /\ breakpoints' = breakpoints
            BY <2>3 DEF SetFails, records
        <3>2. breakpoints[i] \in Breakpoint /\ Armed(i)
            BY <3>1
        <3>3. QED
            BY <3>1, <3>2 DEF Armed, Breakpoint
    <2>4. ASSUME NEW id \in Ids, Remove(id) PROVE Armed(i)'
        <3>1. PICK outcome : id \in DOMAIN breakpoints /\ code' = Restored(id, outcome)
            BY <2>4 DEF Remove
        <3>2. Forget({id})
            BY <2>4 DEF Remove
        <3>3. \A p \in Procs, a \in Addrs :
                 code'[p][a] = code[p][a] \/ At(p, a) \cap {id} # {}
            BY <3>1, RestoredTouches
        <3>4. QED
            BY <3>2, <3>3, ForgetDisarmsNone
    <2>5. ASSUME NEW outcome \in Outcomes("remove"), NEW last \in Ids,
                 RemoveAll(outcome, last)
          PROVE  Armed(i)'
        <3> DEFINE gone == {id \in DOMAIN breakpoints : id <= last}
        <3>1. Forget(gone)
            BY <2>5 DEF RemoveAll
        <3>2. ASSUME NEW p \in Procs, NEW a \in Addrs, At(p, a) \cap gone = {}
              PROVE  code'[p][a] = code[p][a]
            <4> DEFINE written == IF outcome = "before" THEN gone \ {last} ELSE gone
            <4>1. code' = [q \in Procs |-> [b \in Addrs |->
                     IF Last(At(q, b) \cap written) = {} THEN code[q][b]
                     ELSE breakpoints[CHOOSE id \in Last(At(q, b) \cap written) : TRUE].original]]
                BY <2>5 DEF RemoveAll
            <4>2. Last(At(p, a) \cap written) = {}
                BY <3>2 DEF Last
            <4>3. QED
                BY <4>1, <4>2
        <3>3. QED
            BY <3>1, <3>2, ForgetDisarmsNone
    <2>6. ASSUME VerifyAll \/ \E t \in Threads : StepRequest(t) PROVE Armed(i)'
        BY <2>6 DEF VerifyAll, StepRequest, target, records, Armed
    <2>7. QED
        BY <2>2, <2>3, <2>4, <2>5, <2>6 DEF ClientStep
<1>4. OutExplained'
    BY <1>1, <1>3 DEF OutExplained, SteppedOver
<1>5. QED
    BY <1>2, <1>4

LEMMA WritesStep ==
    ASSUME TypeOK, WritesWhatItUnpacks, [Next]_vars
    PROVE  WritesWhatItUnpacks'
<1>1. ASSUME DOMAIN breakpoints' \subseteq DOMAIN breakpoints, UNCHANGED overwritten,
             \A i \in DOMAIN breakpoints' : breakpoints'[i] = breakpoints[i]
      PROVE  WritesWhatItUnpacks'
    BY <1>1 DEF WritesWhatItUnpacks
<1>2. CASE UNCHANGED vars
    BY <1>1, <1>2 DEF vars, records
<1>3. CASE TargetStep
    <2>1. ASSUME NEW p \in Procs, NEW a \in Addrs, Overwrite(p, a) PROVE WritesWhatItUnpacks'
        BY <2>1 DEF Overwrite, At, WritesWhatItUnpacks, records
    <2>2. QED
        BY <1>1, <1>3, <2>1 DEF TargetStep, Trap, Execute, ExitThread, StartThread, records
<1>4. CASE LoopStep
    <2>1. UNCHANGED <<breakpoints, overwritten>>
        BY <1>4 DEF LoopStep, HitBreakpoint, HitRestoreFails, HitDegraded, BeginHit,
           ForeignBreakpoint, Rearm, ForeignStep, Continue, records
    <2>2. QED
        BY <1>1, <2>1
<1>5. CASE ClientStep
    <2>1. ASSUME NEW p \in Procs, NEW a \in Addrs, Set(p, a) PROVE WritesWhatItUnpacks'
        <3>1. /\ bp_counter + 1 \notin overwritten /\ overwritten' = overwritten
              /\ DOMAIN breakpoints' = DOMAIN breakpoints \cup {bp_counter + 1}
              /\ \A i \in DOMAIN breakpoints : i # bp_counter + 1 => breakpoints'[i] = breakpoints[i]
            BY <2>1, BoundAssumption DEF Set, Put, TypeOK
        <3>2. QED
            BY <3>1 DEF WritesWhatItUnpacks
    <2>2. ASSUME NEW K, Forget(K) PROVE WritesWhatItUnpacks'
        BY <1>1, <2>2 DEF Forget, Drop, Restrict
    <2>3. QED
        BY <1>1, <1>5, <2>1, <2>2 DEF ClientStep, SetFails, Remove, RemoveAll, VerifyAll,
           StepRequest, records
<1>6. QED
    BY <1>2, <1>3, <1>4, <1>5 DEF Next

Stepping == StepsScheduled /\ OutExplained /\ WritesWhatItUnpacks

LEMMA SteppingStep ==
    ASSUME Sharing = {}, Exits = {}, TypeOK, Slots, Stepping, [Next]_vars
    PROVE  Stepping'
<1>1. CASE UNCHANGED vars
    BY <1>1 DEF vars, target, records, Stepping, StepsScheduled, OutExplained, SteppedOver,
       WritesWhatItUnpacks, Armed
<1>2. QED
    BY <1>1, WritesStep, SteppingTarget, SteppingLoop, SteppingClient DEF Next, Stepping

LEMMA SteppingHolds ==
    ASSUME Sharing = {}, Exits = {}
    PROVE  Spec => [](TypeOK /\ Slots /\ Stepping)
<1>1. Init => Stepping
    BY DEF Init, Empty, Stepping, StepsScheduled, OutExplained, WritesWhatItUnpacks
<1>2. TypeOK /\ Slots /\ Stepping /\ [Next]_vars => Stepping'
    BY SteppingStep
<1>3. QED
    BY <1>1, <1>2, SlotsHold, PTL DEF Spec

\* A breakpoint whose INT3 is out is being stepped over by a live thread, for
\* a client that sets one breakpoint per address, a target that neither
\* overwrites its code nor ends a thread, and whatever fails.
THEOREM NoneForgotten ==
    Sharing = {} /\ Unpacked = {} /\ Exits = {} => (Spec => []DisarmedOnlyWhileStepping)
<1> SUFFICES ASSUME Sharing = {}, Unpacked = {}, Exits = {}
             PROVE  Spec => []DisarmedOnlyWhileStepping
    OBVIOUS
<1>1. Stepping => DisarmedOnlyWhileStepping
    BY DEF Stepping, OutExplained, SteppedOver, WritesWhatItUnpacks, DisarmedOnlyWhileStepping
<1>2. QED
    BY <1>1, SteppingHolds, PTL

LEMMA NothingRaises ==
    ASSUME Faults \cap {"hit", "context", "step"} = {}, ~raised, [Next]_vars
    PROVE  ~raised'
<1>1. "hit" \notin Faults /\ "context" \notin Faults /\ "step" \notin Faults
    OBVIOUS
<1>2. ASSUME NEW t \in Threads, NEW id \in Ids PROVE ~HitRestoreFails(t, id) /\ ~HitDegraded(t, id)
    BY <1>1 DEF HitRestoreFails, HitDegraded, Outcomes
<1>3. ASSUME NEW t \in Threads, Rearm(t) PROVE ~raised'
    BY <1>1, <1>3 DEF Rearm, Outcomes
<1>4. CASE TargetStep \/ UNCHANGED vars
    BY <1>4 DEF TargetStep, Trap, Execute, ExitThread, StartThread, Overwrite, vars
<1>5. CASE LoopStep
    BY <1>2, <1>3, <1>5 DEF LoopStep, HitBreakpoint, ForeignBreakpoint, ForeignStep, Continue
<1>6. CASE ClientStep
    BY <1>6 DEF ClientStep, Set, SetFails, Remove, RemoveAll, Forget, VerifyAll, StepRequest
<1>7. QED
    BY <1>4, <1>5, <1>6 DEF Next

\* A breakpoint verify_breakpoints() starts to report was overwritten by the
\* target, or is out for a step some thread has to make: for a client that
\* sets one breakpoint per address, when the bytes can be read and no call of
\* the event loop fails.  It may fail to set or remove breakpoints.
THEOREM ReportsExplainThemselves ==
    Sharing = {} /\ Exits = {} /\ Faults \cap {"hit", "context", "step", "verify"} = {}
        => (Spec => LostIsExplained)
<1> SUFFICES ASSUME Sharing = {}, Exits = {},
                    Faults \cap {"hit", "context", "step", "verify"} = {}
             PROVE  Spec => LostIsExplained
    OBVIOUS
<1>1. Init => ~raised
    BY DEF Init
<1>2. ~raised /\ [Next]_vars => ~raised'
    BY NothingRaises
<1>3. TypeOK /\ Slots /\ Stepping /\ ~raised /\ [Next]_vars =>
         [\A id \in lost' \ lost :
            id \in overwritten \/ \E t \in DOMAIN pending_single_step :
                                       pending_single_step[t].id = id]_vars
    <2> SUFFICES ASSUME TypeOK, Stepping, ~raised, Next, NEW id \in lost' \ lost,
                        id \notin overwritten
                 PROVE  \E t \in DOMAIN pending_single_step : pending_single_step[t].id = id
        OBVIOUS
    <2>1. VerifyAll
        <3>1. ~TargetStep
            BY DEF TargetStep, Trap, Execute, ExitThread, StartThread, Overwrite, records
        <3>2. ~LoopStep
            BY DEF LoopStep, HitBreakpoint, HitRestoreFails, HitDegraded, BeginHit,
               ForeignBreakpoint, Rearm, ForeignStep, Continue, records
        <3>3. QED
            BY <3>1, <3>2 DEF Next, ClientStep, Set, SetFails, Remove, RemoveAll, Forget,
               StepRequest, records
    <2>2. id \in DOMAIN breakpoints /\ ~Armed(id)
        BY <2>1 DEF VerifyAll
    <2>3. QED
        BY <2>2 DEF Stepping, OutExplained, SteppedOver
<1>4. QED
    BY <1>1, <1>2, <1>3, SteppingHolds, PTL DEF Spec, LostIsExplained

-----------------------------------------------------------------------------
(* Which breakpoint a hit is of, also when the target unpacks itself.      *)

\* What the client keeps to: one breakpoint per address, none on an INT3 of
\* the program and none removed behind a queued hit; set_breakpoint() and
\* remove_breakpoint() do not fail.
Careful == /\ Sharing = {} /\ RemoveQueued = FALSE /\ Native \cap Sites = {}
           /\ Faults \cap {"set", "remove"} = {}

IntsAreOurs == \A p \in Procs, a \in Addrs :
                  code[p][a] = "int3" => a \in Native \/ At(p, a) # {}

OwnElsewhere == \A p \in Procs, a \in Addrs \ Unpacked :
                   code[p][a] \in {own[p][a], "int3"}

OriginalsTrue ==
    \A id \in DOMAIN breakpoints :
        /\ breakpoints[id].original # "int3"
        /\ breakpoints[id].addr \notin Unpacked =>
              breakpoints[id].original = own[breakpoints[id].proc][breakpoints[id].addr]

HitsAnswered ==
    \A t \in Threads :
        /\ exc[t] = "bp" /\ event # t =>
              past[t] /\ (loc[t] \in Native \/ At(Home[t], loc[t]) # {})
        /\ ~alive[t] => exc[t] = "none"

PendingAtHome ==
    \A t \in DOMAIN pending_single_step : pending_single_step[t].proc = Home[t]

Attributed == IntsAreOurs /\ OwnElsewhere /\ OriginalsTrue /\ HitsAnswered /\ PendingAtHome

\* A hit that is delivered is of a record in the process that trapped.
LEMMA HitIsAtHome ==
    ASSUME Careful, TypeOK, Slots, Attributed, NEW t \in Threads, NEW id \in Ids,
           BeginHit(t, id)
    PROVE  /\ id \in DOMAIN breakpoints /\ past[t]
           /\ breakpoints[id].proc = Home[t] /\ breakpoints[id].addr = loc[t]
<1>1. /\ exc[t] = "bp" /\ event # t
      /\ id \in DOMAIN breakpoints /\ breakpoints[id].addr = loc[t]
    BY HomeAssumption DEF BeginHit, Deliverable, Finds, Candidates
<1>2. loc[t] \notin Native
    BY <1>1 DEF Careful, Slots, OneRecordPerAddress
<1>3. past[t] /\ At(Home[t], loc[t]) # {}
    BY <1>1, <1>2 DEF Attributed, HitsAnswered
<1>4. QED
    BY <1>1, <1>3 DEF At, Slots, OneRecordPerAddress

LEMMA AttributedTarget ==
    ASSUME TypeOK, Attributed, TargetStep
    PROVE  Attributed'
<1> USE HomeAssumption DEF Attributed
<1>1. UNCHANGED <<breakpoints, pending_single_step>>
    BY DEF TargetStep, Trap, Execute, ExitThread, StartThread, Overwrite, records
<1>2. PendingAtHome' /\ \A p, a : At(p, a)' = At(p, a)
    BY <1>1 DEF PendingAtHome, At
<1>3. ASSUME UNCHANGED <<code, own>>
      PROVE  IntsAreOurs' /\ OwnElsewhere' /\ OriginalsTrue'
    BY <1>1, <1>2, <1>3 DEF IntsAreOurs, OwnElsewhere, OriginalsTrue
<1>4. ASSUME NEW t \in Threads, Trap(t) PROVE HitsAnswered'
    <2>1. loc[t] \in Native \/ At(Home[t], loc[t]) # {}
        BY <1>4 DEF Trap, IntsAreOurs, TypeOK
    <2>2. /\ exc' = [exc EXCEPT ![t] = "bp"] /\ past' = [past EXCEPT ![t] = TRUE]
          /\ UNCHANGED <<loc, event, alive>> /\ alive[t]
        BY <1>4 DEF Trap, Runnable
    <2>3. QED
        BY <1>2, <2>1, <2>2 DEF HitsAnswered, TypeOK
<1>5. ASSUME NEW t \in Threads, Execute(t) \/ ExitThread(t) \/ StartThread(t)
      PROVE  HitsAnswered'
    <2>1. /\ exc[t] = "none" /\ exc'[t] # "bp" /\ (~alive'[t] => exc'[t] = "none")
          /\ event' = event
          /\ \A u \in Threads : u # t => /\ exc'[u] = exc[u] /\ past'[u] = past[u]
                                         /\ loc'[u] = loc[u] /\ alive'[u] = alive[u]
        BY <1>5 DEF Execute, ExitThread, StartThread, Runnable, HitsAnswered, TypeOK
    <2>2. QED
        BY <1>2, <2>1 DEF HitsAnswered
<1>6. ASSUME NEW p \in Procs, NEW a \in Addrs, Overwrite(p, a) PROVE Attributed'
    <2>1. /\ a \in Unpacked /\ UNCHANGED <<loc, past, exc, alive, event>>
          /\ code' = [code EXCEPT ![p][a] = "new"] /\ own' = [own EXCEPT ![p][a] = "new"]
        BY <1>6 DEF Overwrite
    <2>2. HitsAnswered'
        BY <1>2, <2>1 DEF HitsAnswered
    <2>3. IntsAreOurs' /\ OwnElsewhere'
        BY <1>2, <2>1 DEF IntsAreOurs, OwnElsewhere, TypeOK
    <2>4. OriginalsTrue'
        <3>1. \A q \in Procs, b \in Addrs \ Unpacked : own'[q][b] = own[q][b]
            BY <2>1 DEF TypeOK
        <3>2. \A id \in DOMAIN breakpoints :
                 breakpoints[id].proc \in Procs /\ breakpoints[id].addr \in Addrs
            BY DEF TypeOK, Breakpoint
        <3>3. QED
            BY <1>1, <3>1, <3>2 DEF OriginalsTrue
    <2>5. QED
        BY <1>2, <2>2, <2>3, <2>4
<1>7. QED
    <2>1. ASSUME NEW t \in Threads, Trap(t) \/ Execute(t) \/ ExitThread(t) \/ StartThread(t)
          PROVE  UNCHANGED <<code, own>>
        BY <2>1 DEF Trap, Execute, ExitThread, StartThread
    <2>2. QED
        BY <1>2, <1>3, <1>4, <1>5, <1>6, <2>1 DEF TargetStep

LEMMA AttributedLoop ==
    ASSUME Careful, TypeOK, Slots, Attributed, LoopStep
    PROVE  Attributed'
<1> USE HomeAssumption
<1>1. UNCHANGED <<breakpoints, own, loc, alive>>
    BY DEF LoopStep, HitBreakpoint, HitRestoreFails, HitDegraded, BeginHit,
       ForeignBreakpoint, Rearm, ForeignStep, Continue, records, target
<1>2. \A p, a : At(p, a)' = At(p, a)
    BY <1>1 DEF At
\* Every write of the loop is to the site of a record.
<1>3. ASSUME \A p \in Procs, a \in Addrs :
                \/ code'[p][a] = code[p][a]
                \/ \E id \in At(p, a) : code'[p][a] \in {breakpoints[id].original, "int3"}
      PROVE  IntsAreOurs' /\ OwnElsewhere' /\ OriginalsTrue'
    <2>1. OriginalsTrue'
        BY <1>1 DEF Attributed, OriginalsTrue
    <2>2. IntsAreOurs'
        BY <1>2, <1>3 DEF Attributed, IntsAreOurs
    <2>3. OwnElsewhere'
        BY <1>1, <1>3 DEF Attributed, OwnElsewhere, OriginalsTrue, At
    <2>4. QED
        BY <2>1, <2>2, <2>3
<1>4. ASSUME event = NoThread, event' \in Threads \cup {NoThread},
             \A u \in Threads : \/ u = event'
                                \/ exc'[u] = "none"
                                \/ exc'[u] = exc[u] /\ past'[u] = past[u],
             \A u \in Threads : exc'[u] \in {exc[u], "none"}
      PROVE  HitsAnswered'
    BY <1>1, <1>2, <1>4 DEF Attributed, HitsAnswered
<1>5. ASSUME NEW t \in Threads, NEW id \in Ids, HitBreakpoint(t, id) PROVE Attributed'
    <2>1. /\ event = NoThread /\ event' = t /\ exc' = exc
          /\ code' = [code EXCEPT ![breakpoints[id].proc][breakpoints[id].addr] =
                         breakpoints[id].original]
          /\ past' = [past EXCEPT ![t] = FALSE]
          /\ pending_single_step' = Put(pending_single_step, t,
                [id |-> id, addr |-> loc[t], proc |-> breakpoints[id].proc])
          /\ BeginHit(t, id)
        BY <1>5 DEF HitBreakpoint, BeginHit, Deliverable, Restored, Poke, Rewind
    <2>2. id \in DOMAIN breakpoints /\ breakpoints[id].proc = Home[t]
        BY <2>1, HitIsAtHome
    <2>3. IntsAreOurs' /\ OwnElsewhere' /\ OriginalsTrue'
        <3>1. breakpoints[id] \in Breakpoint
            BY <2>2 DEF TypeOK
        <3>2. QED
            BY <1>3, <2>1, <2>2, <3>1 DEF At, Breakpoint, TypeOK
    <2>4. HitsAnswered'
        BY <1>4, <2>1 DEF TypeOK
    <2>5. PendingAtHome'
        BY <2>1, <2>2 DEF Put, Attributed, PendingAtHome
    <2>6. QED
        BY <2>3, <2>4, <2>5 DEF Attributed
<1>6. ASSUME NEW t \in Threads, NEW id \in Ids, HitRestoreFails(t, id) \/ HitDegraded(t, id)
      PROVE  Attributed'
    <2>1. /\ event = NoThread /\ event' = t /\ exc' = exc /\ UNCHANGED <<past, pending_single_step>>
          /\ id \in DOMAIN breakpoints /\ breakpoints[id].addr = loc[t]
        BY <1>6 DEF HitRestoreFails, HitDegraded, BeginHit, Deliverable, Finds, Candidates
    <2>2. breakpoints[id] \in Breakpoint
        BY <2>1 DEF TypeOK
    <2>3. ASSUME NEW mem \in [Procs -> [Addrs -> Byte]], NEW byte, NEW outcome,
                 NEW p \in Procs, NEW a \in Addrs
          PROVE  \/ Poke(mem, breakpoints[id].proc, breakpoints[id].addr, byte, outcome)[p][a]
                       = mem[p][a]
                 \/ /\ id \in At(p, a)
                    /\ Poke(mem, breakpoints[id].proc, breakpoints[id].addr, byte, outcome)[p][a]
                       = byte
        BY <2>1, <2>2, <2>3 DEF Poke, At, Breakpoint
    <2>4. ASSUME NEW outcome
          PROVE  /\ Restored(id, outcome) \in [Procs -> [Addrs -> Byte]]
                 /\ \A p \in Procs, a \in Addrs :
                       \/ Restored(id, outcome)[p][a] = code[p][a]
                       \/ /\ id \in At(p, a)
                          /\ Restored(id, outcome)[p][a] = breakpoints[id].original
        <3>1. Restored(id, outcome) \in [Procs -> [Addrs -> Byte]]
            BY <2>2 DEF Restored, Poke, Breakpoint, TypeOK
        <3>2. QED
            BY <2>1, <2>2, <3>1 DEF Restored, Poke, At, Breakpoint, TypeOK
    <2>5. IntsAreOurs' /\ OwnElsewhere' /\ OriginalsTrue'
        <3>1. CASE \E outcome : code' = Restored(id, outcome)
            BY <1>3, <2>4, <3>1
        <3>2. CASE \E outcome : code' = Poke(Restored(id, "ok"), breakpoints[id].proc,
                                             breakpoints[id].addr, "int3", outcome)
            <4> DEFINE mem == Restored(id, "ok")
            <4>1. /\ mem \in [Procs -> [Addrs -> Byte]]
                  /\ \A p \in Procs, a \in Addrs :
                       \/ mem[p][a] = code[p][a]
                       \/ id \in At(p, a) /\ mem[p][a] = breakpoints[id].original
                BY <2>4
            <4>2. PICK outcome :
                     code' = Poke(mem, breakpoints[id].proc, breakpoints[id].addr, "int3", outcome)
                BY <3>2
            <4> HIDE DEF mem
            <4>3. \A p \in Procs, a \in Addrs :
                     code'[p][a] = mem[p][a] \/ (id \in At(p, a) /\ code'[p][a] = "int3")
                BY <2>3, <4>1, <4>2
            <4>4. \A p \in Procs, a \in Addrs :
                     \/ code'[p][a] = code[p][a]
                     \/ id \in At(p, a) /\ code'[p][a] \in {breakpoints[id].original, "int3"}
                BY <4>1, <4>3
            <4>5. QED
                BY <1>3, <4>4
        <3>3. QED
            BY <1>6, <2>1, <3>1, <3>2 DEF HitRestoreFails, HitDegraded
    <2>6. HitsAnswered'
        BY <1>4, <2>1
    <2>7. QED
        BY <2>1, <2>5, <2>6 DEF Attributed, PendingAtHome
<1>7. ASSUME NEW t \in Threads, ForeignBreakpoint(t) \/ ForeignStep(t) PROVE Attributed'
    <2>1. /\ event = NoThread /\ event' = t
          /\ UNCHANGED <<code, exc, past, pending_single_step>>
        BY <1>7 DEF ForeignBreakpoint, ForeignStep, Deliverable, target, records
    <2>2. QED
        BY <1>3, <1>4, <2>1 DEF Attributed, PendingAtHome
<1>8. ASSUME NEW t \in Threads, Rearm(t) PROVE Attributed'
    <2> DEFINE entry == pending_single_step[t]
    <2>1. /\ event = NoThread /\ event' \in {t, NoThread} /\ UNCHANGED past
          /\ t \in DOMAIN pending_single_step
          /\ \A u \in Threads : exc'[u] \in {exc[u], "none"}
          /\ \A u \in Threads : u # t => exc'[u] = exc[u]
          /\ event' = t \/ exc'[t] = "none"
          /\ pending_single_step' = Drop(pending_single_step, {t})
        BY <1>8 DEF Rearm, Deliverable, Popped, TypeOK
    <2>2. \A p \in Procs, a \in Addrs :
             code'[p][a] = code[p][a]
             \/ \E id \in At(p, a) : code'[p][a] \in {breakpoints[id].original, "int3"}
        <3>1. CASE entry.id \in DOMAIN breakpoints
            <4>1. PICK outcome : code' = Poke(code, entry.proc, entry.addr, "int3", outcome)
                BY <1>8, <3>1 DEF Rearm, Recorded, Int3
            <4>2. entry.id \in At(entry.proc, entry.addr) /\ entry \in Pending
                BY <2>1, <3>1 DEF Slots, PendingMatchesRecord, At, TypeOK
            <4> HIDE DEF entry
            <4>3. QED
                BY <4>1, <4>2 DEF Poke, Pending, TypeOK
        <3>2. CASE entry.id \notin DOMAIN breakpoints
            BY <1>8, <3>2 DEF Rearm, Recorded
        <3>3. QED
            BY <3>1, <3>2
    <2>3. IntsAreOurs' /\ OwnElsewhere' /\ OriginalsTrue'
        BY <1>3, <2>2
    <2>4. HitsAnswered'
        BY <1>4, <2>1
    <2>5. PendingAtHome'
        BY <2>1 DEF Drop, Restrict, Attributed, PendingAtHome
    <2>6. QED
        BY <2>3, <2>4, <2>5 DEF Attributed
<1>9. CASE Continue
    <2>1. /\ event \in Threads /\ event' = NoThread /\ exc' = [exc EXCEPT ![event] = "none"]
          /\ UNCHANGED <<code, past, pending_single_step>>
        BY <1>9 DEF Continue, records, TypeOK
    <2>2. HitsAnswered'
        BY <1>1, <1>2, <2>1 DEF Attributed, HitsAnswered, TypeOK
    <2>3. QED
        BY <1>3, <2>1, <2>2 DEF Attributed, PendingAtHome
<1>10. QED
    BY <1>5, <1>6, <1>7, <1>8, <1>9 DEF LoopStep

\* Taking out records and writing back their bytes.
LEMMA AttributedForget ==
    ASSUME Careful, TypeOK, Slots, Attributed, NEW K, K \subseteq DOMAIN breakpoints,
           Forget(K), \A id \in K : MayRemove(id),
           \A p \in Procs, a \in Addrs :
              IF At(p, a) \cap K = {} THEN code'[p][a] = code[p][a]
              ELSE \E id \in At(p, a) \cap K : code'[p][a] = breakpoints[id].original
    PROVE  Attributed'
<1> USE HomeAssumption
<1>1. /\ UNCHANGED <<own, loc, past, exc, alive, event, pending_single_step>>
      /\ DOMAIN breakpoints' = DOMAIN breakpoints \ K
      /\ \A id \in DOMAIN breakpoints' : breakpoints'[id] = breakpoints[id]
    BY DEF Forget, Drop, Restrict
<1>2. \A p, a : At(p, a)' = At(p, a) \ K
    BY <1>1 DEF At
<1>3. OriginalsTrue'
    BY <1>1 DEF Attributed, OriginalsTrue
<1>4. IntsAreOurs'
    <2>1. ASSUME NEW p \in Procs, NEW a \in Addrs, code'[p][a] = "int3"
          PROVE  a \in Native \/ At(p, a)' # {}
        <3>1. At(p, a) \cap K = {}
            BY <2>1 DEF At, Attributed, OriginalsTrue
        <3>2. QED
            BY <2>1, <3>1, <1>2 DEF Attributed, IntsAreOurs
    <2>2. QED
        BY <2>1 DEF IntsAreOurs
<1>5. OwnElsewhere'
    <2>1. ASSUME NEW p \in Procs, NEW a \in Addrs \ Unpacked
          PROVE  code'[p][a] \in {own[p][a], "int3"}
        BY DEF Attributed, OwnElsewhere, OriginalsTrue, At
    <2>2. QED
        BY <1>1, <2>1 DEF OwnElsewhere
<1>6. HitsAnswered'
    <2>1. ASSUME NEW t \in Threads, exc[t] = "bp", event # t
          PROVE  past[t] /\ (loc[t] \in Native \/ At(Home[t], loc[t]) \ K # {})
        <3>1. past[t] /\ (loc[t] \in Native \/ At(Home[t], loc[t]) # {})
            BY <2>1 DEF Attributed, HitsAnswered
        <3>2. ASSUME NEW id \in At(Home[t], loc[t]) PROVE id \notin K
            <4>1. Queued(t, breakpoints[id].proc, breakpoints[id].addr)
                BY <2>1, <3>1, <3>2 DEF Queued, At
            <4>2. QED
                BY <4>1 DEF MayRemove, Careful
        <3>3. QED
            BY <3>1, <3>2
    <2>2. QED
        BY <1>1, <1>2, <2>1 DEF Attributed, HitsAnswered
<1>7. PendingAtHome'
    BY <1>1 DEF Attributed, PendingAtHome
<1>8. QED
    BY <1>3, <1>4, <1>5, <1>6, <1>7 DEF Attributed

LEMMA AttributedClient ==
    ASSUME Careful, TypeOK, Slots, Attributed, ClientStep
    PROVE  Attributed'
<1> USE HomeAssumption
<1>1. ASSUME NEW p \in Procs, NEW a \in Addrs, Set(p, a) PROVE Attributed'
    <2> DEFINE new == bp_counter + 1
    <2>1. /\ a \in Sites /\ Candidates(a) = {}
          /\ code' = [code EXCEPT ![p][a] = "int3"]
          /\ DOMAIN breakpoints' = DOMAIN breakpoints \cup {new}
          /\ breakpoints'[new] = [addr |-> a, original |-> code[p][a], proc |-> p]
          /\ \A id \in DOMAIN breakpoints : id # new => breakpoints'[id] = breakpoints[id]
          /\ UNCHANGED <<own, loc, past, exc, alive, event, pending_single_step>>
        BY <1>1 DEF Set, MaySet, Careful, Candidates, At, Int3, Poke, Put, Displaced
    <2>2. new \notin DOMAIN breakpoints
        BY BoundAssumption DEF TypeOK
    <2>3. \A q, b : At(q, b)' = At(q, b) \cup (IF q = p /\ b = a THEN {new} ELSE {})
        BY <2>1, <2>2 DEF At
    <2>4. At(p, a) = {} /\ a \notin Native
        BY <2>1 DEF At, Candidates, Careful
    <2>5. code[p][a] # "int3"
        BY <2>4 DEF Attributed, IntsAreOurs
    <2>6. IntsAreOurs'
        <3>1. ASSUME NEW q \in Procs, NEW b \in Addrs, code'[q][b] = "int3"
              PROVE  b \in Native \/ At(q, b)' # {}
            <4>1. CASE q = p /\ b = a
                BY <2>3, <4>1
            <4>2. CASE ~(q = p /\ b = a)
                BY <3>1, <4>2, <2>1, <2>3 DEF Attributed, IntsAreOurs, TypeOK
            <4>3. QED
                BY <4>1, <4>2
        <3>2. QED
            BY <3>1 DEF IntsAreOurs
    <2>7. OwnElsewhere'
        BY <2>1 DEF Attributed, OwnElsewhere, TypeOK
    <2>8. OriginalsTrue'
        <3>1. a \notin Unpacked => code[p][a] = own[p][a]
            BY <2>5 DEF Attributed, OwnElsewhere
        <3>2. QED
            BY <2>1, <2>2, <2>5, <3>1 DEF Attributed, OriginalsTrue
    <2>9. HitsAnswered' /\ PendingAtHome'
        BY <2>1, <2>3 DEF Attributed, HitsAnswered, PendingAtHome
    <2>10. QED
        BY <2>6, <2>7, <2>8, <2>9 DEF Attributed
<1>2. ASSUME NEW p \in Procs, NEW a \in Addrs PROVE ~SetFails(p, a)
    BY DEF SetFails, Careful
<1>3. ASSUME NEW id \in Ids, Remove(id) PROVE Attributed'
    <2>1. id \in DOMAIN breakpoints /\ MayRemove(id) /\ Forget({id}) /\ code' = Restored(id, "ok")
        BY <1>3 DEF Remove, Outcomes, Careful
    <2>2. \A p \in Procs, a \in Addrs :
             IF id \in At(p, a) THEN code'[p][a] = breakpoints[id].original
             ELSE code'[p][a] = code[p][a]
        BY <2>1 DEF Restored, Poke, At, TypeOK, Breakpoint
    <2>3. QED
        BY <2>1, <2>2, AttributedForget
<1>4. ASSUME NEW outcome \in Outcomes("remove"), NEW last \in Ids, RemoveAll(outcome, last)
      PROVE  Attributed'
    <2> DEFINE gone == {id \in DOMAIN breakpoints : id <= last}
    <2> DEFINE written == IF outcome = "before" THEN gone \ {last} ELSE gone
    <2>1. /\ Forget(gone) /\ \A id \in gone : MayRemove(id)
          /\ code' = [p \in Procs |-> [a \in Addrs |->
                        IF Last(At(p, a) \cap written) = {} THEN code[p][a]
                        ELSE breakpoints[CHOOSE id \in Last(At(p, a) \cap written) : TRUE].original]]
        BY <1>4 DEF RemoveAll
    <2>2. ASSUME NEW p \in Procs, NEW a \in Addrs
          PROVE  IF At(p, a) \cap gone = {} THEN code'[p][a] = code[p][a]
                 ELSE \E id \in At(p, a) \cap gone : code'[p][a] = breakpoints[id].original
        <3> DEFINE here == At(p, a) \cap gone
        <3>1. written = gone
            BY DEF Outcomes, Careful
        <3>2. Last(here) = here
            <4>1. \A i, j \in here : i = j
                BY DEF At, Slots, OneRecordPerAddress
            <4>2. here \subseteq Nat
                BY DEF At, TypeOK
            <4> HIDE DEF here
            <4>3. \A i, j \in here : i <= j
                <5>1. \A i, j \in here : i = j /\ j \in Nat
                    BY <4>1, <4>2
                <5>2. QED
                    BY <5>1
            <4>4. QED
                BY <4>3 DEF Last
        <3> HIDE DEF written, gone
        <3>3. code'[p][a] = IF Last(here) = {} THEN code[p][a]
                            ELSE breakpoints[CHOOSE id \in Last(here) : TRUE].original
            BY <2>1, <3>1
        <3> HIDE DEF here
        <3>4. CASE here = {}
            BY <3>2, <3>3, <3>4 DEF here
        <3>5. CASE here # {}
            <4> DEFINE id == CHOOSE i \in here : TRUE
            <4>1. id \in here
                BY <3>5
            <4>2. code'[p][a] = breakpoints[id].original
                BY <3>2, <3>3, <3>5
            <4>3. QED
                BY <3>5, <4>1, <4>2 DEF here
        <3>6. QED
            BY <3>4, <3>5
    <2>3. QED
        BY <2>1, <2>2, AttributedForget
<1>5. ASSUME VerifyAll \/ \E t \in Threads : StepRequest(t) PROVE Attributed'
    <2>1. UNCHANGED <<code, own, loc, past, exc, alive, event, breakpoints, pending_single_step>>
        BY <1>5 DEF VerifyAll, StepRequest, target, records
    <2>2. \A p, a : At(p, a)' = At(p, a)
        BY <2>1 DEF At
    <2>3. QED
        BY <2>1, <2>2 DEF Attributed, IntsAreOurs, OwnElsewhere, OriginalsTrue, HitsAnswered,
           PendingAtHome
<1>6. QED
    BY <1>1, <1>2, <1>3, <1>4, <1>5 DEF ClientStep

LEMMA AttributedHolds ==
    ASSUME Careful
    PROVE  Spec => [](TypeOK /\ Slots /\ Attributed)
<1>1. Init => Attributed
    BY HomeAssumption DEF Init, Empty, Attributed, IntsAreOurs, OwnElsewhere, OriginalsTrue,
       HitsAnswered, PendingAtHome
<1>2. TypeOK /\ Slots /\ Attributed /\ [Next]_vars => Attributed'
    <2> SUFFICES ASSUME TypeOK, Slots, Attributed, [Next]_vars PROVE Attributed'
        OBVIOUS
    <2>1. CASE UNCHANGED vars
        BY <2>1 DEF vars, target, records, Attributed, IntsAreOurs, OwnElsewhere, OriginalsTrue,
           HitsAnswered, PendingAtHome, At
    <2>2. QED
        BY <2>1, AttributedTarget, AttributedLoop, AttributedClient DEF Next
<1>3. Sharing = {}
    BY DEF Careful
<1>4. QED
    BY <1>1, <1>2, <1>3, SlotsHold, PTL DEF Spec

\* In the callback the thread stands in front of the instruction its own
\* breakpoint displaced, of the process that trapped; a self-unpacking target
\* may still see an old instruction where it writes.
THEOREM CallbackIsTrue == Careful => (Spec => CallbackSeesOriginal)
<1> SUFFICES ASSUME Careful PROVE Spec => CallbackSeesOriginal
    OBVIOUS
<1>1. ASSUME TypeOK, Slots, Attributed, NEW t \in Threads, NEW id \in Ids, HitBreakpoint(t, id)
      PROVE  /\ ~past'[t] /\ code'[Home[t]][loc[t]] = breakpoints[id].original
             /\ loc[t] \notin Unpacked => code'[Home[t]][loc[t]] = own[Home[t]][loc[t]]
    <2>1. /\ id \in DOMAIN breakpoints
          /\ breakpoints[id].proc = Home[t] /\ breakpoints[id].addr = loc[t]
        BY <1>1, HitIsAtHome DEF HitBreakpoint
    <2>2. /\ code' = [code EXCEPT ![Home[t]][loc[t]] = breakpoints[id].original]
          /\ past' = [past EXCEPT ![t] = FALSE]
        BY <1>1, <2>1 DEF HitBreakpoint, Restored, Poke, Rewind
    <2>3. Home[t] \in Procs /\ loc[t] \in Addrs
        BY <1>1, HomeAssumption DEF TypeOK
    <2>4. code'[Home[t]][loc[t]] = breakpoints[id].original /\ ~past'[t]
        BY <1>1, <2>2, <2>3 DEF TypeOK
    <2>5. QED
        BY <1>1, <2>1, <2>4 DEF Attributed, OriginalsTrue
<1>2. TypeOK /\ Slots /\ Attributed /\ [Next]_vars =>
        [\A t \in Threads, id \in Ids : HitBreakpoint(t, id) =>
         /\ ~past'[t] /\ code'[Home[t]][loc[t]] = breakpoints[id].original
         /\ loc[t] \notin Unpacked =>
               code'[Home[t]][loc[t]] = own[Home[t]][loc[t]]]_vars
    BY <1>1
<1>3. QED
    BY <1>2, AttributedHolds, PTL DEF Spec, CallbackSeesOriginal

-----------------------------------------------------------------------------
(* run_until(): what a call does with the records.                         *)

(* The records while a call is under way: those of the caller and the      *)
(* temporary one.                                                          *)
CallTrue ==
  /\ stage \in {"out", "head", "resume", "leaving"} /\ own_bp \in 0..MaxBps
  /\ stage # "out" => /\ own_bp \notin before
                      /\ DOMAIN breakpoints = before \cup Temporary

CallInv == TypeOK /\ CallTrue

(* Steps of the target and of the loop leave the records alone.            *)
LEMMA RecordsStay ==
  ASSUME TargetStep \/ LoopStep
  PROVE  UNCHANGED <<breakpoints, bp_counter>>
<1>1. ASSUME TargetStep PROVE UNCHANGED <<breakpoints, bp_counter>>
  BY <1>1 DEF TargetStep, Trap, Execute, ExitThread, StartThread, Overwrite, records
<1>2. ASSUME LoopStep PROVE UNCHANGED <<breakpoints, bp_counter>>
  BY <1>2 DEF LoopStep, HitBreakpoint, HitRestoreFails, HitDegraded, BeginHit,
     ForeignBreakpoint, Rearm, ForeignStep, Continue, records
<1> QED BY <1>1, <1>2

(* What each kind of step is for SoftwareBreakpoint: one of its own, a     *)
(* single step reported by a debug register, or the removal at the end.    *)
CleanupRemoves ==
  \E id \in Temporary \cap DOMAIN breakpoints :
     /\ Forget({id})
     /\ \E outcome \in Outcomes("remove") : code' = Restored(id, outcome)

LEMMA TypeHwTrap ==
  ASSUME TypeOK, NEW t \in Threads, HwTrap(t)
  PROVE  TypeOK'
BY DEF HwTrap, TypeOK, records

LEMMA TypeCleanup ==
  ASSUME TypeOK, CleanupRemoves
  PROVE  TypeOK'
<1>1. PICK id \in DOMAIN breakpoints, outcome \in Outcomes("remove") :
         Forget({id}) /\ code' = Restored(id, outcome)
  BY DEF CleanupRemoves
<1>2. code' \in [Procs -> [Addrs -> Byte]]
  BY <1>1 DEF TypeOK, Restored, Poke, Breakpoint
<1>3. /\ DOMAIN breakpoints' = DOMAIN breakpoints \ {id}
      /\ breakpoints' \in [DOMAIN breakpoints' -> Breakpoint]
      /\ hits' \in [DOMAIN breakpoints' -> 0..HitCap]
      /\ lost' \subseteq DOMAIN breakpoints'
  BY <1>1 DEF Forget, CountsWithout, Drop, Restrict, TypeOK
<1> QED BY <1>1, <1>2, <1>3 DEF Forget, TypeOK

LEMMA TypeStep == TypeOK /\ [Next]_vars => TypeOK'
<1>1. TypeOK /\ UNCHANGED vars => TypeOK'
  BY DEF vars, target, records, TypeOK
<1> QED BY <1>1, TypeTarget, TypeLoop, TypeClient DEF Next

LEMMA StepKinds ==
  ASSUME [UNext]_uvars
  PROVE  [Next]_vars \/ (\E t \in Threads : HwTrap(t)) \/ CleanupRemoves
<1>1. CASE UTarget
  BY <1>1 DEF UTarget, UExecute, Next, TargetStep
<1>2. CASE UClient
  BY <1>2 DEF UClient, ContinueDefault, Next, LoopStep
<1>3. CASE UntilStep
  <2>1. CASE Begin
    BY <2>1, GoalAssumption DEF Begin, Set, SetFails, MaySet, Next, ClientStep
  <2>2. CASE Expire \/ EmptyWait
    BY <2>2 DEF Expire, EmptyWait
  <2>3. CASE UntilContinue
    BY <2>3 DEF UntilContinue, Next, LoopStep
  <2>4. CASE Cleanup
    BY <2>4 DEF Cleanup, CleanupRemoves
  <2>5. ASSUME NEW t \in Threads, NEW id \in Ids, UntilHit(t, id) \/ UntilFails(t, id)
        PROVE  Next
    BY <2>5 DEF UntilHit, UntilFails, Next, LoopStep
  <2>6. ASSUME NEW t \in Threads, UntilRearm(t) \/ UntilForeign(t) PROVE Next
    BY <2>6 DEF UntilRearm, UntilForeign, Next, LoopStep
  <2> QED BY <1>3, <2>1, <2>2, <2>3, <2>4, <2>5, <2>6 DEF UntilStep
<1>4. CASE UNCHANGED uvars
  BY <1>4 DEF uvars
<1> QED BY <1>1, <1>2, <1>3, <1>4 DEF UNext

-----------------------------------------------------------------------------
(* The temporary breakpoint.                                               *)

(* Between entry and exit only the loop runs: records and call stay.       *)
LEMMA UnderWay ==
  ASSUME CallTrue, stage # "out", UNext
  PROVE  \/ Cleanup
         \/ /\ UNCHANGED <<breakpoints, bp_counter, own_bp, before>>
            /\ stage' \in {"head", "resume", "leaving"}
            /\ stage = "leaving" => stage' = "leaving"
<1>1. CASE UTarget
  <2>1. TargetStep \/ \E t \in Threads : HwTrap(t)
    BY <1>1 DEF UTarget, UExecute, TargetStep
  <2>2. UNCHANGED <<breakpoints, bp_counter>>
    BY <2>1, RecordsStay DEF HwTrap, records
  <2>3. UNCHANGED call
    BY <1>1 DEF UTarget, UExecute, HwTrap
  <2> QED BY <2>2, <2>3 DEF call, CallTrue
<1>2. CASE UClient
  BY <1>2 DEF UClient, ContinueDefault
<1>3. CASE UntilStep
  <2>1. CASE Expire \/ EmptyWait
    BY <2>1 DEF Expire, EmptyWait, Leave, vars, records
  <2>2. CASE UntilContinue
    BY <2>2, RecordsStay DEF UntilContinue, LoopStep
  <2>3. ASSUME NEW t \in Threads, NEW id \in Ids, UntilHit(t, id) \/ UntilFails(t, id)
        PROVE  /\ UNCHANGED <<breakpoints, bp_counter, own_bp, before>>
               /\ stage = "head" /\ stage' \in {"head", "resume", "leaving"}
    <3>1. LoopStep
      BY <2>3 DEF UntilHit, UntilFails, LoopStep
    <3> QED BY <2>3, <3>1, RecordsStay DEF UntilHit, UntilFails, Leave
  <2>4. ASSUME NEW t \in Threads, UntilRearm(t) \/ UntilForeign(t)
        PROVE  /\ UNCHANGED <<breakpoints, bp_counter, own_bp, before>>
               /\ stage = "head" /\ stage' \in {"head", "resume", "leaving"}
    <3>1. LoopStep
      BY <2>4 DEF UntilRearm, UntilForeign, LoopStep
    <3> QED BY <2>4, <3>1, RecordsStay DEF UntilRearm, UntilForeign, Leave
  <2>5. ~Begin
    BY DEF Begin
  <2> QED BY <1>3, <2>1, <2>2, <2>3, <2>4, <2>5 DEF UntilStep
<1> QED BY <1>1, <1>2, <1>3 DEF UNext

(* At the end the records are those there were at the beginning.           *)
LEMMA CleanupRestores ==
  ASSUME CallInv, Cleanup
  PROVE  DOMAIN breakpoints' = before /\ stage' = "out" /\ UNCHANGED own_bp
<1>1. /\ stage = "leaving" /\ stage' = "out" /\ own_bp' = own_bp
      /\ own_bp \notin before /\ DOMAIN breakpoints = before \cup Temporary
  BY DEF Cleanup, CallInv, CallTrue
<1>2. CASE Temporary \cap DOMAIN breakpoints = {} /\ UNCHANGED vars
  BY <1>1, <1>2 DEF vars, records, Temporary
<1>3. CASE CleanupRemoves
  <2>1. PICK id \in Temporary \cap DOMAIN breakpoints : Forget({id})
    BY <1>3 DEF CleanupRemoves
  <2>2. id = own_bp /\ Temporary = {own_bp}
    BY <2>1 DEF Temporary
  <2>3. DOMAIN breakpoints' = DOMAIN breakpoints \ {id}
    BY <2>1 DEF Forget, Drop, Restrict
  <2> QED BY <1>1, <2>2, <2>3
<1> QED BY <1>1, <1>2, <1>3 DEF Cleanup, CleanupRemoves

LEMMA CallBegins ==
  ASSUME CallInv, Begin
  PROVE  CallTrue'
<1>1. /\ before' = DOMAIN breakpoints /\ DOMAIN breakpoints \subseteq 1..bp_counter
      /\ bp_counter \in 0..MaxBps
  BY DEF Begin, CallInv, TypeOK
<1>2. CASE own_bp' = 0 /\ stage' \in {"head", "out"} /\ UNCHANGED breakpoints
  BY <1>1, <1>2, BoundAssumption DEF CallTrue, Temporary
<1>3. CASE Set(Target, Goal) /\ own_bp' = bp_counter' /\ stage' = "head"
  <2>1. own_bp' = bp_counter + 1 /\ own_bp' \in 0..MaxBps /\ own_bp' # 0
    BY <1>1, <1>3, BoundAssumption DEF Set, MaySet
  <2>2. DOMAIN breakpoints' = DOMAIN breakpoints \cup {own_bp'}
    BY <1>3, <2>1 DEF Set, Put
  <2>3. own_bp' \notin DOMAIN breakpoints
    BY <1>1, <2>1, BoundAssumption
  <2> QED BY <1>1, <1>3, <2>1, <2>2, <2>3 DEF CallTrue, Temporary
<1> QED BY <1>2, <1>3 DEF Begin, SetFails, vars, records

LEMMA CallStep == CallInv /\ [UNext]_uvars => CallInv'
<1> SUFFICES ASSUME CallInv, [UNext]_uvars PROVE CallInv'
  OBVIOUS
<1>1. TypeOK'
  BY StepKinds, TypeStep, TypeHwTrap, TypeCleanup DEF CallInv
<1>2. CallTrue'
  <2>1. CASE UNCHANGED uvars
    BY <2>1 DEF uvars, vars, records, call, CallInv, CallTrue, Temporary
  <2>2. CASE stage # "out" /\ UNext
    <3>1. CASE Cleanup
      BY <3>1, CleanupRestores DEF CallInv, CallTrue
    <3>2. CASE /\ UNCHANGED <<breakpoints, bp_counter, own_bp, before>>
               /\ stage' \in {"head", "resume", "leaving"}
      BY <2>2, <3>2 DEF CallInv, CallTrue, Temporary
    <3> QED BY <2>2, <3>1, <3>2, UnderWay DEF CallInv
  <2>3. CASE stage = "out" /\ UNext
    <3>1. CASE Begin
      BY <3>1, CallBegins
    <3>2. ASSUME UNext, ~Begin PROVE UNCHANGED <<stage, own_bp>>
      BY <2>3, <3>2 DEF UNext, UTarget, UExecute, HwTrap, UClient, ContinueDefault, UntilStep,
         Expire, EmptyWait, UntilContinue, Cleanup, UntilHit, UntilFails, UntilRearm,
         UntilForeign, call
    <3> QED BY <2>3, <3>1, <3>2 DEF CallInv, CallTrue
  <2> QED BY <2>1, <2>2, <2>3
<1> QED BY <1>1, <1>2 DEF CallInv

LEMMA CallAccounts == USpec => []CallInv
<1>1. UInit => CallInv
  BY TypeInit, BoundAssumption DEF UInit, CallInv, CallTrue
<1> QED BY <1>1, CallStep, PTL DEF USpec

(* run_until() leaves exactly the breakpoints it found, on every way out:  *)
(* reached, given up, or after a hit or a removal that failed.             *)
THEOREM OnlyItsOwnIsRemoved == USpec => LeavesBreakpointsAlone
<1>1. ASSUME CallInv, [UNext]_uvars, stage = "leaving", stage' = "out"
      PROVE  DOMAIN breakpoints' = before
  <2>1. UNext
    BY <1>1 DEF uvars, call
  <2>2. Cleanup
    BY <1>1, <2>1, UnderWay DEF CallInv
  <2> QED BY <1>1, <2>2, CleanupRestores
<1>2. CallInv /\ [UNext]_uvars =>
        [stage = "leaving" /\ stage' = "out" => DOMAIN breakpoints' = before]_uvars
  BY <1>1
<1> QED BY <1>2, CallAccounts, PTL DEF USpec, LeavesBreakpointsAlone

-----------------------------------------------------------------------------
(* Where the target is left.                                               *)

(* From the hit at Goal to the removal the thread stays where it is.       *)
HeldAtGoal ==
  stage = "leaving" /\ result = "reached" =>
    /\ event \in Threads /\ loc[event] = Goal /\ ~past[event]
    /\ At(Home[event], Goal) # {}
    /\ \A id \in At(Home[event], Goal) :
          code[Home[event]][Goal] = breakpoints[id].original

(* The manager's bookkeeping (SoftwareBreakpointProofs) goes on in a call. *)
LEMMA SlotsCall ==
  ASSUME Sharing = {}, TypeOK, Slots, [UNext]_uvars
  PROVE  Slots'
<1>1. CASE [Next]_vars
  BY <1>1, SlotsStep
<1>2. CASE \E t \in Threads : HwTrap(t)
  BY <1>2 DEF HwTrap, records, Slots, OneRecordPerAddress, PendingMatchesRecord
<1>3. CASE CleanupRemoves
  BY <1>3, SlotsForget DEF CleanupRemoves
<1> QED BY <1>1, <1>2, <1>3, StepKinds

(* The target does nothing while the event at Goal is held.                *)
LEMMA HeldStopsTarget ==
  ASSUME Procs = {Target}, event \in Threads
  PROVE  ~UTarget
<1>1. \A p \in Procs : Stopped(p)
  BY HomeAssumption DEF Stopped
<1>2. \A t \in Threads : Home[t] \in Procs
  BY HomeAssumption
<1> QED BY <1>1, <1>2 DEF UTarget, HwTrap, UExecute, Execute, Trap,
   ExitThread, StartThread, Overwrite, Runnable

LEMMA HitHolds ==
  ASSUME Procs = {Target}, TypeOK, Slots,
         NEW t \in Threads, NEW id \in Ids, HitBreakpoint(t, id), loc[t] = Goal
  PROVE  /\ event' = t /\ loc'[t] = Goal /\ ~past'[t] /\ At(Home[t], Goal)' # {}
         /\ \A i \in At(Home[t], Goal)' : code'[Home[t]][Goal] = breakpoints'[i].original
<1>1. /\ event' = t /\ loc' = loc /\ breakpoints' = breakpoints
      /\ id \in DOMAIN breakpoints /\ breakpoints[id].addr = Goal
      /\ code' = [code EXCEPT ![breakpoints[id].proc][breakpoints[id].addr] =
                     breakpoints[id].original]
      /\ past' = [past EXCEPT ![t] = FALSE]
  BY DEF HitBreakpoint, BeginHit, Finds, Candidates, Restored, Poke, Rewind
<1>2. Home[t] = Target /\ breakpoints[id].proc = Target
  BY <1>1, HomeAssumption DEF TypeOK, Breakpoint
<1>3. At(Home[t], Goal)' = {id}
  BY <1>1, <1>2 DEF At, Slots, OneRecordPerAddress
<1>4. code'[Target][Goal] = breakpoints[id].original
  BY <1>1, <1>2, GoalAssumption DEF TypeOK
<1> QED BY <1>1, <1>2, <1>3, <1>4 DEF TypeOK

LEMMA HeldStep ==
  ASSUME Sharing = {}, Procs = {Target}, CallInv, Slots, HeldAtGoal, [UNext]_uvars
  PROVE  HeldAtGoal'
<1>1. CASE UNCHANGED uvars
  BY <1>1 DEF uvars, vars, target, records, call, HeldAtGoal, At
<1>2. CASE UNext /\ stage = "leaving"
  <2>1. CASE Cleanup
    BY <2>1 DEF Cleanup, HeldAtGoal
  <2>2. CASE UTarget
    <3>1. result' = result
      BY <2>2 DEF UTarget, UExecute, HwTrap, call
    <3> QED BY <1>2, <2>2, <3>1, HeldStopsTarget DEF HeldAtGoal
  <2> QED BY <1>2, <2>1, <2>2 DEF UNext, UClient, ContinueDefault, UntilStep, Begin, Expire,
     EmptyWait, UntilContinue, UntilHit, UntilFails, UntilRearm, UntilForeign
<1>3. CASE UNext /\ stage # "leaving"
  <2>1. SUFFICES ASSUME stage' = "leaving", result' = "reached" PROVE HeldAtGoal'
    BY DEF HeldAtGoal
  <2>2. PICK t \in Threads, id \in Ids : UntilHit(t, id)
    <3>1. ~UTarget /\ ~UClient
      BY <1>3, <2>1 DEF UTarget, UExecute, HwTrap, UClient,
         ContinueDefault, call
    <3> QED BY <1>3, <2>1, <3>1 DEF UNext, UntilStep, Begin, Expire, EmptyWait, UntilContinue,
       Cleanup, UntilFails, UntilRearm, UntilForeign, Leave
  <2>3. HitBreakpoint(t, id) /\ loc[t] = Goal
    BY <2>1, <2>2 DEF UntilHit, AtGoal
  <2> QED BY <2>3, HitHolds DEF HeldAtGoal, CallInv
<1> QED BY <1>1, <1>2, <1>3

(* "On success the target is left PAUSED at addr, with the original        *)
(* instruction in place", whatever became of the removal.                  *)
THEOREM LeftPausedAtGoal ==
  ASSUME Sharing = {}, Procs = {Target}
  PROVE  USpec => PausedAtGoal
<1>1. UInit => Slots /\ HeldAtGoal
  BY DEF UInit, Init, Empty, Slots, OneRecordPerAddress, PendingMatchesRecord, HeldAtGoal
<1>2. Slots /\ HeldAtGoal /\ CallInv /\ [UNext]_uvars => (Slots /\ HeldAtGoal)'
  BY SlotsCall, HeldStep DEF CallInv
<1>3. ASSUME CallInv, Slots, HeldAtGoal, [UNext]_uvars,
             stage = "leaving", stage' = "out", result = "reached"
      PROVE  /\ event' # NoThread /\ loc'[event'] = Goal /\ ~past'[event']
             /\ At(Home[event], Goal) # {}
             /\ \A id \in At(Home[event], Goal) :
                   code'[Home[event]][Goal] = breakpoints[id].original
  <2>1. /\ event \in Threads /\ loc[event] = Goal /\ ~past[event]
        /\ At(Home[event], Goal) # {}
        /\ \A id \in At(Home[event], Goal) :
              code[Home[event]][Goal] = breakpoints[id].original
    BY <1>3 DEF HeldAtGoal
  <2>2. Cleanup
    BY <1>3, UnderWay DEF CallInv, uvars, call
  <2>3. UNCHANGED <<event, loc, past>>
    BY <2>2 DEF Cleanup, Forget, vars, target
  <2>4. ASSUME NEW i \in At(Home[event], Goal)
        PROVE  code'[Home[event]][Goal] = breakpoints[i].original
    <3>1. CASE UNCHANGED vars
      BY <2>1, <2>4, <3>1 DEF vars, target
    <3>2. CASE CleanupRemoves
      <4>1. PICK id \in DOMAIN breakpoints, outcome \in Outcomes("remove") :
              code' = Restored(id, outcome)
        BY <3>2 DEF CleanupRemoves
      <4>2. breakpoints[id] \in Breakpoint /\ i \in DOMAIN breakpoints
            /\ code \in [Procs -> [Addrs -> Byte]]
            /\ breakpoints[i].proc = Home[event] /\ breakpoints[i].addr = Goal
        BY <1>3, <2>4 DEF CallInv, TypeOK, At
      <4>3. breakpoints[id].addr = Goal => id = i
        BY <1>3, <4>2 DEF Slots, OneRecordPerAddress
      <4> QED BY <2>1, <2>4, <4>1, <4>2, <4>3, GoalAssumption DEF Restored, Poke, Breakpoint
    <3> QED BY <2>2, <3>1, <3>2 DEF Cleanup, CleanupRemoves
  <2> QED BY <2>1, <2>3, <2>4, HomeAssumption
<1>4. CallInv /\ Slots /\ HeldAtGoal /\ [UNext]_uvars =>
        [stage = "leaving" /\ stage' = "out" /\ result = "reached" =>
         /\ event' # NoThread /\ loc'[event'] = Goal /\ ~past'[event']
         /\ At(Home[event], Goal) # {}
         /\ \A id \in At(Home[event], Goal) :
               code'[Home[event]][Goal] = breakpoints[id].original]_uvars
  BY <1>3
<1> QED BY <1>1, <1>2, <1>4, CallAccounts, PTL DEF USpec, PausedAtGoal

-----------------------------------------------------------------------------
(* Whether the goal was reached.                                           *)

(* The steps that put a breakpoint back stay due while a call runs.        *)
LEMMA SteppingCall ==
  ASSUME Sharing = {}, Exits = {}, TypeOK, Slots, Stepping, [UNext]_uvars
  PROVE  Stepping'
<1>1. CASE [Next]_vars
  BY <1>1, SteppingStep
<1>2. ASSUME NEW t \in Threads, HwTrap(t) PROVE Stepping'
  <2>1. /\ UNCHANGED <<code, loc, tf, alive, event, breakpoints, pending_single_step, raised,
                     overwritten>>
        /\ exc[t] = "none" /\ event # t
        /\ exc' = [exc EXCEPT ![t] = "ss"]
    BY <1>2, HomeAssumption DEF HwTrap, Runnable, Stopped, records
  <2>2. /\ exc'[t] = "ss"
        /\ \A u \in Threads : u # t => exc'[u] = exc[u]
    BY <2>1 DEF TypeOK
  <2>3. StepsScheduled'
    BY <2>1, <2>2 DEF Stepping, StepsScheduled
  <2>4. \A u \in Threads : exc[u] = "ss" => exc'[u] = "ss"
    BY <2>2
  <2>5. DOMAIN pending_single_step \subseteq Threads
    BY DEF TypeOK
  <2>6. OutExplained' /\ WritesWhatItUnpacks'
    BY <2>1, <2>4, <2>5 DEF Stepping, OutExplained, SteppedOver, WritesWhatItUnpacks, Armed
  <2> QED BY <2>3, <2>6 DEF Stepping
<1>3. CASE CleanupRemoves
  <2>1. PICK id \in DOMAIN breakpoints, outcome \in Outcomes("remove") :
          Forget({id}) /\ code' = Restored(id, outcome)
    BY <1>3 DEF CleanupRemoves
  <2>2. UNCHANGED <<alive, exc, loc, tf, event, pending_single_step, raised, overwritten>>
    BY <2>1 DEF Forget
  <2>3. \A p \in Procs, a \in Addrs :
          code'[p][a] = code[p][a] \/ At(p, a) \cap {id} # {}
    BY <2>1, RestoredTouches
  <2>4. ASSUME NEW i \in DOMAIN breakpoints'
        PROVE  i \in DOMAIN breakpoints /\ (Armed(i) => Armed(i)')
    BY <2>1, <2>3, ForgetDisarmsNone
  <2>5. StepsScheduled'
    BY <2>2 DEF Stepping, StepsScheduled
  <2>6. OutExplained' /\ WritesWhatItUnpacks'
    <3>1. \A i \in DOMAIN breakpoints' : breakpoints'[i] = breakpoints[i]
      BY <2>1 DEF Forget, Drop, Restrict
    <3> QED BY <2>2, <2>4, <3>1 DEF Stepping, OutExplained, SteppedOver, WritesWhatItUnpacks
  <2> QED BY <2>5, <2>6 DEF Stepping
<1> QED BY <1>1, <1>2, <1>3, StepKinds

(* While a call waits there is a breakpoint at Goal; nobody executed Goal  *)
(* unseen, and whoever trapped there still waits for the loop.             *)
Watched ==
  Waiting => /\ ~raised /\ Candidates(Goal) # {}
             /\ "unseen" \notin came
             /\ "trapped" \in came => \E t \in Threads : Queued(t, Home[t], Goal)

(* An INT3 stands at Goal, or the thread that steps over it is pending.    *)
LEMMA NobodyPasses ==
  ASSUME Procs = {Target}, Goal \notin Unpacked, TypeOK, Slots, Stepping, ~raised, Candidates(Goal) # {},
         Leaving = {}, NEW t \in Threads, Execute(t), loc[t] = Goal
  PROVE  past[t]
<1>1. PICK id \in DOMAIN breakpoints : breakpoints[id].addr = Goal
  BY DEF Candidates
<1>2. breakpoints[id].proc = Target /\ Home[t] = Target
  BY <1>1, HomeAssumption DEF TypeOK, Breakpoint
<1>3. ASSUME NEW u \in DOMAIN pending_single_step PROVE pending_single_step[u].id # id
  BY <1>1, <1>3 DEF Slots, PendingMatchesRecord, Leaving
<1>4. code[Target][Goal] = "int3"
  BY <1>1, <1>2, <1>3 DEF Stepping, OutExplained, SteppedOver, WritesWhatItUnpacks, Armed
<1> QED BY <1>2, <1>4 DEF Execute

(* A thread that waits with a hit goes on waiting whatever the target does. *)
LEMMA QueuedStays ==
  ASSUME TypeOK, Stepping, UTarget, NEW u \in Threads, Queued(u, Home[u], Goal)
  PROVE  Queued(u, Home[u], Goal)'
<1>1. exc[u] = "bp" /\ past[u] /\ event # u /\ loc[u] = Goal /\ alive[u]
  BY DEF Queued, Stepping, StepsScheduled
<1>2. ASSUME NEW t \in Threads, HwTrap(t) \/ Trap(t) \/ UExecute(t) \/ StartThread(t)
      PROVE  t # u
  BY <1>1, <1>2 DEF HwTrap, Trap, UExecute, Execute, StartThread, Runnable
<1> DEFINE stays == exc'[u] = "bp" /\ past'[u] /\ event' # u /\ loc'[u] = Goal
<1>3. stays
  <2>1. ASSUME NEW t \in Threads, HwTrap(t) PROVE stays
    BY <1>1, <1>2, <2>1 DEF HwTrap, TypeOK
  <2>2. ASSUME NEW t \in Threads, Trap(t) PROVE stays
    <3>1. t # u
      BY <1>2, <2>2
    <3> QED BY <1>1, <2>2, <3>1 DEF Trap, TypeOK
  <2>3. ASSUME NEW t \in Threads, UExecute(t) PROVE stays
    <3>1. t # u
      BY <1>2, <2>3
    <3> QED BY <1>1, <2>3, <3>1 DEF UExecute, Execute, TypeOK
  <2>4. ASSUME NEW t \in Threads, StartThread(t) PROVE stays
    <3>1. t # u
      BY <1>2, <2>4
    <3> QED BY <1>1, <2>4, <3>1 DEF StartThread, TypeOK
  <2>5. CASE \/ \E t \in Threads : ExitThread(t)
             \/ \E p \in Procs, a \in Addrs : Overwrite(p, a)
    BY <1>1, <2>5 DEF ExitThread, Overwrite
  <2> QED BY <2>1, <2>2, <2>3, <2>4, <2>5 DEF UTarget
<1> QED BY <1>3 DEF Queued

(* And whatever the loop does short of delivering the hit.                 *)
LEMMA QueuedInLoop ==
  ASSUME TypeOK, NEW u \in Threads, Queued(u, Home[u], Goal), Candidates(Goal) # {},
         \/ UntilContinue
         \/ \E t \in Threads : \/ UntilRearm(t) \/ UntilForeign(t)
                               \/ \E id \in Ids : UntilHit(t, id) /\ ~AtGoal(t)
  PROVE  Queued(u, Home[u], Goal)'
<1>1. exc[u] = "bp" /\ past[u] /\ event # u /\ loc[u] = Goal
  BY DEF Queued
<1>2. CASE UntilContinue
  BY <1>1, <1>2, HomeAssumption DEF UntilContinue, Continue, Queued, TypeOK
<1>3. ASSUME NEW t \in Threads, UntilRearm(t) PROVE Queued(u, Home[u], Goal)'
  <2>1. t # u /\ Rearm(t)
    BY <1>1, <1>3 DEF UntilRearm, Rearm
  <2>2. (event' = t \/ event' = event) /\ (exc' = exc \/ exc' = [exc EXCEPT ![t] = "none"])
        /\ UNCHANGED <<loc, past>>
    BY <2>1 DEF Rearm
  <2> QED BY <1>1, <2>1, <2>2 DEF Queued, TypeOK
<1>4. ASSUME NEW t \in Threads, UntilForeign(t) PROVE Queued(u, Home[u], Goal)'
  <2>1. t # u
    BY <1>1, <1>4 DEF UntilForeign, ForeignBreakpoint, ForeignStep
  <2> QED BY <1>1, <1>4, <2>1 DEF UntilForeign, ForeignBreakpoint, ForeignStep, target, Queued
<1>5. ASSUME NEW t \in Threads, NEW id \in Ids, UntilHit(t, id), ~AtGoal(t)
      PROVE  Queued(u, Home[u], Goal)'
  <2>1. t # u
    BY <1>1, <1>5 DEF AtGoal
  <2>2. event' = t /\ UNCHANGED <<loc, exc>> /\ past' = [past EXCEPT ![t] = FALSE]
    BY <1>5 DEF UntilHit, HitBreakpoint, BeginHit, Rewind
  <2> QED BY <1>1, <2>1, <2>2 DEF Queued, TypeOK
<1> QED BY <1>2, <1>3, <1>4, <1>5

LEMMA WatchedTarget ==
  ASSUME Procs = {Target}, Goal \notin HwAddrs \cup Unpacked, CallInv, Slots, Stepping, Watched,
         UTarget
  PROVE  Watched'
<1>1. UNCHANGED <<stage, breakpoints, raised>>
  BY RecordsStay DEF UTarget, UExecute, HwTrap, records, call, TargetStep,
     Execute, Trap, ExitThread, StartThread, Overwrite
<1>2. SUFFICES ASSUME Waiting
               PROVE  /\ "unseen" \notin came'
                      /\ "trapped" \in came' => (\E t \in Threads : Queued(t, Home[t], Goal))'
  BY <1>1 DEF Watched, Waiting, Candidates
<1>3. "trapped" \in came => (\E t \in Threads : Queued(t, Home[t], Goal))'
  BY <1>2, QueuedStays DEF Watched, CallInv
<1>4. ASSUME NEW t \in Threads, Trap(t), TrapsCounted
      PROVE  /\ "unseen" \notin came'
             /\ "trapped" \in came' => (\E u \in Threads : Queued(u, Home[u], Goal))'
  <2>1. event # t
    BY <1>4, HomeAssumption DEF Trap, Runnable, Stopped
  <2>2. loc[t] = Goal => Queued(t, Home[t], Goal)'
    BY <1>4, <2>1 DEF Trap, Queued, CallInv, TypeOK
  <2>3. \A u \in Threads : exc'[u] # exc[u] => u = t
    BY <1>4 DEF Trap, CallInv, TypeOK
  <2>4. "trapped" \in came' => "trapped" \in came \/ loc[t] = Goal
    BY <1>4, <2>3 DEF TrapsCounted
  <2>5. "unseen" \in came' => "unseen" \in came
    BY <1>4 DEF TrapsCounted
  <2> QED BY <1>2, <1>3, <2>2, <2>4, <2>5 DEF Watched
<1>5. ASSUME NEW t \in Threads, UExecute(t)
      PROVE  "unseen" \notin came' /\ ("trapped" \in came' => "trapped" \in came)
  <2>1. ASSUME loc[t] = Goal, Leaving = {} PROVE past[t]
    BY <1>2, <1>5, <2>1, NobodyPasses DEF UExecute, Watched, CallInv
  <2> QED BY <1>2, <1>5, <2>1 DEF UExecute, Watched
<1>6. ASSUME NEW t \in Threads, HwTrap(t) PROVE came' = came
  <2>1. loc[t] # Goal
    BY <1>6 DEF HwTrap
  <2>2. \A u \in Threads : exc'[u] # exc[u] => u = t
    BY <1>6 DEF HwTrap, CallInv, TypeOK
  <2> QED BY <1>6, <2>1, <2>2 DEF HwTrap, TrapsCounted
<1>7. ASSUME \/ \E t \in Threads : StartThread(t) \/ ExitThread(t)
             \/ \E p \in Procs, a \in Addrs : Overwrite(p, a),
             TrapsCounted
      PROVE  came' = came
  BY <1>7 DEF TrapsCounted, StartThread, ExitThread, Overwrite
<1> QED BY <1>2, <1>3, <1>4, <1>5, <1>6, <1>7 DEF UTarget, Watched

LEMMA WatchedStep ==
  ASSUME Procs = {Target}, Goal \notin HwAddrs \cup Unpacked, CallInv, Slots, Stepping, Watched,
         [UNext]_uvars
  PROVE  Watched'
<1>1. CASE UNCHANGED uvars
  BY <1>1 DEF uvars, vars, target, records, call, Watched, Waiting, Candidates, Queued
<1>2. CASE UTarget
  BY <1>2, WatchedTarget
<1>3. CASE UClient
  BY <1>3 DEF UClient, ContinueDefault, Watched, Waiting, call
<1>4. CASE Begin
  <2>1. CASE Known /\ UNCHANGED vars /\ stage' = "head"
    BY <1>4, <2>1 DEF Begin, Known, Watched, Waiting, Candidates, vars, records
  <2>2. CASE Set(Target, Goal) /\ stage' = "head"
    <3>1. /\ bp_counter + 1 \in DOMAIN breakpoints'
          /\ breakpoints'[bp_counter + 1].addr = Goal /\ raised' = raised
      BY <2>2 DEF Set, Put
    <3> QED BY <1>4, <2>2, <3>1 DEF Begin, Watched, Waiting, Candidates
  <2>3. CASE stage' = "out"
    BY <2>3 DEF Watched, Waiting
  <2> QED BY <1>4, <2>1, <2>2, <2>3 DEF Begin
<1>5. CASE UNext /\ stage # "out" /\ ~UTarget
  <2>1. CASE stage' \notin {"head", "resume"}
    BY <2>1 DEF Watched, Waiting
  <2>2. CASE stage' \in {"head", "resume"} /\ Waiting
    <3>1. UNCHANGED <<breakpoints, came>>
      BY <1>5, <2>2, UnderWay DEF CallInv, UNext, UClient, ContinueDefault, UntilStep, Begin,
         Expire, EmptyWait, UntilContinue, Cleanup, UntilHit, UntilFails, UntilRearm,
         UntilForeign, Leave
    <3>2. ~Expire /\ ~Cleanup /\ ~Begin /\ ~UClient
          /\ \A t \in Threads, id \in Ids : ~UntilFails(t, id) /\ (UntilHit(t, id) => ~AtGoal(t))
      BY <1>5, <2>2 DEF Expire, Cleanup, Begin, UClient, ContinueDefault, UntilFails, UntilHit,
         Leave
    <3>3. CASE EmptyWait
      BY <2>2, <3>1, <3>3 DEF EmptyWait, Watched, Waiting, Candidates, Queued, vars, target
    <3>4. ASSUME \/ UntilContinue
                 \/ \E t \in Threads : \/ UntilRearm(t) \/ UntilForeign(t)
                                       \/ \E id \in Ids : UntilHit(t, id) /\ ~AtGoal(t)
          PROVE  Watched'
      <4>1. ~raised'
        BY <2>2, <3>4 DEF UntilContinue, Continue, UntilRearm, UntilForeign, ForeignBreakpoint,
           ForeignStep, UntilHit, HitBreakpoint, Leave, Watched
      <4>2. (\E t \in Threads : Queued(t, Home[t], Goal))
              => (\E t \in Threads : Queued(t, Home[t], Goal))'
        BY <2>2, <3>4, QueuedInLoop DEF CallInv, Watched
      <4> QED BY <2>2, <3>1, <4>1, <4>2 DEF Watched, Candidates
    <3> QED BY <1>5, <3>2, <3>3, <3>4 DEF UNext, UntilStep
  <2>3. CASE stage = "leaving" /\ ~Cleanup
    BY <1>5, <2>3, UnderWay DEF CallInv, Watched, Waiting
  <2>4. CASE Cleanup
    BY <2>4 DEF Cleanup, Watched, Waiting
  <2> QED BY <1>5, <2>1, <2>2, <2>3, <2>4 DEF CallInv, CallTrue, Waiting
<1>6. CASE UNext /\ stage = "out" /\ ~UTarget /\ ~UClient
  <2>1. Begin
    BY <1>6 DEF UNext, UntilStep, Expire, EmptyWait, UntilContinue, Cleanup, UntilHit,
       UntilFails, UntilRearm, UntilForeign
  <2> QED BY <1>4, <2>1
<1> QED BY <1>1, <1>2, <1>3, <1>5, <1>6

(* When run_until() gives up, no thread has executed Goal without a step   *)
(* off it being under way, and one that trapped on it meanwhile has its    *)
(* hit in the queue.  Any system call may fail; the client sets one        *)
(* breakpoint per address and watches Goal with no debug register, and the *)
(* target neither overwrites Goal nor ends a thread.                       *)
THEOREM GivesUpOnlyIfNotReached ==
  ASSUME Procs = {Target}, Goal \notin HwAddrs \cup Unpacked, Sharing = {}, Exits = {}
  PROVE  USpec => UnreachedIsTrue
<1>1. UInit => Slots /\ Stepping /\ Watched
  BY DEF UInit, Init, Empty, Slots, OneRecordPerAddress, PendingMatchesRecord, Stepping,
     StepsScheduled, OutExplained, WritesWhatItUnpacks, Watched, Waiting
<1>2. CallInv /\ Slots /\ Stepping /\ Watched /\ [UNext]_uvars
        => (Slots /\ Stepping /\ Watched)'
  BY SlotsCall, SteppingCall, WatchedStep DEF CallInv
<1>3. Watched /\ [UNext]_uvars =>
        [stage = "head" /\ stage' = "leaving" /\ result' = "unreached" =>
         /\ "unseen" \notin came
         /\ "trapped" \in came => \E t \in Threads : Overdue(t)]_uvars
  BY DEF Watched, Waiting, Overdue
<1> QED BY <1>1, <1>2, <1>3, CallAccounts, PTL DEF USpec, UnreachedIsTrue

=============================================================================
