------------------------ MODULE SessionHandlesProofs ------------------------
(***************************************************************************)
(* That handles are what the session takes them for, that breakpoints keep *)
(* reaching their process and that no handle of a process or thread is     *)
(* lost, for any pids, handle values, access masks and refusals, and a     *)
(* tidy client.                                                            *)
(***************************************************************************)
EXTENDS SessionHandles, TLAPS

Is(h, object) == h \in DOMAIN table /\ table[h] = object

(* The debug children whose handles Windows has not closed.                *)
Tracked == (DOMAIN children \cap debugged) \ {pid}

TargetTrue ==
  /\ process_handle # None => pid # None /\ Is(process_handle, Process(pid, Rights))
  /\ thread_handle # None => pid # None /\ Is(thread_handle, Thread(pid))

ChildrenTrue ==
  /\ debugged \subseteq {pid} \cup DOMAIN children
  /\ \A c \in Tracked : /\ Is(children[c].process, Process(c, Rights))
                        /\ Is(children[c].thread, Thread(c))

(* A process opened by pid may be the target or a child: its own handle is *)
(* another one, so that closing the first leaves the second open.          *)
ForeignTrue ==
  \A p \in DOMAIN foreign :
     /\ Is(foreign[p].handle, Process(p, Grants[foreign[p].access]))
     /\ foreign[p].handle # process_handle
     /\ \A c \in Tracked : foreign[p].handle # children[c].process

(* Every open handle has an owner that closes it, but those of images.     *)
Owned(h) ==
  \/ table[h].kind = "file"
  \/ h \in {process_handle, thread_handle}
  \/ \E p \in DOMAIN foreign : foreign[p].handle = h
  \/ \E c \in Tracked : h \in {children[c].process, children[c].thread}

OwnersTrue ==
  /\ TargetTrue /\ ChildrenTrue /\ ForeignTrue
  /\ \A h \in DOMAIN table : Owned(h)

IInv == TypeOK /\ OwnersTrue /\ BreakpointsReached

-----------------------------------------------------------------------------
(* Tables.                                                                 *)

LEMMA PutGives ==
  ASSUME NEW f, NEW k, NEW v
  PROVE  /\ DOMAIN Put(f, k, v) = DOMAIN f \cup {k}
         /\ Put(f, k, v)[k] = v
         /\ \A x \in DOMAIN f \ {k} : Put(f, k, v)[x] = f[x]
         /\ Put(f, k, v) = [x \in DOMAIN Put(f, k, v) |-> Put(f, k, v)[x]]
BY DEF Put

LEMMA DropGives ==
  ASSUME NEW f, NEW K
  PROVE  /\ DOMAIN Drop(f, K) = DOMAIN f \ K
         /\ \A x \in DOMAIN f \ K : Drop(f, K)[x] = f[x]
         /\ Drop(f, K) = [x \in DOMAIN Drop(f, K) |-> Drop(f, K)[x]]
BY DEF Drop, Restrict

LEMMA PutTyped ==
  ASSUME NEW S, NEW f, f \in [DOMAIN f -> S], NEW k, NEW v \in S
  PROVE  Put(f, k, v) \in [DOMAIN Put(f, k, v) -> S]
BY DEF Put

LEMMA DropTyped ==
  ASSUME NEW S, NEW f, f \in [DOMAIN f -> S], NEW K
  PROVE  Drop(f, K) \in [DOMAIN Drop(f, K) -> S]
BY DEF Drop, Restrict

LEMMA Objects ==
  ASSUME NEW p \in Pids
  PROVE  /\ Thread(p) \in Object /\ Process(p, Rights) \in Object /\ ImageFile \in Object
         /\ \A mask \in AnyMask :
               Grants[mask] \subseteq Rights /\ Process(p, Grants[mask]) \in Object
<1>1. Thread(p) \in Object /\ ImageFile \in Object
  BY DEF Thread, ImageFile, Object
<1>2. ASSUME NEW rights \in SUBSET Rights PROVE Process(p, rights) \in Object
  BY DEF Process, Object
<1>3. \A mask \in AnyMask : Grants[mask] \subseteq Rights
  BY MaskAssumption DEF AnyMask, Grants, Rights
<1> QED BY <1>1, <1>2, <1>3

LEMMA EventHandlesOf ==
  ASSUME NEW p \in Pids
  PROVE  /\ p \in Tracked => EventHandles(p) = {children[p].process, children[p].thread}
         /\ p \notin Tracked => EventHandles(p) = {}
BY DEF EventHandles, Tracked

(* Two open handles that mean different things are different handles.      *)
LEMMA Meanings ==
  ASSUME NEW p, NEW q, NEW r1, NEW r2
  PROVE  /\ Process(p, r1) # Thread(q)
         /\ Process(p, r1).pid = p /\ Thread(q).pid = q
         /\ Process(p, r1).kind = "process" /\ Process(p, r1).rights = r1
         /\ p # q => Process(p, r1) # Process(q, r2) /\ Thread(p) # Thread(q)
BY DEF Process, Thread

-----------------------------------------------------------------------------
(* The end of a process, however it comes.                                 *)

LEMMA EndedKeeps ==
  ASSUME IInv, NEW p \in Pids, Ended(p), UNCHANGED <<session, breakpoints, bp_counter>>
  PROVE  IInv'
<1>1. TypeOK /\ TargetTrue /\ ChildrenTrue /\ ForeignTrue /\ BreakpointsReached
      /\ \A h \in DOMAIN table : Owned(h)
  BY DEF IInv, OwnersTrue
<1>2. /\ pid' = pid /\ process_handle' = process_handle /\ thread_handle' = thread_handle
      /\ children' = children /\ foreign' = foreign /\ debug_children' = debug_children
      /\ breakpoints' = breakpoints /\ bp_counter' = bp_counter
      /\ debugged' = debugged \ {p}
  BY DEF session, Ended
<1>3. /\ DOMAIN table' = DOMAIN table \ EventHandles(p)
      /\ \A h \in DOMAIN table' : table'[h] = table[h]
      /\ table' \in [DOMAIN table' -> Object]
  <2>1. table' = Drop(table, EventHandles(p)) /\ table \in [DOMAIN table -> Object]
    BY <1>1 DEF Ended, TypeOK
  <2>2. Drop(table, EventHandles(p)) \in [DOMAIN Drop(table, EventHandles(p)) -> Object]
    BY <2>1, DropTyped
  <2>3. /\ DOMAIN Drop(table, EventHandles(p)) = DOMAIN table \ EventHandles(p)
        /\ \A h \in DOMAIN table \ EventHandles(p) : Drop(table, EventHandles(p))[h] = table[h]
    BY DropGives
  <2> QED BY <2>1, <2>2, <2>3
<1>4. /\ Tracked' = Tracked \ {p}
      /\ \A h \in EventHandles(p) : p \in Tracked /\ h \in {children[p].process, children[p].thread}
  BY <1>2, EventHandlesOf DEF Tracked
<1>5. \A h, object : Is(h, object) /\ h \notin EventHandles(p) => Is(h, object)'
  BY <1>3 DEF Is
<1>6. TypeOK'
  BY <1>1, <1>2, <1>3 DEF Ended, TypeOK
<1>7. TargetTrue'
  <2>2. process_handle # None => process_handle \notin EventHandles(p)
    BY <1>1, <1>4, Meanings DEF TargetTrue, ChildrenTrue, Is, Tracked
  <2>3. ASSUME thread_handle # None, thread_handle \in EventHandles(p) PROVE FALSE
    <3>1. table[thread_handle] = Thread(pid)
      BY <1>1, <2>3 DEF TargetTrue, Is
    <3>2. table[thread_handle] \in {Process(p, Rights), Thread(p)} /\ p # pid
      BY <1>1, <1>4, <2>3 DEF ChildrenTrue, Is, Tracked
    <3> QED BY <3>1, <3>2 DEF Process, Thread
  <2> QED BY <1>1, <1>2, <1>5, <2>2, <2>3 DEF TargetTrue, Process, Thread, Rights
<1>8. ChildrenTrue'
  <2>1. ASSUME NEW c \in Tracked'
        PROVE  Is(children[c].process, Process(c, Rights))' /\ Is(children[c].thread, Thread(c))'
    <3>1. c \in Tracked /\ c # p
      BY <1>4
    <3>2. children[c].process \notin EventHandles(p) /\ children[c].thread \notin EventHandles(p)
      BY <1>1, <1>4, <3>1, Meanings DEF ChildrenTrue, Is
    <3>3. Is(children[c].process, Process(c, Rights)) /\ Is(children[c].thread, Thread(c))
      BY <1>1, <3>1 DEF ChildrenTrue
    <3> QED BY <1>2, <1>5, <3>2, <3>3 DEF Process, Thread, Rights, Is
  <2> QED BY <1>1, <1>2, <2>1 DEF ChildrenTrue, Process, Thread, Rights, Is
<1>9. ForeignTrue'
  <2>1. ASSUME NEW q \in DOMAIN foreign
        PROVE  Is(foreign[q].handle, Process(q, Grants[foreign[q].access]))'
    <3>1. Is(foreign[q].handle, Process(q, Grants[foreign[q].access]))
      BY <1>1 DEF ForeignTrue
    <3>2. foreign[q].handle \notin EventHandles(p)
      BY <1>1, <1>4, <3>1, Meanings DEF ForeignTrue, ChildrenTrue, Is
    <3> QED BY <1>2, <1>3, <3>1, <3>2 DEF Is, Process, Grants, Rights
  <2> QED BY <1>1, <1>2, <1>4, <2>1 DEF ForeignTrue
<1>10. ASSUME NEW h \in DOMAIN table' PROVE Owned(h)'
  BY <1>1, <1>2, <1>3, <1>4, <1>10, EventHandlesOf DEF Owned
<1>11. BreakpointsReached'
  BY <1>1, <1>2, <1>3 DEF BreakpointsReached, Refers, Ended
<1> QED BY <1>6, <1>7, <1>8, <1>9, <1>10, <1>11 DEF IInv, OwnersTrue

-----------------------------------------------------------------------------
(* Steps that open and close nothing.                                      *)

LEMMA SameHandles ==
  ASSUME OwnersTrue, UNCHANGED <<table, debugged, session>>
  PROVE  OwnersTrue'
BY DEF OwnersTrue, TargetTrue, ChildrenTrue, ForeignTrue, Owned, Is, Tracked, session,
   Process, Thread, Rights, Grants

LEMMA StartsKeeps ==
  ASSUME IInv, NEW p \in Pids, Starts(p)
  PROVE  IInv'
<1>1. OwnersTrue'
  BY SameHandles DEF Starts, IInv
<1>2. TypeOK'
  BY DEF Starts, IInv, TypeOK, session, records
<1>3. BreakpointsReached'
  BY DEF Starts, IInv, BreakpointsReached, Refers, records
<1> QED BY <1>1, <1>2, <1>3 DEF IInv

LEMMA SetDebugChildrenKeeps ==
  ASSUME IInv, NEW enabled \in BOOLEAN, SetDebugChildren(enabled)
  PROVE  IInv'
<1>1. OwnersTrue'
  BY DEF SetDebugChildren, windows, IInv, OwnersTrue, TargetTrue, ChildrenTrue, ForeignTrue,
     Owned, Is, Tracked, Process, Thread, Rights, Grants
<1>2. TypeOK'
  BY DEF SetDebugChildren, windows, IInv, TypeOK, records
<1>3. BreakpointsReached'
  BY DEF SetDebugChildren, windows, IInv, BreakpointsReached, Refers, records
<1> QED BY <1>1, <1>2, <1>3 DEF IInv

LEMMA ExitsKeeps ==
  ASSUME IInv, NEW p \in Pids, Exits(p)
  PROVE  IInv'
BY EndedKeeps DEF Exits

(* A handle that is handed out is the one of the process that was asked    *)
(* for and has the rights it is needed for.                                *)
LEMMA HandedOut ==
  ASSUME TypeOK, TargetTrue, ChildrenTrue, ForeignTrue,
         NEW p \in Pids, NEW need \in SUBSET {"write", "terminate"},
         p \in DOMAIN children => p \in debugged \cup {pid},
         NEW h \in HandleFor(p, need)
  PROVE  Refers(h, p) /\ need \subseteq table[h].rights
<1>1. CASE p = pid
  BY <1>1, Meanings DEF HandleFor, TargetTrue, Is, Refers, Rights
<1>2. CASE p # pid /\ p \in DOMAIN children
  BY <1>2, Meanings DEF HandleFor, ChildrenTrue, Tracked, Is, Refers, Rights
<1>3. CASE p # pid /\ p \notin DOMAIN children
  BY <1>3, Meanings DEF HandleFor, MayUse, ForeignTrue, Is, Refers
<1> QED BY <1>1, <1>2, <1>3

LEMMA TerminateKeeps ==
  ASSUME Tidy, IInv, NEW p \in Pids, Terminate(p)
  PROVE  IInv'
<1>1. PICK h \in HandleFor(p, {"terminate"}) \cap DOMAIN table : Ended(table[h].pid)
  BY DEF Terminate
<1>2. Refers(h, p)
  BY <1>1, HandedOut DEF Terminate, IInv, OwnersTrue
<1> QED BY <1>1, <1>2, EndedKeeps DEF Terminate, Refers

LEMMA SetBreakpointKeeps ==
  ASSUME Tidy, IInv, NEW p \in Pids, SetBreakpoint(p)
  PROVE  IInv'
<1>1. PICK h \in HandleFor(p, {"write"}) \cap DOMAIN table :
         breakpoints' = Put(breakpoints, bp_counter + 1, [handle |-> h, pid |-> p])
  BY DEF SetBreakpoint
<1>2. Refers(h, p)
  BY <1>1, HandedOut DEF SetBreakpoint, IInv, OwnersTrue
<1>3. /\ bp_counter \in 0..MaxBps /\ DOMAIN breakpoints \subseteq 1..bp_counter
      /\ breakpoints \in [DOMAIN breakpoints -> [handle : Handles, pid : Pids]]
      /\ orphaned \subseteq 1..bp_counter /\ h \in Handles
  BY <1>1 DEF IInv, TypeOK
<1>4. /\ bp_counter' = bp_counter + 1 /\ bp_counter' \in 0..MaxBps
      /\ DOMAIN breakpoints' = DOMAIN breakpoints \cup {bp_counter + 1}
      /\ DOMAIN breakpoints' \subseteq 1..bp_counter' /\ orphaned \subseteq 1..bp_counter'
      /\ bp_counter + 1 \notin orphaned
  BY <1>1, <1>3, BoundAssumption DEF SetBreakpoint, Put
<1>5. breakpoints' \in [DOMAIN breakpoints' -> [handle : Handles, pid : Pids]]
  BY <1>1, <1>3, PutTyped
<1>6. TypeOK'
  BY <1>4, <1>5 DEF SetBreakpoint, windows, session, IInv, TypeOK
<1>7. OwnersTrue'
  BY SameHandles DEF SetBreakpoint, windows, IInv
<1>8. BreakpointsReached'
  <2>1. \A i \in DOMAIN breakpoints' :
          \/ i \in DOMAIN breakpoints /\ breakpoints'[i] = breakpoints[i]
          \/ breakpoints'[i] = [handle |-> h, pid |-> p]
    BY <1>1 DEF Put
  <2> QED BY <1>2, <2>1 DEF SetBreakpoint, windows, IInv, BreakpointsReached, Refers
<1> QED BY <1>6, <1>7, <1>8 DEF IInv

LEMMA RemoveBreakpointKeeps ==
  ASSUME IInv, NEW id \in Ids, RemoveBreakpoint(id)
  PROVE  IInv'
<1>1. /\ breakpoints' = Drop(breakpoints, {id}) /\ bp_counter' = bp_counter
      /\ orphaned' = orphaned
  BY DEF RemoveBreakpoint
<1>2. /\ DOMAIN breakpoints' \subseteq DOMAIN breakpoints
      /\ \A i \in DOMAIN breakpoints' : breakpoints'[i] = breakpoints[i]
  BY <1>1 DEF Drop, Restrict
<1>3. breakpoints' \in [DOMAIN breakpoints' -> [handle : Handles, pid : Pids]]
  BY <1>1, DropTyped DEF IInv, TypeOK
<1>4. TypeOK'
  BY <1>1, <1>2, <1>3 DEF RemoveBreakpoint, windows, session, IInv, TypeOK
<1>5. OwnersTrue'
  BY SameHandles DEF RemoveBreakpoint, windows, IInv
<1>6. BreakpointsReached'
  BY <1>1, <1>2 DEF RemoveBreakpoint, windows, IInv, BreakpointsReached, Refers
<1> QED BY <1>4, <1>5, <1>6 DEF IInv

-----------------------------------------------------------------------------
(* Steps that open a handle: the ones that are open keep their meaning.    *)

(* What WithImage(opened) opens beyond "opened" is the image file, at most. *)
LEMMA ImageOpens ==
  ASSUME NEW opened, opened \in [DOMAIN opened -> Object], DOMAIN opened \subseteq Handles,
         WithImage(opened)
  PROVE  /\ DOMAIN table' \subseteq Handles /\ table' \in [DOMAIN table' -> Object]
         /\ DOMAIN opened \subseteq DOMAIN table'
         /\ \A g \in DOMAIN opened : table'[g] = opened[g]
         /\ \A g \in DOMAIN table' \ DOMAIN opened : table'[g].kind = "file"
<1>1. CASE table' = opened
  BY <1>1
<1>2. ASSUME NEW h \in Handles \ DOMAIN opened, table' = Put(opened, h, ImageFile)
      PROVE  /\ DOMAIN table' \subseteq Handles /\ table' \in [DOMAIN table' -> Object]
             /\ DOMAIN opened \subseteq DOMAIN table'
             /\ \A g \in DOMAIN opened : table'[g] = opened[g]
             /\ \A g \in DOMAIN table' \ DOMAIN opened : table'[g].kind = "file"
  <2>1. ImageFile \in Object /\ ImageFile.kind = "file"
    BY DEF ImageFile, Object
  <2> QED BY <1>2, <2>1 DEF Put
<1> QED BY <1>1, <1>2 DEF WithImage

LEMMA OpensTwo ==
  ASSUME TypeOK, NEW hp \in Fresh, NEW ht \in Fresh, hp # ht, NEW p \in Pids,
         table' = Put(Put(table, hp, Process(p, Rights)), ht, Thread(p))
  PROVE  /\ DOMAIN table' = DOMAIN table \cup {hp, ht} /\ DOMAIN table' \subseteq Handles
         /\ table' \in [DOMAIN table' -> Object]
         /\ table'[hp] = Process(p, Rights) /\ table'[ht] = Thread(p)
         /\ hp \in Handles \ DOMAIN table /\ ht \in Handles \ DOMAIN table
         /\ hp # None /\ ht # None
         /\ \A g \in DOMAIN table : table'[g] = table[g]
<1>1. Process(p, Rights) \in Object /\ Thread(p) \in Object
  BY Objects
<1> QED BY <1>1, NoneAssumption DEF TypeOK, Fresh, Put

LEMMA CreateProcessKeeps ==
  ASSUME Tidy, IInv, NEW p \in Pids, CreateProcess(p)
  PROVE  IInv'
<1>1. TypeOK /\ TargetTrue /\ ChildrenTrue /\ ForeignTrue /\ BreakpointsReached
      /\ \A h \in DOMAIN table : Owned(h)
  BY DEF IInv, OwnersTrue
<1>2. process_handle = None /\ thread_handle = None /\ debugged = {}
  BY DEF CreateProcess, MayStart
<1>3. PICK hp \in Fresh, ht \in Fresh :
         /\ hp # ht /\ process_handle' = hp /\ thread_handle' = ht
         /\ table' = Put(Put(table, hp, Process(p, Rights)), ht, Thread(p))
  BY DEF CreateProcess
<1>4. /\ DOMAIN table' = DOMAIN table \cup {hp, ht} /\ DOMAIN table' \subseteq Handles
      /\ table' \in [DOMAIN table' -> Object]
      /\ table'[hp] = Process(p, Rights) /\ table'[ht] = Thread(p)
      /\ hp \in Handles \ DOMAIN table /\ ht \in Handles \ DOMAIN table
      /\ hp # None /\ ht # None
      /\ \A g \in DOMAIN table : table'[g] = table[g]
  BY <1>1, <1>3, OpensTwo
<1>5. /\ pid' = p /\ p # None /\ debugged' = {p} /\ Tracked' = {} /\ Tracked = {}
      /\ UNCHANGED <<children, foreign, breakpoints, bp_counter, orphaned, debug_children>>
  BY <1>2, NoneAssumption DEF CreateProcess, Tracked, records
<1>6. TypeOK'
  BY <1>1, <1>2, <1>3, <1>4, <1>5 DEF CreateProcess, TypeOK
<1>7. TargetTrue'
  BY <1>3, <1>4, <1>5 DEF TargetTrue, Is, Process, Thread, Rights
<1>8. ChildrenTrue'
  BY <1>5 DEF ChildrenTrue
<1>9. ForeignTrue'
  BY <1>1, <1>3, <1>4, <1>5 DEF ForeignTrue, Is, Process, Grants, Rights
<1>10. ASSUME NEW h \in DOMAIN table' PROVE Owned(h)'
  BY <1>1, <1>2, <1>3, <1>4, <1>5, <1>10, NoneAssumption DEF Owned, TypeOK
<1>11. BreakpointsReached'
  BY <1>1, <1>4, <1>5 DEF BreakpointsReached, Refers
<1> QED BY <1>6, <1>7, <1>8, <1>9, <1>10, <1>11 DEF IInv, OwnersTrue

LEMMA AttachKeeps ==
  ASSUME Tidy, IInv, NEW p \in Pids, Attach(p)
  PROVE  IInv'
<1>1. TypeOK /\ TargetTrue /\ ChildrenTrue /\ ForeignTrue /\ BreakpointsReached
      /\ \A h \in DOMAIN table : Owned(h)
  BY DEF IInv, OwnersTrue
<1>2. process_handle = None /\ thread_handle = None /\ debugged = {}
  BY DEF Attach, MayStart
<1>3. /\ pid' = p /\ p # None /\ debugged' = {p} /\ Tracked' = {} /\ Tracked = {}
      /\ UNCHANGED <<children, foreign, breakpoints, bp_counter, orphaned, debug_children,
                     thread_handle>>
  BY <1>2, NoneAssumption DEF Attach, Tracked, records
<1>4. \/ UNCHANGED <<table, process_handle>>
      \/ \E h \in Fresh : table' = Put(table, h, Process(p, Rights)) /\ process_handle' = h
  BY DEF Attach
<1>5. /\ DOMAIN table' \subseteq Handles /\ table' \in [DOMAIN table' -> Object]
      /\ \A g \in DOMAIN table : g \in DOMAIN table' /\ g # process_handle' /\ table'[g] = table[g]
      /\ process_handle' # None => /\ process_handle' \in Handles
                                   /\ process_handle' \in DOMAIN table'
                                   /\ table'[process_handle'] = Process(p, Rights)
      /\ DOMAIN table' \subseteq DOMAIN table \cup {process_handle'}
  <2>1. CASE UNCHANGED <<table, process_handle>>
    BY <1>1, <1>2, <2>1, NoneAssumption DEF TypeOK
  <2>2. CASE \E h \in Fresh : table' = Put(table, h, Process(p, Rights)) /\ process_handle' = h
    <3>1. PICK h \in Fresh : table' = Put(table, h, Process(p, Rights)) /\ process_handle' = h
      BY <2>2
    <3>2. Process(p, Rights) \in Object
      BY Objects
    <3>3. /\ DOMAIN table' = DOMAIN table \cup {h} /\ DOMAIN table' \subseteq Handles
          /\ table' \in [DOMAIN table' -> Object] /\ table'[h] = Process(p, Rights)
          /\ h \in Handles /\ \A g \in DOMAIN table : g # h /\ table'[g] = table[g]
      BY <1>1, <3>1, <3>2 DEF TypeOK, Fresh, Put
    <3> QED BY <3>1, <3>3
  <2> QED BY <1>4, <2>1, <2>2
<1>6. TypeOK'
  BY <1>1, <1>2, <1>3, <1>5 DEF Attach, TypeOK
<1>7. TargetTrue'
  BY <1>2, <1>3, <1>5 DEF TargetTrue, Is, Process, Rights
<1>8. ChildrenTrue'
  BY <1>3 DEF ChildrenTrue
<1>9. ForeignTrue'
  BY <1>1, <1>3, <1>5 DEF ForeignTrue, Is, Process, Grants, Rights
<1>10. ASSUME NEW h \in DOMAIN table' PROVE Owned(h)'
  BY <1>1, <1>2, <1>3, <1>5, <1>10, NoneAssumption DEF Owned, TypeOK
<1>11. BreakpointsReached'
  BY <1>1, <1>3, <1>5 DEF BreakpointsReached, Refers
<1> QED BY <1>6, <1>7, <1>8, <1>9, <1>10, <1>11 DEF IInv, OwnersTrue

LEMMA TargetAnnouncedKeeps ==
  ASSUME IInv, TargetAnnounced
  PROVE  IInv'
<1>1. TypeOK /\ TargetTrue /\ ChildrenTrue /\ ForeignTrue /\ BreakpointsReached
      /\ \A h \in DOMAIN table : Owned(h)
  BY DEF IInv, OwnersTrue
<1>2. /\ pid \in Pids /\ Tracked' = Tracked
      /\ UNCHANGED <<pid, process_handle, debugged, children, foreign, breakpoints, bp_counter,
                     orphaned, debug_children>>
  BY <1>1, NoneAssumption DEF TargetAnnounced, Tracked, records, TypeOK
<1>3. \/ WithImage(table) /\ UNCHANGED thread_handle
      \/ /\ thread_handle = None
         /\ \E h \in Fresh : WithImage(Put(table, h, Thread(pid))) /\ thread_handle' = h
  BY DEF TargetAnnounced
<1>4. /\ DOMAIN table' \subseteq Handles /\ table' \in [DOMAIN table' -> Object]
      /\ \A g \in DOMAIN table : g \in DOMAIN table' /\ table'[g] = table[g]
      /\ \A g \in DOMAIN table' \ DOMAIN table : table'[g].kind = "file" \/ g = thread_handle'
      /\ \/ UNCHANGED thread_handle
         \/ /\ thread_handle = None /\ thread_handle' \in DOMAIN table' \ DOMAIN table
            /\ thread_handle' \in Handles /\ table'[thread_handle'] = Thread(pid)
  <2>1. CASE WithImage(table) /\ UNCHANGED thread_handle
    BY <1>1, <2>1, ImageOpens DEF TypeOK
  <2>2. ASSUME NEW h \in Fresh, thread_handle = None, thread_handle' = h,
               WithImage(Put(table, h, Thread(pid)))
        PROVE  /\ DOMAIN table' \subseteq Handles /\ table' \in [DOMAIN table' -> Object]
               /\ \A g \in DOMAIN table : g \in DOMAIN table' /\ table'[g] = table[g]
               /\ \A g \in DOMAIN table' \ DOMAIN table : table'[g].kind = "file" \/ g = h
               /\ h \in DOMAIN table' \ DOMAIN table /\ h \in Handles
               /\ table'[h] = Thread(pid)
    <3> DEFINE opened == Put(table, h, Thread(pid))
    <3>1. Thread(pid) \in Object
      BY <1>2, Objects
    <3>2. /\ opened \in [DOMAIN opened -> Object] /\ DOMAIN opened \subseteq Handles
          /\ DOMAIN opened = DOMAIN table \cup {h} /\ opened[h] = Thread(pid)
          /\ h \in Handles \ DOMAIN table
          /\ \A g \in DOMAIN table : opened[g] = table[g]
      BY <1>1, <3>1 DEF TypeOK, Fresh, Put
    <3>3. WithImage(opened)
      BY <2>2
    <3> HIDE DEF opened
    <3>4. /\ DOMAIN table' \subseteq Handles /\ table' \in [DOMAIN table' -> Object]
          /\ DOMAIN opened \subseteq DOMAIN table'
          /\ \A g \in DOMAIN opened : table'[g] = opened[g]
          /\ \A g \in DOMAIN table' \ DOMAIN opened : table'[g].kind = "file"
      BY <3>2, <3>3, ImageOpens
    <3> QED BY <3>2, <3>4
  <2> QED BY <1>3, <2>1, <2>2
<1>6. TypeOK'
  BY <1>1, <1>2, <1>4 DEF TargetAnnounced, TypeOK
<1>7. TargetTrue'
  <2>1. CASE UNCHANGED thread_handle
    BY <1>1, <1>2, <1>4, <2>1 DEF TargetTrue, Is, Process, Thread, Rights
  <2>2. CASE ~ UNCHANGED thread_handle
    BY <1>1, <1>2, <1>4, <2>2, NoneAssumption DEF TargetTrue, Is, Process, Thread, Rights
  <2> QED BY <2>1, <2>2
<1>8. ChildrenTrue'
  BY <1>1, <1>2, <1>4 DEF ChildrenTrue, Is, Process, Thread, Rights
<1>9. ForeignTrue'
  BY <1>1, <1>2, <1>4 DEF ForeignTrue, Is, Process, Grants, Rights
<1>10. ASSUME NEW g \in DOMAIN table' PROVE Owned(g)'
  <2>1. CASE g \in DOMAIN table
    <3>1. Owned(g) /\ g # None /\ table'[g] = table[g]
      BY <1>1, <1>4, <2>1, NoneAssumption DEF TypeOK
    <3> QED BY <1>2, <1>4, <3>1 DEF Owned
  <2>2. CASE g \notin DOMAIN table
    BY <1>4, <1>10, <2>2 DEF Owned
  <2> QED BY <2>1, <2>2
<1>11. BreakpointsReached'
  BY <1>1, <1>2, <1>4 DEF BreakpointsReached, Refers
<1> QED BY <1>6, <1>7, <1>8, <1>9, <1>10, <1>11 DEF IInv, OwnersTrue

LEMMA ChildAnnouncedKeeps ==
  ASSUME IInv, NEW c \in Pids, ChildAnnounced(c)
  PROVE  IInv'
<1>1. TypeOK /\ TargetTrue /\ ChildrenTrue /\ ForeignTrue /\ BreakpointsReached
      /\ \A h \in DOMAIN table : Owned(h)
  BY DEF IInv, OwnersTrue
<1>2. PICK hp \in Fresh, ht \in Fresh :
         /\ hp # ht /\ children' = Put(children, c, [process |-> hp, thread |-> ht])
         /\ WithImage(Put(Put(table, hp, Process(c, Rights)), ht, Thread(c)))
  BY DEF ChildAnnounced
<1>3. /\ DOMAIN table' \subseteq Handles /\ table' \in [DOMAIN table' -> Object]
      /\ DOMAIN table \cup {hp, ht} \subseteq DOMAIN table'
      /\ table'[hp] = Process(c, Rights) /\ table'[ht] = Thread(c)
      /\ hp \in Handles \ DOMAIN table /\ ht \in Handles \ DOMAIN table
      /\ \A g \in DOMAIN table : table'[g] = table[g]
      /\ \A g \in DOMAIN table' : g \in DOMAIN table \cup {hp, ht} \/ table'[g].kind = "file"
  <2> DEFINE opened == Put(Put(table, hp, Process(c, Rights)), ht, Thread(c))
  <2>1. Process(c, Rights) \in Object /\ Thread(c) \in Object
    BY Objects
  <2>2. /\ opened \in [DOMAIN opened -> Object] /\ DOMAIN opened \subseteq Handles
        /\ DOMAIN opened = DOMAIN table \cup {hp, ht}
        /\ opened[hp] = Process(c, Rights) /\ opened[ht] = Thread(c)
        /\ hp \in Handles \ DOMAIN table /\ ht \in Handles \ DOMAIN table
        /\ \A g \in DOMAIN table : opened[g] = table[g]
    BY <1>1, <1>2, <2>1 DEF TypeOK, Fresh, Put
  <2>3. WithImage(opened)
    BY <1>2
  <2> HIDE DEF opened
  <2>4. /\ DOMAIN table' \subseteq Handles /\ table' \in [DOMAIN table' -> Object]
        /\ DOMAIN opened \subseteq DOMAIN table'
        /\ \A g \in DOMAIN opened : table'[g] = opened[g]
        /\ \A g \in DOMAIN table' \ DOMAIN opened : table'[g].kind = "file"
    BY <2>2, <2>3, ImageOpens
  <2> QED BY <2>2, <2>4
<1>4. /\ c # pid /\ c \notin debugged /\ debugged' = debugged \cup {c}
      /\ \A h \in DOMAIN table : table[h].pid # c
      /\ UNCHANGED <<pid, process_handle, thread_handle, foreign, breakpoints, bp_counter,
                     orphaned, debug_children>>
  BY <1>1 DEF ChildAnnounced, Unused, TypeOK, records
<1>5. /\ DOMAIN children' = DOMAIN children \cup {c}
      /\ children'[c] = [process |-> hp, thread |-> ht]
      /\ \A k \in DOMAIN children \ {c} : children'[k] = children[k]
      /\ children' \in [DOMAIN children' -> [process : Handles, thread : Handles]]
      /\ Tracked' = Tracked \cup {c} /\ c \notin Tracked
  BY <1>1, <1>2, <1>3, <1>4 DEF Put, Tracked, TypeOK
<1>6. TypeOK'
  BY <1>1, <1>3, <1>4, <1>5 DEF ChildAnnounced, TypeOK
<1>7. TargetTrue'
  BY <1>1, <1>3, <1>4 DEF TargetTrue, Is, Process, Thread, Rights
<1>8. ChildrenTrue'
  <2>1. ASSUME NEW k \in Tracked'
        PROVE  Is(children[k].process, Process(k, Rights))' /\ Is(children[k].thread, Thread(k))'
    <3>1. CASE k = c
      BY <1>3, <1>5, <3>1 DEF Is, Process, Thread, Rights
    <3>2. CASE k # c
      <4>1. k \in Tracked /\ children'[k] = children[k]
        BY <1>5, <2>1, <3>2 DEF Tracked
      <4> QED BY <1>1, <1>3, <4>1 DEF ChildrenTrue, Is, Process, Thread, Rights
    <3> QED BY <3>1, <3>2
  <2> QED BY <1>1, <1>4, <1>5, <2>1 DEF ChildrenTrue, Process, Thread, Rights, Is
<1>9. ForeignTrue'
  <2>1. ASSUME NEW q \in DOMAIN foreign, NEW k \in Tracked'
        PROVE  foreign[q].handle # children'[k].process
    BY <1>1, <1>3, <1>5 DEF ForeignTrue, Is, Tracked
  <2> QED BY <1>1, <1>3, <1>4, <2>1 DEF ForeignTrue, Is, Process, Grants, Rights
<1>10. ASSUME NEW h \in DOMAIN table' PROVE Owned(h)'
  <2>1. CASE h \in {hp, ht}
    BY <1>5, <2>1 DEF Owned
  <2>2. CASE h \in DOMAIN table
    <3>1. Owned(h) /\ table'[h] = table[h]
      BY <1>1, <1>3, <2>2
    <3> QED BY <1>4, <1>5, <3>1 DEF Owned, Tracked
  <2>3. CASE h \notin DOMAIN table \cup {hp, ht}
    BY <1>3, <1>10, <2>3 DEF Owned
  <2> QED BY <2>1, <2>2, <2>3
<1>11. BreakpointsReached'
  BY <1>1, <1>3, <1>4 DEF BreakpointsReached, Refers
<1> QED BY <1>6, <1>7, <1>8, <1>9, <1>10, <1>11 DEF IInv, OwnersTrue

-----------------------------------------------------------------------------
(* Steps that close handles.                                               *)

(* What the handles are of.                                                *)
LEMMA HandleFacts ==
  ASSUME IInv
  PROVE  /\ process_handle # None => /\ process_handle \in DOMAIN table
                                     /\ table[process_handle].pid = pid
                                     /\ table[process_handle].kind = "process"
         /\ thread_handle # None => /\ thread_handle \in DOMAIN table
                                    /\ table[thread_handle].pid = pid
                                    /\ table[thread_handle].kind = "thread"
         /\ \A c \in Tracked : /\ c # pid
                               /\ children[c].process \in DOMAIN table
                               /\ table[children[c].process].pid = c
                               /\ table[children[c].process].kind = "process"
                               /\ children[c].thread \in DOMAIN table
                               /\ table[children[c].thread].pid = c
                               /\ table[children[c].thread].kind = "thread"
         /\ \A q \in DOMAIN foreign : /\ foreign[q].handle \in DOMAIN table
                                      /\ table[foreign[q].handle].pid = q
                                      /\ table[foreign[q].handle].kind = "process"
                                      /\ foreign[q].handle # process_handle
                                      /\ \A c \in Tracked : foreign[q].handle # children[c].process
<1>1. TargetTrue /\ ChildrenTrue /\ ForeignTrue
  BY DEF IInv, OwnersTrue
<1>2. /\ process_handle # None => Is(process_handle, Process(pid, Rights))
      /\ thread_handle # None => Is(thread_handle, Thread(pid))
  BY <1>1 DEF TargetTrue
<1>3. \A c \in Tracked : /\ c # pid
                         /\ Is(children[c].process, Process(c, Rights))
                         /\ Is(children[c].thread, Thread(c))
  BY <1>1 DEF ChildrenTrue, Tracked
<1>4. \A q \in DOMAIN foreign : /\ Is(foreign[q].handle, Process(q, Grants[foreign[q].access]))
                                /\ foreign[q].handle # process_handle
                                /\ \A c \in Tracked : foreign[q].handle # children[c].process
  BY <1>1 DEF ForeignTrue
<1>5. \A q, rights : Process(q, rights).pid = q /\ Process(q, rights).kind = "process"
  BY DEF Process
<1>6. \A q : Thread(q).pid = q /\ Thread(q).kind = "thread"
  BY DEF Thread
<1>7. /\ process_handle # None => /\ process_handle \in DOMAIN table
                                  /\ table[process_handle].pid = pid
                                  /\ table[process_handle].kind = "process"
      /\ thread_handle # None => /\ thread_handle \in DOMAIN table
                                 /\ table[thread_handle].pid = pid
                                 /\ table[thread_handle].kind = "thread"
  BY <1>2, <1>5, <1>6 DEF Is
<1>8. ASSUME NEW c \in Tracked
      PROVE  /\ c # pid
             /\ children[c].process \in DOMAIN table
             /\ table[children[c].process].pid = c
             /\ table[children[c].process].kind = "process"
             /\ children[c].thread \in DOMAIN table
             /\ table[children[c].thread].pid = c
             /\ table[children[c].thread].kind = "thread"
  BY <1>3, <1>5, <1>6 DEF Is
<1>9. ASSUME NEW q \in DOMAIN foreign
      PROVE  /\ foreign[q].handle \in DOMAIN table
             /\ table[foreign[q].handle].pid = q
             /\ table[foreign[q].handle].kind = "process"
  BY <1>4, <1>5 DEF Is
<1> QED BY <1>4, <1>7, <1>8, <1>9

LEMMA DetachKeeps ==
  ASSUME Tidy, IInv, NEW p \in Pids, Detach(p)
  PROVE  IInv'
<1> DEFINE H == Released(p) \cup EventHandles(p)
<1>1. TypeOK /\ TargetTrue /\ ChildrenTrue /\ ForeignTrue /\ BreakpointsReached
      /\ \A h \in DOMAIN table : Owned(h)
  BY DEF IInv, OwnersTrue
<1>2. /\ p \in debugged /\ debugged' = debugged \ {p} /\ Tracked' = Tracked \ {p}
      /\ DOMAIN foreign' = {}
      /\ foreign' \in [DOMAIN foreign' -> [handle : Handles, access : AnyMask]]
      /\ p = pid => process_handle' = None /\ thread_handle' = None
      /\ p # pid => process_handle' = process_handle /\ thread_handle' = thread_handle
      /\ UNCHANGED <<pid, children, breakpoints, bp_counter, orphaned, debug_children>>
  BY DEF Detach, Tracked, records, Empty
<1>3. /\ DOMAIN table' = DOMAIN table \ H /\ DOMAIN table' \subseteq Handles
      /\ table' \in [DOMAIN table' -> Object]
      /\ \A h \in DOMAIN table \ H : table'[h] = table[h]
  BY <1>1 DEF Detach, Drop, Restrict, TypeOK
<1>4. H = {foreign[q].handle : q \in DOMAIN foreign}
            \cup (IF p = pid THEN {process_handle, thread_handle} ELSE {})
            \cup (IF p \in Tracked THEN {children[p].process, children[p].thread} ELSE {})
  BY EventHandlesOf DEF Released
<1>5. \A i \in DOMAIN breakpoints : breakpoints[i].handle \notin H
  BY DEF Detach, MayClose
<1> HIDE DEF H
<1>6. TypeOK'
  BY <1>1, <1>2, <1>3 DEF Detach, TypeOK
<1>7. TargetTrue'
  <2>1. CASE p = pid
    BY <1>2, <2>1 DEF TargetTrue
  <2>2. CASE p # pid
    <3>1. p \in Tracked
      BY <1>1, <1>2, <2>2 DEF ChildrenTrue, Tracked
    <3>2. ASSUME process_handle # None PROVE process_handle \notin H
      BY <1>4, <2>2, <3>1, <3>2, HandleFacts
    <3>3. ASSUME thread_handle # None PROVE thread_handle \notin H
      BY <1>4, <2>2, <3>1, <3>3, HandleFacts
    <3> QED BY <1>1, <1>2, <1>3, <2>2, <3>2, <3>3 DEF TargetTrue, Is, Process, Thread, Rights
  <2> QED BY <2>1, <2>2
<1>8. ChildrenTrue'
  <2>1. ASSUME NEW c \in Tracked'
        PROVE  Is(children[c].process, Process(c, Rights))' /\ Is(children[c].thread, Thread(c))'
    <3>1. /\ c \in Tracked /\ c # p /\ c # pid
          /\ Is(children[c].process, Process(c, Rights)) /\ Is(children[c].thread, Thread(c))
      BY <1>1, <1>2 DEF ChildrenTrue, Tracked
    <3>2. ASSUME NEW h \in {children[c].process, children[c].thread}, h \in H PROVE FALSE
      <4>1. table[h].pid = c /\ h \in DOMAIN table
        BY <3>1, <3>2, HandleFacts
      <4>2. h \in {foreign[q].handle : q \in DOMAIN foreign}
        <5>1. CASE p = pid /\ h \in {process_handle, thread_handle}
          <6>1. h # None
            BY <1>1, <4>1, NoneAssumption DEF TypeOK
          <6> QED BY <3>1, <4>1, <5>1, <6>1, HandleFacts
        <5>2. CASE p \in Tracked /\ h \in {children[p].process, children[p].thread}
          BY <3>1, <4>1, <5>2, HandleFacts
        <5> QED BY <1>4, <3>2, <5>1, <5>2
      <4>3. PICK q \in DOMAIN foreign : h = foreign[q].handle
        BY <4>2
      <4>4. table[h].kind = "process" /\ h # children[c].process
        BY <3>1, <4>3, HandleFacts
      <4> QED BY <3>1, <3>2, <4>4, HandleFacts
    <3> QED BY <1>2, <1>3, <3>1, <3>2 DEF Is, Process, Thread, Rights
  <2> QED BY <1>1, <1>2, <2>1 DEF ChildrenTrue, Is, Process, Thread, Rights
<1>9. ForeignTrue'
  BY <1>2 DEF ForeignTrue
<1>10. ASSUME NEW h \in DOMAIN table' PROVE Owned(h)'
  <2>1. h \in DOMAIN table /\ h \notin H /\ Owned(h)
    BY <1>1, <1>3, <1>10
  <2>2. ~ \E q \in DOMAIN foreign : foreign[q].handle = h
    BY <1>4, <2>1
  <2>3. CASE h \in {process_handle, thread_handle}
    BY <1>2, <1>4, <2>1, <2>3 DEF Owned
  <2>4. CASE \E c \in Tracked : h \in {children[c].process, children[c].thread}
    <3>1. PICK c \in Tracked : h \in {children[c].process, children[c].thread}
      BY <2>4
    <3>2. c # p
      BY <1>4, <2>1, <3>1
    <3> QED BY <1>2, <3>1, <3>2 DEF Owned
  <2>5. CASE table[h].kind = "file"
    BY <1>3, <2>1, <2>5 DEF Owned
  <2> QED BY <2>1, <2>2, <2>3, <2>4, <2>5 DEF Owned
<1>11. BreakpointsReached'
  BY <1>1, <1>2, <1>3, <1>5 DEF BreakpointsReached, Refers
<1> QED BY <1>6, <1>7, <1>8, <1>9, <1>10, <1>11 DEF IInv, OwnersTrue

(* The handle opened for process p before, if there is one.                *)
Before(p) == IF p \in DOMAIN foreign THEN {foreign[p].handle} ELSE {}

(* Without it the target and the children keep their handles, and so do    *)
(* the other processes opened by pid.                                      *)
LEMMA OthersKeepTheirs ==
  ASSUME IInv, NEW p \in Pids
  PROVE  /\ process_handle # None => process_handle \in DOMAIN table \ Before(p)
         /\ thread_handle # None => thread_handle \in DOMAIN table \ Before(p)
         /\ \A c \in Tracked : /\ children[c].process \in DOMAIN table \ Before(p)
                               /\ children[c].thread \in DOMAIN table \ Before(p)
         /\ \A q \in DOMAIN foreign \ {p} : foreign[q].handle \in DOMAIN table \ Before(p)
BY HandleFacts DEF Before

LEMMA ForeignClosed ==
  ASSUME IInv, NEW p \in Pids,
         table' = Drop(table, Before(p)), foreign' = Drop(foreign, {p}), MayClose(Before(p)), Tidy,
         UNCHANGED <<alive, debugged, follows, announced, debug_children, pid, process_handle,
                     thread_handle, children, records>>
  PROVE  IInv'
<1>1. TypeOK /\ TargetTrue /\ ChildrenTrue /\ ForeignTrue /\ BreakpointsReached
      /\ \A h \in DOMAIN table : Owned(h)
  BY DEF IInv, OwnersTrue
<1>2. /\ DOMAIN table' = DOMAIN table \ Before(p) /\ DOMAIN table' \subseteq Handles
      /\ table' \in [DOMAIN table' -> Object]
      /\ \A h \in DOMAIN table' : table'[h] = table[h]
  BY <1>1 DEF Drop, Restrict, TypeOK
<1>3. /\ DOMAIN foreign' = DOMAIN foreign \ {p}
      /\ foreign' \in [DOMAIN foreign' -> [handle : Handles, access : AnyMask]]
      /\ \A q \in DOMAIN foreign' : foreign'[q] = foreign[q]
  BY <1>1 DEF Drop, Restrict, TypeOK
<1>4. Tracked' = Tracked /\ UNCHANGED <<breakpoints, bp_counter, orphaned>>
  BY DEF Tracked, records
<1>5. /\ process_handle # None => process_handle \in DOMAIN table \ Before(p)
      /\ thread_handle # None => thread_handle \in DOMAIN table \ Before(p)
      /\ \A c \in Tracked : /\ children[c].process \in DOMAIN table \ Before(p)
                            /\ children[c].thread \in DOMAIN table \ Before(p)
      /\ \A q \in DOMAIN foreign \ {p} : foreign[q].handle \in DOMAIN table \ Before(p)
  BY OthersKeepTheirs
<1>6. TypeOK'
  BY <1>1, <1>2, <1>3, <1>4 DEF TypeOK
<1>7. TargetTrue'
  BY <1>1, <1>2, <1>5 DEF TargetTrue, Is, Process, Thread, Rights
<1>8. ChildrenTrue'
  BY <1>1, <1>2, <1>4, <1>5 DEF ChildrenTrue, Is, Process, Thread, Rights
<1>9. ForeignTrue'
  <2>1. ASSUME NEW q \in DOMAIN foreign'
        PROVE  /\ Is(foreign[q].handle, Process(q, Grants[foreign[q].access]))'
               /\ foreign'[q].handle # process_handle
               /\ \A c \in Tracked : foreign'[q].handle # children[c].process
    <3>1. q \in DOMAIN foreign \ {p} /\ foreign'[q] = foreign[q]
      BY <1>3, <2>1
    <3>2. /\ foreign[q].handle \in DOMAIN table /\ foreign[q].handle # process_handle
          /\ table[foreign[q].handle] = Process(q, Grants[foreign[q].access])
          /\ \A c \in Tracked : foreign[q].handle # children[c].process
      BY <1>1, <3>1 DEF ForeignTrue, Is
    <3>3. /\ foreign[q].handle \in DOMAIN table'
          /\ table'[foreign[q].handle] = table[foreign[q].handle]
      BY <1>2, <1>5, <3>1
    <3> QED BY <3>1, <3>2, <3>3 DEF Is, Process
  <2> QED BY <1>4, <2>1 DEF ForeignTrue
<1>10. ASSUME NEW g \in DOMAIN table' PROVE Owned(g)'
  <2>1. g \in DOMAIN table /\ g \notin Before(p) /\ Owned(g) /\ table'[g] = table[g]
    BY <1>1, <1>2, <1>10
  <2>2. ASSUME NEW q \in DOMAIN foreign, foreign[q].handle = g
        PROVE  q \in DOMAIN foreign' /\ foreign'[q].handle = g
    BY <1>3, <2>1, <2>2 DEF Before
  <2> QED BY <1>4, <2>1, <2>2 DEF Owned
<1>11. BreakpointsReached'
  BY <1>1, <1>2, <1>4 DEF BreakpointsReached, Refers, MayClose
<1> QED BY <1>6, <1>7, <1>8, <1>9, <1>10, <1>11 DEF IInv, OwnersTrue

LEMMA CloseProcessKeeps ==
  ASSUME Tidy, IInv, NEW p \in Pids, CloseProcess(p)
  PROVE  IInv'
BY ForeignClosed DEF CloseProcess, Uncached, Before

LEMMA ForeignReopened ==
  ASSUME Tidy, IInv, NEW p \in Pids, NEW mask \in AnyMask,
         NEW h \in Handles \ DOMAIN Drop(table, Before(p)),
         table' = Put(Drop(table, Before(p)), h, Process(p, Grants[mask])),
         foreign' = Put(foreign, p, [handle |-> h, access |-> mask]), MayClose(Before(p)),
         UNCHANGED <<alive, debugged, follows, announced, debug_children, pid, process_handle,
                     thread_handle, children, records>>
  PROVE  IInv'
<1>1. TypeOK /\ TargetTrue /\ ChildrenTrue /\ ForeignTrue /\ BreakpointsReached
      /\ \A g \in DOMAIN table : Owned(g)
  BY DEF IInv, OwnersTrue
<1>2. /\ DOMAIN table' = (DOMAIN table \ Before(p)) \cup {h} /\ DOMAIN table' \subseteq Handles
      /\ h \in Handles /\ h \notin DOMAIN table \ Before(p) /\ h # None
      /\ table' \in [DOMAIN table' -> Object]
      /\ table'[h] = Process(p, Grants[mask])
      /\ \A g \in DOMAIN table \ Before(p) : table'[g] = table[g]
  <2>1. Process(p, Grants[mask]) \in Object
    BY Objects
  <2> QED BY <1>1, <2>1, NoneAssumption DEF Put, Drop, Restrict, TypeOK
<1>3. /\ DOMAIN foreign' = DOMAIN foreign \cup {p}
      /\ foreign' \in [DOMAIN foreign' -> [handle : Handles, access : AnyMask]]
      /\ foreign'[p] = [handle |-> h, access |-> mask]
      /\ \A q \in DOMAIN foreign \ {p} : foreign'[q] = foreign[q]
  BY <1>1, <1>2 DEF Put, TypeOK
<1>4. Tracked' = Tracked /\ UNCHANGED <<breakpoints, bp_counter, orphaned>>
  BY DEF Tracked, records
<1>5. /\ process_handle # None => process_handle \in DOMAIN table \ Before(p)
      /\ thread_handle # None => thread_handle \in DOMAIN table \ Before(p)
      /\ \A c \in Tracked : /\ children[c].process \in DOMAIN table \ Before(p)
                            /\ children[c].thread \in DOMAIN table \ Before(p)
      /\ \A q \in DOMAIN foreign \ {p} : foreign[q].handle \in DOMAIN table \ Before(p)
  BY OthersKeepTheirs
<1>6. TypeOK'
  BY <1>1, <1>2, <1>3, <1>4 DEF TypeOK
<1>7. TargetTrue'
  BY <1>1, <1>2, <1>5 DEF TargetTrue, Is, Process, Thread, Rights
<1>8. ChildrenTrue'
  BY <1>1, <1>2, <1>4, <1>5 DEF ChildrenTrue, Is, Process, Thread, Rights
<1>9. ForeignTrue'
  <2>1. ASSUME NEW q \in DOMAIN foreign'
        PROVE  /\ Is(foreign[q].handle, Process(q, Grants[foreign[q].access]))'
               /\ foreign'[q].handle # process_handle
               /\ \A c \in Tracked : foreign'[q].handle # children[c].process
    <3>1. CASE q = p
      <4>1. foreign'[q].handle = h /\ foreign'[q].access = mask
        BY <1>3, <3>1
      <4>2. Is(foreign[q].handle, Process(q, Grants[foreign[q].access]))'
        BY <1>2, <3>1, <4>1 DEF Is, Process, Grants, Rights
      <4> QED BY <1>2, <1>5, <4>1, <4>2, NoneAssumption
    <3>2. CASE q # p
      <4>1. q \in DOMAIN foreign \ {p} /\ foreign'[q] = foreign[q]
        BY <1>3, <2>1, <3>2
      <4> QED BY <1>1, <1>2, <1>5, <4>1 DEF ForeignTrue, Is, Process, Grants, Rights
    <3> QED BY <3>1, <3>2
  <2> QED BY <1>4, <2>1 DEF ForeignTrue
<1>10. ASSUME NEW g \in DOMAIN table' PROVE Owned(g)'
  <2>1. CASE g = h
    BY <1>3, <2>1 DEF Owned
  <2>2. CASE g # h
    <3>1. /\ g \in DOMAIN table /\ g \notin Before(p) /\ Owned(g)
          /\ table'[g] = table[g]
      BY <1>1, <1>2, <1>10, <2>2
    <3> QED BY <1>3, <1>4, <3>1 DEF Owned, Before
  <2> QED BY <2>1, <2>2
<1>11. BreakpointsReached'
  BY <1>1, <1>2, <1>4 DEF BreakpointsReached, Refers, MayClose
<1> QED BY <1>6, <1>7, <1>8, <1>9, <1>10, <1>11 DEF IInv, OwnersTrue

LEMMA OpenProcessKeeps ==
  ASSUME Tidy, IInv, NEW p \in Pids, NEW asked \in Masks \cup {None}, OpenProcess(p, asked)
  PROVE  IInv'
<1>1. ToReopen(p) = Before(p) /\ MayClose(Before(p))
  BY DEF OpenProcess, ToReopen, Before
<1>2. Tried(asked) \subseteq AnyMask
  BY DEF Tried, AnyMask
<1>3. UNCHANGED <<alive, debugged, follows, announced, debug_children, pid, process_handle,
                  thread_handle, children, records>>
  BY DEF OpenProcess
<1>4. CASE /\ table' = Drop(table, Before(p)) /\ foreign' = Uncached(p)
  BY <1>1, <1>3, <1>4, ForeignClosed DEF Uncached
<1>5. CASE \E h \in Handles \ DOMAIN Drop(table, Before(p)), mask \in Tried(asked) :
             /\ table' = Put(Drop(table, Before(p)), h, Process(p, Grants[mask]))
             /\ foreign' = Put(foreign, p, [handle |-> h, access |-> mask])
  BY <1>1, <1>2, <1>3, <1>5, ForeignReopened
<1> QED BY <1>1, <1>4, <1>5 DEF OpenProcess, AsOpened

-----------------------------------------------------------------------------
(* The theorems.                                                           *)

LEMMA InitHolds == Init => IInv
<1> SUFFICES ASSUME Init PROVE IInv
  OBVIOUS
<1>1. TypeOK
  <2>1. /\ DOMAIN table = {} /\ DOMAIN children = {} /\ DOMAIN foreign = {}
        /\ DOMAIN breakpoints = {} /\ bp_counter \in 0..MaxBps
    BY BoundAssumption DEF Init, Empty
  <2>2. /\ table \in [DOMAIN table -> Object]
        /\ children \in [DOMAIN children -> [process : Handles, thread : Handles]]
        /\ foreign \in [DOMAIN foreign -> [handle : Handles, access : AnyMask]]
        /\ breakpoints \in [DOMAIN breakpoints -> [handle : Handles, pid : Pids]]
    BY DEF Init, Empty
  <2> QED BY <2>1, <2>2 DEF Init, TypeOK
<1>2. OwnersTrue
  BY DEF Init, OwnersTrue, TargetTrue, ChildrenTrue, ForeignTrue, Tracked, Empty
<1>3. BreakpointsReached
  BY DEF Init, BreakpointsReached, Empty
<1> QED BY <1>1, <1>2, <1>3 DEF IInv

LEMMA StepKeeps ==
  ASSUME Tidy
  PROVE  IInv /\ [Next]_vars => IInv'
<1> SUFFICES ASSUME IInv, [Next]_vars PROVE IInv'
  OBVIOUS
<1>1. CASE UNCHANGED vars
  <2>1. OwnersTrue'
    BY <1>1, SameHandles DEF vars, windows, IInv
  <2> QED BY <1>1, <2>1 DEF vars, windows, session, records, IInv, TypeOK, BreakpointsReached,
     Refers
<1>2. ASSUME NEW p \in Pids,
             \/ Starts(p) \/ Exits(p)
             \/ CreateProcess(p) \/ Attach(p) \/ Detach(p) \/ ChildAnnounced(p)
             \/ CloseProcess(p) \/ OpenForReading(p)
             \/ SetBreakpoint(p) \/ Terminate(p)
             \/ \E asked \in Masks \cup {None} : OpenProcess(p, asked)
      PROVE  IInv'
  BY <1>2, StartsKeeps, ExitsKeeps, CreateProcessKeeps, AttachKeeps, DetachKeeps,
     ChildAnnouncedKeeps, CloseProcessKeeps, SetBreakpointKeeps, TerminateKeeps,
     OpenProcessKeeps DEF OpenForReading
<1>3. CASE \E enabled \in BOOLEAN : SetDebugChildren(enabled)
  BY <1>3, SetDebugChildrenKeeps
<1>4. CASE TargetAnnounced
  BY <1>4, TargetAnnouncedKeeps
<1>5. CASE \E id \in Ids : RemoveBreakpoint(id)
  BY <1>5, RemoveBreakpointKeeps
<1> QED BY <1>1, <1>2, <1>3, <1>4, <1>5 DEF Next

LEMMA HandlesAccounts ==
  ASSUME Tidy
  PROVE  Spec => []IInv
BY InitHolds, StepKeeps, PTL DEF Spec

(* The handle the debugger uses for a process is open, is a handle of that *)
(* process and has the rights it is used for.                              *)
THEOREM HandlesAreTrue ==
  ASSUME Tidy
  PROVE  Spec => []HandlesTrue
<1>1. IInv => HandlesTrue
  BY HandedOut DEF IInv, OwnersTrue, HandlesTrue
<1> QED BY <1>1, HandlesAccounts, PTL

(* The handle a breakpoint was set through refers to its process for as    *)
(* long as the record is kept, except when a debug child exits.            *)
THEOREM BreakpointsStayReached ==
  ASSUME Tidy
  PROVE  Spec => []BreakpointsReached
<1>1. IInv => BreakpointsReached
  BY DEF IInv
<1> QED BY <1>1, HandlesAccounts, PTL

(* Every open handle of a process or a thread is one that the session, or  *)
(* Windows with the child, closes: what leaks is image files alone.        *)
THEOREM OnlyImageHandlesAreLost ==
  ASSUME Tidy
  PROVE  Spec => []OnlyImagesLeak
<1>1. IInv => OnlyImagesLeak
  BY DEF IInv, OwnersTrue, Owned, Tracked, OnlyImagesLeak
<1> QED BY <1>1, HandlesAccounts, PTL

=============================================================================
