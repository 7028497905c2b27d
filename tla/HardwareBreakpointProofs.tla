---------------------- MODULE HardwareBreakpointProofs ----------------------
(***************************************************************************)
(* That no two records share a debug register, that every armed register   *)
(* belongs to a record and that a process-wide breakpoint is armed on      *)
(* every thread, for any threads, slots and addresses and whatever the     *)
(* target does during a call.  The last two need a client that handles no  *)
(* event while a call is under way, and a rollback that does not fail.     *)
(***************************************************************************)
EXTENDS HardwareBreakpoint, TLAPS

(* The call under way and the records.                                     *)
CallTrue ==
  /\ op \in {"arm", "rollback"} =>
        /\ id = 0 /\ bp_counter < MaxBps
        /\ \A i \in DOMAIN breakpoints : breakpoints[i].slot # bp.slot
        /\ bp.scope # All => todo \cup armed \subseteq {bp.scope}
  /\ op = "disarm" => id = 0 \/ (id \in DOMAIN breakpoints /\ bp = breakpoints[id])

RecordsInv ==
  /\ TypeOK /\ CallTrue /\ SlotsUnique
  /\ cleared \cup botched \subseteq 1..bp_counter

(* Who answers for register s of thread t.                                 *)
Recorded(t, s) ==
  \E i \in DOMAIN breakpoints : /\ breakpoints[i].slot = s
                                /\ breakpoints[i].addr = dr[t][s]
                                /\ breakpoints[i].scope \in {All, t}
InCall(t, s) ==
  /\ s = bp.slot
  /\ \/ op = "arm" /\ t \in armed /\ dr[t][s] = bp.addr
     \/ op = "rollback" /\ t \in todo
Covered(t, s) == dr[t][s] # NoAddr => Recorded(t, s) \/ InCall(t, s)

(* What remove() has disarmed stays so until the record is gone.           *)
DisarmTrue ==
  op = "disarm" /\ id # 0 => \A t \in Live \ todo : dr[t][bp.slot] = NoAddr

CoverInv == DisarmTrue /\ \A t \in Live, s \in Slots : Covered(t, s)

(* A process-wide breakpoint, while a call is under way.                   *)
InHand == IF op = "disarm" THEN Concerned ELSE {}
Spread(i) ==
  breakpoints[i].scope = All =>
     \A t \in Live \ posted : dr[t][breakpoints[i].slot] = breakpoints[i].addr
Spreading ==
  op = "arm" /\ bp.scope = All =>
     \A t \in Live \ posted : t \in todo \/ dr[t][bp.slot] = bp.addr
SpreadInv ==
  ~raised => /\ Spreading
             /\ \A i \in DOMAIN breakpoints \ (cleared \cup botched \cup InHand) : Spread(i)

-----------------------------------------------------------------------------
(* What a new thread is given.                                             *)

LEMMA ReplicatedGives ==
  ASSUME RecordsInv, NEW t \in Threads, NEW ids \in SUBSET DOMAIN breakpoints
  PROVE  /\ Replicated(t, ids) \in [Slots -> Addrs \cup {NoAddr}]
         /\ \A s \in Slots :
              \/ Replicated(t, ids)[s] = dr[t][s]
              \/ \E i \in ids : /\ breakpoints[i].scope = All /\ breakpoints[i].slot = s
                               /\ breakpoints[i].addr = Replicated(t, ids)[s]
         /\ \A i \in ids : breakpoints[i].scope = All =>
              Replicated(t, ids)[breakpoints[i].slot] = breakpoints[i].addr
<1> DEFINE here(s) == {i \in ids : breakpoints[i].scope = All /\ breakpoints[i].slot = s}
<1>1. /\ dr[t] \in [Slots -> Addrs \cup {NoAddr}]
      /\ \A i \in ids : breakpoints[i] \in Record
  BY DEF RecordsInv, TypeOK
<1>2. \A s \in Slots : Replicated(t, ids)[s] =
        IF here(s) = {} THEN dr[t][s] ELSE breakpoints[CHOOSE i \in here(s) : TRUE].addr
  BY DEF Replicated
<1>3. \A s \in Slots : here(s) # {} => (CHOOSE i \in here(s) : TRUE) \in here(s)
  OBVIOUS
<1>4. \A s \in Slots : Replicated(t, ids)[s] \in Addrs \cup {NoAddr}
  BY <1>1, <1>2, <1>3 DEF Record
<1>5. Replicated(t, ids) \in [Slots -> Addrs \cup {NoAddr}]
  BY <1>4 DEF Replicated
<1>6. ASSUME NEW i \in ids, breakpoints[i].scope = All
      PROVE  Replicated(t, ids)[breakpoints[i].slot] = breakpoints[i].addr
  <2> DEFINE s == breakpoints[i].slot
  <2>1. s \in Slots /\ i \in here(s)
    BY <1>1, <1>6 DEF Record
  <2>2. \A j \in here(s) : j = i
    BY DEF RecordsInv, SlotsUnique
  <2>3. (CHOOSE j \in here(s) : TRUE) = i
    BY <1>3, <2>1, <2>2
  <2> QED BY <1>2, <2>1, <2>3
<1> HIDE DEF here
<1>7. ASSUME NEW s \in Slots, here(s) # {}
      PROVE  \E i \in ids : /\ breakpoints[i].scope = All /\ breakpoints[i].slot = s
                            /\ breakpoints[i].addr = Replicated(t, ids)[s]
  <2>1. PICK i \in here(s) : TRUE
    BY <1>7
  <2> QED BY <1>6, <2>1 DEF here
<1> QED BY <1>2, <1>5, <1>6, <1>7

-----------------------------------------------------------------------------
(* The records and the call under way.                                     *)

LEMMA RecordsInit == Init => RecordsInv
<1> SUFFICES ASSUME Init PROVE RecordsInv
  OBVIOUS
<1>1. TypeOK
  <2>1. life \in [Threads -> {"unborn", "live", "dead"}]
    BY DEF Init
  <2>2. dr \in [Threads -> [Slots -> Addrs \cup {NoAddr}]]
    BY DEF Init, Clean
  <2>3. DOMAIN breakpoints = {} /\ breakpoints \in [DOMAIN breakpoints -> Record]
    BY DEF Init, Empty
  <2>4. bp_counter \in 0..MaxBps /\ id \in 0..MaxBps
    BY BoundAssumption DEF Init
  <2> QED BY <2>1, <2>2, <2>3, <2>4 DEF Init, TypeOK
<1>2. CallTrue /\ SlotsUnique /\ cleared \cup botched \subseteq 1..bp_counter
  BY DEF Init, CallTrue, SlotsUnique, Empty
<1> QED BY <1>1, <1>2 DEF RecordsInv

LEMMA CreateThreadKeepsRecords ==
  ASSUME RecordsInv, NEW t \in Threads, CreateThread(t)
  PROVE  RecordsInv'
<1>1. TypeOK /\ CallTrue /\ SlotsUnique /\ cleared \cup botched \subseteq 1..bp_counter
  BY DEF RecordsInv
<1>2. TypeOK'
  BY <1>1, ThreadAssumption, BoundAssumption DEF CreateThread, manager, caller, history,
     Clean, TypeOK, CallTrue, Record, Ids
<1>3. CallTrue'
  BY <1>1, ThreadAssumption, BoundAssumption DEF CreateThread, manager, caller, history,
     Clean, TypeOK, CallTrue, SlotsUnique, Record
<1>4. SlotsUnique'
  BY <1>1 DEF CreateThread, manager, caller, history, Clean, TypeOK, CallTrue, SlotsUnique
<1>5. (cleared \cup botched \subseteq 1..bp_counter)'
  BY <1>1, ThreadAssumption, BoundAssumption DEF CreateThread, manager, caller, history,
     Clean, TypeOK, CallTrue
<1> QED BY <1>2, <1>3, <1>4, <1>5 DEF RecordsInv

LEMMA EndThreadKeepsRecords ==
  ASSUME RecordsInv, NEW t \in Threads, EndThread(t)
  PROVE  RecordsInv'
<1>1. TypeOK /\ CallTrue /\ SlotsUnique /\ cleared \cup botched \subseteq 1..bp_counter
  BY DEF RecordsInv
<1>2. TypeOK'
  BY <1>1, ThreadAssumption, BoundAssumption DEF EndThread, manager, caller, history, Clean,
     TypeOK, CallTrue, Record, Ids
<1>3. CallTrue'
  BY <1>1, ThreadAssumption, BoundAssumption DEF EndThread, manager, caller, history, Clean,
     TypeOK, CallTrue, SlotsUnique, Record
<1>4. SlotsUnique'
  BY <1>1 DEF EndThread, manager, caller, history, Clean, TypeOK, CallTrue, SlotsUnique
<1>5. (cleared \cup botched \subseteq 1..bp_counter)'
  BY <1>1, ThreadAssumption, BoundAssumption DEF EndThread, manager, caller, history, Clean,
     TypeOK, CallTrue
<1> QED BY <1>2, <1>3, <1>4, <1>5 DEF RecordsInv

LEMMA ThreadCreatedKeepsRecords ==
  ASSUME RecordsInv, NEW t \in Threads, ThreadCreated(t)
  PROVE  RecordsInv'
<1>1. TypeOK /\ CallTrue /\ SlotsUnique /\ cleared \cup botched \subseteq 1..bp_counter
  BY DEF RecordsInv
<1>a. Replicated(t, DOMAIN breakpoints) \in [Slots -> Addrs \cup {NoAddr}]
  BY ReplicatedGives
<1>2. TypeOK'
  BY <1>1, <1>a, ThreadAssumption, BoundAssumption DEF ThreadCreated, manager, caller,
     history, Clean, TypeOK, CallTrue, Record, Ids
<1>3. CallTrue'
  BY <1>1, ThreadAssumption, BoundAssumption DEF ThreadCreated, manager, caller, history,
     Clean, TypeOK, CallTrue, SlotsUnique, Record
<1>4. SlotsUnique'
  BY <1>1 DEF ThreadCreated, manager, caller, history, Clean, TypeOK, CallTrue, SlotsUnique
<1>5. (cleared \cup botched \subseteq 1..bp_counter)'
  BY <1>1, ThreadAssumption, BoundAssumption DEF ThreadCreated, manager, caller, history,
     Clean, TypeOK, CallTrue
<1> QED BY <1>2, <1>3, <1>4, <1>5 DEF RecordsInv

LEMMA ReplicationFailsKeepsRecords ==
  ASSUME RecordsInv, NEW t \in Threads, NEW i \in Ids, ReplicationFails(t, i)
  PROVE  RecordsInv'
<1>1. TypeOK /\ CallTrue /\ SlotsUnique /\ cleared \cup botched \subseteq 1..bp_counter
  BY DEF RecordsInv
<1>a. Replicated(t, {j \in DOMAIN breakpoints : j < i}) \in [Slots -> Addrs \cup {NoAddr}]
  BY ReplicatedGives
<1>2. TypeOK'
  BY <1>1, <1>a, ThreadAssumption, BoundAssumption DEF ReplicationFails, manager, caller,
     history, Clean, TypeOK, CallTrue, Record, Ids
<1>3. CallTrue'
  BY <1>1, ThreadAssumption, BoundAssumption DEF ReplicationFails, manager, caller, history,
     Clean, TypeOK, CallTrue, SlotsUnique, Record
<1>4. SlotsUnique'
  BY <1>1 DEF ReplicationFails, manager, caller, history, Clean, TypeOK, CallTrue, SlotsUnique
<1>5. (cleared \cup botched \subseteq 1..bp_counter)'
  BY <1>1, ThreadAssumption, BoundAssumption DEF ReplicationFails, manager, caller, history,
     Clean, TypeOK, CallTrue
<1> QED BY <1>2, <1>3, <1>4, <1>5 DEF RecordsInv

LEMMA OtherEventKeepsRecords ==
  ASSUME RecordsInv, OtherEvent
  PROVE  RecordsInv'
<1>1. TypeOK /\ CallTrue /\ SlotsUnique /\ cleared \cup botched \subseteq 1..bp_counter
  BY DEF RecordsInv
<1>2. TypeOK'
  BY <1>1, ThreadAssumption, BoundAssumption DEF OtherEvent, manager, caller, history,
     Clean, TypeOK, CallTrue, Record, Ids
<1>3. CallTrue'
  BY <1>1, ThreadAssumption, BoundAssumption DEF OtherEvent, manager, caller, history,
     Clean, TypeOK, CallTrue, SlotsUnique, Record
<1>4. SlotsUnique'
  BY <1>1 DEF OtherEvent, manager, caller, history, Clean, TypeOK, CallTrue, SlotsUnique
<1>5. (cleared \cup botched \subseteq 1..bp_counter)'
  BY <1>1, ThreadAssumption, BoundAssumption DEF OtherEvent, manager, caller, history,
     Clean, TypeOK, CallTrue
<1> QED BY <1>2, <1>3, <1>4, <1>5 DEF RecordsInv

LEMMA ContinueKeepsRecords ==
  ASSUME RecordsInv, Continue
  PROVE  RecordsInv'
<1>1. TypeOK /\ CallTrue /\ SlotsUnique /\ cleared \cup botched \subseteq 1..bp_counter
  BY DEF RecordsInv
<1>2. TypeOK'
  BY <1>1, ThreadAssumption, BoundAssumption DEF Continue, manager, caller, history, Clean,
     TypeOK, CallTrue, Record, Ids
<1>3. CallTrue'
  BY <1>1, ThreadAssumption, BoundAssumption DEF Continue, manager, caller, history, Clean,
     TypeOK, CallTrue, SlotsUnique, Record
<1>4. SlotsUnique'
  BY <1>1 DEF Continue, manager, caller, history, Clean, TypeOK, CallTrue, SlotsUnique
<1>5. (cleared \cup botched \subseteq 1..bp_counter)'
  BY <1>1, ThreadAssumption, BoundAssumption DEF Continue, manager, caller, history, Clean,
     TypeOK, CallTrue
<1> QED BY <1>2, <1>3, <1>4, <1>5 DEF RecordsInv

LEMMA SetBeginKeepsRecords ==
  ASSUME RecordsInv, NEW addr \in Addrs, NEW slot \in Slots, NEW scope \in Scopes,
         SetBegin(addr, slot, scope)
  PROVE  RecordsInv'
<1>1. TypeOK /\ CallTrue /\ SlotsUnique /\ cleared \cup botched \subseteq 1..bp_counter
  BY DEF RecordsInv
<1>a. bp' \in Record
  BY <1>1 DEF SetBegin, TypeOK, Record, Scopes
<1>b. todo' \subseteq Threads
  BY <1>1, ThreadAssumption DEF SetBegin, InScope, AllThreadIds, Live, TypeOK, Record, Scopes
<1>c. /\ id' \in 0..MaxBps /\ op' \in {"arm", "disarm"}
      /\ armed' \subseteq Threads
      /\ UNCHANGED <<life, posted, held, dr, manager, raised, failed, cleared, botched>>
  BY <1>1, BoundAssumption DEF SetBegin, history, TypeOK
<1>d. excused' \in BOOLEAN
  BY <1>1 DEF SetBegin, history, TypeOK
<1>2. TypeOK'
  BY <1>1, <1>a, <1>b, <1>c, <1>d DEF manager, TypeOK
<1>3. CallTrue'
  BY <1>1, ThreadAssumption, BoundAssumption DEF SetBegin, SlotTaken, InScope, AllThreadIds,
     Live, Scopes, manager, caller, history, Clean, TypeOK, CallTrue, SlotsUnique, Record
<1>4. SlotsUnique'
  BY <1>1 DEF SetBegin, SlotTaken, InScope, AllThreadIds, Live, Scopes, manager, caller,
     history, Clean, TypeOK, CallTrue, SlotsUnique
<1>5. (cleared \cup botched \subseteq 1..bp_counter)'
  BY <1>1, ThreadAssumption, BoundAssumption DEF SetBegin, SlotTaken, InScope, AllThreadIds,
     Live, Scopes, manager, caller, history, Clean, TypeOK, CallTrue
<1> QED BY <1>2, <1>3, <1>4, <1>5 DEF RecordsInv

LEMMA ArmOneKeepsRecords ==
  ASSUME RecordsInv, NEW t \in Threads, ArmOne(t)
  PROVE  RecordsInv'
<1>1. TypeOK /\ CallTrue /\ SlotsUnique /\ cleared \cup botched \subseteq 1..bp_counter
  BY DEF RecordsInv
<1>2. TypeOK'
  BY <1>1, ThreadAssumption, BoundAssumption DEF ArmOne, manager, caller, history, Clean,
     TypeOK, CallTrue, Record, Ids
<1>3. CallTrue'
  BY <1>1, ThreadAssumption, BoundAssumption DEF ArmOne, manager, caller, history, Clean,
     TypeOK, CallTrue, SlotsUnique, Record
<1>4. SlotsUnique'
  BY <1>1 DEF ArmOne, manager, caller, history, Clean, TypeOK, CallTrue, SlotsUnique
<1>5. (cleared \cup botched \subseteq 1..bp_counter)'
  BY <1>1, ThreadAssumption, BoundAssumption DEF ArmOne, manager, caller, history, Clean,
     TypeOK, CallTrue
<1> QED BY <1>2, <1>3, <1>4, <1>5 DEF RecordsInv

LEMMA ArmFailsKeepsRecords ==
  ASSUME RecordsInv, NEW t \in Threads, ArmFails(t)
  PROVE  RecordsInv'
<1>1. TypeOK /\ CallTrue /\ SlotsUnique /\ cleared \cup botched \subseteq 1..bp_counter
  BY DEF RecordsInv
<1>2. TypeOK'
  BY <1>1, ThreadAssumption, BoundAssumption DEF ArmFails, RollbackSet, manager, caller,
     history, Clean, TypeOK, CallTrue, Record, Ids
<1>3. CallTrue'
  BY <1>1, ThreadAssumption, BoundAssumption DEF ArmFails, RollbackSet, manager, caller,
     history, Clean, TypeOK, CallTrue, SlotsUnique, Record
<1>4. SlotsUnique'
  BY <1>1 DEF ArmFails, RollbackSet, manager, caller, history, Clean, TypeOK, CallTrue,
     SlotsUnique
<1>5. (cleared \cup botched \subseteq 1..bp_counter)'
  BY <1>1, ThreadAssumption, BoundAssumption DEF ArmFails, RollbackSet, manager, caller,
     history, Clean, TypeOK, CallTrue
<1> QED BY <1>2, <1>3, <1>4, <1>5 DEF RecordsInv

LEMMA RollbackOneKeepsRecords ==
  ASSUME RecordsInv, NEW t \in Threads, RollbackOne(t)
  PROVE  RecordsInv'
<1>1. TypeOK /\ CallTrue /\ SlotsUnique /\ cleared \cup botched \subseteq 1..bp_counter
  BY DEF RecordsInv
<1>2. TypeOK'
  BY <1>1, ThreadAssumption, BoundAssumption DEF RollbackOne, manager, caller, history,
     Clean, TypeOK, CallTrue, Record, Ids
<1>3. CallTrue'
  BY <1>1, ThreadAssumption, BoundAssumption DEF RollbackOne, manager, caller, history,
     Clean, TypeOK, CallTrue, SlotsUnique, Record
<1>4. SlotsUnique'
  BY <1>1 DEF RollbackOne, manager, caller, history, Clean, TypeOK, CallTrue, SlotsUnique
<1>5. (cleared \cup botched \subseteq 1..bp_counter)'
  BY <1>1, ThreadAssumption, BoundAssumption DEF RollbackOne, manager, caller, history,
     Clean, TypeOK, CallTrue
<1> QED BY <1>2, <1>3, <1>4, <1>5 DEF RecordsInv

LEMMA RollbackDoneKeepsRecords ==
  ASSUME RecordsInv, RollbackDone
  PROVE  RecordsInv'
<1>1. TypeOK /\ CallTrue /\ SlotsUnique /\ cleared \cup botched \subseteq 1..bp_counter
  BY DEF RecordsInv
<1>2. TypeOK'
  BY <1>1, ThreadAssumption, BoundAssumption DEF RollbackDone, manager, caller, history,
     Clean, TypeOK, CallTrue, Record, Ids
<1>3. CallTrue'
  BY <1>1, ThreadAssumption, BoundAssumption DEF RollbackDone, manager, caller, history,
     Clean, TypeOK, CallTrue, SlotsUnique, Record
<1>4. SlotsUnique'
  BY <1>1 DEF RollbackDone, manager, caller, history, Clean, TypeOK, CallTrue, SlotsUnique
<1>5. (cleared \cup botched \subseteq 1..bp_counter)'
  BY <1>1, ThreadAssumption, BoundAssumption DEF RollbackDone, manager, caller, history,
     Clean, TypeOK, CallTrue
<1> QED BY <1>2, <1>3, <1>4, <1>5 DEF RecordsInv

LEMMA SetDoneKeepsRecords ==
  ASSUME RecordsInv, SetDone
  PROVE  RecordsInv'
<1>1. TypeOK /\ CallTrue /\ SlotsUnique /\ cleared \cup botched \subseteq 1..bp_counter
  BY DEF RecordsInv
<1>a. bp_counter' \in 0..MaxBps
  BY <1>1, BoundAssumption DEF SetDone, TypeOK, CallTrue
<1>b. /\ DOMAIN breakpoints' = DOMAIN breakpoints \cup {bp_counter + 1}
      /\ breakpoints' \in [DOMAIN breakpoints' -> Record]
  BY <1>1 DEF SetDone, TypeOK
<1>c. DOMAIN breakpoints' \subseteq 1..bp_counter'
  BY <1>1, <1>b, BoundAssumption DEF SetDone, TypeOK
<1>2. TypeOK'
  BY <1>1, <1>a, <1>b, <1>c DEF SetDone, manager, caller, history, Clean, TypeOK
<1>3. CallTrue'
  BY <1>1, ThreadAssumption, BoundAssumption DEF SetDone, manager, caller, history, Clean,
     TypeOK, CallTrue, SlotsUnique, Record
<1>4. SlotsUnique'
  BY <1>1 DEF SetDone, manager, caller, history, Clean, TypeOK, CallTrue, SlotsUnique
<1>5. (cleared \cup botched \subseteq 1..bp_counter)'
  BY <1>1, ThreadAssumption, BoundAssumption DEF SetDone, manager, caller, history, Clean,
     TypeOK, CallTrue
<1> QED BY <1>2, <1>3, <1>4, <1>5 DEF RecordsInv

LEMMA RemoveBeginKeepsRecords ==
  ASSUME RecordsInv, NEW i \in Ids, RemoveBegin(i)
  PROVE  RecordsInv'
<1>1. TypeOK /\ CallTrue /\ SlotsUnique /\ cleared \cup botched \subseteq 1..bp_counter
  BY DEF RecordsInv
<1>a. bp' \in Record
  BY <1>1 DEF RemoveBegin, TypeOK, Record, Scopes
<1>b. todo' \subseteq Threads
  BY <1>1, ThreadAssumption DEF RemoveBegin, InScope, AllThreadIds, Live, TypeOK, Record, Scopes
<1>c. /\ id' \in 0..MaxBps /\ op' \in {"arm", "disarm"}
      /\ armed' \subseteq Threads
      /\ UNCHANGED <<life, posted, held, dr, manager, raised, failed, cleared, botched>>
  BY <1>1, BoundAssumption DEF RemoveBegin, history, TypeOK, Ids
<1>d. excused' \in BOOLEAN
  BY <1>1 DEF RemoveBegin, history, TypeOK
<1>2. TypeOK'
  BY <1>1, <1>a, <1>b, <1>c, <1>d DEF manager, TypeOK
<1>3. CallTrue'
  BY <1>1, ThreadAssumption, BoundAssumption DEF RemoveBegin, InScope, AllThreadIds, Live,
     manager, caller, history, Clean, TypeOK, CallTrue, SlotsUnique, Record
<1>4. SlotsUnique'
  BY <1>1 DEF RemoveBegin, InScope, AllThreadIds, Live, manager, caller, history, Clean,
     TypeOK, CallTrue, SlotsUnique
<1>5. (cleared \cup botched \subseteq 1..bp_counter)'
  BY <1>1, ThreadAssumption, BoundAssumption DEF RemoveBegin, InScope, AllThreadIds, Live,
     manager, caller, history, Clean, TypeOK, CallTrue
<1> QED BY <1>2, <1>3, <1>4, <1>5 DEF RecordsInv

LEMMA ClearBeginKeepsRecords ==
  ASSUME RecordsInv, NEW slot \in Slots, ClearBegin(slot)
  PROVE  RecordsInv'
<1>1. TypeOK /\ CallTrue /\ SlotsUnique /\ cleared \cup botched \subseteq 1..bp_counter
  BY DEF RecordsInv
<1>a. bp' \in Record
  BY <1>1 DEF ClearBegin, TypeOK, Record, Scopes
<1>b. todo' \subseteq Threads
  BY <1>1, ThreadAssumption DEF ClearBegin, InScope, AllThreadIds, Live, TypeOK, Record, Scopes
<1>c. /\ id' \in 0..MaxBps /\ op' \in {"arm", "disarm"}
      /\ armed' \subseteq Threads
      /\ UNCHANGED <<life, posted, held, dr, manager, raised, failed, cleared, botched>>
  BY <1>1, BoundAssumption DEF ClearBegin, history, TypeOK
<1>d. excused' \in BOOLEAN
  BY <1>1 DEF ClearBegin, history, TypeOK
<1>2. TypeOK'
  BY <1>1, <1>a, <1>b, <1>c, <1>d DEF manager, TypeOK
<1>3. CallTrue'
  BY <1>1, ThreadAssumption, BoundAssumption DEF ClearBegin, InScope, AllThreadIds, Live,
     manager, caller, history, Clean, TypeOK, CallTrue, SlotsUnique, Record
<1>4. SlotsUnique'
  BY <1>1 DEF ClearBegin, InScope, AllThreadIds, Live, manager, caller, history, Clean,
     TypeOK, CallTrue, SlotsUnique
<1>5. (cleared \cup botched \subseteq 1..bp_counter)'
  BY <1>1, ThreadAssumption, BoundAssumption DEF ClearBegin, InScope, AllThreadIds, Live,
     manager, caller, history, Clean, TypeOK, CallTrue
<1> QED BY <1>2, <1>3, <1>4, <1>5 DEF RecordsInv

LEMMA DisarmOneKeepsRecords ==
  ASSUME RecordsInv, NEW t \in Threads, DisarmOne(t)
  PROVE  RecordsInv'
<1>1. TypeOK /\ CallTrue /\ SlotsUnique /\ cleared \cup botched \subseteq 1..bp_counter
  BY DEF RecordsInv
<1>2. TypeOK'
  <2>1. (dr \in [Threads -> [Slots -> Addrs \cup {NoAddr}]])'
    <3>1. dr \in [Threads -> [Slots -> Addrs \cup {NoAddr}]]
      BY <1>1 DEF TypeOK
    <3>2. dr' = dr \/ dr' = [dr EXCEPT ![t][bp.slot] = NoAddr]
      BY DEF DisarmOne
    <3> QED BY <3>1, <3>2
  <2>2. todo' \subseteq Threads
    BY <1>1 DEF DisarmOne, TypeOK
  <2> QED BY <1>1, <2>1, <2>2 DEF DisarmOne, manager, caller, history, TypeOK
<1>3. CallTrue'
  BY <1>1, ThreadAssumption, BoundAssumption DEF DisarmOne, manager, caller, history, Clean,
     TypeOK, CallTrue, SlotsUnique, Record
<1>4. SlotsUnique'
  BY <1>1 DEF DisarmOne, manager, caller, history, Clean, TypeOK, CallTrue, SlotsUnique
<1>5. (cleared \cup botched \subseteq 1..bp_counter)'
  BY <1>1, ThreadAssumption, BoundAssumption DEF DisarmOne, manager, caller, history, Clean,
     TypeOK, CallTrue
<1> QED BY <1>2, <1>3, <1>4, <1>5 DEF RecordsInv

LEMMA DisarmFailsKeepsRecords ==
  ASSUME RecordsInv, NEW t \in Threads, DisarmFails(t)
  PROVE  RecordsInv'
<1>1. TypeOK /\ CallTrue /\ SlotsUnique /\ cleared \cup botched \subseteq 1..bp_counter
  BY DEF RecordsInv
<1>2. TypeOK'
  BY <1>1, ThreadAssumption, BoundAssumption DEF DisarmFails, Concerned, manager, caller,
     history, Clean, TypeOK, CallTrue, Record, Ids
<1>3. CallTrue'
  BY <1>1, ThreadAssumption, BoundAssumption DEF DisarmFails, Concerned, manager, caller,
     history, Clean, TypeOK, CallTrue, SlotsUnique, Record
<1>4. SlotsUnique'
  BY <1>1 DEF DisarmFails, Concerned, manager, caller, history, Clean, TypeOK, CallTrue,
     SlotsUnique
<1>5. (cleared \cup botched \subseteq 1..bp_counter)'
  BY <1>1, ThreadAssumption, BoundAssumption DEF DisarmFails, Concerned, manager, caller,
     history, Clean, TypeOK, CallTrue
<1> QED BY <1>2, <1>3, <1>4, <1>5 DEF RecordsInv

LEMMA DisarmDoneKeepsRecords ==
  ASSUME RecordsInv, DisarmDone
  PROVE  RecordsInv'
<1>1. TypeOK /\ CallTrue /\ SlotsUnique /\ cleared \cup botched \subseteq 1..bp_counter
  BY DEF RecordsInv
<1>2. TypeOK'
  BY <1>1, ThreadAssumption, BoundAssumption DEF DisarmDone, Concerned, manager, caller,
     history, Clean, TypeOK, CallTrue, Record, Ids
<1>3. CallTrue'
  BY <1>1, ThreadAssumption, BoundAssumption DEF DisarmDone, Concerned, manager, caller,
     history, Clean, TypeOK, CallTrue, SlotsUnique, Record
<1>4. SlotsUnique'
  BY <1>1 DEF DisarmDone, Concerned, manager, caller, history, Clean, TypeOK, CallTrue,
     SlotsUnique
<1>5. (cleared \cup botched \subseteq 1..bp_counter)'
  BY <1>1, ThreadAssumption, BoundAssumption DEF DisarmDone, Concerned, manager, caller,
     history, Clean, TypeOK, CallTrue
<1> QED BY <1>2, <1>3, <1>4, <1>5 DEF RecordsInv

LEMMA RecordsStep == RecordsInv /\ [Next]_vars => RecordsInv'
<1> SUFFICES ASSUME RecordsInv, [Next]_vars PROVE RecordsInv'
  OBVIOUS
<1>1. CASE TargetStep
  BY <1>1, CreateThreadKeepsRecords, EndThreadKeepsRecords DEF TargetStep
<1>2. CASE LoopStep
  BY <1>2, ThreadCreatedKeepsRecords, ReplicationFailsKeepsRecords, OtherEventKeepsRecords,
     ContinueKeepsRecords
  DEF LoopStep
<1>3. CASE CallStep
  BY <1>3, SetBeginKeepsRecords, ArmOneKeepsRecords, ArmFailsKeepsRecords,
     RollbackOneKeepsRecords,
     RollbackDoneKeepsRecords, SetDoneKeepsRecords, RemoveBeginKeepsRecords, ClearBeginKeepsRecords,
     DisarmOneKeepsRecords, DisarmFailsKeepsRecords, DisarmDoneKeepsRecords DEF CallStep
<1>4. CASE UNCHANGED vars
  BY <1>4 DEF vars, manager, caller, history, RecordsInv, TypeOK, CallTrue, SlotsUnique
<1> QED BY <1>1, <1>2, <1>3, <1>4 DEF Next

(* Every record, register and call keeps its types and a call is about the *)
(* record it was made for, whatever fails and however calls and events mix.*)
THEOREM RecordsAccounts == Spec => []RecordsInv
BY RecordsInit, RecordsStep, PTL DEF Spec

(* A debug register is never shared by two records, of whatever scope.     *)
THEOREM OneRecordPerSlot == Spec => []SlotsUnique
<1>1. RecordsInv => SlotsUnique
  BY DEF RecordsInv
<1> QED BY <1>1, RecordsAccounts, PTL

-----------------------------------------------------------------------------
(* Every armed register belongs to a record, or to the call under way.     *)

LEMMA CoverInit == Init => CoverInv
BY DEF Init, CoverInv, DisarmTrue, Covered, Clean, Live

LEMMA CreateThreadKeepsCover ==
  ASSUME RecordsInv, CoverInv, NEW t \in Threads, CreateThread(t)
  PROVE  CoverInv'
<1>1. /\ TypeOK /\ CallTrue /\ SlotsUnique /\ DisarmTrue
      /\ \A u \in Live, s \in Slots : Covered(u, s)
  BY DEF RecordsInv, CoverInv
<1>2. DisarmTrue'
  BY <1>1, ThreadAssumption, BoundAssumption, AddrAssumption DEF CreateThread, Live,
     manager, caller, history, Clean, TypeOK, CallTrue, SlotsUnique, DisarmTrue, Covered,
     Recorded, InCall, Record
<1>3. ASSUME NEW u \in Live', NEW s \in Slots PROVE Covered(u, s)'
  BY <1>1, <1>3, ThreadAssumption, BoundAssumption DEF CreateThread, Live, manager, caller,
     history, Clean, TypeOK, CallTrue, SlotsUnique, DisarmTrue, Covered, Recorded, InCall,
     Record
<1> QED BY <1>2, <1>3 DEF CoverInv

LEMMA EndThreadKeepsCover ==
  ASSUME RecordsInv, CoverInv, NEW t \in Threads, EndThread(t)
  PROVE  CoverInv'
<1>1. /\ TypeOK /\ CallTrue /\ SlotsUnique /\ DisarmTrue
      /\ \A u \in Live, s \in Slots : Covered(u, s)
  BY DEF RecordsInv, CoverInv
<1>2. DisarmTrue'
  BY <1>1, ThreadAssumption, BoundAssumption, AddrAssumption DEF EndThread, Live, manager,
     caller, history, Clean, TypeOK, CallTrue, SlotsUnique, DisarmTrue, Covered, Recorded,
     InCall, Record
<1>3. ASSUME NEW u \in Live', NEW s \in Slots PROVE Covered(u, s)'
  BY <1>1, <1>3, ThreadAssumption, BoundAssumption DEF EndThread, Live, manager, caller,
     history, Clean, TypeOK, CallTrue, SlotsUnique, DisarmTrue, Covered, Recorded, InCall,
     Record
<1> QED BY <1>2, <1>3 DEF CoverInv

LEMMA ThreadCreatedKeepsCover ==
  ASSUME RecordsInv, CoverInv, Concurrent = FALSE,
         NEW t \in Threads, ThreadCreated(t)
  PROVE  CoverInv'
<1>1. /\ TypeOK /\ CallTrue /\ SlotsUnique /\ DisarmTrue
      /\ \A u \in Live, s \in Slots : Covered(u, s)
  BY DEF RecordsInv, CoverInv
<1>a. \A s \in Slots :
        \/ dr'[t][s] = dr[t][s]
        \/ \E k \in DOMAIN breakpoints : /\ breakpoints[k].scope = All /\ breakpoints[k].slot = s
                                         /\ breakpoints[k].addr = dr'[t][s]
  <2>1. dr'[t] = Replicated(t, DOMAIN breakpoints)
    BY <1>1 DEF ThreadCreated, TypeOK
  <2> QED BY <2>1, ReplicatedGives
<1>b. \A u \in Threads \ {t} : dr'[u] = dr[u]
  BY <1>1 DEF ThreadCreated, TypeOK
<1>2. DisarmTrue'
  BY <1>1, <1>a, <1>b, ThreadAssumption, BoundAssumption, AddrAssumption DEF ThreadCreated,
     Live, MayWait, manager, caller, history, Clean, TypeOK, CallTrue, SlotsUnique,
     DisarmTrue, Covered, Recorded, InCall, Record
<1>3. ASSUME NEW u \in Live', NEW s \in Slots PROVE Covered(u, s)'
  <2>1. CASE u = t
    <3>1. t \in Live => Covered(t, s)
      BY <1>1
    <3>2. op = "idle" /\ Live' = Live /\ UNCHANGED <<breakpoints, op>>
      BY DEF ThreadCreated, MayWait, manager, caller, Live
    <3>3. t \in Live
      BY <1>3, <2>1, <3>2
    <3>4. CASE dr'[t][s] = dr[t][s]
      BY <2>1, <3>1, <3>2, <3>3, <3>4 DEF Covered, Recorded, InCall
    <3>5. CASE dr'[t][s] # dr[t][s]
      BY <1>a, <1>3, <2>1, <3>2, <3>5 DEF Covered, Recorded
    <3> QED BY <3>4, <3>5
  <2>2. CASE u # t
    <3>1. u \in Live /\ Covered(u, s)
      BY <1>1, <1>3 DEF ThreadCreated, Live
    <3>2. dr'[u] = dr[u]
      BY <1>b, <1>3, <2>2 DEF ThreadCreated, Live
    <3> QED BY <3>1, <3>2 DEF ThreadCreated, manager, caller, Covered, Recorded, InCall
  <2> QED BY <2>1, <2>2
<1> QED BY <1>2, <1>3 DEF CoverInv

LEMMA ReplicationFailsKeepsCover ==
  ASSUME RecordsInv, CoverInv, Concurrent = FALSE,
         NEW t \in Threads, NEW i \in Ids, ReplicationFails(t, i)
  PROVE  CoverInv'
<1>1. /\ TypeOK /\ CallTrue /\ SlotsUnique /\ DisarmTrue
      /\ \A u \in Live, s \in Slots : Covered(u, s)
  BY DEF RecordsInv, CoverInv
<1>a. \A s \in Slots :
        \/ dr'[t][s] = dr[t][s]
        \/ \E k \in DOMAIN breakpoints : /\ breakpoints[k].scope = All /\ breakpoints[k].slot = s
                                         /\ breakpoints[k].addr = dr'[t][s]
  <2>1. dr'[t] = Replicated(t, {j \in DOMAIN breakpoints : j < i})
    BY <1>1 DEF ReplicationFails, TypeOK
  <2> QED BY <2>1, ReplicatedGives
<1>b. \A u \in Threads \ {t} : dr'[u] = dr[u]
  BY <1>1 DEF ReplicationFails, TypeOK
<1>2. DisarmTrue'
  BY <1>1, <1>a, <1>b, ThreadAssumption, BoundAssumption, AddrAssumption DEF
     ReplicationFails, Live, MayWait, manager, caller, history, Clean, TypeOK, CallTrue,
     SlotsUnique, DisarmTrue, Covered, Recorded, InCall, Record
<1>3. ASSUME NEW u \in Live', NEW s \in Slots PROVE Covered(u, s)'
  <2>1. CASE u = t
    <3>1. t \in Live => Covered(t, s)
      BY <1>1
    <3>2. op = "idle" /\ Live' = Live /\ UNCHANGED <<breakpoints, op>>
      BY DEF ReplicationFails, MayWait, manager, caller, Live
    <3>3. t \in Live
      BY <1>3, <2>1, <3>2
    <3>4. CASE dr'[t][s] = dr[t][s]
      BY <2>1, <3>1, <3>2, <3>3, <3>4 DEF Covered, Recorded, InCall
    <3>5. CASE dr'[t][s] # dr[t][s]
      BY <1>a, <1>3, <2>1, <3>2, <3>5 DEF Covered, Recorded
    <3> QED BY <3>4, <3>5
  <2>2. CASE u # t
    <3>1. u \in Live /\ Covered(u, s)
      BY <1>1, <1>3 DEF ReplicationFails, Live
    <3>2. dr'[u] = dr[u]
      BY <1>b, <1>3, <2>2 DEF ReplicationFails, Live
    <3> QED BY <3>1, <3>2 DEF ReplicationFails, manager, caller, Covered, Recorded, InCall
  <2> QED BY <2>1, <2>2
<1> QED BY <1>2, <1>3 DEF CoverInv

LEMMA OtherEventKeepsCover ==
  ASSUME RecordsInv, CoverInv, OtherEvent
  PROVE  CoverInv'
<1>1. /\ TypeOK /\ CallTrue /\ SlotsUnique /\ DisarmTrue
      /\ \A u \in Live, s \in Slots : Covered(u, s)
  BY DEF RecordsInv, CoverInv
<1>2. DisarmTrue'
  BY <1>1, ThreadAssumption, BoundAssumption, AddrAssumption DEF OtherEvent, Live, manager,
     caller, history, Clean, TypeOK, CallTrue, SlotsUnique, DisarmTrue, Covered, Recorded,
     InCall, Record
<1>3. ASSUME NEW u \in Live', NEW s \in Slots PROVE Covered(u, s)'
  BY <1>1, <1>3, ThreadAssumption, BoundAssumption DEF OtherEvent, Live, manager, caller,
     history, Clean, TypeOK, CallTrue, SlotsUnique, DisarmTrue, Covered, Recorded, InCall,
     Record
<1> QED BY <1>2, <1>3 DEF CoverInv

LEMMA ContinueKeepsCover ==
  ASSUME RecordsInv, CoverInv, Continue
  PROVE  CoverInv'
<1>1. /\ TypeOK /\ CallTrue /\ SlotsUnique /\ DisarmTrue
      /\ \A u \in Live, s \in Slots : Covered(u, s)
  BY DEF RecordsInv, CoverInv
<1>2. DisarmTrue'
  BY <1>1, ThreadAssumption, BoundAssumption, AddrAssumption DEF Continue, Live, manager,
     caller, history, Clean, TypeOK, CallTrue, SlotsUnique, DisarmTrue, Covered, Recorded,
     InCall, Record
<1>3. ASSUME NEW u \in Live', NEW s \in Slots PROVE Covered(u, s)'
  BY <1>1, <1>3, ThreadAssumption, BoundAssumption DEF Continue, Live, manager, caller,
     history, Clean, TypeOK, CallTrue, SlotsUnique, DisarmTrue, Covered, Recorded, InCall,
     Record
<1> QED BY <1>2, <1>3 DEF CoverInv

LEMMA SetBeginKeepsCover ==
  ASSUME RecordsInv, CoverInv, NEW addr \in Addrs, NEW slot \in Slots, NEW scope \in Scopes,
         SetBegin(addr, slot, scope)
  PROVE  CoverInv'
<1>1. /\ TypeOK /\ CallTrue /\ SlotsUnique /\ DisarmTrue
      /\ \A u \in Live, s \in Slots : Covered(u, s)
  BY DEF RecordsInv, CoverInv
<1>2. DisarmTrue'
  BY <1>1, ThreadAssumption, BoundAssumption, AddrAssumption DEF SetBegin, SlotTaken,
     InScope, AllThreadIds, Live, Scopes, manager, caller, history, Clean, TypeOK, CallTrue,
     SlotsUnique, DisarmTrue, Covered, Recorded, InCall, Record
<1>3. ASSUME NEW u \in Live', NEW s \in Slots PROVE Covered(u, s)'
  BY <1>1, <1>3, ThreadAssumption, BoundAssumption DEF SetBegin, SlotTaken, InScope,
     AllThreadIds, Live, Scopes, manager, caller, history, Clean, TypeOK, CallTrue,
     SlotsUnique, DisarmTrue, Covered, Recorded, InCall, Record
<1> QED BY <1>2, <1>3 DEF CoverInv

LEMMA ArmOneKeepsCover ==
  ASSUME RecordsInv, CoverInv, NEW t \in Threads, ArmOne(t)
  PROVE  CoverInv'
<1>1. /\ TypeOK /\ CallTrue /\ SlotsUnique /\ DisarmTrue
      /\ \A u \in Live, s \in Slots : Covered(u, s)
  BY DEF RecordsInv, CoverInv
<1>2. DisarmTrue'
  BY <1>1, ThreadAssumption, BoundAssumption, AddrAssumption DEF ArmOne, Live, manager,
     caller, history, Clean, TypeOK, CallTrue, SlotsUnique, DisarmTrue, Covered, Recorded,
     InCall, Record
<1>3. ASSUME NEW u \in Live', NEW s \in Slots PROVE Covered(u, s)'
  BY <1>1, <1>3, ThreadAssumption, BoundAssumption DEF ArmOne, Live, manager, caller,
     history, Clean, TypeOK, CallTrue, SlotsUnique, DisarmTrue, Covered, Recorded, InCall,
     Record
<1> QED BY <1>2, <1>3 DEF CoverInv

LEMMA ArmFailsKeepsCover ==
  ASSUME RecordsInv, CoverInv, NEW t \in Threads, ArmFails(t)
  PROVE  CoverInv'
<1>1. /\ TypeOK /\ CallTrue /\ SlotsUnique /\ DisarmTrue
      /\ \A u \in Live, s \in Slots : Covered(u, s)
  BY DEF RecordsInv, CoverInv
<1>2. DisarmTrue'
  BY <1>1, ThreadAssumption, BoundAssumption, AddrAssumption DEF ArmFails, RollbackSet,
     Live, manager, caller, history, Clean, TypeOK, CallTrue, SlotsUnique, DisarmTrue,
     Covered, Recorded, InCall, Record
<1>3. ASSUME NEW u \in Live', NEW s \in Slots PROVE Covered(u, s)'
  BY <1>1, <1>3, ThreadAssumption, BoundAssumption DEF ArmFails, RollbackSet, Live, manager,
     caller, history, Clean, TypeOK, CallTrue, SlotsUnique, DisarmTrue, Covered, Recorded,
     InCall, Record
<1> QED BY <1>2, <1>3 DEF CoverInv

LEMMA RollbackOneKeepsCover ==
  ASSUME RecordsInv, CoverInv, "disarm" \notin Faults,
         NEW t \in Threads, RollbackOne(t)
  PROVE  CoverInv'
<1>1. /\ TypeOK /\ CallTrue /\ SlotsUnique /\ DisarmTrue
      /\ \A u \in Live, s \in Slots : Covered(u, s)
  BY DEF RecordsInv, CoverInv
<1>2. DisarmTrue'
  BY <1>1, ThreadAssumption, BoundAssumption, AddrAssumption DEF RollbackOne, Live, manager,
     caller, history, Clean, TypeOK, CallTrue, SlotsUnique, DisarmTrue, Covered, Recorded,
     InCall, Record
<1>3. ASSUME NEW u \in Live', NEW s \in Slots PROVE Covered(u, s)'
  BY <1>1, <1>3, ThreadAssumption, BoundAssumption DEF RollbackOne, Live, manager, caller,
     history, Clean, TypeOK, CallTrue, SlotsUnique, DisarmTrue, Covered, Recorded, InCall,
     Record
<1> QED BY <1>2, <1>3 DEF CoverInv

LEMMA RollbackDoneKeepsCover ==
  ASSUME RecordsInv, CoverInv, RollbackDone
  PROVE  CoverInv'
<1>1. /\ TypeOK /\ CallTrue /\ SlotsUnique /\ DisarmTrue
      /\ \A u \in Live, s \in Slots : Covered(u, s)
  BY DEF RecordsInv, CoverInv
<1>2. DisarmTrue'
  BY <1>1, ThreadAssumption, BoundAssumption, AddrAssumption DEF RollbackDone, Live,
     manager, caller, history, Clean, TypeOK, CallTrue, SlotsUnique, DisarmTrue, Covered,
     Recorded, InCall, Record
<1>3. ASSUME NEW u \in Live', NEW s \in Slots PROVE Covered(u, s)'
  BY <1>1, <1>3, ThreadAssumption, BoundAssumption DEF RollbackDone, Live, manager, caller,
     history, Clean, TypeOK, CallTrue, SlotsUnique, DisarmTrue, Covered, Recorded, InCall,
     Record
<1> QED BY <1>2, <1>3 DEF CoverInv

LEMMA SetDoneKeepsCover ==
  ASSUME RecordsInv, CoverInv, SetDone
  PROVE  CoverInv'
<1>1. /\ TypeOK /\ CallTrue /\ SlotsUnique /\ DisarmTrue
      /\ \A u \in Live, s \in Slots : Covered(u, s)
  BY DEF RecordsInv, CoverInv
<1>2. DisarmTrue'
  BY <1>1, ThreadAssumption, BoundAssumption, AddrAssumption DEF SetDone, Live, manager,
     caller, history, Clean, TypeOK, CallTrue, SlotsUnique, DisarmTrue, Covered, Recorded,
     InCall, Record
<1>3. ASSUME NEW u \in Live', NEW s \in Slots PROVE Covered(u, s)'
  <2>1. u \in Live /\ Covered(u, s) /\ dr' = dr
    BY <1>1, <1>3 DEF SetDone, Live
  <2>2. /\ breakpoints'[bp_counter + 1] = bp /\ bp_counter + 1 \in DOMAIN breakpoints'
        /\ \A i \in DOMAIN breakpoints :
              i \in DOMAIN breakpoints' /\ breakpoints'[i] = breakpoints[i]
    BY <1>1 DEF SetDone, TypeOK
  <2>3. Recorded(u, s) => Recorded(u, s)'
    BY <2>1, <2>2 DEF Recorded
  <2>4. InCall(u, s) => Recorded(u, s)'
    BY <1>1, <2>1, <2>2 DEF SetDone, InCall, Recorded, CallTrue
  <2> QED BY <2>1, <2>3, <2>4 DEF Covered
<1> QED BY <1>2, <1>3 DEF CoverInv

LEMMA RemoveBeginKeepsCover ==
  ASSUME RecordsInv, CoverInv, NEW i \in Ids, RemoveBegin(i)
  PROVE  CoverInv'
<1>1. /\ TypeOK /\ CallTrue /\ SlotsUnique /\ DisarmTrue
      /\ \A u \in Live, s \in Slots : Covered(u, s)
  BY DEF RecordsInv, CoverInv
<1>2. DisarmTrue'
  BY <1>1, ThreadAssumption, BoundAssumption, AddrAssumption DEF RemoveBegin, InScope,
     AllThreadIds, Live, manager, caller, history, Clean, TypeOK, CallTrue, SlotsUnique,
     DisarmTrue, Covered, Recorded, InCall, Record
<1>3. ASSUME NEW u \in Live', NEW s \in Slots PROVE Covered(u, s)'
  BY <1>1, <1>3, ThreadAssumption, BoundAssumption DEF RemoveBegin, InScope, AllThreadIds,
     Live, manager, caller, history, Clean, TypeOK, CallTrue, SlotsUnique, DisarmTrue,
     Covered, Recorded, InCall, Record
<1> QED BY <1>2, <1>3 DEF CoverInv

LEMMA ClearBeginKeepsCover ==
  ASSUME RecordsInv, CoverInv, NEW slot \in Slots, ClearBegin(slot)
  PROVE  CoverInv'
<1>1. /\ TypeOK /\ CallTrue /\ SlotsUnique /\ DisarmTrue
      /\ \A u \in Live, s \in Slots : Covered(u, s)
  BY DEF RecordsInv, CoverInv
<1>2. DisarmTrue'
  BY <1>1, ThreadAssumption, BoundAssumption, AddrAssumption DEF ClearBegin, InScope,
     AllThreadIds, Live, manager, caller, history, Clean, TypeOK, CallTrue, SlotsUnique,
     DisarmTrue, Covered, Recorded, InCall, Record
<1>3. ASSUME NEW u \in Live', NEW s \in Slots PROVE Covered(u, s)'
  BY <1>1, <1>3, ThreadAssumption, BoundAssumption DEF ClearBegin, InScope, AllThreadIds,
     Live, manager, caller, history, Clean, TypeOK, CallTrue, SlotsUnique, DisarmTrue,
     Covered, Recorded, InCall, Record
<1> QED BY <1>2, <1>3 DEF CoverInv

LEMMA DisarmOneKeepsCover ==
  ASSUME RecordsInv, CoverInv, NEW t \in Threads, DisarmOne(t)
  PROVE  CoverInv'
<1>1. /\ TypeOK /\ CallTrue /\ SlotsUnique /\ DisarmTrue
      /\ \A u \in Live, s \in Slots : Covered(u, s)
  BY DEF RecordsInv, CoverInv
<1>2. DisarmTrue'
  BY <1>1, ThreadAssumption, BoundAssumption, AddrAssumption DEF DisarmOne, Live, manager,
     caller, history, Clean, TypeOK, CallTrue, SlotsUnique, DisarmTrue, Covered, Recorded,
     InCall, Record
<1>3. ASSUME NEW u \in Live', NEW s \in Slots PROVE Covered(u, s)'
  BY <1>1, <1>3, ThreadAssumption, BoundAssumption DEF DisarmOne, Live, manager, caller,
     history, Clean, TypeOK, CallTrue, SlotsUnique, DisarmTrue, Covered, Recorded, InCall,
     Record
<1> QED BY <1>2, <1>3 DEF CoverInv

LEMMA DisarmFailsKeepsCover ==
  ASSUME RecordsInv, CoverInv, NEW t \in Threads, DisarmFails(t)
  PROVE  CoverInv'
<1>1. /\ TypeOK /\ CallTrue /\ SlotsUnique /\ DisarmTrue
      /\ \A u \in Live, s \in Slots : Covered(u, s)
  BY DEF RecordsInv, CoverInv
<1>2. DisarmTrue'
  BY <1>1, ThreadAssumption, BoundAssumption, AddrAssumption DEF DisarmFails, Concerned,
     Live, manager, caller, history, Clean, TypeOK, CallTrue, SlotsUnique, DisarmTrue,
     Covered, Recorded, InCall, Record
<1>3. ASSUME NEW u \in Live', NEW s \in Slots PROVE Covered(u, s)'
  BY <1>1, <1>3, ThreadAssumption, BoundAssumption DEF DisarmFails, Concerned, Live,
     manager, caller, history, Clean, TypeOK, CallTrue, SlotsUnique, DisarmTrue, Covered,
     Recorded, InCall, Record
<1> QED BY <1>2, <1>3 DEF CoverInv

LEMMA DisarmDoneKeepsCover ==
  ASSUME RecordsInv, CoverInv, DisarmDone
  PROVE  CoverInv'
<1>1. /\ TypeOK /\ CallTrue /\ SlotsUnique /\ DisarmTrue
      /\ \A u \in Live, s \in Slots : Covered(u, s)
  BY DEF RecordsInv, CoverInv
<1>2. DisarmTrue'
  BY <1>1, ThreadAssumption, BoundAssumption, AddrAssumption DEF DisarmDone, Concerned,
     Live, manager, caller, history, Clean, TypeOK, CallTrue, SlotsUnique, DisarmTrue,
     Covered, Recorded, InCall, Record
<1>3. ASSUME NEW u \in Live', NEW s \in Slots PROVE Covered(u, s)'
  BY <1>1, <1>3, ThreadAssumption, BoundAssumption DEF DisarmDone, Concerned, Live, manager,
     caller, history, Clean, TypeOK, CallTrue, SlotsUnique, DisarmTrue, Covered, Recorded,
     InCall, Record
<1> QED BY <1>2, <1>3 DEF CoverInv

LEMMA CoverStep ==
  ASSUME Concurrent = FALSE, "disarm" \notin Faults
  PROVE  RecordsInv /\ CoverInv /\ [Next]_vars => CoverInv'
<1> SUFFICES ASSUME RecordsInv, CoverInv, [Next]_vars PROVE CoverInv'
  OBVIOUS
<1>1. CASE TargetStep
  BY <1>1, CreateThreadKeepsCover, EndThreadKeepsCover DEF TargetStep
<1>2. CASE LoopStep
  BY <1>2, ThreadCreatedKeepsCover, ReplicationFailsKeepsCover, OtherEventKeepsCover,
     ContinueKeepsCover
  DEF LoopStep
<1>3. CASE CallStep
  BY <1>3, SetBeginKeepsCover, ArmOneKeepsCover, ArmFailsKeepsCover, RollbackOneKeepsCover,
     RollbackDoneKeepsCover, SetDoneKeepsCover, RemoveBeginKeepsCover, ClearBeginKeepsCover,
     DisarmOneKeepsCover, DisarmFailsKeepsCover, DisarmDoneKeepsCover DEF CallStep
<1>4. CASE UNCHANGED vars
  BY <1>4 DEF vars, manager, caller, history, CoverInv, DisarmTrue, Covered, Recorded,
     InCall, Live
<1> QED BY <1>1, <1>2, <1>3, <1>4 DEF Next

LEMMA CoverAlways ==
  ASSUME Concurrent = FALSE, "disarm" \notin Faults
  PROVE  Spec => [](RecordsInv /\ CoverInv)
<1>1. Init => RecordsInv /\ CoverInv
  BY RecordsInit, CoverInit
<1>2. RecordsInv /\ CoverInv /\ [Next]_vars => (RecordsInv /\ CoverInv)'
  BY RecordsStep, CoverStep
<1> QED BY <1>1, <1>2, PTL DEF Spec

(* Between two calls no register is armed without a record: a set() that   *)
(* fails half way takes back what it armed, remove() leaves nothing.       *)
THEOREM ArmedForARecord ==
  ASSUME Concurrent = FALSE, "disarm" \notin Faults
  PROVE  Spec => []NoStrayRegister
<1>1. CoverInv => NoStrayRegister
  BY DEF CoverInv, Covered, Recorded, InCall, NoStrayRegister
<1> QED BY <1>1, CoverAlways, PTL

-----------------------------------------------------------------------------
(* A process-wide breakpoint is on every thread whose creation was handled.*)

LEMMA SpreadInit == Init => SpreadInv
BY DEF Init, SpreadInv, Spreading, Empty

LEMMA CreateThreadKeepsSpread ==
  ASSUME RecordsInv, SpreadInv, NEW t \in Threads, CreateThread(t)
  PROVE  SpreadInv'
<1> SUFFICES ASSUME ~raised' PROVE SpreadInv'
  BY DEF SpreadInv
<1>1. /\ TypeOK /\ CallTrue /\ SlotsUnique /\ cleared \cup botched \subseteq 1..bp_counter
      /\ Spreading /\ ~raised
      /\ \A k \in DOMAIN breakpoints \ (cleared \cup botched \cup InHand) : Spread(k)
  BY DEF RecordsInv, SpreadInv, CreateThread
<1>2. Spreading'
  BY <1>1, ThreadAssumption, BoundAssumption, AddrAssumption DEF CreateThread, Live,
     Concerned, manager, caller, history, Clean, TypeOK, CallTrue, Spreading, Record
<1>3. ASSUME NEW k \in (DOMAIN breakpoints \ (cleared \cup botched \cup InHand))' PROVE Spread(k)'
  BY <1>1, <1>3, ThreadAssumption, BoundAssumption DEF CreateThread, Live, Concerned,
     manager, caller, history, Clean, TypeOK, CallTrue, SlotsUnique, Spreading, Spread,
     InHand, Record
<1> QED BY <1>2, <1>3 DEF SpreadInv

LEMMA EndThreadKeepsSpread ==
  ASSUME RecordsInv, SpreadInv, NEW t \in Threads, EndThread(t)
  PROVE  SpreadInv'
<1> SUFFICES ASSUME ~raised' PROVE SpreadInv'
  BY DEF SpreadInv
<1>1. /\ TypeOK /\ CallTrue /\ SlotsUnique /\ cleared \cup botched \subseteq 1..bp_counter
      /\ Spreading /\ ~raised
      /\ \A k \in DOMAIN breakpoints \ (cleared \cup botched \cup InHand) : Spread(k)
  BY DEF RecordsInv, SpreadInv, EndThread
<1>2. Spreading'
  BY <1>1, ThreadAssumption, BoundAssumption, AddrAssumption DEF EndThread, Live, Concerned,
     manager, caller, history, Clean, TypeOK, CallTrue, Spreading, Record
<1>3. ASSUME NEW k \in (DOMAIN breakpoints \ (cleared \cup botched \cup InHand))' PROVE Spread(k)'
  BY <1>1, <1>3, ThreadAssumption, BoundAssumption DEF EndThread, Live, Concerned, manager,
     caller, history, Clean, TypeOK, CallTrue, SlotsUnique, Spreading, Spread, InHand,
     Record
<1> QED BY <1>2, <1>3 DEF SpreadInv

LEMMA ThreadCreatedKeepsSpread ==
  ASSUME RecordsInv, SpreadInv, Concurrent = FALSE,
         NEW t \in Threads, ThreadCreated(t)
  PROVE  SpreadInv'
<1> SUFFICES ASSUME ~raised' PROVE SpreadInv'
  BY DEF SpreadInv
<1>1. /\ TypeOK /\ CallTrue /\ SlotsUnique /\ cleared \cup botched \subseteq 1..bp_counter
      /\ Spreading /\ ~raised
      /\ \A k \in DOMAIN breakpoints \ (cleared \cup botched \cup InHand) : Spread(k)
  BY DEF RecordsInv, SpreadInv, ThreadCreated
<1>a. /\ dr' = [dr EXCEPT ![t] = Replicated(t, DOMAIN breakpoints)]
      /\ op = "idle" /\ Live' = Live /\ posted' = posted \ {t}
      /\ UNCHANGED <<breakpoints, op, cleared, botched, raised>>
  BY DEF ThreadCreated, MayWait, manager, caller, history, Live
<1>b. \A k \in DOMAIN breakpoints : breakpoints[k].scope = All =>
        dr'[t][breakpoints[k].slot] = breakpoints[k].addr
  BY <1>1, <1>a, ReplicatedGives DEF TypeOK
<1>c. \A u \in Threads \ {t} : dr'[u] = dr[u]
  BY <1>1, <1>a DEF TypeOK
<1>2. Spreading'
  BY <1>a DEF Spreading
<1>3. ASSUME NEW k \in (DOMAIN breakpoints \ (cleared \cup botched \cup InHand))' PROVE Spread(k)'
  BY <1>1, <1>a, <1>b, <1>c, <1>3 DEF Spread, InHand, Live
<1> QED BY <1>2, <1>3 DEF SpreadInv

LEMMA ReplicationFailsKeepsSpread ==
  ASSUME RecordsInv, SpreadInv, Concurrent = FALSE,
         NEW t \in Threads, NEW i \in Ids, ReplicationFails(t, i)
  PROVE  SpreadInv'
<1> SUFFICES ASSUME ~raised' PROVE SpreadInv'
  BY DEF SpreadInv
<1>1. /\ TypeOK /\ CallTrue /\ SlotsUnique /\ cleared \cup botched \subseteq 1..bp_counter
      /\ Spreading /\ ~raised
      /\ \A k \in DOMAIN breakpoints \ (cleared \cup botched \cup InHand) : Spread(k)
  BY DEF RecordsInv, SpreadInv, ReplicationFails
<1> QED BY DEF ReplicationFails

LEMMA OtherEventKeepsSpread ==
  ASSUME RecordsInv, SpreadInv, OtherEvent
  PROVE  SpreadInv'
<1> SUFFICES ASSUME ~raised' PROVE SpreadInv'
  BY DEF SpreadInv
<1>1. /\ TypeOK /\ CallTrue /\ SlotsUnique /\ cleared \cup botched \subseteq 1..bp_counter
      /\ Spreading /\ ~raised
      /\ \A k \in DOMAIN breakpoints \ (cleared \cup botched \cup InHand) : Spread(k)
  BY DEF RecordsInv, SpreadInv, OtherEvent
<1>2. Spreading'
  BY <1>1, ThreadAssumption, BoundAssumption, AddrAssumption DEF OtherEvent, Live,
     Concerned, manager, caller, history, Clean, TypeOK, CallTrue, Spreading, Record
<1>3. ASSUME NEW k \in (DOMAIN breakpoints \ (cleared \cup botched \cup InHand))' PROVE Spread(k)'
  BY <1>1, <1>3, ThreadAssumption, BoundAssumption DEF OtherEvent, Live, Concerned, manager,
     caller, history, Clean, TypeOK, CallTrue, SlotsUnique, Spreading, Spread, InHand,
     Record
<1> QED BY <1>2, <1>3 DEF SpreadInv

LEMMA ContinueKeepsSpread ==
  ASSUME RecordsInv, SpreadInv, Continue
  PROVE  SpreadInv'
<1> SUFFICES ASSUME ~raised' PROVE SpreadInv'
  BY DEF SpreadInv
<1>1. /\ TypeOK /\ CallTrue /\ SlotsUnique /\ cleared \cup botched \subseteq 1..bp_counter
      /\ Spreading /\ ~raised
      /\ \A k \in DOMAIN breakpoints \ (cleared \cup botched \cup InHand) : Spread(k)
  BY DEF RecordsInv, SpreadInv, Continue
<1>2. Spreading'
  BY <1>1, ThreadAssumption, BoundAssumption, AddrAssumption DEF Continue, Live, Concerned,
     manager, caller, history, Clean, TypeOK, CallTrue, Spreading, Record
<1>3. ASSUME NEW k \in (DOMAIN breakpoints \ (cleared \cup botched \cup InHand))' PROVE Spread(k)'
  BY <1>1, <1>3, ThreadAssumption, BoundAssumption DEF Continue, Live, Concerned, manager,
     caller, history, Clean, TypeOK, CallTrue, SlotsUnique, Spreading, Spread, InHand,
     Record
<1> QED BY <1>2, <1>3 DEF SpreadInv

LEMMA SetBeginKeepsSpread ==
  ASSUME RecordsInv, SpreadInv, NEW addr \in Addrs, NEW slot \in Slots, NEW scope \in Scopes,
         SetBegin(addr, slot, scope)
  PROVE  SpreadInv'
<1> SUFFICES ASSUME ~raised' PROVE SpreadInv'
  BY DEF SpreadInv
<1>1. /\ TypeOK /\ CallTrue /\ SlotsUnique /\ cleared \cup botched \subseteq 1..bp_counter
      /\ Spreading /\ ~raised
      /\ \A k \in DOMAIN breakpoints \ (cleared \cup botched \cup InHand) : Spread(k)
  BY DEF RecordsInv, SpreadInv, SetBegin
<1>2. Spreading'
  BY <1>1, ThreadAssumption, BoundAssumption, AddrAssumption DEF SetBegin, SlotTaken,
     InScope, AllThreadIds, Live, Scopes, Concerned, manager, caller, history, Clean,
     TypeOK, CallTrue, Spreading, Record
<1>3. ASSUME NEW k \in (DOMAIN breakpoints \ (cleared \cup botched \cup InHand))' PROVE Spread(k)'
  BY <1>1, <1>3, ThreadAssumption, BoundAssumption DEF SetBegin, SlotTaken, InScope,
     AllThreadIds, Live, Scopes, Concerned, manager, caller, history, Clean, TypeOK,
     CallTrue, SlotsUnique, Spreading, Spread, InHand, Record
<1> QED BY <1>2, <1>3 DEF SpreadInv

LEMMA ArmOneKeepsSpread ==
  ASSUME RecordsInv, SpreadInv, NEW t \in Threads, ArmOne(t)
  PROVE  SpreadInv'
<1> SUFFICES ASSUME ~raised' PROVE SpreadInv'
  BY DEF SpreadInv
<1>1. /\ TypeOK /\ CallTrue /\ SlotsUnique /\ cleared \cup botched \subseteq 1..bp_counter
      /\ Spreading /\ ~raised
      /\ \A k \in DOMAIN breakpoints \ (cleared \cup botched \cup InHand) : Spread(k)
  BY DEF RecordsInv, SpreadInv, ArmOne
<1>2. Spreading'
  BY <1>1, ThreadAssumption, BoundAssumption, AddrAssumption DEF ArmOne, Live, Concerned,
     manager, caller, history, Clean, TypeOK, CallTrue, Spreading, Record
<1>3. ASSUME NEW k \in (DOMAIN breakpoints \ (cleared \cup botched \cup InHand))' PROVE Spread(k)'
  BY <1>1, <1>3, ThreadAssumption, BoundAssumption DEF ArmOne, Live, Concerned, manager,
     caller, history, Clean, TypeOK, CallTrue, SlotsUnique, Spreading, Spread, InHand,
     Record
<1> QED BY <1>2, <1>3 DEF SpreadInv

LEMMA ArmFailsKeepsSpread ==
  ASSUME RecordsInv, SpreadInv, NEW t \in Threads, ArmFails(t)
  PROVE  SpreadInv'
<1> SUFFICES ASSUME ~raised' PROVE SpreadInv'
  BY DEF SpreadInv
<1>1. /\ TypeOK /\ CallTrue /\ SlotsUnique /\ cleared \cup botched \subseteq 1..bp_counter
      /\ Spreading /\ ~raised
      /\ \A k \in DOMAIN breakpoints \ (cleared \cup botched \cup InHand) : Spread(k)
  BY DEF RecordsInv, SpreadInv, ArmFails
<1>2. Spreading'
  BY <1>1, ThreadAssumption, BoundAssumption, AddrAssumption DEF ArmFails, RollbackSet,
     Live, Concerned, manager, caller, history, Clean, TypeOK, CallTrue, Spreading, Record
<1>3. ASSUME NEW k \in (DOMAIN breakpoints \ (cleared \cup botched \cup InHand))' PROVE Spread(k)'
  BY <1>1, <1>3, ThreadAssumption, BoundAssumption DEF ArmFails, RollbackSet, Live,
     Concerned, manager, caller, history, Clean, TypeOK, CallTrue, SlotsUnique, Spreading,
     Spread, InHand, Record
<1> QED BY <1>2, <1>3 DEF SpreadInv

LEMMA RollbackOneKeepsSpread ==
  ASSUME RecordsInv, SpreadInv, NEW t \in Threads, RollbackOne(t)
  PROVE  SpreadInv'
<1> SUFFICES ASSUME ~raised' PROVE SpreadInv'
  BY DEF SpreadInv
<1>1. /\ TypeOK /\ CallTrue /\ SlotsUnique /\ cleared \cup botched \subseteq 1..bp_counter
      /\ Spreading /\ ~raised
      /\ \A k \in DOMAIN breakpoints \ (cleared \cup botched \cup InHand) : Spread(k)
  BY DEF RecordsInv, SpreadInv, RollbackOne
<1>2. Spreading'
  BY <1>1, ThreadAssumption, BoundAssumption, AddrAssumption DEF RollbackOne, Live,
     Concerned, manager, caller, history, Clean, TypeOK, CallTrue, Spreading, Record
<1>3. ASSUME NEW k \in (DOMAIN breakpoints \ (cleared \cup botched \cup InHand))' PROVE Spread(k)'
  <2>1. /\ Live' = Live /\ posted' = posted /\ InHand = {}
        /\ UNCHANGED <<breakpoints, cleared, botched, op>>
    BY DEF RollbackOne, Live, InHand, manager, history
  <2>2. Spread(k) /\ k \in DOMAIN breakpoints /\ breakpoints[k].slot # bp.slot
    BY <1>1, <1>3, <2>1 DEF RollbackOne, InHand, CallTrue
  <2>3. breakpoints[k].slot \in Slots /\ bp.slot \in Slots
    BY <1>1, <2>2 DEF TypeOK, Record
  <2>4. \A u \in Threads : dr'[u][breakpoints[k].slot] = dr[u][breakpoints[k].slot]
    BY <1>1, <2>2, <2>3 DEF RollbackOne, TypeOK
  <2> QED BY <2>1, <2>2, <2>4 DEF Spread, Live
<1> QED BY <1>2, <1>3 DEF SpreadInv

LEMMA RollbackDoneKeepsSpread ==
  ASSUME RecordsInv, SpreadInv, RollbackDone
  PROVE  SpreadInv'
<1> SUFFICES ASSUME ~raised' PROVE SpreadInv'
  BY DEF SpreadInv
<1>1. /\ TypeOK /\ CallTrue /\ SlotsUnique /\ cleared \cup botched \subseteq 1..bp_counter
      /\ Spreading /\ ~raised
      /\ \A k \in DOMAIN breakpoints \ (cleared \cup botched \cup InHand) : Spread(k)
  BY DEF RecordsInv, SpreadInv, RollbackDone
<1>2. Spreading'
  BY <1>1, ThreadAssumption, BoundAssumption, AddrAssumption DEF RollbackDone, Live,
     Concerned, manager, caller, history, Clean, TypeOK, CallTrue, Spreading, Record
<1>3. ASSUME NEW k \in (DOMAIN breakpoints \ (cleared \cup botched \cup InHand))' PROVE Spread(k)'
  BY <1>1, <1>3, ThreadAssumption, BoundAssumption DEF RollbackDone, Live, Concerned,
     manager, caller, history, Clean, TypeOK, CallTrue, SlotsUnique, Spreading, Spread,
     InHand, Record
<1> QED BY <1>2, <1>3 DEF SpreadInv

LEMMA SetDoneKeepsSpread ==
  ASSUME RecordsInv, SpreadInv, SetDone
  PROVE  SpreadInv'
<1> SUFFICES ASSUME ~raised' PROVE SpreadInv'
  BY DEF SpreadInv
<1>1. /\ TypeOK /\ CallTrue /\ SlotsUnique /\ cleared \cup botched \subseteq 1..bp_counter
      /\ Spreading /\ ~raised
      /\ \A k \in DOMAIN breakpoints \ (cleared \cup botched \cup InHand) : Spread(k)
  BY DEF RecordsInv, SpreadInv, SetDone
<1>2. Spreading'
  BY <1>1, ThreadAssumption, BoundAssumption, AddrAssumption DEF SetDone, Live, Concerned,
     manager, caller, history, Clean, TypeOK, CallTrue, Spreading, Record
<1>3. ASSUME NEW k \in (DOMAIN breakpoints \ (cleared \cup botched \cup InHand))' PROVE Spread(k)'
  BY <1>1, <1>3, ThreadAssumption, BoundAssumption DEF SetDone, Live, Concerned, manager,
     caller, history, Clean, TypeOK, CallTrue, SlotsUnique, Spreading, Spread, InHand,
     Record
<1> QED BY <1>2, <1>3 DEF SpreadInv

LEMMA RemoveBeginKeepsSpread ==
  ASSUME RecordsInv, SpreadInv, NEW i \in Ids, RemoveBegin(i)
  PROVE  SpreadInv'
<1> SUFFICES ASSUME ~raised' PROVE SpreadInv'
  BY DEF SpreadInv
<1>1. /\ TypeOK /\ CallTrue /\ SlotsUnique /\ cleared \cup botched \subseteq 1..bp_counter
      /\ Spreading /\ ~raised
      /\ \A k \in DOMAIN breakpoints \ (cleared \cup botched \cup InHand) : Spread(k)
  BY DEF RecordsInv, SpreadInv, RemoveBegin
<1>2. Spreading'
  BY <1>1, ThreadAssumption, BoundAssumption, AddrAssumption DEF RemoveBegin, InScope,
     AllThreadIds, Live, Concerned, manager, caller, history, Clean, TypeOK, CallTrue,
     Spreading, Record
<1>3. ASSUME NEW k \in (DOMAIN breakpoints \ (cleared \cup botched \cup InHand))' PROVE Spread(k)'
  BY <1>1, <1>3, ThreadAssumption, BoundAssumption DEF RemoveBegin, InScope, AllThreadIds,
     Live, Concerned, manager, caller, history, Clean, TypeOK, CallTrue, SlotsUnique,
     Spreading, Spread, InHand, Record
<1> QED BY <1>2, <1>3 DEF SpreadInv

LEMMA ClearBeginKeepsSpread ==
  ASSUME RecordsInv, SpreadInv, NEW slot \in Slots, ClearBegin(slot)
  PROVE  SpreadInv'
<1> SUFFICES ASSUME ~raised' PROVE SpreadInv'
  BY DEF SpreadInv
<1>1. /\ TypeOK /\ CallTrue /\ SlotsUnique /\ cleared \cup botched \subseteq 1..bp_counter
      /\ Spreading /\ ~raised
      /\ \A k \in DOMAIN breakpoints \ (cleared \cup botched \cup InHand) : Spread(k)
  BY DEF RecordsInv, SpreadInv, ClearBegin
<1>2. Spreading'
  BY <1>1, ThreadAssumption, BoundAssumption, AddrAssumption DEF ClearBegin, InScope,
     AllThreadIds, Live, Concerned, manager, caller, history, Clean, TypeOK, CallTrue,
     Spreading, Record
<1>3. ASSUME NEW k \in (DOMAIN breakpoints \ (cleared \cup botched \cup InHand))' PROVE Spread(k)'
  BY <1>1, <1>3, ThreadAssumption, BoundAssumption DEF ClearBegin, InScope, AllThreadIds,
     Live, Concerned, manager, caller, history, Clean, TypeOK, CallTrue, SlotsUnique,
     Spreading, Spread, InHand, Record
<1> QED BY <1>2, <1>3 DEF SpreadInv

LEMMA DisarmOneKeepsSpread ==
  ASSUME RecordsInv, SpreadInv, NEW t \in Threads, DisarmOne(t)
  PROVE  SpreadInv'
<1> SUFFICES ASSUME ~raised' PROVE SpreadInv'
  BY DEF SpreadInv
<1>1. /\ TypeOK /\ CallTrue /\ SlotsUnique /\ cleared \cup botched \subseteq 1..bp_counter
      /\ Spreading /\ ~raised
      /\ \A k \in DOMAIN breakpoints \ (cleared \cup botched \cup InHand) : Spread(k)
  BY DEF RecordsInv, SpreadInv, DisarmOne
<1>2. Spreading'
  BY <1>1, ThreadAssumption, BoundAssumption, AddrAssumption DEF DisarmOne, Live, Concerned,
     manager, caller, history, Clean, TypeOK, CallTrue, Spreading, Record
<1>3. ASSUME NEW k \in (DOMAIN breakpoints \ (cleared \cup botched \cup InHand))' PROVE Spread(k)'
  BY <1>1, <1>3, ThreadAssumption, BoundAssumption DEF DisarmOne, Live, Concerned, manager,
     caller, history, Clean, TypeOK, CallTrue, SlotsUnique, Spreading, Spread, InHand,
     Record
<1> QED BY <1>2, <1>3 DEF SpreadInv

LEMMA DisarmFailsKeepsSpread ==
  ASSUME RecordsInv, SpreadInv, NEW t \in Threads, DisarmFails(t)
  PROVE  SpreadInv'
<1> SUFFICES ASSUME ~raised' PROVE SpreadInv'
  BY DEF SpreadInv
<1>1. /\ TypeOK /\ CallTrue /\ SlotsUnique /\ cleared \cup botched \subseteq 1..bp_counter
      /\ Spreading /\ ~raised
      /\ \A k \in DOMAIN breakpoints \ (cleared \cup botched \cup InHand) : Spread(k)
  BY DEF RecordsInv, SpreadInv, DisarmFails
<1>2. Spreading'
  BY <1>1, ThreadAssumption, BoundAssumption, AddrAssumption DEF DisarmFails, Concerned,
     Live, manager, caller, history, Clean, TypeOK, CallTrue, Spreading, Record
<1>3. ASSUME NEW k \in (DOMAIN breakpoints \ (cleared \cup botched \cup InHand))' PROVE Spread(k)'
  BY <1>1, <1>3, ThreadAssumption, BoundAssumption DEF DisarmFails, Concerned, Live,
     manager, caller, history, Clean, TypeOK, CallTrue, SlotsUnique, Spreading, Spread,
     InHand, Record
<1> QED BY <1>2, <1>3 DEF SpreadInv

LEMMA DisarmDoneKeepsSpread ==
  ASSUME RecordsInv, SpreadInv, DisarmDone
  PROVE  SpreadInv'
<1> SUFFICES ASSUME ~raised' PROVE SpreadInv'
  BY DEF SpreadInv
<1>1. /\ TypeOK /\ CallTrue /\ SlotsUnique /\ cleared \cup botched \subseteq 1..bp_counter
      /\ Spreading /\ ~raised
      /\ \A k \in DOMAIN breakpoints \ (cleared \cup botched \cup InHand) : Spread(k)
  BY DEF RecordsInv, SpreadInv, DisarmDone
<1>2. Spreading'
  BY <1>1, ThreadAssumption, BoundAssumption, AddrAssumption DEF DisarmDone, Concerned,
     Live, manager, caller, history, Clean, TypeOK, CallTrue, Spreading, Record
<1>3. ASSUME NEW k \in (DOMAIN breakpoints \ (cleared \cup botched \cup InHand))' PROVE Spread(k)'
  BY <1>1, <1>3, ThreadAssumption, BoundAssumption DEF DisarmDone, Concerned, Live, manager,
     caller, history, Clean, TypeOK, CallTrue, SlotsUnique, Spreading, Spread, InHand,
     Record
<1> QED BY <1>2, <1>3 DEF SpreadInv

LEMMA SpreadStep ==
  ASSUME Concurrent = FALSE
  PROVE  RecordsInv /\ SpreadInv /\ [Next]_vars => SpreadInv'
<1> SUFFICES ASSUME RecordsInv, SpreadInv, [Next]_vars PROVE SpreadInv'
  OBVIOUS
<1>1. CASE TargetStep
  BY <1>1, CreateThreadKeepsSpread, EndThreadKeepsSpread DEF TargetStep
<1>2. CASE LoopStep
  BY <1>2, ThreadCreatedKeepsSpread, ReplicationFailsKeepsSpread, OtherEventKeepsSpread,
     ContinueKeepsSpread
  DEF LoopStep
<1>3. CASE CallStep
  BY <1>3, SetBeginKeepsSpread, ArmOneKeepsSpread, ArmFailsKeepsSpread, RollbackOneKeepsSpread,
     RollbackDoneKeepsSpread, SetDoneKeepsSpread, RemoveBeginKeepsSpread, ClearBeginKeepsSpread,
     DisarmOneKeepsSpread, DisarmFailsKeepsSpread, DisarmDoneKeepsSpread DEF CallStep
<1>4. CASE UNCHANGED vars
  BY <1>4 DEF vars, manager, caller, history, SpreadInv, Spreading, Spread, InHand,
     Concerned, Live
<1> QED BY <1>1, <1>2, <1>3, <1>4 DEF Next

(* Every thread, the ones created at any time included, has the registers  *)
(* of all process-wide breakpoints armed once its creation was handled.    *)
THEOREM ThreadsAreArmed ==
  ASSUME Concurrent = FALSE
  PROVE  Spec => []ArmedEverywhere
<1>1. Init => RecordsInv /\ SpreadInv
  BY RecordsInit, SpreadInit
<1>2. RecordsInv /\ SpreadInv /\ [Next]_vars => (RecordsInv /\ SpreadInv)'
  BY RecordsStep, SpreadStep
<1>3. SpreadInv => ArmedEverywhere
  BY DEF SpreadInv, Spread, InHand, ArmedEverywhere
<1> QED BY <1>1, <1>2, <1>3, PTL DEF Spec

=============================================================================
