------------------------ MODULE DebugRegistersProofs ------------------------
(***************************************************************************)
(* That setting and clearing a debug register, call by call, is giving and *)
(* taking one slot as a whole (ThreadRegisters), for every set of slots,   *)
(* whichever system call fails and however far the thread runs meanwhile.  *)
(***************************************************************************)
EXTENDS DebugRegisters, TLAPS

-----------------------------------------------------------------------------
(* Bits                                                                    *)

LEMMA Patterns ==
  /\ BitsOf(0) = {} /\ BitsOf(1) = {0} /\ BitsOf(2) = {1} /\ BitsOf(3) = {0, 1}
  /\ BitsOf(15) = 0..3
<1>1. 2^0 = 1 /\ 2^1 = 2 /\ 2^2 = 4 /\ 2^3 = 8
  BY SMT
<1>2. ASSUME NEW n \in Nat, NEW i
      PROVE  i \in BitsOf(n) <=> \/ i = 0 /\ n % 2 = 1
                                 \/ i = 1 /\ (n \div 2) % 2 = 1
                                 \/ i = 2 /\ (n \div 4) % 2 = 1
                                 \/ i = 3 /\ (n \div 8) % 2 = 1
  <2>1. i \in BitsOf(n) <=> i \in {0, 1, 2, 3} /\ (n \div 2^i) % 2 = 1
    BY DEF BitsOf
  <2>2. n \div 1 = n
    OBVIOUS
  <2>3. CASE i = 0
    BY <1>1, <2>1, <2>2, <2>3
  <2>4. CASE i = 1
    BY <1>1, <2>1, <2>4
  <2>5. CASE i = 2
    BY <1>1, <2>1, <2>5
  <2>6. CASE i = 3
    BY <1>1, <2>1, <2>6
  <2> QED BY <2>1, <2>3, <2>4, <2>5, <2>6
<1>3. ASSUME NEW n \in {0, 1, 2, 3, 15}, NEW i
      PROVE  i \in BitsOf(n) <=> \/ i = 0 /\ n \in {1, 3, 15}
                                 \/ i = 1 /\ n \in {2, 3, 15}
                                 \/ i \in {2, 3} /\ n = 15
  BY <1>2
<1> QED BY <1>3

LEMMA CodesAre ==
  /\ DOMAIN CondBits = {"x", "w", "rw"} /\ DOMAIN LenBits = {1, 2, 4, 8}
  /\ CondBits["x"] = 0 /\ CondBits["w"] = 1 /\ CondBits["rw"] = 3
  /\ LenBits[1] = 0 /\ LenBits[2] = 1 /\ LenBits[4] = 3 /\ LenBits[8] = 2
BY DEF CondBits, LenBits

(* No two conditions, and no two lengths, share their two bits.            *)
LEMMA CodesTell ==
  /\ \A c \in DOMAIN CondBits : BitsOf(CondBits[c]) \subseteq 0..1
  /\ \A c, d \in DOMAIN CondBits : BitsOf(CondBits[c]) = BitsOf(CondBits[d]) => c = d
  /\ \A l \in DOMAIN LenBits : BitsOf(LenBits[l]) \subseteq 0..1
  /\ \A l, m \in DOMAIN LenBits : BitsOf(LenBits[l]) = BitsOf(LenBits[m]) => l = m
BY CodesAre, Patterns

(* Below bit 32 a shift is a shift.                                        *)
LEMMA LowBits ==
  ASSUME NEW n, NEW k \in Nat, NEW b \in 0..31
  PROVE  b \in Shifted(n, k) <=> \E i \in BitsOf(n) : i + k = b
BY DEF Shifted

LEMMA EnableBit ==
  ASSUME NEW slot \in 0..3, NEW b \in 0..31
  PROVE  b \in Enable(slot) <=> b = 2 * slot
<1>1. b \in Enable(slot) <=> \E i \in {0} : i + 2 * slot = b
  <2>1. Enable(slot) = Shifted(1, 2 * slot) /\ 2 * slot \in Nat
    BY DEF Enable
  <2> QED BY <2>1, LowBits, Patterns
<1> QED BY <1>1

LEMMA FieldBits ==
  ASSUME NEW slot \in 0..3, NEW b \in 0..31
  PROVE  b \in Field(slot) <=> b \in (16 + 4 * slot)..(19 + 4 * slot)
<1>1. b \in Field(slot) <=> \E i \in 0..3 : i + (16 + 4 * slot) = b
  <2>1. Field(slot) = Shifted(15, 16 + 4 * slot) /\ 16 + 4 * slot \in Nat
    BY DEF Field
  <2> QED BY <2>1, LowBits, Patterns
<1> QED BY <1>1

LEMMA StoredLow ==
  ASSUME NEW bits, NEW b \in 0..31
  PROVE  b \in Stored(bits) <=> b \in bits
BY DEF Stored

(* The bits a call leaves in Dr7, below bit 32: of the other slots, the    *)
(* enable bit, and the two codes.                                          *)
ArmedBit(b, old, slot, bp) ==
  \/ b \in old /\ b \notin (16 + 4 * slot)..(19 + 4 * slot)
  \/ b = 2 * slot
  \/ \E i \in BitsOf(CondBits[bp.cond]) : i + 16 + 4 * slot = b
  \/ \E i \in BitsOf(LenBits[bp.length]) : i + 18 + 4 * slot = b

LEMMA ArmedBits ==
  ASSUME NEW old, NEW slot \in 0..3, NEW bp \in Breakpoints, NEW b \in 0..31
  PROVE  b \in ArmedDr7(old, slot, bp) <=> ArmedBit(b, old, slot, bp)
<1>1. /\ \A i \in BitsOf(CondBits[bp.cond]) : i \in 0..1
      /\ \A i \in BitsOf(LenBits[bp.length]) : i \in 0..1
  BY CodesTell DEF Breakpoints
<1>2. b \in Shifted(CondBits[bp.cond], 16 + 4 * slot) <=>
        \E i \in BitsOf(CondBits[bp.cond]) : i + 16 + 4 * slot = b
  <2>1. b \in Shifted(CondBits[bp.cond], 16 + 4 * slot) <=>
          \E i \in BitsOf(CondBits[bp.cond]) : i + (16 + 4 * slot) = b
    BY LowBits
  <2> QED BY <1>1, <2>1
<1>3. b \in Shifted(LenBits[bp.length], 18 + 4 * slot) <=>
        \E i \in BitsOf(LenBits[bp.length]) : i + 18 + 4 * slot = b
  <2>1. b \in Shifted(LenBits[bp.length], 18 + 4 * slot) <=>
          \E i \in BitsOf(LenBits[bp.length]) : i + (18 + 4 * slot) = b
    BY LowBits
  <2> QED BY <1>1, <2>1
<1> QED BY <1>2, <1>3, EnableBit, FieldBits, StoredLow DEF ArmedDr7, ArmedBit

LEMMA DisarmedBits ==
  ASSUME NEW old, NEW slot \in 0..3, NEW b \in 0..31
  PROVE  b \in DisarmedDr7(old, slot) <=>
           b \in old /\ b \notin (16 + 4 * slot)..(19 + 4 * slot) /\ b # 2 * slot
BY EnableBit, FieldBits, StoredLow DEF DisarmedDr7

LEMMA BitsStay ==
  /\ \A n, k : Shifted(n, k) \subseteq 0..63
  /\ \A old, slot, bp : old \subseteq 0..63 => ArmedDr7(old, slot, bp) \subseteq 0..63
  /\ \A old, slot : old \subseteq 0..63 => DisarmedDr7(old, slot) \subseteq 0..63
<1>1. \A n, k : Shifted(n, k) \subseteq 0..63
  BY DEF Shifted
<1>2. \A bits : bits \subseteq 0..63 => Stored(bits) \subseteq 0..63
  BY DEF Stored
<1>3. ASSUME NEW old, NEW slot, NEW bp, old \subseteq 0..63
      PROVE  ArmedDr7(old, slot, bp) \subseteq 0..63
  BY <1>1, <1>2, <1>3 DEF ArmedDr7, Enable
<1>4. ASSUME NEW old, NEW slot, old \subseteq 0..63
      PROVE  DisarmedDr7(old, slot) \subseteq 0..63
  BY <1>2, <1>4 DEF DisarmedDr7
<1> QED BY <1>1, <1>3, <1>4

-----------------------------------------------------------------------------
(* What the slots mean to the processor                                    *)

(* The five bits and the address a slot's meaning is read from.            *)
LEMMA MeansFrom ==
  ASSUME NEW s \in Slots, dr'[s] = dr[s],
         \A b \in {2 * s} \cup (16 + 4 * s)..(19 + 4 * s) : b \in dr7' <=> b \in dr7
  PROVE  Means(s)' = Means(s)
<1>1. s \in 0..3
  BY SlotAssumption
<1>2. /\ 2 * s \in dr7' <=> 2 * s \in dr7
      /\ \A i \in 0..1 : 16 + 4 * s + i \in dr7' <=> 16 + 4 * s + i \in dr7
      /\ \A i \in 0..1 : 18 + 4 * s + i \in dr7' <=> 18 + 4 * s + i \in dr7
  BY <1>1
<1>3. /\ {i \in 0..1 : 16 + 4 * s + i \in dr7'} = {i \in 0..1 : 16 + 4 * s + i \in dr7}
      /\ {i \in 0..1 : 18 + 4 * s + i \in dr7'} = {i \in 0..1 : 18 + 4 * s + i \in dr7}
  BY <1>2
<1> QED BY <1>2, <1>3 DEF Means

(* A slot whose bits say bp, and nothing else, means bp.                   *)
LEMMA MeansExactly ==
  ASSUME NEW s \in Slots, NEW bp \in Breakpoints, dr'[s] = bp.addr, 2 * s \in dr7',
         {i \in 0..1 : 16 + 4 * s + i \in dr7'} = BitsOf(CondBits[bp.cond]),
         {i \in 0..1 : 18 + 4 * s + i \in dr7'} = BitsOf(LenBits[bp.length])
  PROVE  Means(s)' = {bp}
<1>1. Means(s)' = {other \in Breakpoints :
                     /\ bp.addr = other.addr
                     /\ BitsOf(CondBits[bp.cond]) = BitsOf(CondBits[other.cond])
                     /\ BitsOf(LenBits[bp.length]) = BitsOf(LenBits[other.length])}
  BY DEF Means
<1>2. ASSUME NEW other \in Breakpoints, bp.addr = other.addr,
             BitsOf(CondBits[bp.cond]) = BitsOf(CondBits[other.cond]),
             BitsOf(LenBits[bp.length]) = BitsOf(LenBits[other.length])
      PROVE  other = bp
  <2>1. bp.cond = other.cond /\ bp.length = other.length
    BY <1>2, CodesTell DEF Breakpoints
  <2> QED BY <1>2, <2>1 DEF Breakpoints
<1> QED BY <1>1, <1>2

LEMMA ArmGives ==
  ASSUME NEW slot \in Slots, NEW bp \in Breakpoints, dr \in [Slots -> Addrs \cup {0}],
         dr' = [dr EXCEPT ![slot] = bp.addr], dr7' = ArmedDr7(dr7, slot, bp)
  PROVE  \A s \in Slots : Means(s)' = IF s = slot THEN {bp} ELSE Means(s)
<1>1. /\ \A i \in BitsOf(CondBits[bp.cond]) : i \in 0..1
      /\ \A i \in BitsOf(LenBits[bp.length]) : i \in 0..1
  BY CodesTell DEF Breakpoints
<1>2. ASSUME NEW b \in 0..31
      PROVE  b \in dr7' <=>
               \/ b \in dr7 /\ b \notin (16 + 4 * slot)..(19 + 4 * slot)
               \/ b = 2 * slot
               \/ \E i \in BitsOf(CondBits[bp.cond]) : i + 16 + 4 * slot = b
               \/ \E i \in BitsOf(LenBits[bp.length]) : i + 18 + 4 * slot = b
  <2>1. slot \in 0..3
    BY SlotAssumption
  <2>2. b \in ArmedDr7(dr7, slot, bp) <=> ArmedBit(b, dr7, slot, bp)
    BY <2>1, ArmedBits
  <2> QED BY <2>2 DEF ArmedBit
<1>3. ASSUME NEW s \in Slots, s # slot PROVE Means(s)' = Means(s)
  <2>1. s \in 0..3 /\ slot \in 0..3
    BY SlotAssumption
  <2>2. ASSUME NEW b \in {2 * s} \cup (16 + 4 * s)..(19 + 4 * s)
        PROVE  /\ b \in 0..31 /\ b \notin (16 + 4 * slot)..(19 + 4 * slot) /\ b # 2 * slot
               /\ \A i \in 0..1 : i + 16 + 4 * slot # b /\ i + 18 + 4 * slot # b
    BY <2>1, <2>2, <1>3
  <2>3. \A b \in {2 * s} \cup (16 + 4 * s)..(19 + 4 * s) : b \in dr7' <=> b \in dr7
    BY <1>1, <1>2, <2>2
  <2> QED BY <1>3, <2>3, MeansFrom
<1>4. Means(slot)' = {bp}
  <2>1. slot \in 0..3
    BY SlotAssumption
  <2>2. 2 * slot \in 0..31
    BY <2>1
  <2>3. 2 * slot \in dr7'
    BY <1>2, <2>2
  <2>4. ASSUME NEW i \in 0..1
        PROVE  /\ 16 + 4 * slot + i \in dr7' <=> i \in BitsOf(CondBits[bp.cond])
               /\ 18 + 4 * slot + i \in dr7' <=> i \in BitsOf(LenBits[bp.length])
    <3>1. /\ 16 + 4 * slot + i \in 0..31 /\ 18 + 4 * slot + i \in 0..31
          /\ 16 + 4 * slot + i \in (16 + 4 * slot)..(19 + 4 * slot)
          /\ 18 + 4 * slot + i \in (16 + 4 * slot)..(19 + 4 * slot)
          /\ 16 + 4 * slot + i # 2 * slot /\ 18 + 4 * slot + i # 2 * slot
      BY <2>1
    <3>2. \A j \in 0..1 : /\ j + 16 + 4 * slot = 16 + 4 * slot + i <=> j = i
                          /\ j + 18 + 4 * slot = 18 + 4 * slot + i <=> j = i
                          /\ j + 18 + 4 * slot # 16 + 4 * slot + i
                          /\ j + 16 + 4 * slot # 18 + 4 * slot + i
      BY <2>1
    <3>3. 16 + 4 * slot + i \in dr7' <=> i \in BitsOf(CondBits[bp.cond])
      BY <1>1, <1>2, <3>1, <3>2
    <3>4. 18 + 4 * slot + i \in dr7' <=> i \in BitsOf(LenBits[bp.length])
      BY <1>1, <1>2, <3>1, <3>2
    <3> QED BY <3>3, <3>4
  <2>5. /\ {i \in 0..1 : 16 + 4 * slot + i \in dr7'} = BitsOf(CondBits[bp.cond])
        /\ {i \in 0..1 : 18 + 4 * slot + i \in dr7'} = BitsOf(LenBits[bp.length])
    BY <1>1, <2>4
  <2> QED BY <2>3, <2>5, MeansExactly
<1> QED BY <1>3, <1>4

LEMMA DisarmTakes ==
  ASSUME NEW slot \in Slots, dr \in [Slots -> Addrs \cup {0}],
         dr' = [dr EXCEPT ![slot] = 0], dr7' = DisarmedDr7(dr7, slot)
  PROVE  \A s \in Slots : Means(s)' = IF s = slot THEN {} ELSE Means(s)
<1>1. ASSUME NEW b \in 0..31
      PROVE  b \in dr7' <=> b \in dr7 /\ b \notin (16 + 4 * slot)..(19 + 4 * slot) /\ b # 2 * slot
  <2>1. slot \in 0..3
    BY SlotAssumption
  <2> QED BY <2>1, DisarmedBits
<1>2. ASSUME NEW s \in Slots, s # slot PROVE Means(s)' = Means(s)
  <2>1. s \in 0..3 /\ slot \in 0..3
    BY SlotAssumption
  <2>2. ASSUME NEW b \in {2 * s} \cup (16 + 4 * s)..(19 + 4 * s)
        PROVE  b \in 0..31 /\ b \notin (16 + 4 * slot)..(19 + 4 * slot) /\ b # 2 * slot
    BY <2>1, <2>2, <1>2
  <2> QED BY <1>1, <1>2, <2>2, MeansFrom
<1>3. Means(slot)' = {}
  <2>1. 2 * slot \in 0..31
    BY SlotAssumption
  <2> QED BY <1>1, <2>1 DEF Means
<1> QED BY <1>2, <1>3

-----------------------------------------------------------------------------
(* The calls                                                               *)

(* Between its system calls a call holds what the thread still has, and    *)
(* a WOW64 thread, whose context is written as a whole, stands still.      *)
Held ==
  /\ suspended = IF stage = "resume" \/ (stage \in {"get", "set"} /\ machine = 32)
                 THEN stuck + 1 ELSE stuck
  /\ stage \in {"suspend", "get", "set"} => call \in Requests
  /\ stage = "suspend" => machine = 32
  /\ stage = "set" => /\ context.dr = dr /\ context.dr7 = dr7
                      /\ machine = 32 => context.at = at

Inv == TypeOK /\ Held

LEMMA InvInit == Init => Inv
BY MachineAssumption, BoundAssumption DEF Init, Inv, TypeOK, Held

LEMMA SetMeans ==
  ASSUME Inv, SetContext
  PROVE  /\ at' = at /\ dr' \in [Slots -> Addrs \cup {0}] /\ dr7' \subseteq 0..63
         /\ \/ \E bp \in Breakpoints :
                  \A s \in Slots : Means(s)' = IF s = call.slot THEN {bp} ELSE Means(s)
            \/ \A s \in Slots : Means(s)' = IF s = call.slot THEN {} ELSE Means(s)
         /\ call.slot \in Slots
<1>1. /\ stage = "set" /\ call \in Requests /\ context.dr = dr /\ context.dr7 = dr7
      /\ machine = 32 => context.at = at
      /\ dr \in [Slots -> Addrs \cup {0}] /\ dr7 \subseteq 0..63
  BY DEF SetContext, Inv, Held, TypeOK
<1>2. call.slot \in Slots /\ call.bp \subseteq Breakpoints
  BY <1>1 DEF Requests
<1>3. at' = at
  BY <1>1 DEF SetContext
<1>4. ASSUME NEW bp \in call.bp, dr' = [context.dr EXCEPT ![call.slot] = bp.addr],
             dr7' = ArmedDr7(context.dr7, call.slot, bp)
      PROVE  /\ dr' \in [Slots -> Addrs \cup {0}] /\ dr7' \subseteq 0..63
             /\ bp \in Breakpoints
             /\ \A s \in Slots : Means(s)' = IF s = call.slot THEN {bp} ELSE Means(s)
  <2>1. bp \in Breakpoints /\ bp.addr \in Addrs
    BY <1>2, <1>4 DEF Breakpoints
  <2> QED BY <1>1, <1>2, <1>4, <2>1, ArmGives, BitsStay
<1>5. ASSUME dr' = [context.dr EXCEPT ![call.slot] = 0],
             dr7' = DisarmedDr7(context.dr7, call.slot)
      PROVE  /\ dr' \in [Slots -> Addrs \cup {0}] /\ dr7' \subseteq 0..63
             /\ \A s \in Slots : Means(s)' = IF s = call.slot THEN {} ELSE Means(s)
  BY <1>1, <1>2, <1>5, DisarmTakes, BitsStay
<1> QED BY <1>2, <1>3, <1>4, <1>5 DEF SetContext

LEMMA InvStep == Inv /\ [Next]_vars => Inv'
<1> SUFFICES ASSUME Inv, [Next]_vars PROVE Inv'
  OBVIOUS
<1> USE BoundAssumption, MachineAssumption
<1>1. CASE UNCHANGED vars
  BY <1>1 DEF vars, thread, Inv, TypeOK, Held
<1>2. CASE Run
  BY <1>2 DEF Run, Inv, TypeOK, Held
<1>3. ASSUME NEW r \in Requests, Begin(r) PROVE Inv'
  BY <1>3 DEF Begin, FirstCall, thread, Inv, TypeOK, Held
<1>4. CASE Suspend \/ SuspendFails
  <2>1. /\ stage = "suspend" /\ machine = 32 /\ suspended = stuck /\ call \in Requests
        /\ stuck \in 0..MaxStuck /\ stuck' = stuck
        /\ UNCHANGED <<machine, at, dr, dr7>>
    BY <1>4 DEF Suspend, SuspendFails, thread, Inv, TypeOK, Held
  <2>2. CASE Suspend
    <3>1. suspended' = stuck + 1 /\ stage' = "get" /\ UNCHANGED <<call, context>>
      BY <2>1, <2>2 DEF Suspend
    <3> QED BY <2>1, <3>1 DEF Inv, TypeOK, Held
  <2>3. CASE SuspendFails
    <3>1. suspended' = stuck /\ stage' = "idle" /\ call' = None /\ context' = None
      BY <2>1, <2>3 DEF SuspendFails, Leave
    <3> QED BY <2>1, <3>1 DEF Inv, TypeOK, Held
  <2> QED BY <1>4, <2>2, <2>3
<1>5. CASE GetContext
  BY <1>5 DEF GetContext, thread, Inv, TypeOK, Held
<1>6. CASE SetContext
  BY <1>6, SetMeans DEF SetContext, Leave, Inv, TypeOK, Held
<1>7. CASE ContextFails
  BY <1>7 DEF ContextFails, Leave, thread, Inv, TypeOK, Held
<1>8. CASE Resume \/ ResumeFails
  <2>1. /\ stage = "resume" /\ suspended = stuck + 1 /\ stuck \in 0..MaxStuck
        /\ stage' = "idle" /\ call' = None /\ context' = None
        /\ UNCHANGED <<machine, at, dr, dr7>>
    BY <1>8 DEF Resume, ResumeFails, Leave, thread, Inv, TypeOK, Held
  <2>2. stuck' \in 0..MaxStuck /\ suspended' = stuck'
    BY <1>8, <2>1 DEF Resume, ResumeFails
  <2> QED BY <2>1, <2>2 DEF Inv, TypeOK, Held
<1> QED BY <1>1, <1>2, <1>3, <1>4, <1>5, <1>6, <1>7, <1>8 DEF Next

LEMMA Invariants == Spec => []Inv
BY InvInit, InvStep, PTL DEF Spec

(* Once a call is over, whatever failed, the thread is suspended only if   *)
(* it could not be resumed.                                                *)
THEOREM CallsLeaveItRunning == Spec => []LeftRunning
<1>1. Inv => LeftRunning
  BY DEF Inv, Held, LeftRunning
<1> QED BY <1>1, Invariants, PTL

LEMMA StepMaps ==
  Inv /\ [Next]_vars => [Registers!Next]_<<at, [s \in Slots |-> Means(s)]>>
<1> SUFFICES ASSUME Inv, [Next]_vars
             PROVE  Registers!Next \/ UNCHANGED <<at, [s \in Slots |-> Means(s)]>>
  OBVIOUS
<1>1. ASSUME UNCHANGED <<dr, dr7>>
      PROVE  [s \in Slots |-> Means(s)]' = [s \in Slots |-> Means(s)]
  BY <1>1 DEF Means
<1>2. CASE Run
  BY <1>1, <1>2 DEF Run, Registers!Next, Registers!Run
<1>3. CASE SetContext
  <2>1. at' = at /\ call.slot \in Slots
    BY <1>3, SetMeans
  <2>2. CASE \E bp \in Breakpoints :
               \A s \in Slots : Means(s)' = IF s = call.slot THEN {bp} ELSE Means(s)
    BY <2>1, <2>2 DEF Registers!Next, Registers!Arm
  <2>3. CASE \A s \in Slots : Means(s)' = IF s = call.slot THEN {} ELSE Means(s)
    BY <2>1, <2>3 DEF Registers!Next, Registers!Disarm
  <2> QED BY <1>3, <2>2, <2>3, SetMeans
<1>4. CASE ~Run /\ ~SetContext
  <2>1. UNCHANGED <<at, dr, dr7>>
    BY <1>4 DEF Next, vars, thread, Begin, Suspend, SuspendFails, GetContext, ContextFails,
       Resume, ResumeFails
  <2> QED BY <1>1, <2>1
<1> QED BY <1>2, <1>3, <1>4

(* Setting and clearing a debug register is giving and taking a slot as a  *)
(* whole, while the thread goes on executing as if nobody looked.          *)
THEOREM RegistersAreSlots == Spec => OneSlotAtATime
<1>1. Init => Registers!Init
  BY DEF Init, Registers!Init, Means
<1> QED BY <1>1, StepMaps, Invariants, PTL DEF Spec, OneSlotAtATime, Registers!Spec

=============================================================================
