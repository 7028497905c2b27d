---------------------------- MODULE AnalyzedImage ----------------------------
(***************************************************************************)
(* A PE image as the static analysis sees it (analysis/image.py, refs.py   *)
(* and consts.py): sections, what decodes at each RVA, the pointers its    *)
(* words hold, the addresses its tables name, and what one instruction     *)
(* refers to.  Addresses in instructions and words are VAs, everything     *)
(* else is an RVA.                                                         *)
(*                                                                         *)
(* Bytes are not modelled: an image says what the disassembler makes of    *)
(* the bytes at every RVA, misaligned ones included.  Segment overrides    *)
(* are left out.                                                           *)
(***************************************************************************)
EXTENDS Integers, FiniteSets, Sequences

CONSTANTS
    None,     \* no address, no instruction
    Base,     \* image_base
    Stride,   \* slot_size: bytes of a pointer
    Images    \* the images analysed: records of the shape below

\* sections: [start, end, exec] each, apart; code: the instruction that decodes
\* at an RVA; words: the value a pointer-sized read returns; pad: RVAs whose
\* byte may precede a function; entry .. relocs: what the PE directories name;
\* iat: the slots of the import address table.
VARIABLE image

ASSUME AddressAssumption == Base \in Nat /\ Stride \in Nat \ {0} /\ None \notin Int

ASSUME ImageAssumption ==
    \A im \in Images :
        /\ IsFiniteSet(im.sections) /\ im.sections # {}
        /\ \A s \in im.sections : s.start \in Nat /\ s.end \in Nat /\ s.start < s.end
        /\ \A rva \in DOMAIN im.code :
              LET i == im.code[rva] IN /\ i.size \in Nat \ {0} /\ DOMAIN i.ops = 1..Len(i.ops)
                                    /\ \E s \in im.sections : rva + i.size <= s.end
        /\ None \notin DOMAIN im.words

-----------------------------------------------------------------------------
(* Geometry and reads                                                      *)

section_of(rva) == {s \in image.sections : s.start <= rva /\ rva < s.end}
is_mapped(rva)  == rva \in Int /\ section_of(rva) # {}
is_exec(rva)    == rva \in Int /\ \E s \in section_of(rva) : s.exec

Span == CHOOSE e \in {s.end : s \in image.sections} : \A s \in image.sections : s.end <= e

va_to_rva(va) == IF va \in Base..(Base + Span - 1) THEN va - Base ELSE None

read_pointer(rva) == IF rva \in DOMAIN image.words THEN image.words[rva] ELSE None

\* The code address the slot at rva holds
code_pointer(rva) == LET t == va_to_rva(read_pointer(rva))
                     IN IF is_exec(t) THEN t ELSE None

decoded_at(rva) == IF is_mapped(rva) /\ rva \in DOMAIN image.code THEN image.code[rva]
                   ELSE None

-----------------------------------------------------------------------------
(* Instructions: [op, size, ops]                                           *)

Imm(v)         == [kind |-> "imm", value |-> v]
Reg(r)         == [kind |-> "reg", reg |-> r]
Mem(b, x, d)   == [kind |-> "mem", base |-> b, index |-> x, disp |-> d]
Insn(op, size, ops) == [op |-> op, size |-> size, ops |-> ops]

Conditional == {"ja", "jae", "jb", "jbe"}
is_call(i)  == i.op = "call"
is_cond(i)  == i.op \in Conditional
is_jmp(i)   == i.op = "jmp" \/ is_cond(i)
is_ret(i)   == i.op = "ret"
ends_path(i) == is_ret(i) \/ i.op = "jmp"

Operands(i) == {i.ops[n] : n \in DOMAIN i.ops}
is_table_mem(o) == o.kind = "mem" /\ o.base = None /\ o.index # None

\* The VA an operand names by what is in the encoding
address_without_registers(rva, i, o) ==
    CASE o.kind # "mem"                                 -> None
      [] o.kind = "mem" /\ o.index # None               -> None
      [] o.kind = "mem" /\ o.index = None /\ o.base = "rip" -> Base + rva + i.size + o.disp
      [] o.kind = "mem" /\ o.index = None /\ o.base = None /\ o.disp # 0 -> o.disp
      [] OTHER                                          -> None

memory_address(rva, i, o) == va_to_rva(address_without_registers(rva, i, o))

\* The references an instruction makes
classify_refs(rva, i) ==
    LET Ref(o) == IF o.kind = "imm" THEN [target |-> va_to_rva(o.value),
                                          kind |-> IF is_call(i) \/ is_jmp(i) THEN "BRANCH" ELSE "IMM"]
                  ELSE IF is_table_mem(o) THEN [target |-> va_to_rva(o.disp), kind |-> "TABLE"]
                  ELSE [target |-> memory_address(rva, i, o), kind |-> "MEM"]
    IN {r \in {Ref(o) : o \in Operands(i)} : r.target # None}

branch_target(i) ==
    IF (is_call(i) \/ is_jmp(i)) /\ i.ops[1].kind = "imm" THEN va_to_rva(i.ops[1].value) ELSE None

is_indirect_branch(i) == (is_call(i) \/ is_jmp(i)) /\ \A o \in Operands(i) : o.kind # "imm"

-----------------------------------------------------------------------------
(* Constant propagation: regs holds the registers whose value is known     *)

operand_address(rva, i, o, regs) ==
    LET fixed == address_without_registers(rva, i, o) IN
    IF fixed # None \/ o.kind # "mem" THEN fixed
    ELSE IF o.index = None /\ o.base \in DOMAIN regs THEN regs[o.base] + o.disp
    ELSE IF o.base = None /\ o.index \in DOMAIN regs THEN regs[o.index] * Stride + o.disp
    ELSE None

\* What the instruction is known to leave in its destination, or None
produced_constant(rva, i, regs) ==
    IF Len(i.ops) # 2 \/ i.op \notin {"mov", "lea"} \/ i.ops[1].kind # "reg" THEN None
    ELSE LET address == operand_address(rva, i, i.ops[2], regs) IN
         CASE i.op = "mov" /\ i.ops[2].kind = "imm"   -> i.ops[2].value
           [] i.op = "lea"                            -> address
           [] OTHER                                   -> read_pointer(va_to_rva(address))

NoRegs == [r \in {} |-> None]

\* Mutant of observe: what is not recognised is stepped over.
observe_leniently(rva, i, regs) ==
    LET v == produced_constant(rva, i, regs) IN
    IF v = None THEN regs
    ELSE [r \in DOMAIN regs \cup {i.ops[1].reg} |-> IF r = i.ops[1].reg THEN v ELSE regs[r]]

observe(rva, i, regs) ==
    LET v == produced_constant(rva, i, regs) IN
    IF v = None THEN NoRegs
    ELSE [r \in DOMAIN regs \cup {i.ops[1].reg} |-> IF r = i.ops[1].reg THEN v ELSE regs[r]]

\* The code address an indirect branch leads to, or None
resolve_branch(rva, i, regs) ==
    LET Target(o) == code_pointer(va_to_rva(operand_address(rva, i, o, regs)))
        found == {Target(o) : o \in {o \in Operands(i) : o.kind = "mem"}} \ {None}
    IN IF found = {} THEN None ELSE CHOOSE t \in found : TRUE

=============================================================================
