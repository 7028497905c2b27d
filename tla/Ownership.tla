------------------------------ MODULE Ownership ------------------------------
(***************************************************************************)
(* What an address and a base register belong to (analysis/owners.py), and *)
(* what the uncovered bytes are (analysis/attribution.py): questions about *)
(* a finished analysis that change nothing.                                *)
(***************************************************************************)
EXTENDS StaticAnalyzer, SequencesExt

-----------------------------------------------------------------------------
(* Boundaries                                                              *)

Covering(rva) == {s \in DOMAIN size_at : s < rva /\ rva < s + size_at[s]}

\* The instruction whose bytes include rva: the nearest start before it
enclosing_instruction(rva) ==
    IF Covering(rva) = {} THEN None ELSE CHOOSE s \in Covering(rva) : \A x \in Covering(rva) : x <= s

\* What the decode has at rva: [kind, start, size]
boundary_of(rva) ==
    LET s == enclosing_instruction(rva)
    IN CASE is_mapped(rva) /\ is_decoded(rva) ->
                [kind |-> "instruction_start", start |-> rva, size |-> size_at[rva]]
         [] is_mapped(rva) /\ ~is_decoded(rva) /\ s # None ->
                [kind |-> "instruction_interior", start |-> s, size |-> size_at[s]]
         [] ~is_mapped(rva) \/ (~is_decoded(rva) /\ s = None) ->
                [kind |-> "never_decoded", start |-> None, size |-> 0]

\* Mutant of chunk: an instruction is taken whole whoever owns its last byte.
whole_chunk(rva, end, left) ==
    Max({1, Min({end - rva, left, IF is_decoded(rva) /\ is_mapped(rva) THEN size_at[rva] ELSE 1})})

\* The bytes classify_range takes at once: an instruction, if the first and the
\* last have owners of one kind
chunk(rva, end, left) ==
    LET b   == boundary_of(rva)
        run == Max({1, Min({end - rva, left, IF b.kind = "instruction_start" THEN b.size ELSE 1})})
    IN IF owner_of(rva + run - 1).kind = owner_of(rva).kind THEN run ELSE 1

\* The chunks of [start, end), at most limit bytes of it, in order
chunks(start, end, limit) ==
    LET walk[rva \in start..Max({start, end})] ==
            IF rva >= end \/ rva - start >= limit THEN <<>>
            ELSE LET run == chunk(rva, end, limit - (rva - start))
                 IN <<[run |-> run, kind |-> owner_of(rva).kind, boundary |-> boundary_of(rva).kind,
                       at |-> rva]>> \o walk[rva + run]
    IN walk[start]

\* Byte counts of a range by owner and by boundary
classify_range(start, end, limit) ==
    LET taken == Range(chunks(start, end, limit))
        Bytes(S) == MapThenSumSet(LAMBDA c : c.run, S)
    IN [bytes      |-> [k \in OwnerKinds |-> Bytes({c \in taken : c.kind = k})],
        boundaries |-> [k \in {"instruction_start", "instruction_interior", "never_decoded"} |->
                           Bytes({c \in taken : c.boundary = k})],
        starts     |-> Cardinality({c \in taken : is_decoded(c.at)}),
        scanned    |-> Bytes(taken),
        truncated  |-> Bytes(taken) < end - start]

is_fully_owned(r) == ~r.truncated /\ \A k \in OwnerKinds \ OwnedKinds : r.bytes[k] = 0

\* The slot table that covers rva and the slot, None for a byte inside one
container_of(rva) ==
    LET bases == {b \in DOMAIN slot_tables : b <= rva /\ rva < b + slot_tables[b].count * Stride}
        base  == CHOOSE b \in bases : \A x \in bases : b <= x
    IN IF bases = {} THEN None
       ELSE [base |-> base, index |-> IF (rva - base) % Stride = 0 THEN (rva - base) \div Stride ELSE None]

-----------------------------------------------------------------------------
(* Receivers                                                               *)

StackRegs       == {"esp", "ebp"}
DeterminedFacts == {"constant", "loaded_from_slot", "loaded_from_stack", "returned_by_call"}

Fact(fact, source) == [fact |-> fact, source |-> source]

\* The register an instruction writes, or None
written_register(i) ==
    IF i.op \in {"mov", "lea", "add"} /\ i.ops[1].kind = "reg" THEN i.ops[1].reg ELSE None

\* Mutant of written_by: what is added to a register keeps what it held.
keep_on_update(i, rva, facts) ==
    IF i.op = "add" /\ i.ops[1].reg \in DOMAIN facts THEN facts[i.ops[1].reg] ELSE Fact("constant", rva)

\* What an instruction puts in the register it writes, facts known before it
written_by(i, rva, facts) ==
    LET from == i.ops[2] IN
    CASE i.op = "add" -> Fact("unknown", rva)
      [] i.op = "lea" -> Fact(IF from.base = None /\ from.index = None THEN "constant" ELSE "unknown", rva)
      [] i.op = "mov" /\ from.kind = "imm" -> Fact("constant", rva)
      [] i.op = "mov" /\ from.kind = "reg" ->
             IF from.reg \in DOMAIN facts /\ facts[from.reg].fact # "unknown" THEN facts[from.reg]
             ELSE Fact("moved_from_register", rva)
      [] i.op = "mov" /\ from.kind = "mem" ->
             Fact(IF from.base \in StackRegs THEN "loaded_from_stack" ELSE "loaded_from_slot", rva)

\* The decoded instructions from start up to stop, holes skipped
line_to(start, stop) ==
    LET line[rva \in start..(stop + Span)] ==
            IF rva >= stop THEN <<>>
            ELSE IF is_decoded(rva) THEN <<rva>> \o line[rva + size_at[rva]] ELSE line[rva + 1]
    IN line[start]

\* The facts after the instruction at rva
apply(facts, rva) ==
    LET i == decoded_at(rva) IN
    IF is_call(i) THEN [r \in {"eax"} |-> Fact("returned_by_call", rva)]
    ELSE IF written_register(i) = None THEN facts
    ELSE Put(facts, written_register(i), written_by(i, rva, facts))

\* Where reg at rva came from, along the line from the function's start
receiver_of(rva, reg) ==
    LET owner  == function_of(rva)
        line   == line_to(owner, rva)
        facts  == FoldLeft(apply, Empty, line)
        breaks == owner = None \/ \E n \in DOMAIN line :
                      LET i == decoded_at(line[n]) IN is_jmp(i) \/ is_ret(i)
    IN IF breaks \/ reg \notin DOMAIN facts THEN Fact("unknown", None) ELSE facts[reg]

determined(note) == note.fact \in DeterminedFacts

-----------------------------------------------------------------------------
(* Uncovered bytes                                                         *)

\* Something points there as data.
DataReferenced == {x.target : x \in {x \in xrefs : x.kind \in {"MEM", "IMM", "TABLE"}}}

\* Maximal runs of a section no instruction claimed
uncovered_runs(s) ==
    LET open == (s.start..(s.end - 1)) \ covered
    IN {[start |-> ab[1], end |-> ab[2]] : ab \in
           {ab \in open \X ((s.start + 1)..s.end) :
               /\ ab[1] < ab[2] /\ ab[1]..(ab[2] - 1) \subseteq open
               /\ ab[1] - 1 \notin open /\ ab[2] \notin open}}

\* At least half of two or more slots hold addresses of the image.
looks_like_pointer_array(run) ==
    LET slots == {a \in run.start..(run.end - Stride) : (a - run.start) % Stride = 0}
    IN Cardinality(slots) >= 2
         /\ 2 * Cardinality({a \in slots : va_to_rva(read_pointer(a)) # None}) >= Cardinality(slots)

\* The run decodes to nine tenths or more and has a branch.
decodes_as_code(run) ==
    LET line[rva \in run.start..run.end] ==
            IF decoded_at(rva) = None \/ rva + decoded_at(rva).size > run.end THEN {}
            ELSE {rva} \cup line[rva + decoded_at(rva).size]
        insns == {decoded_at(rva) : rva \in line[run.start]}
    IN /\ \E i \in insns : is_call(i) \/ is_jmp(i) \/ is_ret(i)
       /\ 10 * MapThenSumSet(LAMBDA rva : decoded_at(rva).size, line[run.start])
            >= 9 * (run.end - run.start)

\* Bytes that only fill: those that may precede a function, but for returns
Filler == {rva \in image.pad : decoded_at(rva) = None \/ ~is_ret(decoded_at(rva))}

classify_run(run, MinRun) ==
    LET bytes == run.start..(run.end - 1) IN
    IF run.end - run.start < MinRun THEN "unknown"
    ELSE IF bytes \subseteq Filler THEN "padding"
    ELSE IF bytes \cap DataReferenced # {} \/ looks_like_pointer_array(run) THEN "data"
    ELSE IF decodes_as_code(run) THEN "code" ELSE "unknown"

attribute_coverage(s, MinRun) ==
    [k \in {"padding", "data", "code", "unknown"} |->
        MapThenSumSet(LAMBDA run : run.end - run.start,
                      {run \in uncovered_runs(s) : classify_run(run, MinRun) = k})]

=============================================================================
