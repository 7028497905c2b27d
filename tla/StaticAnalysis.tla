--------------------------- MODULE StaticAnalysis ---------------------------
(***************************************************************************)
(* An analysis run and what is asked of its result: the sweep, then linear *)
(* scans, control flow graphs, value sets and ownership, one question at a *)
(* time.                                                                   *)
(***************************************************************************)
EXTENDS LinearScan, FunctionCFG, ValueSets, Ownership

CONSTANTS
    Overlaps,    \* Overlaps[r]: the registers that share bits with r
    Receivers,   \* the base registers asked about
    MaxBytes     \* limit: bytes a classified range may take

\* History: what a processor that executed the instructions of the sweep under
\* way would hold in its registers; None for what a word that was changed at run
\* time brought, straight or as an address.
VARIABLE actual

Regs   == DOMAIN Overlaps

ASSUME LimitAssumption == MaxBytes \in Nat

ASSUME RegisterAssumption ==
    /\ IsFiniteSet(Regs) /\ None \notin Regs /\ Receivers \subseteq Regs
    /\ \A im \in Images : \A rva \in DOMAIN im.code : LET ops == im.code[rva].ops IN
          \A n \in DOMAIN ops : ops[n].kind = "reg" => ops[n].reg \in Regs

Values == {Base + rva : rva \in {0, Span - 1}}

vars == <<avars, scan, cfg, answer, actual>>

Init == AInit /\ scan = None /\ cfg = None /\ answer = None /\ actual = [r \in Regs |-> Base]

\* An address that depends on a changed word
Strayed(o) == o.kind = "mem" /\ \E r \in {o.base, o.index} \cap Regs : actual[r] = None

\* What an instruction may leave in its registers.  A word of memory is what the
\* image has there, or was changed since; elsewhere anything may be.
Effect(rva, i) ==
    LET dst     == i.ops[1].reg
        o       == i.ops[2]
        address == operand_address(rva, i, o, actual)
        word    == read_pointer(va_to_rva(address))
        Left    == CASE i.op = "mov" /\ o.kind = "imm" -> {o.value}
                     [] i.op \in {"mov", "lea"} /\ o.kind = "mem" ->
                            IF Strayed(o) THEN {None}
                            ELSE IF i.op = "lea" THEN (IF address = None THEN Values ELSE {address})
                            ELSE IF word = None THEN Values ELSE {word, None}
                     [] OTHER -> Values
    IN IF is_call(i) THEN [Regs -> Values]
       ELSE IF Len(i.ops) # 2 \/ i.ops[1].kind # "reg" THEN {actual}
       ELSE {[r \in Regs |-> IF r = dst THEN v ELSE IF r \in Overlaps[dst] THEN x ELSE actual[r]]
               : v \in Left, x \in Values}

Analyse == /\ ANext
           /\ \/ cursor # None /\ actual' \in (IF cursor' = None THEN {actual}
                                               ELSE Effect(cursor.at, decoded_at(cursor.at)))
              \/ cursor = None /\ actual' \in (IF cursor' = None THEN {actual} ELSE [Regs -> Values])
           /\ UNCHANGED <<scan, cfg, answer>>

\* A scan, a graph or a value set: none reads what another leaves behind.
Ask == /\ \/ ScanStep  /\ UNCHANGED <<cfg, answer>>  /\ cfg = None /\ answer = None
          \/ CFGStep   /\ UNCHANGED <<scan, answer>> /\ scan = None /\ answer = None
          \/ ValueStep /\ UNCHANGED <<scan, cfg>>    /\ scan = None /\ cfg = None
       /\ UNCHANGED actual

Next == Analyse \/ Ask

Spec == Init /\ [][Next]_vars /\ WF_vars(Analyse)

-----------------------------------------------------------------------------
(* Properties                                                              *)

Done == phase = "done"

Handled(rva) == rva \in DOMAIN claimed \cup undecodable

\* Whatever the order of the sweeps: a finished run that reports no exhausted
\* budget has followed everything.  Each start and code seed, and whatever
\* control may reach next from a swept instruction, was decoded or is reported
\* undecodable, and what is called is a confident start.
SweepClosed ==
    Done /\ ~budget_exhausted =>
        /\ \A rva \in starts \cup code_seeds : Handled(rva)
        /\ \A rva \in DOMAIN claimed :
              LET i == decoded_at(rva) IN
              /\ i.op \notin {"ret", "jmp"} => Handled(rva + i.size)
              /\ is_exec(branch_target(i)) =>
                    /\ Handled(branch_target(i))
                    /\ is_call(i) => branch_target(i) \in confident

\* Where control goes next in a function, as far as the instructions say, and
\* in the image
Follow(rva) ==
    LET i == decoded_at(rva)
    IN IF i = None THEN {}
       ELSE {rva + i.size : x \in {x \in {i} : x.op \notin {"ret", "jmp"}}}
              \cup {branch_target(i) : x \in {x \in {i} : is_jmp(i) /\ branch_target(i) # None}}

\* The slots from base to the first that holds no code address, however many
TableAt(base) == {base + k * Stride : k \in {k \in 0..Span :
                     \A j \in 0..k : code_pointer(base + j * Stride) # None}}

\* Where an indirect branch through a slot, or a table of them, goes
Through(rva, i, o) ==
    {code_pointer(slot) : slot \in IF is_table_mem(o) THEN TableAt(va_to_rva(o.disp))
                                   ELSE {memory_address(rva, i, o)}} \ {None}

Flow(rva) ==
    LET i == decoded_at(rva)
    IN IF i = None THEN {}
       ELSE Follow(rva) \cup ({branch_target(i)} \ {None})
              \cup IF is_indirect_branch(i) THEN Through(rva, i, i.ops[1]) ELSE {}

\* The result says where an indirect branch goes: through a table that was read
\* to its end, or through a slot with a code address or an import.
Settled(rva, i) ==
    is_indirect_branch(i) =>
        LET o == i.ops[1]
        IN IF is_table_mem(o)
           THEN /\ va_to_rva(o.disp) \in DOMAIN slot_tables
                /\ ~slot_tables[va_to_rva(o.disp)].truncated
           ELSE \/ memory_address(rva, i, o) \in image.iat
                \/ code_pointer(memory_address(rva, i, o)) # None

RVAs    == 0..(Span - 1)
Follows == [rva \in RVAs |-> Follow(rva)]

\* What is reached from S, next[x] being what x leads to
Closure(S, next) ==
    LET last == Cardinality(DOMAIN next)
        grown[n \in 0..last] == IF n = 0 THEN S ELSE
            LET got == grown[n - 1] IN got \cup UNION {next[x] : x \in got \cap DOMAIN next}
    IN grown[last]

\* When "nothing references t" can be relied on: the index has no reference to
\* t, names no class it may miss, and every indirect branch that was swept is
\* settled.  Then no instruction refers to t that control can reach from the
\* seeds by what the instructions and the words of the image say.  An unresolved
\* jump and a truncated table are no gap the index names.
AbsenceIsTrue ==
    Done /\ xref_gaps = {} /\ (\A rva \in DOMAIN claimed : Settled(rva, decoded_at(rva))) =>
        LET reached == Closure(confident_seeds, [rva \in RVAs |-> {x \in Flow(rva) : is_exec(x)}])
        IN \A rva \in reached : decoded_at(rva) # None =>
              \A r \in classify_refs(rva, decoded_at(rva)) :
                  \E x \in xrefs : x.target = r.target /\ x.source = rva

\* What the tracker takes for constant is what the register holds after the same
\* line of instructions, whatever it held when the sweep began and whatever calls
\* leave in it, unless a word of memory it depends on was changed at run time.
ConstantsTrue == cursor # None => \A r \in DOMAIN regs : actual[r] \in {regs[r], None}

ExecSections == {s \in image.sections : s.exec}

\* Coverage counts a byte once, what was claimed again is overlap, and what no
\* instruction claimed is attributed to one cause.
CoverageAccounted ==
    /\ Cardinality(covered) + overlap_bytes = MapThenSumSet(LAMBDA rva : claimed[rva], DOMAIN claimed)
    /\ Done => \A s \in ExecSections :
          LET causes == attribute_coverage(s, Stride)
          IN MapThenSumSet(LAMBDA k : causes[k], DOMAIN causes)
                + Cardinality(covered \cap s.start..(s.end - 1)) = s.end - s.start

\* A function starts inside an instruction of three or more bytes, or such an
\* instruction lies across bytes no section has.
Straddled ==
    \E rva \in DOMAIN size_at : size_at[rva] > 2 /\
        \E b \in (rva + 1)..(rva + size_at[rva] - 1) : b \in starts \/ ~is_mapped(b)

CountedByteForByte(start, end) ==
    LET r     == classify_range(start, end, MaxBytes)
        owner == [b \in start..(end - 1) |-> owner_of(b)] IN
        /\ \A k \in OwnerKinds :
              r.bytes[k] = Cardinality({b \in start..(start + r.scanned - 1) : owner[b].kind = k})
        /\ is_fully_owned(r) => \A b \in start..(end - 1) : owner[b].owner # None

\* No function runs into the next one, and a swept address has an owner when
\* any function is before it. The counts of a range are what asking for each of
\* its bytes gives, as long as no function starts inside a long instruction, and
\* a range that is fully owned has no byte without a function.
OwnersTrue ==
    Done =>
        /\ \A s, s2 \in starts : s < s2 => s + extent_of(s) <= s2
        /\ \A rva \in DOMAIN claimed : containing(rva) # None =>
              owner_of(rva).kind \in {"start", "body"} /\ function_of(rva) = containing(rva)
        /\ ~Straddled => \A r \in Ranges : CountedByteForByte(r.start, r.end)

\* What is_fully_owned() says of itself: every byte is a function's start or in
\* its body.
FullyOwnedIsCode ==
    Done => \A range \in Ranges :
        LET r == classify_range(range.start, range.end, MaxBytes)
        IN is_fully_owned(r) => r.bytes["gap"] = 0

\* Whose value before the instruction at p reg has behind it: its own, that of
\* the register a move copies, or none before it
Copied(p, reg) ==
    LET i == decoded_at(p)
    IN IF ~is_call(i) /\ written_register(i) # reg THEN {reg}
       ELSE IF i.op = "mov" /\ i.ops[2].kind = "reg" THEN {i.ops[2].reg} ELSE {}

\* A register before an instruction, back to registers before those of body
\* that lead to it
Back(body) ==
    [q \in RVAs \X Regs |-> UNION {{<<p, r>> : r \in Copied(p, q[2])} : p \in {p \in body : q[1] \in Follow(p)}}]

\* Where the value reg has before rva may come from: the instructions that give
\* it on some way from the function's start, moves between registers followed
\* back, or None for what the register held at the start
Origins(owner, rva, reg) ==
    LET body  == Closure({owner}, Follows)
        asked == Closure({<<rva, reg>>}, Back(body))
    IN {p \in body : \E q \in asked : q[1] \in Follow(p) /\ Copied(p, q[2]) = {}}
         \cup {None : q \in {q \in asked : q[1] = owner}}

\* Control comes from owner to rva, nothing but the line itself leads into the
\* line between them, and all of it was decoded.
OneWayIn(owner, rva) ==
    LET body == Closure({owner}, Follows) IN
    /\ rva \in body
    /\ \A p \in body :
          /\ p \in owner..(rva - 1) => is_decoded(p)
          /\ \A x \in Follow(p) : x \in owner..rva => x = p + decoded_at(p).size /\ owner <= p

\* A receiver that is called determined is: on every way to the access, its
\* value comes from the instruction named.
ReceiverOnEveryPath ==
    Done => \A rva \in DOMAIN claimed : \A reg \in Receivers :
        LET note == receiver_of(rva, reg)
        IN determined(note) => Origins(function_of(rva), rva, reg) = {note.source}

\* The same where the line is the only way.
ReceiverTrue ==
    Done => \A rva \in DOMAIN claimed : \A reg \in Receivers :
        LET note == receiver_of(rva, reg)
        IN determined(note) /\ OneWayIn(function_of(rva), rva) =>
              Origins(function_of(rva), rva, reg) = {note.source}

\* A value set that decides admits every value a swept instruction may have put
\* at its address, whatever it was joined with, and none is decided while a
\* writer is not modelled; those writers stay named.
ValuesSound ==
    answer # None =>
        /\ \A x \in answer.held : may_contain(answer.set, x)
        /\ answer.missing \subseteq answer.set.unmodeled
        /\ is_decided(answer.set) => answer.missing = {}

\* A scan accounts for every byte it passed, as part of one instruction or of
\* one gap; it is complete just when the instructions from its start lead to its
\* end; and the stretches it warns of hold just the instructions that do not
\* follow from its start.
ScanTells ==
    scan # None /\ scan.range.start <= scan.range.end =>
        /\ covered_by_scan \cup undecodable_runs = scan.range.start..(scan.at - 1)
        /\ covered_by_scan \cap undecodable_runs = {}
        /\ MapThenSumSet(LAMBDA rva : decoded_at(rva).size, scan.decoded) = Cardinality(covered_by_scan)
        /\ LET leads == Closure({scan.range.start}, [rva \in RVAs |->
                            IF decoded_at(rva) = None THEN {} ELSE {rva + decoded_at(rva).size}])
           IN scan.over =>
                /\ is_complete <=> ~scan.truncated /\ scan.range.end \in leads
                /\ \A rva \in scan.decoded :
                      rva \notin leads <=> \E run \in unproven_runs : run.start <= rva /\ rva < run.end

\* A graph that calls itself complete shows every way through the function, and
\* one that does not names an unknown edge or stopped at its limit.
GraphTrue ==
    cfg # None /\ cfg.pending = {} =>
        /\ cfg.complete <=> unresolved = {} /\ ~cfg.truncated
        /\ cfg.complete =>
              \A rva \in Closure({cfg.entry}, Follows) :
                  \E a \in DOMAIN cfg.blocks : \E n \in DOMAIN cfg.blocks[a].instructions :
                      /\ cfg.blocks[a].instructions[n] = rva
                      /\ \A next \in Follow(rva) :
                            IF n < Len(cfg.blocks[a].instructions)
                            THEN cfg.blocks[a].instructions[n + 1] = next
                            ELSE \E e \in cfg.blocks[a].successors : e.target = next

\* The analysis of any image ends.
AnalysisEnds == <>Done

\* Asking about an image does not change it: what is decoded stays what the
\* sweep decoded.
AskingChangesNothing == [][Done => size_at' = size_at]_vars

=============================================================================
