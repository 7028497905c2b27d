--------------------------- MODULE StaticAnalyzer ---------------------------
(***************************************************************************)
(* The sweep of the static analysis: seeds.py, engine.py and decoder.py.   *)
(*                                                                         *)
(* Seeds are queued, and from each the sweep follows control flow forward, *)
(* instruction by instruction, until it returns, jumps, meets what is      *)
(* decoded already or will not decode.  What the instructions call, jump   *)
(* to and refer to is queued in turn.                                      *)
(*                                                                         *)
(* The queue is a set here: what is shown holds for every order, the       *)
(* code's first-in first-out order among them.  Which seed class an        *)
(* overlap is charged to is left out.                                      *)
(***************************************************************************)
EXTENDS FunctionTable

CONSTANTS
    Configs,     \* SeedConfig: the records of the runs
    MaxEntries   \* max_entries: slots read of one jump table

SeedClasses == {"entry_point", "exports", "tls_callbacks", "exception_table",
                "relocation_pointers", "data_pointers"}

ASSUME ConfigAssumption ==
    /\ MaxEntries \in Nat
    /\ None \notin [at : Int, left : Int]
    /\ \A c \in Configs : /\ c.max_instructions \in Nat \ {0}
                          /\ c.max_total_instructions \in Nat
                          /\ c.collect_xrefs \in BOOLEAN
                          /\ c.seed_classes \subseteq SeedClasses
                          /\ c.max_data_pointers \in Nat

VARIABLES
    config,
    phase,           \* "seed", "sweep", then "done": the result is out
    pending, queued, \* _pending and _queued
    cursor,          \* the sweep under way: [at, left], or None
    regs,            \* its ConstantTracker
    budget_left, budget_exhausted,
    size_at,         \* the decoder's: size_at[rva] of what it decoded at rva
    covered, overlap_bytes,
    undecodable, xrefs, indirect_sites, import_thunks, slot_tables

given    == <<image, config>>
sweeping == <<pending, queued, cursor, regs, budget_left, budget_exhausted>>
decoding == <<size_at, covered, overlap_bytes, undecodable>>
found    == <<xrefs, indirect_sites, import_thunks, slot_tables>>
avars    == <<given, phase, sweeping, decoding, found, table>>

Empty == [x \in {} |-> None]

AInit ==
    /\ image \in Images /\ config \in Configs
    /\ phase = "seed"
    /\ pending = {} /\ queued = {} /\ cursor = None /\ regs = NoRegs
    /\ budget_left = config.max_total_instructions /\ budget_exhausted = FALSE
    /\ size_at = Empty /\ covered = {} /\ overlap_bytes = 0 /\ undecodable = {}
    /\ xrefs = {} /\ indirect_sites = {} /\ import_thunks = {} /\ slot_tables = Empty
    /\ starts = {} /\ confident = {} /\ code_seeds = {} /\ claimed = Empty

-----------------------------------------------------------------------------
(* Seeds                                                                   *)

is_decoded(rva) == rva \in DOMAIN size_at

\* rva is strictly inside an instruction of sizes and starts none.
inside_instruction(sizes, rva) ==
    rva \notin DOMAIN sizes /\ \E s \in DOMAIN sizes : s < rva /\ rva < s + sizes[s]

looks_like_entry(sizes, rva) ==
    /\ ~inside_instruction(sizes, rva)
    /\ \/ \E s \in section_of(rva) : rva = s.start
       \/ rva - 1 \in image.pad

Class(name, rvas) == IF name \in config.seed_classes THEN rvas ELSE {}

\* What exports, TLS callbacks (VAs) and the exception table name, and the
\* entry point
confident_seeds ==
    LET named == Class("entry_point", {image.entry}) \cup Class("exports", image.exports)
                   \cup Class("tls_callbacks", {va_to_rva(va) : va \in image.tls})
                   \cup Class("exception_table", image.pdata)
    IN {rva \in named : is_exec(rva)}

names_code(slot) == code_pointer(slot) # None /\ looks_like_entry(Empty, code_pointer(slot))

relocation_slots == Class("relocation_pointers", {slot \in image.relocs : names_code(slot)})

\* The aligned slots of the data sections that hold what looks like an entry
data_hits ==
    {slot \in UNION {s.start..(s.end - Stride) : s \in {s \in image.sections : ~s.exec}} :
        /\ \A s \in section_of(slot) : (slot - s.start) % Stride = 0
        /\ names_code(slot)}
data_slots == Class("data_pointers",
    {slot \in data_hits : LET before == Cardinality({x \in data_hits : x < slot})
                          IN before = 0 \/ before < config.max_data_pointers})
data_truncated == "data_pointers" \in config.seed_classes /\ data_hits # {}
                    /\ Cardinality(data_hits) >= config.max_data_pointers

pointer_slots == relocation_slots \cup data_slots

DataRef(slot) == [target |-> code_pointer(slot), source |-> slot, kind |-> "DATA"]

Seed ==
    /\ phase = "seed" /\ phase' = "sweep"
    /\ xrefs' = IF config.collect_xrefs THEN {DataRef(slot) : slot \in pointer_slots} ELSE {}
    /\ starts' = confident_seeds /\ confident' = confident_seeds
    /\ code_seeds' = {code_pointer(slot) : slot \in pointer_slots}
    /\ pending' = confident_seeds \cup code_seeds' /\ queued' = pending'
    /\ UNCHANGED <<given, cursor, regs, budget_left, budget_exhausted, decoding,
                   indirect_sites, import_thunks, slot_tables, claimed>>

-----------------------------------------------------------------------------
(* The sweep                                                               *)

\* Mutant of Sweep: the seed stays in the queue.
SweepFirst(rva) ==
    /\ phase = "sweep" /\ cursor = None /\ rva \in pending /\ budget_left > 0
    /\ cursor' = [at |-> rva, left |-> config.max_instructions] /\ regs' = NoRegs
    /\ UNCHANGED <<given, phase, pending, queued, budget_left, budget_exhausted, decoding, found, table>>

Sweep(rva) ==
    /\ phase = "sweep" /\ cursor = None /\ rva \in pending /\ budget_left > 0
    /\ pending' = pending \ {rva}
    /\ cursor' = [at |-> rva, left |-> IF config.max_instructions < budget_left
                                       THEN config.max_instructions ELSE budget_left]
    /\ regs' = NoRegs
    /\ UNCHANGED <<given, phase, queued, budget_left, budget_exhausted, decoding, found, table>>

\* The ceiling of the whole run is reached with work left.
GiveUp ==
    /\ phase = "sweep" /\ cursor = None /\ pending # {} /\ budget_left <= 0
    /\ pending' = {} /\ budget_exhausted' = TRUE
    /\ UNCHANGED <<given, phase, queued, cursor, regs, budget_left, decoding, found, table>>

StopAtDecoded ==
    /\ cursor # None /\ is_decoded(cursor.at)
    /\ cursor' = None
    /\ UNCHANGED <<given, phase, pending, queued, regs, budget_left, budget_exhausted,
                   decoding, found, table>>

StopAtUndecodable ==
    /\ cursor # None /\ ~is_decoded(cursor.at) /\ decoded_at(cursor.at) = None
    /\ undecodable' = undecodable \cup {cursor.at}
    /\ cursor' = None
    /\ UNCHANGED <<given, phase, pending, queued, regs, budget_left, budget_exhausted,
                   size_at, covered, overlap_bytes, found, table>>

Put(f, k, v) == [x \in DOMAIN f \cup {k} |-> IF x = k THEN v ELSE f[x]]

\* The slots of the jump table at base: consecutive, each with a code address
table_slots(base) ==
    {base + k * Stride : k \in {k \in 0..(MaxEntries - 1) :
        \A j \in 0..k : code_pointer(base + j * Stride) # None}}

\* The tables the instruction indexes, or jumps through
table_bases(rva, i) ==
    {r.target : r \in {r \in classify_refs(rva, i) : r.kind = "TABLE"}}
      \cup IF is_jmp(i) THEN {memory_address(rva, i, o) : o \in Operands(i)} \ {None} ELSE {}

\* Mutant of SlotTable: a table cut at max_entries passes for one that ended.
never_truncated(rva, base) ==
    [count |-> Cardinality(table_slots(base)), referrer |-> rva, truncated |-> FALSE]

SlotTable(rva, base) == [count |-> Cardinality(table_slots(base)), referrer |-> rva,
                         truncated |-> Cardinality(table_slots(base)) = MaxEntries]

\* A known table stands unless the new reading is longer.
absorb_tables(rva, bases) ==
    LET read == {b \in bases : table_slots(b) # {}}
        Stands(b) == b \in DOMAIN slot_tables
                       /\ slot_tables[b].count >= Cardinality(table_slots(b))
    IN [b \in DOMAIN slot_tables \cup read |->
           IF b \notin read \/ Stands(b) THEN slot_tables[b] ELSE SlotTable(rva, b)]

is_thunk(rva, i) == is_jmp(i) /\ \E o \in Operands(i) : memory_address(rva, i, o) \in image.iat

\* Mutant of continues: a conditional jump ends the path.
only_plain(i)    == ~is_jmp(i) /\ ~is_ret(i)
continues(i)     == ~ends_path(i)

\* Mutant of mark_covered: every claim counts.
count_all(rva, i) ==
    /\ covered' = covered \cup rva..(rva + i.size - 1)
    /\ overlap_bytes' = overlap_bytes

mark_covered(rva, i) ==
    LET bytes == {b \in rva..(rva + i.size - 1) : b < Span} IN
    /\ covered' = covered \cup bytes
    /\ overlap_bytes' = overlap_bytes + Cardinality(bytes \cap covered)

Advance(rva, i) ==
    /\ budget_left' = budget_left - 1
    /\ budget_exhausted' = (budget_exhausted \/ cursor.left = 1)
    /\ cursor' = IF continues(i) /\ cursor.left > 1
                 THEN [at |-> rva + i.size, left |-> cursor.left - 1] ELSE None

\* What becomes of the code addresses an instruction names: immediates are
\* tentative starts, called addresses confident ones, jump targets tentative
\* if they look like an entry; table entries, the targets of resolved indirect
\* jumps and all other jump targets are code seeds.
Decode ==
    /\ cursor # None /\ ~is_decoded(cursor.at) /\ decoded_at(cursor.at) # None
    /\ LET rva      == cursor.at
           i        == decoded_at(rva)
           refs     == IF config.collect_xrefs THEN classify_refs(rva, i) ELSE {}
           bases    == IF config.collect_xrefs THEN table_bases(rva, i) ELSE {}
           entries  == UNION {table_slots(b) : b \in bases}
           direct   == branch_target(i)
           indirect == direct = None /\ is_indirect_branch(i)
           resolved == IF indirect THEN resolve_branch(rva, i, regs) ELSE None
           target   == IF indirect THEN resolved ELSE direct
           called   == {t \in {target} : is_call(i) /\ is_exec(t)}
           jumped   == {t \in {target} : ~is_call(i) /\ is_exec(t)}
           entered  == {t \in jumped : ~indirect /\ looks_like_entry(size_at', t)}
           named    == {r.target : r \in {r \in refs : r.kind = "IMM" /\ is_exec(r.target)}}
           cases    == {code_pointer(slot) : slot \in entries} \cup (jumped \ entered)
           thunk    == {t \in {rva} : config.collect_xrefs /\ is_thunk(rva, i)}
           fresh    == (called \cup entered \cup named \cup cases) \ queued
       IN /\ size_at' = Put(size_at, rva, i.size)
          /\ claimed' = Put(claimed, rva, i.size)
          /\ mark_covered(rva, i)
          /\ xrefs' = xrefs \cup {[target |-> r.target, source |-> rva, kind |-> r.kind] : r \in refs}
                        \cup {DataRef(slot) : slot \in entries}
                        \cup {[target |-> t, source |-> rva, kind |-> "BRANCH"] : t \in {resolved} \ {None}}
          /\ slot_tables' = absorb_tables(rva, bases)
          /\ indirect_sites' = IF indirect /\ resolved = None
                               THEN indirect_sites \cup {[rva |-> rva, is_call |-> is_call(i)]}
                               ELSE indirect_sites
          /\ import_thunks' = import_thunks \cup thunk
          /\ starts' = starts \cup called \cup entered \cup named \cup thunk
          /\ confident' = confident \cup called \cup thunk
          /\ code_seeds' = code_seeds \cup cases
          /\ queued' = queued \cup fresh /\ pending' = pending \cup fresh
          /\ regs' = observe(rva, i, regs)
          /\ Advance(rva, i)
    /\ UNCHANGED <<given, phase, undecodable>>

Finish ==
    /\ phase = "sweep" /\ cursor = None /\ pending = {}
    /\ phase' = "done"
    /\ prune_starts_inside_functions
    /\ UNCHANGED <<given, sweeping, decoding, found, confident, claimed>>

\* The classes of reference the index may lack
xref_gaps ==
    IF ~config.collect_xrefs THEN {"off"}
    ELSE ({"data_pointers", "relocation_pointers"} \ config.seed_classes)
           \cup (IF data_truncated THEN {"truncated"} ELSE {})
           \cup (IF budget_exhausted THEN {"budget"} ELSE {})

ANext == \/ Seed \/ GiveUp \/ StopAtDecoded \/ StopAtUndecodable \/ Decode \/ Finish
         \/ \E rva \in pending : Sweep(rva)

ASpec == AInit /\ [][ANext]_avars

=============================================================================
