------------------------------ MODULE ValueSets ------------------------------
(***************************************************************************)
(* What a fixed address can hold (analysis/values.py): the set of values   *)
(* its decoded writers give, joined with others and narrowed by guards, one*)
(* operation of the client per step.                                       *)
(*                                                                         *)
(* Writers are RVAs; their descriptions are left out.  A value set carries *)
(* its writers as a set, the code as a tuple in decode order.              *)
(***************************************************************************)
EXTENDS StaticAnalyzer, FiniteSetsExt

CONSTANTS
    Addresses,   \* asked about
    Supplied,    \* the value sets a client joins to the answer
    MaxSteps     \* joins and narrowings of one answer

\* None, or the answer held by the client, and what it is an answer about:
\* [at, set, held, missing, steps]
VARIABLE answer

ASSUME OperandAssumption ==
    \A im \in Images : \A rva \in DOMAIN im.code : LET i == im.code[rva] IN
        /\ i.op \in {"mov", "lea", "add", "cmp"} => Len(i.ops) = 2
        /\ is_indirect_branch(i) => Len(i.ops) = 1
        /\ \A n \in DOMAIN i.ops : /\ i.ops[n].kind \in {"imm", "reg", "mem"}
                                   /\ i.ops[n].kind = "imm" => i.ops[n].value \in Int

-----------------------------------------------------------------------------
(* The lattice                                                             *)

Decided == {"NONE", "SET", "RANGE"}
is_decided(v) == v.kind \in Decided

EMPTY == [kind |-> "NONE", values |-> {}, lo |-> None, hi |-> None, writers |-> {},
          unmodeled |-> {}, parts |-> {}, unresolved |-> 0]
of_value(v, rva)   == [EMPTY EXCEPT !.kind = "SET", !.values = {v}, !.writers = {rva}]
of_range(lo, hi)   == [EMPTY EXCEPT !.kind = "RANGE", !.lo = lo, !.hi = hi]
of_unmodeled(rvas) == [EMPTY EXCEPT !.kind = "UNMODELED", !.unmodeled = rvas]
unbounded(rvas)    == [EMPTY EXCEPT !.kind = "UNBOUNDED", !.writers = rvas]

may_contain(v, x) ==
    \/ ~is_decided(v)
    \/ v.kind = "SET" /\ x \in v.values
    \/ v.kind = "RANGE" /\ v.lo <= x /\ x <= v.hi

\* What the constructors see to
ASSUME SuppliedAssumption ==
    \A v \in Supplied : /\ v.kind = "SET" => v.values \subseteq Int
                        /\ v.kind = "RANGE" => v.lo \in Int /\ v.hi \in Int
                        /\ is_decided(v) => v.unmodeled = {}

\* Mutant of joined_kind: a value outside the interval does not count.
swallow(v, w) ==
    LET kinds == {v.kind, w.kind} IN
    IF "UNMODELED" \in kinds THEN "UNMODELED"
    ELSE IF "UNBOUNDED" \in kinds THEN "UNBOUNDED"
    ELSE IF v.kind = w.kind THEN v.kind
    ELSE IF kinds = {"SET", "RANGE"} THEN "RANGE" ELSE "UNREPRESENTABLE"

\* The form of a join.  A set and an interval make an interval only if it holds
\* every value of the set.
joined_kind(v, w) ==
    LET kinds == {v.kind, w.kind} IN
    IF "UNMODELED" \in kinds THEN "UNMODELED"
    ELSE IF "UNBOUNDED" \in kinds THEN "UNBOUNDED"
    ELSE IF v.kind = w.kind THEN v.kind
    ELSE IF kinds = {"SET", "RANGE"} /\ \A x \in v.values \cup w.values : may_contain(
                IF v.kind = "RANGE" THEN v ELSE w, x) THEN "RANGE"
    ELSE "UNREPRESENTABLE"

widen(v, w) ==
    IF w.kind = "NONE" THEN v
    ELSE IF v.kind = "NONE" THEN w
    ELSE LET kind   == joined_kind(v, w)
             ranges == {u \in {v, w} : u.kind = "RANGE"}
             single == {u \in {v, w} : u.kind # "UNREPRESENTABLE"}
         IN [kind       |-> kind,
             values     |-> IF kind = "SET" THEN v.values \cup w.values ELSE {},
             lo         |-> IF kind = "RANGE" THEN Min({u.lo : u \in ranges}) ELSE None,
             hi         |-> IF kind = "RANGE" THEN Max({u.hi : u \in ranges}) ELSE None,
             writers    |-> v.writers \cup w.writers,
             unmodeled  |-> v.unmodeled \cup w.unmodeled,
             parts      |-> v.parts \cup w.parts \cup (IF kind = "UNREPRESENTABLE" THEN single ELSE {}),
             unresolved |-> v.unresolved + w.unresolved]

-----------------------------------------------------------------------------
(* The writers of an address                                               *)

\* The memory operand an instruction writes, or None
stored_operand(i) ==
    IF i.op \in {"mov", "add"} /\ i.ops[1].kind = "mem" THEN i.ops[1] ELSE None

Stores(rva, a) ==
    LET i == decoded_at(rva)
    IN stored_operand(i) # None /\ memory_address(rva, i, stored_operand(i)) = a

\* A plain store of an immediate is modelled; a store of a register, or one the
\* old value has a part in, is not.
write_of(rva) ==
    LET i == decoded_at(rva)
    IN IF i.op = "mov" /\ i.ops[2].kind = "imm" THEN of_value(i.ops[2].value, rva)
       ELSE of_unmodeled({rva})

indirect_call_sites == {s.rva : s \in {s \in indirect_sites : s.is_call}}

writes_to(a) == {write_of(rva) : rva \in {r \in DOMAIN size_at : Stores(r, a)}}
                    \cup {of_unmodeled({rva}) : rva \in indirect_call_sites}

unresolved_write_count ==
    Cardinality({rva \in DOMAIN size_at : stored_operand(decoded_at(rva)) # None /\ Stores(rva, None)})

\* The writers are sets of one value and unmodelled ones: of those, the order
\* they are joined in makes no difference.
value_set_of(a) ==
    [FoldSet(widen, EMPTY, writes_to(a)) EXCEPT !.unresolved = unresolved_write_count]

-----------------------------------------------------------------------------
(* Guards                                                                  *)

\* What falling through a conditional jump says of the value compared with k
fallthrough_bounds(op, k) ==
    CASE op = "ja"  -> [lo |-> None, hi |-> k]
      [] op = "jae" -> [lo |-> None, hi |-> k - 1]
      [] op = "jb"  -> [lo |-> k, hi |-> None]
      [] op = "jbe" -> [lo |-> k + 1, hi |-> None]

CmpsOf(a) ==
    {rva \in DOMAIN size_at :
        LET i == decoded_at(rva) IN
        /\ i.op = "cmp" /\ i.ops[2].kind = "imm"
        /\ \E o \in Operands(i) : o.kind = "mem" /\ memory_address(rva, i, o) = a}

\* [at, next, lo, hi] of the guards of an address
guards_of(a) ==
    LET after(rva) == rva + size_at[rva]
        jumps == {rva \in CmpsOf(a) : decoded_at(after(rva)) # None /\ is_cond(decoded_at(after(rva)))}
        Guard(rva) == LET j == decoded_at(after(rva))
                          b == fallthrough_bounds(j.op, decoded_at(rva).ops[2].value)
                      IN [at |-> rva, next |-> after(rva) + j.size, lo |-> b.lo, hi |-> b.hi]
    IN {Guard(rva) : rva \in jumps}

\* Each guard follows the fallthrough of the one before it.
is_chain(guards) ==
    /\ guards # {}
    /\ \A g \in guards :
          \/ \A p \in guards : g.at <= p.at
          \/ \E p \in guards : p.next = g.at /\ ~\E q \in guards : p.at < q.at /\ q.at < g.at

\* The base set inside the bounds of the guards
narrow(base, guards) ==
    LET lows  == {g.lo : g \in guards} \ {None}
        highs == {g.hi : g \in guards} \ {None}
        kept  == {x \in base.values : (\A k \in lows : k <= x) /\ (\A k \in highs : x <= k)}
        lo    == Max(lows \cup {base.lo})
        hi    == Min(highs \cup {base.hi})
        writers == base.writers \cup {g.at : g \in guards}
    IN CASE base.kind = "SET" -> [EMPTY EXCEPT !.kind = "SET", !.values = kept, !.writers = writers]
         [] base.kind = "RANGE" /\ hi < lo -> [EMPTY EXCEPT !.unresolved = base.unresolved]
         [] base.kind = "RANGE" /\ lo <= hi -> [of_range(lo, hi) EXCEPT !.writers = writers]
         [] base.kind \notin {"SET", "RANGE"} -> base

narrow_by_guards(a, base) == IF is_chain(guards_of(a)) THEN narrow(base, guards_of(a)) ELSE base

-----------------------------------------------------------------------------
(* The client                                                              *)

\* History: what is possible and which writers nobody modelled, as the
\* instructions themselves say.
Value == 0..9
Meaning(v) == {x \in Value : may_contain(v, x)}

\* The values a store can put there
PutBy(rva) ==
    LET i == decoded_at(rva)
    IN IF i.op = "mov" /\ i.ops[2].kind = "imm" THEN {i.ops[2].value} ELSE Value

StoresTo(a) == {rva \in DOMAIN claimed : Stores(rva, a)}

Held(a) == (UNION {PutBy(rva) : rva \in StoresTo(a)}) \cup {x \in Value : indirect_call_sites # {}}

Missing(a) ==
    indirect_call_sites \cup
        {rva \in StoresTo(a) : LET i == decoded_at(rva) IN i.op = "add" \/ i.ops[2].kind # "imm"}

AskValues(a) ==
    /\ phase = "done" /\ answer = None
    /\ answer' = [at |-> a, set |-> value_set_of(a), held |-> Held(a), steps |-> 0,
                  missing |-> Missing(a)]
    /\ UNCHANGED avars

Widen(v) ==
    /\ answer # None /\ answer.steps < MaxSteps
    /\ answer' = [answer EXCEPT !.set = widen(@, v), !.held = @ \cup Meaning(v),
                                !.missing = @ \cup v.unmodeled, !.steps = @ + 1]
    /\ UNCHANGED avars

\* What a guard's conditional jump does not take
Passes(g, x) == (g.lo = None \/ g.lo <= x) /\ (g.hi = None \/ x <= g.hi)

\* Asking for the instruction behind a comparison, the decoder remembers it.
Narrow ==
    /\ answer # None /\ answer.steps < MaxSteps
    /\ answer' = [answer EXCEPT
           !.set = narrow_by_guards(answer.at, @), !.steps = @ + 1,
           !.held = IF is_decided(answer.set) /\ is_chain(guards_of(answer.at))
                    THEN {x \in @ : \A g \in guards_of(answer.at) : Passes(g, x)} ELSE @]
    /\ LET asked == {rva + size_at[rva] : rva \in CmpsOf(answer.at)}
       IN size_at' = [r \in DOMAIN size_at \cup {r \in asked : decoded_at(r) # None} |->
                         IF r \in asked THEN decoded_at(r).size ELSE size_at[r]]
    /\ UNCHANGED <<given, phase, sweeping, covered, overlap_bytes, undecodable, found, table>>

ValueStep == Narrow \/ (\E a \in Addresses : AskValues(a)) \/ (\E v \in Supplied : Widen(v))

=============================================================================
