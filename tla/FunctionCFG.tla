----------------------------- MODULE FunctionCFG -----------------------------
(***************************************************************************)
(* The control flow graph of one function (analysis/cfg.py), built block   *)
(* by block on a finished analysis.                                        *)
(***************************************************************************)
EXTENDS StaticAnalyzer

CONSTANT MaxBlocks   \* max_blocks

\* None, or the graph: entry, blocks (start -> [instructions, successors]),
\* pending block starts, complete, truncated
VARIABLE cfg

Edge(kind, target) == [kind |-> kind, target |-> target]

\* The graph of the function rva is in
StartCFG(rva) ==
    /\ phase = "done" /\ cfg = None /\ containing(rva) # None
    /\ cfg' = [entry |-> containing(rva), blocks |-> Empty, pending |-> {containing(rva)},
               complete |-> TRUE, truncated |-> FALSE]
    /\ UNCHANGED avars

\* Past the function, where it has an extent at all
PastExtent(a) == extent_of(cfg.entry) # 0 /\ a >= cfg.entry + extent_of(cfg.entry)

Readable(a) == decoded_at(a) # None /\ ~PastExtent(a)

\* The straight line of instructions from a: up to a branch, a return or what
\* cannot be read
straight_line(a) ==
    LET run[r \in 0..(2 * Span)] ==
            IF ~Readable(r) THEN <<>>
            ELSE <<r>> \o IF is_jmp(decoded_at(r)) \/ is_ret(decoded_at(r)) THEN <<>>
                          ELSE run[r + decoded_at(r).size]
    IN run[a]

\* Mutant of successors_of: a conditional jump has its target only.
taken_only(last) ==
    LET i == decoded_at(last) IN
    CASE is_ret(i) -> {Edge("ret", None)}
      [] is_jmp(i) /\ branch_target(i) = None -> {Edge("indirect", None)}
      [] is_jmp(i) /\ branch_target(i) # None -> {Edge("jmp", branch_target(i))}
      [] OTHER -> {Edge("fall", None)}

\* The edges behind the last instruction of a block
successors_of(last) ==
    LET i == decoded_at(last) IN
    CASE is_ret(i) -> {Edge("ret", None)}
      [] is_jmp(i) /\ branch_target(i) = None -> {Edge("indirect", None)}
      [] is_cond(i) /\ branch_target(i) # None ->
             {Edge("jcc", branch_target(i)), Edge("fall", last + i.size)}
      [] i.op = "jmp" /\ branch_target(i) # None -> {Edge("jmp", branch_target(i))}
      [] OTHER -> {Edge("fall", None)}

Block(a) ==
    LET run == straight_line(a)
    IN [instructions |-> run,
        successors |-> IF run = <<>> THEN {Edge("fall", None)} ELSE successors_of(run[Len(run)])]

unknown_edges(b) == {e \in b.successors : e.target = None /\ e.kind # "ret"}

\* The decoder remembers what it was asked for: the instructions of the block,
\* and the one it stopped before.
AskedFor(a, b) ==
    LET run == {b.instructions[n] : n \in DOMAIN b.instructions}
        asked == {r \in {a} \cup run \cup {r + decoded_at(r).size : r \in {r \in run :
                             ~is_jmp(decoded_at(r)) /\ ~is_ret(decoded_at(r))}} :
                    decoded_at(r) # None}
    IN size_at' = [r \in DOMAIN size_at \cup asked |-> IF r \in asked THEN decoded_at(r).size
                                                       ELSE size_at[r]]

BuildBlock ==
    /\ cfg # None /\ Cardinality(DOMAIN cfg.blocks) < MaxBlocks
    /\ \E a \in cfg.pending :
          LET b == Block(a) IN
          /\ cfg' = [cfg EXCEPT
                 !.blocks = Put(@, a, b),
                 !.pending = (@ \cup {e.target : e \in b.successors})
                                 \ (DOMAIN cfg.blocks \cup {a, None}),
                 !.complete = @ /\ unknown_edges(b) = {}]
          /\ AskedFor(a, b)
    /\ UNCHANGED <<given, phase, sweeping, covered, overlap_bytes, undecodable, found, table>>

BlockLimit ==
    /\ cfg # None /\ cfg.pending # {} /\ Cardinality(DOMAIN cfg.blocks) >= MaxBlocks
    /\ cfg' = [cfg EXCEPT !.pending = {}, !.complete = FALSE, !.truncated = TRUE]
    /\ UNCHANGED avars

CFGStep == BuildBlock \/ BlockLimit \/ \E rva \in starts : StartCFG(rva)

unresolved == UNION {unknown_edges(cfg.blocks[a]) : a \in DOMAIN cfg.blocks}

=============================================================================
