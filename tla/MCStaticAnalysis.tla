-------------------------- MODULE MCStaticAnalysis --------------------------
(* Small images for TLC: .text at 0..5, .data at 8..11 with two slots.     *)
EXTENDS StaticAnalysis, TLC

va(rva) == Base + rva
nop(n)  == Insn("nop", n, <<>>)
ret     == Insn("ret", 1, <<>>)
bad     == Insn("bad", 1, <<>>)     \* nothing decodes
call(o) == Insn("call", 1, <<o>>)
jmp(o)  == Insn("jmp", 1, <<o>>)
mov(o)  == Insn("mov", 1, <<Reg("eax"), o>>)

Texts ==
    {(0 :> a) @@ (1 :> b) @@ (2 :> c) @@ (3 :> d) @@ (4 :> e) @@ (5 :> f) :
        a \in {Insn("call", 2, <<Imm(va(4))>>), Insn("ja", 2, <<Imm(va(3))>>), mov(Mem(None, None, va(8)))},
        b \in {nop(1), bad, mov(Imm(va(8)))},
        <<c, d>> \in ({nop(2)} \X {ret, call(Imm(va(1))), jmp(Mem(None, "eax", va(8)))})
              \cup ({jmp(Imm(va(5)))} \X {ret, Insn("ja", 1, <<Imm(va(1))>>)})
              \cup ({call(Mem("eax", None, 0))} \X {ret, call(Imm(va(1))), Insn("ja", 1, <<Imm(va(1))>>),
                                                   jmp(Mem(None, "eax", va(8)))}),
        <<e, f>> \in {<<ret, bad>>, <<mov(Imm(va(5))), ret>>}}

Image(t, words, pad) ==
    [sections |-> {[start |-> 0, end |-> 6, exec |-> TRUE], [start |-> 8, end |-> 12, exec |-> FALSE]},
     code |-> [r \in {r \in DOMAIN t : t[r] # bad} |-> t[r]],
     words |-> words, pad |-> pad \cup {r \in DOMAIN t : t[r] = ret},
     entry |-> 0, exports |-> {}, tls |-> {}, pdata |-> {}, relocs |-> {10}, iat |-> {}]

FlowImages == {Image(t, (8 :> x[1]) @@ (10 :> va(4)), x[2]) : t \in Texts, x \in {<<va(3), {}>>, <<3, {3}>>}}

\* Stores to 8, guards on it
at8 == Mem(None, None, va(8))
StoreTexts ==
    {(0 :> Insn("mov", 1, <<at8, s>>)) @@ (1 :> t) @@ (2 :> Insn("cmp", 1, <<at8, Imm(4)>>)) @@
     (3 :> Insn(j, 1, <<Imm(va(5))>>)) @@ (4 :> e) @@ (5 :> ret) :
        s \in {Imm(2), Imm(7), Reg("eax")}, j \in {"ja", "jae", "jb", "jbe"},
        <<t, e>> \in {<<Insn("mov", 1, <<at8, Imm(5)>>), nop(1)>>,
                     <<Insn("cmp", 1, <<at8, Imm(3)>>), Insn("mov", 1, <<Mem("ecx", None, 0), Imm(1)>>)>>,
                     <<nop(1), call(Reg("eax"))>>, <<Insn("add", 1, <<at8, Imm(1)>>), nop(1)>>}}
StoreImages == {Image(t, 8 :> 0, {}) : t \in StoreTexts}

\* Where a base register comes from
ecx(o) == Insn("mov", 1, <<Reg("ecx"), o>>)
BaseTexts ==
    {(0 :> a) @@ (1 :> b) @@ (2 :> c) @@ (3 :> d) @@ (4 :> ret) @@ (5 :> ret) :
        a \in {ecx(Imm(1)), Insn("mov", 1, <<Reg("eax"), Mem("ebp", None, 4)>>), call(Imm(va(5)))},
        b \in {ecx(Reg("eax")), Insn("add", 1, <<Reg("ecx"), Imm(1)>>), Insn("lea", 1, <<Reg("ecx"), at8>>)},
        c \in {mov(Mem("ecx", None, 2)), call(Mem("ecx", None, 2))},
        d \in {ret, jmp(Imm(va(1))), jmp(Imm(va(0)))}}
\* ...and with a hole in the line, behind which a seed is
HoleTexts ==
    {(0 :> a) @@ (2 :> mov(Mem("ecx", None, 2))) @@ (3 :> ret) : a \in {ecx(Imm(1)), Insn("lea", 1, <<Reg("ecx"), at8>>)}}
BaseImages == {Image(t, 8 :> 0, {}) : t \in BaseTexts} \cup {Image(t, 8 :> va(2), {1}) : t \in HoleTexts}

\* Seeds of every class, an import thunk, a TLS callback that is no VA
SeedTexts ==
    {(0 :> a) @@ (1 :> x) @@ (2 :> b) @@ (3 :> nop(2)) @@ (4 :> ret) @@ (5 :> c) :
        a \in {jmp(at8), call(at8)}, x \in {call(Imm(va(3))), nop(1)},
        b \in {ret, jmp(Mem(None, "eax", va(8))), nop(3)}, c \in {ret, bad}}
SeedImages ==
    {[Image(t, (8 :> va(5)) @@ (10 :> va(2)), {}) EXCEPT
         !.exports = {1, 8}, !.tls = {va(4), 4}, !.pdata = {2}, !.iat = {8}] : t \in SeedTexts}

\* Code behind a jump table of one to three entries
TableImages ==
    {[Image((0 :> jmp(Mem(None, "eax", va(8)))) @@ (1 :> a) @@ (2 :> b) @@ (3 :> jmp(Imm(va(0)))) @@
            (4 :> mov(Imm(va(5)))) @@ (5 :> ret), (8 :> va(1)) @@ (10 :> x[1]) @@ (12 :> x[2]), {}) EXCEPT
         !.sections = {[start |-> 0, end |-> 6, exec |-> TRUE], [start |-> 8, end |-> 14, exec |-> FALSE]}] :
        a \in {call(Mem(None, None, va(10))), mov(Imm(va(3))), nop(1)},
        b \in {ret, jmp(Mem("ecx", None, 0))}, x \in {<<0, 0>>, <<va(4), 0>>, <<va(2), va(4)>>}}

SmallImages == TableImages \cup SeedImages \cup FlowImages \cup StoreImages \cup BaseImages

FullConfig == [max_instructions |-> 9, max_total_instructions |-> 9, collect_xrefs |-> TRUE,
               seed_classes |-> SeedClasses, max_data_pointers |-> 3]
SmallConfigs == {FullConfig, [FullConfig EXCEPT !.max_total_instructions = 2, !.max_data_pointers = 0],
                 [FullConfig EXCEPT !.collect_xrefs = FALSE, !.max_instructions = 2,
                                    !.seed_classes = {"entry_point", "exports"}]}

SomeRanges == {[start |-> 0, end |-> 6, limit |-> None], [start |-> 1, end |-> 5, limit |-> 2]}
SomeSets == {of_value(9, 0), of_range(1, 4), of_range(6, 8), unbounded({0})}
OwnRegisters == [r \in {"eax", "ecx"} |-> {}]

=============================================================================
