---------------------------- MODULE CodePatching ----------------------------
(***************************************************************************)
(* Detours: the inline hooks of hook/inline.py and the probes of           *)
(* instrument/instrumenter.py.                                             *)
(*                                                                         *)
(* Both overwrite at least five bytes of a function with a jump, and copy  *)
(* the instructions these bytes belong to into a trampoline that ends in a *)
(* jump back.  The jump leads to a hook function of the target (inline) or *)
(* to a compiled stub in the same allocation as the trampoline (probe);    *)
(* either calls the trampoline to run the original.  Installed and         *)
(* restored while the target's threads are anywhere in this, a detour      *)
(* should leave the program's own execution as it was.                     *)
(*                                                                         *)
(* The system calls of an install touch memory nobody runs in until the    *)
(* jump is written, those of a restore memory nobody can enter any more:   *)
(* each call is one action.                                                *)
(***************************************************************************)
EXTENDS Naturals, Functions

CONSTANTS
    Threads,
    Addrs,       \* the instructions of the target
    Flow,        \* Flow[a]: the instructions that may follow a
    Returns,     \* instructions that return from a function
    Unmovable,   \* instructions whose copy does something else (relative
                 \* operands: the bytes are copied as they are)
    Covers,      \* Covers[s]: the instructions a jump written at s overwrites
    Own, Torn,   \* what is at an address: the program's own instruction, the
                 \* rest of one that was partly overwritten, or hook h's jump
    MaxHooks,    \* bound: detours ever made
    Care,        \* what the client sees to: "apart", detours never overlap;
                 \* "drained", no thread is inside what a call takes away
    Faults       \* what may fail: "write", "torn" (halfway), "compile", "free"

Sites == DOMAIN Covers
Hooks == 1..MaxHooks

ASSUME CodeAssumption   == /\ Flow \in [Addrs -> SUBSET Addrs]
                           /\ Returns \subseteq Addrs /\ Unmovable \subseteq Addrs
ASSUME CoversAssumption == /\ Covers \in [Sites -> SUBSET Addrs]
                           /\ \A s \in Sites : s \in Covers[s]
ASSUME CellAssumption   == Own # Torn /\ Own \notin Hooks /\ Torn \notin Hooks
ASSUME ModeAssumption   == /\ MaxHooks \in Nat
                           /\ Care \subseteq {"apart", "drained"}
                           /\ Faults \subseteq {"write", "torn", "compile", "free"}

Content == {Own, Torn} \cup Hooks

VARIABLES
    \* the target
    code,         \* code[a]: what is at a
    region,       \* detours whose trampoline (and stub) is allocated
    loc,          \* loc[t]: the instruction of the program thread t is at
    where,        \* the memory it runs in: the "code", the "entry" of a hook
                  \* or stub, the trampoline's "copy", the stub "after" the call
    via,          \* of which detour, 0 in the code
    frames,       \* frames[t]: detours t will return through
    \* the managers
    made,         \* made[h]: its kind, site and original bytes
    counter,      \* detours made so far
    inline_hooks, \* InlineHook._hooks
    probes,       \* Instrumenter._hooks
    \* history
    excused       \* detours whose memory could not be freed, and inline hooks
                  \* whose set() failed

threads == <<loc, where, via, frames>>
managed == <<made, counter, inline_hooks, probes, excused>>
vars    == <<code, region, threads, managed>>

Kinds == {"inline", "probe"}

TypeOK ==
    /\ code \in [Addrs -> Content]
    /\ counter \in 0..MaxHooks
    /\ region \subseteq 1..counter /\ excused \subseteq 1..counter
    /\ loc \in [Threads -> Addrs]
    /\ where \in [Threads -> {"code", "entry", "copy", "after"}]
    /\ via \in [Threads -> 0..counter]
    /\ \A t \in Threads : where[t] = "code" <=> via[t] = 0
    /\ frames \in [Threads -> SUBSET (1..counter)]
    /\ DOMAIN made = 1..counter
    /\ \A h \in 1..counter : \E s \in Sites :
          made[h] \in [kind : Kinds, site : {s}, saved : [Covers[s] -> Content]]
    /\ inline_hooks \in [DOMAIN inline_hooks -> 1..counter] /\ DOMAIN inline_hooks \subseteq Sites
    /\ probes \in [DOMAIN probes -> 1..counter] /\ DOMAIN probes \subseteq Sites

Empty == [x \in {} |-> x]

Init ==
    /\ code = [a \in Addrs |-> Own]
    /\ region = {} /\ excused = {}
    /\ loc \in [Threads -> Addrs]
    /\ where = [t \in Threads |-> "code"]
    /\ via = [t \in Threads |-> 0]
    /\ frames = [t \in Threads |-> {}]
    /\ made = Empty /\ counter = 0
    /\ inline_hooks = Empty /\ probes = Empty

-----------------------------------------------------------------------------
(* The target                                                              *)

InCode(t, content) == where[t] = "code" /\ code[loc[t]] = content

\* A hook function is the target's own; a stub is there while its region is.
Standing(h) == made[h].kind = "inline" \/ h \in region

\* t is about to execute an instruction of the program, in place or in a copy
\* that does what the original does.
Original(t) ==
    \/ InCode(t, Own)
    \/ /\ where[t] = "copy" /\ via[t] \in region
       /\ loc[t] \in Covers[made[via[t]].site] \ Unmovable
       /\ made[via[t]].saved[loc[t]] = Own

MoveTo(t, place, h) == where' = [where EXCEPT ![t] = place] /\ via' = [via EXCEPT ![t] = h]

\* t is about to take a jump to a hook or stub, or is in one.
Hooked(t) == \/ \E h \in 1..counter : InCode(t, h) /\ Standing(h)
             \/ where[t] \in {"entry", "after"} /\ Standing(via[t])

\* One instruction.  The trampoline jumps back behind the instructions it
\* copied.  A return may lead into a hook or stub that called the original,
\* which another call of the function may be waiting in too.  From anything
\* that is no instruction of the program (half of one, freed memory, a copy
\* that does not do the same) the thread may end up anywhere.
Execute(t) ==
    /\ ~Hooked(t)
    /\ \E a \in IF Original(t) THEN Flow[loc[t]] ELSE Addrs :
          /\ loc' = [loc EXCEPT ![t] = a]
          /\ \/ /\ frames' = frames
                /\ IF /\ Original(t) /\ where[t] = "copy"
                      /\ a \in Covers[made[via[t]].site] \ {made[via[t]].site}
                   THEN UNCHANGED <<where, via>> ELSE MoveTo(t, "code", 0)
             \/ /\ loc[t] \in Returns
                /\ \E h \in frames[t] :
                      /\ MoveTo(t, "after", h)
                      /\ \E left \in {frames[t], frames[t] \ {h}} :
                            frames' = [frames EXCEPT ![t] = left]
    /\ UNCHANGED <<code, region, managed>>

\* The jump to hook h
Detour(t) ==
    /\ \E h \in 1..counter : InCode(t, h) /\ Standing(h) /\ MoveTo(t, "entry", h)
    /\ UNCHANGED <<code, region, loc, frames, managed>>

\* The hook or stub calls the original through the trampoline.
CallOriginal(t) ==
    /\ where[t] = "entry" /\ Standing(via[t])
    /\ where' = [where EXCEPT ![t] = "copy"]
    /\ frames' = [frames EXCEPT ![t] = @ \cup {via[t]}]
    /\ UNCHANGED <<code, region, loc, via, managed>>

HookReturns(t) ==
    /\ where[t] = "after" /\ Standing(via[t])
    /\ MoveTo(t, "code", 0)
    /\ UNCHANGED <<code, region, loc, frames, managed>>

-----------------------------------------------------------------------------
(* What both managers do                                                   *)

Put(f, k, v) == [x \in DOMAIN f \cup {k} |-> IF x = k THEN v ELSE f[x]]
Drop(f, k)   == Restrict(f, DOMAIN f \ {k})

Apart(s)   == "apart" \in Care => \A other \in DOMAIN inline_hooks \cup DOMAIN probes :
                                      Covers[s] \cap Covers[other] = {}
\* No thread is between the instructions the jump will overwrite.
Clear(s)   == "drained" \in Care => \A t \in Threads : loc[t] \notin Covers[s] \ {s}
\* No thread is in, or will return to, what restoring h takes away.
Drained(h) == "drained" \in Care => \A t \in Threads : via[t] # h /\ h \notin frames[t]

MayPatch(s) == counter < MaxHooks /\ Apart(s) /\ Clear(s)

\* The memory after a five-byte jump to h was written at s
Jump(s, h) == [a \in Addrs |-> IF a = s THEN h
                               ELSE IF a \in Covers[s] THEN Torn ELSE code[a]]

\* Mutants of Saved: all that was read is kept, not the instructions the jump
\* overwrites only; the bytes are read after the jump was written.
ReadsAll(s)  == code
ReadsLate(s) == [a \in Covers[s] |-> Torn]

\* _read_min_5_bytes()
Saved(s) == [a \in Covers[s] |-> code[a]]

\* Memory after the original bytes of h were written back
Unpatched(h) == [a \in Addrs |-> IF a \in DOMAIN made[h].saved THEN made[h].saved[a]
                                 ELSE code[a]]

Make(kind, s) ==
    /\ made' = Put(made, counter + 1, [kind |-> kind, site |-> s, saved |-> Saved(s)])
    /\ counter' = counter + 1

\* VirtualFree of h's region, which may fail
Free(h) == \/ region' = region \ {h} /\ UNCHANGED excused
           \/ "free" \in Faults /\ region' = region \cup {h} /\ excused' = excused \cup {h}

\* What a failing write may leave of a jump at s
Halfway(s, h) == (IF "write" \in Faults THEN {code} ELSE {})
                   \cup (IF "torn" \in Faults THEN {[Jump(s, h) EXCEPT ![s] = Torn]} ELSE {})

-----------------------------------------------------------------------------
(* Inline hooks                                                            *)

SetInline(s) ==
    /\ MayPatch(s)
    /\ Make("inline", s)
    /\ region' = region \cup {counter + 1}
    /\ code' = Jump(s, counter + 1)
    /\ inline_hooks' = Put(inline_hooks, s, counter + 1)
    /\ UNCHANGED <<threads, probes, excused>>

\* A write fails, or the trampoline is out of reach of a 5-byte jump: the
\* error leaves the trampoline allocated.
SetInlineFails(s) ==
    /\ MayPatch(s)
    /\ Make("inline", s)
    /\ region' = region \cup {counter + 1} /\ excused' = excused \cup {counter + 1}
    /\ code' \in Halfway(s, counter + 1)
    /\ UNCHANGED <<threads, inline_hooks, probes>>

\* Mutant of Rewritten: the original bytes stay where they were saved.
NotRewritten(h) == code
Rewritten(h)    == Unpatched(h)

\* restore() of an installed trampoline; a write that fails changes nothing.
RestoreInline(s) ==
    /\ s \in DOMAIN inline_hooks
    /\ LET h == inline_hooks[s] IN
       /\ Drained(h)
       /\ code' = Rewritten(h)
       /\ Free(h)
    /\ inline_hooks' = Drop(inline_hooks, s)
    /\ UNCHANGED <<threads, made, counter, probes>>

-----------------------------------------------------------------------------
(* Probes                                                                  *)

MayInstall(s) == s \notin DOMAIN probes /\ MayPatch(s)

Install(s) ==
    /\ MayInstall(s)
    /\ Make("probe", s)
    /\ region' = region \cup {counter + 1}
    /\ code' = Jump(s, counter + 1)
    /\ probes' = Put(probes, s, counter + 1)
    /\ UNCHANGED <<threads, inline_hooks, excused>>

\* Mutant of Release: what was allocated stays so.
KeptAllocated(h) == region' = region \cup {h} /\ UNCHANGED excused
Release(h)       == Free(h)

\* The trampoline, the stub or the payload fails before the target is touched;
\* or the jump does, and then the original bytes are written back, as far as
\* that works.
InstallFails(s) ==
    /\ MayInstall(s) /\ Faults \cap {"write", "torn", "compile"} # {}
    /\ Make("probe", s)
    /\ code' \in {code} \cup Halfway(s, counter + 1)
    /\ Release(counter + 1)
    /\ UNCHANGED <<threads, inline_hooks, probes>>

\* Mutant of WrittenBack: the memory is freed although the original bytes
\* could not be written back.
FreedAnyway(h) == code' \in {code, Unpatched(h)}
WrittenBack(h) == code' = Unpatched(h)

\* restore(); when the region cannot be freed the record stays.
RestoreProbe(s) ==
    /\ s \in DOMAIN probes
    /\ LET h == probes[s] IN
       /\ Drained(h)
       /\ WrittenBack(h)
       /\ Free(h)
       /\ probes' = IF h \in region' THEN probes ELSE Drop(probes, s)
    /\ UNCHANGED <<threads, made, counter, inline_hooks>>

-----------------------------------------------------------------------------

TargetStep == \E t \in Threads : \/ Execute(t) \/ Detour(t) \/ CallOriginal(t)
                                 \/ HookReturns(t)
ClientStep == \E s \in Sites : \/ SetInline(s) \/ SetInlineFails(s) \/ RestoreInline(s)
                               \/ Install(s) \/ InstallFails(s) \/ RestoreProbe(s)

Next == TargetStep \/ ClientStep

Spec == Init /\ [][Next]_vars

-----------------------------------------------------------------------------
(* Properties                                                              *)

\* Whatever is hooked and unhooked under it, the program's own instructions
\* are executed in the program's order, every one of them: seen through the
\* instructions its threads are at, the target is a program nobody patches.
Program == INSTANCE TargetProgram
               WITH alive <- [t \in Threads |-> TRUE], Exits <- {}
Transparent == Program!Spec

\* No jump in the target leads to, and no thread runs in or will return to,
\* memory that was freed: what restore() orders its steps for.
NothingFreedInUse ==
    /\ \A a \in Addrs : code[a] \in Hooks => code[a] \in region
    /\ \A t \in Threads : /\ where[t] # "code" => via[t] \in region
                          /\ frames[t] \subseteq region

\* Once every hook and probe is restored the code is the program's again.
OriginalsBack ==
    DOMAIN inline_hooks \cup DOMAIN probes = {} => \A a \in Addrs : code[a] = Own

\* Every trampoline and stub still allocated belongs to a record through which
\* it will be freed, unless freeing it failed; a failed install() keeps none.
NothingLeaks ==
    region \subseteq Range(inline_hooks) \cup Range(probes) \cup excused

-----------------------------------------------------------------------------
(* The inductive invariant behind these properties                         *)

\* What the proofs ask for: detours apart and threads drained, no write that
\* stops halfway, movable instructions, and sites entered at their start only:
\* what leads behind it is an instruction before, and no return.
Disciplined ==
    /\ Care = {"apart", "drained"} /\ "torn" \notin Faults
    /\ \A s \in Sites : Covers[s] \cap Unmovable = {}
    /\ \A s \in Sites, a \in Addrs : \A b \in Flow[a] :
          b \in Covers[s] \ {s} => a \in Covers[s] \ Returns

\* Detour h is recorded for site s.
Holds(s, h) == \/ s \in DOMAIN inline_hooks /\ inline_hooks[s] = h
               \/ s \in DOMAIN probes /\ probes[s] = h

\* No two records are of one site, or of sites that overlap.
RecordsApart ==
    /\ DOMAIN inline_hooks \cap DOMAIN probes = {}
    /\ \A s, s2 \in Sites, h, h2 \in 1..counter :
          Holds(s, h) /\ Holds(s2, h2) => \/ s2 = s /\ h2 = h
                                         \/ Covers[s] \cap Covers[s2] = {}

\* A recorded detour has its memory and the program's own bytes, and its jump
\* is in place as a whole or not at all.
RecordsTrue ==
    \A s \in Sites, h \in 1..counter : Holds(s, h) =>
        /\ made[h].site = s /\ h \in region
        /\ \A a \in Covers[s] : made[h].saved[a] = Own
        /\ \/ \A a \in Covers[s] : code[a] = IF a = s THEN h ELSE Torn
           \/ \A a \in Covers[s] : code[a] = Own

\* What is not the program's in the code is a recorded detour's.
CodeRecorded ==
    \A a \in Addrs : code[a] = Own \/ \E s \in Sites, h \in 1..counter :
        Holds(s, h) /\ a \in Covers[s] /\ code[a] = IF a = s THEN h ELSE Torn

\* Threads are in and will return through recorded detours only, at the
\* instructions these stand for, and never behind a jump.
ThreadsPlaced ==
    \A t \in Threads :
        /\ \A h \in frames[t] : \E s \in Sites : Holds(s, h)
        /\ via[t] # 0 => \E s \in Sites : Holds(s, via[t])
        /\ where[t] = "entry" => loc[t] = made[via[t]].site
        /\ where[t] = "copy" => loc[t] \in Covers[made[via[t]].site]
        /\ where[t] # "copy" => code[loc[t]] # Torn

IInv == RecordsApart /\ RecordsTrue /\ CodeRecorded /\ ThreadsPlaced /\ NothingLeaks

=============================================================================
