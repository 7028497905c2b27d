------------------------ MODULE StaticAnalysisProofs ------------------------
(***************************************************************************)
(* Theorems about StaticAnalysis, for any images and configurations.       *)
(***************************************************************************)
EXTENDS StaticAnalysis, FiniteSetTheorems, TLAPS

-----------------------------------------------------------------------------
(* Induction, and functions defined by it.                                 *)

(* Induction over a finite set: a family with the empty set that is closed *)
(* under adding an element has the whole set.                              *)
LEMMA SubsetInduction ==
  ASSUME NEW S, IsFiniteSet(S), NEW Good, {} \in Good,
         \A T \in SUBSET S : \A x \in S \ T : T \in Good => T \cup {x} \in Good
  PROVE  S \in Good
<1>1. SUFFICES ASSUME (SUBSET S) \ Good # {} PROVE FALSE
  OBVIOUS
<1>2. IsWellFoundedOn(StrictSubsetOrdering(S), SUBSET S)
  <2>1. IsWellFoundedOn(StrictSubsetOrdering(S), FiniteSubsetsOf(S))
    BY FS_StrictSubsetOrderingWellFounded, Zenon
  <2>2. FiniteSubsetsOf(S) = SUBSET S
    BY FS_FiniteSubsetsOfFinite, Zenon
  <2> QED BY <2>1, <2>2
<1>3. PICK T \in (SUBSET S) \ Good : \A U \in (SUBSET S) \ Good : <<U, T>> \notin StrictSubsetOrdering(S)
  <2> DEFINE B == (SUBSET S) \ Good
  <2>1. B \subseteq SUBSET S /\ B # {}
    BY <1>1
  <2> HIDE DEF B
  <2>2. \E x \in B : \A y \in B : ~ (<<y, x>> \in StrictSubsetOrdering(S))
    BY <2>1, <1>2, WFMin, Zenon
  <2> QED BY <2>2 DEF B
<1>4. PICK x \in T : TRUE
  BY <1>3
<1>5. T \ {x} \in SUBSET S /\ T \ {x} # T
  BY <1>3, <1>4
<1>6. T \ {x} \in Good
  BY <1>3, <1>5 DEF StrictSubsetOrdering
<1>7. (T \ {x}) \cup {x} = T
  BY <1>4
<1> QED BY <1>3, <1>4, <1>5, <1>6, <1>7

(* Induction over the numbers, for a set of them.                          *)
LEMMA Induction ==
  ASSUME NEW Good, 0 \in Good, \A n \in Nat : n \in Good => n + 1 \in Good
  PROVE  \A n \in Nat : n \in Good
<1> SUFFICES ASSUME NEW n \in Nat PROVE n \in Good
  OBVIOUS
<1> DEFINE Segments == {T \in SUBSET (1..n) : Cardinality(T) \in Good}
<1>1. IsFiniteSet(1..n) /\ Cardinality(1..n) = n
  BY FS_Interval
<1>2. {} \in Segments
  BY FS_EmptySet
<1>3. ASSUME NEW T \in SUBSET (1..n), NEW x \in (1..n) \ T, T \in Segments
      PROVE  T \cup {x} \in Segments
  <2>1. IsFiniteSet(T)
    BY <1>1, FS_Subset
  <2>2. Cardinality(T) \in Nat /\ Cardinality(T \cup {x}) = Cardinality(T) + 1
    BY <2>1, FS_CardinalityType, FS_AddElement
  <2> QED BY <2>2, <1>3
<1> HIDE DEF Segments
<1>4. (1..n) \in Segments
  BY <1>1, <1>2, <1>3, SubsetInduction
<1> QED BY <1>4, <1>1 DEF Segments
(* A function may be defined step by step, and there is only one.          *)
IsIteration(f, D, step, first, N) ==
  /\ f \in [0..N -> D] /\ f[0] = first
  /\ \A n \in 1..N : f[n] = step[f[n - 1]]

LEMMA IterationExists ==
  ASSUME NEW D, NEW step \in [D -> D], NEW first \in D, NEW N \in Nat
  PROVE  \E f : IsIteration(f, D, step, first, N)
<1> DEFINE Good == {k \in Nat : \E f : IsIteration(f, D, step, first, k)}
<1>1. 0 \in Good
  <2>1. IsIteration([n \in 0..0 |-> first], D, step, first, 0)
    BY DEF IsIteration
  <2> QED BY <2>1
<1>2. ASSUME NEW k \in Nat, k \in Good PROVE k + 1 \in Good
  <2>1. PICK f : IsIteration(f, D, step, first, k)
    BY <1>2
  <2> DEFINE g == [n \in 0..(k + 1) |-> IF n = k + 1 THEN step[f[k]] ELSE f[n]]
  <2>2. f \in [0..k -> D] /\ f[k] \in D
    BY <2>1 DEF IsIteration
  <2>3. g \in [0..(k + 1) -> D] /\ g[0] = first
    BY <2>1, <2>2 DEF IsIteration
  <2>4. ASSUME NEW n \in 1..(k + 1) PROVE g[n] = step[g[n - 1]]
    <3>1. n - 1 \in 0..k /\ g[n - 1] = f[n - 1]
      OBVIOUS
    <3>2. CASE n = k + 1
      BY <3>1, <3>2
    <3>3. CASE n \in 1..k
      BY <3>1, <3>3, <2>1 DEF IsIteration
    <3> QED BY <3>2, <3>3
  <2> HIDE DEF g
  <2>5. IsIteration(g, D, step, first, k + 1)
    BY <2>3, <2>4 DEF IsIteration
  <2> QED BY <2>5
<1> HIDE DEF Good
<1>3. N \in Good
  BY <1>1, <1>2, Induction
<1> QED BY <1>3 DEF Good

LEMMA IterationIsUnique ==
  ASSUME NEW D, NEW step \in [D -> D], NEW first \in D, NEW N \in Nat,
         NEW f, IsIteration(f, D, step, first, N),
         NEW g, g[0] = first, \A n \in 1..N : g[n - 1] \in D => g[n] = step[g[n - 1]]
  PROVE  \A n \in 0..N : g[n] = f[n]
<1> DEFINE Good == {k \in Nat : k \in 0..N => g[k] = f[k]}
<1>1. 0 \in Good
  BY DEF IsIteration
<1>2. ASSUME NEW k \in Nat, k \in Good PROVE k + 1 \in Good
  <2> SUFFICES ASSUME k + 1 \in 0..N PROVE g[k + 1] = f[k + 1]
    OBVIOUS
  <2>1. k \in 0..N /\ k + 1 \in 1..N /\ (k + 1) - 1 = k
    OBVIOUS
  <2>2. g[k] = f[k] /\ f[k] \in D
    BY <1>2, <2>1 DEF IsIteration
  <2> QED BY <2>1, <2>2 DEF IsIteration
<1> HIDE DEF Good
<1>3. \A k \in Nat : k \in Good
  BY <1>1, <1>2, Induction
<1> QED BY <1>3 DEF Good


-----------------------------------------------------------------------------
(* What the steps leave alone.                                             *)

(* Everything an instruction says of itself depends on the image alone.    *)
LEMMA SameImage ==
  ASSUME image' = image
  PROVE  /\ \A rva : is_mapped(rva)' = is_mapped(rva)
         /\ \A rva : is_exec(rva)' = is_exec(rva)
         /\ \A rva : decoded_at(rva)' = decoded_at(rva)
         /\ \A va : va_to_rva(va)' = va_to_rva(va)
         /\ \A va : read_pointer(va)' = read_pointer(va)
         /\ \A slot : code_pointer(slot)' = code_pointer(slot)
         /\ \A i : branch_target(i)' = branch_target(i)
<1> USE DEF section_of
<1>1. \A rva : is_mapped(rva)' = is_mapped(rva)
  BY DEF is_mapped
<1>2. \A rva : is_exec(rva)' = is_exec(rva)
  BY DEF is_exec
<1>3. \A rva : decoded_at(rva)' = decoded_at(rva)
  BY <1>1 DEF decoded_at
<1>4. \A va : va_to_rva(va)' = va_to_rva(va)
  BY DEF va_to_rva, Span
<1>5. \A va : read_pointer(va)' = read_pointer(va)
  BY DEF read_pointer
<1>6. \A slot : code_pointer(slot)' = code_pointer(slot)
  BY <1>2, <1>4, <1>5 DEF code_pointer
<1>7. \A i : branch_target(i)' = branch_target(i)
  BY <1>4 DEF branch_target
<1> QED BY <1>1, <1>2, <1>3, <1>4, <1>5, <1>6, <1>7

(* A question may make the decoder remember more, nothing else.            *)
LEMMA QuestionsOnlyRemember ==
  Ask => UNCHANGED <<given, phase, sweeping, covered, overlap_bytes, undecodable, found, table, actual>>
BY DEF Ask, ScanStep, StartScan, ScanInsn, ScanGap, ScanStop, ScanUnchanged, CFGStep,
   StartCFG, BuildBlock, BlockLimit, ValueStep, AskValues, Widen, Narrow, avars, given,
   sweeping, decoding, found, table

(* Questions are asked of a finished analysis.                             *)
Unasked == scan = None /\ cfg = None /\ answer = None
AskedWhenDone == Unasked \/ Done

LEMMA QuestionsComeLast ==
  AskedWhenDone /\ [Next]_vars => /\ AskedWhenDone'
                                  /\ Ask => Done
<1> SUFFICES ASSUME AskedWhenDone, [Next]_vars
             PROVE  AskedWhenDone' /\ (Ask => Done)
  OBVIOUS
<1> USE DEF AskedWhenDone, Unasked, Done
<1>1. CASE UNCHANGED vars
  BY <1>1 DEF vars, avars, Ask, ScanStep, StartScan, ScanInsn, ScanGap, ScanStop, AtInsn,
     Scanning, CFGStep, StartCFG, BuildBlock, BlockLimit, ValueStep, AskValues, Widen, Narrow
<1>2. Ask => Done
  BY DEF Ask, ScanStep, StartScan, ScanInsn, ScanGap, ScanStop, AtInsn, Scanning, CFGStep,
     StartCFG, BuildBlock, BlockLimit, ValueStep, AskValues, Widen, Narrow
<1>3. CASE Ask
  BY <1>2, <1>3, QuestionsOnlyRemember
<1>4. CASE Analyse
  <2>1. UNCHANGED <<scan, cfg, answer>>
    BY <1>4 DEF Analyse
  <2>2. phase = "done" => phase' = "done"
    BY <1>4 DEF Analyse, ANext, Seed, GiveUp, StopAtDecoded, StopAtUndecodable, Decode, Finish, Sweep
  <2> QED BY <2>1, <2>2, <1>2
<1> QED BY <1>1, <1>3, <1>4, <1>2 DEF Next

-----------------------------------------------------------------------------
(* The sweep: nothing that was named is forgotten.                         *)

AtCursor(rva) == cursor # None /\ cursor.at = rva

(* The phases follow each other, and the decoder knows just what was swept *)
(* until the sweep is over.                                                *)
Phases ==
  /\ phase \in {"seed", "sweep", "done"}
  /\ phase = "seed" => DOMAIN claimed = {}
  /\ phase # "sweep" => cursor = None
  /\ phase = "done" => pending = {}
  /\ phase # "done" => DOMAIN size_at = DOMAIN claimed
  /\ image \in Images /\ config \in Configs /\ budget_left \in Int /\ pending \subseteq Int
  /\ cursor # None => cursor \in [at : Int, left : Nat \ {0}]

(* What was queued was decoded, did not decode or is still to come; what   *)
(* was decoded goes on to such an address and leads to queued ones.        *)
Followed ==
  /\ \A rva \in queued : rva \in pending \/ Handled(rva) \/ AtCursor(rva)
  /\ starts \cup code_seeds \subseteq queued \cup DOMAIN claimed
  /\ \A rva \in DOMAIN claimed :
        LET i == decoded_at(rva) IN
        /\ continues(i) => Handled(rva + i.size) \/ AtCursor(rva + i.size)
        /\ is_exec(branch_target(i)) =>
              branch_target(i) \in queued /\ (is_call(i) => branch_target(i) \in confident)

SweepInv == Phases /\ (~budget_exhausted => Followed)

LEMMA SweepInit == Init => AskedWhenDone /\ SweepInv
BY ConfigAssumption DEF Init, AInit, SweepInv, Phases, Followed, AskedWhenDone, Unasked, Empty

(* A call's target and a jump's are what the instruction names.            *)
LEMMA DecodeFollows ==
  ASSUME Decode, NEW i, i = decoded_at(cursor.at), is_exec(branch_target(i))
  PROVE  branch_target(i) \in queued' /\ (is_call(i) => branch_target(i) \in confident')
<1>1. branch_target(i) # None
  BY AddressAssumption DEF is_exec
<1>2. is_call(i) => branch_target(i) \in queued' /\ branch_target(i) \in confident'
  BY <1>1 DEF Decode
<1>3. ~is_call(i) => branch_target(i) \in queued'
  BY <1>1 DEF Decode
<1> QED BY <1>2, <1>3

(* What decoding an instruction does, seen from the queue.                 *)
LEMMA DecodeQueues ==
  ASSUME Decode
  PROVE  /\ queued \subseteq queued' /\ confident \subseteq confident'
         /\ queued' \ queued \subseteq pending' /\ pending \subseteq pending'
         /\ pending' \ pending \subseteq Int
         /\ starts' \cup code_seeds' \subseteq starts \cup code_seeds \cup queued' \cup {cursor.at}
<1>1. \A b : \A slot \in table_slots(b) : code_pointer(slot) # None
  BY AddressAssumption, ConfigAssumption DEF table_slots
<1>2. \A slot : code_pointer(slot) # None => code_pointer(slot) \in Int
  BY DEF code_pointer, is_exec
<1>3. \A t : is_exec(t) => t \in Int
  BY DEF is_exec
<1>4. /\ queued \subseteq queued' /\ confident \subseteq confident'
      /\ queued' \ queued \subseteq pending' /\ pending \subseteq pending'
  BY DEF Decode
<1>5. pending' \ pending \subseteq Int
  BY <1>1, <1>2, <1>3 DEF Decode
<1>6. starts' \cup code_seeds' \subseteq starts \cup code_seeds \cup queued' \cup {cursor.at}
  BY DEF Decode
<1> QED BY <1>4, <1>5, <1>6

LEMMA DecodeRecords ==
  ASSUME Decode, NEW i, i = decoded_at(cursor.at)
  PROVE  /\ cursor # None /\ i # None /\ cursor.at \notin DOMAIN size_at
         /\ UNCHANGED <<image, config, phase, undecodable>>
         /\ DOMAIN size_at' = DOMAIN size_at \cup {cursor.at}
         /\ DOMAIN claimed' = DOMAIN claimed \cup {cursor.at}
         /\ Advance(cursor.at, i)
BY DEF Decode, given, Put, is_decoded

LEMMA SweepDecode ==
  ASSUME SweepInv, Decode
  PROVE  SweepInv'
<1> USE DEF SweepInv, AtCursor, Handled
<1> DEFINE rva == cursor.at
           i   == decoded_at(rva)
<1>1. /\ cursor # None /\ i # None /\ rva \notin DOMAIN size_at
      /\ UNCHANGED <<image, config, phase, undecodable>>
      /\ DOMAIN size_at' = DOMAIN size_at \cup {rva} /\ DOMAIN claimed' = DOMAIN claimed \cup {rva}
      /\ Advance(rva, i)
  BY DecodeRecords
<1>2. cursor \in [at : Int, left : Nat \ {0}] /\ rva \in Int /\ i.size \in Nat \ {0}
  BY <1>1, ImageAssumption DEF Phases, decoded_at
<1>3. cursor' # None => cursor' = [at |-> rva + i.size, left |-> cursor.left - 1] /\ cursor.left > 1
  BY <1>1 DEF Advance
<1>4. Phases'
  <2>1. phase = "sweep" /\ DOMAIN size_at = DOMAIN claimed
    BY <1>1 DEF Phases
  <2>2. cursor' # None => cursor' \in [at : Int, left : Nat \ {0}]
    BY <1>2, <1>3
  <2>3. budget_left \in Int /\ pending \subseteq Int
    BY DEF Phases
  <2>4. budget_left' \in Int
    BY <1>1, <2>3 DEF Advance
  <2>5. pending' \subseteq Int
    BY <2>3, DecodeQueues
  <2> QED BY <1>1, <2>1, <2>2, <2>4, <2>5 DEF Phases
<1>5. ASSUME ~budget_exhausted' PROVE Followed'
  <2>1. Followed /\ cursor.left # 1
    BY <1>1, <1>5 DEF Advance
  <2>2. continues(i) => cursor' # None /\ cursor'.at = rva + i.size
    <3>1. [at |-> rva + i.size, left |-> cursor.left - 1] # None
      BY <1>2, ConfigAssumption
    <3> QED BY <1>1, <1>2, <2>1, <3>1 DEF Advance
  <2>3. \A x : Handled(x)' <=> Handled(x) \/ x = rva
    BY <1>1
  <2>4. \A x \in queued' : x \in pending' \/ Handled(x)' \/ AtCursor(x)'
    BY <1>1, <2>1, <2>3, DecodeQueues DEF Followed
  <2>5. starts' \cup code_seeds' \subseteq queued' \cup DOMAIN claimed'
    BY <1>1, <2>1, DecodeQueues DEF Followed
  <2>6. /\ \A x : decoded_at(x)' = decoded_at(x)
        /\ \A x : is_exec(x)' = is_exec(x)
        /\ \A j : branch_target(j)' = branch_target(j)
    BY <1>1, SameImage
  <2>7. ASSUME NEW x \in DOMAIN claimed', NEW j, j = decoded_at(x)'
        PROVE  /\ continues(j) => Handled(x + j.size)' \/ AtCursor(x + j.size)'
               /\ is_exec(branch_target(j)) =>
                     branch_target(j) \in queued' /\ (is_call(j) => branch_target(j) \in confident')
    <3>1. CASE x = rva
      BY <2>2, <2>6, <2>7, <3>1, DecodeFollows
    <3>2. CASE x \in DOMAIN claimed
      BY <1>1, <2>1, <2>3, <2>6, <2>7, <3>2, DecodeQueues DEF Followed
    <3> QED BY <1>1, <3>1, <3>2
  <2> QED BY <2>4, <2>5, <2>6, <2>7 DEF Followed, continues, ends_path, is_ret, is_call
<1> QED BY <1>4, <1>5

LEMMA SweepSeed ==
  ASSUME SweepInv, Seed
  PROVE  SweepInv'
<1>1. \A slot \in pointer_slots : code_pointer(slot) # None
  BY DEF pointer_slots, relocation_slots, data_slots, data_hits, names_code, Class
<1>2. \A t : is_exec(t) => t \in Int
  BY DEF is_exec
<1>3. confident_seeds \cup code_seeds' \subseteq Int
  BY <1>1, <1>2 DEF Seed, confident_seeds, code_pointer
<1> QED BY <1>3 DEF SweepInv, Phases, Followed, Seed, given, decoding

LEMMA SweepStep ==
  ASSUME AskedWhenDone, SweepInv, [Next]_vars
  PROVE  SweepInv'
<1>1. CASE Ask
  <2>1. UNCHANGED <<given, phase, sweeping, undecodable, table>> /\ Done
    BY <1>1, QuestionsOnlyRemember, QuestionsComeLast
  <2>2. Phases'
    BY <2>1 DEF SweepInv, Phases, Done, sweeping, table, given
  <2>3. Followed => Followed'
    BY <2>1, SameImage DEF Followed, Handled, AtCursor, sweeping, table, given,
       continues, ends_path, is_ret, is_call
  <2> QED BY <2>1, <2>2, <2>3 DEF SweepInv, sweeping
<1>2. CASE UNCHANGED vars
  BY <1>2, SameImage DEF SweepInv, Phases, Followed, Handled, AtCursor, vars, avars, sweeping,
     table, given, decoding, continues, ends_path, is_ret, is_call
<1>3. CASE Analyse
  <2>1. ASSUME NEW rva \in pending, Sweep(rva) PROVE SweepInv'
    <3>1. /\ UNCHANGED <<given, phase, queued, decoding, table, budget_left, budget_exhausted>>
          /\ pending' = pending \ {rva} /\ cursor = None /\ phase = "sweep"
          /\ cursor' \in [at : Int, left : Nat \ {0}] /\ cursor'.at = rva
      BY <2>1, ConfigAssumption DEF Sweep, SweepInv, Phases
    <3>2. cursor' # None
      BY <3>1, ConfigAssumption
    <3>3. Phases'
      BY <3>1 DEF SweepInv, Phases, given, decoding, table
    <3>4. Followed => Followed'
      BY <3>1, <3>2, SameImage DEF Followed, Handled, AtCursor, given, table, decoding,
         continues, ends_path, is_ret, is_call
    <3> QED BY <3>1, <3>3, <3>4 DEF SweepInv
  <2>2. CASE GiveUp
    BY <2>2 DEF GiveUp, SweepInv, Phases, given, decoding, table
  <2>3. CASE StopAtDecoded
    <3>1. /\ UNCHANGED <<given, phase, pending, queued, decoding, table, budget_left, budget_exhausted>>
          /\ cursor' = None /\ cursor # None /\ cursor.at \in DOMAIN size_at
      BY <2>3 DEF StopAtDecoded, is_decoded
    <3>2. Phases'
      BY <3>1 DEF SweepInv, Phases, given, decoding, table
    <3>3. cursor.at \in DOMAIN claimed
      BY <3>1 DEF SweepInv, Phases
    <3>4. Followed => Followed'
      BY <3>1, <3>3, SameImage DEF Followed, Handled, AtCursor, given, table, decoding,
         continues, ends_path, is_ret, is_call
    <3> QED BY <3>1, <3>2, <3>4 DEF SweepInv
  <2>4. CASE StopAtUndecodable
    <3>1. /\ UNCHANGED <<given, phase, pending, queued, table, size_at, budget_left, budget_exhausted>>
          /\ cursor' = None /\ undecodable' = undecodable \cup {cursor.at}
      BY <2>4 DEF StopAtUndecodable
    <3>2. Phases'
      BY <3>1 DEF SweepInv, Phases, given, table
    <3>3. Followed => Followed'
      BY <3>1, SameImage DEF Followed, Handled, AtCursor, given, table,
         continues, ends_path, is_ret, is_call
    <3> QED BY <3>1, <3>2, <3>3 DEF SweepInv
  <2>5. CASE Finish
    <3>1. /\ UNCHANGED <<given, sweeping, decoding, confident, claimed>>
          /\ phase' = "done" /\ pending = {} /\ cursor = None
          /\ starts' \cup code_seeds' \subseteq starts \cup code_seeds
      BY <2>5 DEF Finish, prune_starts_inside_functions, starts_inside_functions
    <3>2. Phases'
      BY <3>1 DEF SweepInv, Phases, given, sweeping, decoding
    <3>3. Followed => Followed'
      BY <3>1, SameImage DEF Followed, Handled, AtCursor, given, sweeping, decoding,
         continues, ends_path, is_ret, is_call
    <3> QED BY <3>1, <3>2, <3>3 DEF SweepInv, sweeping
  <2> QED BY <1>3, <2>1, <2>2, <2>3, <2>4, <2>5, SweepSeed, SweepDecode DEF Analyse, ANext
<1> QED BY <1>1, <1>2, <1>3 DEF Next

LEMMA SweepHolds == Spec => []SweepInv
<1>1. AskedWhenDone /\ SweepInv /\ [Next]_vars => (AskedWhenDone /\ SweepInv)'
  BY SweepStep, QuestionsComeLast
<1> QED BY <1>1, SweepInit, PTL DEF Spec

(* A sweep that did not run out of budget has followed everything.         *)
THEOREM NothingNamedIsForgotten == Spec => []SweepClosed
<1>1. SweepInv => SweepClosed
  BY DEF SweepInv, Phases, Followed, SweepClosed, Done, AtCursor, Handled, continues,
     ends_path, is_ret
<1> QED BY <1>1, SweepHolds, PTL

-----------------------------------------------------------------------------
(* The constant tracker says what the image's words give, where no two     *)
(* registers overlap.                                                      *)

Separate == \A r \in Regs : Overlaps[r] \subseteq {r}

Agree(known, held) ==
  /\ DOMAIN known \subseteq Regs /\ DOMAIN held = Regs
  /\ \A r \in DOMAIN known : held[r] \in {known[r], None}

ConstantsInv == DOMAIN actual = Regs /\ (cursor # None => Agree(regs, actual))

(* An address computed from known registers is the one the processor uses, *)
(* unless a register it depends on came from a changed word.               *)
LEMMA AddressIsTrue ==
  ASSUME NEW rva, NEW i, NEW o, Agree(regs, actual), operand_address(rva, i, o, regs) # None,
         ~Strayed(o)
  PROVE  operand_address(rva, i, o, actual) = operand_address(rva, i, o, regs)
<1>1. CASE address_without_registers(rva, i, o) # None \/ o.kind # "mem"
  BY <1>1 DEF operand_address
<1>2. CASE address_without_registers(rva, i, o) = None /\ o.kind = "mem"
  <2>1. \A r \in {o.base, o.index} \cap DOMAIN regs : r \in Regs /\ actual[r] = regs[r]
    BY <1>2 DEF Strayed, Agree
  <2>2. None \notin Regs /\ DOMAIN regs \subseteq Regs /\ DOMAIN actual = Regs
    BY RegisterAssumption DEF Agree
  <2> QED BY <1>2, <2>1, <2>2 DEF operand_address
<1> QED BY <1>1, <1>2

LEMMA NowhereReadsNothing ==
  image \in Images => read_pointer(va_to_rva(None)) = None
<1> SUFFICES ASSUME image \in Images PROVE read_pointer(va_to_rva(None)) = None
  OBVIOUS
<1>1. None \notin Base..(Base + Span - 1)
  BY AddressAssumption
<1>2. None \notin DOMAIN image.words
  BY ImageAssumption
<1> QED BY <1>1, <1>2 DEF va_to_rva, read_pointer

(* What the tracker says an instruction leaves is what it leaves.          *)
LEMMA ConstantIsTrue ==
  ASSUME image \in Images, Separate, Agree(regs, actual), NEW rva, NEW i, i = decoded_at(rva), i # None,
         NEW held \in Effect(rva, i)
  PROVE  Agree(observe(rva, i, regs), held)
<1> DEFINE v       == produced_constant(rva, i, regs)
           dst     == i.ops[1].reg
           o       == i.ops[2]
           known   == operand_address(rva, i, o, regs)
           address == operand_address(rva, i, o, actual)
           word    == read_pointer(va_to_rva(address))
           Left    == CASE i.op = "mov" /\ o.kind = "imm" -> {o.value}
                        [] i.op \in {"mov", "lea"} /\ o.kind = "mem" ->
                               IF Strayed(o) THEN {None}
                               ELSE IF i.op = "lea" THEN (IF address = None THEN Values ELSE {address})
                               ELSE IF word = None THEN Values ELSE {word, None}
                        [] OTHER -> Values
           Sets    == {[r \in Regs |-> IF r = dst THEN x ELSE IF r \in Overlaps[dst] THEN y ELSE actual[r]]
                         : x \in Left, y \in Values}
<1>1. DOMAIN held = Regs
  BY DEF Effect, Agree
<1>2. CASE v = None
  BY <1>1, <1>2 DEF observe, NoRegs, Agree
<1>3. CASE v # None
  <2>1. /\ i.op \in {"mov", "lea"} /\ Len(i.ops) = 2 /\ i.ops[1].kind = "reg" /\ ~is_call(i)
    BY <1>3 DEF produced_constant, is_call
  <2>2. dst \in Regs
    <3>1. i \in {image.code[x] : x \in DOMAIN image.code} /\ DOMAIN i.ops = 1..Len(i.ops)
      BY ImageAssumption DEF decoded_at
    <3>2. 1 \in DOMAIN i.ops
      BY <3>1, <2>1
    <3> QED BY <3>1, <3>2, <2>1, RegisterAssumption
  <2>3. held \in Sets
    BY <2>1 DEF Effect
  <2>4. \A x \in Left : x \in {v, None}
    <3>1. CASE i.op = "mov" /\ o.kind = "imm"
      <4>1. v = o.value
        BY <2>1, <3>1 DEF produced_constant
      <4>2. Left = {o.value}
        BY <3>1
      <4> QED BY <4>1, <4>2
    <3>2. CASE ~(i.op = "mov" /\ o.kind = "imm")
      <4>1. v = IF i.op = "lea" THEN known ELSE read_pointer(va_to_rva(known))
        BY <2>1, <3>2 DEF produced_constant
      <4>2. known # None
        BY <4>1, <1>3, NowhereReadsNothing
      <4>3. o.kind = "mem"
        BY <4>2 DEF operand_address, address_without_registers
      <4>4. ~Strayed(o) => address = known
        BY <4>2, AddressIsTrue
      <4>5. Left = IF Strayed(o) THEN {None}
                   ELSE IF i.op = "lea" THEN (IF address = None THEN Values ELSE {address})
                   ELSE IF word = None THEN Values ELSE {word, None}
        BY <2>1, <3>2, <4>3
      <4> HIDE DEF Left, v, known
      <4> QED BY <1>3, <4>1, <4>2, <4>4, <4>5
    <3> QED BY <3>1, <3>2
  <2>5. observe(rva, i, regs) = [r \in DOMAIN regs \cup {dst} |-> IF r = dst THEN v ELSE regs[r]]
    BY <1>3 DEF observe
  <2>6. /\ held[dst] \in {v, None}
        /\ \A r \in Regs \ {dst} : held[r] = actual[r]
    <3> HIDE DEF Left, v
    <3> QED BY <2>2, <2>3, <2>4 DEF Separate
  <2> HIDE DEF Sets, v, Left
  <2> QED BY <1>1, <2>2, <2>5, <2>6 DEF Agree
<1> QED BY <1>2, <1>3

LEMMA ConstantsStep ==
  ASSUME Separate, SweepInv, AskedWhenDone, ConstantsInv, [Next]_vars
  PROVE  ConstantsInv'
<1>1. CASE Ask
  BY <1>1, QuestionsOnlyRemember DEF ConstantsInv, Agree, sweeping
<1>2. CASE UNCHANGED vars
  BY <1>2 DEF ConstantsInv, Agree, vars, avars, sweeping
<1>3. CASE Analyse
  <2>1. DOMAIN actual' = Regs
    <3>1. \A rva, i : \A held \in Effect(rva, i) : held = actual \/ DOMAIN held = Regs
      BY DEF Effect
    <3> QED BY <1>3, <3>1 DEF Analyse, ConstantsInv
  <2>2. ASSUME cursor' # None PROVE Agree(regs', actual')
    <3>1. CASE cursor = None
      <4>1. PICK rva \in pending : Sweep(rva)
        BY <1>3, <2>2, <3>1 DEF Analyse, ANext, Seed, GiveUp, StopAtDecoded, StopAtUndecodable,
           Decode, Finish, sweeping
      <4> QED BY <4>1, <2>1 DEF Sweep, NoRegs, Agree
    <3>2. CASE cursor # None
      <4>1. Decode
        BY <1>3, <2>2, <3>2 DEF Analyse, ANext, Seed, GiveUp, StopAtDecoded, StopAtUndecodable,
           Finish, Sweep, SweepInv, Phases
      <4>2. regs' = observe(cursor.at, decoded_at(cursor.at), regs) /\ decoded_at(cursor.at) # None
        BY <4>1 DEF Decode
      <4>3. actual' \in Effect(cursor.at, decoded_at(cursor.at))
        BY <1>3, <2>2, <3>2 DEF Analyse
      <4>4. image \in Images /\ Agree(regs, actual)
        BY <3>2 DEF SweepInv, Phases, ConstantsInv
      <4> QED BY <4>2, <4>3, <4>4, ConstantIsTrue
    <3> QED BY <3>1, <3>2
  <2> QED BY <2>1, <2>2 DEF ConstantsInv, Agree
<1> QED BY <1>1, <1>2, <1>3 DEF Next

(* What the tracker takes for constant is what the register holds, unless  *)
(* a word of memory it depends on was changed at run time.                 *)
THEOREM ConstantsAreTheImages == Separate => (Spec => []ConstantsTrue)
<1> SUFFICES ASSUME Separate PROVE Spec => []ConstantsTrue
  OBVIOUS
<1>1. Init => AskedWhenDone /\ SweepInv /\ ConstantsInv
  BY SweepInit DEF Init, AInit, ConstantsInv
<1>2. AskedWhenDone /\ SweepInv /\ ConstantsInv /\ [Next]_vars
        => (AskedWhenDone /\ SweepInv /\ ConstantsInv)'
  BY SweepStep, QuestionsComeLast, ConstantsStep
<1>3. ConstantsInv => ConstantsTrue
  BY DEF ConstantsInv, ConstantsTrue, Agree
<1> QED BY <1>1, <1>2, <1>3, PTL DEF Spec

-----------------------------------------------------------------------------
(* What nothing refers to is not referred to.                              *)

LEMMA SpanIsTheEnd ==
  ASSUME image \in Images
  PROVE  /\ Span \in Nat
         /\ \E s \in image.sections : s.end = Span
         /\ \A s \in image.sections : s.end <= Span
<1> DEFINE S == image.sections
           Good == {T \in SUBSET S : T # {} => \E s \in T : \A x \in T : x.end <= s.end}
<1>1. IsFiniteSet(S) /\ S # {} /\ \A s \in S : s.end \in Nat
  BY ImageAssumption
<1>2. {} \in Good
  OBVIOUS
<1>3. ASSUME NEW T \in SUBSET S, NEW x \in S \ T, T \in Good PROVE T \cup {x} \in Good
  <2>1. CASE T = {}
    BY <1>1, <2>1
  <2>2. CASE T # {}
    <3>1. PICK s \in T : \A y \in T : y.end <= s.end
      BY <1>3, <2>2
    <3>2. CASE x.end <= s.end
      BY <3>1, <3>2
    <3>3. CASE ~(x.end <= s.end)
      <4>1. \A y \in T \cup {x} : y.end <= x.end
        BY <1>1, <3>1, <3>3
      <4> QED BY <4>1
    <3> QED BY <3>2, <3>3
  <2> QED BY <2>1, <2>2
<1> HIDE DEF Good
<1>4. S \in Good
  BY <1>1, <1>2, <1>3, SubsetInduction
<1>5. PICK s \in S : \A x \in S : x.end <= s.end
  BY <1>1, <1>4 DEF Good
<1>6. \E e \in {x.end : x \in S} : \A x \in S : x.end <= e
  BY <1>5
<1>7. Span \in {x.end : x \in S} /\ \A x \in S : x.end <= Span
  BY <1>6 DEF Span
<1> QED BY <1>1, <1>7

(* Nothing leads out of C.                                                 *)
ClosedUnder(C, next) == \A x \in C \cap DOMAIN next : next[x] \subseteq C

(* Each round of a closure adds to the elements that lead anywhere, or was *)
(* the last: there are enough rounds.                                      *)
LEMMA RoundsSuffice ==
  ASSUME NEW next, IsFiniteSet(DOMAIN next), NEW f, NEW last, last = Cardinality(DOMAIN next),
         \A n \in 1..last : f[n] = f[n - 1] \cup UNION {next[x] : x \in f[n - 1] \cap DOMAIN next}
  PROVE  ClosedUnder(f[last], next)
<1> DEFINE E(n) == f[n] \cap DOMAIN next
           Good == {k \in Nat : k \in 0..last => ClosedUnder(f[k], next) \/ Cardinality(E(k)) >= k + 1}
<1>0. last \in Nat
  BY FS_CardinalityType
<1>1. \A n : IsFiniteSet(E(n)) /\ Cardinality(E(n)) \in Nat /\ Cardinality(E(n)) <= last
  <2> SUFFICES ASSUME NEW n
               PROVE IsFiniteSet(E(n)) /\ Cardinality(E(n)) \in Nat /\ Cardinality(E(n)) <= last
    OBVIOUS
  <2>1. E(n) \in SUBSET DOMAIN next
    OBVIOUS
  <2> HIDE DEF E
  <2> QED BY <2>1, FS_Subset, FS_CardinalityType
<1>2. 0 \in Good
  <2>1. CASE E(0) = {}
    BY <2>1 DEF ClosedUnder
  <2>2. CASE E(0) # {}
    <3>1. IsFiniteSet(E(0)) /\ Cardinality(E(0)) \in Nat
      BY <1>1
    <3>2. Cardinality(E(0)) # 0
      BY <2>2, <3>1, FS_EmptySet
    <3> QED BY <3>1, <3>2
  <2> QED BY <2>1, <2>2
<1>3. ASSUME NEW k \in Nat, k \in Good PROVE k + 1 \in Good
  <2> SUFFICES ASSUME k + 1 \in 0..last, ~ClosedUnder(f[k + 1], next)
               PROVE  Cardinality(E(k + 1)) >= k + 2
    OBVIOUS
  <2>1. k \in 0..last /\ k + 1 \in 1..last /\ (k + 1) - 1 = k
    BY <1>0
  <2>2. f[k + 1] = f[k] \cup UNION {next[x] : x \in f[k] \cap DOMAIN next}
    BY <2>1
  <2>3. ~ClosedUnder(f[k], next)
    <3> SUFFICES ASSUME ClosedUnder(f[k], next) PROVE FALSE
      OBVIOUS
    <3>1. f[k + 1] = f[k]
      BY <2>2 DEF ClosedUnder
    <3> QED BY <3>1
  <2>4. Cardinality(E(k)) >= k + 1
    BY <1>3, <2>1, <2>3
  <2>5. E(k) # E(k + 1)
    BY <2>2 DEF ClosedUnder
  <2>6. E(k) \in SUBSET E(k + 1)
    BY <2>2
  <2>7. /\ IsFiniteSet(E(k + 1)) /\ Cardinality(E(k)) \in Nat /\ Cardinality(E(k + 1)) \in Nat
    BY <1>1
  <2> HIDE DEF E
  <2>8. Cardinality(E(k)) <= Cardinality(E(k + 1)) /\ Cardinality(E(k)) # Cardinality(E(k + 1))
    BY <2>5, <2>6, <2>7, FS_Subset
  <2> QED BY <2>4, <2>7, <2>8
<1> HIDE DEF Good
<1>4. last \in Good
  BY <1>0, <1>2, <1>3, Induction
<1>5. ~(Cardinality(E(last)) >= last + 1)
  <2>1. Cardinality(E(last)) \in Nat /\ Cardinality(E(last)) <= last
    BY <1>1
  <2> HIDE DEF E
  <2> QED BY <1>0, <2>1
<1> HIDE DEF E
<1> QED BY <1>0, <1>4, <1>5 DEF Good

(* A closure is the least set that has S and nothing leads out of.         *)
LEMMA ClosureIsLeast ==
  ASSUME NEW S, NEW next, IsFiniteSet(DOMAIN next)
  PROVE  /\ S \subseteq Closure(S, next)
         /\ ClosedUnder(Closure(S, next), next)
         /\ \A H : S \subseteq H /\ ClosedUnder(H, next) => Closure(S, next) \subseteq H
<1> DEFINE last == Cardinality(DOMAIN next)
           More(T) == T \cup UNION {next[x] : x \in T \cap DOMAIN next}
           Body(g, n) == IF n = 0 THEN S ELSE More(g[n - 1])
           U == S \cup UNION {next[x] : x \in DOMAIN next}
           step == [T \in SUBSET U |-> More(T)]
<1>1. step \in [SUBSET U -> SUBSET U] /\ S \in SUBSET U
  OBVIOUS
<1>2. last \in Nat
  BY FS_CardinalityType
<1>3. \A T \in SUBSET U : step[T] = More(T)
  OBVIOUS
<1> HIDE DEF step, U
<1>4. PICK f : IsIteration(f, SUBSET U, step, S, last)
  BY <1>1, <1>2, IterationExists
<1> HIDE DEF last
<1>5. ASSUME NEW n \in 0..last PROVE f[n] = Body(f, n)
  <2>1. CASE n = 0
    BY <1>4, <2>1 DEF IsIteration
  <2>2. CASE n \in 1..last
    <3>1. f[n] = step[f[n - 1]] /\ f[n - 1] \in SUBSET U
      BY <1>2, <1>4, <2>2 DEF IsIteration
    <3>2. f[n] = More(f[n - 1])
      BY <3>1, <1>3
    <3> HIDE DEF More
    <3> QED BY <2>2, <3>2
  <2> QED BY <1>2, <2>1, <2>2
<1>6. f = [n \in 0..last |-> Body(f, n)]
  BY <1>4, <1>5 DEF IsIteration
<1> DEFINE grown == CHOOSE g : g = [n \in 0..last |-> Body(g, n)]
<1>7. grown = [n \in 0..last |-> Body(grown, n)]
  BY <1>6
<1>8. Closure(S, next) = grown[last]
  BY DEF Closure, last
<1> HIDE DEF grown
<1>9. grown[0] = S
  BY <1>2, <1>7
<1>10. ASSUME NEW n \in 1..last PROVE grown[n] = More(grown[n - 1])
  <2>1. n \in 0..last /\ n # 0
    OBVIOUS
  <2> QED BY <1>7, <2>1
<1>11. ClosedUnder(grown[last], next)
  BY <1>10, RoundsSuffice DEF last
<1>12. S \subseteq grown[last]
  <2> DEFINE Good == {k \in Nat : k \in 0..last => S \subseteq grown[k]}
  <2>1. 0 \in Good
    BY <1>9
  <2>2. ASSUME NEW k \in Nat, k \in Good PROVE k + 1 \in Good
    <3> SUFFICES ASSUME k + 1 \in 0..last PROVE S \subseteq grown[k + 1]
      OBVIOUS
    <3>1. k \in 0..last /\ k + 1 \in 1..last /\ (k + 1) - 1 = k
      BY <1>2
    <3> QED BY <2>2, <3>1, <1>10
  <2> HIDE DEF Good
  <2>3. last \in Good
    BY <1>2, <2>1, <2>2, Induction
  <2> QED BY <1>2, <2>3 DEF Good
<1>13. ASSUME NEW H, S \subseteq H, ClosedUnder(H, next) PROVE grown[last] \subseteq H
  <2> DEFINE Good == {k \in Nat : k \in 0..last => grown[k] \subseteq H}
  <2>1. 0 \in Good
    BY <1>9, <1>13
  <2>2. ASSUME NEW k \in Nat, k \in Good PROVE k + 1 \in Good
    <3> SUFFICES ASSUME k + 1 \in 0..last PROVE grown[k + 1] \subseteq H
      OBVIOUS
    <3>1. k \in 0..last /\ k + 1 \in 1..last /\ (k + 1) - 1 = k
      BY <1>2
    <3>2. grown[k] \subseteq H /\ grown[k + 1] = More(grown[k])
      BY <2>2, <3>1, <1>10
    <3> QED BY <3>2, <1>13 DEF ClosedUnder
  <2> HIDE DEF Good
  <2>3. last \in Good
    BY <1>2, <2>1, <2>2, Induction
  <2> QED BY <1>2, <2>3 DEF Good
<1> QED BY <1>8, <1>11, <1>12, <1>13

-----------------------------------------------------------------------------
(* "Nothing references t" can be relied on.                                *)

LEMMA SameReferences ==
  ASSUME UNCHANGED <<image, config>>
  PROVE  /\ \A rva, i : classify_refs(rva, i)' = classify_refs(rva, i)
         /\ confident_seeds' = confident_seeds
<1>1. /\ \A va : va_to_rva(va)' = va_to_rva(va)
      /\ \A rva : is_exec(rva)' = is_exec(rva)
  BY SameImage
<1>2. \A rva, i, o : memory_address(rva, i, o)' = memory_address(rva, i, o)
  BY <1>1 DEF memory_address
<1>3. \A rva, i : classify_refs(rva, i)' = classify_refs(rva, i)
  BY <1>1, <1>2 DEF classify_refs
<1>4. confident_seeds' = confident_seeds
  BY <1>1 DEF confident_seeds, Class
<1> QED BY <1>3, <1>4

(* The seeds were queued, what is reported undecodable does not decode, and *)
(* the index has every reference of what was swept.                        *)
Indexed ==
  /\ phase # "seed" => confident_seeds \subseteq queued
  /\ \A rva \in undecodable : decoded_at(rva) = None
  /\ config.collect_xrefs =>
        \A rva \in DOMAIN claimed : \A r \in classify_refs(rva, decoded_at(rva)) :
            \E x \in xrefs : x.target = r.target /\ x.source = rva

LEMMA DecodeIndexes ==
  ASSUME Decode, NEW i, i = decoded_at(cursor.at)
  PROVE  /\ xrefs \subseteq xrefs' /\ queued \subseteq queued'
         /\ config.collect_xrefs => \A r \in classify_refs(cursor.at, i) :
               \E x \in xrefs' : x.target = r.target /\ x.source = cursor.at
<1>1. xrefs \subseteq xrefs' /\ queued \subseteq queued'
  BY DEF Decode
<1>2. ASSUME config.collect_xrefs, NEW r \in classify_refs(cursor.at, i)
      PROVE  [target |-> r.target, source |-> cursor.at, kind |-> r.kind] \in xrefs'
  BY <1>2 DEF Decode
<1> QED BY <1>1, <1>2

LEMMA IndexedStep ==
  ASSUME AskedWhenDone, SweepInv, Indexed, [Next]_vars
  PROVE  Indexed'
<1>1. CASE UNCHANGED <<image, config, phase, queued, undecodable, claimed, xrefs>>
  <2>1. /\ \A rva : decoded_at(rva)' = decoded_at(rva)
        /\ \A rva, i : classify_refs(rva, i)' = classify_refs(rva, i)
        /\ confident_seeds' = confident_seeds
    BY <1>1, SameImage, SameReferences
  <2> QED BY <1>1, <2>1 DEF Indexed
<1>2. CASE Ask
  BY <1>1, <1>2, QuestionsOnlyRemember DEF given, sweeping, found, table
<1>3. CASE UNCHANGED vars
  BY <1>1, <1>3 DEF vars, avars, given, sweeping, decoding, found, table
<1>4. CASE Analyse
  <2>0. UNCHANGED <<image, config>>
    BY <1>4 DEF Analyse, ANext, Seed, GiveUp, StopAtDecoded, StopAtUndecodable, Decode, Finish,
       Sweep, given
  <2>1. /\ \A rva : decoded_at(rva)' = decoded_at(rva)
        /\ \A rva, i : classify_refs(rva, i)' = classify_refs(rva, i)
        /\ confident_seeds' = confident_seeds
    BY <2>0, SameImage, SameReferences
  <2>2. CASE Seed
    <3>1. /\ confident_seeds \subseteq queued' /\ phase = "seed"
          /\ UNCHANGED <<undecodable, claimed>>
      BY <2>2 DEF Seed, decoding
    <3>2. DOMAIN claimed = {}
      BY <3>1 DEF SweepInv, Phases
    <3> QED BY <2>1, <3>1, <3>2 DEF Indexed
  <2>3. CASE StopAtUndecodable
    <3>1. /\ UNCHANGED <<config, phase, queued, claimed, xrefs>>
          /\ undecodable' = undecodable \cup {cursor.at} /\ decoded_at(cursor.at) = None
      BY <2>3 DEF StopAtUndecodable, given, found, table
    <3> QED BY <2>1, <3>1 DEF Indexed
  <2>4. CASE Decode
    <3>1. /\ UNCHANGED <<config, phase, undecodable>>
          /\ DOMAIN claimed' = DOMAIN claimed \cup {cursor.at}
      BY <2>4, DecodeRecords
    <3>2. /\ xrefs \subseteq xrefs' /\ queued \subseteq queued'
          /\ config.collect_xrefs => \A r \in classify_refs(cursor.at, decoded_at(cursor.at)) :
                \E x \in xrefs' : x.target = r.target /\ x.source = cursor.at
      BY <2>4, DecodeIndexes
    <3>3. config'.collect_xrefs => \A rva \in DOMAIN claimed' : \A r \in classify_refs(rva, decoded_at(rva)) :
              \E x \in xrefs' : x.target = r.target /\ x.source = rva
      BY <3>1, <3>2 DEF Indexed
    <3> QED BY <2>1, <3>1, <3>2, <3>3 DEF Indexed
  <2>5. CASE GiveUp
    BY <1>1, <2>5 DEF GiveUp, given, decoding, found, table
  <2>6. CASE StopAtDecoded
    BY <1>1, <2>6 DEF StopAtDecoded, given, decoding, found, table
  <2>7. CASE Finish
    <3>1. /\ UNCHANGED <<config, queued, undecodable, claimed, xrefs>>
          /\ phase = "sweep"
      BY <2>7 DEF Finish, given, sweeping, decoding, found
    <3> QED BY <2>1, <3>1 DEF Indexed
  <2>8. ASSUME NEW rva \in pending, Sweep(rva) PROVE Indexed'
    BY <1>1, <2>8 DEF Sweep, given, decoding, found, table
  <2> QED BY <1>4, <2>2, <2>3, <2>4, <2>5, <2>6, <2>7, <2>8 DEF Analyse, ANext
<1> QED BY <1>2, <1>3, <1>4 DEF Next

(* What a slot at no address holds is no code address.                     *)
LEMMA NowhereIsNoCode ==
  image \in Images => code_pointer(va_to_rva(None)) = None
<1> SUFFICES ASSUME image \in Images PROVE code_pointer(va_to_rva(None)) = None
  OBVIOUS
<1>1. va_to_rva(None) = None /\ ~is_exec(None)
  BY AddressAssumption DEF va_to_rva, is_exec
<1>2. read_pointer(None) = None
  BY <1>1, NowhereReadsNothing
<1> QED BY <1>1, <1>2 DEF code_pointer

LEMMA OnlyAddresses ==
  ASSUME image \in Images
  PROVE  /\ \A va : va_to_rva(va) # None => va_to_rva(va) \in Int
         /\ \A slot : code_pointer(slot) # None => is_exec(code_pointer(slot))
<1>1. Span \in Nat /\ Base \in Nat
  BY SpanIsTheEnd, AddressAssumption
<1> QED BY <1>1 DEF va_to_rva, code_pointer

(* A table that was not cut short was read to its end.                     *)
LEMMA RunIsRead ==
  ASSUME NEW b \in Int, Cardinality(table_slots(b)) # MaxEntries
  PROVE  TableAt(b) \subseteq table_slots(b)
<1> DEFINE Filled(j) == code_pointer(b + j * Stride) # None
           Slot(k) == b + k * Stride
<1>1. MaxEntries \in Nat /\ Stride \in Nat \ {0}
  BY ConfigAssumption, AddressAssumption
<1>2. SUFFICES ASSUME NEW k \in Nat, \A j \in 0..k : Filled(j)
               PROVE  Slot(k) \in table_slots(b)
  BY DEF TableAt
<1>3. CASE k < MaxEntries
  <2>1. k \in 0..(MaxEntries - 1)
    BY <1>1, <1>3
  <2> QED BY <1>2, <2>1 DEF table_slots
<1>4. CASE ~(k < MaxEntries)
  <2> DEFINE K == 0..(MaxEntries - 1)
             slot == [n \in K |-> Slot(n)]
  <2>1. \A n \in K : n \in 0..k /\ \A j \in 0..n : j \in 0..k
    BY <1>1, <1>4
  <2>2. \A n \in K : \A j \in 0..n : Filled(j)
    BY <1>2, <2>1
  <2>3. table_slots(b) = {Slot(n) : n \in K}
    <3>1. {n \in K : \A j \in 0..n : Filled(j)} = K
      <4> HIDE DEF Filled, K
      <4> QED BY <2>2
    <3>2. table_slots(b) = {Slot(n) : n \in {n \in K : \A j \in 0..n : Filled(j)}}
      BY DEF table_slots
    <3> HIDE DEF Filled, Slot, K
    <3> QED BY <3>1, <3>2
  <2>4. \A m, n \in K : Slot(m) = Slot(n) => m = n
    <3> SUFFICES ASSUME NEW m \in K, NEW n \in K, m < n PROVE Slot(m) # Slot(n)
      <4>1. \A m, n \in K : m < n \/ n < m \/ m = n
        OBVIOUS
      <4> HIDE DEF Slot
      <4> QED BY <4>1
    <3>1. n = m + (n - m) /\ n - m \in Nat \ {0}
      OBVIOUS
    <3>2. n * Stride = m * Stride + (n - m) * Stride
      BY <1>1, <3>1
    <3>3. (n - m) * Stride > 0
      BY <1>1, <3>1
    <3>4. m * Stride \in Int /\ n * Stride \in Int /\ (n - m) * Stride \in Int
      BY <1>1
    <3> QED BY <3>2, <3>3, <3>4
  <2>5. slot \in Bijection(K, table_slots(b))
    <3>1. slot \in [K -> table_slots(b)] /\ DOMAIN slot = K
      BY <2>3
    <3>2. \A m, n \in K : slot[m] = slot[n] => m = n
      BY <2>4
    <3>3. \A x \in table_slots(b) : \E n \in K : slot[n] = x
      BY <2>3
    <3> HIDE DEF slot, K
    <3> QED BY <3>1, <3>2, <3>3 DEF Bijection, Injection, Surjection, IsInjective
  <2>6. IsFiniteSet(K) /\ Cardinality(K) = MaxEntries
    <3>1. 0 \in Int /\ MaxEntries - 1 \in Int
      BY <1>1
    <3>2. /\ IsFiniteSet(0..(MaxEntries - 1))
          /\ Cardinality(0..(MaxEntries - 1))
               = IF 0 > MaxEntries - 1 THEN 0 ELSE (MaxEntries - 1) - 0 + 1
      BY <3>1, FS_Interval
    <3>3. (IF 0 > MaxEntries - 1 THEN 0 ELSE (MaxEntries - 1) - 0 + 1) = MaxEntries
      BY <1>1
    <3> QED BY <3>2, <3>3
  <2>7. Cardinality(table_slots(b)) = MaxEntries
    <3> HIDE DEF K, slot
    <3>1. ExistsBijection(K, table_slots(b))
      BY <2>5 DEF ExistsBijection
    <3> QED BY <2>6, <3>1, FS_Bijection
  <2> QED BY <2>7
<1> QED BY <1>3, <1>4

(* What the result says of tables, and that where an indirect branch goes  *)
(* through them or a slot was queued.                                      *)
Reading ==
  /\ \A b \in DOMAIN slot_tables :
        b \in Int /\ (Cardinality(table_slots(b)) = MaxEntries => slot_tables[b].truncated)
  /\ config.collect_xrefs => \A rva \in DOMAIN claimed :
        LET i == decoded_at(rva) IN
        is_indirect_branch(i) =>
           /\ is_table_mem(i.ops[1]) /\ va_to_rva(i.ops[1].disp) # None =>
                 \A slot \in table_slots(va_to_rva(i.ops[1].disp)) : code_pointer(slot) \in queued
           /\ code_pointer(memory_address(rva, i, i.ops[1])) \in queued \cup {None}

(* An indirect branch has one operand.                                     *)
LEMMA OneOperand ==
  ASSUME image \in Images, NEW rva, decoded_at(rva) # None, is_indirect_branch(decoded_at(rva))
  PROVE  /\ Operands(decoded_at(rva)) = {decoded_at(rva).ops[1]}
         /\ branch_target(decoded_at(rva)) = None
<1> DEFINE i == decoded_at(rva)
<1>1. i = image.code[rva] /\ rva \in DOMAIN image.code
  BY DEF decoded_at
<1>2. Len(i.ops) = 1 /\ DOMAIN i.ops = 1..Len(i.ops)
  BY <1>1, OperandAssumption, ImageAssumption
<1> HIDE DEF i
<1>3. DOMAIN i.ops = {1}
  BY <1>2
<1>4. Operands(i) = {i.ops[1]}
  BY <1>3 DEF Operands
<1>5. branch_target(i) = None
  BY <1>4 DEF branch_target, is_indirect_branch, i
<1> QED BY <1>4, <1>5 DEF i

LEMMA DecodeReads ==
  ASSUME image \in Images, Decode, config.collect_xrefs,
         NEW i, i = decoded_at(cursor.at), is_indirect_branch(i)
  PROVE  /\ is_table_mem(i.ops[1]) /\ va_to_rva(i.ops[1].disp) # None =>
               \A slot \in table_slots(va_to_rva(i.ops[1].disp)) : code_pointer(slot) \in queued'
         /\ code_pointer(memory_address(cursor.at, i, i.ops[1])) \in queued' \cup {None}
<1> DEFINE rva == cursor.at
           o   == i.ops[1]
<1>1. i # None /\ Operands(i) = {o} /\ branch_target(i) = None
  BY DecodeRecords, OneOperand
<1>2. ASSUME is_table_mem(o), va_to_rva(o.disp) # None,
             NEW slot \in table_slots(va_to_rva(o.disp))
      PROVE  code_pointer(slot) \in queued'
  <2>1. o.kind # "imm"
    BY <1>2 DEF is_table_mem
  <2>2. [target |-> va_to_rva(o.disp), kind |-> "TABLE"] \in classify_refs(rva, i)
    BY <1>1, <1>2, <2>1 DEF classify_refs
  <2>3. va_to_rva(o.disp) \in table_bases(rva, i)
    BY <2>2 DEF table_bases
  <2> QED BY <1>2, <2>3 DEF Decode
<1>3. ASSUME NEW t, t = code_pointer(memory_address(rva, i, o)), t # None PROVE t \in queued'
  <2> DEFINE fixed == address_without_registers(rva, i, o)
  <2>1. fixed # None
    BY <1>3, NowhereIsNoCode DEF memory_address
  <2>2. o.kind = "mem"
    BY <2>1 DEF address_without_registers
  <2>3. operand_address(rva, i, o, regs) = fixed
    BY <2>1 DEF operand_address
  <2>4. resolve_branch(rva, i, regs) = t
    <3>1. {x \in Operands(i) : x.kind = "mem"} = {o}
      BY <1>1, <2>2
    <3>2. code_pointer(va_to_rva(operand_address(rva, i, o, regs))) = t
      BY <1>3, <2>3 DEF memory_address
    <3> HIDE DEF o
    <3>3. {code_pointer(va_to_rva(operand_address(rva, i, x, regs)))
             : x \in {x \in Operands(i) : x.kind = "mem"}} \ {None} = {t}
      BY <1>3, <3>1, <3>2
    <3> QED BY <3>3 DEF resolve_branch
  <2>5. is_exec(t)
    BY <1>3, OnlyAddresses
  <2> HIDE DEF fixed, o
  <2> QED BY <1>1, <1>3, <2>4, <2>5 DEF Decode
<1> QED BY <1>2, <1>3

LEMMA DecodeTables ==
  ASSUME image \in Images, Decode,
         \A b \in DOMAIN slot_tables :
            b \in Int /\ (Cardinality(table_slots(b)) = MaxEntries => slot_tables[b].truncated)
  PROVE  \A b \in DOMAIN slot_tables' :
            b \in Int /\ (Cardinality(table_slots(b)) = MaxEntries => slot_tables'[b].truncated)
<1> DEFINE rva   == cursor.at
           i     == decoded_at(rva)
           bases == IF config.collect_xrefs THEN table_bases(rva, i) ELSE {}
<1>1. slot_tables' = absorb_tables(rva, bases)
  BY DEF Decode
<1>2. bases \subseteq Int
  <2>1. \A r \in classify_refs(rva, i) : r.target # None
    BY DEF classify_refs
  <2>2. \A r \in classify_refs(rva, i) : r.kind = "TABLE" => \E va : r.target = va_to_rva(va)
    BY DEF classify_refs
  <2>3. \A o : memory_address(rva, i, o) # None => memory_address(rva, i, o) \in Int
    BY OnlyAddresses DEF memory_address
  <2> QED BY <2>1, <2>2, <2>3, OnlyAddresses DEF table_bases
<1>3. \A b : SlotTable(rva, b).truncated <=> Cardinality(table_slots(b)) = MaxEntries
  BY DEF SlotTable
<1> HIDE DEF bases, rva
<1>4. /\ DOMAIN slot_tables' \subseteq DOMAIN slot_tables \cup bases
      /\ \A b \in DOMAIN slot_tables' :
            \/ slot_tables'[b] = SlotTable(rva, b)
            \/ b \in DOMAIN slot_tables /\ slot_tables'[b] = slot_tables[b]
  BY <1>1 DEF absorb_tables
<1> QED BY <1>2, <1>3, <1>4

LEMMA ReadingStep ==
  ASSUME AskedWhenDone, SweepInv, Reading, [Next]_vars
  PROVE  Reading'
<1>0. image \in Images
  BY DEF SweepInv, Phases
<1>1. ASSUME UNCHANGED <<image, config>>
      PROVE  /\ \A rva : decoded_at(rva)' = decoded_at(rva)
             /\ \A slot : code_pointer(slot)' = code_pointer(slot)
             /\ \A va : va_to_rva(va)' = va_to_rva(va)
             /\ \A rva, i, o : memory_address(rva, i, o)' = memory_address(rva, i, o)
             /\ \A b : table_slots(b)' = table_slots(b)
  <2>1. /\ \A rva : decoded_at(rva)' = decoded_at(rva)
        /\ \A slot : code_pointer(slot)' = code_pointer(slot)
        /\ \A va : va_to_rva(va)' = va_to_rva(va)
    BY <1>1, SameImage
  <2>2. \A rva, i, o : memory_address(rva, i, o)' = memory_address(rva, i, o)
    BY <2>1 DEF memory_address
  <2>3. \A b : table_slots(b)' = table_slots(b)
    BY <2>1 DEF table_slots
  <2> QED BY <2>1, <2>2, <2>3
<1>2. CASE UNCHANGED <<image, config, slot_tables, claimed>> /\ queued \subseteq queued'
  BY <1>1, <1>2 DEF Reading, is_indirect_branch, is_call, is_jmp, is_cond, Operands, is_table_mem
<1>3. CASE Ask
  BY <1>2, <1>3, QuestionsOnlyRemember DEF given, sweeping, found, table
<1>4. CASE UNCHANGED vars
  BY <1>2, <1>4 DEF vars, avars, given, sweeping, found, table
<1>5. CASE Analyse
  <2>1. CASE Seed
    <3>1. UNCHANGED <<image, config, slot_tables, claimed>> /\ phase = "seed"
      BY <2>1 DEF Seed, given
    <3>2. DOMAIN claimed = {}
      BY <3>1 DEF SweepInv, Phases
    <3> QED BY <1>1, <3>1, <3>2 DEF Reading
  <2>2. CASE Decode
    <3>1. UNCHANGED <<image, config>> /\ DOMAIN claimed' = DOMAIN claimed \cup {cursor.at}
      BY <2>2, DecodeRecords
    <3>2. queued \subseteq queued'
      BY <2>2, DecodeQueues
    <3>3. \A b \in DOMAIN slot_tables' :
             b \in Int /\ (Cardinality(table_slots(b)) = MaxEntries => slot_tables'[b].truncated)
      BY <1>0, <2>2, DecodeTables DEF Reading
    <3>4. ASSUME config.collect_xrefs, NEW rva \in DOMAIN claimed', NEW i, i = decoded_at(rva),
                 is_indirect_branch(i)
          PROVE  /\ is_table_mem(i.ops[1]) /\ va_to_rva(i.ops[1].disp) # None =>
                       \A slot \in table_slots(va_to_rva(i.ops[1].disp)) : code_pointer(slot) \in queued'
                 /\ code_pointer(memory_address(rva, i, i.ops[1])) \in queued' \cup {None}
      <4>1. CASE rva = cursor.at
        BY <1>0, <2>2, <3>4, <4>1, DecodeReads
      <4>2. CASE rva \in DOMAIN claimed
        BY <3>2, <3>4, <4>2 DEF Reading
      <4> QED BY <3>1, <3>4, <4>1, <4>2
    <3> QED BY <1>1, <3>1, <3>3, <3>4
          DEF Reading, is_indirect_branch, is_call, is_jmp, is_cond, Operands, is_table_mem
  <2>3. CASE GiveUp
    BY <1>2, <2>3 DEF GiveUp, given, found, table
  <2>4. CASE StopAtDecoded
    BY <1>2, <2>4 DEF StopAtDecoded, given, found, table
  <2>5. CASE StopAtUndecodable
    BY <1>2, <2>5 DEF StopAtUndecodable, given, found, table
  <2>6. CASE Finish
    BY <1>2, <2>6 DEF Finish, given, sweeping, found
  <2>7. ASSUME NEW rva \in pending, Sweep(rva) PROVE Reading'
    BY <1>2, <2>7 DEF Sweep, given, found, table
  <2> QED BY <1>5, <2>1, <2>2, <2>3, <2>4, <2>5, <2>6, <2>7 DEF Analyse, ANext
<1> QED BY <1>3, <1>4, <1>5 DEF Next

(* Where a settled branch goes was queued.                                 *)
LEMMA SettledIsQueued ==
  ASSUME SweepInv, Reading, config.collect_xrefs, NEW rva \in DOMAIN claimed,
         NEW i, i = decoded_at(rva), is_indirect_branch(i), Settled(rva, i)
  PROVE  Through(rva, i, i.ops[1]) \subseteq queued
<1> DEFINE o == i.ops[1]
<1>1. SUFFICES ASSUME NEW x \in Through(rva, i, o) PROVE x \in queued
  OBVIOUS
<1>2. CASE is_table_mem(o)
  <2> DEFINE b == va_to_rva(o.disp)
  <2>1. b \in DOMAIN slot_tables /\ ~slot_tables[b].truncated
    BY <1>2 DEF Settled
  <2>2. b \in Int /\ Cardinality(table_slots(b)) # MaxEntries /\ b # None
    BY <2>1, AddressAssumption DEF Reading
  <2>3. PICK slot \in TableAt(b) : x = code_pointer(slot)
    BY <1>1, <1>2 DEF Through
  <2> HIDE DEF b
  <2>4. slot \in table_slots(b)
    BY <2>2, <2>3, RunIsRead
  <2> QED BY <1>2, <2>2, <2>3, <2>4 DEF Reading, b
<1>3. CASE ~is_table_mem(o)
  <2>1. x = code_pointer(memory_address(rva, i, o)) /\ x # None
    BY <1>1, <1>3 DEF Through
  <2> QED BY <2>1 DEF Reading
<1> QED BY <1>2, <1>3

(* Control that starts at a seed stays in what was swept.                  *)
LEMMA SweptIsReached ==
  ASSUME SweepInv, Indexed, Reading, Done, ~budget_exhausted, config.collect_xrefs,
         \A rva \in DOMAIN claimed : Settled(rva, decoded_at(rva))
  PROVE  LET exec == [rva \in RVAs |-> {x \in Flow(rva) : is_exec(x)}]
         IN Closure(confident_seeds, exec) \subseteq DOMAIN claimed \cup undecodable
<1> DEFINE H    == DOMAIN claimed \cup undecodable
           exec == [rva \in RVAs |-> {x \in Flow(rva) : is_exec(x)}]
<1>1. Followed /\ cursor = None /\ pending = {} /\ image \in Images
  BY DEF SweepInv, Phases, Done
<1>2. IsFiniteSet(DOMAIN exec)
  <2>1. Span \in Nat
    BY <1>1, SpanIsTheEnd
  <2> HIDE DEF exec
  <2>2. IsFiniteSet(RVAs)
    BY <2>1, FS_Interval DEF RVAs
  <2> QED BY <2>2 DEF exec
<1>3. queued \subseteq H
  BY <1>1 DEF Followed, Handled, AtCursor
<1>4. confident_seeds \subseteq H
  BY <1>3 DEF Indexed, Done
<1>5. ASSUME NEW rva \in H, NEW x \in Flow(rva), is_exec(x) PROVE x \in H
  <2>1. CASE rva \in undecodable
    <3>1. decoded_at(rva) = None
      BY <2>1 DEF Indexed
    <3> QED BY <1>5, <3>1 DEF Flow
  <2>2. CASE rva \in DOMAIN claimed
    <3> DEFINE i == decoded_at(rva)
    <3>1. \/ x = rva + i.size /\ i.op \notin {"ret", "jmp"}
          \/ x = branch_target(i)
          \/ is_indirect_branch(i) /\ x \in Through(rva, i, i.ops[1])
      BY <1>5 DEF Flow, Follow
    <3>2. CASE x = rva + i.size /\ i.op \notin {"ret", "jmp"}
      BY <1>1, <2>2, <3>2 DEF Followed, Handled, AtCursor, continues, ends_path, is_ret
    <3>3. CASE x = branch_target(i)
      <4>1. x \in queued
        BY <1>1, <1>5, <2>2, <3>3 DEF Followed
      <4> QED BY <1>3, <4>1
    <3>4. CASE is_indirect_branch(i) /\ x \in Through(rva, i, i.ops[1])
      BY <1>3, <2>2, <3>4, SettledIsQueued
    <3> QED BY <3>1, <3>2, <3>3, <3>4
  <2> QED BY <2>1, <2>2
<1> HIDE DEF H
<1>6. ClosedUnder(H, exec)
  BY <1>5 DEF ClosedUnder
<1> HIDE DEF exec
<1>7. Closure(confident_seeds, exec) \subseteq H
  BY <1>2, <1>4, <1>6, ClosureIsLeast
<1> QED BY <1>7 DEF H, exec

(* If the index names no gap and every indirect branch is settled, no      *)
(* instruction control can reach from the seeds refers to an address the   *)
(* index has no reference to.                                              *)
THEOREM AbsenceCanBeReliedOn == Spec => []AbsenceIsTrue
<1>1. Init => Indexed /\ Reading
  BY DEF Init, AInit, Indexed, Reading, Empty
<1>2. AskedWhenDone /\ SweepInv /\ Indexed /\ Reading /\ [Next]_vars
        => (AskedWhenDone /\ SweepInv /\ Indexed /\ Reading)'
  BY SweepStep, QuestionsComeLast, IndexedStep, ReadingStep
<1>3. SweepInv /\ Indexed /\ Reading => AbsenceIsTrue
  <2> SUFFICES ASSUME SweepInv, Indexed, Reading, Done, xref_gaps = {},
                      \A rva \in DOMAIN claimed : Settled(rva, decoded_at(rva))
               PROVE  AbsenceIsTrue
    BY DEF AbsenceIsTrue
  <2> DEFINE exec == [rva \in RVAs |-> {x \in Flow(rva) : is_exec(x)}]
             reached == Closure(confident_seeds, exec)
  <2>1. config.collect_xrefs /\ ~budget_exhausted
    BY DEF xref_gaps
  <2>2. reached \subseteq DOMAIN claimed \cup undecodable
    BY <2>1, SweptIsReached
  <2> HIDE DEF reached
  <2>3. \A rva \in reached : decoded_at(rva) # None =>
           \A r \in classify_refs(rva, decoded_at(rva)) :
              \E x \in xrefs : x.target = r.target /\ x.source = rva
    BY <2>1, <2>2 DEF Indexed
  <2> QED BY <2>3 DEF AbsenceIsTrue, reached
<1> QED BY <1>1, <1>2, <1>3, SweepInit, PTL DEF Spec

-----------------------------------------------------------------------------
(* Recursion from the end of a range to its start.                         *)

(* f[r] is given at the ends, and elsewhere by f at a later place.         *)
IsDescent(f, lo, hi, End, last, nx, step) ==
  /\ DOMAIN f = lo..hi
  /\ \A r \in lo..hi : f[r] = IF r \in End THEN last[r] ELSE step[<<r, f[nx[r]]>>]

LEMMA DescentExists ==
  ASSUME NEW hi \in Nat, NEW V, NEW End, NEW last \in [0..hi -> V], NEW nx,
         NEW step \in [(0..hi) \X V -> V],
         \A r \in (0..hi) \ End : nx[r] \in (r + 1)..hi
  PROVE  \E f \in [0..hi -> V] : IsDescent(f, 0, hi, End, last, nx, step)
<1> DEFINE Good == {k \in Nat : k <= hi + 1 =>
                      \E f \in [(hi + 1 - k)..hi -> V] : IsDescent(f, hi + 1 - k, hi, End, last, nx, step)}
<1>1. 0 \in Good
  <2> DEFINE f == [r \in (hi + 1)..hi |-> last[r]]
  <2>1. \A r \in (hi + 1)..hi : FALSE
    OBVIOUS
  <2>2. f \in [(hi + 1)..hi -> V] /\ IsDescent(f, hi + 1, hi, End, last, nx, step)
    BY <2>1 DEF IsDescent
  <2> HIDE DEF f
  <2> QED BY <2>2
<1>2. ASSUME NEW k \in Nat, k \in Good PROVE k + 1 \in Good
  <2> SUFFICES ASSUME k + 1 <= hi + 1
               PROVE  \E f \in [(hi + 1 - (k + 1))..hi -> V] :
                         IsDescent(f, hi + 1 - (k + 1), hi, End, last, nx, step)
    OBVIOUS
  <2> DEFINE lo == hi - k
  <2>1. PICK f \in [(lo + 1)..hi -> V] : IsDescent(f, lo + 1, hi, End, last, nx, step)
    BY <1>2
  <2>2. lo \in 0..hi /\ hi + 1 - (k + 1) = lo
    OBVIOUS
  <2> DEFINE new == IF lo \in End THEN last[lo] ELSE step[<<lo, f[nx[lo]]>>]
             g   == [r \in lo..hi |-> IF r = lo THEN new ELSE f[r]]
  <2> HIDE DEF lo
  <2>3. lo \notin End => nx[lo] \in (lo + 1)..hi
    BY <2>2
  <2>4. new \in V
    <3>1. CASE lo \in End
      BY <2>2, <3>1
    <3>2. CASE lo \notin End
      <4>1. f[nx[lo]] \in V
        BY <2>1, <2>3, <3>2
      <4> QED BY <4>1, <2>2, <3>2
    <3> QED BY <3>1, <3>2
  <2>5. g \in [lo..hi -> V]
    BY <2>1, <2>2, <2>4
  <2>6. ASSUME NEW r \in lo..hi PROVE g[r] = IF r \in End THEN last[r] ELSE step[<<r, g[nx[r]]>>]
    <3>1. r \notin End => nx[r] \in (r + 1)..hi
      BY <2>2
    <3>2. r \notin End => nx[r] \in (lo + 1)..hi /\ g[nx[r]] = f[nx[r]]
      BY <2>2, <3>1
    <3>3. CASE r = lo
      BY <3>2, <3>3
    <3>4. CASE r \in (lo + 1)..hi
      <4>1. g[r] = f[r]
        BY <2>2, <3>4
      <4> QED BY <4>1, <2>1, <3>2, <3>4 DEF IsDescent
    <3> QED BY <2>2, <3>3, <3>4
  <2> HIDE DEF g
  <2>7. IsDescent(g, lo, hi, End, last, nx, step)
    BY <2>5, <2>6 DEF IsDescent
  <2> QED BY <2>2, <2>5, <2>7
<1> HIDE DEF Good
<1>3. hi + 1 \in Good
  BY <1>1, <1>2, Induction
<1> QED BY <1>3 DEF Good

(* And what holds at an end and is handed back from the later place holds. *)
LEMMA DescentInduction ==
  ASSUME NEW hi \in Nat, NEW Good,
         \A r \in 0..hi : (\A x \in (r + 1)..hi : x \in Good) => r \in Good
  PROVE  \A r \in 0..hi : r \in Good
<1> DEFINE Low == {k \in Nat : \A r \in 0..hi : r > hi - k => r \in Good}
<1>1. 0 \in Low
  OBVIOUS
<1>2. ASSUME NEW k \in Nat, k \in Low PROVE k + 1 \in Low
  <2> SUFFICES ASSUME NEW r \in 0..hi, r > hi - (k + 1) PROVE r \in Good
    OBVIOUS
  <2>1. \A x \in (r + 1)..hi : x \in 0..hi /\ x > hi - k
    OBVIOUS
  <2> QED BY <1>2, <2>1
<1> HIDE DEF Low
<1>3. hi + 1 \in Low
  BY <1>1, <1>2, Induction
<1> QED BY <1>3 DEF Low

-----------------------------------------------------------------------------
(* Where instructions and what they name are.                              *)

LEMMA DecodedInside ==
  ASSUME image \in Images, NEW rva, decoded_at(rva) # None
  PROVE  /\ Span \in Nat /\ rva \in 0..(Span - 1)
         /\ decoded_at(rva).size \in Nat \ {0} /\ rva + decoded_at(rva).size <= Span
         /\ DOMAIN decoded_at(rva).ops = 1..Len(decoded_at(rva).ops)
<1> DEFINE i == decoded_at(rva)
<1>1. is_mapped(rva) /\ rva \in DOMAIN image.code /\ i = image.code[rva]
  BY DEF decoded_at
<1>2. PICK s \in image.sections : s.start <= rva /\ rva < s.end
  BY <1>1 DEF is_mapped, section_of
<1>3. i.size \in Nat \ {0} /\ DOMAIN i.ops = 1..Len(i.ops)
  BY <1>1, ImageAssumption
<1>4. PICK t \in image.sections : rva + i.size <= t.end
  BY <1>1, ImageAssumption
<1>5. s.start \in Nat /\ s.end \in Nat /\ t.end \in Nat /\ rva \in Int
  BY <1>1, ImageAssumption DEF is_mapped
<1>6. Span \in Nat /\ s.end <= Span /\ t.end <= Span
  BY SpanIsTheEnd
<1> HIDE DEF i
<1>7. rva \in 0..(Span - 1) /\ rva + i.size <= Span
  BY <1>2, <1>3, <1>4, <1>5, <1>6
<1> QED BY <1>3, <1>6, <1>7 DEF i

LEMMA TargetsInside ==
  ASSUME image \in Images
  PROVE  /\ \A va : va_to_rva(va) = None \/ va_to_rva(va) \in 0..(Span - 1)
         /\ \A i : branch_target(i) = None \/ branch_target(i) \in 0..(Span - 1)
<1>1. Span \in Nat /\ Base \in Nat
  BY SpanIsTheEnd, AddressAssumption
<1>2. \A va : va_to_rva(va) = None \/ va_to_rva(va) \in 0..(Span - 1)
  BY <1>1 DEF va_to_rva
<1> QED BY <1>2 DEF branch_target

-----------------------------------------------------------------------------
(* A graph that calls itself complete is.                                  *)

(* The instructions of s follow each other from a on, and none but the last *)
(* goes elsewhere.                                                         *)
Line(a, s) ==
  /\ s \in Seq(Int) /\ (s # <<>> => s[1] = a)
  /\ \A n \in 1..Len(s) : decoded_at(s[n]) # None
  /\ \A n \in 1..(Len(s) - 1) : LET i == decoded_at(s[n]) IN
        ~is_jmp(i) /\ ~is_ret(i) /\ s[n + 1] = s[n] + i.size

LEMMA LineIsStraight ==
  ASSUME image \in Images, NEW a \in 0..(2 * Span)
  PROVE  Line(a, straight_line(a))
<1> DEFINE hi   == 2 * Span
           size(r) == decoded_at(r).size
           Ends(r) == is_jmp(decoded_at(r)) \/ is_ret(decoded_at(r))
           End  == {r \in 0..hi : ~Readable(r) \/ Ends(r)}
           last == [r \in 0..hi |-> IF Readable(r) THEN <<r>> ELSE <<>>]
           nx   == [r \in 0..hi |-> r + size(r)]
           step == [rv \in (0..hi) \X Seq(Int) |-> <<rv[1]>> \o rv[2]]
           Body(f, r) == IF ~Readable(r) THEN <<>>
                         ELSE <<r>> \o IF Ends(r) THEN <<>> ELSE f[r + size(r)]
           run == CHOOSE f : f = [r \in 0..hi |-> Body(f, r)]
<1>1. hi \in Nat /\ Span \in Nat
  BY SpanIsTheEnd
<1>2. ASSUME NEW r \in 0..hi, Readable(r)
      PROVE  size(r) \in Nat \ {0} /\ r + size(r) \in (r + 1)..hi /\ decoded_at(r) # None
  <2>1. decoded_at(r) # None
    BY <1>2 DEF Readable
  <2>2. size(r) \in Nat \ {0} /\ r + size(r) <= Span
    BY <2>1, DecodedInside
  <2> HIDE DEF size
  <2> QED BY <2>1, <2>2, <1>1
<1>3. \A r \in (0..hi) \ End : nx[r] \in (r + 1)..hi
  BY <1>2
<1>4. last \in [0..hi -> Seq(Int)]
  BY <1>1
<1>5. step \in [(0..hi) \X Seq(Int) -> Seq(Int)]
  <2>1. \A r \in 0..hi : \A v \in Seq(Int) : <<r>> \o v \in Seq(Int)
    BY <1>1
  <2> QED BY <2>1
<1> HIDE DEF hi
<1>6. \E f : f = [r \in 0..hi |-> Body(f, r)]
  <2> HIDE DEF last, step, nx, End
  <2>1. PICK f \in [0..hi -> Seq(Int)] : IsDescent(f, 0, hi, End, last, nx, step)
    BY <1>1, <1>3, <1>4, <1>5, DescentExists
  <2>2. ASSUME NEW r \in 0..hi PROVE f[r] = Body(f, r)
    <3>1. f[r] = IF r \in End THEN last[r] ELSE step[<<r, f[nx[r]]>>]
      BY <2>1 DEF IsDescent
    <3>2. CASE ~Readable(r)
      BY <3>1, <3>2 DEF End, last
    <3>3. CASE Readable(r) /\ Ends(r)
      <4>1. f[r] = <<r>> /\ <<r>> \o <<>> = <<r>>
        BY <3>1, <3>3 DEF End, last
      <4> QED BY <3>3, <4>1
    <3>4. CASE Readable(r) /\ ~Ends(r)
      <4>1. nx[r] = r + size(r) /\ nx[r] \in 0..hi
        BY <1>1, <1>2, <3>4 DEF nx
      <4>2. f[nx[r]] \in Seq(Int)
        BY <2>1, <4>1
      <4>3. f[r] = <<r>> \o f[nx[r]]
        BY <3>1, <3>4, <4>2 DEF End, step
      <4> QED BY <3>4, <4>1, <4>3
    <3> QED BY <3>2, <3>3, <3>4
  <2>3. f = [r \in 0..hi |-> Body(f, r)]
    BY <2>1, <2>2
  <2> QED BY <2>3
<1>7. run = [r \in 0..hi |-> Body(run, r)]
  BY <1>6
<1>8. straight_line(a) = run[a]
  BY DEF straight_line, hi
<1> HIDE DEF run
<1> DEFINE Good == {r \in 0..hi : Line(r, run[r])}
<1>9. ASSUME NEW r \in 0..hi, \A x \in (r + 1)..hi : x \in Good PROVE Line(r, run[r])
  <2>1. run[r] = Body(run, r)
    BY <1>7
  <2>2. CASE ~Readable(r)
    BY <2>1, <2>2 DEF Line
  <2>3. CASE Readable(r) /\ Ends(r)
    <3>1. run[r] = <<r>> \o <<>> /\ decoded_at(r) # None
      BY <2>1, <2>3, <1>2
    <3>2. <<r>> \o <<>> = <<r>>
      OBVIOUS
    <3> QED BY <3>1, <3>2 DEF Line
  <2>4. CASE Readable(r) /\ ~Ends(r)
    <3> DEFINE v == run[r + size(r)]
               s == <<r>> \o v
    <3>1. run[r] = s /\ decoded_at(r) # None
      BY <2>1, <2>4, <1>2
    <3>2. Line(r + size(r), v)
      BY <1>2, <1>9, <2>4
    <3> HIDE DEF v
    <3>3. v \in Seq(Int) /\ s \in Seq(Int) /\ Len(s) = Len(v) + 1 /\ Len(v) \in Nat /\ s[1] = r
      BY <3>2 DEF Line
    <3>4. \A n \in 1..Len(v) : s[n + 1] = v[n]
      BY <3>3
    <3>5. \A n \in 2..Len(s) : n - 1 \in 1..Len(v) /\ s[n] = v[n - 1]
      BY <3>3
    <3> HIDE DEF s
    <3>6. \A n \in 1..Len(s) : decoded_at(s[n]) # None
      <4>1. decoded_at(s[1]) # None
        BY <3>1, <3>3
      <4>2. \A n \in 1..Len(v) : decoded_at(v[n]) # None
        BY <3>2 DEF Line
      <4>3. \A n \in 2..Len(s) : decoded_at(s[n]) # None
        BY <3>5, <4>2
      <4>4. \A n \in 1..Len(s) : n = 1 \/ n \in 2..Len(s)
        BY <3>3
      <4> QED BY <4>1, <4>3, <4>4
    <3>7. ASSUME NEW n \in 1..(Len(s) - 1), NEW i, i = decoded_at(s[n])
          PROVE  ~is_jmp(i) /\ ~is_ret(i) /\ s[n + 1] = s[n] + i.size
      <4>1. CASE n = 1
        <5>1. v # <<>> /\ s[2] = v[1] /\ v[1] = r + size(r)
          BY <3>2, <3>3, <3>4, <3>7, <4>1 DEF Line
        <5> QED BY <2>4, <3>3, <3>7, <4>1, <5>1
      <4>2. CASE n # 1
        <5>1. n - 1 \in 1..(Len(v) - 1) /\ s[n] = v[n - 1] /\ s[n + 1] = v[n] /\ (n - 1) + 1 = n
          BY <3>3, <3>4, <3>5, <4>2
        <5> QED BY <3>2, <3>7, <5>1 DEF Line
      <4> QED BY <4>1, <4>2
    <3>8. Line(r, s)
      BY <3>3, <3>6, <3>7 DEF Line
    <3> QED BY <3>1, <3>8
  <2> QED BY <2>2, <2>3, <2>4
<1>10. \A r \in 0..hi : (\A x \in (r + 1)..hi : x \in Good) => r \in Good
  BY <1>9
<1> HIDE DEF Good
<1>11. a \in Good
  BY <1>1, <1>10, DescentInduction DEF hi
<1> QED BY <1>8, <1>11 DEF Good

(* Functions start at mapped addresses.                                    *)
StartsMapped == \A s \in starts : is_mapped(s)

LEMMA StartsMappedStep ==
  ASSUME SweepInv, AskedWhenDone, StartsMapped, [Next]_vars
  PROVE  StartsMapped'
<1>1. \A rva : is_exec(rva) => is_mapped(rva)
  BY DEF is_exec, is_mapped
<1>2. CASE UNCHANGED <<image, starts>>
  BY <1>2, SameImage DEF StartsMapped
<1>3. CASE Ask
  BY <1>2, <1>3, QuestionsOnlyRemember DEF given, table
<1>4. CASE UNCHANGED vars
  BY <1>2, <1>4 DEF vars, avars, given, table
<1>5. CASE Analyse
  <2>1. image' = image
    BY <1>5 DEF Analyse, ANext, Seed, GiveUp, StopAtDecoded, StopAtUndecodable, Decode, Finish,
       Sweep, given
  <2>2. \A rva : is_mapped(rva)' = is_mapped(rva)
    BY <2>1, SameImage
  <2>3. CASE Seed
    BY <1>1, <2>2, <2>3 DEF Seed, confident_seeds, StartsMapped
  <2>4. CASE Decode
    <3>1. is_mapped(cursor.at)
      BY <2>4 DEF Decode, decoded_at
    <3>2. starts' \subseteq starts \cup {rva \in starts' : is_exec(rva)} \cup {cursor.at}
      BY <2>4 DEF Decode
    <3> QED BY <1>1, <2>2, <3>1, <3>2 DEF StartsMapped
  <2>5. CASE Finish
    BY <2>2, <2>5 DEF Finish, prune_starts_inside_functions, StartsMapped
  <2>6. CASE GiveUp \/ StopAtDecoded \/ StopAtUndecodable \/ \E rva \in pending : Sweep(rva)
    BY <1>2, <2>1, <2>6 DEF GiveUp, StopAtDecoded, StopAtUndecodable, Sweep, table
  <2> QED BY <1>5, <2>3, <2>4, <2>5, <2>6 DEF Analyse, ANext
<1> QED BY <1>3, <1>4, <1>5 DEF Next

(* The greatest at or before an address and the least behind it.           *)
LEMMA AtOrBeforeIsGreatest ==
  ASSUME NEW hi \in Nat, NEW S \in SUBSET (0..hi), NEW rva \in Int
  PROVE  IF \E s \in S : s <= rva
         THEN /\ AtOrBefore(S, rva) \in S /\ AtOrBefore(S, rva) <= rva
              /\ \A x \in S : x <= rva => x <= AtOrBefore(S, rva)
         ELSE AtOrBefore(S, rva) = None
<1> DEFINE Top(s) == s <= rva /\ \A x \in S : x <= rva => x <= s
           Good == {r \in 0..hi : r \in S /\ r <= rva => \E s \in S : Top(s)}
<1>1. CASE ~\E s \in S : s <= rva
  BY <1>1 DEF AtOrBefore
<1>2. CASE \E s \in S : s <= rva
  <2>1. ASSUME NEW r \in 0..hi, \A x \in (r + 1)..hi : x \in Good PROVE r \in Good
    <3> SUFFICES ASSUME r \in S, r <= rva PROVE \E s \in S : Top(s)
      OBVIOUS
    <3>1. CASE Top(r)
      BY <3>1
    <3>2. CASE \E x \in S : x <= rva /\ ~(x <= r)
      <4>1. PICK x \in S : x <= rva /\ ~(x <= r)
        BY <3>2
      <4>2. x \in (r + 1)..hi
        BY <4>1
      <4> QED BY <2>1, <4>1, <4>2
    <3> QED BY <3>1, <3>2
  <2> HIDE DEF Good
  <2>2. \A r \in 0..hi : r \in Good
    BY <2>1, DescentInduction
  <2>3. \E s \in S : Top(s)
    BY <1>2, <2>2 DEF Good
  <2> QED BY <1>2, <2>3 DEF AtOrBefore
<1> QED BY <1>1, <1>2

LEMMA AfterIsLeast ==
  ASSUME NEW hi \in Nat, NEW S \in SUBSET (0..hi), NEW rva \in Int
  PROVE  IF \E s \in S : rva < s
         THEN /\ After(S, rva) \in S /\ rva < After(S, rva)
              /\ \A x \in S : rva < x => After(S, rva) <= x
         ELSE After(S, rva) = None
<1> DEFINE Bottom(s) == rva < s /\ \A x \in S : rva < x => s <= x
           Good == {r \in 0..hi : hi - r \in S /\ rva < hi - r => \E s \in S : Bottom(s)}
<1>1. CASE ~\E s \in S : rva < s
  BY <1>1 DEF After
<1>2. CASE \E s \in S : rva < s
  <2>1. ASSUME NEW r \in 0..hi, \A x \in (r + 1)..hi : x \in Good PROVE r \in Good
    <3> SUFFICES ASSUME hi - r \in S, rva < hi - r PROVE \E s \in S : Bottom(s)
      OBVIOUS
    <3>1. CASE Bottom(hi - r)
      BY <3>1
    <3>2. CASE \E x \in S : rva < x /\ ~(hi - r <= x)
      <4>1. PICK x \in S : rva < x /\ ~(hi - r <= x)
        BY <3>2
      <4>2. hi - x \in (r + 1)..hi /\ hi - (hi - x) = x
        BY <4>1
      <4> QED BY <2>1, <4>1, <4>2
    <3> QED BY <3>1, <3>2
  <2> HIDE DEF Good
  <2>2. \A r \in 0..hi : r \in Good
    BY <2>1, DescentInduction
  <2>3. PICK s \in S : rva < s
    BY <1>2
  <2>4. hi - s \in 0..hi /\ hi - (hi - s) = s
    OBVIOUS
  <2>5. \E t \in S : Bottom(t)
    BY <2>2, <2>3, <2>4 DEF Good
  <2> QED BY <1>2, <2>5 DEF After
<1> QED BY <1>1, <1>2

LEMMA StartsInside ==
  ASSUME StartsMapped, image \in Images
  PROVE  Span \in Nat /\ starts \in SUBSET (0..Span) /\ \A s \in starts : s < Span
<1>1. Span \in Nat
  BY SpanIsTheEnd
<1>2. ASSUME NEW s \in starts PROVE s \in 0..Span /\ s < Span
  <2>1. PICK t \in image.sections : t.start <= s /\ s < t.end
    BY DEF StartsMapped, is_mapped, section_of
  <2>2. s \in Int /\ t.start \in Nat /\ t.end \in Nat /\ t.end <= Span
    BY ImageAssumption, SpanIsTheEnd DEF StartsMapped, is_mapped
  <2> QED BY <1>1, <2>1, <2>2
<1> QED BY <1>1, <1>2

LEMMA ContainsItself ==
  ASSUME StartsMapped, image \in Images, NEW rva \in starts
  PROVE  containing(rva) = rva /\ rva \in 0..Span
<1>1. Span \in Nat /\ starts \in SUBSET (0..Span) /\ rva \in 0..Span
  BY StartsInside
<1>2. rva \in Int /\ rva <= rva /\ \A x \in starts : x \in Int
  BY <1>1
<1>3. /\ AtOrBefore(starts, rva) \in starts /\ AtOrBefore(starts, rva) <= rva
      /\ \A x \in starts : x <= rva => x <= AtOrBefore(starts, rva)
  BY <1>1, <1>2, AtOrBeforeIsGreatest
<1> DEFINE s == AtOrBefore(starts, rva)
<1>4. s \in Int /\ s <= rva /\ rva <= s
  BY <1>2, <1>3
<1> HIDE DEF s
<1>5. s = rva
  BY <1>2, <1>4
<1> QED BY <1>1, <1>5 DEF containing, s

(* What is known of a graph while it is built: blocks are lines, each edge *)
(* leads to a block or to one that is still to be built, and the unknown   *)
(* ones are owned up to.                                                   *)
BlockTrue(a, b) ==
  /\ Line(a, b.instructions)
  /\ b.successors = IF b.instructions = <<>> THEN {Edge("fall", None)}
                    ELSE successors_of(b.instructions[Len(b.instructions)])

GraphShape(g) ==
  /\ g = [entry |-> g.entry, blocks |-> g.blocks, pending |-> g.pending, complete |-> g.complete,
          truncated |-> g.truncated]
  /\ g.complete \in BOOLEAN /\ g.truncated \in BOOLEAN
  /\ g.pending \subseteq 0..(2 * Span) /\ g.pending \cap DOMAIN g.blocks = {}
  /\ g.complete <=> ~g.truncated /\ \A a \in DOMAIN g.blocks : unknown_edges(g.blocks[a]) = {}
  /\ ~g.truncated =>
        /\ g.entry \in g.pending \cup DOMAIN g.blocks
        /\ \A a \in DOMAIN g.blocks : \A e \in g.blocks[a].successors :
              e.target \in g.pending \cup DOMAIN g.blocks \cup {None}
  /\ \A a \in DOMAIN g.blocks : BlockTrue(a, g.blocks[a])

GraphInv == cfg # None => GraphShape(cfg)

(* Edges lead to addresses of the image or nowhere known.                  *)
LEMMA EdgesInside ==
  ASSUME image \in Images, NEW a \in 0..(2 * Span), NEW e \in Block(a).successors
  PROVE  e.target \in 0..(2 * Span) \cup {None}
<1> DEFINE run == straight_line(a)
           i   == decoded_at(run[Len(run)])
<1>1. Line(a, run)
  BY LineIsStraight
<1>2. Span \in Nat /\ (branch_target(i) = None \/ branch_target(i) \in 0..(Span - 1))
  BY SpanIsTheEnd, TargetsInside
<1>3. CASE run = <<>>
  BY <1>3 DEF Block, Edge
<1>4. CASE run # <<>>
  <2> DEFINE last == run[Len(run)]
  <2>1. decoded_at(last) # None /\ last \in Int
    BY <1>1, <1>4 DEF Line
  <2>2. last + decoded_at(last).size \in 0..(2 * Span)
    <3>1. last \in 0..(Span - 1) /\ decoded_at(last).size \in Nat \ {0} /\ last + decoded_at(last).size <= Span
      BY <2>1, DecodedInside
    <3> HIDE DEF last
    <3> QED BY <1>2, <3>1
  <2>3. e \in successors_of(last)
    BY <1>4 DEF Block
  <2>4. e.target \in {None, branch_target(i), last + decoded_at(last).size}
    BY <2>3 DEF successors_of, Edge
  <2> HIDE DEF last, i, run
  <2> QED BY <1>2, <2>2, <2>4
<1> QED BY <1>3, <1>4

LEMMA SameBlocks ==
  ASSUME image' = image
  PROVE  \A x, y : BlockTrue(x, y)' = BlockTrue(x, y)
<1>1. (\A x : decoded_at(x)' = decoded_at(x)) /\ (\A i : branch_target(i)' = branch_target(i))
  BY SameImage
<1>2. \A x, y : Line(x, y)' = Line(x, y)
  BY <1>1 DEF Line
<1>3. \A x : successors_of(x)' = successors_of(x)
  BY <1>1 DEF successors_of
<1> QED BY <1>2, <1>3 DEF BlockTrue

LEMMA BuildBlockStep ==
  ASSUME image \in Images, GraphInv, BuildBlock, Done
  PROVE  GraphInv'
<1>1. UNCHANGED <<image, starts, claimed>> /\ cfg # None
  BY DEF BuildBlock, given, table
<1>2. GraphShape(cfg)
  BY <1>1 DEF GraphInv
<1>3. PICK a \in cfg.pending :
        cfg' = [cfg EXCEPT
                 !.blocks = Put(@, a, Block(a)),
                 !.pending = (@ \cup {e.target : e \in Block(a).successors})
                                 \ (DOMAIN cfg.blocks \cup {a, None}),
                 !.complete = @ /\ unknown_edges(Block(a)) = {}]
  BY DEF BuildBlock
<1> DEFINE b == Block(a)
<1>4. a \in 0..(2 * Span) /\ a \notin DOMAIN cfg.blocks
  BY <1>2 DEF GraphShape
<1>5. BlockTrue(a, b)
  BY <1>4, LineIsStraight DEF BlockTrue, Block
<1>6. \A e \in b.successors : e.target \in 0..(2 * Span) \cup {None}
  BY <1>4, EdgesInside
<1> HIDE DEF b
<1>7. /\ cfg'.entry = cfg.entry /\ cfg'.truncated = cfg.truncated
      /\ cfg'.blocks = Put(cfg.blocks, a, b)
      /\ cfg'.pending = (cfg.pending \cup {e.target : e \in b.successors}) \ (DOMAIN cfg.blocks \cup {a, None})
      /\ cfg'.complete = (cfg.complete /\ unknown_edges(b) = {})
      /\ cfg' = [entry |-> cfg'.entry, blocks |-> cfg'.blocks, pending |-> cfg'.pending,
                 complete |-> cfg'.complete, truncated |-> cfg'.truncated]
  BY <1>2, <1>3 DEF GraphShape, b
<1>8. /\ DOMAIN cfg'.blocks = DOMAIN cfg.blocks \cup {a}
      /\ cfg'.blocks[a] = b /\ \A x \in DOMAIN cfg.blocks : cfg'.blocks[x] = cfg.blocks[x]
  BY <1>4, <1>7 DEF Put
<1>9. Span' = Span
  BY <1>1 DEF Span
<1>10. \A x, y : BlockTrue(x, y)' = BlockTrue(x, y)
  BY <1>1, SameBlocks
<1>11. cfg'.pending \subseteq 0..(2 * Span) /\ cfg'.pending \cap DOMAIN cfg'.blocks = {}
  BY <1>2, <1>6, <1>7, <1>8 DEF GraphShape
<1>12. /\ cfg'.complete \in BOOLEAN
       /\ cfg'.complete <=> ~cfg'.truncated /\ \A x \in DOMAIN cfg'.blocks : unknown_edges(cfg'.blocks[x]) = {}
  BY <1>2, <1>7, <1>8 DEF GraphShape
<1>13. (\A x \in DOMAIN cfg.blocks : BlockTrue(x, cfg.blocks[x]))'
  BY <1>2, <1>5, <1>8, <1>10 DEF GraphShape
<1>14. ASSUME ~cfg'.truncated
       PROVE  /\ cfg'.entry \in cfg'.pending \cup DOMAIN cfg'.blocks
              /\ \A x \in DOMAIN cfg'.blocks : \A e \in cfg'.blocks[x].successors :
                    e.target \in cfg'.pending \cup DOMAIN cfg'.blocks \cup {None}
  <2>1. cfg.pending \ {a} \subseteq cfg'.pending \cup {None}
    BY <1>2, <1>7 DEF GraphShape
  <2>2. None \notin cfg.pending
    BY <1>2, AddressAssumption DEF GraphShape
  <2>3. cfg.pending \cup DOMAIN cfg.blocks \subseteq cfg'.pending \cup DOMAIN cfg'.blocks
    BY <2>1, <2>2, <1>8
  <2>4. \A e \in b.successors : e.target \in cfg'.pending \cup DOMAIN cfg'.blocks \cup {None}
    BY <1>7, <1>8
  <2> QED BY <1>2, <1>7, <1>8, <1>14, <2>3, <2>4 DEF GraphShape
<1>15. cfg'.truncated \in BOOLEAN
  BY <1>2, <1>7 DEF GraphShape
<1>16. \A x : unknown_edges(x)' = unknown_edges(x)
  BY DEF unknown_edges
<1> QED BY <1>7, <1>9, <1>11, <1>12, <1>13, <1>14, <1>15, <1>16 DEF GraphInv, GraphShape

LEMMA GraphStep ==
  ASSUME AskedWhenDone, SweepInv, StartsMapped, GraphInv, [Next]_vars
  PROVE  GraphInv'
<1>1. CASE UNCHANGED <<image, cfg>>
  <2>1. Span' = Span
    BY <1>1 DEF Span
  <2>2. \A x, y : BlockTrue(x, y)' = BlockTrue(x, y)
    BY <1>1, SameBlocks
  <2> QED BY <1>1, <2>1, <2>2 DEF GraphInv, GraphShape
<1>2. CASE Analyse
  <2>1. image' = image /\ cfg' = cfg
    BY <1>2 DEF Analyse, ANext, Seed, GiveUp, StopAtDecoded, StopAtUndecodable, Decode, Finish,
       Sweep, given
  <2> QED BY <1>1, <2>1
<1>3. CASE UNCHANGED vars
  BY <1>1, <1>3 DEF vars, avars, given
<1>4. CASE Ask
  <2>1. UNCHANGED image /\ image \in Images /\ Done
    BY <1>4, QuestionsOnlyRemember, QuestionsComeLast DEF given, SweepInv, Phases
  <2>2. CASE UNCHANGED cfg
    BY <1>1, <2>1, <2>2
  <2>3. CASE BuildBlock
    BY <2>1, <2>3, BuildBlockStep
  <2>4. CASE BlockLimit
    <3>1. /\ cfg # None /\ GraphShape(cfg)
          /\ cfg' = [cfg EXCEPT !.pending = {}, !.complete = FALSE, !.truncated = TRUE]
      BY <2>4 DEF BlockLimit, GraphInv
    <3>2. /\ cfg'.blocks = cfg.blocks /\ cfg'.pending = {} /\ cfg'.complete = FALSE /\ cfg'.truncated = TRUE
          /\ cfg' = [entry |-> cfg'.entry, blocks |-> cfg'.blocks, pending |-> cfg'.pending,
                     complete |-> cfg'.complete, truncated |-> cfg'.truncated]
      BY <3>1 DEF GraphShape
    <3>4. \A x, y : BlockTrue(x, y)' = BlockTrue(x, y)
      BY <2>1, SameBlocks
    <3>5. (\A x \in DOMAIN cfg.blocks : BlockTrue(x, cfg.blocks[x]))'
      BY <3>1, <3>2, <3>4 DEF GraphShape
    <3> QED BY <3>2, <3>5 DEF GraphInv, GraphShape
  <2>5. ASSUME NEW rva \in starts, StartCFG(rva) PROVE GraphInv'
    <3>1. containing(rva) = rva /\ rva \in 0..Span /\ Span \in Nat
      BY <2>1, ContainsItself, SpanIsTheEnd
    <3>2. cfg' = [entry |-> rva, blocks |-> Empty, pending |-> {rva}, complete |-> TRUE, truncated |-> FALSE]
      BY <2>5, <3>1 DEF StartCFG
    <3>3. Span' = Span
      BY <2>1 DEF Span
    <3>4. rva \in 0..(2 * Span)
      BY <3>1
    <3> QED BY <3>2, <3>3, <3>4 DEF GraphInv, GraphShape, Empty
  <2> QED BY <1>4, <2>2, <2>3, <2>4, <2>5 DEF Ask, CFGStep
<1> QED BY <1>2, <1>3, <1>4 DEF Next

(* The instructions of a complete graph lead to each other only.           *)
LEMMA GraphIsClosed ==
  ASSUME image \in Images, GraphShape(cfg), cfg.pending = {}, cfg.complete,
         NEW a \in DOMAIN cfg.blocks, NEW n \in DOMAIN cfg.blocks[a].instructions,
         NEW next \in Follow(cfg.blocks[a].instructions[n])
  PROVE  IF n < Len(cfg.blocks[a].instructions) THEN cfg.blocks[a].instructions[n + 1] = next
         ELSE \E e \in cfg.blocks[a].successors : e.target = next /\ next \in DOMAIN cfg.blocks
<1> DEFINE b == cfg.blocks[a]
           s == b.instructions
           i == decoded_at(s[n])
<1>1. BlockTrue(a, b) /\ unknown_edges(b) = {}
  BY DEF GraphShape
<1>2. s \in Seq(Int) /\ n \in 1..Len(s) /\ Len(s) \in Nat /\ i # None
  BY <1>1 DEF BlockTrue, Line
<1>3. \A e \in b.successors : e.target \in DOMAIN cfg.blocks \cup {None}
  BY DEF GraphShape
<1>4. \/ next = s[n] + i.size /\ i.op \notin {"ret", "jmp"}
      \/ next = branch_target(i) /\ is_jmp(i) /\ next # None
  BY DEF Follow
<1>5. CASE n < Len(s)
  <2>1. ~is_jmp(i) /\ ~is_ret(i) /\ s[n + 1] = s[n] + i.size
    BY <1>1, <1>2, <1>5 DEF BlockTrue, Line
  <2> QED BY <1>4, <1>5, <2>1
<1>6. CASE n = Len(s)
  <2>1. b.successors = successors_of(s[n]) /\ \A e \in b.successors : e.target # None \/ e.kind = "ret"
    BY <1>1, <1>2, <1>6 DEF BlockTrue, unknown_edges
  <2>2. Edge("fall", None).target = None /\ Edge("fall", None).kind # "ret"
        /\ Edge("indirect", None).target = None /\ Edge("indirect", None).kind # "ret"
    BY DEF Edge
  <2>3. next # None
    <3>1. s[n] + i.size \in Int
      BY <1>2, DecodedInside
    <3> QED BY <3>1, <1>4, AddressAssumption
  <2> HIDE DEF b, s, i
  <2>4. \E e \in successors_of(s[n]) : e.target = next
    <3>1. CASE is_ret(i)
      BY <1>4, <3>1 DEF is_ret, is_jmp, is_cond, Conditional
    <3>2. CASE ~is_ret(i) /\ is_jmp(i) /\ branch_target(i) = None
      BY <2>1, <2>2, <3>2 DEF successors_of, i
    <3>3. CASE is_cond(i) /\ branch_target(i) # None
      <4>1. ~is_ret(i) /\ is_jmp(i)
        BY <3>3 DEF is_ret, is_jmp, is_cond, Conditional
      <4>2. successors_of(s[n]) = {Edge("jcc", branch_target(i)), Edge("fall", s[n] + i.size)}
        BY <3>3, <4>1 DEF successors_of, i, is_cond, Conditional
      <4> QED BY <1>4, <4>2 DEF Edge
    <3>4. CASE i.op = "jmp" /\ branch_target(i) # None
      <4>1. ~is_ret(i) /\ is_jmp(i) /\ ~is_cond(i)
        BY <3>4 DEF is_ret, is_jmp, is_cond, Conditional
      <4>2. successors_of(s[n]) = {Edge("jmp", branch_target(i))}
        BY <3>4, <4>1 DEF successors_of, i
      <4> QED BY <1>4, <3>4, <4>2 DEF Edge
    <3>5. CASE ~is_ret(i) /\ ~is_jmp(i)
      <4>1. successors_of(s[n]) = {Edge("fall", None)}
        BY <3>5 DEF successors_of, i, is_jmp
      <4> QED BY <2>1, <2>2, <4>1
    <3> QED BY <3>1, <3>2, <3>3, <3>4, <3>5 DEF is_jmp
  <2>5. PICK e \in b.successors : e.target = next
    BY <2>1, <2>4
  <2>6. next \in DOMAIN cfg.blocks
    BY <1>3, <2>3, <2>5 DEF b
  <2> QED BY <1>2, <1>6, <2>5, <2>6 DEF b, s
<1> QED BY <1>2, <1>5, <1>6

LEMMA GraphIsTrue ==
  ASSUME image \in Images, GraphInv
  PROVE  GraphTrue
<1> SUFFICES ASSUME cfg # None, cfg.pending = {}
             PROVE  /\ cfg.complete <=> unresolved = {} /\ ~cfg.truncated
                    /\ cfg.complete =>
                          \A rva \in Closure({cfg.entry}, Follows) :
                              \E a \in DOMAIN cfg.blocks : \E n \in DOMAIN cfg.blocks[a].instructions :
                                  /\ cfg.blocks[a].instructions[n] = rva
                                  /\ \A next \in Follow(rva) :
                                        IF n < Len(cfg.blocks[a].instructions)
                                        THEN cfg.blocks[a].instructions[n + 1] = next
                                        ELSE \E e \in cfg.blocks[a].successors : e.target = next
  BY DEF GraphTrue
<1>1. GraphShape(cfg)
  BY DEF GraphInv
<1>2. cfg.complete <=> unresolved = {} /\ ~cfg.truncated
  BY <1>1 DEF GraphShape, unresolved
<1> DEFINE H == UNION {{cfg.blocks[a].instructions[n] : n \in DOMAIN cfg.blocks[a].instructions} :
                          a \in DOMAIN cfg.blocks}
<1>3. ASSUME cfg.complete PROVE Closure({cfg.entry}, Follows) \subseteq H
  <2>1. ASSUME NEW a \in DOMAIN cfg.blocks
        PROVE  /\ 1 \in DOMAIN cfg.blocks[a].instructions
               /\ cfg.blocks[a].instructions[1] = a
               /\ \A n \in DOMAIN cfg.blocks[a].instructions :
                     n \in Nat /\ (n < Len(cfg.blocks[a].instructions) => n + 1 \in DOMAIN cfg.blocks[a].instructions)
    <3> DEFINE s == cfg.blocks[a].instructions
    <3>1. BlockTrue(a, cfg.blocks[a]) /\ unknown_edges(cfg.blocks[a]) = {}
      BY <1>1, <1>3 DEF GraphShape
    <3>2. s # <<>>
      <4> SUFFICES ASSUME s = <<>> PROVE FALSE
        OBVIOUS
      <4>1. Edge("fall", None) \in cfg.blocks[a].successors
        BY <3>1 DEF BlockTrue
      <4>2. Edge("fall", None) \in unknown_edges(cfg.blocks[a])
        BY <4>1 DEF unknown_edges, Edge
      <4> QED BY <3>1, <4>2
    <3>3. s \in Seq(Int) /\ s[1] = a
      BY <3>1, <3>2 DEF BlockTrue, Line
    <3> HIDE DEF s
    <3>4. DOMAIN s = 1..Len(s) /\ Len(s) \in Nat \ {0}
      BY <3>2, <3>3
    <3> QED BY <3>3, <3>4 DEF s
  <2>2. DOMAIN cfg.blocks \subseteq H
    BY <2>1
  <2>3. cfg.entry \in H
    BY <1>1, <1>3, <2>2 DEF GraphShape
  <2>4. ASSUME NEW rva \in H, NEW next \in Follow(rva) PROVE next \in H
    <3>1. PICK a \in DOMAIN cfg.blocks : \E n \in DOMAIN cfg.blocks[a].instructions : cfg.blocks[a].instructions[n] = rva
      BY <2>4
    <3>2. PICK n \in DOMAIN cfg.blocks[a].instructions : cfg.blocks[a].instructions[n] = rva
      BY <3>1
    <3>3. IF n < Len(cfg.blocks[a].instructions) THEN cfg.blocks[a].instructions[n + 1] = next
          ELSE \E e \in cfg.blocks[a].successors : e.target = next /\ next \in DOMAIN cfg.blocks
      BY <1>1, <1>3, <2>4, <3>2, GraphIsClosed
    <3>4. CASE n < Len(cfg.blocks[a].instructions)
      <4>1. n + 1 \in DOMAIN cfg.blocks[a].instructions
        BY <2>1, <3>4
      <4>2. cfg.blocks[a].instructions[n + 1] \in H
        BY <4>1
      <4> QED BY <3>3, <3>4, <4>2
    <3>5. CASE ~(n < Len(cfg.blocks[a].instructions))
      BY <2>2, <3>3, <3>5
    <3> QED BY <3>4, <3>5
  <2> HIDE DEF H
  <2>5. ClosedUnder(H, Follows)
    BY <2>4 DEF ClosedUnder, Follows
  <2>6. IsFiniteSet(DOMAIN Follows)
    <3>1. Span \in Nat
      BY SpanIsTheEnd
    <3> QED BY <3>1, FS_Interval DEF Follows, RVAs
  <2>7. {cfg.entry} \subseteq H
    BY <2>3
  <2> QED BY <2>5, <2>6, <2>7, ClosureIsLeast
<1>4. ASSUME cfg.complete, NEW rva \in Closure({cfg.entry}, Follows)
      PROVE  \E a \in DOMAIN cfg.blocks : \E n \in DOMAIN cfg.blocks[a].instructions :
                /\ cfg.blocks[a].instructions[n] = rva
                /\ \A next \in Follow(rva) :
                      IF n < Len(cfg.blocks[a].instructions)
                      THEN cfg.blocks[a].instructions[n + 1] = next
                      ELSE \E e \in cfg.blocks[a].successors : e.target = next
  <2>1. PICK a \in DOMAIN cfg.blocks : \E n \in DOMAIN cfg.blocks[a].instructions : cfg.blocks[a].instructions[n] = rva
    BY <1>3, <1>4
  <2>2. PICK n \in DOMAIN cfg.blocks[a].instructions : cfg.blocks[a].instructions[n] = rva
    BY <2>1
  <2>3. ASSUME NEW next \in Follow(rva)
        PROVE  IF n < Len(cfg.blocks[a].instructions) THEN cfg.blocks[a].instructions[n + 1] = next
               ELSE \E e \in cfg.blocks[a].successors : e.target = next
    BY <1>1, <1>4, <2>2, GraphIsClosed
  <2> QED BY <2>2, <2>3
<1> QED BY <1>2, <1>4

(* A graph that calls itself complete shows every way through the function. *)
THEOREM CompleteGraphsAre == Spec => []GraphTrue
<1>1. Init => StartsMapped /\ GraphInv
  BY DEF Init, AInit, StartsMapped, GraphInv
<1>2. AskedWhenDone /\ SweepInv /\ StartsMapped /\ GraphInv /\ [Next]_vars
        => (AskedWhenDone /\ SweepInv /\ StartsMapped /\ GraphInv)'
  BY SweepStep, QuestionsComeLast, StartsMappedStep, GraphStep
<1>3. SweepInv /\ GraphInv => GraphTrue
  BY GraphIsTrue DEF SweepInv, Phases
<1> QED BY <1>1, <1>2, <1>3, SweepInit, PTL DEF Spec

-----------------------------------------------------------------------------
(* Folds over finite sets.                                                 *)

Picked(s) == CHOOSE x \in s : TRUE

(* The elements in the order they are picked.                              *)
IsFold(g, S, first, step) ==
  g = [s \in SUBSET S |-> IF s = {} THEN first ELSE step[<<s, g[s \ {Picked(s)}]>>]]

(* A fold takes out the element picked, and hands what it has of the rest  *)
(* to step.                                                                *)
IsFoldBy(g, S, pick, first, step) ==
  g = [s \in SUBSET S |-> IF s = {} THEN first ELSE step[<<s, g[s \ {pick[s]}]>>]]

LEMMA OneIsOut ==
  ASSUME NEW S, IsFiniteSet(S), NEW s \in SUBSET S, NEW x \in s
  PROVE  /\ s \ {x} \in SUBSET S
         /\ Cardinality(s) \in Nat \ {0} /\ Cardinality(s \ {x}) = Cardinality(s) - 1
<1>1. IsFiniteSet(s)
  BY FS_Subset
<1>2. Cardinality(s) \in Nat /\ Cardinality(s) # 0
  BY <1>1, FS_CardinalityType, FS_EmptySet
<1>3. Cardinality(s \ {x}) = Cardinality(s) - 1
  BY <1>1, FS_RemoveElement
<1> QED BY <1>2, <1>3

LEMMA FoldByExists ==
  ASSUME NEW S, IsFiniteSet(S), NEW pick, \A s \in SUBSET S : s # {} => pick[s] \in s, NEW V, NEW first \in V, NEW step \in [(SUBSET S) \X V -> V]
  PROVE  \E g \in [SUBSET S -> V] : IsFoldBy(g, S, pick, first, step)
<1> DEFINE Upto(k) == \E g \in [SUBSET S -> V] : \A s \in SUBSET S :
                         Cardinality(s) <= k =>
                            g[s] = IF s = {} THEN first ELSE step[<<s, g[s \ {pick[s]}]>>]
           Good == {k \in Nat : Upto(k)}
<1>0. \A s \in SUBSET S : IsFiniteSet(s) /\ Cardinality(s) \in Nat /\ (Cardinality(s) = 0 <=> s = {})
  <2> SUFFICES ASSUME NEW s \in SUBSET S
               PROVE IsFiniteSet(s) /\ Cardinality(s) \in Nat /\ (Cardinality(s) = 0 <=> s = {})
    OBVIOUS
  <2>1. IsFiniteSet(s)
    BY FS_Subset
  <2> QED BY <2>1, FS_CardinalityType, FS_EmptySet
<1>1. 0 \in Good
  <2> DEFINE g == [s \in SUBSET S |-> first]
  <2>1. g \in [SUBSET S -> V]
    OBVIOUS
  <2>2. ASSUME NEW s \in SUBSET S, Cardinality(s) <= 0
        PROVE  g[s] = IF s = {} THEN first ELSE step[<<s, g[s \ {pick[s]}]>>]
    <3>1. Cardinality(s) \in Nat
      BY <1>0
    <3>2. Cardinality(s) = 0
      BY <2>2, <3>1
    <3>3. s = {}
      BY <1>0, <3>2
    <3> QED BY <3>3
  <2> HIDE DEF g
  <2> QED BY <2>1, <2>2
<1>2. ASSUME NEW k \in Nat, k \in Good PROVE k + 1 \in Good
  <2>1. PICK g \in [SUBSET S -> V] : \A s \in SUBSET S :
           Cardinality(s) <= k => g[s] = IF s = {} THEN first ELSE step[<<s, g[s \ {pick[s]}]>>]
    BY <1>2
  <2> DEFINE h == [s \in SUBSET S |-> IF s # {} /\ Cardinality(s) = k + 1
                                      THEN step[<<s, g[s \ {pick[s]}]>>] ELSE g[s]]
  <2>2. ASSUME NEW s \in SUBSET S, s # {}
        PROVE  s \ {pick[s]} \in SUBSET S /\ Cardinality(s \ {pick[s]}) = Cardinality(s) - 1
    BY <2>2, OneIsOut
  <2>3. h \in [SUBSET S -> V]
    <3>1. \A s \in SUBSET S : s # {} => step[<<s, g[s \ {pick[s]}]>>] \in V
      BY <2>1, <2>2
    <3> QED BY <3>1, <2>1
  <2>4. ASSUME NEW s \in SUBSET S, Cardinality(s) <= k + 1
        PROVE  h[s] = IF s = {} THEN first ELSE step[<<s, h[s \ {pick[s]}]>>]
    <3>1. CASE s = {}
      <4>1. Cardinality(s) <= k /\ h[s] = g[s]
        BY <1>0, <3>1
      <4> QED BY <2>1, <3>1, <4>1
    <3>2. CASE s # {}
      <4>1. /\ s \ {pick[s]} \in SUBSET S
            /\ Cardinality(s \ {pick[s]}) = Cardinality(s) - 1 /\ Cardinality(s) \in Nat
        BY <1>0, <2>2, <3>2
      <4>2. h[s \ {pick[s]}] = g[s \ {pick[s]}]
        BY <2>4, <4>1
      <4>3. CASE Cardinality(s) = k + 1
        BY <3>2, <4>2, <4>3
      <4>4. CASE Cardinality(s) <= k
        BY <2>1, <3>2, <4>1, <4>2, <4>4
      <4>5. Cardinality(s) = k + 1 \/ Cardinality(s) <= k
        BY <2>4, <4>1
      <4> QED BY <4>3, <4>4, <4>5
    <3> QED BY <3>1, <3>2
  <2> HIDE DEF h
  <2>5. Upto(k + 1)
    BY <2>3, <2>4
  <2> HIDE DEF Upto
  <2> QED BY <2>5
<1> HIDE DEF Good
<1>3. Cardinality(S) \in Nat /\ Cardinality(S) \in Good
  <2>1. Cardinality(S) \in Nat
    BY FS_CardinalityType
  <2> QED BY <1>1, <1>2, <2>1, Induction
<1>4. PICK g \in [SUBSET S -> V] : \A s \in SUBSET S :
         Cardinality(s) <= Cardinality(S) => g[s] = IF s = {} THEN first ELSE step[<<s, g[s \ {pick[s]}]>>]
  BY <1>3 DEF Good
<1>5. \A s \in SUBSET S : Cardinality(s) <= Cardinality(S)
  BY FS_Subset
<1>6. IsFoldBy(g, S, pick, first, step)
  BY <1>4, <1>5 DEF IsFoldBy
<1> QED BY <1>6

LEMMA PickedIsOut ==
  ASSUME NEW S, IsFiniteSet(S), NEW s \in SUBSET S, s # {}
  PROVE  /\ Picked(s) \in s /\ s \ {Picked(s)} \in SUBSET S
         /\ Cardinality(s) \in Nat \ {0} /\ Cardinality(s \ {Picked(s)}) = Cardinality(s) - 1
<1>1. Picked(s) \in s
  BY DEF Picked
<1> QED BY <1>1, OneIsOut

LEMMA FoldExists ==
  ASSUME NEW S, IsFiniteSet(S), NEW V, NEW first \in V, NEW step \in [(SUBSET S) \X V -> V]
  PROVE  \E g \in [SUBSET S -> V] : IsFold(g, S, first, step)
<1> DEFINE pick == [s \in SUBSET S |-> Picked(s)]
<1>1. \A s \in SUBSET S : pick[s] = Picked(s) /\ (s # {} => pick[s] \in s)
  BY DEF Picked
<1> HIDE DEF pick
<1>2. PICK g \in [SUBSET S -> V] : IsFoldBy(g, S, pick, first, step)
  BY <1>1, FoldByExists
<1>3. IsFold(g, S, first, step)
  BY <1>1, <1>2 DEF IsFold, IsFoldBy
<1> QED BY <1>3

(* Sums: Total(f, S) adds f[x] for every x in S.                           *)
Total(f, S) == MapThenSumSet(LAMBDA x : f[x], S)

IsSum(g, S, f) == g = [s \in SUBSET S |-> IF s = {} THEN 0 ELSE f[Picked(s)] + g[s \ {Picked(s)}]]

LEMMA SumExists ==
  ASSUME NEW S, IsFiniteSet(S), NEW f, \A x \in S : f[x] \in Int
  PROVE  \E g \in [SUBSET S -> Int] : IsSum(g, S, f)
<1> DEFINE step == [sv \in (SUBSET S) \X Int |-> IF sv[1] = {} THEN 0 ELSE f[Picked(sv[1])] + sv[2]]
<1>1. \A s \in SUBSET S : s # {} => f[Picked(s)] \in Int
  BY DEF Picked
<1>2. step \in [(SUBSET S) \X Int -> Int]
  BY <1>1
<1>3. \A s \in SUBSET S : \A v \in Int : s # {} => step[<<s, v>>] = f[Picked(s)] + v
  OBVIOUS
<1> HIDE DEF step
<1>4. PICK g \in [SUBSET S -> Int] : IsFold(g, S, 0, step)
  <2>1. 0 \in Int
    OBVIOUS
  <2>2. \E g \in [SUBSET S -> Int] : IsFold(g, S, 0, step)
    BY <1>2, <2>1, FoldExists, Zenon
  <2> QED BY <2>2
<1>5. ASSUME NEW s \in SUBSET S
      PROVE  g[s] = IF s = {} THEN 0 ELSE f[Picked(s)] + g[s \ {Picked(s)}]
  <2>1. g[s] = IF s = {} THEN 0 ELSE step[<<s, g[s \ {Picked(s)}]>>]
    BY <1>4 DEF IsFold
  <2>2. g[s \ {Picked(s)}] \in Int
    OBVIOUS
  <2> QED BY <2>1, <2>2, <1>3
<1> QED BY <1>5 DEF IsSum

LEMMA SumIsUnique ==
  ASSUME NEW S, IsFiniteSet(S), NEW T \in SUBSET S, NEW f,
         NEW g, IsSum(g, S, f), NEW h, IsSum(h, T, f)
  PROVE  \A s \in SUBSET T : g[s] = h[s]
<1> DEFINE Good == {k \in Nat : \A s \in SUBSET T : Cardinality(s) <= k => g[s] = h[s]}
<1>0. \A s \in SUBSET T : s \in SUBSET S /\ IsFiniteSet(s) /\ Cardinality(s) \in Nat /\ (Cardinality(s) = 0 <=> s = {})
  <2> SUFFICES ASSUME NEW s \in SUBSET T
               PROVE s \in SUBSET S /\ IsFiniteSet(s) /\ Cardinality(s) \in Nat /\ (Cardinality(s) = 0 <=> s = {})
    OBVIOUS
  <2>1. IsFiniteSet(s)
    BY FS_Subset
  <2> QED BY <2>1, FS_CardinalityType, FS_EmptySet
<1>1. \A s \in SUBSET T : IF s = {} THEN g[s] = 0 /\ h[s] = 0
                          ELSE /\ g[s] = f[Picked(s)] + g[s \ {Picked(s)}]
                               /\ h[s] = f[Picked(s)] + h[s \ {Picked(s)}]
  BY DEF IsSum
<1>2. 0 \in Good
  <2> SUFFICES ASSUME NEW s \in SUBSET T, Cardinality(s) <= 0 PROVE g[s] = h[s]
    OBVIOUS
  <2>1. Cardinality(s) \in Nat
    BY <1>0
  <2>2. Cardinality(s) = 0
    BY <2>1
  <2>3. s = {}
    BY <1>0, <2>2
  <2> QED BY <1>1, <2>3
<1>3. ASSUME NEW k \in Nat, k \in Good PROVE k + 1 \in Good
  <2> SUFFICES ASSUME NEW s \in SUBSET T, Cardinality(s) <= k + 1 PROVE g[s] = h[s]
    OBVIOUS
  <2>1. CASE s = {}
    BY <1>1, <2>1
  <2>2. CASE s # {}
    <3>1. s \ {Picked(s)} \in SUBSET T /\ Cardinality(s \ {Picked(s)}) = Cardinality(s) - 1 /\ Cardinality(s) \in Nat
      BY <1>0, <2>2, PickedIsOut
    <3>2. g[s \ {Picked(s)}] = h[s \ {Picked(s)}]
      BY <1>3, <3>1
    <3> QED BY <1>1, <2>2, <3>2
  <2> QED BY <2>1, <2>2
<1> HIDE DEF Good
<1>4. \A k \in Nat : k \in Good
  BY <1>2, <1>3, Induction
<1> QED BY <1>0, <1>4 DEF Good

IsTotal(g, S, f) ==
    /\ \A T \in SUBSET S : Total(f, T) = g[T]
    /\ \A s \in SUBSET S : g[s] = IF s = {} THEN 0 ELSE f[Picked(s)] + g[s \ {Picked(s)}]

LEMMA TotalIsSum ==
  ASSUME NEW S, IsFiniteSet(S), NEW f, \A x \in S : f[x] \in Int
  PROVE  \E g \in [SUBSET S -> Int] : IsTotal(g, S, f)
<1>1. PICK g \in [SUBSET S -> Int] : IsSum(g, S, f)
  BY SumExists
<1>2. ASSUME NEW T \in SUBSET S PROVE Total(f, T) = g[T]
  <2> DEFINE iter == CHOOSE h : IsSum(h, T, f)
  <2>1. Total(f, T) = iter[T]
    BY DEF Total, MapThenSumSet, MapThenFoldSet, IsSum, Picked
  <2>2. IsFiniteSet(T)
    BY FS_Subset
  <2>3. \E h : IsSum(h, T, f)
    BY <2>2, SumExists
  <2>4. IsSum(iter, T, f)
    BY <2>3
  <2> HIDE DEF iter
  <2>5. g[T] = iter[T]
    BY <1>1, <2>4, SumIsUnique
  <2> QED BY <2>1, <2>5
<1> QED BY <1>1, <1>2 DEF IsSum, IsTotal

(* A sum is what any one of its terms adds to the rest.                    *)
LEMMA TotalAdds ==
  ASSUME NEW S, IsFiniteSet(S), NEW f, \A x \in S : f[x] \in Int
  PROVE  /\ Total(f, S) \in Int
         /\ S = {} => Total(f, S) = 0
         /\ \A x \in S : Total(f, S) = f[x] + Total(f, S \ {x})
<1>p. PICK g \in [SUBSET S -> Int] : IsTotal(g, S, f)
  BY TotalIsSum, Zenon
<1>1. /\ \A T \in SUBSET S : Total(f, T) = g[T]
      /\ \A s \in SUBSET S : g[s] = IF s = {} THEN 0 ELSE f[Picked(s)] + g[s \ {Picked(s)}]
  BY <1>p DEF IsTotal
<1> DEFINE Each(s) == \A x \in s : g[s] = f[x] + g[s \ {x}]
           Good == {k \in Nat : \A s \in SUBSET S : Cardinality(s) = k => Each(s)}
<1>0. \A s \in SUBSET S : IsFiniteSet(s) /\ Cardinality(s) \in Nat /\ (Cardinality(s) = 0 <=> s = {})
  <2> SUFFICES ASSUME NEW s \in SUBSET S
               PROVE IsFiniteSet(s) /\ Cardinality(s) \in Nat /\ (Cardinality(s) = 0 <=> s = {})
    OBVIOUS
  <2>1. IsFiniteSet(s)
    BY FS_Subset
  <2> QED BY <2>1, FS_CardinalityType, FS_EmptySet
<1>2. 0 \in Good
  BY <1>0
<1>3. ASSUME NEW k \in Nat, k \in Good PROVE k + 1 \in Good
  <2> SUFFICES ASSUME NEW s \in SUBSET S, Cardinality(s) = k + 1, NEW x \in s PROVE g[s] = f[x] + g[s \ {x}]
    OBVIOUS
  <2> DEFINE y == Picked(s)
  <2>1. y \in s /\ g[s] = f[y] + g[s \ {y}]
    BY <1>1 DEF Picked
  <2>2. CASE x = y
    BY <2>1, <2>2
  <2>3. CASE x # y
    <3> HIDE DEF y
    <3>1. IsFiniteSet(s)
      BY <1>0
    <3>2. Cardinality(s \ {y}) = k /\ Cardinality(s \ {x}) = k
      <4>1. Cardinality(s \ {y}) = Cardinality(s) - 1
        BY <2>1, <3>1, FS_RemoveElement
      <4>2. Cardinality(s \ {x}) = Cardinality(s) - 1
        BY <3>1, FS_RemoveElement
      <4> QED BY <4>1, <4>2
    <3>3. /\ s \ {y} \in SUBSET S /\ s \ {x} \in SUBSET S /\ x \in s \ {y} /\ y \in s \ {x}
          /\ (s \ {y}) \ {x} = (s \ {x}) \ {y} /\ (s \ {y}) \ {x} \in SUBSET S
      BY <2>1, <2>3
    <3>4. g[s \ {y}] = f[x] + g[(s \ {y}) \ {x}] /\ g[s \ {x}] = f[y] + g[(s \ {x}) \ {y}]
      BY <1>3, <3>2, <3>3
    <3>5. f[x] \in Int /\ f[y] \in Int /\ g[(s \ {y}) \ {x}] \in Int
      BY <1>1, <2>1, <3>3
    <3>6. g[s] = f[y] + (f[x] + g[(s \ {y}) \ {x}]) /\ g[s \ {x}] = f[y] + g[(s \ {y}) \ {x}]
      BY <2>1, <3>3, <3>4
    <3>7. \A p, q, z \in Int : p + (q + z) = q + (p + z)
      OBVIOUS
    <3> QED BY <3>5, <3>6, <3>7
  <2> QED BY <2>2, <2>3
<1> HIDE DEF Good
<1>4. Cardinality(S) \in Good
  BY <1>0, <1>2, <1>3, Induction
<1>5. Each(S)
  BY <1>4 DEF Good
<1>6. Total(f, S) \in Int /\ (S = {} => Total(f, S) = 0)
  BY <1>1
<1> QED BY <1>1, <1>5, <1>6

(* In particular with one more element.                                    *)
LEMMA TotalGrows ==
  ASSUME NEW S, IsFiniteSet(S), NEW x, x \notin S, NEW f, \A y \in S \cup {x} : f[y] \in Int
  PROVE  Total(f, S \cup {x}) = f[x] + Total(f, S)
<1>1. IsFiniteSet(S \cup {x}) /\ (S \cup {x}) \ {x} = S /\ x \in S \cup {x}
  BY FS_AddElement
<1>2. \A y \in S \cup {x} : Total(f, S \cup {x}) = f[y] + Total(f, (S \cup {x}) \ {y})
  BY <1>1, TotalAdds
<1> QED BY <1>1, <1>2

(* Only the terms count.                                                   *)
LEMMA TotalIsSame ==
  ASSUME NEW S, IsFiniteSet(S), NEW f, NEW h, \A x \in S : f[x] \in Int /\ f[x] = h[x]
  PROVE  Total(f, S) = Total(h, S)
<1> DEFINE Good == {T \in SUBSET S : Total(f, T) = Total(h, T)}
<1>1. {} \in Good
  <2>1. IsFiniteSet({}) /\ Total(f, {}) = 0 /\ Total(h, {}) = 0
    BY FS_EmptySet, TotalAdds
  <2> QED BY <2>1
<1>2. ASSUME NEW T \in SUBSET S, NEW x \in S \ T, T \in Good PROVE T \cup {x} \in Good
  <2>1. IsFiniteSet(T)
    BY FS_Subset
  <2>2. Total(f, T \cup {x}) = f[x] + Total(f, T) /\ Total(h, T \cup {x}) = h[x] + Total(h, T)
    BY <2>1, TotalGrows
  <2> QED BY <1>2, <2>2
<1> HIDE DEF Good
<1>3. S \in Good
  BY <1>1, <1>2, SubsetInduction
<1> QED BY <1>3 DEF Good

-----------------------------------------------------------------------------
(* A scan accounts for its bytes and warns of what does not follow.        *)

LEMMA LeastExists ==
  ASSUME NEW hi \in Nat, NEW S \in SUBSET (0..hi), S # {}
  PROVE  (\E m \in S : \A x \in S : m <= x) /\ \E m \in S : \A x \in S : x <= m
<1>0. PICK z \in S : z \in 0..hi
  <2>1. PICK z : z \in S
    OBVIOUS
  <2> QED BY <2>1
<1> DEFINE lo == -1
<1>1. lo \in Int /\ \A s \in S : lo < s /\ s <= hi
  OBVIOUS
<1> HIDE DEF lo
<1>2. After(S, lo) \in S /\ \A x \in S : lo < x => After(S, lo) <= x
  <2>1. \E s \in S : lo < s
    BY <1>0, <1>1
  <2>2. IF \E s \in S : lo < s
        THEN After(S, lo) \in S /\ lo < After(S, lo) /\ \A x \in S : lo < x => After(S, lo) <= x
        ELSE After(S, lo) = None
    BY <1>1, AfterIsLeast
  <2> QED BY <2>1, <2>2
<1>3. \A x \in S : After(S, lo) <= x
  BY <1>1, <1>2
<1>5. AtOrBefore(S, hi) \in S /\ \A x \in S : x <= hi => x <= AtOrBefore(S, hi)
  <2>1. \E s \in S : s <= hi
    BY <1>0
  <2>2. hi \in Int
    OBVIOUS
  <2>3. IF \E s \in S : s <= hi
        THEN AtOrBefore(S, hi) \in S /\ AtOrBefore(S, hi) <= hi /\ \A x \in S : x <= hi => x <= AtOrBefore(S, hi)
        ELSE AtOrBefore(S, hi) = None
    BY <2>2, AtOrBeforeIsGreatest
  <2> QED BY <2>1, <2>3
<1>6. \A x \in S : x <= AtOrBefore(S, hi)
  BY <1>1, <1>5
<1> QED BY <1>2, <1>3, <1>5, <1>6

(* An instruction leads to the one behind it.                              *)
Behind == [rva \in RVAs |-> IF decoded_at(rva) = None THEN {} ELSE {rva + decoded_at(rva).size}]
Leads(start) == Closure({start}, Behind)
SizeAt == [rva \in RVAs |-> IF decoded_at(rva) = None THEN 0 ELSE decoded_at(rva).size]

Covered(sc) == UNION {Spanned(rva) : rva \in sc.decoded}
Gapped(sc)  == UNION {g.rva..(g.end - 1) : g \in sc.gaps}

LEMMA LeadsAreClosed ==
  ASSUME image \in Images, NEW start
  PROVE  /\ start \in Leads(start)
         /\ \A r \in Leads(start) : decoded_at(r) # None => r + decoded_at(r).size \in Leads(start)
         /\ \A H : start \in H /\ (\A r \in H : decoded_at(r) # None => r + decoded_at(r).size \in H)
                     => Leads(start) \subseteq H
<1>1. IsFiniteSet(DOMAIN Behind)
  <2>1. Span \in Nat
    BY SpanIsTheEnd
  <2> QED BY <2>1, FS_Interval DEF Behind, RVAs
<1>2. /\ {start} \subseteq Leads(start) /\ ClosedUnder(Leads(start), Behind)
      /\ \A H : {start} \subseteq H /\ ClosedUnder(H, Behind) => Leads(start) \subseteq H
  BY <1>1, ClosureIsLeast DEF Leads
<1>3. ASSUME NEW H PROVE ClosedUnder(H, Behind) <=> \A r \in H : decoded_at(r) # None => r + decoded_at(r).size \in H
  <2>1. \A r : decoded_at(r) # None => r \in RVAs
    BY DecodedInside DEF RVAs
  <2> QED BY <2>1 DEF ClosedUnder, Behind
<1> QED BY <1>2, <1>3

(* Instructions and gaps fill the way passed, each resync ends a gap.      *)
ScanOrder(sc) ==
  /\ sc.range.start \in Nat /\ sc.range.end \in Nat /\ sc.at \in sc.range.start..sc.range.end
  /\ IsFiniteSet(sc.decoded)
  /\ \A r \in sc.decoded : decoded_at(r) # None /\ sc.range.start <= r /\ r + decoded_at(r).size <= sc.at
  /\ \A g \in sc.gaps : /\ g.rva \in Int /\ g.end \in Int
                        /\ sc.range.start <= g.rva /\ g.rva < g.end /\ g.end <= sc.at
                        /\ g.end < sc.range.end => [stop |-> g.rva, resume |-> g.end] \in sc.resyncs
                        /\ \A r \in sc.decoded : r < g.rva \/ g.end <= r
  /\ \A s \in sc.resyncs : [rva |-> s.stop, end |-> s.resume] \in sc.gaps /\ s.resume < sc.range.end

ScanBytes(sc) ==
  /\ Covered(sc) \cup Gapped(sc) = sc.range.start..(sc.at - 1)
  /\ Covered(sc) \cap Gapped(sc) = {}
  /\ Total(SizeAt, sc.decoded) = Cardinality(Covered(sc))

(* The instructions up to the first gap are those the start leads to.      *)
FirstGap(sc, g) ==
  /\ \A x \in sc.gaps : g.rva <= x.rva
  /\ \A x \in Leads(sc.range.start) : x <= g.rva
  /\ \A r \in sc.decoded : r < g.rva => r \in Leads(sc.range.start)

ScanLeads(sc) ==
  IF sc.gaps = {}
  THEN /\ sc.range.start \in sc.decoded \cup {sc.at}
       /\ \A r \in sc.decoded : r + decoded_at(r).size \in sc.decoded \cup {sc.at}
       /\ sc.decoded \cup {sc.at} \subseteq Leads(sc.range.start)
  ELSE \E g \in sc.gaps : FirstGap(sc, g)

ScanEnds(sc) ==
  sc.over => \/ sc.at = sc.range.end \/ sc.truncated
             \/ decoded_at(sc.at) # None /\ sc.at + decoded_at(sc.at).size > sc.range.end

ScanShape(sc) == ScanOrder(sc) /\ ScanBytes(sc) /\ ScanLeads(sc) /\ ScanEnds(sc)
IsScan(sc) == sc = [range |-> sc.range, at |-> sc.at, decoded |-> sc.decoded, gaps |-> sc.gaps,
                    resyncs |-> sc.resyncs, truncated |-> sc.truncated, over |-> sc.over]
ScanInv ==
  scan # None => IsScan(scan) /\ (scan.range.start <= scan.range.end => ScanShape(scan))

LEMMA SpanCounts ==
  ASSUME image \in Images, NEW rva, decoded_at(rva) # None
  PROVE  /\ IsFiniteSet(Spanned(rva)) /\ Cardinality(Spanned(rva)) = decoded_at(rva).size
         /\ SizeAt[rva] = decoded_at(rva).size /\ rva \in RVAs /\ rva \in Spanned(rva)
<1>1. rva \in 0..(Span - 1) /\ decoded_at(rva).size \in Nat \ {0}
  BY DecodedInside
<1>2. rva \in Int /\ rva + decoded_at(rva).size - 1 \in Int
  BY <1>1
<1>3. rva <= rva + decoded_at(rva).size - 1
      /\ (rva + decoded_at(rva).size - 1) - rva + 1 = decoded_at(rva).size
  BY <1>1
<1>4. IsFiniteSet(Spanned(rva)) /\ Cardinality(Spanned(rva)) = decoded_at(rva).size
  <2> DEFINE hi == rva + decoded_at(rva).size - 1
  <2>1. ~(rva > hi) /\ hi - rva + 1 = decoded_at(rva).size /\ hi \in Int
    BY <1>1, <1>2, <1>3
  <2>2. Spanned(rva) = rva..hi
    BY DEF Spanned
  <2> HIDE DEF hi
  <2>3. IsFiniteSet(rva..hi) /\ Cardinality(rva..hi) = IF rva > hi THEN 0 ELSE hi - rva + 1
    BY <1>2, <2>1, FS_Interval
  <2> QED BY <2>1, <2>2, <2>3
<1> QED BY <1>1, <1>3, <1>4 DEF SizeAt, RVAs, Spanned

LEMMA ScanInsnShape ==
  ASSUME image \in Images, NEW sc, ScanShape(sc), ~sc.over, decoded_at(sc.at) # None,
         sc.at + decoded_at(sc.at).size <= sc.range.end,
         NEW nx, nx.range = sc.range, nx.gaps = sc.gaps, nx.resyncs = sc.resyncs, nx.over = sc.over,
         nx.decoded = sc.decoded \cup {sc.at}, nx.at = sc.at + decoded_at(sc.at).size
  PROVE  ScanShape(nx)
<1> DEFINE at == sc.at
           size == decoded_at(at).size
           start == sc.range.start
<1>1. size \in Nat \ {0} /\ at \in Nat /\ start \in Nat /\ sc.range.end \in Nat /\ start <= at
  BY DecodedInside DEF ScanShape, ScanOrder
<1>2. \A r \in sc.decoded : decoded_at(r) # None /\ r \in Nat /\ decoded_at(r).size \in Nat \ {0}
                            /\ r + decoded_at(r).size <= at /\ r < at
  <2> SUFFICES ASSUME NEW r \in sc.decoded
               PROVE  decoded_at(r) # None /\ r \in Nat /\ decoded_at(r).size \in Nat \ {0}
                            /\ r + decoded_at(r).size <= at /\ r < at
    OBVIOUS
  <2>1. decoded_at(r) # None /\ r + decoded_at(r).size <= at
    BY DEF ScanShape, ScanOrder
  <2>2. r \in 0..(Span - 1) /\ Span \in Nat /\ decoded_at(r).size \in Nat \ {0}
    BY <2>1, DecodedInside
  <2> QED BY <1>1, <2>1, <2>2
<1>3. ScanOrder(nx)
  <2>1. IsFiniteSet(nx.decoded)
    BY FS_AddElement DEF ScanShape, ScanOrder
  <2>2. nx.at \in nx.range.start..nx.range.end
    BY <1>1
  <2>3. \A r \in nx.decoded : decoded_at(r) # None /\ nx.range.start <= r /\ r + decoded_at(r).size <= nx.at
    <3>1. \A r \in sc.decoded : start <= r
      BY DEF ScanShape, ScanOrder
    <3> QED BY <1>1, <1>2, <3>1
  <2>4. ASSUME NEW g \in nx.gaps
        PROVE  /\ g.rva \in Int /\ g.end \in Int
               /\ nx.range.start <= g.rva /\ g.rva < g.end /\ g.end <= nx.at
               /\ g.end < nx.range.end => [stop |-> g.rva, resume |-> g.end] \in nx.resyncs
               /\ \A r \in nx.decoded : r < g.rva \/ g.end <= r
    <3>1. /\ g.rva \in Int /\ g.end \in Int
          /\ start <= g.rva /\ g.rva < g.end /\ g.end <= at
          /\ g.end < sc.range.end => [stop |-> g.rva, resume |-> g.end] \in sc.resyncs
          /\ \A r \in sc.decoded : r < g.rva \/ g.end <= r
      BY <2>4 DEF ScanShape, ScanOrder
    <3> QED BY <1>1, <3>1
  <2>5. \A s \in nx.resyncs : [rva |-> s.stop, end |-> s.resume] \in nx.gaps /\ s.resume < nx.range.end
    BY DEF ScanShape, ScanOrder
  <2> QED BY <1>1, <2>1, <2>2, <2>3, <2>4, <2>5 DEF ScanOrder
<1>4. ScanBytes(nx)
  <2>1. Spanned(at) = at..(nx.at - 1) /\ IsFiniteSet(Spanned(at)) /\ Cardinality(Spanned(at)) = size /\ SizeAt[at] = size
    <3>1. Spanned(at) = at..(nx.at - 1)
      <4>1. Spanned(at) = at..(at + size - 1)
        BY DEF Spanned
      <4>2. nx.at - 1 = at + size - 1
        BY <1>1
      <4> QED BY <4>1, <4>2
    <3>2. IsFiniteSet(Spanned(at)) /\ Cardinality(Spanned(at)) = size /\ SizeAt[at] = size
      BY SpanCounts
    <3> QED BY <3>1, <3>2
  <2>2. Covered(nx) = Covered(sc) \cup Spanned(at) /\ Gapped(nx) = Gapped(sc)
    BY DEF Covered, Gapped
  <2>3. /\ Covered(sc) \cup Gapped(sc) = start..(at - 1) /\ Covered(sc) \cap Gapped(sc) = {}
        /\ Total(SizeAt, sc.decoded) = Cardinality(Covered(sc)) /\ IsFiniteSet(sc.decoded)
    BY DEF ScanShape, ScanBytes, ScanOrder
  <2>4. (Covered(sc) \cup Gapped(sc)) \cap Spanned(at) = {}
    BY <1>1, <2>1, <2>3
  <2>5. start..(nx.at - 1) = (start..(at - 1)) \cup Spanned(at)
    <3>1. nx.at = at + size
      OBVIOUS
    <3> HIDE DEF at, size, start
    <3> QED BY <1>1, <2>1, <3>1
  <2>6. IsFiniteSet(Covered(sc))
    <3>1. IsFiniteSet(start..(at - 1))
      <4>1. start \in Int /\ at - 1 \in Int
        BY <1>1
      <4> HIDE DEF at, start
      <4> QED BY <4>1, FS_Interval
    <3>2. Covered(sc) \in SUBSET (start..(at - 1))
      BY <2>3
    <3> QED BY <3>1, <3>2, FS_Subset
  <2>7. Cardinality(Covered(sc) \cup Spanned(at)) = Cardinality(Covered(sc)) + size
    <3>1. Cardinality(Covered(sc) \cap Spanned(at)) = 0
      <4>1. Covered(sc) \cap Spanned(at) = {}
        BY <2>4
      <4> QED BY <4>1, FS_EmptySet
    <3>2. Cardinality(Covered(sc) \cup Spanned(at))
             = Cardinality(Covered(sc)) + Cardinality(Spanned(at)) - Cardinality(Covered(sc) \cap Spanned(at))
      BY <2>1, <2>6, FS_Union
    <3>3. Cardinality(Covered(sc)) \in Nat
      BY <2>6, FS_CardinalityType
    <3> QED BY <1>1, <2>1, <3>1, <3>2, <3>3
  <2>8. Total(SizeAt, sc.decoded \cup {at}) = size + Total(SizeAt, sc.decoded)
    <3>1. at \notin sc.decoded
      BY <1>1, <1>2
    <3>2. \A y \in sc.decoded \cup {at} : SizeAt[y] \in Int
      <4>1. \A y \in sc.decoded : SizeAt[y] = decoded_at(y).size
        BY <1>2, SpanCounts
      <4> QED BY <1>1, <1>2, <2>1, <4>1
    <3> HIDE DEF at, size
    <3>3. Total(SizeAt, sc.decoded \cup {at}) = SizeAt[at] + Total(SizeAt, sc.decoded)
      BY <2>3, <3>1, <3>2, TotalGrows
    <3> QED BY <2>1, <3>3
  <2>9. Cardinality(Covered(sc)) \in Nat
    BY <2>6, FS_CardinalityType
  <2> HIDE DEF at, size, start
  <2>10. nx.decoded = sc.decoded \cup {at} /\ nx.range.start = start
    BY DEF at, start
  <2>11. Total(SizeAt, nx.decoded) = Cardinality(Covered(nx))
    <3>1. Total(SizeAt, nx.decoded) = size + Total(SizeAt, sc.decoded)
      BY <2>8, <2>10
    <3>2. Cardinality(Covered(nx)) = Cardinality(Covered(sc)) + size
      BY <2>2, <2>7
    <3> QED BY <1>1, <2>3, <2>9, <3>1, <3>2
  <2>12. Covered(nx) \cup Gapped(nx) = start..(nx.at - 1)
    BY <2>2, <2>3, <2>5
  <2>13. Covered(nx) \cap Gapped(nx) = {}
    BY <2>2, <2>3, <2>4
  <2> QED BY <2>10, <2>11, <2>12, <2>13 DEF ScanBytes
<1>5. ScanLeads(nx)
  <2>1. nx.at = at + size
    OBVIOUS
  <2>2. CASE sc.gaps = {}
    <3>1. /\ start \in sc.decoded \cup {at}
          /\ \A r \in sc.decoded : r + decoded_at(r).size \in sc.decoded \cup {at}
          /\ sc.decoded \cup {at} \subseteq Leads(start)
      BY <2>2 DEF ScanShape, ScanLeads
    <3>2. at + size \in Leads(start)
      BY <3>1, LeadsAreClosed
    <3>3. nx.range.start \in nx.decoded \cup {nx.at} /\ nx.decoded \cup {nx.at} \subseteq Leads(nx.range.start)
      BY <3>1, <3>2
    <3>4. \A r \in nx.decoded : r + decoded_at(r).size \in nx.decoded \cup {nx.at}
      BY <3>1
    <3> QED BY <2>2, <3>3, <3>4 DEF ScanLeads
  <2>3. CASE sc.gaps # {}
    <3>1. PICK g \in sc.gaps : FirstGap(sc, g)
      BY <2>3 DEF ScanShape, ScanLeads
    <3>2. g.rva \in Int /\ g.end \in Int /\ g.rva < g.end /\ g.end <= at
      BY <3>1 DEF ScanShape, ScanOrder
    <3>3. FirstGap(nx, g)
      BY <1>1, <3>1, <3>2 DEF FirstGap
    <3> QED BY <2>3, <3>3 DEF ScanLeads
  <2> QED BY <2>2, <2>3
<1> QED BY <1>3, <1>4, <1>5 DEF ScanShape, ScanEnds

LEMMA ResumeIsNext ==
  ASSUME NEW rva \in Nat, NEW end \in Nat, rva < end
  PROVE  LET resume == resume_at(rva, end) IN
         /\ resume \in (rva + 1)..end /\ (resume = end \/ decoded_at(resume) # None)
         /\ \A r \in (rva + 1)..(resume - 1) : decoded_at(r) = None
<1> DEFINE hits == {r \in (rva + 1)..end : r = end \/ decoded_at(r) # None}
<1>1. hits \in SUBSET (0..end) /\ end \in hits
  OBVIOUS
<1>2. \E m \in hits : \A x \in hits : m <= x
  <2>1. hits # {}
    BY <1>1
  <2> HIDE DEF hits
  <2> QED BY <1>1, <2>1, LeastExists
<1>3. resume_at(rva, end) \in hits /\ \A x \in hits : resume_at(rva, end) <= x
  BY <1>2 DEF resume_at
<1>4. ASSUME NEW r \in (rva + 1)..(resume_at(rva, end) - 1) PROVE decoded_at(r) = None
  <2>1. resume_at(rva, end) \in Int /\ resume_at(rva, end) <= end
    BY <1>3
  <2>2. r \notin hits
    BY <1>3, <2>1
  <2>3. r \in (rva + 1)..end
    BY <2>1
  <2> QED BY <2>2, <2>3
<1> QED BY <1>3, <1>4

LEMMA ScanGapShape ==
  ASSUME image \in Images, NEW sc, ScanShape(sc), ~sc.over, decoded_at(sc.at) = None,
         sc.at < sc.range.end, NEW resume \in (sc.at + 1)..sc.range.end,
         NEW nx, nx.range = sc.range, nx.decoded = sc.decoded, nx.over = sc.over,
         nx.gaps = sc.gaps \cup {[rva |-> sc.at, end |-> resume]}, nx.at = resume,
         nx.resyncs = sc.resyncs \cup
            {[stop |-> sc.at, resume |-> resume] : x \in {resume} \ {sc.range.end}}
  PROVE  ScanShape(nx)
<1> DEFINE at == sc.at
           start == sc.range.start
           new == [rva |-> at, end |-> resume]
<1>1. at \in Nat /\ start \in Nat /\ sc.range.end \in Nat /\ start <= at /\ resume \in Nat
      /\ at < resume /\ resume <= sc.range.end
  BY DEF ScanShape, ScanOrder
<1>2. \A r \in sc.decoded : decoded_at(r) # None /\ r \in Nat /\ decoded_at(r).size \in Nat \ {0}
                            /\ start <= r /\ r + decoded_at(r).size <= at /\ r < at
  <2> SUFFICES ASSUME NEW r \in sc.decoded
               PROVE  decoded_at(r) # None /\ r \in Nat /\ decoded_at(r).size \in Nat \ {0}
                            /\ start <= r /\ r + decoded_at(r).size <= at /\ r < at
    OBVIOUS
  <2>1. decoded_at(r) # None /\ r + decoded_at(r).size <= at /\ start <= r
    BY DEF ScanShape, ScanOrder
  <2>2. r \in 0..(Span - 1) /\ Span \in Nat /\ decoded_at(r).size \in Nat \ {0}
    BY <2>1, DecodedInside
  <2> QED BY <1>1, <2>1, <2>2
<1>3. ScanOrder(nx)
  <2>1. IsFiniteSet(nx.decoded)
    BY DEF ScanShape, ScanOrder
  <2>2. nx.at \in nx.range.start..nx.range.end
    BY <1>1
  <2>3. \A r \in nx.decoded : decoded_at(r) # None /\ nx.range.start <= r /\ r + decoded_at(r).size <= nx.at
    BY <1>1, <1>2
  <2>4. ASSUME NEW g \in nx.gaps
        PROVE  /\ g.rva \in Int /\ g.end \in Int
               /\ nx.range.start <= g.rva /\ g.rva < g.end /\ g.end <= nx.at
               /\ g.end < nx.range.end => [stop |-> g.rva, resume |-> g.end] \in nx.resyncs
               /\ \A r \in nx.decoded : r < g.rva \/ g.end <= r
    <3>1. CASE g \in sc.gaps
      <4>1. /\ g.rva \in Int /\ g.end \in Int
            /\ start <= g.rva /\ g.rva < g.end /\ g.end <= at
            /\ g.end < sc.range.end => [stop |-> g.rva, resume |-> g.end] \in sc.resyncs
            /\ \A r \in sc.decoded : r < g.rva \/ g.end <= r
        BY <3>1 DEF ScanShape, ScanOrder
      <4> QED BY <1>1, <4>1
    <3>2. CASE g = new
      <4>1. g.rva = at /\ g.end = resume
        BY <3>2
      <4>2. resume < sc.range.end => [stop |-> at, resume |-> resume] \in nx.resyncs
        BY <1>1
      <4> QED BY <1>1, <1>2, <4>1, <4>2
    <3> QED BY <2>4, <3>1, <3>2
  <2>5. ASSUME NEW s \in nx.resyncs
        PROVE  [rva |-> s.stop, end |-> s.resume] \in nx.gaps /\ s.resume < nx.range.end
    <3>1. CASE s \in sc.resyncs
      BY <3>1 DEF ScanShape, ScanOrder
    <3>2. CASE s = [stop |-> at, resume |-> resume] /\ resume # sc.range.end
      BY <1>1, <3>2
    <3> QED BY <2>5, <3>1, <3>2
  <2> QED BY <1>1, <2>1, <2>2, <2>3, <2>4, <2>5 DEF ScanOrder
<1>4. ScanBytes(nx)
  <2>1. Covered(nx) = Covered(sc) /\ Gapped(nx) = Gapped(sc) \cup at..(resume - 1)
    <3>1. new.rva = at /\ new.end = resume /\ nx.gaps = sc.gaps \cup {new} /\ nx.decoded = sc.decoded
      OBVIOUS
    <3> HIDE DEF new, at
    <3>2. Gapped(nx) = Gapped(sc) \cup new.rva..(new.end - 1)
      BY <3>1 DEF Gapped
    <3>3. Covered(nx) = Covered(sc)
      BY <3>1 DEF Covered
    <3> QED BY <3>1, <3>2, <3>3
  <2>2. /\ Covered(sc) \cup Gapped(sc) = start..(at - 1) /\ Covered(sc) \cap Gapped(sc) = {}
        /\ Total(SizeAt, sc.decoded) = Cardinality(Covered(sc))
    BY DEF ScanShape, ScanBytes
  <2>3. start..(resume - 1) = (start..(at - 1)) \cup at..(resume - 1)
    BY <1>1
  <2>4. Covered(sc) \cap at..(resume - 1) = {}
    BY <1>1, <2>2
  <2>5. nx.at = resume /\ nx.decoded = sc.decoded /\ nx.range.start = start
    OBVIOUS
  <2> HIDE DEF at, start
  <2>6. Covered(nx) \cup Gapped(nx) = start..(resume - 1)
    BY <2>1, <2>2, <2>3
  <2>7. Covered(nx) \cap Gapped(nx) = {}
    BY <2>1, <2>2, <2>4
  <2>8. Total(SizeAt, nx.decoded) = Cardinality(Covered(nx))
    BY <2>1, <2>2, <2>5
  <2> QED BY <2>5, <2>6, <2>7, <2>8 DEF ScanBytes
<1>5. \A g \in sc.gaps : g.rva \in Int /\ g.rva < at
  <2> SUFFICES ASSUME NEW g \in sc.gaps PROVE g.rva \in Int /\ g.rva < at
    OBVIOUS
  <2>1. g.rva \in Int /\ g.end \in Int /\ g.rva < g.end /\ g.end <= at
    BY DEF ScanShape, ScanOrder
  <2> QED BY <1>1, <2>1
<1>6. ScanLeads(nx)
  <2>1. CASE sc.gaps = {}
    <3>1. /\ start \in sc.decoded \cup {at}
          /\ \A r \in sc.decoded : r + decoded_at(r).size \in sc.decoded \cup {at}
          /\ sc.decoded \cup {at} \subseteq Leads(start)
      BY <2>1 DEF ScanShape, ScanLeads
    <3>2. Leads(start) \subseteq sc.decoded \cup {at}
      <4> DEFINE H == sc.decoded \cup {at}
      <4>1. \A r \in H : decoded_at(r) # None => r + decoded_at(r).size \in H
        BY <3>1
      <4>2. start \in H
        BY <3>1
      <4> HIDE DEF H, at, start
      <4>3. Leads(start) \subseteq H
        BY <4>1, <4>2, LeadsAreClosed
      <4> QED BY <4>3 DEF H
    <3>3. new \in nx.gaps /\ new.rva = at /\ \A g \in nx.gaps : g = new
      BY <2>1
    <3>4. FirstGap(nx, new)
      BY <1>1, <1>2, <3>1, <3>2, <3>3 DEF FirstGap
    <3> QED BY <3>3, <3>4 DEF ScanLeads
  <2>2. CASE sc.gaps # {}
    <3>1. PICK g \in sc.gaps : FirstGap(sc, g)
      BY <2>2 DEF ScanShape, ScanLeads
    <3>2. \A x \in nx.gaps : x \in sc.gaps \/ x.rva = at
      OBVIOUS
    <3>3. FirstGap(nx, g)
      BY <1>1, <1>5, <3>1, <3>2 DEF FirstGap
    <3> QED BY <2>2, <3>1, <3>3 DEF ScanLeads
  <2> QED BY <2>1, <2>2
<1> QED BY <1>3, <1>4, <1>6 DEF ScanShape, ScanEnds

(* What a scan warns of is behind a resync.                                *)
LEMMA UnprovenIsBehind ==
  ASSUME image \in Images, ScanShape(scan), NEW rva \in scan.decoded
  PROVE  (\E run \in unproven_runs : run.start <= rva /\ rva < run.end)
            <=> \E r \in scan.resyncs : r.resume <= rva
<1> DEFINE Later(r) == {x.stop : x \in {x \in scan.resyncs : r.resume <= x.stop}} \cup {scan.range.end}
           Least(r) == CHOOSE e \in Later(r) : \A x \in Later(r) : e <= x
           end == scan.range.end
           Runs == {[start |-> r.resume, end |-> Least(r)] : r \in scan.resyncs}
<1>1. unproven_runs = {run \in Runs : \E x \in scan.decoded : run.start <= x /\ x < run.end}
  BY DEF unproven_runs
<1>2. \A s \in scan.resyncs : /\ s.stop \in Nat /\ s.resume \in Nat /\ s.stop < s.resume /\ s.resume < end
                              /\ rva < s.stop \/ s.resume <= rva
  <2> SUFFICES ASSUME NEW s \in scan.resyncs
               PROVE  /\ s.stop \in Nat /\ s.resume \in Nat /\ s.stop < s.resume /\ s.resume < end
                      /\ rva < s.stop \/ s.resume <= rva
    OBVIOUS
  <2> DEFINE g == [rva |-> s.stop, end |-> s.resume]
  <2>1. g \in scan.gaps /\ s.resume < end /\ scan.range.start \in Nat
    BY DEF ScanShape, ScanOrder
  <2>2. /\ g.rva \in Int /\ g.end \in Int /\ scan.range.start <= g.rva /\ g.rva < g.end
        /\ rva < g.rva \/ g.end <= rva
    BY <2>1 DEF ScanShape, ScanOrder
  <2>3. g.rva = s.stop /\ g.end = s.resume
    OBVIOUS
  <2> HIDE DEF g, end
  <2> QED BY <2>1, <2>2, <2>3
<1>3. rva \in Nat /\ end \in Nat /\ rva < end
  <2>1. /\ decoded_at(rva) # None /\ rva + decoded_at(rva).size <= scan.at /\ scan.range.end \in Nat
        /\ scan.at \in scan.range.start..scan.range.end /\ scan.range.start \in Nat
    BY DEF ScanShape, ScanOrder
  <2>2. rva \in 0..(Span - 1) /\ Span \in Nat /\ decoded_at(rva).size \in Nat \ {0}
    BY <2>1, DecodedInside
  <2> QED BY <2>1, <2>2
<1>4. ASSUME NEW r \in scan.resyncs
      PROVE  Least(r) \in Later(r)
  <2>1. Later(r) \in SUBSET (0..end) /\ Later(r) # {}
    <3>1. \A x \in scan.resyncs : x.stop \in 0..end
      BY <1>2, <1>3
    <3>2. end \in 0..end
      BY <1>3
    <3> QED BY <3>1, <3>2
  <2> HIDE DEF Later, end
  <2>2. \E m \in Later(r) : \A x \in Later(r) : m <= x
    BY <1>3, <2>1, LeastExists
  <2> QED BY <2>2
<1> HIDE DEF Least
<1>5. ASSUME NEW run \in unproven_runs, run.start <= rva
      PROVE  \E r \in scan.resyncs : r.resume <= rva
  <2>1. PICK r \in scan.resyncs : run = [start |-> r.resume, end |-> Least(r)]
    BY <1>1, <1>5
  <2>2. run.start = r.resume
    BY <2>1
  <2> QED BY <1>5, <2>2
<1>6. ASSUME NEW q \in scan.resyncs, q.resume <= rva
      PROVE  \E run \in unproven_runs : run.start <= rva /\ rva < run.end
  <2> DEFINE U == {x.resume : x \in {x \in scan.resyncs : x.resume <= rva}}
  <2>1. U \in SUBSET (0..rva) /\ U # {}
    <3>1. q.resume \in U
      BY <1>6
    <3>2. \A u \in U : u \in 0..rva
      BY <1>2, <1>3
    <3> QED BY <3>1, <3>2
  <2>2. \E m \in U : \A x \in U : x <= m
    <3> HIDE DEF U
    <3> QED BY <1>3, <2>1, LeastExists
  <2>3. PICK r \in scan.resyncs : r.resume <= rva /\ \A x \in scan.resyncs : x.resume <= rva => x.resume <= r.resume
    BY <2>2
  <2>4. rva < Least(r)
    <3>1. CASE Least(r) = end
      BY <1>3, <3>1
    <3>2. CASE Least(r) # end
      <4>1. PICK x \in scan.resyncs : Least(r) = x.stop /\ r.resume <= x.stop
        BY <1>4, <3>2
      <4>2. ~(x.resume <= rva)
        BY <1>2, <2>3, <4>1
      <4> QED BY <1>2, <4>1, <4>2
    <3> QED BY <3>1, <3>2
  <2> DEFINE run == [start |-> r.resume, end |-> Least(r)]
  <2>5. run.start = r.resume /\ run.end = Least(r) /\ run \in Runs
    OBVIOUS
  <2> HIDE DEF run
  <2>6. run.start <= rva /\ rva < run.end
    BY <2>3, <2>4, <2>5
  <2>7. run \in unproven_runs
    BY <1>1, <2>5, <2>6
  <2> QED BY <2>6, <2>7
<1> QED BY <1>5, <1>6

(* The instructions that do not follow from the start are behind a resync. *)
LEMMA WarnedAreLost ==
  ASSUME image \in Images, ScanShape(scan), NEW rva \in scan.decoded
  PROVE  rva \notin Leads(scan.range.start) <=> \E r \in scan.resyncs : r.resume <= rva
<1>1. /\ \A g \in scan.gaps : /\ g.rva \in Int /\ g.end \in Int /\ g.rva < g.end
                              /\ g.end < scan.range.end => [stop |-> g.rva, resume |-> g.end] \in scan.resyncs
                              /\ rva < g.rva \/ g.end <= rva
      /\ \A s \in scan.resyncs : [rva |-> s.stop, end |-> s.resume] \in scan.gaps
  BY DEF ScanShape, ScanOrder
<1>2. rva \in Nat /\ scan.range.end \in Nat /\ rva < scan.range.end
  <2>1. /\ decoded_at(rva) # None /\ rva + decoded_at(rva).size <= scan.at /\ scan.range.end \in Nat
        /\ scan.at \in scan.range.start..scan.range.end /\ scan.range.start \in Nat
    BY DEF ScanShape, ScanOrder
  <2>2. rva \in 0..(Span - 1) /\ Span \in Nat /\ decoded_at(rva).size \in Nat \ {0}
    BY <2>1, DecodedInside
  <2> QED BY <2>1, <2>2
<1>3. CASE scan.gaps = {}
  <2>1. rva \in Leads(scan.range.start)
    BY <1>3 DEF ScanShape, ScanLeads
  <2>2. \A s \in scan.resyncs : FALSE
    BY <1>1, <1>3
  <2> QED BY <2>1, <2>2
<1>4. CASE scan.gaps # {}
  <2>1. PICK g \in scan.gaps : FirstGap(scan, g)
    BY <1>4 DEF ScanShape, ScanLeads
  <2>2. CASE rva < g.rva
    <3>1. rva \in Leads(scan.range.start)
      BY <2>1, <2>2 DEF FirstGap
    <3>2. ASSUME NEW s \in scan.resyncs, s.resume <= rva PROVE FALSE
      <4> DEFINE x == [rva |-> s.stop, end |-> s.resume]
      <4>1. x \in scan.gaps /\ x.rva = s.stop /\ x.end = s.resume
        BY <1>1
      <4> HIDE DEF x
      <4>2. g.rva <= x.rva /\ x.rva < x.end /\ x.rva \in Int /\ x.end \in Int /\ g.rva \in Int
        BY <1>1, <2>1, <4>1 DEF FirstGap
      <4> QED BY <1>2, <2>2, <3>2, <4>1, <4>2
    <3> QED BY <3>1, <3>2
  <2>3. CASE g.end <= rva
    <3>1. g.rva \in Int /\ g.end \in Int /\ g.rva < rva /\ g.end < scan.range.end
      <4>1. g.rva \in Int /\ g.end \in Int /\ g.rva < g.end
        BY <1>1
      <4> QED BY <1>2, <2>3, <4>1
    <3>2. rva \notin Leads(scan.range.start)
      BY <1>2, <2>1, <3>1 DEF FirstGap
    <3> DEFINE s == [stop |-> g.rva, resume |-> g.end]
    <3>3. s \in scan.resyncs /\ s.resume = g.end
      BY <1>1, <2>1, <3>1
    <3> HIDE DEF s
    <3>4. \E r \in scan.resyncs : r.resume <= rva
      BY <2>3, <3>3
    <3> QED BY <3>2, <3>4
  <2> QED BY <1>1, <2>1, <2>2, <2>3
<1> QED BY <1>3, <1>4

(* A scan that is over is complete if the start leads to the end.          *)
LEMMA CompleteLeads ==
  ASSUME image \in Images, ScanShape(scan), scan.over
  PROVE  is_complete <=> ~scan.truncated /\ scan.range.end \in Leads(scan.range.start)
<1> DEFINE start == scan.range.start
           end == scan.range.end
           at == scan.at
<1>1. start \in Nat /\ end \in Nat /\ at \in Nat /\ start <= at /\ at <= end
  BY DEF ScanShape, ScanOrder
<1>2. scan.gaps = {} => /\ scan.resyncs = {}
                        /\ Covered(scan) = start..(at - 1)
                        /\ start \in scan.decoded \cup {at}
                        /\ \A r \in scan.decoded : r + decoded_at(r).size \in scan.decoded \cup {at}
                        /\ scan.decoded \cup {at} \subseteq Leads(start)
  <2> SUFFICES ASSUME scan.gaps = {}
               PROVE  /\ scan.resyncs = {}
                      /\ Covered(scan) = start..(at - 1)
                      /\ start \in scan.decoded \cup {at}
                      /\ \A r \in scan.decoded : r + decoded_at(r).size \in scan.decoded \cup {at}
                      /\ scan.decoded \cup {at} \subseteq Leads(start)
    OBVIOUS
  <2>1. scan.resyncs = {}
    <3>1. \A s \in scan.resyncs : FALSE
      BY DEF ScanShape, ScanOrder
    <3> QED BY <3>1
  <2>2. Covered(scan) = start..(at - 1)
    <3>1. Covered(scan) \cup Gapped(scan) = start..(at - 1)
      BY DEF ScanShape, ScanBytes
    <3>2. Gapped(scan) = {}
      BY DEF Gapped
    <3> HIDE DEF start, at
    <3> QED BY <3>1, <3>2
  <2> QED BY <2>1, <2>2 DEF ScanShape, ScanLeads
<1>3. covered_by_scan = Covered(scan)
  BY DEF covered_by_scan, Covered
<1>4. Cardinality(start..(at - 1)) = end - start <=> at = end
  <2>1. start \in Int /\ at - 1 \in Int
    BY <1>1
  <2> HIDE DEF start, at, end
  <2>2. Cardinality(start..(at - 1)) = IF start > at - 1 THEN 0 ELSE (at - 1) - start + 1
    BY <2>1, FS_Interval
  <2> QED BY <1>1, <2>2
<1>5. ASSUME is_complete PROVE ~scan.truncated /\ end \in Leads(start)
  <2>1. scan.gaps = {} /\ ~scan.truncated /\ Cardinality(covered_by_scan) = end - start
    BY <1>5 DEF is_complete
  <2>2. at = end
    BY <1>2, <1>3, <1>4, <2>1
  <2> QED BY <1>2, <2>1, <2>2
<1>6. ASSUME ~scan.truncated, end \in Leads(start) PROVE is_complete
  <2>1. scan.gaps = {}
    <3> SUFFICES ASSUME scan.gaps # {} PROVE FALSE
      OBVIOUS
    <3>1. PICK g \in scan.gaps : FirstGap(scan, g)
      BY DEF ScanShape, ScanLeads
    <3>2. g.rva \in Int /\ g.end \in Int /\ g.rva < g.end /\ g.end <= at
      BY <3>1 DEF ScanShape, ScanOrder
    <3>3. end <= g.rva
      BY <1>6, <3>1 DEF FirstGap
    <3> QED BY <1>1, <3>2, <3>3
  <2>2. at = end
    <3> SUFFICES ASSUME at # end PROVE FALSE
      OBVIOUS
    <3>1. decoded_at(at) # None /\ at + decoded_at(at).size > end
      BY <1>6 DEF ScanShape, ScanEnds
    <3> DEFINE H == scan.decoded \cup {at} \cup {x \in Int : x > end}
    <3>2. \A r \in H : decoded_at(r) # None => r + decoded_at(r).size \in H
      <4>1. \A r : decoded_at(r) # None => decoded_at(r).size \in Nat \ {0} /\ r \in Int
        <5> SUFFICES ASSUME NEW r, decoded_at(r) # None
                     PROVE  decoded_at(r).size \in Nat \ {0} /\ r \in Int
          OBVIOUS
        <5>1. r \in 0..(Span - 1) /\ decoded_at(r).size \in Nat \ {0}
          BY DecodedInside
        <5> QED BY <5>1
      <4> HIDE DEF at, end
      <4>2. ASSUME NEW r \in scan.decoded PROVE r + decoded_at(r).size \in H
        BY <1>2, <2>1
      <4>3. at + decoded_at(at).size \in H
        <5>1. at + decoded_at(at).size \in Int
          BY <3>1, <4>1
        <5> QED BY <3>1, <5>1
      <4>4. ASSUME NEW r \in Int, r > end, decoded_at(r) # None PROVE r + decoded_at(r).size \in H
        <5>1. decoded_at(r).size \in Nat
          BY <4>1, <4>4
        <5>2. r + decoded_at(r).size \in Int /\ r + decoded_at(r).size > end
          BY <1>1, <4>4, <5>1
        <5> QED BY <5>2
      <4> QED BY <4>2, <4>3, <4>4
    <3>3. start \in H
      BY <1>2, <2>1
    <3> HIDE DEF H
    <3>4. Leads(start) \subseteq H
      <4> HIDE DEF start
      <4> QED BY <3>2, <3>3, LeadsAreClosed
    <3>5. end \in scan.decoded
      <4>1. end \in H /\ ~(end > end)
        BY <1>1, <1>6, <3>4
      <4> HIDE DEF end, at
      <4> QED BY <4>1 DEF H
    <3>6. decoded_at(end) # None /\ end + decoded_at(end).size <= at
      BY <3>5 DEF ScanShape, ScanOrder
    <3>7. decoded_at(end).size \in Nat \ {0}
      <4> HIDE DEF end
      <4> QED BY <3>6, DecodedInside
    <3> QED BY <1>1, <3>6, <3>7
  <2> QED BY <1>2, <1>3, <1>4, <1>6, <2>1, <2>2 DEF is_complete
<1> QED BY <1>5, <1>6

(* The sizes of the instructions of a scan, as the property adds them.     *)
LEMMA SizesAreSummed ==
  ASSUME image \in Images, NEW S, IsFiniteSet(S), \A r \in S : decoded_at(r) # None
  PROVE  MapThenSumSet(LAMBDA rva : decoded_at(rva).size, S) = Total(SizeAt, S)
<1> DEFINE f == [r \in S |-> decoded_at(r).size]
<1>1. \A r \in S : f[r] = decoded_at(r).size
  OBVIOUS
<1>2. MapThenSumSet(LAMBDA rva : decoded_at(rva).size, S) = MapThenSumSet(LAMBDA x : f[x], S)
  BY <1>1, ZenonT(60) DEF MapThenSumSet, MapThenFoldSet
<1>3. \A r \in S : f[r] \in Int /\ f[r] = SizeAt[r]
  BY <1>1, SpanCounts, DecodedInside
<1> HIDE DEF f
<1>4. Total(f, S) = Total(SizeAt, S)
  BY <1>3, TotalIsSame
<1> QED BY <1>2, <1>4 DEF Total

LEMMA ScanIsTrue ==
  ASSUME image \in Images, ScanInv
  PROVE  ScanTells
<1> SUFFICES ASSUME scan # None, scan.range.start <= scan.range.end PROVE
        /\ covered_by_scan \cup undecodable_runs = scan.range.start..(scan.at - 1)
        /\ covered_by_scan \cap undecodable_runs = {}
        /\ MapThenSumSet(LAMBDA rva : decoded_at(rva).size, scan.decoded) = Cardinality(covered_by_scan)
        /\ LET leads == Closure({scan.range.start}, [rva \in RVAs |->
                            IF decoded_at(rva) = None THEN {} ELSE {rva + decoded_at(rva).size}])
           IN scan.over =>
                /\ is_complete <=> ~scan.truncated /\ scan.range.end \in leads
                /\ \A rva \in scan.decoded :
                      rva \notin leads <=> \E run \in unproven_runs : run.start <= rva /\ rva < run.end
  BY DEF ScanTells
<1>1. ScanShape(scan)
  BY DEF ScanInv
<1>2. covered_by_scan = Covered(scan) /\ undecodable_runs = Gapped(scan)
  BY DEF covered_by_scan, undecodable_runs, Covered, Gapped
<1>3. /\ Covered(scan) \cup Gapped(scan) = scan.range.start..(scan.at - 1)
      /\ Covered(scan) \cap Gapped(scan) = {}
      /\ Total(SizeAt, scan.decoded) = Cardinality(Covered(scan))
      /\ IsFiniteSet(scan.decoded) /\ \A r \in scan.decoded : decoded_at(r) # None
  BY <1>1 DEF ScanShape, ScanBytes, ScanOrder
<1>4. MapThenSumSet(LAMBDA rva : decoded_at(rva).size, scan.decoded) = Cardinality(covered_by_scan)
  BY <1>2, <1>3, SizesAreSummed
<1>5. Leads(scan.range.start) = Closure({scan.range.start}, [rva \in RVAs |->
                            IF decoded_at(rva) = None THEN {} ELSE {rva + decoded_at(rva).size}])
  BY DEF Leads, Behind
<1>6. ASSUME scan.over PROVE is_complete <=> ~scan.truncated /\ scan.range.end \in Leads(scan.range.start)
  BY <1>1, <1>6, CompleteLeads
<1>7. \A rva \in scan.decoded :
         rva \notin Leads(scan.range.start) <=> \E run \in unproven_runs : run.start <= rva /\ rva < run.end
  BY <1>1, WarnedAreLost, UnprovenIsBehind
<1> QED BY <1>2, <1>3, <1>4, <1>5, <1>6, <1>7

LEMMA SameScan ==
  ASSUME image' = image, NEW sc, scan' = sc, ScanShape(sc)
  PROVE  ScanShape(scan)'
<1>1. \A r : decoded_at(r)' = decoded_at(r)
  BY SameImage
<1>2. RVAs' = RVAs
  BY DEF RVAs, Span
<1>3. Behind' = Behind /\ SizeAt' = SizeAt
  BY <1>1, <1>2 DEF Behind, SizeAt
<1>4. \A s : Leads(s)' = Leads(s)
  BY <1>3 DEF Leads, Closure
<1>5. \A r : Spanned(r)' = Spanned(r)
  BY <1>1 DEF Spanned
<1>6. Covered(scan)' = Covered(sc) /\ Gapped(scan)' = Gapped(sc)
  BY <1>5 DEF Covered, Gapped
<1>7. ScanOrder(scan)'
  BY <1>1 DEF ScanShape, ScanOrder
<1>8. ScanBytes(scan)'
  <2>1. /\ Covered(sc) \cup Gapped(sc) = sc.range.start..(sc.at - 1)
        /\ Covered(sc) \cap Gapped(sc) = {}
        /\ Total(SizeAt, sc.decoded) = Cardinality(Covered(sc))
    BY DEF ScanShape, ScanBytes
  <2>2. Total(SizeAt, scan.decoded)' = Total(SizeAt, sc.decoded)
    BY <1>3 DEF Total, MapThenSumSet, MapThenFoldSet
  <2>3. (Covered(scan) \cup Gapped(scan) = scan.range.start..(scan.at - 1))'
    BY <1>6, <2>1
  <2>4. (Covered(scan) \cap Gapped(scan) = {})'
    BY <1>6, <2>1
  <2>5. (Total(SizeAt, scan.decoded) = Cardinality(Covered(scan)))'
    BY <1>6, <2>1, <2>2
  <2> QED BY <2>3, <2>4, <2>5 DEF ScanBytes
<1>9. ScanLeads(scan)'
  BY <1>1, <1>4 DEF ScanShape, ScanLeads, FirstGap
<1>10. ScanEnds(scan)'
  BY <1>1 DEF ScanShape, ScanEnds
<1> QED BY <1>7, <1>8, <1>9, <1>10 DEF ScanShape

(* A scan under way goes on from the address it stands at.                 *)
LEMMA ScanStays ==
  ASSUME IsScan(scan), ScanInsn \/ ScanGap \/ ScanStop
  PROVE  scan'.range = scan.range /\ IsScan(scan')
<1>1. CASE ScanInsn
  BY <1>1 DEF ScanInsn, IsScan
<1>2. CASE ScanGap
  BY <1>2 DEF ScanGap, IsScan
<1>3. CASE ScanStop
  BY <1>3 DEF ScanStop, IsScan
<1> QED BY <1>1, <1>2, <1>3

LEMMA ScanGoesOn ==
  ASSUME image \in Images, ScanInv, scan # None,
         scan.range.start <= scan.range.end, image' = image,
         ScanInsn \/ ScanGap \/ ScanStop
  PROVE  ScanShape(scan)'
<1>0. ScanShape(scan) /\ ~scan.over
  BY DEF ScanInv, ScanInsn, ScanGap, ScanStop, AtInsn, Scanning
<1>1. scan = [range |-> scan.range, at |-> scan.at, decoded |-> scan.decoded, gaps |-> scan.gaps,
              resyncs |-> scan.resyncs, truncated |-> scan.truncated, over |-> scan.over]
  BY DEF ScanInv, IsScan
<1>2. CASE ScanInsn
  <2>1. /\ scan'.range = scan.range /\ scan'.gaps = scan.gaps /\ scan'.resyncs = scan.resyncs
        /\ scan'.over = scan.over /\ scan'.decoded = scan.decoded \cup {scan.at}
        /\ scan'.at = scan.at + decoded_at(scan.at).size
    BY <1>1, <1>2 DEF ScanInsn
  <2>2. decoded_at(scan.at) # None /\ scan.at + decoded_at(scan.at).size <= scan.range.end
    BY <1>2 DEF ScanInsn, AtInsn
  <2>3. ScanShape(scan')
    BY <1>0, <2>1, <2>2, ScanInsnShape
  <2> QED BY <2>3, SameScan
<1>3. CASE ScanGap
  <2> DEFINE resume == resume_at(scan.at, scan.range.end)
  <2>1. /\ scan'.range = scan.range /\ scan'.decoded = scan.decoded /\ scan'.over = scan.over
        /\ scan'.gaps = scan.gaps \cup {[rva |-> scan.at, end |-> resume]} /\ scan'.at = resume
        /\ scan'.resyncs = scan.resyncs \cup
              {[stop |-> scan.at, resume |-> resume] : x \in {resume} \ {scan.range.end}}
    BY <1>1, <1>3 DEF ScanGap
  <2>2. decoded_at(scan.at) = None /\ scan.at < scan.range.end
    BY <1>3 DEF ScanGap
  <2>3. scan.at \in Nat /\ scan.range.end \in Nat
    BY <1>0 DEF ScanShape, ScanOrder
  <2>4. resume \in (scan.at + 1)..scan.range.end
    BY <2>2, <2>3, ResumeIsNext
  <2> HIDE DEF resume
  <2>5. ScanShape(scan')
    BY <1>0, <2>1, <2>2, <2>4, ScanGapShape
  <2> QED BY <2>5, SameScan
<1>4. CASE ScanStop
  <2>1. /\ scan'.range = scan.range /\ scan'.decoded = scan.decoded /\ scan'.gaps = scan.gaps
        /\ scan'.at = scan.at /\ scan'.resyncs = scan.resyncs
        /\ scan'.over = TRUE /\ scan'.truncated = (scan.at < scan.range.end /\ AtLimit)
    BY <1>1, <1>4 DEF ScanStop
  <2>2. ScanEnds(scan')
    <3>1. scan.at \in Nat /\ scan.range.end \in Nat /\ scan.at <= scan.range.end
      BY <1>0 DEF ScanShape, ScanOrder
    <3>2. CASE scan.at >= scan.range.end
      BY <2>1, <3>1, <3>2 DEF ScanEnds
    <3>3. CASE scan.at < scan.range.end /\ AtLimit
      BY <2>1, <3>3 DEF ScanEnds
    <3>4. CASE AtInsn /\ scan.at + decoded_at(scan.at).size > scan.range.end
      BY <2>1, <3>4 DEF ScanEnds, AtInsn
    <3>5. scan.at >= scan.range.end \/ scan.at < scan.range.end
      BY <3>1
    <3> QED BY <1>4, <3>2, <3>3, <3>4, <3>5 DEF ScanStop
  <2>3. ScanOrder(scan') /\ ScanBytes(scan') /\ ScanLeads(scan')
    BY <1>0, <2>1 DEF ScanShape, ScanOrder, ScanBytes, Covered, Gapped, ScanLeads, FirstGap
  <2>4. ScanShape(scan')
    BY <2>2, <2>3 DEF ScanShape
  <2> QED BY <2>4, SameScan
<1> QED BY <1>2, <1>3, <1>4

LEMMA ScanStarts ==
  ASSUME image \in Images, image' = image, NEW r \in Ranges, StartScan(r), r.start <= r.end
  PROVE  ScanShape(scan)'
<1> DEFINE sc == [range |-> r, at |-> r.start, decoded |-> {}, gaps |-> {}, resyncs |-> {},
                  truncated |-> FALSE, over |-> r.end <= r.start]
<1>1. r.start \in Nat /\ r.end \in Nat
  BY RangeAssumption
<1>2. sc.range = r /\ sc.at = r.start /\ sc.decoded = {} /\ sc.gaps = {} /\ sc.resyncs = {} /\ sc.over = (r.end <= r.start)
      /\ sc = [range |-> r, at |-> r.start, decoded |-> {}, gaps |-> {}, resyncs |-> {},
               truncated |-> FALSE, over |-> sc.over]
  OBVIOUS
<1>3. scan' = sc
  BY DEF StartScan
<1> HIDE DEF sc
<1>4. ScanOrder(sc)
  BY <1>1, <1>2, FS_EmptySet DEF ScanOrder
<1>5. ScanBytes(sc)
  <2>1. Covered(sc) = {} /\ Gapped(sc) = {} /\ r.start..(r.start - 1) = {}
    BY <1>1, <1>2 DEF Covered, Gapped
  <2>2. IsFiniteSet({}) /\ Cardinality({}) = 0
    BY FS_EmptySet
  <2>3. Total(SizeAt, {}) = 0
    BY <2>2, TotalAdds
  <2> QED BY <1>2, <2>1, <2>2, <2>3 DEF ScanBytes
<1>6. ScanLeads(sc)
  <2>1. r.start \in Leads(r.start)
    BY LeadsAreClosed
  <2> QED BY <1>2, <2>1 DEF ScanLeads
<1>7. ScanEnds(sc)
  <2>1. r.end <= r.start => r.start = r.end
    BY <1>1
  <2>2. sc.over => r.end <= r.start
    BY <1>2, Zenon
  <2> QED BY <1>2, <2>1, <2>2 DEF ScanEnds
<1>8. ScanShape(sc)
  BY <1>4, <1>5, <1>6, <1>7 DEF ScanShape
<1> QED BY <1>3, <1>8, SameScan

LEMMA ScanHolds ==
  ASSUME AskedWhenDone, SweepInv, ScanInv, [Next]_vars
  PROVE  ScanInv'
<1>0. image \in Images
  BY DEF SweepInv, Phases
<1>1. CASE UNCHANGED <<image, scan>>
  <2> SUFFICES ASSUME scan' # None, scan'.range.start <= scan'.range.end PROVE ScanShape(scan)'
    BY <1>1 DEF ScanInv, IsScan
  <2>1. ScanShape(scan)
    BY <1>1 DEF ScanInv
  <2> QED BY <1>1, <2>1, SameScan
<1>2. CASE Analyse
  <2>1. image' = image /\ scan' = scan
    BY <1>2 DEF Analyse, ANext, Seed, GiveUp, StopAtDecoded, StopAtUndecodable, Decode, Finish,
       Sweep, given
  <2> QED BY <1>1, <2>1
<1>3. CASE UNCHANGED vars
  BY <1>1, <1>3 DEF vars, avars, given
<1>4. CASE Ask
  <2>1. image' = image
    BY <1>4, QuestionsOnlyRemember DEF given
  <2>2. CASE UNCHANGED scan
    BY <1>1, <2>1, <2>2
  <2>3. ASSUME NEW r \in Ranges, StartScan(r) PROVE ScanInv'
    <3>1. scan'.range = r /\ IsScan(scan')
      BY <2>3 DEF StartScan, IsScan
    <3> SUFFICES ASSUME scan' # None, scan'.range.start <= scan'.range.end PROVE ScanShape(scan)'
      BY <3>1 DEF ScanInv, IsScan
    <3> QED BY <1>0, <2>1, <2>3, <3>1, ScanStarts
  <2>4. CASE ScanInsn \/ ScanGap \/ ScanStop
    <3>1. scan # None /\ IsScan(scan)
      BY <2>4 DEF ScanInsn, ScanGap, ScanStop, AtInsn, Scanning, ScanInv
    <3>2. scan'.range = scan.range /\ IsScan(scan')
      BY <2>4, <3>1, ScanStays
    <3> SUFFICES ASSUME scan' # None, scan'.range.start <= scan'.range.end PROVE ScanShape(scan)'
      BY <3>2 DEF ScanInv, IsScan
    <3> QED BY <1>0, <2>1, <2>4, <3>1, <3>2, ScanGoesOn
  <2> QED BY <1>4, <2>2, <2>3, <2>4 DEF Ask, ScanStep
<1> QED BY <1>2, <1>3, <1>4 DEF Next

(* A scan accounts for every byte it passed, calls itself complete just    *)
(* when its start leads to its end, and warns of the instructions that do  *)
(* not follow from its start.                                              *)
THEOREM ScansAccount == Spec => []ScanTells
<1>1. Init => ScanInv
  BY DEF Init, ScanInv
<1>2. AskedWhenDone /\ SweepInv /\ ScanInv /\ [Next]_vars => (AskedWhenDone /\ SweepInv /\ ScanInv)'
  BY SweepStep, QuestionsComeLast, ScanHolds
<1>3. SweepInv /\ ScanInv => ScanTells
  BY ScanIsTrue DEF SweepInv, Phases
<1> QED BY <1>1, <1>2, <1>3, SweepInit, PTL DEF Spec

-----------------------------------------------------------------------------
(* What a value set decides is so.                                         *)

(* held is possible, missing are the writers nobody modelled.              *)
Sound(v, held, missing) ==
  /\ v.kind = "SET" => v.values \subseteq Int
  /\ v.kind = "RANGE" => v.lo \in Int /\ v.hi \in Int
  /\ is_decided(v) => v.unmodeled = {}
  /\ held \subseteq Int /\ \A x \in held : may_contain(v, x)
  /\ missing \subseteq v.unmodeled

LEMMA LowerAndHigher ==
  ASSUME NEW a \in Int, NEW b \in Int
  PROVE  /\ Min({a, b}) \in {a, b} /\ Min({a, b}) <= a /\ Min({a, b}) <= b
         /\ Max({a, b}) \in {a, b} /\ Max({a, b}) >= a /\ Max({a, b}) >= b
<1>1. \E x \in {a, b} : \A y \in {a, b} : x <= y
  <2>1. CASE a <= b
    BY <2>1
  <2>2. CASE ~(a <= b)
    BY <2>2
  <2> QED BY <2>1, <2>2
<1>2. \E x \in {a, b} : \A y \in {a, b} : x >= y
  <2>1. CASE a >= b
    BY <2>1
  <2>2. CASE ~(a >= b)
    BY <2>2
  <2> QED BY <2>1, <2>2
<1>3. Min({a, b}) \in {a, b} /\ \A y \in {a, b} : Min({a, b}) <= y
  BY <1>1 DEF Min
<1>4. Max({a, b}) \in {a, b} /\ \A y \in {a, b} : Max({a, b}) >= y
  BY <1>2 DEF Max
<1> QED BY <1>3, <1>4

LEMMA WidenSound ==
  ASSUME NEW v, NEW held, NEW missing, Sound(v, held, missing),
         NEW w, NEW more, NEW others, Sound(w, more, others)
  PROVE  Sound(widen(v, w), held \cup more, missing \cup others)
<1> USE DEF Sound, may_contain, is_decided, Decided
<1>1. CASE w.kind = "NONE"
  BY <1>1 DEF widen
<1>2. CASE w.kind # "NONE" /\ v.kind = "NONE"
  BY <1>2 DEF widen
<1>3. CASE w.kind # "NONE" /\ v.kind # "NONE"
  <2> DEFINE kind   == joined_kind(v, w)
             ranges == {u \in {v, w} : u.kind = "RANGE"}
             u == widen(v, w)
  <2> SUFFICES Sound(u, held \cup more, missing \cup others)
    OBVIOUS
  <2>1. /\ u.kind = kind
        /\ u.values = IF kind = "SET" THEN v.values \cup w.values ELSE {}
        /\ u.lo = IF kind = "RANGE" THEN Min({x.lo : x \in ranges}) ELSE None
        /\ u.hi = IF kind = "RANGE" THEN Max({x.hi : x \in ranges}) ELSE None
        /\ u.unmodeled = v.unmodeled \cup w.unmodeled
    BY <1>3 DEF widen
  <2>2. kind \in {"SET", "RANGE"} => v.kind \in {"SET", "RANGE"} /\ w.kind \in {"SET", "RANGE"}
    BY DEF joined_kind
  <2>3. kind # "NONE"
    BY <1>3 DEF joined_kind
  <2>4. CASE kind = "SET"
    <3>1. v.kind = "SET" /\ w.kind = "SET"
      BY <2>2, <2>4 DEF joined_kind
    <3> HIDE DEF kind, u
    <3> QED BY <2>1, <2>4, <3>1
  <2>5. CASE kind = "RANGE"
    <3>1. CASE v.kind = "RANGE" /\ w.kind = "RANGE"
      <4>1. {x.lo : x \in ranges} = {v.lo, w.lo} /\ {x.hi : x \in ranges} = {v.hi, w.hi}
        BY <3>1
      <4> HIDE DEF kind, u, ranges
      <4>2. u.lo = Min({v.lo, w.lo}) /\ u.hi = Max({v.hi, w.hi})
        BY <2>1, <2>5, <4>1
      <4>3. /\ v.lo \in Int /\ w.lo \in Int /\ v.hi \in Int /\ w.hi \in Int
        BY <3>1
      <4>4. /\ u.lo \in Int /\ u.lo <= v.lo /\ u.lo <= w.lo
            /\ u.hi \in Int /\ u.hi >= v.hi /\ u.hi >= w.hi
        <5>1. LET l == Min({v.lo, w.lo}) h == Max({v.hi, w.hi})
              IN /\ l \in {v.lo, w.lo} /\ l <= v.lo /\ l <= w.lo
                 /\ h \in {v.hi, w.hi} /\ h >= v.hi /\ h >= w.hi
          BY <4>3, LowerAndHigher
        <5> QED BY <4>2, <4>3, <5>1
      <4>5. ASSUME NEW x \in held \cup more PROVE u.lo <= x /\ x <= u.hi
        <5>1. CASE x \in held
          <6>1. x \in Int /\ v.lo <= x /\ x <= v.hi
            BY <3>1, <5>1
          <6> QED BY <4>3, <4>4, <6>1
        <5>2. CASE x \in more
          <6>1. x \in Int /\ w.lo <= x /\ x <= w.hi
            BY <3>1, <5>2
          <6> QED BY <4>3, <4>4, <6>1
        <5> QED BY <5>1, <5>2
      <4> QED BY <2>1, <2>2, <2>5, <3>1, <4>4, <4>5
    <3>3. CASE v.kind = "SET" /\ w.kind = "RANGE"
      <4>1. {x.lo : x \in ranges} = {w.lo, w.lo} /\ {x.hi : x \in ranges} = {w.hi, w.hi}
        BY <3>3
      <4>2. \A x \in v.values : w.lo <= x /\ x <= w.hi
        BY <2>5, <3>3 DEF joined_kind
      <4> HIDE DEF kind, u, ranges
      <4>3. u.lo = Min({w.lo, w.lo}) /\ u.hi = Max({w.hi, w.hi}) /\ w.lo \in Int /\ w.hi \in Int
        BY <2>1, <2>5, <3>3, <4>1
      <4>4. u.lo = w.lo /\ u.hi = w.hi
        BY <4>3, LowerAndHigher
      <4> QED BY <2>1, <2>2, <2>5, <3>3, <4>2, <4>3, <4>4
    <3>4. CASE v.kind = "RANGE" /\ w.kind = "SET"
      <4>1. {x.lo : x \in ranges} = {v.lo, v.lo} /\ {x.hi : x \in ranges} = {v.hi, v.hi}
        BY <3>4
      <4>2. \A x \in w.values : v.lo <= x /\ x <= v.hi
        BY <2>5, <3>4 DEF joined_kind
      <4> HIDE DEF kind, u, ranges
      <4>3. u.lo = Min({v.lo, v.lo}) /\ u.hi = Max({v.hi, v.hi}) /\ v.lo \in Int /\ v.hi \in Int
        BY <2>1, <2>5, <3>4, <4>1
      <4>4. u.lo = v.lo /\ u.hi = v.hi
        BY <4>3, LowerAndHigher
      <4> QED BY <2>1, <2>2, <2>5, <3>4, <4>2, <4>3, <4>4
    <3>5. ~(v.kind = "SET" /\ w.kind = "SET")
      BY <2>5 DEF joined_kind
    <3> QED BY <2>2, <2>5, <3>1, <3>3, <3>4, <3>5
  <2>6. CASE kind \notin Decided
    <3> HIDE DEF kind, u
    <3> QED BY <2>1, <2>6
  <2> QED BY <2>3, <2>4, <2>5, <2>6
<1> QED BY <1>1, <1>2, <1>3

(* The value sets of single writers, and what joining them gives.          *)
Joined == [kind : {"NONE", "SET", "UNMODELED"}, values : SUBSET Int, lo : {None}, hi : {None},
           writers : SUBSET Int, unmodeled : SUBSET Int, parts : {{}}, unresolved : {0}]

LEMMA JoinedIsClosed ==
  ASSUME NEW v \in Joined, NEW w \in Joined
  PROVE  widen(v, w) \in Joined
<1>1. /\ v.kind \in {"NONE", "SET", "UNMODELED"} /\ w.kind \in {"NONE", "SET", "UNMODELED"}
      /\ v.values \subseteq Int /\ w.values \subseteq Int /\ v.writers \subseteq Int /\ w.writers \subseteq Int
      /\ v.unmodeled \subseteq Int /\ w.unmodeled \subseteq Int /\ v.parts = {} /\ w.parts = {}
      /\ v.unresolved = 0 /\ w.unresolved = 0
  BY DEF Joined
<1>2. CASE w.kind = "NONE"
  BY <1>2 DEF widen
<1>3. CASE w.kind # "NONE" /\ v.kind = "NONE"
  BY <1>3 DEF widen
<1>4. CASE w.kind # "NONE" /\ v.kind # "NONE"
  <2>1. joined_kind(v, w) \in {"SET", "UNMODELED"}
    BY <1>1, <1>4 DEF joined_kind
  <2> DEFINE u == widen(v, w)
  <2>2. u = [kind       |-> joined_kind(v, w),
             values     |-> IF joined_kind(v, w) = "SET" THEN v.values \cup w.values ELSE {},
             lo         |-> None,
             hi         |-> None,
             writers    |-> v.writers \cup w.writers,
             unmodeled  |-> v.unmodeled \cup w.unmodeled,
             parts      |-> {},
             unresolved |-> 0]
    <3> DEFINE kind   == joined_kind(v, w)
               single == {x \in {v, w} : x.kind # "UNREPRESENTABLE"}
    <3>1. /\ kind # "RANGE" /\ kind # "UNREPRESENTABLE"
          /\ v.unresolved + w.unresolved = 0
          /\ v.parts \cup w.parts \cup (IF kind = "UNREPRESENTABLE" THEN single ELSE {}) = {}
      <4>1. kind # "RANGE" /\ kind # "UNREPRESENTABLE"
        BY <2>1
      <4> HIDE DEF kind, single
      <4> QED BY <1>1, <4>1
    <3>2. u = [kind       |-> kind,
               values     |-> IF kind = "SET" THEN v.values \cup w.values ELSE {},
               lo         |-> None,
               hi         |-> None,
               writers    |-> v.writers \cup w.writers,
               unmodeled  |-> v.unmodeled \cup w.unmodeled,
               parts      |-> v.parts \cup w.parts \cup (IF kind = "UNREPRESENTABLE" THEN single ELSE {}),
               unresolved |-> v.unresolved + w.unresolved]
      BY <1>4, <3>1 DEF widen
    <3> HIDE DEF u, kind, single
    <3> QED BY <3>1, <3>2 DEF kind
  <2> HIDE DEF u
  <2>3. u \in Joined
    BY <1>1, <2>1, <2>2 DEF Joined
  <2> QED BY <2>3 DEF u
<1> QED BY <1>2, <1>3, <1>4

(* What the writers in W say together.                                     *)
Admitted(W) == {x \in Int : \E w \in W : may_contain(w, x)}
Unmodelled(W) == UNION {w.unmodeled : w \in W}

LEMMA JoinIsSound ==
  ASSUME NEW W, IsFiniteSet(W), W \subseteq Joined,
         \A w \in W : Sound(w, Admitted({w}), w.unmodeled)
  PROVE  FoldSet(widen, EMPTY, W) \in Joined /\ Sound(FoldSet(widen, EMPTY, W), Admitted(W), Unmodelled(W))
<1> DEFINE step == [sv \in (SUBSET W) \X Joined |-> IF sv[1] = {} THEN sv[2] ELSE widen(Picked(sv[1]), sv[2])]
           Body(g, s) == IF s = {} THEN EMPTY ELSE widen(Picked(s), g[s \ {Picked(s)}])
<1>0. EMPTY \in Joined
  BY DEF EMPTY, Joined
<1>1. \A s \in SUBSET W : s # {} => Picked(s) \in W
  BY DEF Picked
<1>2. step \in [(SUBSET W) \X Joined -> Joined]
  <2>1. ASSUME NEW sv \in (SUBSET W) \X Joined
        PROVE  (IF sv[1] = {} THEN sv[2] ELSE widen(Picked(sv[1]), sv[2])) \in Joined
    BY <1>1, JoinedIsClosed
  <2> QED BY <2>1
<1>3. \A s \in SUBSET W : \A v \in Joined : s # {} => step[<<s, v>>] = widen(Picked(s), v)
  OBVIOUS
<1> HIDE DEF step
<1>4. PICK g \in [SUBSET W -> Joined] : IsFold(g, W, EMPTY, step)
  <2>1. \E g \in [SUBSET W -> Joined] : IsFold(g, W, EMPTY, step)
    BY <1>0, <1>2, FoldExists, Zenon
  <2> QED BY <2>1
<1>5. ASSUME NEW s \in SUBSET W PROVE g[s] = Body(g, s)
  <2>1. g[s] = IF s = {} THEN EMPTY ELSE step[<<s, g[s \ {Picked(s)}]>>]
    BY <1>4 DEF IsFold
  <2>2. g[s \ {Picked(s)}] \in Joined
    OBVIOUS
  <2> QED BY <2>1, <2>2, <1>3
<1>6. g = [s \in SUBSET W |-> Body(g, s)]
  BY <1>5
<1> DEFINE iter == CHOOSE f : f = [s \in SUBSET W |-> Body(f, s)]
<1>7. iter = [s \in SUBSET W |-> Body(iter, s)]
  BY <1>6
<1>8. FoldSet(widen, EMPTY, W) = iter[W]
  BY DEF FoldSet, MapThenFoldSet, Picked
<1> HIDE DEF iter
<1>9. /\ iter[{}] = EMPTY
      /\ \A s \in SUBSET W : s # {} => iter[s] = widen(Picked(s), iter[s \ {Picked(s)}])
  BY <1>7
<1> DEFINE Holds(s) == iter[s] \in Joined /\ Sound(iter[s], Admitted(s), Unmodelled(s))
           Good == {k \in Nat : \A s \in SUBSET W : Cardinality(s) = k => Holds(s)}
<1>10. 0 \in Good
  <2> SUFFICES ASSUME NEW s \in SUBSET W, Cardinality(s) = 0 PROVE Holds(s)
    OBVIOUS
  <2>1. s = {}
    <3>1. IsFiniteSet(s)
      BY FS_Subset
    <3> QED BY <3>1, FS_EmptySet
  <2>2. Admitted({}) = {} /\ Unmodelled({}) = {}
    BY DEF Admitted, Unmodelled
  <2>3. Sound(EMPTY, {}, {})
    BY DEF Sound, EMPTY, is_decided, Decided
  <2> QED BY <1>0, <1>9, <2>1, <2>2, <2>3
<1>11. ASSUME NEW k \in Nat, k \in Good PROVE k + 1 \in Good
  <2> SUFFICES ASSUME NEW s \in SUBSET W, Cardinality(s) = k + 1 PROVE Holds(s)
    OBVIOUS
  <2> DEFINE w == Picked(s)
             rest == s \ {w}
  <2>1. s # {}
    <3>1. Cardinality({}) = 0 /\ k + 1 # 0
      BY <1>11, FS_EmptySet
    <3> QED BY <3>1
  <2>2. w \in s /\ rest \in SUBSET W /\ Cardinality(rest) = k
    BY <2>1, PickedIsOut
  <2>3. Holds(rest)
    BY <1>11, <2>2
  <2>4. iter[s] = widen(w, iter[rest])
    BY <1>9, <2>1
  <2> HIDE DEF w
  <2>5. w \in Joined /\ Sound(w, Admitted({w}), w.unmodeled)
    BY <2>2
  <2>6. Admitted(s) = Admitted({w}) \cup Admitted(rest) /\ Unmodelled(s) = w.unmodeled \cup Unmodelled(rest)
    BY <2>2 DEF Admitted, Unmodelled
  <2> HIDE DEF rest
  <2>7. Sound(widen(w, iter[rest]), Admitted({w}) \cup Admitted(rest), w.unmodeled \cup Unmodelled(rest))
    BY <2>3, <2>5, WidenSound
  <2> QED BY <2>3, <2>4, <2>5, <2>6, <2>7, JoinedIsClosed
<1> HIDE DEF Good
<1>12. Cardinality(W) \in Nat /\ Cardinality(W) \in Good
  BY <1>10, <1>11, FS_CardinalityType, Induction
<1>13. Holds(W)
  BY <1>12 DEF Good
<1> QED BY <1>8, <1>13

LEMMA FiniteImage ==
  ASSUME NEW S, IsFiniteSet(S), NEW f
  PROVE  IsFiniteSet({f[x] : x \in S})
<1> DEFINE Good == {T \in SUBSET S : IsFiniteSet({f[x] : x \in T})}
<1>1. {} \in Good
  <2>1. {f[x] : x \in {}} = {}
    OBVIOUS
  <2> QED BY <2>1, FS_EmptySet
<1>2. ASSUME NEW T \in SUBSET S, NEW y \in S \ T, T \in Good PROVE T \cup {y} \in Good
  <2>1. {f[x] : x \in T \cup {y}} = {f[x] : x \in T} \cup {f[y]}
    OBVIOUS
  <2>2. IsFiniteSet({f[x] : x \in T} \cup {f[y]})
    BY <1>2, FS_AddElement
  <2> QED BY <2>1, <2>2
<1> HIDE DEF Good
<1>3. S \in Good
  BY <1>1, <1>2, SubsetInduction
<1> QED BY <1>3 DEF Good

(* Before a scan or a graph, the decoder knows what the sweep decoded, and *)
(* what it knows decodes.                                                  *)
Known ==
  /\ \A r \in DOMAIN size_at : decoded_at(r) # None /\ size_at[r] = decoded_at(r).size
  /\ DOMAIN claimed \subseteq DOMAIN size_at
  /\ \A s \in indirect_sites : decoded_at(s.rva) # None
KnownInv == scan = None /\ cfg = None => Known

LEMMA WritersDecode ==
  ASSUME image \in Images, Known
  PROVE  /\ IsFiniteSet(DOMAIN size_at) /\ DOMAIN size_at \subseteq Int
         /\ IsFiniteSet(indirect_call_sites) /\ indirect_call_sites \subseteq Int
<1>1. Span \in Nat
  BY SpanIsTheEnd
<1>2. \A r : decoded_at(r) # None => r \in 0..(Span - 1)
  BY DecodedInside
<1>3. DOMAIN size_at \in SUBSET (0..(Span - 1)) /\ indirect_call_sites \in SUBSET (0..(Span - 1))
  BY <1>2 DEF Known, indirect_call_sites
<1>4. IsFiniteSet(0..(Span - 1))
  BY <1>1, FS_Interval
<1>5. IsFiniteSet(DOMAIN size_at) /\ IsFiniteSet(indirect_call_sites)
  BY <1>3, <1>4, FS_Subset
<1>6. DOMAIN size_at \subseteq Int /\ indirect_call_sites \subseteq Int
  BY <1>1, <1>3
<1> QED BY <1>5, <1>6

(* A store decodes to an instruction with two operands.                    *)
LEMMA StoreIsDecoded ==
  ASSUME image \in Images, NEW r, decoded_at(r) # None, NEW a, Stores(r, a)
  PROVE  /\ r \in Int /\ decoded_at(r).op \in {"mov", "add"}
         /\ decoded_at(r).ops[2].kind = "imm" => decoded_at(r).ops[2].value \in Int
<1> DEFINE i == decoded_at(r)
<1>1. r \in DOMAIN image.code /\ i = image.code[r]
  BY DEF decoded_at
<1>2. i.op \in {"mov", "add"}
  BY DEF Stores, stored_operand
<1>3. r \in 0..(Span - 1) /\ DOMAIN i.ops = 1..Len(i.ops)
  BY DecodedInside
<1>4. Len(i.ops) = 2 /\ \A n \in DOMAIN i.ops : i.ops[n].kind = "imm" => i.ops[n].value \in Int
  BY <1>1, <1>2, OperandAssumption
<1> HIDE DEF i
<1>5. 2 \in DOMAIN i.ops
  BY <1>3, <1>4
<1> QED BY <1>2, <1>3, <1>4, <1>5 DEF i

(* What one writer says.                                                   *)
LEMMA WritesAreSound ==
  /\ \A v \in Int : \A r \in Int : LET w == of_value(v, r) IN
        w \in Joined /\ Sound(w, Admitted({w}), w.unmodeled) /\ may_contain(w, v)
  /\ \A r \in Int : LET w == of_unmodeled({r}) IN
        /\ w \in Joined /\ Sound(w, Admitted({w}), w.unmodeled) /\ r \in w.unmodeled
        /\ \A x : may_contain(w, x)
<1>1. ASSUME NEW v \in Int, NEW r \in Int, NEW w, w = of_value(v, r)
      PROVE  w \in Joined /\ Sound(w, Admitted({w}), w.unmodeled) /\ may_contain(w, v)
  <2>1. w = [kind |-> "SET", values |-> {v}, lo |-> None, hi |-> None, writers |-> {r},
             unmodeled |-> {}, parts |-> {}, unresolved |-> 0]
    BY <1>1 DEF of_value, EMPTY
  <2>2. w \in Joined
    BY <2>1 DEF Joined
  <2>3. w.kind = "SET" /\ w.values = {v} /\ w.unmodeled = {}
    BY <2>1
  <2> QED BY <2>2, <2>3 DEF Sound, Admitted, may_contain, is_decided, Decided
<1>2. ASSUME NEW r \in Int, NEW w, w = of_unmodeled({r})
      PROVE  /\ w \in Joined /\ Sound(w, Admitted({w}), w.unmodeled) /\ r \in w.unmodeled
             /\ \A x : may_contain(w, x)
  <2>1. w = [kind |-> "UNMODELED", values |-> {}, lo |-> None, hi |-> None, writers |-> {},
             unmodeled |-> {r}, parts |-> {}, unresolved |-> 0]
    BY <1>2 DEF of_unmodeled, EMPTY
  <2>2. w \in Joined
    BY <2>1 DEF Joined
  <2>3. w.kind = "UNMODELED" /\ w.unmodeled = {r}
    BY <2>1
  <2> QED BY <2>2, <2>3 DEF Sound, Admitted, may_contain, is_decided, Decided
<1> QED BY <1>1, <1>2

LEMMA HeldIsPut ==
  ASSUME NEW a, NEW x
  PROVE  x \in Held(a) <=> \/ indirect_call_sites # {} /\ x \in Value
                          \/ \E r \in StoresTo(a) : x \in PutBy(r)
BY DEF Held

(* What is answered first is sound.                                        *)
LEMMA AskIsSound ==
  ASSUME image \in Images, Known, NEW a
  PROVE  Sound(value_set_of(a), Held(a), Missing(a))
<1> DEFINE W == writes_to(a)
           R == {r \in DOMAIN size_at : Stores(r, a)}
           wr == [r \in R |-> write_of(r)]
           um == [r \in indirect_call_sites |-> of_unmodeled({r})]
           F == FoldSet(widen, EMPTY, W)
<1>1. ASSUME NEW r \in R
      PROVE  /\ r \in Int /\ decoded_at(r).op \in {"mov", "add"}
             /\ IF decoded_at(r).op = "mov" /\ decoded_at(r).ops[2].kind = "imm"
                THEN decoded_at(r).ops[2].value \in Int /\ write_of(r) = of_value(decoded_at(r).ops[2].value, r)
                ELSE write_of(r) = of_unmodeled({r})
  BY StoreIsDecoded DEF Known, write_of
<1>2. W = {wr[r] : r \in R} \cup {um[r] : r \in indirect_call_sites}
  BY DEF writes_to
<1>3. IsFiniteSet(W)
  <2>1. IsFiniteSet(R) /\ IsFiniteSet(indirect_call_sites)
    BY WritersDecode, FS_Subset
  <2> HIDE DEF wr, um, R, W
  <2>2. IsFiniteSet({wr[r] : r \in R}) /\ IsFiniteSet({um[r] : r \in indirect_call_sites})
    BY <2>1, FiniteImage
  <2> QED BY <1>2, <2>2, FS_Union
<1>4. ASSUME NEW w \in W PROVE w \in Joined /\ Sound(w, Admitted({w}), w.unmodeled)
  <2>1. CASE \E r \in R : w = write_of(r)
    BY <1>1, <2>1, WritesAreSound
  <2>2. CASE \E r \in indirect_call_sites : w = of_unmodeled({r})
    BY <2>2, WritesAreSound, WritersDecode
  <2> QED BY <2>1, <2>2 DEF writes_to
<1>5. F \in Joined /\ Sound(F, Admitted(W), Unmodelled(W))
  <2> HIDE DEF W
  <2> QED BY <1>3, <1>4, JoinIsSound
<1>6. ASSUME NEW r \in R PROVE write_of(r) \in W
  BY DEF writes_to
<1>7. ASSUME NEW r \in indirect_call_sites PROVE of_unmodeled({r}) \in W /\ r \in Int
  BY WritersDecode DEF writes_to
<1> HIDE DEF W
<1>8. ASSUME NEW x \in Held(a) PROVE x \in Admitted(W)
  <2>1. CASE indirect_call_sites # {} /\ x \in Value
    <3>1. PICK r \in indirect_call_sites : TRUE
      BY <2>1
    <3>2. x \in Int /\ may_contain(of_unmodeled({r}), x)
      <4>1. x \in Int
        BY <2>1 DEF Value
      <4>2. may_contain(of_unmodeled({r}), x)
        BY <1>7, WritesAreSound
      <4> QED BY <4>1, <4>2
    <3> QED BY <1>7, <3>2 DEF Admitted
  <2>2. ASSUME NEW r \in DOMAIN claimed, Stores(r, a),
               x \in IF decoded_at(r).op = "mov" /\ decoded_at(r).ops[2].kind = "imm"
                     THEN {decoded_at(r).ops[2].value} ELSE Value
        PROVE  x \in Admitted(W)
    <3>1. r \in R
      BY <2>2 DEF Known
    <3>2. CASE decoded_at(r).op = "mov" /\ decoded_at(r).ops[2].kind = "imm"
      <4>1. x \in Int /\ r \in Int /\ write_of(r) = of_value(x, r)
        BY <1>1, <2>2, <3>1, <3>2
      <4>2. may_contain(write_of(r), x)
        BY <4>1, WritesAreSound
      <4> QED BY <1>6, <3>1, <4>1, <4>2 DEF Admitted
    <3>3. CASE ~(decoded_at(r).op = "mov" /\ decoded_at(r).ops[2].kind = "imm")
      <4>1. x \in Int /\ r \in Int /\ write_of(r) = of_unmodeled({r})
        BY <1>1, <2>2, <3>1, <3>3 DEF Value
      <4>2. may_contain(write_of(r), x)
        BY <4>1, WritesAreSound
      <4> QED BY <1>6, <3>1, <4>1, <4>2 DEF Admitted
    <3> QED BY <3>2, <3>3
  <2>3. \/ indirect_call_sites # {} /\ x \in Value
        \/ \E r \in StoresTo(a) : x \in PutBy(r)
    BY <1>8, HeldIsPut
  <2> QED BY <2>1, <2>2, <2>3 DEF StoresTo, PutBy
<1>9. ASSUME NEW r \in Missing(a) PROVE r \in Unmodelled(W)
  <2>1. CASE r \in indirect_call_sites
    BY <1>7, <2>1, WritesAreSound DEF Unmodelled
  <2>2. CASE r \in DOMAIN claimed /\ Stores(r, a) /\ (decoded_at(r).op = "add" \/ decoded_at(r).ops[2].kind # "imm")
    <3>1. r \in R
      BY <2>2 DEF Known
    <3>2. write_of(r) = of_unmodeled({r}) /\ r \in Int
      BY <1>1, <2>2, <3>1
    <3> QED BY <1>6, <3>1, <3>2, WritesAreSound DEF Unmodelled
  <2> QED BY <1>9, <2>1, <2>2 DEF Missing, StoresTo
<1>10. value_set_of(a) = [F EXCEPT !.unresolved = unresolved_write_count]
  BY DEF value_set_of, W
<1> HIDE DEF F
<1>11. LET v == value_set_of(a) IN
       v.kind = F.kind /\ v.values = F.values /\ v.lo = F.lo /\ v.hi = F.hi /\ v.unmodeled = F.unmodeled
  BY <1>5, <1>10 DEF Joined
<1> QED BY <1>5, <1>8, <1>9, <1>11 DEF Sound, may_contain, is_decided

(* The least and the greatest of finitely many numbers.                    *)
LEMMA ExtremesExist ==
  ASSUME NEW S \in SUBSET Int, IsFiniteSet(S), S # {}
  PROVE  /\ Max(S) \in S /\ \A x \in S : x <= Max(S)
         /\ Min(S) \in S /\ \A x \in S : Min(S) <= x
<1> DEFINE Bounded(T) == /\ \E x \in T : \A y \in T : x >= y
                         /\ \E x \in T : \A y \in T : x <= y
           Good == {T \in SUBSET S : T # {} => Bounded(T)}
<1>1. {} \in Good
  OBVIOUS
<1>2. ASSUME NEW T \in SUBSET S, NEW z \in S \ T, T \in Good PROVE T \cup {z} \in Good
  <2>1. CASE T = {}
    BY <2>1
  <2>2. CASE T # {}
    <3>1. PICK x \in T : \A y \in T : x >= y
      BY <1>2, <2>2
    <3>2. PICK w \in T : \A y \in T : w <= y
      BY <1>2, <2>2
    <3>3. x \in Int /\ w \in Int /\ z \in Int /\ \A y \in T : y \in Int
      OBVIOUS
    <3>4. \E u \in T \cup {z} : \A y \in T \cup {z} : u >= y
      <4>1. CASE x >= z
        BY <3>1, <4>1
      <4>2. CASE z > x
        BY <3>1, <3>3, <4>2
      <4> QED BY <3>3, <4>1, <4>2
    <3>5. \E u \in T \cup {z} : \A y \in T \cup {z} : u <= y
      <4>1. CASE w <= z
        BY <3>2, <4>1
      <4>2. CASE z < w
        BY <3>2, <3>3, <4>2
      <4> QED BY <3>3, <4>1, <4>2
    <3> QED BY <3>4, <3>5
  <2> QED BY <2>1, <2>2
<1> HIDE DEF Good
<1>3. S \in Good
  BY <1>1, <1>2, SubsetInduction
<1>4. Bounded(S)
  BY <1>3 DEF Good
<1>5. Max(S) \in S /\ \A y \in S : Max(S) >= y
  BY <1>4 DEF Max
<1>6. Min(S) \in S /\ \A y \in S : Min(S) <= y
  BY <1>4 DEF Min
<1> QED BY <1>5, <1>6

(* What guards say.                                                        *)
Bound == Int \cup {None}
AreGuards(G) == IsFiniteSet(G) /\ \A g \in G : g.lo \in Bound /\ g.hi \in Bound

LEMMA NarrowSound ==
  ASSUME NEW v, NEW held, NEW missing, Sound(v, held, missing), NEW G, AreGuards(G)
  PROVE  Sound(narrow(v, G), IF is_decided(v) THEN {x \in held : \A g \in G : Passes(g, x)} ELSE held, missing)
<1> DEFINE lowOf  == [g \in G |-> g.lo]
           highOf == [g \in G |-> g.hi]
           lows   == {g.lo : g \in G} \ {None}
           highs  == {g.hi : g \in G} \ {None}
           passed == {x \in held : \A g \in G : Passes(g, x)}
<1>1. IsFiniteSet(lows) /\ IsFiniteSet(highs) /\ lows \subseteq Int /\ highs \subseteq Int
  <2>1. IsFiniteSet({lowOf[g] : g \in G}) /\ IsFiniteSet({highOf[g] : g \in G})
    <3> HIDE DEF lowOf, highOf
    <3> QED BY FiniteImage DEF AreGuards
  <2>2. {lowOf[g] : g \in G} = {g.lo : g \in G} /\ {highOf[g] : g \in G} = {g.hi : g \in G}
    OBVIOUS
  <2>3. IsFiniteSet({g.lo : g \in G}) /\ IsFiniteSet({g.hi : g \in G})
    BY <2>1, <2>2
  <2>4. {g.lo : g \in G} \subseteq Bound /\ {g.hi : g \in G} \subseteq Bound
    BY DEF AreGuards
  <2> HIDE DEF lowOf, highOf
  <2>5. lows \subseteq {g.lo : g \in G} /\ highs \subseteq {g.hi : g \in G}
    OBVIOUS
  <2>6. IsFiniteSet(lows) /\ IsFiniteSet(highs)
    BY <2>3, <2>5, FS_Subset
  <2>7. lows \subseteq Int /\ highs \subseteq Int
    BY <2>4 DEF Bound
  <2> QED BY <2>6, <2>7
<1>2. ASSUME NEW x \in passed
      PROVE  x \in held /\ x \in Int /\ (\A k \in lows : k <= x) /\ \A k \in highs : x <= k
  BY DEF Passes, Sound
<1>3. CASE v.kind = "SET"
  <2> DEFINE kept == {x \in v.values : (\A k \in lows : k <= x) /\ (\A k \in highs : x <= k)}
             n == narrow(v, G)
  <2>1. n.kind = "SET" /\ n.values = kept /\ n.unmodeled = {}
    BY <1>3 DEF narrow, EMPTY
  <2>2. \A x \in passed : x \in kept
    BY <1>2, <1>3 DEF Sound, may_contain, is_decided, Decided
  <2>3. missing = {} /\ kept \subseteq Int
    BY <1>3 DEF Sound, is_decided, Decided
  <2>4. passed \subseteq Int
    BY <1>2
  <2> HIDE DEF n, kept, passed
  <2>5. Sound(n, passed, missing)
    BY <2>1, <2>2, <2>3, <2>4 DEF Sound, may_contain, is_decided, Decided
  <2> QED BY <1>3, <2>5 DEF n, passed, is_decided, Decided
<1>4. CASE v.kind = "RANGE"
  <2> DEFINE lo == Max(lows \cup {v.lo})
             hi == Min(highs \cup {v.hi})
             n == narrow(v, G)
  <2>1. v.lo \in Int /\ v.hi \in Int /\ missing = {} /\ \A x \in held : v.lo <= x /\ x <= v.hi
    BY <1>4 DEF Sound, may_contain, is_decided, Decided
  <2>2. lo \in lows \cup {v.lo} /\ hi \in highs \cup {v.hi}
    <3> HIDE DEF lows, highs
    <3>1. IsFiniteSet(lows \cup {v.lo}) /\ IsFiniteSet(highs \cup {v.hi})
      BY <1>1, FS_AddElement
    <3> QED BY <1>1, <2>1, <3>1, ExtremesExist
  <2>3. ASSUME NEW x \in passed PROVE lo <= x /\ x <= hi
    <3> HIDE DEF lo, hi, lows, highs, passed
    <3> QED BY <1>2, <2>1, <2>2
  <2>4. lo \in Int /\ hi \in Int
    <3> HIDE DEF lo, hi, lows, highs
    <3> QED BY <1>1, <2>1, <2>2
  <2>5. passed \subseteq Int
    BY <1>2
  <2>6. CASE hi < lo
    <3>0. ~(lo <= hi)
      <4> HIDE DEF lo, hi
      <4> QED BY <2>4, <2>6
    <3>1. n.kind = "NONE" /\ n.unmodeled = {}
      BY <1>4, <2>6, <3>0 DEF narrow, EMPTY
    <3> HIDE DEF lo, hi, n, passed
    <3>2. passed = {}
      BY <2>3, <2>4, <2>5, <2>6
    <3>3. Sound(n, passed, missing)
      BY <2>1, <3>1, <3>2 DEF Sound, may_contain, is_decided, Decided
    <3> QED BY <1>4, <3>3 DEF n, passed, is_decided, Decided
  <2>7. CASE lo <= hi
    <3>0. ~(hi < lo)
      <4> HIDE DEF lo, hi
      <4> QED BY <2>4, <2>7
    <3>1. n.kind = "RANGE" /\ n.lo = lo /\ n.hi = hi /\ n.unmodeled = {}
      BY <1>4, <2>7, <3>0 DEF narrow, of_range, EMPTY
    <3> HIDE DEF lo, hi, n, passed
    <3>2. Sound(n, passed, missing)
      BY <2>1, <2>3, <2>4, <2>5, <3>1 DEF Sound, may_contain, is_decided, Decided
    <3> QED BY <1>4, <3>2 DEF n, passed, is_decided, Decided
  <2>8. hi < lo \/ lo <= hi
    <3> HIDE DEF lo, hi
    <3> QED BY <2>4
  <2> QED BY <2>6, <2>7, <2>8
<1>5. CASE v.kind \notin {"SET", "RANGE"}
  <2>1. narrow(v, G) = v
    BY <1>5 DEF narrow
  <2>2. CASE v.kind = "NONE"
    <3>1. held = {}
      BY <2>2 DEF Sound, may_contain, is_decided, Decided
    <3> QED BY <2>1, <3>1
  <2>3. CASE v.kind # "NONE"
    <3>1. ~is_decided(v)
      BY <1>5, <2>3 DEF is_decided, Decided
    <3> QED BY <2>1, <3>1
  <2> QED BY <2>2, <2>3
<1> QED BY <1>3, <1>4, <1>5

(* The guards of an address are a finite set with bounds.                  *)
GuardAt(rva) ==
  LET j == decoded_at(rva + size_at[rva])
      b == fallthrough_bounds(j.op, decoded_at(rva).ops[2].value)
  IN [at |-> rva, next |-> rva + size_at[rva] + j.size, lo |-> b.lo, hi |-> b.hi]
Jumps(a) == {rva \in CmpsOf(a) : /\ decoded_at(rva + size_at[rva]) # None
                                 /\ is_cond(decoded_at(rva + size_at[rva]))}

LEMMA GuardsAreGuards ==
  ASSUME image \in Images, Known, NEW a
  PROVE  AreGuards(guards_of(a))
<1> DEFINE guardAt == [r \in Jumps(a) |-> GuardAt(r)]
<1>1. guards_of(a) = {guardAt[r] : r \in Jumps(a)}
  BY DEF guards_of, GuardAt, Jumps
<1>2. IsFiniteSet(Jumps(a))
  BY WritersDecode, FS_Subset DEF Jumps, CmpsOf
<1>3. ASSUME NEW r \in Jumps(a) PROVE GuardAt(r).lo \in Bound /\ GuardAt(r).hi \in Bound
  <2> DEFINE k == decoded_at(r).ops[2].value
             op == decoded_at(r + size_at[r]).op
             b == fallthrough_bounds(op, k)
  <2>1. k \in Int
    <3> DEFINE i == decoded_at(r)
    <3>1. i # None /\ i.op = "cmp" /\ i.ops[2].kind = "imm"
      BY DEF Jumps, CmpsOf, Known
    <3>2. r \in DOMAIN image.code /\ i = image.code[r]
      BY <3>1 DEF decoded_at
    <3>3. DOMAIN i.ops = 1..Len(i.ops)
      BY <3>1, DecodedInside
    <3>4. Len(i.ops) = 2 /\ \A n \in DOMAIN i.ops : i.ops[n].kind = "imm" => i.ops[n].value \in Int
      BY <3>1, <3>2, OperandAssumption
    <3> HIDE DEF i
    <3>5. 2 \in DOMAIN i.ops
      BY <3>3, <3>4
    <3> QED BY <3>1, <3>4, <3>5 DEF i
  <2>2. op \in Conditional
    BY DEF Jumps, is_cond
  <2>3. GuardAt(r).lo = b.lo /\ GuardAt(r).hi = b.hi
    BY DEF GuardAt
  <2> HIDE DEF k, op
  <2>4. b.lo \in {None, k, k + 1} /\ b.hi \in {None, k, k - 1}
    BY <2>2 DEF fallthrough_bounds, Conditional
  <2> HIDE DEF b
  <2>5. k + 1 \in Int /\ k - 1 \in Int
    BY <2>1
  <2> QED BY <2>1, <2>3, <2>4, <2>5 DEF Bound
<1>4. IsFiniteSet({guardAt[r] : r \in Jumps(a)})
  <2> HIDE DEF guardAt
  <2> QED BY <1>2, FiniteImage
<1>5. \A r \in Jumps(a) : guardAt[r] = GuardAt(r)
  OBVIOUS
<1> HIDE DEF guardAt
<1> QED BY <1>1, <1>3, <1>4, <1>5 DEF AreGuards

(* What the decoder remembers decodes, whatever was asked.                 *)
NeverBackwards == scan # None => scan.over \/ scan.range.start <= scan.range.end

LEMMA KnownGrows ==
  ASSUME Known, image' = image, DOMAIN size_at \subseteq DOMAIN size_at',
         \A r \in DOMAIN size_at' :
               (r \in DOMAIN size_at /\ size_at'[r] = size_at[r]) \/ (decoded_at(r) # None /\ size_at'[r] = decoded_at(r).size),
         claimed' = claimed, indirect_sites' = indirect_sites
  PROVE  Known'
<1>1. \A r \in DOMAIN size_at' : decoded_at(r) # None /\ size_at'[r] = decoded_at(r).size
  BY DEF Known
<1>2. DOMAIN claimed' \subseteq DOMAIN size_at' /\ \A s \in indirect_sites' : decoded_at(s.rva) # None
  BY DEF Known
<1> HIDE DEF Known
<1> QED BY <1>1, <1>2, SameImage DEF Known

(* Remembering an instruction that decodes.                                *)
LEMMA KnownRemembers ==
  ASSUME Known, image' = image, NEW rva, decoded_at(rva) # None, Remember(rva),
         claimed' = claimed, indirect_sites' = indirect_sites
  PROVE  Known'
<1>1. /\ DOMAIN size_at \subseteq DOMAIN size_at'
      /\ \A r \in DOMAIN size_at' :
            (r \in DOMAIN size_at /\ size_at'[r] = size_at[r]) \/ (decoded_at(r) # None /\ size_at'[r] = decoded_at(r).size)
  <2>1. size_at' = [r \in DOMAIN size_at \cup {rva} |-> IF r = rva THEN decoded_at(rva).size ELSE size_at[r]]
    BY DEF Remember, Put
  <2>2. DOMAIN size_at' = DOMAIN size_at \cup {rva}
    BY <2>1
  <2>3. \A r \in DOMAIN size_at \cup {rva} : size_at'[r] = IF r = rva THEN decoded_at(rva).size ELSE size_at[r]
    BY <2>1
  <2> QED BY <2>2, <2>3
<1> QED BY <1>1, KnownGrows

LEMMA KnownStep ==
  ASSUME SweepInv, ScanInv, NeverBackwards, Known, [Next]_vars
  PROVE  Known'
<1>0. image \in Images /\ image' = image
  <2>1. Analyse => image' = image
    BY DEF Analyse, ANext, Seed, GiveUp, StopAtDecoded, StopAtUndecodable, Decode, Finish, Sweep, given
  <2>2. Ask => image' = image
    BY QuestionsOnlyRemember DEF given
  <2>3. UNCHANGED vars => image' = image
    BY DEF vars, avars, given
  <2>4. image \in Images
    BY DEF SweepInv, Phases
  <2> QED BY <2>1, <2>2, <2>3, <2>4 DEF Next
<1>1. CASE UNCHANGED <<size_at, claimed, indirect_sites>>
  <2>1. size_at' = size_at /\ claimed' = claimed /\ indirect_sites' = indirect_sites
    BY <1>1
  <2> QED BY <1>0, <2>1, SameImage DEF Known
<1>2. CASE UNCHANGED vars
  BY <1>1, <1>2 DEF vars, avars, decoding, found, table
<1>3. CASE Analyse
  <2>1. CASE Decode
    <3>1. /\ DOMAIN size_at' = DOMAIN size_at \cup {cursor.at}
          /\ DOMAIN claimed' = DOMAIN claimed \cup {cursor.at}
          /\ decoded_at(cursor.at) # None /\ size_at' = Put(size_at, cursor.at, decoded_at(cursor.at).size)
          /\ \A s \in indirect_sites' : s \in indirect_sites \/ s.rva = cursor.at
      BY <2>1 DEF Decode, Put
    <3>4. \A r \in DOMAIN size_at' : size_at'[r] = IF r = cursor.at THEN decoded_at(cursor.at).size ELSE size_at[r]
      BY <3>1 DEF Put
    <3>2. \A r \in DOMAIN size_at' : decoded_at(r) # None /\ size_at'[r] = decoded_at(r).size
      BY <3>1, <3>4 DEF Known
    <3>3. DOMAIN claimed' \subseteq DOMAIN size_at' /\ \A s \in indirect_sites' : decoded_at(s.rva) # None
      BY <3>1 DEF Known
    <3> QED BY <1>0, <3>2, <3>3, SameImage DEF Known
  <2>2. CASE ~Decode
    <3>1. UNCHANGED <<size_at, claimed, indirect_sites>>
      BY <1>3, <2>2 DEF Analyse, ANext, Seed, GiveUp, StopAtDecoded, StopAtUndecodable, Finish, Sweep,
         prune_starts_inside_functions, decoding, found, table
    <3> QED BY <1>1, <3>1
  <2> QED BY <2>1, <2>2
<1>4. CASE Ask
  <2>0. claimed' = claimed /\ indirect_sites' = indirect_sites
    BY <1>4, QuestionsOnlyRemember DEF table, found
  <2>1. CASE ScanInsn \/ (ScanStop /\ AtInsn)
    <3>1. CASE UNCHANGED size_at
      BY <1>1, <2>0, <3>1
    <3>2. CASE Remember(scan.at)
      <4>1. decoded_at(scan.at) # None
        BY <2>1 DEF ScanInsn, AtInsn
      <4> QED BY <1>0, <2>0, <3>2, <4>1, KnownRemembers
    <3> QED BY <2>1, <3>1, <3>2 DEF ScanInsn, ScanStop
  <2>2. CASE ScanGap
    <3> DEFINE resume == resume_at(scan.at, scan.range.end)
    <3>1. ScanShape(scan)
      BY <2>2 DEF ScanInv, NeverBackwards, ScanGap, Scanning
    <3>2. scan.at \in Nat /\ scan.range.end \in Nat /\ scan.at < scan.range.end
      BY <2>2, <3>1 DEF ScanShape, ScanOrder, ScanGap
    <3>3. resume = scan.range.end \/ decoded_at(resume) # None
      BY <3>2, ResumeIsNext
    <3>4. IF resume < scan.range.end THEN Remember(resume) ELSE UNCHANGED size_at
      BY <2>2 DEF ScanGap
    <3> HIDE DEF resume
    <3>5. CASE UNCHANGED size_at
      BY <1>1, <2>0, <3>5
    <3>6. CASE Remember(resume) /\ resume < scan.range.end
      <4>1. decoded_at(resume) # None
        BY <3>2, <3>3, <3>6
      <4> QED BY <1>0, <2>0, <3>6, <4>1, KnownRemembers
    <3> QED BY <3>4, <3>5, <3>6
  <2>3. CASE BuildBlock
    <3>1. PICK a : AskedFor(a, Block(a))
      BY <2>3 DEF BuildBlock
    <3>2. /\ DOMAIN size_at \subseteq DOMAIN size_at'
          /\ \A r \in DOMAIN size_at' :
                (r \in DOMAIN size_at /\ size_at'[r] = size_at[r]) \/ (decoded_at(r) # None /\ size_at'[r] = decoded_at(r).size)
      <4>1. PICK asked : /\ \A r \in asked : decoded_at(r) # None
                         /\ size_at' = [r \in DOMAIN size_at \cup asked |->
                                          IF r \in asked THEN decoded_at(r).size ELSE size_at[r]]
        BY <3>1 DEF AskedFor
      <4>2. DOMAIN size_at' = DOMAIN size_at \cup asked
        BY <4>1
      <4>3. \A r \in DOMAIN size_at \cup asked : size_at'[r] = IF r \in asked THEN decoded_at(r).size ELSE size_at[r]
        BY <4>1
      <4> QED BY <4>1, <4>2, <4>3
    <3> QED BY <1>0, <2>0, <3>2, KnownGrows
  <2>4. CASE Narrow
    <3>1. /\ DOMAIN size_at \subseteq DOMAIN size_at'
          /\ \A r \in DOMAIN size_at' :
                (r \in DOMAIN size_at /\ size_at'[r] = size_at[r]) \/ (decoded_at(r) # None /\ size_at'[r] = decoded_at(r).size)
      <4>1. PICK asked : size_at' = [r \in DOMAIN size_at \cup {r \in asked : decoded_at(r) # None} |->
                                       IF r \in asked THEN decoded_at(r).size ELSE size_at[r]]
        BY <2>4 DEF Narrow
      <4>2. DOMAIN size_at' = DOMAIN size_at \cup {r \in asked : decoded_at(r) # None}
        BY <4>1
      <4>3. \A r \in DOMAIN size_at \cup {r \in asked : decoded_at(r) # None} :
               size_at'[r] = IF r \in asked THEN decoded_at(r).size ELSE size_at[r]
        BY <4>1
      <4>4. \A r \in DOMAIN size_at : decoded_at(r) # None
        BY DEF Known
      <4> QED BY <4>2, <4>3, <4>4
    <3> QED BY <1>0, <2>0, <3>1, KnownGrows
  <2>5. CASE UNCHANGED size_at
    BY <1>1, <2>0, <2>5
  <2>6. (ScanInsn \/ (ScanStop /\ AtInsn) \/ ScanGap \/ BuildBlock \/ Narrow) \/ UNCHANGED size_at
    BY <1>4 DEF Ask, ScanStep, StartScan, ScanStop, CFGStep, StartCFG, BlockLimit, ValueStep,
       AskValues, Widen, avars, decoding
  <2> QED BY <2>1, <2>2, <2>3, <2>4, <2>5, <2>6
<1> QED BY <1>2, <1>3, <1>4 DEF Next

LEMMA NeverBackwardsStep ==
  ASSUME ScanInv, NeverBackwards, [Next]_vars
  PROVE  NeverBackwards'
<1>1. CASE UNCHANGED scan
  BY <1>1 DEF NeverBackwards
<1>2. ASSUME NEW r \in Ranges, StartScan(r) PROVE NeverBackwards'
  <2>1. scan'.range = r /\ scan'.over = (r.end <= r.start)
    BY <1>2 DEF StartScan
  <2>2. r.start \in Nat /\ r.end \in Nat
    BY RangeAssumption
  <2>3. CASE r.end <= r.start
    BY <2>1, <2>3 DEF NeverBackwards
  <2>4. CASE r.start <= r.end
    BY <2>1, <2>4 DEF NeverBackwards
  <2> QED BY <2>2, <2>3, <2>4
<1>3. CASE ScanInsn \/ ScanGap \/ ScanStop
  <2>1. scan # None /\ IsScan(scan)
    BY <1>3 DEF ScanInsn, ScanGap, ScanStop, AtInsn, Scanning, ScanInv
  <2>2. scan'.range = scan.range
    BY <1>3, <2>1, ScanStays
  <2>3. ~scan.over
    BY <1>3 DEF ScanInsn, ScanGap, ScanStop, AtInsn, Scanning
  <2> QED BY <2>1, <2>2, <2>3 DEF NeverBackwards
<1> QED BY <1>1, <1>2, <1>3 DEF Next, Analyse, Ask, ScanStep, vars

(* What was answered is sound.                                             *)
IsAnswer(ans) == ans = [at |-> ans.at, set |-> ans.set, held |-> ans.held, steps |-> ans.steps,
                        missing |-> ans.missing]
ValueInv == answer # None => IsAnswer(answer) /\ Sound(answer.set, answer.held, answer.missing)

LEMMA ValueStepSound ==
  ASSUME SweepInv, Known, ValueInv, [Next]_vars
  PROVE  ValueInv'
<1>0. image \in Images
  BY DEF SweepInv, Phases
<1>1. CASE UNCHANGED answer
  BY <1>1 DEF ValueInv
<1>2. ASSUME NEW a, AskValues(a) PROVE ValueInv'
  <2>1. /\ IsAnswer(answer') /\ answer'.set = value_set_of(a) /\ answer'.held = Held(a)
        /\ answer'.missing = Missing(a)
    BY <1>2 DEF AskValues, IsAnswer
  <2>2. Sound(value_set_of(a), Held(a), Missing(a))
    BY <1>0, AskIsSound
  <2> QED BY <2>1, <2>2 DEF ValueInv
<1>3. ASSUME NEW v \in Supplied, Widen(v) PROVE ValueInv'
  <2>1. IsAnswer(answer) /\ Sound(answer.set, answer.held, answer.missing)
    BY <1>3 DEF Widen, ValueInv
  <2>2. /\ IsAnswer(answer') /\ answer'.set = widen(answer.set, v)
        /\ answer'.held = answer.held \cup Meaning(v)
        /\ answer'.missing = answer.missing \cup v.unmodeled
    BY <1>3, <2>1 DEF Widen, IsAnswer
  <2>3. Sound(v, Meaning(v), v.unmodeled)
    BY SuppliedAssumption DEF Sound, Meaning, Value
  <2>4. Sound(answer'.set, answer'.held, answer'.missing)
    BY <2>1, <2>2, <2>3, WidenSound
  <2> QED BY <2>2, <2>4 DEF ValueInv
<1>4. CASE Narrow
  <2> DEFINE G == guards_of(answer.at)
             passed == {x \in answer.held : \A g \in G : Passes(g, x)}
  <2>1. IsAnswer(answer) /\ Sound(answer.set, answer.held, answer.missing)
    BY <1>4 DEF Narrow, ValueInv
  <2>2. /\ IsAnswer(answer') /\ answer'.set = narrow_by_guards(answer.at, answer.set)
        /\ answer'.held = IF is_decided(answer.set) /\ is_chain(G) THEN passed ELSE answer.held
        /\ answer'.missing = answer.missing
    BY <1>4, <2>1 DEF Narrow, IsAnswer
  <2>3. AreGuards(G)
    BY <1>0, GuardsAreGuards
  <2>4. Sound(narrow(answer.set, G), IF is_decided(answer.set) THEN passed ELSE answer.held, answer.missing)
    BY <2>1, <2>3, NarrowSound
  <2>5. narrow_by_guards(answer.at, answer.set) = IF is_chain(G) THEN narrow(answer.set, G) ELSE answer.set
    BY DEF narrow_by_guards
  <2> HIDE DEF G, passed
  <2>6. Sound(answer'.set, answer'.held, answer'.missing)
    <3>1. CASE is_chain(G)
      BY <2>2, <2>4, <2>5, <3>1
    <3>2. CASE ~is_chain(G)
      BY <2>1, <2>2, <2>5, <3>2
    <3> QED BY <3>1, <3>2
  <2> QED BY <2>2, <2>6 DEF ValueInv
<1> QED BY <1>1, <1>2, <1>3, <1>4 DEF Next, Analyse, Ask, ValueStep, vars

(* A value set that decides admits whatever a swept instruction may have   *)
(* put at its address, and names the writers it does not know.             *)
THEOREM DecidedIsSo == Spec => []ValuesSound
<1> DEFINE Inv == ScanInv /\ NeverBackwards /\ Known /\ ValueInv
<1>1. Init => Inv
  <2> SUFFICES ASSUME Init PROVE Inv
    OBVIOUS
  <2>1. DOMAIN size_at = {} /\ DOMAIN claimed = {} /\ indirect_sites = {}
    BY DEF Init, AInit, Empty
  <2> QED BY <2>1 DEF Init, ScanInv, NeverBackwards, Known, ValueInv
<1>2. AskedWhenDone /\ SweepInv /\ Inv /\ [Next]_vars => (AskedWhenDone /\ SweepInv /\ Inv)'
  BY SweepStep, QuestionsComeLast, ScanHolds, NeverBackwardsStep, KnownStep, ValueStepSound
<1>3. Inv => ValuesSound
  BY DEF ValueInv, ValuesSound, Sound
<1> QED BY <1>1, <1>2, <1>3, SweepInit, PTL DEF Spec

-----------------------------------------------------------------------------
(* Coverage counts every byte once.                                        *)

CoverInv ==
  /\ IsFiniteSet(DOMAIN claimed) /\ \A rva \in DOMAIN claimed : claimed[rva] \in Nat
  /\ \A rva \in DOMAIN claimed : decoded_at(rva) # None /\ claimed[rva] = decoded_at(rva).size
  /\ covered \subseteq RVAs /\ overlap_bytes \in Nat
  /\ Cardinality(covered) + overlap_bytes = Total(claimed, DOMAIN claimed)

LEMMA CoverInit == Init => CoverInv
<1> SUFFICES ASSUME Init PROVE CoverInv
  OBVIOUS
<1>1. DOMAIN claimed = {} /\ covered = {} /\ overlap_bytes = 0
  BY DEF Init, AInit, Empty
<1>2. IsFiniteSet({}) /\ Cardinality({}) = 0
  BY FS_EmptySet
<1>3. Total(claimed, {}) = 0
  BY <1>2, TotalAdds
<1> QED BY <1>1, <1>2, <1>3 DEF CoverInv

(* Claiming an instruction covers its bytes or counts them as overlap.     *)
LEMMA DecodeCovers ==
  ASSUME Phases, CoverInv, Decode
  PROVE  CoverInv'
<1> DEFINE rva  == cursor.at
           i    == decoded_at(rva)
           hi   == rva + i.size - 1
           span == rva..hi
<1>1. /\ i # None /\ rva \notin DOMAIN claimed
      /\ claimed' = Put(claimed, rva, i.size) /\ mark_covered(rva, i) /\ UNCHANGED image
  BY DEF Decode, Phases, is_decoded, given
<1>2. Span \in Nat /\ rva \in 0..(Span - 1) /\ i.size \in Nat \ {0} /\ rva + i.size <= Span
  BY <1>1, DecodedInside DEF Phases
<1> HIDE DEF i, rva
<1>3. IsFiniteSet(span) /\ Cardinality(span) = i.size /\ span \subseteq RVAs
  <2>1. rva \in Int /\ hi \in Int /\ ~(rva > hi) /\ hi - rva + 1 = i.size /\ 0 <= rva /\ hi <= Span - 1
    BY <1>2
  <2> HIDE DEF hi
  <2>2. IsFiniteSet(rva..hi) /\ Cardinality(rva..hi) = IF rva > hi THEN 0 ELSE hi - rva + 1
    BY <2>1, FS_Interval
  <2>3. rva..hi \subseteq RVAs
    BY <1>2, <2>1 DEF RVAs
  <2> QED BY <2>1, <2>2, <2>3
<1>4. {b \in span : b < Span} = span
  BY <1>2, <1>3 DEF RVAs
<1>5. covered' = covered \cup span /\ overlap_bytes' = overlap_bytes + Cardinality(span \cap covered)
  BY <1>1, <1>4 DEF mark_covered
<1> HIDE DEF span
<1>6. IsFiniteSet(covered) /\ Cardinality(covered) \in Nat
  <2>1. IsFiniteSet(RVAs)
    BY <1>2, FS_Interval DEF RVAs
  <2> QED BY <2>1, FS_Subset, FS_CardinalityType DEF CoverInv
<1>7. /\ Cardinality(covered \cup span) = Cardinality(covered) + Cardinality(span) - Cardinality(covered \cap span)
      /\ Cardinality(covered \cap span) \in Nat
  BY <1>3, <1>6, FS_Union, FS_Intersection, FS_CardinalityType
<1>8. RVAs' = RVAs
  BY <1>1 DEF RVAs, Span
<1>9. /\ DOMAIN claimed' = DOMAIN claimed \cup {rva} /\ claimed'[rva] = i.size
      /\ \A x \in DOMAIN claimed : claimed'[x] = claimed[x]
  BY <1>1 DEF Put
<1>10. \A x \in DOMAIN claimed' : claimed'[x] \in Nat
  BY <1>2, <1>9 DEF CoverInv
<1>11. IsFiniteSet(DOMAIN claimed')
  BY <1>9, FS_AddElement DEF CoverInv
<1>12. Total(claimed', DOMAIN claimed') = i.size + Total(claimed, DOMAIN claimed)
  <2>1. \E f : f = claimed'
    OBVIOUS
  <2>2. PICK f : f = claimed'
    BY <2>1
  <2>3. \A x \in DOMAIN claimed \cup {rva} : f[x] \in Int
    BY <2>2, <1>9, <1>10
  <2>4. Total(f, DOMAIN claimed \cup {rva}) = f[rva] + Total(f, DOMAIN claimed)
    BY <2>3, <1>1, TotalGrows DEF CoverInv
  <2>5. \A x \in DOMAIN claimed : f[x] \in Int /\ f[x] = claimed[x]
    BY <2>2, <2>3, <1>9
  <2>6. Total(f, DOMAIN claimed) = Total(claimed, DOMAIN claimed)
    BY <2>5, TotalIsSame DEF CoverInv
  <2> QED BY <2>2, <2>4, <2>6, <1>9
<1>13. covered' \subseteq RVAs' /\ overlap_bytes' \in Nat
  <2>1. span \cap covered = covered \cap span
    OBVIOUS
  <2>2. Cardinality(span \cap covered) \in Nat
    BY <2>1, <1>7
  <2>3. overlap_bytes' \in Nat
    BY <2>2, <1>5 DEF CoverInv
  <2>4. covered' \subseteq RVAs
    BY <1>3, <1>5 DEF CoverInv
  <2> QED BY <2>3, <2>4, <1>8
<1>14. Cardinality(covered') + overlap_bytes' = Cardinality(covered) + overlap_bytes + i.size
  <2>1. span \cap covered = covered \cap span
    OBVIOUS
  <2>2. overlap_bytes \in Nat
    BY DEF CoverInv
  <2>3. \A c, n, x, o \in Int : (c + n - x) + (o + x) = c + o + n
    OBVIOUS
  <2>4. overlap_bytes' = overlap_bytes + Cardinality(covered \cap span)
    BY <1>5, <2>1
  <2>5. Cardinality(covered') = Cardinality(covered) + i.size - Cardinality(covered \cap span)
    BY <1>3, <1>5, <1>7
  <2>6. Cardinality(covered) \in Int /\ i.size \in Int /\ Cardinality(covered \cap span) \in Int
    BY <1>2, <1>6, <1>7
  <2> QED BY <2>2, <2>3, <2>4, <2>5, <2>6
<1>15. Total(claimed, DOMAIN claimed) \in Int
  <2>1. \A x \in DOMAIN claimed : claimed[x] \in Int
    BY DEF CoverInv
  <2> QED BY <2>1, TotalAdds DEF CoverInv
<1>16. Cardinality(covered') + overlap_bytes' = Total(claimed', DOMAIN claimed')
  BY <1>2, <1>12, <1>14, <1>15 DEF CoverInv
<1>17. \A x \in DOMAIN claimed' : decoded_at(x)' # None /\ claimed'[x] = decoded_at(x)'.size
  <2>1. \A x : decoded_at(x)' = decoded_at(x)
    BY <1>1, SameImage
  <2>2. i = decoded_at(rva)
    BY DEF i
  <2> QED BY <1>1, <1>9, <2>1, <2>2 DEF CoverInv
<1> QED BY <1>10, <1>11, <1>13, <1>16, <1>17 DEF CoverInv

LEMMA CoverStep ==
  ASSUME Phases, CoverInv, [Next]_vars
  PROVE  CoverInv'
<1>1. CASE Decode
  BY <1>1, DecodeCovers
<1>2. CASE ~Decode
  <2>1. UNCHANGED <<claimed, covered, overlap_bytes, image>>
    <3>1. CASE Analyse
      BY <1>2, <3>1 DEF Analyse, ANext, Seed, GiveUp, StopAtDecoded, StopAtUndecodable, Finish, Sweep,
                   given, decoding, table
    <3>2. CASE Ask
      <4>1. UNCHANGED <<given, claimed, covered, overlap_bytes>>
        BY <3>2, QuestionsOnlyRemember DEF table
      <4> QED BY <4>1 DEF given
    <3>3. CASE UNCHANGED vars
      BY <3>3 DEF vars, avars, given, decoding, table
    <3> QED BY <3>1, <3>2, <3>3 DEF Next
  <2>2. RVAs' = RVAs
    BY <2>1 DEF RVAs, Span
  <2>3. \A x : decoded_at(x)' = decoded_at(x)
    BY <2>1, SameImage
  <2> QED BY <2>1, <2>2, <2>3 DEF CoverInv
<1> QED BY <1>1, <1>2

(* Sums over two sets without a common element.                            *)
LEMMA TotalOfTwo ==
  ASSUME NEW A, IsFiniteSet(A), NEW B, IsFiniteSet(B), A \cap B = {}, NEW f, \A x \in A \cup B : f[x] \in Int
  PROVE  /\ Total(f, A \cup B) = Total(f, A) + Total(f, B)
         /\ Total(f, A) \in Int /\ Total(f, B) \in Int /\ IsFiniteSet(A \cup B)
<1>0. Total(f, A) \in Int /\ Total(f, B) \in Int
  BY TotalAdds
<1> DEFINE Good == {T \in SUBSET B : Total(f, A \cup T) = Total(f, A) + Total(f, T)}
<1>1. {} \in Good
  <2>1. IsFiniteSet({}) /\ Total(f, {}) = 0
    BY FS_EmptySet, TotalAdds
  <2>2. A \cup {} = A
    OBVIOUS
  <2> QED BY <1>0, <2>1, <2>2
<1>2. ASSUME NEW T \in SUBSET B, NEW x \in B \ T, T \in Good PROVE T \cup {x} \in Good
  <2>1. IsFiniteSet(T) /\ IsFiniteSet(A \cup T)
    BY FS_Subset, FS_Union
  <2>2. x \notin A \cup T /\ (\A y \in (A \cup T) \cup {x} : f[y] \in Int) /\ (\A y \in T \cup {x} : f[y] \in Int)
    OBVIOUS
  <2>3. Total(f, (A \cup T) \cup {x}) = f[x] + Total(f, A \cup T)
    BY <2>1, <2>2, TotalGrows
  <2>4. Total(f, T \cup {x}) = f[x] + Total(f, T)
    BY <2>1, <2>2, TotalGrows
  <2>5. (A \cup T) \cup {x} = A \cup (T \cup {x})
    OBVIOUS
  <2>6. Total(f, T) \in Int /\ f[x] \in Int
    BY <2>1, <2>2, TotalAdds
  <2>7. Total(f, A \cup T) = Total(f, A) + Total(f, T)
    BY <1>2
  <2>8. \A a, t, y \in Int : y + (a + t) = a + (y + t)
    OBVIOUS
  <2>9. Total(f, A \cup (T \cup {x})) = f[x] + (Total(f, A) + Total(f, T))
    BY <2>3, <2>5, <2>7
  <2>10. f[x] + (Total(f, A) + Total(f, T)) = Total(f, A) + (f[x] + Total(f, T))
    BY <1>0, <2>6, <2>8
  <2>11. Total(f, A \cup (T \cup {x})) = Total(f, A) + Total(f, T \cup {x})
    BY <2>4, <2>9, <2>10
  <2> QED BY <2>11
<1> HIDE DEF Good
<1>3. B \in Good
  BY <1>1, <1>2, SubsetInduction
<1> QED BY <1>0, <1>3, FS_Union DEF Good

(* Stretches apart have as many bytes as their lengths add up to.          *)
LEMMA StretchesCount ==
  ASSUME NEW R, IsFiniteSet(R), NEW at, NEW f, \A r \in R : at[r] \in Int /\ f[r] \in Nat \ {0},
         \A r, q \in R : r # q => (at[r]..(at[r] + f[r] - 1)) \cap (at[q]..(at[q] + f[q] - 1)) = {}
  PROVE  Cardinality(UNION {at[r]..(at[r] + f[r] - 1) : r \in R}) = Total(f, R)
<1> DEFINE Stretch(r) == at[r]..(at[r] + f[r] - 1)
           Bytes(T) == UNION {Stretch(r) : r \in T}
           Good == {T \in SUBSET R : IsFiniteSet(Bytes(T)) /\ Cardinality(Bytes(T)) = Total(f, T)}
<1>0. \A r \in R : f[r] \in Int
  OBVIOUS
<1>1. {} \in Good
  <2>1. IsFiniteSet({}) /\ Cardinality({}) = 0
    BY FS_EmptySet
  <2>2. Total(f, {}) = 0
    BY <2>1, TotalAdds
  <2>3. Bytes({}) = {}
    OBVIOUS
  <2> QED BY <2>1, <2>2, <2>3
<1>2. ASSUME NEW T \in SUBSET R, NEW x \in R \ T, T \in Good PROVE T \cup {x} \in Good
  <2>1. IsFiniteSet(Stretch(x)) /\ Cardinality(Stretch(x)) = f[x]
    <3> DEFINE hi == at[x] + f[x] - 1
    <3>1. at[x] \in Int /\ hi \in Int /\ ~(at[x] > hi) /\ hi - at[x] + 1 = f[x]
      OBVIOUS
    <3>2. Stretch(x) = at[x]..hi
      OBVIOUS
    <3> HIDE DEF hi
    <3>3. IsFiniteSet(at[x]..hi) /\ Cardinality(at[x]..hi) = IF at[x] > hi THEN 0 ELSE hi - at[x] + 1
      BY <3>1, FS_Interval
    <3> QED BY <3>1, <3>2, <3>3
  <2>2. Bytes(T \cup {x}) = Bytes(T) \cup Stretch(x)
    OBVIOUS
  <2>3. Bytes(T) \cap Stretch(x) = {}
    <3>1. \A r \in T : Stretch(r) \cap Stretch(x) = {}
      OBVIOUS
    <3> QED BY <3>1
  <2>4. IsFiniteSet(T) /\ Total(f, T \cup {x}) = f[x] + Total(f, T) /\ Total(f, T) \in Int
    <3>1. IsFiniteSet(T) /\ (\A y \in T \cup {x} : f[y] \in Int) /\ x \notin T
      BY <1>0, FS_Subset
    <3> QED BY <3>1, TotalGrows, TotalAdds
  <2>5. IsFiniteSet(Bytes(T)) /\ Cardinality(Bytes(T)) = Total(f, T)
    BY <1>2
  <2> HIDE DEF Stretch, Bytes
  <2>6. IsFiniteSet(Bytes(T) \cup Stretch(x))
          /\ Cardinality(Bytes(T) \cup Stretch(x)) = Cardinality(Bytes(T)) + Cardinality(Stretch(x))
    <3>1. Cardinality({}) = 0
      BY FS_EmptySet
    <3>2. IsFiniteSet(Bytes(T) \cup Stretch(x)) /\ Cardinality(Bytes(T) \cup Stretch(x))
            = Cardinality(Bytes(T)) + Cardinality(Stretch(x)) - Cardinality(Bytes(T) \cap Stretch(x))
      BY <2>1, <2>5, FS_Union
    <3>3. Cardinality(Bytes(T)) \in Int /\ Cardinality(Stretch(x)) \in Int
      BY <2>4, <2>5, <2>1, <1>0
    <3>4. Cardinality(Bytes(T) \cap Stretch(x)) = 0
      BY <3>1, <2>3
    <3> QED BY <3>2, <3>3, <3>4
  <2>7. f[x] \in Int
    BY <1>0
  <2>8. \A t, y \in Int : t + y = y + t
    OBVIOUS
  <2>9. Cardinality(Bytes(T \cup {x})) = Total(f, T) + f[x]
    BY <2>1, <2>2, <2>5, <2>6
  <2>10. Cardinality(Bytes(T \cup {x})) = Total(f, T \cup {x})
    BY <2>4, <2>7, <2>8, <2>9
  <2>11. IsFiniteSet(Bytes(T \cup {x}))
    BY <2>2, <2>6
  <2> QED BY <2>10, <2>11
<1> HIDE DEF Good
<1>3. R \in Good
  BY <1>1, <1>2, SubsetInduction
<1> QED BY <1>3 DEF Good

(* The uncovered stretches of a section: apart, and every uncovered byte   *)
(* is in one.                                                              *)
Open(s) == (s.start..(s.end - 1)) \ covered

IsRun(run, open) ==
  /\ run.start \in open /\ run.end \in Int /\ run.start < run.end
  /\ run.start..(run.end - 1) \subseteq open
  /\ run.start - 1 \notin open /\ run.end \notin open

LEMMA RunsAreRuns ==
  ASSUME NEW s, s.start \in Nat, s.end \in Nat
  PROVE  /\ \A run \in uncovered_runs(s) : IsRun(run, Open(s))
         /\ \A a, b \in Int : IsRun([start |-> a, end |-> b], Open(s))
               => [start |-> a, end |-> b] \in uncovered_runs(s)
         /\ \A r, q \in uncovered_runs(s) : r.start = q.start /\ r.end = q.end => r = q
         /\ IsFiniteSet(uncovered_runs(s)) /\ Open(s) \subseteq Nat
<1> DEFINE open  == Open(s)
           ends  == (s.start + 1)..s.end
           Maximal(ab) == /\ ab[1] < ab[2] /\ ab[1]..(ab[2] - 1) \subseteq open
                          /\ ab[1] - 1 \notin open /\ ab[2] \notin open
           pairs == {ab \in open \X ends : Maximal(ab)}
           Run(ab) == [start |-> ab[1], end |-> ab[2]]
<1>1. uncovered_runs(s) = {Run(ab) : ab \in pairs}
  BY DEF uncovered_runs, Open
<1>2. open \subseteq s.start..(s.end - 1) /\ open \subseteq Nat
  BY DEF Open
<1>3. IsFiniteSet(pairs)
  <2>1. IsFiniteSet(s.start..(s.end - 1)) /\ IsFiniteSet(ends)
    <3>1. s.start \in Int /\ s.start + 1 \in Int /\ s.end \in Int /\ s.end - 1 \in Int
      OBVIOUS
    <3> QED BY <3>1, FS_Interval
  <2>2. IsFiniteSet(open)
    BY <1>2, <2>1, FS_Subset
  <2> HIDE DEF open, ends, Maximal
  <2>3. IsFiniteSet(open \X ends)
    BY <2>1, <2>2, FS_Product
  <2> QED BY <2>3, FS_Subset
<1> HIDE DEF open
<1>4. IsFiniteSet(uncovered_runs(s))
  <2> DEFINE f == [ab \in pairs |-> Run(ab)]
  <2>1. {f[ab] : ab \in pairs} = uncovered_runs(s)
    BY <1>1
  <2> HIDE DEF f, pairs
  <2> QED BY <1>3, <2>1, FiniteImage
<1>5. ASSUME NEW run \in uncovered_runs(s)
      PROVE  IsRun(run, open) /\ run = [start |-> run.start, end |-> run.end]
  <2>1. PICK ab \in pairs : run = Run(ab)
    BY <1>1
  <2>2. run.start = ab[1] /\ run.end = ab[2]
    BY <2>1
  <2>3. ab[1] \in open /\ ab[2] \in Int /\ Maximal(ab)
    OBVIOUS
  <2> QED BY <2>1, <2>2, <2>3 DEF IsRun
<1>6. ASSUME NEW a \in Int, NEW b \in Int, IsRun([start |-> a, end |-> b], open)
      PROVE  [start |-> a, end |-> b] \in uncovered_runs(s)
  <2>1. a \in open /\ a < b /\ a..(b - 1) \subseteq open /\ a - 1 \notin open /\ b \notin open
    BY <1>6 DEF IsRun
  <2>2. b - 1 \in open /\ s.start <= a
    BY <1>2, <2>1
  <2>3. b \in ends
    BY <1>2, <2>1, <2>2
  <2>4. <<a, b>> \in pairs
    BY <2>1, <2>3
  <2>5. Run(<<a, b>>) = [start |-> a, end |-> b]
    OBVIOUS
  <2> HIDE DEF pairs, Run
  <2> QED BY <1>1, <2>4, <2>5
<1> QED BY <1>2, <1>4, <1>5, <1>6 DEF open

LEMMA RunsFillTheOpen ==
  ASSUME NEW s, s.start \in Nat, s.end \in Nat
  PROVE  /\ UNION {r.start..(r.end - 1) : r \in uncovered_runs(s)} = Open(s)
         /\ \A r, q \in uncovered_runs(s) : r # q => (r.start..(r.end - 1)) \cap (q.start..(q.end - 1)) = {}
<1> DEFINE runs == uncovered_runs(s)
           open == Open(s)
<1>1. /\ \A run \in runs : IsRun(run, open)
      /\ \A a, b \in Int : IsRun([start |-> a, end |-> b], open) => [start |-> a, end |-> b] \in runs
      /\ \A r, q \in runs : r.start = q.start /\ r.end = q.end => r = q
      /\ open \subseteq Nat
  BY RunsAreRuns
<1>0. \A r \in runs : r.start \in Int /\ r.end \in Int
  <2>1. \A x \in open : x \in Int
    BY <1>1
  <2> HIDE DEF runs, open
  <2> QED BY <1>1, <2>1 DEF IsRun
<1>2. open \subseteq s.start..(s.end - 1)
  BY DEF Open
<1> HIDE DEF runs, open
<1>3. ASSUME NEW r \in runs, NEW q \in runs, NEW x \in r.start..(r.end - 1), x \in q.start..(q.end - 1)
      PROVE  ~(r.start < q.start) /\ ~(r.end < q.end)
  <2>1. /\ r.start \in Int /\ r.end \in Int /\ q.start \in Int /\ q.end \in Int /\ x \in Int
        /\ r.start..(r.end - 1) \subseteq open /\ q.start..(q.end - 1) \subseteq open
        /\ q.start - 1 \notin open /\ r.end \notin open
    <3>1. r.start \in Int /\ r.end \in Int /\ q.start \in Int /\ q.end \in Int
      BY <1>0
    <3>2. IsRun(r, open) /\ IsRun(q, open)
      BY <1>1
    <3> QED BY <3>1, <3>2 DEF IsRun
  <2>2. r.start <= x /\ x < r.end /\ q.start <= x /\ x < q.end
    BY <1>3, <2>1
  <2>3. r.start < q.start => q.start - 1 \in r.start..(r.end - 1)
    BY <2>1, <2>2
  <2>4. r.end < q.end => r.end \in q.start..(q.end - 1)
    BY <2>1, <2>2
  <2> QED BY <2>1, <2>3, <2>4
<1>4. ASSUME NEW r \in runs, NEW q \in runs, r # q
      PROVE  (r.start..(r.end - 1)) \cap (q.start..(q.end - 1)) = {}
  <2> SUFFICES ASSUME NEW x \in r.start..(r.end - 1), x \in q.start..(q.end - 1) PROVE FALSE
    OBVIOUS
  <2>1. ~(r.start < q.start) /\ ~(r.end < q.end) /\ ~(q.start < r.start) /\ ~(q.end < r.end)
    BY <1>3
  <2>2. r.start \in Int /\ r.end \in Int /\ q.start \in Int /\ q.end \in Int
    BY <1>0
  <2>3. r.start = q.start /\ r.end = q.end
    BY <2>1, <2>2
  <2> QED BY <1>1, <1>4, <2>3
<1>5. ASSUME NEW x \in open
      PROVE  \E r \in runs : x \in r.start..(r.end - 1)
  <2>0. x \in Nat /\ s.start <= x /\ x <= s.end - 1
    BY <1>1, <1>2
  <2> DEFINE Below == {y \in 0..x : y..x \subseteq open}
             Above == {y \in 0..s.end : x <= y /\ x..y \subseteq open}
  <2>1. x \in Below /\ x \in Above
    <3>1. x..x = {x}
      BY <2>0
    <3> QED BY <2>0, <3>1
  <2>2. PICK a \in Below : \A y \in Below : a <= y
    <3>1. Below # {} /\ Below \in SUBSET (0..x)
      BY <2>1
    <3> HIDE DEF Below
    <3> QED BY <2>0, <3>1, LeastExists
  <2>3. PICK m \in Above : \A y \in Above : y <= m
    <3>1. Above # {} /\ Above \in SUBSET (0..s.end)
      BY <2>1
    <3> HIDE DEF Above
    <3> QED BY <2>0, <3>1, LeastExists
  <2>4. a \in Nat /\ a <= x /\ a..x \subseteq open /\ m \in Nat /\ x <= m /\ x..m \subseteq open
    BY <2>0
  <2>5. a - 1 \notin open
    <3> SUFFICES ASSUME a - 1 \in open PROVE FALSE
      OBVIOUS
    <3>1. a - 1 \in 0..x
      BY <1>1, <2>0, <2>4
    <3>2. (a - 1)..x \subseteq open
      BY <2>0, <2>4
    <3>3. a <= a - 1
      BY <2>2, <3>1, <3>2
    <3> QED BY <2>4, <3>3
  <2>6. m + 1 \notin open
    <3> SUFFICES ASSUME m + 1 \in open PROVE FALSE
      OBVIOUS
    <3>1. m + 1 \in 0..s.end /\ x <= m + 1
      BY <1>2, <2>0, <2>4
    <3>2. x..(m + 1) \subseteq open
      BY <2>0, <2>4
    <3>3. m + 1 <= m
      BY <2>3, <3>1, <3>2
    <3> QED BY <2>4, <3>3
  <2> DEFINE r == [start |-> a, end |-> m + 1]
  <2>7. a..m \subseteq open
    <3> SUFFICES ASSUME NEW y \in a..m PROVE y \in open
      OBVIOUS
    <3>1. y \in a..x \/ y \in x..m
      BY <2>0, <2>4
    <3> QED BY <2>4, <3>1
  <2>8. a \in open /\ a < m + 1 /\ a..((m + 1) - 1) \subseteq open
    <3>1. (m + 1) - 1 = m /\ a \in a..m /\ a < m + 1
      BY <2>0, <2>4
    <3> QED BY <2>7, <3>1
  <2>9. r \in runs
    <3>1. IsRun(r, open) /\ a \in Int /\ m + 1 \in Int
      BY <2>4, <2>5, <2>6, <2>8 DEF IsRun
    <3> QED BY <1>1, <3>1
  <2>10. x \in r.start..(r.end - 1)
    BY <2>0, <2>4
  <2> HIDE DEF r
  <2> QED BY <2>9, <2>10
<1>6. UNION {r.start..(r.end - 1) : r \in runs} = open
  <2>1. \A r \in runs : r.start..(r.end - 1) \subseteq open
    BY <1>1 DEF IsRun
  <2> QED BY <1>5, <2>1
<1> QED BY <1>4, <1>6 DEF runs, open

(* The bytes of a section: covered, or counted in the cause of one run.    *)
Causes == {"padding", "data", "code", "unknown"}

LEMMA CausesAddUp ==
  ASSUME NEW s, s.start \in Nat, s.end \in Nat
  PROVE  Total(attribute_coverage(s, Stride), Causes) = Cardinality(Open(s))
<1> DEFINE runs == uncovered_runs(s)
           len  == [run \in runs |-> run.end - run.start]
           Kind(k) == {run \in runs : classify_run(run, Stride) = k}
           causes == attribute_coverage(s, Stride)
           P == Kind("padding")
           D == Kind("data")
           C == Kind("code")
           U == Kind("unknown")
<1>1. /\ IsFiniteSet(runs) /\ \A r \in runs : r.start \in Int /\ r.end \in Int /\ r.start < r.end
  <2>1. (\A r \in runs : IsRun(r, Open(s))) /\ IsFiniteSet(runs) /\ Open(s) \subseteq Nat
    BY RunsAreRuns
  <2>2. \A x \in Open(s) : x \in Int
    BY <2>1
  <2> HIDE DEF runs
  <2> QED BY <2>1, <2>2 DEF IsRun
<1>2. \A r \in runs : len[r] = r.end - r.start /\ len[r] \in Int
  BY <1>1
<1>3. Cardinality(Open(s)) = Total(len, runs)
  <2>1. /\ UNION {r.start..(r.end - 1) : r \in runs} = Open(s)
        /\ \A r, q \in runs : r # q => (r.start..(r.end - 1)) \cap (q.start..(q.end - 1)) = {}
    BY RunsFillTheOpen
  <2> DEFINE at == [run \in runs |-> run.start]
  <2>a. \A r \in runs : at[r] = r.start /\ len[r] = r.end - r.start
    OBVIOUS
  <2> HIDE DEF runs, len, at
  <2>2. \A r \in runs : at[r] \in Int /\ len[r] \in Nat \ {0} /\ at[r] + len[r] - 1 = r.end - 1
    BY <1>1, <2>a
  <2>3. UNION {at[r]..(at[r] + len[r] - 1) : r \in runs} = Open(s)
    <3>1. {at[r]..(at[r] + len[r] - 1) : r \in runs} = {r.start..(r.end - 1) : r \in runs}
      BY <2>a, <2>2
    <3> QED BY <2>1, <3>1
  <2>4. \A r, q \in runs : r # q => (at[r]..(at[r] + len[r] - 1)) \cap (at[q]..(at[q] + len[q] - 1)) = {}
    BY <2>1, <2>a, <2>2
  <2>5. Cardinality(UNION {at[r]..(at[r] + len[r] - 1) : r \in runs}) = Total(len, runs)
    BY <1>1, <2>2, <2>4, StretchesCount
  <2> QED BY <2>3, <2>5
<1>4. \A run : classify_run(run, Stride) \in Causes
  BY DEF classify_run, Causes
<1>5. /\ runs = ((P \cup D) \cup C) \cup U
      /\ P \cap D = {} /\ (P \cup D) \cap C = {} /\ ((P \cup D) \cup C) \cap U = {}
  <2> HIDE DEF runs
  <2> QED BY <1>4 DEF Causes
<1>6. /\ IsFiniteSet(P) /\ IsFiniteSet(D) /\ IsFiniteSet(C) /\ IsFiniteSet(U)
      /\ \A r \in P \cup D \cup C \cup U : len[r] \in Int
  <2>1. P \subseteq runs /\ D \subseteq runs /\ C \subseteq runs /\ U \subseteq runs
    OBVIOUS
  <2> HIDE DEF runs, len, P, D, C, U
  <2>2. IsFiniteSet(P) /\ IsFiniteSet(D) /\ IsFiniteSet(C) /\ IsFiniteSet(U)
    BY <1>1, <2>1, FS_Subset
  <2> QED BY <1>2, <2>1, <2>2
<1>7. ASSUME NEW k \in Causes PROVE causes[k] = Total(len, Kind(k)) /\ causes[k] \in Int
  <2>1. causes[k] = MapThenSumSet(LAMBDA run : run.end - run.start, Kind(k))
    BY DEF attribute_coverage, Causes
  <2> DEFINE f == [run \in Kind(k) |-> run.end - run.start]
  <2>2. \A r \in Kind(k) : f[r] = r.end - r.start
    OBVIOUS
  <2>3. MapThenSumSet(LAMBDA run : run.end - run.start, Kind(k)) = MapThenSumSet(LAMBDA x : f[x], Kind(k))
    <3> HIDE DEF Kind
    <3> QED BY DEF MapThenSumSet, MapThenFoldSet
  <2>4. Kind(k) \subseteq runs
    OBVIOUS
  <2> HIDE DEF f, len, Kind, runs, causes
  <2>5. IsFiniteSet(Kind(k)) /\ \A r \in Kind(k) : f[r] \in Int /\ f[r] = len[r]
    BY <1>1, <1>2, <2>2, <2>4, FS_Subset
  <2>6. Total(f, Kind(k)) = Total(len, Kind(k)) /\ Total(f, Kind(k)) \in Int
    BY <2>5, TotalIsSame, TotalAdds
  <2>7. causes[k] = Total(f, Kind(k))
    BY <2>1, <2>3 DEF Total
  <2> QED BY <2>6, <2>7
<1>8. Total(len, runs) = ((Total(len, P) + Total(len, D)) + Total(len, C)) + Total(len, U)
  <2> HIDE DEF runs, len, P, D, C, U
  <2>1. Total(len, P \cup D) = Total(len, P) + Total(len, D) /\ IsFiniteSet(P \cup D)
    BY <1>5, <1>6, TotalOfTwo
  <2>2. Total(len, (P \cup D) \cup C) = Total(len, P \cup D) + Total(len, C) /\ IsFiniteSet((P \cup D) \cup C)
    BY <1>5, <1>6, <2>1, TotalOfTwo
  <2>3. Total(len, ((P \cup D) \cup C) \cup U) = Total(len, (P \cup D) \cup C) + Total(len, U)
    BY <1>5, <1>6, <2>2, TotalOfTwo
  <2> QED BY <1>5, <2>1, <2>2, <2>3
<1>9. Total(causes, Causes) = causes["unknown"] + (causes["code"] + (causes["data"] + causes["padding"]))
  <2>0. /\ "padding" \in Causes /\ "data" \in Causes /\ "code" \in Causes /\ "unknown" \in Causes
        /\ Causes = {"padding", "data", "code"} \cup {"unknown"}
    BY DEF Causes
  <2>1. causes["padding"] \in Int /\ causes["data"] \in Int /\ causes["code"] \in Int /\ causes["unknown"] \in Int
    BY <1>7, <2>0
  <2> HIDE DEF causes
  <2>2. Total(causes, {"padding"}) = causes["padding"] /\ IsFiniteSet({"padding"})
    <3>1. IsFiniteSet({}) /\ Total(causes, {}) = 0 /\ {} \cup {"padding"} = {"padding"}
      BY FS_EmptySet, TotalAdds
    <3>2. Total(causes, {} \cup {"padding"}) = causes["padding"] + Total(causes, {})
      BY <2>1, <3>1, TotalGrows
    <3>3. IsFiniteSet({"padding"})
      BY <3>1, FS_AddElement
    <3>4. Total(causes, {"padding"}) = causes["padding"] + 0
      BY <3>1, <3>2
    <3> QED BY <2>1, <3>3, <3>4
  <2>3. Total(causes, {"padding", "data"}) = causes["data"] + causes["padding"] /\ IsFiniteSet({"padding", "data"})
    <3>1. {"padding"} \cup {"data"} = {"padding", "data"} /\ "data" \notin {"padding"}
      OBVIOUS
    <3>2. Total(causes, {"padding"} \cup {"data"}) = causes["data"] + Total(causes, {"padding"})
      BY <2>1, <2>2, <3>1, TotalGrows
    <3> QED BY <2>2, <3>1, <3>2, FS_AddElement
  <2>4. /\ Total(causes, {"padding", "data", "code"}) = causes["code"] + (causes["data"] + causes["padding"])
        /\ IsFiniteSet({"padding", "data", "code"})
    <3>1. {"padding", "data"} \cup {"code"} = {"padding", "data", "code"} /\ "code" \notin {"padding", "data"}
      OBVIOUS
    <3>2. Total(causes, {"padding", "data"} \cup {"code"}) = causes["code"] + Total(causes, {"padding", "data"})
      BY <2>1, <2>3, <3>1, TotalGrows
    <3> QED BY <2>3, <3>1, <3>2, FS_AddElement
  <2>5. "unknown" \notin {"padding", "data", "code"}
    OBVIOUS
  <2>6. Total(causes, {"padding", "data", "code"} \cup {"unknown"})
          = causes["unknown"] + Total(causes, {"padding", "data", "code"})
    BY <2>1, <2>4, <2>5, TotalGrows
  <2> QED BY <2>0, <2>4, <2>6
<1>10. /\ causes["padding"] = Total(len, P) /\ causes["data"] = Total(len, D)
       /\ causes["code"] = Total(len, C) /\ causes["unknown"] = Total(len, U)
       /\ causes["padding"] \in Int /\ causes["data"] \in Int /\ causes["code"] \in Int /\ causes["unknown"] \in Int
  <2>1. "padding" \in Causes /\ "data" \in Causes /\ "code" \in Causes /\ "unknown" \in Causes
    BY DEF Causes
  <2> HIDE DEF causes, len
  <2> QED BY <1>7, <2>1
<1>11. \A p, d, c, u \in Int : ((p + d) + c) + u = u + (c + (d + p))
  OBVIOUS
<1> HIDE DEF causes, len, P, D, C, U, runs
<1>12. Total(len, runs) = Total(causes, Causes)
  BY <1>8, <1>9, <1>10, <1>11
<1> QED BY <1>3, <1>12 DEF causes

LEMMA CoverageIsTrue ==
  ASSUME image \in Images, CoverInv
  PROVE  CoverageAccounted
<1>1. MapThenSumSet(LAMBDA rva : claimed[rva], DOMAIN claimed) = Total(claimed, DOMAIN claimed)
  BY DEF Total
<1>2. ASSUME NEW s \in ExecSections
      PROVE  MapThenSumSet(LAMBDA k : attribute_coverage(s, Stride)[k], DOMAIN attribute_coverage(s, Stride))
               + Cardinality(covered \cap s.start..(s.end - 1)) = s.end - s.start
  <2> DEFINE causes == attribute_coverage(s, Stride)
             bytes  == s.start..(s.end - 1)
  <2>1. s.start \in Nat /\ s.end \in Nat /\ s.start < s.end
    BY ImageAssumption DEF ExecSections
  <2>2. DOMAIN causes = Causes
    BY DEF attribute_coverage, Causes
  <2>3. MapThenSumSet(LAMBDA k : causes[k], DOMAIN causes) = Total(causes, Causes)
    BY <2>2 DEF Total
  <2>4. Total(causes, Causes) = Cardinality(Open(s))
    BY <2>1, CausesAddUp
  <2>5. IsFiniteSet(bytes) /\ Cardinality(bytes) = s.end - s.start
    <3>1. s.start \in Int /\ s.end - 1 \in Int /\ ~(s.start > s.end - 1) /\ (s.end - 1) - s.start + 1 = s.end - s.start
      BY <2>1
    <3>2. IsFiniteSet(s.start..(s.end - 1)) /\ Cardinality(s.start..(s.end - 1))
            = IF s.start > s.end - 1 THEN 0 ELSE (s.end - 1) - s.start + 1
      BY <3>1, FS_Interval
    <3> QED BY <3>1, <3>2
  <2>6. Open(s) = bytes \ covered /\ covered \cap bytes = bytes \cap covered
    BY DEF Open
  <2> HIDE DEF causes, bytes
  <2>7. /\ Cardinality(bytes \ covered) = Cardinality(bytes) - Cardinality(bytes \cap covered)
        /\ Cardinality(bytes \cap covered) \in Nat
    BY <2>5, FS_Difference, FS_Intersection, FS_CardinalityType
  <2>8. s.end - s.start \in Int
    BY <2>1
  <2>9. \A n, x \in Int : (n - x) + x = n
    OBVIOUS
  <2>10. Total(causes, Causes) = (s.end - s.start) - Cardinality(bytes \cap covered)
    BY <2>4, <2>5, <2>6, <2>7
  <2>11. ((s.end - s.start) - Cardinality(bytes \cap covered)) + Cardinality(bytes \cap covered) = s.end - s.start
    BY <2>7, <2>8, <2>9
  <2>12. Total(causes, Causes) + Cardinality(covered \cap bytes) = s.end - s.start
    BY <2>6, <2>10, <2>11, Zenon
  <2> QED BY <2>3, <2>12 DEF causes, bytes
<1> QED BY <1>1, <1>2 DEF CoverageAccounted, CoverInv

(* Whatever the image: covered and overlapping bytes are those of the      *)
(* instructions claimed, and every byte of a section is covered or         *)
(* attributed to one cause.                                                *)
THEOREM EveryByteIsAccounted == Spec => []CoverageAccounted
<1>1. Init => AskedWhenDone /\ SweepInv /\ CoverInv
  BY SweepInit, CoverInit
<1>2. AskedWhenDone /\ SweepInv /\ CoverInv /\ [Next]_vars => (AskedWhenDone /\ SweepInv /\ CoverInv)'
  BY SweepStep, QuestionsComeLast, CoverStep DEF SweepInv
<1>3. SweepInv /\ CoverInv => CoverageAccounted
  BY CoverageIsTrue DEF SweepInv, Phases
<1> QED BY <1>1, <1>2, <1>3, PTL DEF Spec

-----------------------------------------------------------------------------
(* Functions do not run into each other, and every byte of a range is      *)
(* counted under the kind it has.                                          *)

(* A function ends behind what is claimed for it, or where the next begins.*)
LEMMA ExtentsEnd ==
  ASSUME image \in Images, StartsMapped, CoverInv, NEW s \in starts
  PROVE  /\ s \in Int /\ extent_of(s) \in Int
         /\ \A s2 \in starts : s < s2 => s + extent_of(s) <= s2
         /\ \A rva \in DOMAIN claimed : containing(rva) = s => rva < s + extent_of(s)
<1> DEFINE mine == {r \in DOMAIN claimed : AtOrBefore(starts, r) = s}
           past == [r \in mine |-> r + claimed[r]]
           ends == {s} \cup {past[r] : r \in mine}
           last == claimed_end(starts, s)
           next == After(starts, s)
<1>1. Span \in Nat /\ starts \in SUBSET (0..Span) /\ s \in Int /\ \A x \in starts : x \in Int
  BY StartsInside
<1>2. \A r \in mine : r \in Int /\ claimed[r] \in Nat \ {0} /\ past[r] \in Int /\ r < past[r] /\ past[r] = r + claimed[r]
  <2>1. \A r \in DOMAIN claimed : r \in Int /\ claimed[r] \in Nat \ {0}
    BY DecodedInside DEF CoverInv
  <2> QED BY <2>1
<1>3. last \in ends /\ (\A x \in ends : x <= last) /\ last \in Int
  <2>1. IsFiniteSet(mine)
    BY FS_Subset DEF CoverInv
  <2>2. {s} \cup {r + claimed[r] : r \in mine} = ends
    BY <1>2
  <2>3. last = CHOOSE e \in ends : \A x \in ends : x <= e
    BY <2>2 DEF claimed_end
  <2> HIDE DEF past, mine, last
  <2>4. IsFiniteSet({past[r] : r \in mine})
    BY <2>1, FiniteImage
  <2>5. IsFiniteSet({past[r] : r \in mine} \cup {s})
    BY <2>4, FS_AddElement
  <2>6. ends = {past[r] : r \in mine} \cup {s}
    OBVIOUS
  <2>7. ends \in SUBSET Int /\ ends # {} /\ IsFiniteSet(ends)
    BY <1>1, <1>2, <2>5, <2>6
  <2> HIDE DEF ends
  <2>8. \E e \in ends : \A x \in ends : x <= e
    BY <2>7, ExtremesExist
  <2> QED BY <2>3, <2>7, <2>8
<1>4. s <= last /\ \A r \in mine : r < last
  <2>1. s \in ends /\ \A r \in mine : past[r] \in ends
    OBVIOUS
  <2>2. \A r \in mine : past[r] <= last /\ r < past[r] /\ r \in Int /\ past[r] \in Int
    BY <1>2, <1>3, <2>1
  <2> HIDE DEF ends, past, mine, last
  <2> QED BY <1>3, <2>1, <2>2
<1>5. IF \E x \in starts : s < x
      THEN next \in starts /\ s < next /\ \A x \in starts : s < x => next <= x
      ELSE next = None
  BY <1>1, AfterIsLeast
<1>6. None \notin starts
  BY <1>1, AddressAssumption
<1>7. extent_of(s) = (IF next # None /\ next < last THEN next ELSE last) - s
  BY DEF extent_of, end_within
<1>8. \A r \in mine : next # None => r < next
  <2> SUFFICES ASSUME NEW r \in mine, next # None, ~(r < next) PROVE FALSE
    OBVIOUS
  <2>1. next \in starts /\ s < next
    BY <1>5
  <2>2. r \in Int /\ AtOrBefore(starts, r) = s /\ next \in Int
    BY <1>1, <1>2, <2>1
  <2>3. next <= r
    BY <2>2
  <2>4. \A x \in starts : x <= r => x <= AtOrBefore(starts, r)
    BY <1>1, <2>1, <2>2, <2>3, AtOrBeforeIsGreatest
  <2> QED BY <1>1, <2>1, <2>2, <2>3, <2>4
<1>9. \A r \in DOMAIN claimed : containing(r) = s => r \in mine
  BY DEF containing
<1> HIDE DEF mine, past, ends, last, next
<1>10. \A x, y \in Int : x + (y - x) = y
  OBVIOUS
<1>11. s + extent_of(s) = IF next # None /\ next < last THEN next ELSE last
  <2>1. (IF next # None /\ next < last THEN next ELSE last) \in Int
    BY <1>1, <1>3, <1>5
  <2> QED BY <1>1, <1>7, <1>10, <2>1
<1>12. extent_of(s) \in Int
  <2>1. (IF next # None /\ next < last THEN next ELSE last) \in Int
    BY <1>1, <1>3, <1>5
  <2> QED BY <1>1, <1>7, <2>1
<1>13. ASSUME NEW s2 \in starts, s < s2 PROVE s + extent_of(s) <= s2
  <2>1. next # None /\ next <= s2 /\ next \in Int /\ s2 \in Int
    BY <1>1, <1>5, <1>6, <1>13
  <2>2. CASE next < last
    BY <1>11, <2>1, <2>2
  <2>3. CASE ~(next < last)
    BY <1>3, <1>11, <2>1, <2>3
  <2> QED BY <2>2, <2>3
<1>14. ASSUME NEW r \in DOMAIN claimed, containing(r) = s PROVE r < s + extent_of(s)
  BY <1>4, <1>8, <1>9, <1>11, <1>14
<1> QED BY <1>1, <1>12, <1>13, <1>14

(* The kinds of owner, in the order they are asked for.                    *)
KindOf(b) ==
  IF ~is_mapped(b) THEN "unmapped"
  ELSE IF containing(b) = None THEN "before"
  ELSE IF containing(b) = b THEN "start"
  ELSE IF b < containing(b) + extent_of(containing(b)) THEN "body"
  ELSE IF After(starts, b) # None THEN "gap" ELSE "after"

LEMMA OwnerIs ==
  ASSUME image \in Images, StartsMapped, CoverInv, NEW b \in Int
  PROVE  /\ owner_of(b).kind = KindOf(b) /\ KindOf(b) \in OwnerKinds
         /\ KindOf(b) \in OwnedKinds => owner_of(b).owner = containing(b) /\ containing(b) # None
<1> DEFINE s == containing(b)
           past == s + extent_of(s)
<1>1. s # None => s \in starts /\ past \in Int
  <2>1. Span \in Nat /\ starts \in SUBSET (0..Span)
    BY StartsInside
  <2>2. s # None => s \in starts
    BY <2>1, AtOrBeforeIsGreatest DEF containing
  <2>3. ASSUME s \in starts PROVE past \in Int
    <3>1. \A x \in starts : x \in Int /\ extent_of(x) \in Int
      BY ExtentsEnd
    <3> HIDE DEF s
    <3> QED BY <2>3, <3>1
  <2> QED BY <2>2, <2>3
<1>2. owner_of(b) = CASE ~is_mapped(b) -> [owner |-> None, kind |-> "unmapped"]
         [] is_mapped(b) /\ s = None -> [owner |-> None, kind |-> "before"]
         [] is_mapped(b) /\ s = b    -> [owner |-> s, kind |-> "start"]
         [] is_mapped(b) /\ s \notin {None, b} /\ b < past -> [owner |-> s, kind |-> "body"]
         [] is_mapped(b) /\ s \notin {None, b} /\ b >= past ->
              IF After(starts, b) # None THEN [owner |-> s, kind |-> "gap"] ELSE [owner |-> None, kind |-> "after"]
  BY DEF owner_of
<1>3. None # b /\ (s # None => (b >= past <=> ~(b < past)))
  <2>1. b # None
    BY AddressAssumption
  <2> HIDE DEF past, s
  <2> QED BY <1>1, <2>1
<1> HIDE DEF s, past
<1>4. CASE ~is_mapped(b)
  <2>1. owner_of(b) = [owner |-> None, kind |-> "unmapped"]
    BY <1>2, <1>4
  <2> QED BY <1>4, <2>1 DEF KindOf, OwnerKinds, OwnedKinds
<1>5. CASE is_mapped(b) /\ s = None
  <2>1. owner_of(b) = [owner |-> None, kind |-> "before"]
    BY <1>2, <1>3, <1>5
  <2> QED BY <1>5, <2>1 DEF KindOf, OwnerKinds, OwnedKinds, s
<1>6. CASE is_mapped(b) /\ s = b
  <2>1. owner_of(b) = [owner |-> s, kind |-> "start"]
    BY <1>2, <1>3, <1>6
  <2> QED BY <1>3, <1>6, <2>1 DEF KindOf, OwnerKinds, OwnedKinds, s
<1>7. CASE is_mapped(b) /\ s \notin {None, b} /\ b < past
  <2>1. owner_of(b) = [owner |-> s, kind |-> "body"]
    BY <1>2, <1>3, <1>7
  <2> QED BY <1>7, <2>1 DEF KindOf, OwnerKinds, OwnedKinds, s, past
<1>8. CASE is_mapped(b) /\ s \notin {None, b} /\ ~(b < past)
  <2>1. owner_of(b) = IF After(starts, b) # None THEN [owner |-> s, kind |-> "gap"] ELSE [owner |-> None, kind |-> "after"]
    BY <1>2, <1>3, <1>8
  <2> QED BY <1>8, <2>1 DEF KindOf, OwnerKinds, OwnedKinds, s, past
<1> QED BY <1>4, <1>5, <1>6, <1>7, <1>8

(* Between two starts everything is in the same function.                  *)
LEMMA SameFunction ==
  ASSUME image \in Images, StartsMapped, NEW a \in Int, NEW b \in Int, a <= b,
         \A x \in (a + 1)..b : x \notin starts
  PROVE  containing(a) = containing(b) /\ After(starts, a) = After(starts, b)
<1>1. Span \in Nat /\ starts \in SUBSET (0..Span) /\ \A x \in starts : x \in Int
  BY StartsInside
<1>2. \A x \in starts : (x <= a <=> x <= b) /\ (a < x <=> b < x)
  <2> SUFFICES ASSUME NEW x \in starts PROVE (x <= a <=> x <= b) /\ (a < x <=> b < x)
    OBVIOUS
  <2>1. x \in Int /\ x \notin (a + 1)..b
    BY <1>1
  <2> QED BY <2>1
<1>3. \A y \in {a, b} :
         /\ IF \E s \in starts : s <= y
            THEN /\ AtOrBefore(starts, y) \in starts /\ AtOrBefore(starts, y) <= y
                 /\ \A x \in starts : x <= y => x <= AtOrBefore(starts, y)
            ELSE AtOrBefore(starts, y) = None
         /\ IF \E s \in starts : y < s
            THEN /\ After(starts, y) \in starts /\ y < After(starts, y)
                 /\ \A x \in starts : y < x => After(starts, y) <= x
            ELSE After(starts, y) = None
  BY <1>1, AtOrBeforeIsGreatest, AfterIsLeast
<1>4. AtOrBefore(starts, a) = AtOrBefore(starts, b)
  <2>1. CASE \E s \in starts : s <= a
    <3>1. /\ AtOrBefore(starts, a) \in starts /\ AtOrBefore(starts, b) \in starts
          /\ AtOrBefore(starts, a) <= AtOrBefore(starts, b) /\ AtOrBefore(starts, b) <= AtOrBefore(starts, a)
      BY <1>2, <1>3, <2>1
    <3>2. \A x, y \in Int : x <= y /\ y <= x => x = y
      OBVIOUS
    <3> QED BY <1>1, <3>1, <3>2
  <2>2. CASE ~\E s \in starts : s <= a
    BY <1>2, <1>3, <2>2
  <2> QED BY <2>1, <2>2
<1>5. After(starts, a) = After(starts, b)
  <2>1. CASE \E s \in starts : a < s
    <3>1. /\ After(starts, a) \in starts /\ After(starts, b) \in starts
          /\ After(starts, a) <= After(starts, b) /\ After(starts, b) <= After(starts, a)
      BY <1>2, <1>3, <2>1
    <3>2. \A x, y \in Int : x <= y /\ y <= x => x = y
      OBVIOUS
    <3> QED BY <1>1, <3>1, <3>2
  <2>2. CASE ~\E s \in starts : a < s
    BY <1>2, <1>3, <2>2
  <2> QED BY <2>1, <2>2
<1> QED BY <1>4, <1>5 DEF containing

LEMMA MaxAndMin ==
  ASSUME NEW x \in Int, NEW y \in Int
  PROVE  /\ Max({x, y}) = IF x <= y THEN y ELSE x
         /\ Min({x, y}) = IF x <= y THEN x ELSE y
<1>1. {x, y} \in SUBSET Int /\ {x, y} # {} /\ IsFiniteSet({x, y})
  <2>1. IsFiniteSet({}) /\ {x, y} = ({} \cup {x}) \cup {y}
    BY FS_EmptySet
  <2>2. IsFiniteSet({} \cup {x})
    BY <2>1, FS_AddElement
  <2>3. IsFiniteSet(({} \cup {x}) \cup {y})
    BY <2>2, FS_AddElement
  <2> QED BY <2>1, <2>3
<1>2. /\ Max({x, y}) \in {x, y} /\ \A z \in {x, y} : z <= Max({x, y})
      /\ Min({x, y}) \in {x, y} /\ \A z \in {x, y} : Min({x, y}) <= z
  BY <1>1, ExtremesExist
<1>3. Max({x, y}) \in {x, y} /\ x <= Max({x, y}) /\ y <= Max({x, y})
  BY <1>2
<1>4. Min({x, y}) \in {x, y} /\ Min({x, y}) <= x /\ Min({x, y}) <= y
  BY <1>2
<1> QED BY <1>3, <1>4

LEMMA MinOfThree ==
  ASSUME NEW x \in Int, NEW y \in Int, NEW z \in Int
  PROVE  /\ Min({x, y, z}) \in {x, y, z}
         /\ Min({x, y, z}) <= x /\ Min({x, y, z}) <= y /\ Min({x, y, z}) <= z
<1>1. {x, y, z} \in SUBSET Int /\ {x, y, z} # {} /\ IsFiniteSet({x, y, z})
  <2>1. IsFiniteSet({}) /\ {x, y, z} = (({} \cup {x}) \cup {y}) \cup {z}
    BY FS_EmptySet
  <2>2. IsFiniteSet({} \cup {x})
    BY <2>1, FS_AddElement
  <2>3. IsFiniteSet(({} \cup {x}) \cup {y})
    BY <2>2, FS_AddElement
  <2>4. IsFiniteSet((({} \cup {x}) \cup {y}) \cup {z})
    BY <2>3, FS_AddElement
  <2> QED BY <2>1, <2>4
<1>2. Min({x, y, z}) \in {x, y, z} /\ \A v \in {x, y, z} : Min({x, y, z}) <= v
  BY <1>1, ExtremesExist
<1> QED BY <1>2

(* What is counted at once is of one kind: the two ends are, and nothing   *)
(* begins in between.                                                      *)
LEMMA ChunkIsOfOneKind ==
  ASSUME image \in Images, StartsMapped, CoverInv, Known, ~Straddled,
         NEW rva \in Int, NEW end \in Int, NEW left \in Int, rva < end, 0 < left
  PROVE  /\ chunk(rva, end, left) \in Nat \ {0} /\ rva + chunk(rva, end, left) <= end
         /\ \A b \in rva..(rva + chunk(rva, end, left) - 1) : owner_of(b).kind = owner_of(rva).kind
<1> DEFINE b0   == boundary_of(rva)
           size == IF b0.kind = "instruction_start" THEN b0.size ELSE 1
           room == Min({end - rva, left, size})
           run  == Max({1, room})
           last == rva + run - 1
<1>1. \/ size = 1
      \/ is_mapped(rva) /\ rva \in DOMAIN size_at /\ size = size_at[rva]
  <2> DEFINE e == enclosing_instruction(rva)
  <2>0. b0 = CASE is_mapped(rva) /\ is_decoded(rva) ->
                [kind |-> "instruction_start", start |-> rva, size |-> size_at[rva]]
         [] is_mapped(rva) /\ ~is_decoded(rva) /\ e # None ->
                [kind |-> "instruction_interior", start |-> e, size |-> size_at[e]]
         [] ~is_mapped(rva) \/ (~is_decoded(rva) /\ e = None) ->
                [kind |-> "never_decoded", start |-> None, size |-> 0]
    BY DEF boundary_of
  <2> HIDE DEF b0, e
  <2>1. CASE is_mapped(rva) /\ is_decoded(rva)
    <3>1. b0 = [kind |-> "instruction_start", start |-> rva, size |-> size_at[rva]]
      BY <2>0, <2>1
    <3> QED BY <2>1, <3>1 DEF is_decoded
  <2>2. CASE is_mapped(rva) /\ ~is_decoded(rva) /\ e # None
    <3>1. b0 = [kind |-> "instruction_interior", start |-> e, size |-> size_at[e]]
      BY <2>0, <2>2
    <3> QED BY <3>1
  <2>3. CASE ~is_mapped(rva) \/ (~is_decoded(rva) /\ e = None)
    <3>1. b0 = [kind |-> "never_decoded", start |-> None, size |-> 0]
      BY <2>0, <2>3
    <3> QED BY <3>1
  <2> QED BY <2>1, <2>2, <2>3
<1> HIDE DEF size
<1>2. size \in Int
  <2>1. \A r \in DOMAIN size_at : size_at[r] \in Int
    BY DecodedInside DEF Known
  <2> QED BY <1>1, <2>1
<1>3. room \in Int /\ room <= end - rva /\ room <= left /\ room <= size
  <2>1. end - rva \in Int
    OBVIOUS
  <2> QED BY <1>2, <2>1, MinOfThree
<1> HIDE DEF room
<1>4. run \in Nat \ {0} /\ run <= end - rva /\ (run > 1 => run <= size)
  <2>1. run = IF 1 <= room THEN room ELSE 1
    BY <1>3, MaxAndMin
  <2> QED BY <1>3, <2>1
<1>5. chunk(rva, end, left) = IF owner_of(last).kind = owner_of(rva).kind THEN run ELSE 1
  BY DEF chunk, run, room, size
<1> HIDE DEF run
<1>6. chunk(rva, end, left) \in Nat \ {0} /\ chunk(rva, end, left) <= run
  BY <1>4, <1>5
<1>7. ASSUME NEW b \in (rva + 1)..last, owner_of(last).kind = owner_of(rva).kind
      PROVE  owner_of(b).kind = owner_of(rva).kind
  <2>1. run > 1 /\ rva < b /\ b <= last /\ last \in Int /\ b \in Int /\ rva <= b
    BY <1>4
  <2>2. size > 1 /\ is_mapped(rva) /\ rva \in DOMAIN size_at /\ size = size_at[rva] /\ run <= size
    BY <1>1, <1>2, <1>4, <2>1
  <2>3. CASE size <= 2
    <3>1. run = 2
      BY <1>2, <1>4, <2>1, <2>2, <2>3
    <3>2. b = last
      BY <2>1, <3>1
    <3> QED BY <1>7, <3>2
  <2>4. CASE size > 2
    <3>1. \A x \in (rva + 1)..(rva + size - 1) : x \notin starts /\ is_mapped(x)
      BY <2>2, <2>4 DEF Straddled
    <3>2. \A x \in (rva + 1)..last : x \notin starts /\ is_mapped(x)
      BY <1>2, <1>4, <2>2, <3>1
    <3>3. \A x \in (rva + 1)..b : x \notin starts /\ is_mapped(x)
      BY <2>1, <3>2
    <3>4. last \in (rva + 1)..last /\ b \in (rva + 1)..b /\ rva <= last
      BY <2>1
    <3>5. /\ containing(rva) = containing(b) /\ After(starts, rva) = After(starts, b)
          /\ containing(rva) = containing(last) /\ After(starts, rva) = After(starts, last)
      BY <2>1, <3>2, <3>3, <3>4, SameFunction
    <3>6. is_mapped(b) /\ is_mapped(last) /\ b \notin starts /\ last \notin starts
      BY <3>2, <3>3, <3>4
    <3>7. /\ owner_of(rva).kind = KindOf(rva) /\ owner_of(b).kind = KindOf(b)
          /\ owner_of(last).kind = KindOf(last)
      BY <2>1, OwnerIs
    <3> DEFINE s == containing(rva)
               past == s + extent_of(s)
    <3>8. s # None => s \in starts /\ s <= rva /\ past \in Int
      <4>1. Span \in Nat /\ starts \in SUBSET (0..Span)
        BY StartsInside
      <4>2. s # None => s \in starts /\ s <= rva
        BY <4>1, AtOrBeforeIsGreatest DEF containing
      <4>3. \A x \in starts : x \in Int /\ extent_of(x) \in Int
        BY ExtentsEnd
      <4> HIDE DEF s
      <4> QED BY <4>2, <4>3
    <3> HIDE DEF s, past
    <3>9. /\ KindOf(rva) = IF s = None THEN "before" ELSE IF s = rva THEN "start"
                           ELSE IF rva < past THEN "body"
                           ELSE IF After(starts, rva) # None THEN "gap" ELSE "after"
          /\ KindOf(b) = IF s = None THEN "before" ELSE IF s = b THEN "start"
                         ELSE IF b < past THEN "body"
                         ELSE IF After(starts, rva) # None THEN "gap" ELSE "after"
          /\ KindOf(last) = IF s = None THEN "before" ELSE IF s = last THEN "start"
                            ELSE IF last < past THEN "body"
                            ELSE IF After(starts, rva) # None THEN "gap" ELSE "after"
      BY <2>2, <3>5, <3>6 DEF KindOf, s, past
    <3>10. s # b /\ s # last
      <4>1. s = None => s # b /\ s # last
        BY <2>1, AddressAssumption
      <4> QED BY <3>6, <3>8, <4>1
    <3>11. CASE s = None
      BY <3>7, <3>9, <3>11
    <3>12. CASE s # None
      <4>1. past \in Int
        BY <3>8, <3>12
      <4>2. s # rva
        BY <1>7, <3>7, <3>9, <3>10, <3>12
      <4>3. CASE rva < past
        <5>1. last < past
          BY <1>7, <3>7, <3>9, <3>10, <3>12, <4>2, <4>3
        <5>2. b < past
          BY <2>1, <4>1, <5>1
        <5> QED BY <3>7, <3>9, <3>10, <3>12, <4>2, <4>3, <5>2
      <4>4. CASE ~(rva < past)
        <5>1. ~(b < past)
          BY <2>1, <4>1, <4>4
        <5> QED BY <3>7, <3>9, <3>10, <3>12, <4>2, <4>4, <5>1
      <4> QED BY <4>3, <4>4
    <3> QED BY <3>11, <3>12
  <2> QED BY <1>2, <2>3, <2>4
<1>8. ASSUME NEW b \in rva..(rva + chunk(rva, end, left) - 1) PROVE owner_of(b).kind = owner_of(rva).kind
  <2>1. CASE b = rva
    BY <2>1
  <2>2. CASE b # rva
    <3>1. chunk(rva, end, left) # 1
      BY <2>2
    <3>2. owner_of(last).kind = owner_of(rva).kind /\ chunk(rva, end, left) = run
      BY <1>5, <3>1
    <3>3. b \in (rva + 1)..last
      BY <1>4, <2>2, <3>2
    <3> QED BY <1>7, <3>2, <3>3
  <2> QED BY <2>1, <2>2
<1> QED BY <1>4, <1>6, <1>8

(* C cuts a..(stop - 1) into stretches, each of one kind.                  *)
BytesOf(c) == c.at..(c.at + c.run - 1)
Tiles(C, a, stop) ==
  /\ IsFiniteSet(C) /\ stop \in Int /\ a <= stop
  /\ \A c \in C : c.at \in Int /\ c.run \in Nat \ {0} /\ a <= c.at /\ c.at + c.run <= stop
  /\ \A c \in C : \A b \in BytesOf(c) : owner_of(b).kind = c.kind
  /\ \A c, d \in C : c # d => BytesOf(c) \cap BytesOf(d) = {}
  /\ \A b \in a..(stop - 1) : \E c \in C : b \in BytesOf(c)

LEMMA TilesGrow ==
  ASSUME NEW a \in Int, NEW c, c.at = a, c.run \in Nat \ {0},
         \A b \in BytesOf(c) : owner_of(b).kind = c.kind,
         NEW C, NEW stop, Tiles(C, a + c.run, stop)
  PROVE  Tiles({c} \cup C, a, stop)
<1> DEFINE b1 == a + c.run
<1>1. BytesOf(c) = a..(b1 - 1) /\ b1 \in Int /\ a < b1 /\ stop \in Int /\ b1 <= stop
  BY DEF BytesOf, Tiles
<1>2. IsFiniteSet({c} \cup C)
  <2>1. IsFiniteSet(C \cup {c}) /\ {c} \cup C = C \cup {c}
    BY FS_AddElement DEF Tiles
  <2> QED BY <2>1
<1>3. ASSUME NEW d \in {c} \cup C
      PROVE  d.at \in Int /\ d.run \in Nat \ {0} /\ a <= d.at /\ d.at + d.run <= stop
  <2>1. CASE d = c
    BY <1>1, <2>1
  <2>2. CASE d \in C
    <3>1. d.at \in Int /\ d.run \in Nat \ {0} /\ b1 <= d.at /\ d.at + d.run <= stop
      BY <2>2 DEF Tiles
    <3> HIDE DEF b1
    <3> QED BY <1>1, <3>1
  <2> QED BY <2>1, <2>2
<1>4. \A d \in {c} \cup C : \A b \in BytesOf(d) : owner_of(b).kind = d.kind
  BY DEF Tiles
<1>5. \A d \in C : BytesOf(d) \cap BytesOf(c) = {}
  <2> SUFFICES ASSUME NEW d \in C, NEW b \in BytesOf(d) PROVE b \notin BytesOf(c)
    OBVIOUS
  <2>1. d.at \in Int /\ d.run \in Nat \ {0} /\ b1 <= d.at
    BY DEF Tiles
  <2>2. b \in Int /\ d.at <= b
    BY <2>1 DEF BytesOf
  <2> HIDE DEF b1
  <2> QED BY <1>1, <2>1, <2>2
<1>6. \A d, e \in {c} \cup C : d # e => BytesOf(d) \cap BytesOf(e) = {}
  BY <1>5 DEF Tiles
<1>7. ASSUME NEW b \in a..(stop - 1) PROVE \E d \in {c} \cup C : b \in BytesOf(d)
  <2>1. CASE b < b1
    <3> HIDE DEF b1
    <3> QED BY <1>1, <2>1
  <2>2. CASE ~(b < b1)
    <3>1. b \in b1..(stop - 1)
      <4> HIDE DEF b1
      <4> QED BY <1>1, <2>2
    <3> QED BY <3>1 DEF Tiles
  <2> QED BY <2>1, <2>2
<1> QED BY <1>1, <1>2, <1>3, <1>4, <1>6, <1>7 DEF Tiles

LEMMA RangeGrows ==
  ASSUME NEW P, NEW c \in P, NEW s \in Seq(P)
  PROVE  Range(<<c>> \o s) = {c} \cup Range(s)
<1> DEFINE t == <<c>> \o s
<1>1. DOMAIN t = 1..(Len(s) + 1) /\ DOMAIN s = 1..Len(s) /\ t[1] = c /\ \A n \in 1..Len(s) : t[n + 1] = s[n]
  OBVIOUS
<1>2. \A n \in 2..(Len(s) + 1) : n - 1 \in 1..Len(s) /\ t[n] = s[n - 1]
  OBVIOUS
<1>3. Len(s) \in Nat
  OBVIOUS
<1>4. ASSUME NEW x \in Range(t) PROVE x \in {c} \cup Range(s)
  <2> HIDE DEF t
  <2>1. PICK n \in 1..(Len(s) + 1) : x = t[n]
    BY <1>1 DEF Range
  <2>2. CASE n = 1
    BY <1>1, <2>1, <2>2
  <2>3. CASE n # 1
    <3>1. n \in 2..(Len(s) + 1)
      BY <1>3, <2>3
    <3> QED BY <1>1, <1>2, <2>1, <3>1 DEF Range
  <2> QED BY <2>2, <2>3
<1>5. ASSUME NEW x \in {c} \cup Range(s) PROVE x \in Range(t)
  <2> HIDE DEF t
  <2>1. CASE x = c
    BY <1>1, <1>3, <2>1 DEF Range
  <2>2. CASE x \in Range(s)
    <3>1. PICK n \in 1..Len(s) : x = s[n]
      BY <1>1, <2>2 DEF Range
    <3>2. n + 1 \in 1..(Len(s) + 1)
      BY <1>3
    <3> QED BY <1>1, <3>1, <3>2 DEF Range
  <2> QED BY <2>1, <2>2
<1> QED BY <1>4, <1>5

(* The chunks of a range cut it up to where the limit or its end is.       *)
LEMMA ChunksTile ==
  ASSUME image \in Images, StartsMapped, CoverInv, Known, ~Straddled,
         NEW start \in Nat, NEW end \in Nat, NEW limit \in Nat
  PROVE  \E stop \in Int : /\ Tiles(Range(chunks(start, end, limit)), start, stop)
                           /\ stop <= end \/ stop = start
<1> DEFINE hi == Max({start, end})
           Run(r) == chunk(r, end, limit - (r - start))
           Piece(r) == [run |-> Run(r), kind |-> owner_of(r).kind, boundary |-> boundary_of(r).kind, at |-> r]
           Past(r) == r >= end \/ r - start >= limit
           P    == {Piece(r) : r \in 0..hi}
           End  == {r \in 0..hi : Past(r)}
           last == [r \in 0..hi |-> <<>>]
           nx   == [r \in 0..hi |-> r + Run(r)]
           step == [rv \in (0..hi) \X Seq(P) |-> <<Piece(rv[1])>> \o rv[2]]
           Body(f, r) == IF Past(r) THEN <<>> ELSE <<Piece(r)>> \o f[r + Run(r)]
           walk == CHOOSE f : f = [r \in start..hi |-> Body(f, r)]
<1>1. hi \in Nat /\ start <= hi /\ end <= hi
  <2>1. hi = IF start <= end THEN end ELSE start
    BY MaxAndMin
  <2> HIDE DEF hi
  <2> QED BY <2>1
<1>2. chunks(start, end, limit) = walk[start]
  BY DEF chunks
<1> HIDE DEF hi
<1>3. ASSUME NEW r \in 0..hi, ~Past(r)
      PROVE  /\ Run(r) \in Nat \ {0} /\ r + Run(r) <= end /\ r + Run(r) \in (r + 1)..hi
             /\ \A b \in r..(r + Run(r) - 1) : owner_of(b).kind = owner_of(r).kind
  <2> DEFINE left == limit - (r - start)
  <2>1. r \in Int /\ left \in Int /\ r < end /\ 0 < left
    BY <1>1, <1>3
  <2> HIDE DEF left
  <2>2. /\ chunk(r, end, left) \in Nat \ {0} /\ r + chunk(r, end, left) <= end
        /\ \A b \in r..(r + chunk(r, end, left) - 1) : owner_of(b).kind = owner_of(r).kind
    BY <2>1, ChunkIsOfOneKind
  <2>3. Run(r) = chunk(r, end, left)
    BY DEF left
  <2> HIDE DEF Run
  <2>4. r + Run(r) \in (r + 1)..hi
    BY <1>1, <2>1, <2>2, <2>3
  <2> QED BY <2>2, <2>3, <2>4
<1> HIDE DEF Run
<1>4. \A r \in (0..hi) \ End : nx[r] \in (r + 1)..hi
  BY <1>3
<1>5. last \in [0..hi -> Seq(P)]
  OBVIOUS
<1>6. step \in [(0..hi) \X Seq(P) -> Seq(P)]
  <2>1. \A r \in 0..hi : Piece(r) \in P
    OBVIOUS
  <2> HIDE DEF P, Piece
  <2>2. \A r \in 0..hi : \A v \in Seq(P) : <<Piece(r)>> \o v \in Seq(P)
    BY <2>1
  <2> QED BY <2>2
<1>7. \A r \in 0..hi : Piece(r) \in P
  OBVIOUS
<1> HIDE DEF P, Piece, Past
<1>8. \E f : f = [r \in start..hi |-> Body(f, r)]
  <2> HIDE DEF last, step, nx, End
  <2>1. PICK f \in [0..hi -> Seq(P)] : IsDescent(f, 0, hi, End, last, nx, step)
    BY <1>1, <1>4, <1>5, <1>6, DescentExists
  <2>2. ASSUME NEW r \in 0..hi PROVE f[r] = Body(f, r)
    <3>1. f[r] = IF r \in End THEN last[r] ELSE step[<<r, f[nx[r]]>>]
      BY <2>1 DEF IsDescent
    <3>2. CASE Past(r)
      BY <3>1, <3>2 DEF End, last
    <3>3. CASE ~Past(r)
      <4>1. nx[r] = r + Run(r) /\ nx[r] \in 0..hi
        BY <1>1, <1>3, <3>3 DEF nx
      <4>2. f[nx[r]] \in Seq(P)
        BY <2>1, <4>1
      <4>3. f[r] = <<Piece(r)>> \o f[nx[r]]
        BY <3>1, <3>3, <4>2 DEF End, step
      <4> QED BY <3>3, <4>1, <4>3
    <3> QED BY <3>2, <3>3
  <2> DEFINE h == [r \in start..hi |-> f[r]]
  <2>3. \A r \in start..hi : r \in 0..hi
    BY <1>1
  <2>4. ASSUME NEW r \in start..hi PROVE h[r] = Body(h, r)
    <3>1. f[r] = Body(f, r) /\ r \in 0..hi
      BY <2>2, <2>3
    <3>2. CASE Past(r)
      BY <3>1, <3>2
    <3>3. CASE ~Past(r)
      <4>1. r + Run(r) \in (r + 1)..hi
        BY <1>3, <3>1, <3>3
      <4>2. r + Run(r) \in start..hi
        BY <1>1, <4>1
      <4>3. h[r + Run(r)] = f[r + Run(r)]
        BY <4>2
      <4> QED BY <3>1, <3>3, <4>3
    <3> QED BY <3>2, <3>3
  <2>5. h = [r \in start..hi |-> Body(h, r)]
    <3>1. DOMAIN h = start..hi
      OBVIOUS
    <3> QED BY <2>4
  <2> QED BY <2>5
<1>9. walk = [r \in start..hi |-> Body(walk, r)]
  BY <1>8
<1> HIDE DEF walk
<1> DEFINE Tiled(r) == /\ walk[r] \in Seq(P)
                       /\ \E stop \in Int : /\ Tiles(Range(walk[r]), r, stop)
                                            /\ stop <= end \/ stop = r
           Good == {r \in 0..hi : start <= r => Tiled(r)}
<1>10. ASSUME NEW r \in 0..hi, \A x \in (r + 1)..hi : x \in Good, start <= r PROVE Tiled(r)
  <2>0. r \in start..hi
    BY <1>1, <1>10
  <2>1. walk[r] = Body(walk, r)
    BY <1>9, <2>0
  <2>2. CASE Past(r)
    <3>1. walk[r] = <<>> /\ Range(<<>>) = {}
      BY <2>1, <2>2 DEF Range
    <3>2. IsFiniteSet({})
      BY FS_EmptySet
    <3>3. r \in Int /\ Tiles({}, r, r)
      BY <3>2 DEF Tiles
    <3>4. <<>> \in Seq(P)
      OBVIOUS
    <3> QED BY <3>1, <3>3, <3>4
  <2>3. CASE ~Past(r)
    <3> DEFINE n == r + Run(r)
               c == Piece(r)
    <3>1. n \in (r + 1)..hi /\ n \in Int /\ n <= end /\ Run(r) \in Nat \ {0}
      BY <1>3, <2>3
    <3>2. n \in Good /\ start <= n
      BY <1>1, <1>10, <3>1
    <3> HIDE DEF n
    <3>3. walk[n] \in Seq(P) /\ \E stop \in Int : Tiles(Range(walk[n]), n, stop) /\ (stop <= end \/ stop = n)
      BY <3>2
    <3>4. PICK stop \in Int : Tiles(Range(walk[n]), n, stop) /\ stop <= end
      BY <3>1, <3>3
    <3>5. walk[r] = <<c>> \o walk[n] /\ c \in P
      BY <1>7, <2>1, <2>3 DEF n
    <3>6. c.at = r /\ c.run = Run(r) /\ c.kind = owner_of(r).kind
      BY DEF Piece
    <3> HIDE DEF c
    <3>7. \A b \in BytesOf(c) : owner_of(b).kind = c.kind
      <4>1. BytesOf(c) = r..(r + Run(r) - 1)
        BY <3>6 DEF BytesOf
      <4> QED BY <1>3, <2>3, <3>6, <4>1
    <3>8. Tiles({c} \cup Range(walk[n]), r, stop)
      <4>1. n = r + c.run
        BY <3>6 DEF n
      <4> QED BY <3>1, <3>4, <3>6, <3>7, <4>1, TilesGrow
    <3>9. Range(walk[r]) = {c} \cup Range(walk[n]) /\ walk[r] \in Seq(P)
      <4>1. Range(<<c>> \o walk[n]) = {c} \cup Range(walk[n])
        BY <3>3, <3>5, RangeGrows
      <4>2. <<c>> \o walk[n] \in Seq(P)
        <5>1. <<c>> \in Seq(P) /\ walk[n] \in Seq(P)
          BY <3>3, <3>5
        <5>2. \A s, t \in Seq(P) : s \o t \in Seq(P)
          OBVIOUS
        <5> QED BY <5>1, <5>2
      <4> QED BY <3>5, <4>1, <4>2
    <3> QED BY <3>4, <3>8, <3>9
  <2> QED BY <2>2, <2>3
<1>11. \A r \in 0..hi : (\A x \in (r + 1)..hi : x \in Good) => r \in Good
  BY <1>10
<1> HIDE DEF Good
<1>12. start \in Good
  BY <1>1, <1>11, DescentInduction
<1> QED BY <1>1, <1>2, <1>12 DEF Good

(* The bytes of some of the stretches.                                     *)
LEMMA TiledBytes ==
  ASSUME NEW C, NEW a \in Int, NEW stop, Tiles(C, a, stop), NEW S \in SUBSET C
  PROVE  /\ IsFiniteSet(S)
         /\ MapThenSumSet(LAMBDA c : c.run, S)
              = Cardinality({b \in a..(stop - 1) : \E c \in S : b \in BytesOf(c)})
<1> DEFINE at == [c \in S |-> c.at]
           f  == [c \in S |-> c.run]
           bytes == {b \in a..(stop - 1) : \E c \in S : b \in BytesOf(c)}
<1>1. IsFiniteSet(S)
  BY FS_Subset DEF Tiles
<1>2. \A c \in S : at[c] = c.at /\ f[c] = c.run /\ at[c] \in Int /\ f[c] \in Nat \ {0}
                   /\ a <= at[c] /\ at[c] + f[c] <= stop
  BY DEF Tiles
<1>3. MapThenSumSet(LAMBDA c : c.run, S) = MapThenSumSet(LAMBDA x : f[x], S)
  BY DEF MapThenSumSet, MapThenFoldSet
<1> HIDE DEF at, f
<1>4. \A c \in S : BytesOf(c) = at[c]..(at[c] + f[c] - 1)
  BY <1>2 DEF BytesOf
<1>5. \A c, d \in S : c # d => (at[c]..(at[c] + f[c] - 1)) \cap (at[d]..(at[d] + f[d] - 1)) = {}
  BY <1>4 DEF Tiles
<1>6. Cardinality(UNION {at[c]..(at[c] + f[c] - 1) : c \in S}) = Total(f, S)
  BY <1>1, <1>2, <1>5, StretchesCount
<1>7. \A c \in S : \A b \in BytesOf(c) : b \in a..(stop - 1)
  <2>1. stop \in Int
    BY DEF Tiles
  <2> QED BY <1>2, <1>4, <2>1
<1>8. UNION {at[c]..(at[c] + f[c] - 1) : c \in S} = bytes
  BY <1>4, <1>7
<1> HIDE DEF bytes
<1> QED BY <1>1, <1>3, <1>6, <1>8 DEF Total, bytes

LEMMA RangesAreCounted ==
  ASSUME image \in Images, StartsMapped, CoverInv, Known, ~Straddled, NEW start \in Nat, NEW end \in Nat
  PROVE  CountedByteForByte(start, end)
<1> DEFINE C == Range(chunks(start, end, MaxBytes))
           r == classify_range(start, end, MaxBytes)
           owner == [b \in start..(end - 1) |-> owner_of(b)]
           Of(k) == {c \in C : c.kind = k}
<1>1. PICK stop \in Int : Tiles(C, start, stop) /\ (stop <= end \/ stop = start)
  BY LimitAssumption, ChunksTile
<1>2. /\ r.scanned = MapThenSumSet(LAMBDA c : c.run, C)
      /\ \A k \in OwnerKinds : r.bytes[k] = MapThenSumSet(LAMBDA c : c.run, Of(k))
      /\ r.truncated = (r.scanned < end - start)
  BY DEF classify_range
<1> HIDE DEF C, r
<1>3. start <= stop
  BY <1>1 DEF Tiles
<1>4. r.scanned = stop - start
  <2>1. {b \in start..(stop - 1) : \E c \in C : b \in BytesOf(c)} = start..(stop - 1)
    BY <1>1 DEF Tiles
  <2>2. Cardinality(start..(stop - 1)) = stop - start
    <3>1. start \in Int /\ stop - 1 \in Int
      OBVIOUS
    <3>2. Cardinality(start..(stop - 1)) = IF start > stop - 1 THEN 0 ELSE (stop - 1) - start + 1
      BY <3>1, FS_Interval
    <3> QED BY <1>3, <3>2
  <2>3. MapThenSumSet(LAMBDA c : c.run, C) = Cardinality({b \in start..(stop - 1) : \E c \in C : b \in BytesOf(c)})
    BY <1>1, TiledBytes
  <2> QED BY <1>2, <2>1, <2>2, <2>3
<1>5. start + r.scanned - 1 = stop - 1
  BY <1>4
<1>6. ASSUME NEW k \in OwnerKinds
      PROVE  r.bytes[k] = Cardinality({b \in start..(stop - 1) : owner_of(b).kind = k})
  <2>1. Of(k) \in SUBSET C
    OBVIOUS
  <2>2. MapThenSumSet(LAMBDA c : c.run, Of(k))
          = Cardinality({b \in start..(stop - 1) : \E c \in Of(k) : b \in BytesOf(c)})
    BY <1>1, <2>1, TiledBytes
  <2>3. \A b \in start..(stop - 1) : (\E c \in Of(k) : b \in BytesOf(c)) <=> owner_of(b).kind = k
    BY <1>1 DEF Tiles
  <2>4. {b \in start..(stop - 1) : \E c \in Of(k) : b \in BytesOf(c)}
          = {b \in start..(stop - 1) : owner_of(b).kind = k}
    BY <2>3
  <2> QED BY <1>2, <2>2, <2>4
<1>7. stop <= end \/ (stop = start /\ end <= start)
  BY <1>1
<1>8. ASSUME NEW k \in OwnerKinds
      PROVE  r.bytes[k] = Cardinality({b \in start..(start + r.scanned - 1) : owner[b].kind = k})
  <2>1. \A b \in start..(stop - 1) : owner[b] = owner_of(b)
    <3>1. \A b \in start..(stop - 1) : b \in start..(end - 1)
      BY <1>1, <1>7
    <3> QED BY <3>1
  <2>2. {b \in start..(stop - 1) : owner[b].kind = k} = {b \in start..(stop - 1) : owner_of(b).kind = k}
    BY <2>1
  <2>3. {b \in start..(start + r.scanned - 1) : owner[b].kind = k} = {b \in start..(stop - 1) : owner[b].kind = k}
    <3> HIDE DEF owner
    <3> QED BY <1>5
  <2> QED BY <1>6, <2>2, <2>3
<1>9. ASSUME is_fully_owned(r), NEW b \in start..(end - 1) PROVE owner[b].owner # None
  <2>1. ~r.truncated /\ \A k \in OwnerKinds \ OwnedKinds : r.bytes[k] = 0
    BY <1>9 DEF is_fully_owned
  <2>2. stop = end
    <3>1. ~(stop - start < end - start)
      BY <1>2, <1>4, <2>1
    <3> QED BY <1>7, <3>1
  <2>3. b \in Int /\ owner_of(b).kind \in OwnerKinds /\ owner_of(b).kind = KindOf(b)
    BY OwnerIs
  <2>4. owner_of(b).kind \in OwnedKinds
    <3> SUFFICES ASSUME owner_of(b).kind \notin OwnedKinds PROVE FALSE
      OBVIOUS
    <3> DEFINE k == owner_of(b).kind
               S == {x \in start..(stop - 1) : owner_of(x).kind = k}
    <3>1. b \in S
      BY <2>2
    <3>2. Cardinality(S) = 0
      BY <1>6, <2>1, <2>3
    <3>3. IsFiniteSet(S)
      <4>1. start \in Int /\ stop - 1 \in Int
        OBVIOUS
      <4>2. IsFiniteSet(start..(stop - 1))
        BY <4>1, FS_Interval
      <4> QED BY <4>2, FS_Subset
    <3> QED BY <3>1, <3>2, <3>3, FS_EmptySet
  <2> QED BY <2>3, <2>4, OwnerIs
<1> QED BY <1>8, <1>9 DEF CountedByteForByte, r

LEMMA OwnersHold ==
  ASSUME image \in Images, StartsMapped, CoverInv, Known
  PROVE  OwnersTrue
<1>1. \A s, s2 \in starts : s < s2 => s + extent_of(s) <= s2
  BY ExtentsEnd
<1>2. ASSUME NEW rva \in DOMAIN claimed, containing(rva) # None
      PROVE  owner_of(rva).kind \in {"start", "body"} /\ function_of(rva) = containing(rva)
  <2> DEFINE s == containing(rva)
  <2>1. decoded_at(rva) # None /\ rva \in Int
    BY DecodedInside DEF CoverInv
  <2>2. is_mapped(rva)
    BY <2>1 DEF decoded_at
  <2>3. s \in starts
    <3>1. Span \in Nat /\ starts \in SUBSET (0..Span)
      BY StartsInside
    <3> QED BY <1>2, <2>1, <3>1, AtOrBeforeIsGreatest DEF containing
  <2>4. rva < s + extent_of(s)
    BY <2>3, ExtentsEnd
  <2>5. KindOf(rva) \in {"start", "body"}
    BY <1>2, <2>2, <2>4 DEF KindOf
  <2>6. owner_of(rva).kind = KindOf(rva) /\ KindOf(rva) \in OwnedKinds
    BY <2>1, <2>5, OwnerIs DEF OwnedKinds
  <2>7. owner_of(rva).owner = containing(rva)
    BY <2>1, <2>6, OwnerIs
  <2> QED BY <2>5, <2>6, <2>7 DEF function_of
<1>3. ASSUME ~Straddled PROVE \A r \in Ranges : CountedByteForByte(r.start, r.end)
  BY <1>3, RangeAssumption, RangesAreCounted
<1> QED BY <1>1, <1>2, <1>3 DEF OwnersTrue

(* Whatever the image: functions lie apart, what was swept has an owner    *)
(* when a function is before it, and unless a function starts inside a     *)
(* long instruction, the counts of a range are those of its bytes.         *)
THEOREM OwnersAreTold == Spec => []OwnersTrue
<1> DEFINE Inv == ScanInv /\ NeverBackwards /\ Known /\ CoverInv /\ StartsMapped
<1>1. Init => Inv
  <2> SUFFICES ASSUME Init PROVE Inv
    OBVIOUS
  <2>1. DOMAIN size_at = {} /\ DOMAIN claimed = {} /\ indirect_sites = {} /\ starts = {}
    BY DEF Init, AInit, Empty
  <2> QED BY <2>1, CoverInit DEF Init, ScanInv, NeverBackwards, Known, StartsMapped
<1>2. AskedWhenDone /\ SweepInv /\ Inv /\ [Next]_vars => (AskedWhenDone /\ SweepInv /\ Inv)'
  BY SweepStep, QuestionsComeLast, ScanHolds, NeverBackwardsStep, KnownStep, CoverStep, StartsMappedStep
     DEF SweepInv
<1>3. SweepInv /\ Inv => OwnersTrue
  BY OwnersHold DEF SweepInv, Phases
<1> QED BY <1>1, <1>2, <1>3, SweepInit, PTL DEF Spec

-----------------------------------------------------------------------------
(* Where a register's value is said to come from, it comes from.           *)

(* Everything in the body of a function but its start is led to from it.   *)
LEMMA BodyIsLedTo ==
  ASSUME image \in Images, NEW owner, NEW body, body = Closure({owner}, Follows)
  PROVE  /\ owner \in body
         /\ \A p \in body : \A x \in Follow(p) : x \in body
         /\ \A x \in body : x = owner \/ \E p \in body : x \in Follow(p)
<1> DEFINE H == {x \in body : x = owner \/ \E p \in body : x \in Follow(p)}
<1>1. IsFiniteSet(DOMAIN Follows)
  <2>1. Span \in Nat
    BY SpanIsTheEnd
  <2>2. 0 \in Int /\ Span - 1 \in Int
    BY <2>1
  <2> QED BY <2>2, FS_Interval DEF Follows, RVAs
<1>2. /\ {owner} \subseteq body /\ ClosedUnder(body, Follows)
      /\ \A C : {owner} \subseteq C /\ ClosedUnder(C, Follows) => body \subseteq C
  BY <1>1, ClosureIsLeast
<1>3. ASSUME NEW p \in body, NEW x \in Follow(p) PROVE x \in body
  <2>1. decoded_at(p) # None
    BY DEF Follow
  <2>2. p \in RVAs
    BY <2>1, DecodedInside DEF RVAs
  <2> QED BY <1>2, <2>2 DEF ClosedUnder, Follows
<1>4. {owner} \subseteq H
  BY <1>2
<1>5. ClosedUnder(H, Follows)
  <2> SUFFICES ASSUME NEW p \in H, p \in RVAs, NEW x \in Follow(p) PROVE x \in H
    BY DEF ClosedUnder, Follows
  <2>1. p \in body
    OBVIOUS
  <2>2. x \in body
    BY <1>3, <2>1
  <2> QED BY <2>1, <2>2
<1>6. body \subseteq H
  BY <1>2, <1>4, <1>5
<1> QED BY <1>2, <1>3, <1>6

LEMMA FollowsDecode ==
  ASSUME image \in Images, NEW p, NEW x \in Follow(p)
  PROVE  decoded_at(p) # None /\ p \in RVAs /\ decoded_at(p).size \in Nat \ {0}
<1>1. decoded_at(p) # None
  BY DEF Follow
<1> QED BY <1>1, DecodedInside DEF RVAs

(* With one way in, the instructions up to rva do not overlap.             *)
LEMMA OneWay ==
  ASSUME image \in Images, NEW owner \in Int, NEW rva \in Int, OneWayIn(owner, rva), Known,
         NEW body, body = Closure({owner}, Follows)
  PROVE  /\ \A p \in body : \A x \in Follow(p) :
               x \in owner..rva => p \in owner..(rva - 1) /\ x = p + decoded_at(p).size /\ p < x
         /\ \A x \in body : x \in owner..(rva - 1) =>
               decoded_at(x) # None /\ is_decoded(x) /\ x + decoded_at(x).size <= rva
         /\ \A x, p, q \in body : x \in owner..rva /\ x \in Follow(p) /\ x \in Follow(q) => p = q
         /\ rva \in body
<1> DEFINE size(p) == decoded_at(p).size
           B == {x \in body : x \in owner..rva}
           Apart(q) == \A p \in B : p < q => p + size(p) <= q
           Good == {k \in Nat : \A q \in B : q <= owner + k => Apart(q)}
<1>1. /\ rva \in body
      /\ \A p \in body : p \in owner..(rva - 1) => is_decoded(p)
      /\ \A p \in body : \A x \in Follow(p) : x \in owner..rva => x = p + size(p) /\ owner <= p
  BY DEF OneWayIn
<1>2. ASSUME NEW p \in body, NEW x \in Follow(p), x \in owner..rva
      PROVE  /\ p \in owner..(rva - 1) /\ x = p + size(p) /\ p < x /\ p \in B
             /\ size(p) \in Nat \ {0}
  <2>1. p \in RVAs /\ size(p) \in Nat \ {0}
    BY FollowsDecode
  <2>2. x = p + size(p) /\ owner <= p
    BY <1>1, <1>2
  <2>3. p \in Int
    BY <2>1, SpanIsTheEnd DEF RVAs
  <2> HIDE DEF size
  <2>4. p < x /\ p \in owner..(rva - 1)
    BY <1>2, <2>1, <2>2, <2>3
  <2> QED BY <2>1, <2>2, <2>4
<1>3. ASSUME NEW x \in B, x # owner PROVE \E p \in B : x = p + size(p) /\ p < x /\ size(p) \in Nat \ {0}
  <2>1. PICK p \in body : x \in Follow(p)
    BY <1>3, BodyIsLedTo
  <2> QED BY <1>2, <2>1
<1> HIDE DEF size
<1>4. \A x \in B : x \in Int /\ owner <= x /\ x <= rva
  OBVIOUS
<1> HIDE DEF B
<1>5. 0 \in Good
  BY <1>4
<1>6. ASSUME NEW k \in Nat, k \in Good PROVE k + 1 \in Good
  <2> SUFFICES ASSUME NEW q \in B, q <= owner + (k + 1), NEW p \in B, p < q PROVE p + size(p) <= q
    OBVIOUS
  <2>1. q # owner
    BY <1>4
  <2>2. PICK r \in B : q = r + size(r) /\ r < q /\ size(r) \in Nat \ {0}
    BY <1>3, <2>1
  <2>3. r <= owner + k /\ p <= owner + k
    BY <1>4, <2>2
  <2>4. Apart(r) /\ Apart(p)
    BY <1>6, <2>3
  <2>5. CASE p = r
    BY <1>4, <2>2, <2>5
  <2>6. CASE p < r
    <3>1. p + size(p) <= r
      BY <2>4, <2>6
    <3>3. r < q /\ r \in Int /\ q \in Int
      BY <1>4, <2>2
    <3>4. size(p) \in Int
      <4>1. is_decoded(p) /\ p \in body
        BY <1>1, <1>4, <2>6 DEF B
      <4>2. decoded_at(p) # None
        BY <4>1 DEF Known, is_decoded
      <4> QED BY <4>2, DecodedInside DEF size
    <3> QED BY <1>4, <3>1, <3>3, <3>4
  <2>7. CASE r < p
    <3>1. r + size(r) <= p
      BY <2>4, <2>7
    <3> QED BY <1>4, <2>2, <3>1
  <2> QED BY <1>4, <2>5, <2>6, <2>7
<1>7. ASSUME NEW q \in B PROVE Apart(q)
  <2>1. q - owner \in Nat /\ q <= owner + (q - owner)
    BY <1>4
  <2> HIDE DEF Good
  <2>2. q - owner \in Good
    BY <1>5, <1>6, <2>1, Induction
  <2> QED BY <2>1, <2>2 DEF Good
<1>8. ASSUME NEW x \in body, x \in owner..(rva - 1)
      PROVE  decoded_at(x) # None /\ is_decoded(x) /\ x + size(x) <= rva
  <2>1. is_decoded(x)
    BY <1>1, <1>8
  <2>2. decoded_at(x) # None
    BY <2>1 DEF Known, is_decoded
  <2>3. x \in B /\ rva \in B /\ x < rva
    <3>1. x \in owner..rva /\ x < rva /\ rva \in owner..rva
      BY <1>8
    <3> QED BY <1>1, <3>1 DEF B
  <2> QED BY <1>7, <2>1, <2>2, <2>3
<1>9. ASSUME NEW x \in body, NEW p \in body, NEW q \in body, x \in owner..rva, x \in Follow(p), x \in Follow(q)
      PROVE  p = q
  <2>1. /\ p \in B /\ x = p + size(p) /\ p < x /\ size(p) \in Nat \ {0}
        /\ q \in B /\ x = q + size(q) /\ q < x /\ size(q) \in Nat \ {0}
    BY <1>2, <1>9
  <2>2. (p < q => p + size(p) <= q) /\ (q < p => q + size(q) <= p)
    BY <1>7, <2>1
  <2>3. p \in Int /\ q \in Int /\ x \in Int
    BY <1>4, <1>9, <2>1
  <2> QED BY <2>1, <2>2, <2>3
<1> QED BY <1>1, <1>2, <1>8, <1>9 DEF size

(* The facts known along a line are folded from its start.                 *)
NoteFacts     == DeterminedFacts \cup {"moved_from_register", "unknown"}
Notes      == [fact : NoteFacts, source : Int]
NotedRegs  == Regs \cup {"eax"}
NotedFacts == UNION {[D -> Notes] : D \in SUBSET NotedRegs}

LEMMA ApplyNotes ==
  ASSUME image \in Images, NEW facts \in NotedFacts, NEW p \in Int, decoded_at(p) # None
  PROVE  apply(facts, p) \in NotedFacts
<1> DEFINE i == decoded_at(p)
<1>1. i = image.code[p] /\ p \in DOMAIN image.code
  BY DEF decoded_at
<1>2. DOMAIN i.ops = 1..Len(i.ops)
  BY DecodedInside
<1>3. \A n \in DOMAIN i.ops : /\ i.ops[n].kind \in {"imm", "reg", "mem"}
                              /\ i.ops[n].kind = "reg" => i.ops[n].reg \in Regs
  <2> HIDE DEF i
  <2>1. ASSUME NEW n \in DOMAIN i.ops PROVE i.ops[n].kind \in {"imm", "reg", "mem"}
    BY <1>1, OperandAssumption
  <2>2. \A n \in DOMAIN i.ops : i.ops[n].kind = "reg" => i.ops[n].reg \in Regs
    BY <1>1, RegisterAssumption
  <2> QED BY <2>1, <2>2
<1>4. i.op \in {"mov", "lea", "add"} => 1 \in DOMAIN i.ops /\ 2 \in DOMAIN i.ops
  <2> SUFFICES ASSUME i.op \in {"mov", "lea", "add"} PROVE 1 \in DOMAIN i.ops /\ 2 \in DOMAIN i.ops
    OBVIOUS
  <2>1. Len(i.ops) = 2
    BY <1>1, OperandAssumption
  <2> HIDE DEF i
  <2>2. DOMAIN i.ops = 1..2
    BY <1>2, <2>1
  <2> QED BY <2>2
<1>5. PICK D \in SUBSET NotedRegs : facts \in [D -> Notes]
  BY DEF NotedFacts
<1> HIDE DEF i
<1>6. \A f \in NoteFacts : Fact(f, p) \in Notes
  BY DEF Fact, Notes
<1>7. CASE is_call(i)
  <2>1. apply(facts, p) = [r \in {"eax"} |-> Fact("returned_by_call", p)]
    BY <1>7 DEF apply, i
  <2>2. apply(facts, p) \in [{"eax"} -> Notes]
    BY <1>6, <2>1 DEF NoteFacts, DeterminedFacts
  <2> QED BY <2>2 DEF NotedFacts, NotedRegs
<1>8. CASE ~is_call(i) /\ written_register(i) = None
  BY <1>8 DEF apply, i
<1>9. CASE ~is_call(i) /\ written_register(i) # None
  <2> DEFINE w == written_register(i)
             v == written_by(i, p, facts)
  <2>1. i.op \in {"mov", "lea", "add"} /\ w \in Regs
    BY <1>3, <1>4, <1>9 DEF written_register
  <2>2. v \in Notes
    <3> DEFINE from == i.ops[2]
    <3>1. from.kind \in {"imm", "reg", "mem"}
      BY <1>3, <1>4, <2>1
    <3>2. CASE i.op = "add"
      <4>1. v = Fact("unknown", p)
        BY <3>2 DEF written_by
      <4> QED BY <1>6, <4>1 DEF NoteFacts
    <3>3. CASE i.op = "lea"
      <4>1. v = Fact(IF from.base = None /\ from.index = None THEN "constant" ELSE "unknown", p)
        BY <3>3 DEF written_by
      <4> QED BY <1>6, <4>1 DEF NoteFacts, DeterminedFacts
    <3>4. CASE i.op = "mov" /\ from.kind = "imm"
      <4>1. v = Fact("constant", p)
        BY <3>4 DEF written_by
      <4> QED BY <1>6, <4>1 DEF NoteFacts, DeterminedFacts
    <3>5. CASE i.op = "mov" /\ from.kind = "reg"
      <4>1. v = IF from.reg \in DOMAIN facts /\ facts[from.reg].fact # "unknown" THEN facts[from.reg]
                ELSE Fact("moved_from_register", p)
        BY <3>5 DEF written_by
      <4>2. from.reg \in DOMAIN facts => facts[from.reg] \in Notes
        BY <1>5
      <4> QED BY <1>6, <4>1, <4>2 DEF NoteFacts
    <3>6. CASE i.op = "mov" /\ from.kind = "mem"
      <4>1. v = Fact(IF from.base \in StackRegs THEN "loaded_from_stack" ELSE "loaded_from_slot", p)
        BY <3>6 DEF written_by
      <4> QED BY <1>6, <4>1 DEF NoteFacts, DeterminedFacts
    <3> QED BY <2>1, <3>1, <3>2, <3>3, <3>4, <3>5, <3>6
  <2>3. apply(facts, p) = Put(facts, w, v)
    BY <1>9 DEF apply, i
  <2> HIDE DEF w, v
  <2>4. Put(facts, w, v) \in [D \cup {w} -> Notes]
    BY <1>5, <2>2 DEF Put
  <2>5. D \cup {w} \in SUBSET NotedRegs
    BY <2>1 DEF NotedRegs
  <2> QED BY <2>3, <2>4, <2>5 DEF NotedFacts
<1> QED BY <1>7, <1>8, <1>9

LEMMA FactsAreFolded ==
  ASSUME image \in Images, NEW line \in Seq(Int), \A n \in 1..Len(line) : decoded_at(line[n]) # None
  PROVE  \E h : /\ h[0] = Empty
                /\ \A n \in 1..Len(line) : h[n] = apply(h[n - 1], line[n])
                /\ h[Len(line)] = FoldLeft(apply, Empty, line)
<1> DEFINE N    == Len(line)
           S    == 1..N
           pick == [s \in SUBSET S |-> Max(s)]
           step == [sv \in (SUBSET S) \X NotedFacts |->
                      IF sv[1] = {} THEN sv[2] ELSE apply(sv[2], line[Max(sv[1])])]
           Body(g, s) == IF s = {} THEN Empty ELSE apply(g[s \ {Max(s)}], line[Max(s)])
           iter == CHOOSE g : g = [s \in SUBSET S |-> Body(g, s)]
<1>1. N \in Nat /\ DOMAIN line = S /\ IsFiniteSet(S)
  <2>1. N \in Nat /\ 1 \in Int
    OBVIOUS
  <2> QED BY <2>1, FS_Interval
<1>2. \A s \in SUBSET S : s # {} => Max(s) \in s /\ \A x \in s : x <= Max(s)
  <2> SUFFICES ASSUME NEW s \in SUBSET S, s # {} PROVE Max(s) \in s /\ \A x \in s : x <= Max(s)
    OBVIOUS
  <2>1. IsFiniteSet(s)
    BY <1>1, FS_Subset
  <2>2. s \in SUBSET Int
    OBVIOUS
  <2> QED BY <2>1, <2>2, ExtremesExist
<1>3. FoldLeft(apply, Empty, line) = iter[S]
  BY <1>1 DEF FoldLeft, MapThenFoldSet
<1>4. Empty \in NotedFacts
  <2>1. Empty \in [{} -> Notes]
    BY DEF Empty
  <2> QED BY <2>1 DEF NotedFacts
<1>5. step \in [(SUBSET S) \X NotedFacts -> NotedFacts]
  <2>1. ASSUME NEW s \in SUBSET S, NEW f \in NotedFacts, s # {} PROVE apply(f, line[Max(s)]) \in NotedFacts
    <3>1. Max(s) \in 1..N
      BY <1>2, <2>1
    <3>2. line[Max(s)] \in Int /\ decoded_at(line[Max(s)]) # None
      BY <3>1
    <3> QED BY <3>2, ApplyNotes
  <2> QED BY <2>1
<1>6. \A s \in SUBSET S : \A f \in NotedFacts : s # {} => step[<<s, f>>] = apply(f, line[Max(s)])
  OBVIOUS
<1>7. \A s \in SUBSET S : pick[s] = Max(s)
  OBVIOUS
<1> HIDE DEF pick, step, S
<1>8. PICK g \in [SUBSET S -> NotedFacts] : IsFoldBy(g, S, pick, Empty, step)
  <2>1. \A s \in SUBSET S : s # {} => pick[s] \in s
    BY <1>2, <1>7
  <2> QED BY <1>1, <1>4, <1>5, <2>1, FoldByExists
<1>9. g = [s \in SUBSET S |-> Body(g, s)]
  <2>1. ASSUME NEW s \in SUBSET S PROVE g[s] = Body(g, s)
    <3>1. g[s] = IF s = {} THEN Empty ELSE step[<<s, g[s \ {Max(s)}]>>]
      BY <1>7, <1>8 DEF IsFoldBy
    <3>2. s \ {Max(s)} \in SUBSET S
      OBVIOUS
    <3>3. g[s \ {Max(s)}] \in NotedFacts
      BY <1>8, <3>2
    <3> QED BY <1>6, <3>1, <3>3
  <2> QED BY <1>8, <2>1
<1>10. iter = [s \in SUBSET S |-> Body(iter, s)]
  BY <1>9
<1> HIDE DEF iter
<1> DEFINE h == [n \in 0..N |-> iter[1..n]]
<1>11. h[0] = Empty
  <2>1. h[0] = iter[1..0] /\ 1..0 = {}
    BY <1>1
  <2> QED BY <1>10, <2>1
<1>12. ASSUME NEW n \in 1..N PROVE h[n] = apply(h[n - 1], line[n])
  <2>1. h[n] = iter[1..n] /\ h[n - 1] = iter[1..(n - 1)] /\ 1..n \in SUBSET S /\ 1..n # {}
    BY <1>1 DEF S
  <2>2. Max(1..n) = n
    <3>1. n \in 1..n
      OBVIOUS
    <3>2. Max(1..n) \in 1..n /\ n <= Max(1..n)
      BY <1>2, <2>1, <3>1
    <3> QED BY <3>2
  <2>3. (1..n) \ {n} = 1..(n - 1)
    OBVIOUS
  <2>4. iter[1..n] = apply(iter[(1..n) \ {Max(1..n)}], line[Max(1..n)])
    BY <1>10, <2>1
  <2> QED BY <2>1, <2>2, <2>3, <2>4
<1>13. h[N] = iter[S]
  BY <1>1 DEF S
<1> HIDE DEF h
<1> QED BY <1>3, <1>11, <1>12, <1>13

(* The line is the way control takes from owner to rva.                    *)
At(s, rva, n) == IF n <= Len(s) THEN s[n] ELSE rva
IsWay(s, a, rva, body) ==
  /\ s \in Seq(Int) /\ At(s, rva, 1) = a
  /\ \A n \in 1..Len(s) :
        /\ s[n] \in body /\ s[n] < rva /\ s[n] \in Int /\ decoded_at(s[n]) # None
        /\ At(s, rva, n + 1) = s[n] + decoded_at(s[n]).size /\ At(s, rva, n + 1) \in body

LEMMA WayGrows ==
  ASSUME NEW a \in Int, NEW rva \in Int, NEW body, a \in body, a < rva, decoded_at(a) # None,
         NEW v, IsWay(v, a + decoded_at(a).size, rva, body), a + decoded_at(a).size \in body
  PROVE  IsWay(<<a>> \o v, a, rva, body)
<1> DEFINE s == <<a>> \o v
<1>1. v \in Seq(Int) /\ Len(v) \in Nat
  BY DEF IsWay
<1>2. s \in Seq(Int) /\ Len(s) = Len(v) + 1 /\ s[1] = a /\ \A n \in 1..Len(v) : s[n + 1] = v[n]
  BY <1>1
<1> HIDE DEF s
<1>3. \A n \in Nat \ {0} : At(s, rva, n + 1) = At(v, rva, n)
  <2> SUFFICES ASSUME NEW n \in Nat \ {0} PROVE At(s, rva, n + 1) = At(v, rva, n)
    OBVIOUS
  <2>1. n + 1 <= Len(s) <=> n <= Len(v)
    BY <1>1, <1>2
  <2>2. n <= Len(v) => s[n + 1] = v[n]
    BY <1>1, <1>2
  <2> QED BY <2>1, <2>2 DEF At
<1>4. At(s, rva, 1) = a
  BY <1>1, <1>2 DEF At
<1>5. ASSUME NEW n \in 1..Len(s)
      PROVE  /\ s[n] \in body /\ s[n] < rva /\ s[n] \in Int /\ decoded_at(s[n]) # None
             /\ At(s, rva, n + 1) = s[n] + decoded_at(s[n]).size /\ At(s, rva, n + 1) \in body
  <2>1. CASE n = 1
    <3>1. At(s, rva, 2) = At(v, rva, 1) /\ At(v, rva, 1) = a + decoded_at(a).size
      BY <1>3 DEF IsWay
    <3> QED BY <1>2, <2>1, <3>1
  <2>2. CASE n # 1
    <3> DEFINE m == n - 1
    <3>1. m \in 1..Len(v) /\ m + 1 = n /\ m \in Nat \ {0}
      BY <1>1, <1>2, <2>2
    <3> HIDE DEF m
    <3>2. s[n] = v[m] /\ At(s, rva, n) = At(v, rva, m) /\ At(s, rva, n + 1) = At(v, rva, m + 1)
      <4>1. s[m + 1] = v[m] /\ n \in Nat \ {0}
        BY <1>2, <3>1
      <4>2. At(s, rva, m + 1) = At(v, rva, m) /\ At(s, rva, n + 1) = At(v, rva, n)
        BY <1>3, <3>1, <4>1
      <4> QED BY <3>1, <4>1, <4>2
    <3>3. /\ v[m] \in body /\ v[m] < rva /\ v[m] \in Int /\ decoded_at(v[m]) # None
          /\ At(v, rva, m + 1) = v[m] + decoded_at(v[m]).size /\ At(v, rva, m + 1) \in body
      <4>1. \A k \in 1..Len(v) :
               /\ v[k] \in body /\ v[k] < rva /\ v[k] \in Int /\ decoded_at(v[k]) # None
               /\ At(v, rva, k + 1) = v[k] + decoded_at(v[k]).size /\ At(v, rva, k + 1) \in body
        BY DEF IsWay
      <4> QED BY <3>1, <4>1
    <3> QED BY <3>2, <3>3
  <2> QED BY <2>1, <2>2
<1> QED BY <1>2, <1>4, <1>5 DEF IsWay, s

LEMMA LineIsTheWay ==
  ASSUME image \in Images, Known, NEW owner \in Nat, NEW rva \in Nat, owner <= rva, OneWayIn(owner, rva),
         \A n \in DOMAIN line_to(owner, rva) :
            LET i == decoded_at(line_to(owner, rva)[n]) IN ~is_jmp(i) /\ ~is_ret(i)
  PROVE  IsWay(line_to(owner, rva), owner, rva, Closure({owner}, Follows))
<1> DEFINE hi   == rva + Span
           body == Closure({owner}, Follows)
           End  == {r \in 0..hi : r >= rva}
           last == [r \in 0..hi |-> <<>>]
           nx   == [r \in 0..hi |-> IF is_decoded(r) THEN r + size_at[r] ELSE r + 1]
           step == [rv \in (0..hi) \X Seq(Int) |-> IF is_decoded(rv[1]) THEN <<rv[1]>> \o rv[2] ELSE rv[2]]
           Body(f, r) == IF r >= rva THEN <<>>
                         ELSE IF is_decoded(r) THEN <<r>> \o f[r + size_at[r]] ELSE f[r + 1]
           line == CHOOSE f : f = [r \in owner..hi |-> Body(f, r)]
<1>1. hi \in Nat /\ rva <= hi /\ Span \in Nat
  BY SpanIsTheEnd
<1>2. line_to(owner, rva) = line[owner]
  BY DEF line_to
<1>3. ASSUME NEW r \in 0..hi, is_decoded(r)
      PROVE  /\ decoded_at(r) # None /\ size_at[r] = decoded_at(r).size
             /\ r + size_at[r] \in (r + 1)..hi
  <2>1. decoded_at(r) # None /\ size_at[r] = decoded_at(r).size
    BY <1>3 DEF Known, is_decoded
  <2>2. size_at[r] \in Nat \ {0} /\ r + size_at[r] <= Span
    BY <2>1, DecodedInside
  <2> QED BY <1>1, <2>1, <2>2
<1> HIDE DEF hi
<1>4. ASSUME NEW r \in 0..hi, ~(r >= rva)
      PROVE  IF is_decoded(r) THEN r + size_at[r] \in (r + 1)..hi ELSE r + 1 \in (r + 1)..hi
  BY <1>1, <1>3, <1>4
<1>5. \A r \in (0..hi) \ End : nx[r] \in (r + 1)..hi
  BY <1>4
<1>6. last \in [0..hi -> Seq(Int)] /\ step \in [(0..hi) \X Seq(Int) -> Seq(Int)]
  <2>1. \A r \in 0..hi : \A v \in Seq(Int) : <<r>> \o v \in Seq(Int)
    BY <1>1
  <2> QED BY <2>1
<1>7. PICK f \in [0..hi -> Seq(Int)] : IsDescent(f, 0, hi, End, last, nx, step)
  <2> HIDE DEF End, last, nx, step
  <2> QED BY <1>1, <1>5, <1>6, DescentExists
<1>8. ASSUME NEW r \in 0..hi PROVE f[r] = Body(f, r)
  <2>1. f[r] = IF r \in End THEN last[r] ELSE step[<<r, f[nx[r]]>>]
    <3> HIDE DEF End, last, nx, step
    <3> QED BY <1>7 DEF IsDescent
  <2>2. CASE r >= rva
    BY <2>1, <2>2
  <2>3. CASE ~(r >= rva)
    <3>1. nx[r] \in 0..hi
      BY <1>1, <1>4, <2>3
    <3> HIDE DEF nx
    <3>2. f[nx[r]] \in Seq(Int)
      BY <1>7, <3>1
    <3>3. f[r] = step[<<r, f[nx[r]]>>]
      BY <2>1, <2>3
    <3>4. f[r] = IF is_decoded(r) THEN <<r>> \o f[nx[r]] ELSE f[nx[r]]
      BY <3>2, <3>3
    <3>5. nx[r] = IF is_decoded(r) THEN r + size_at[r] ELSE r + 1
      BY DEF nx
    <3> QED BY <2>3, <3>4, <3>5
  <2> QED BY <2>2, <2>3
<1> DEFINE h == [r \in owner..hi |-> f[r]]
<1>9. h = [r \in owner..hi |-> Body(h, r)]
  <2>1. ASSUME NEW r \in owner..hi PROVE h[r] = Body(h, r)
    <3>1. r \in 0..hi /\ h[r] = Body(f, r)
      <4>1. r \in 0..hi
        BY <1>1
      <4>2. f[r] = Body(f, r)
        BY <1>8, <4>1
      <4>3. h[r] = f[r]
        OBVIOUS
      <4> HIDE DEF Body, h
      <4> QED BY <4>1, <4>2, <4>3
    <3>2. CASE r >= rva
      BY <3>1, <3>2
    <3>3. CASE ~(r >= rva)
      <4>1. IF is_decoded(r) THEN r + size_at[r] \in owner..hi ELSE r + 1 \in owner..hi
        <5>1. IF is_decoded(r) THEN r + size_at[r] \in (r + 1)..hi ELSE r + 1 \in (r + 1)..hi
          BY <1>4, <3>1, <3>3
        <5>2. \A x \in (r + 1)..hi : x \in owner..hi
          BY <1>1
        <5> QED BY <5>1, <5>2
      <4>2. is_decoded(r) => h[r + size_at[r]] = f[r + size_at[r]]
        BY <4>1
      <4>3. ~is_decoded(r) => h[r + 1] = f[r + 1]
        BY <4>1
      <4> HIDE DEF h
      <4> QED BY <3>1, <3>3, <4>2, <4>3
    <3> QED BY <3>2, <3>3
  <2> QED BY <2>1
<1> HIDE DEF h
<1>10. line = [r \in owner..hi |-> Body(line, r)]
  BY <1>9
<1> HIDE DEF line
<1>11. /\ \A x \in body : x \in owner..(rva - 1) => decoded_at(x) # None /\ is_decoded(x) /\ x + decoded_at(x).size <= rva
       /\ rva \in body /\ owner \in body /\ \A p \in body : \A x \in Follow(p) : x \in body
  <2>1. owner \in Int /\ rva \in Int
    OBVIOUS
  <2> HIDE DEF End, last, nx, step, Body, body
  <2>2. body = Closure({owner}, Follows)
    BY DEF body
  <2>3. /\ \A x \in body : x \in owner..(rva - 1) =>
              decoded_at(x) # None /\ is_decoded(x) /\ x + decoded_at(x).size <= rva
        /\ rva \in body
    BY <2>1, <2>2, OneWay
  <2>4. owner \in body /\ \A p \in body : \A x \in Follow(p) : x \in body
    BY <2>2, BodyIsLedTo
  <2> QED BY <2>3, <2>4
<1> HIDE DEF body
<1> DEFINE Plain(s) == \A n \in DOMAIN s : ~is_jmp(decoded_at(s[n])) /\ ~is_ret(decoded_at(s[n]))
           Lines == {r \in 0..hi : r \in owner..hi => line[r] \in Seq(Int)}
           Good == {r \in 0..hi : r \in owner..rva /\ r \in body /\ Plain(line[r]) => IsWay(line[r], r, rva, body)}
<1>12. ASSUME NEW r \in 0..hi PROVE r \in owner..hi => line[r] \in Seq(Int)
  <2>1. ASSUME NEW x \in 0..hi, \A y \in (x + 1)..hi : y \in Lines, x \in owner..hi PROVE line[x] \in Seq(Int)
    <3>1. line[x] = Body(line, x)
      BY <1>10, <2>1
    <3>2. CASE x >= rva
      BY <3>1, <3>2
    <3>3. CASE ~(x >= rva)
      <4>1. \A y \in (x + 1)..hi : y \in owner..hi /\ line[y] \in Seq(Int)
        BY <1>1, <2>1
      <4>2. IF is_decoded(x) THEN x + size_at[x] \in (x + 1)..hi ELSE x + 1 \in (x + 1)..hi
        BY <1>4, <3>3
      <4>3. IF is_decoded(x) THEN line[x + size_at[x]] \in Seq(Int) ELSE line[x + 1] \in Seq(Int)
        BY <4>1, <4>2
      <4>4. x \in Int
        OBVIOUS
      <4> QED BY <3>1, <3>3, <4>3, <4>4
    <3> QED BY <3>2, <3>3
  <2>2. \A x \in 0..hi : (\A y \in (x + 1)..hi : y \in Lines) => x \in Lines
    BY <2>1
  <2> HIDE DEF Lines
  <2>3. \A x \in 0..hi : x \in Lines
    BY <1>1, <2>2, DescentInduction
  <2> QED BY <2>3 DEF Lines
<1>13. ASSUME NEW r \in 0..hi, \A x \in (r + 1)..hi : x \in Good, r \in owner..rva, r \in body, Plain(line[r])
       PROVE  IsWay(line[r], r, rva, body)
  <2>1. line[r] = Body(line, r)
    <3>1. r \in owner..hi
      BY <1>1, <1>13
    <3> QED BY <1>10, <3>1
  <2>2. CASE r >= rva
    <3>1. r = rva /\ line[r] = <<>>
      BY <1>13, <2>1, <2>2
    <3>2. <<>> \in Seq(Int) /\ Len(<<>>) = 0
      OBVIOUS
    <3>3. IsWay(<<>>, rva, rva, body)
      BY <3>2 DEF IsWay, At
    <3> QED BY <3>1, <3>2, <3>3
  <2>3. CASE ~(r >= rva)
    <3> DEFINE n == r + size_at[r]
               v == line[n]
    <3>1. r \in owner..(rva - 1) /\ r \in Int /\ r < rva
      BY <1>13, <2>3
    <3>2. decoded_at(r) # None /\ is_decoded(r) /\ size_at[r] = decoded_at(r).size /\ n \in (r + 1)..hi /\ n <= rva
      <4>1. decoded_at(r) # None /\ is_decoded(r) /\ r + decoded_at(r).size <= rva
        BY <1>11, <1>13, <3>1
      <4> QED BY <1>3, <4>1
    <3>3. line[r] = <<r>> \o v
      BY <2>1, <2>3, <3>2
    <3> HIDE DEF v
    <3>4. n \in owner..rva /\ n \in Int
      <4> HIDE DEF n
      <4> QED BY <3>1, <3>2
    <3>5. v \in Seq(Int)
      <4>1. n \in 0..hi /\ n \in owner..hi
        <5> HIDE DEF n
        <5> QED BY <1>1, <3>1, <3>2, <3>4
      <4> QED BY <1>12, <4>1 DEF v
    <3>6. Plain(v) /\ ~is_jmp(decoded_at(r)) /\ ~is_ret(decoded_at(r))
      <4>1. ASSUME NEW k \in DOMAIN v PROVE ~is_jmp(decoded_at(v[k])) /\ ~is_ret(decoded_at(v[k]))
        <5>1. k + 1 \in DOMAIN line[r] /\ line[r][k + 1] = v[k]
          <6>1. v \in Seq(Int) /\ k \in 1..Len(v) /\ r \in Int
            BY <3>1, <3>5
          <6> HIDE DEF Plain
          <6>2. k + 1 \in 1..Len(<<r>> \o v) /\ (<<r>> \o v)[k + 1] = v[k]
            BY <6>1
          <6>3. DOMAIN (<<r>> \o v) = 1..Len(<<r>> \o v)
            BY <6>1
          <6> QED BY <3>3, <6>2, <6>3
        <5>2. ~is_jmp(decoded_at(line[r][k + 1])) /\ ~is_ret(decoded_at(line[r][k + 1]))
          BY <1>13, <5>1
        <5> QED BY <5>1, <5>2
      <4>2. 1 \in DOMAIN line[r] /\ line[r][1] = r
        BY <3>1, <3>3, <3>5
      <4> QED BY <1>13, <4>1, <4>2
    <3>7. r + decoded_at(r).size \in body
      <4>1. r + decoded_at(r).size \in Follow(r)
        BY <3>2, <3>6 DEF Follow, is_jmp, is_ret
      <4> QED BY <1>11, <1>13, <4>1
    <3>8. n \in Good
      <4>1. n \in (r + 1)..hi
        BY <3>2
      <4> HIDE DEF n, Good
      <4> QED BY <1>13, <4>1
    <3>9. IsWay(v, n, rva, body)
      <4>1. n \in body
        BY <3>2, <3>7
      <4> HIDE DEF n
      <4> QED BY <3>4, <3>6, <3>8, <4>1 DEF v
    <3>10. IsWay(v, r + decoded_at(r).size, rva, body)
      BY <3>2, <3>9
    <3> HIDE DEF n, Good, Lines, Plain
    <3>11. rva \in Int
      OBVIOUS
    <3>12. IsWay(<<r>> \o v, r, rva, body)
      BY <1>13, <3>1, <3>2, <3>7, <3>10, <3>11, WayGrows
    <3> QED BY <3>3, <3>12
  <2> QED BY <2>2, <2>3
<1>14. \A r \in 0..hi : r \in Good
  <2>1. \A r \in 0..hi : (\A x \in (r + 1)..hi : x \in Good) => r \in Good
    BY <1>13
  <2> HIDE DEF Good
  <2> QED BY <1>1, <2>1, DescentInduction
<1>15. owner \in 0..hi /\ owner \in owner..rva /\ owner \in body
  BY <1>1, <1>11
<1>16. Plain(line[owner])
  BY <1>2
<1>17. IsWay(line[owner], owner, rva, body)
  BY <1>14, <1>15, <1>16
<1> QED BY <1>2, <1>17 DEF body

(* What leads to one more, or to nothing.                                  *)
LEMMA ClosureUnfolds ==
  ASSUME NEW next, IsFiniteSet(DOMAIN next), NEW a \in DOMAIN next
  PROVE  /\ next[a] = {} => Closure({a}, next) = {a}
         /\ \A b : next[a] = {b} => Closure({a}, next) = {a} \cup Closure({b}, next)
<1> DEFINE C(x) == Closure({x}, next)
<1>1. \A x : /\ {x} \subseteq C(x) /\ ClosedUnder(C(x), next)
             /\ \A H : {x} \subseteq H /\ ClosedUnder(H, next) => C(x) \subseteq H
  BY ClosureIsLeast
<1> HIDE DEF C
<1>2. ASSUME next[a] = {} PROVE C(a) = {a}
  <2>1. ClosedUnder({a}, next)
    BY <1>2 DEF ClosedUnder
  <2> QED BY <1>1, <2>1
<1>3. ASSUME NEW b, next[a] = {b} PROVE C(a) = {a} \cup C(b)
  <2>1. ClosedUnder({a} \cup C(b), next)
    BY <1>1, <1>3 DEF ClosedUnder
  <2>2. C(a) \subseteq {a} \cup C(b)
    BY <1>1, <2>1
  <2>3. b \in C(a)
    BY <1>1, <1>3 DEF ClosedUnder
  <2>4. C(b) \subseteq C(a)
    BY <1>1, <2>3
  <2> QED BY <1>1, <2>2, <2>4
<1> QED BY <1>2, <1>3 DEF C

(* Where there is one way in, the value of a register comes from the       *)
(* instruction before, or through it.                                      *)
LEMMA OriginsStep ==
  ASSUME image \in Images, Known, NEW owner \in Nat, NEW rva \in RVAs, OneWayIn(owner, rva),
         NEW p \in Closure({owner}, Follows), NEW x \in Follow(p), x \in owner..rva, NEW r \in Regs
  PROVE  /\ Copied(p, r) = {} => Origins(owner, x, r) = {p}
         /\ \A c : Copied(p, r) = {c} => Origins(owner, x, r) = Origins(owner, p, c)
<1> DEFINE body     == Closure({owner}, Follows)
           asked(q) == Closure({q}, Back(body))
           back     == Back(body)
           Here(q)  == {b \in body : q[1] \in Follow(b) /\ Copied(b, q[2]) = {}}
           From(y, s) == {b \in body : \E q \in asked(<<y, s>>) : q[1] \in Follow(b) /\ Copied(b, q[2]) = {}}
                            \cup {None : q \in {q \in asked(<<y, s>>) : q[1] = owner}}
<1>1. Span \in Nat /\ owner \in Int /\ rva \in Int
  BY SpanIsTheEnd DEF RVAs
<1>2. /\ p \in owner..(rva - 1) /\ x = p + decoded_at(p).size /\ p < x
      /\ \A q \in body : x \in Follow(q) => q = p
  <2>1. x \in body
    BY BodyIsLedTo
  <2> QED BY <1>1, <2>1, OneWay
<1>3. x \in RVAs /\ x # owner
  BY <1>1, <1>2 DEF RVAs
<1>4. DOMAIN back = RVAs \X Regs /\ IsFiniteSet(DOMAIN back)
  <2>1. IsFiniteSet(RVAs)
    <3>1. 0 \in Int /\ Span - 1 \in Int
      BY <1>1
    <3> QED BY <3>1, FS_Interval DEF RVAs
  <2>2. IsFiniteSet(RVAs \X Regs)
    BY <2>1, FS_Product, RegisterAssumption
  <2>3. DOMAIN back = RVAs \X Regs
    BY DEF Back
  <2> QED BY <2>2, <2>3
<1>5. \A y, s : Origins(owner, y, s) = From(y, s)
  BY DEF Origins
<1>6. back[<<x, r>>] = {<<p, c>> : c \in Copied(p, r)}
  <2>1. <<x, r>> \in RVAs \X Regs
    BY <1>3
  <2>2. back[<<x, r>>] = UNION {{<<b, c>> : c \in Copied(b, r)} : b \in {b \in body : x \in Follow(b)}}
    BY <2>1 DEF Back
  <2>3. {b \in body : x \in Follow(b)} = {p}
    <3>1. p \in body /\ x \in Follow(p)
      OBVIOUS
    <3>2. \A q \in body : x \in Follow(q) => q = p
      BY <1>2
    <3> HIDE DEF body, asked, back, Here, From
    <3> QED BY <3>1, <3>2
  <2> HIDE DEF body, asked, back, Here, From
  <2>4. {{<<b, c>> : c \in Copied(b, r)} : b \in {b \in body : x \in Follow(b)}}
          = {{<<p, c>> : c \in Copied(p, r)}}
    BY <2>3
  <2> QED BY <2>2, <2>4
<1>7. <<x, r>> \in DOMAIN back
  BY <1>3, <1>4
<1> HIDE DEF back, body
<1>8. ASSUME Copied(p, r) = {} PROVE From(x, r) = {p}
  <2>1. back[<<x, r>>] = {}
    BY <1>6, <1>8
  <2>2. asked(<<x, r>>) = {<<x, r>>}
    BY <1>4, <1>7, <2>1, ClosureUnfolds DEF back
  <2> HIDE DEF asked
  <2>3. p \in body /\ x \in Follow(p)
    BY DEF body
  <2> DEFINE Q == asked(<<x, r>>)
  <2>4. {b \in body : \E q \in Q : q[1] \in Follow(b) /\ Copied(b, q[2]) = {}} = {p}
    <3>1. \A q \in Q : q[1] = x /\ q[2] = r
      BY <2>2
    <3>2. \E q \in Q : q[1] = x /\ q[2] = r
      BY <2>2
    <3> HIDE DEF Q
    <3> QED BY <1>2, <1>8, <2>3, <3>1, <3>2
  <2>5. {None : q \in {q \in Q : q[1] = owner}} = {}
    <3>1. \A q \in Q : q[1] # owner
      BY <1>3, <2>2
    <3> HIDE DEF Q
    <3> QED BY <3>1
  <2> QED BY <2>4, <2>5
<1>9. ASSUME NEW c, Copied(p, r) = {c} PROVE From(x, r) = From(p, c)
  <2>1. back[<<x, r>>] = {<<p, c>>}
    BY <1>6, <1>9
  <2>2. asked(<<x, r>>) = {<<x, r>>} \cup asked(<<p, c>>)
    BY <1>4, <1>7, <2>1, ClosureUnfolds DEF back
  <2> HIDE DEF asked
  <2> DEFINE A == asked(<<p, c>>)
             Q == asked(<<x, r>>)
  <2>3. {b \in body : \E q \in Q : q[1] \in Follow(b) /\ Copied(b, q[2]) = {}}
          = {b \in body : \E q \in A : q[1] \in Follow(b) /\ Copied(b, q[2]) = {}}
    <3>1. \A b \in body : ~(x \in Follow(b) /\ Copied(b, r) = {})
      BY <1>2, <1>9
    <3>2. Q = {<<x, r>>} \cup A
      BY <2>2
    <3> HIDE DEF Q, A
    <3>3. \A b \in body : (\E q \in Q : q[1] \in Follow(b) /\ Copied(b, q[2]) = {})
                             <=> \E q \in A : q[1] \in Follow(b) /\ Copied(b, q[2]) = {}
      BY <3>1, <3>2
    <3> QED BY <3>3
  <2>4. {q \in Q : q[1] = owner} = {q \in A : q[1] = owner}
    BY <1>3, <2>2
  <2> QED BY <2>3, <2>4
<1> HIDE DEF From
<1> QED BY <1>5, <1>8, <1>9

(* What an instruction does to the facts, a register at a time.            *)
LEMMA NoteOf ==
  ASSUME image \in Images, NEW facts \in NotedFacts, NEW p \in Int, decoded_at(p) # None,
         NEW r \in Regs, r \in DOMAIN apply(facts, p), determined(apply(facts, p)[r])
  PROVE  \/ Copied(p, r) = {} /\ apply(facts, p)[r].source = p
         \/ \E c \in Regs : /\ Copied(p, r) = {c} /\ c \in DOMAIN facts
                            /\ apply(facts, p)[r] = facts[c]
<1> DEFINE i == decoded_at(p)
           w == written_register(i)
           after == apply(facts, p)
           from == i.ops[2]
<1>1. i = image.code[p] /\ p \in DOMAIN image.code
  BY DEF decoded_at
<1>2. DOMAIN i.ops = 1..Len(i.ops)
  BY DecodedInside
<1>3. i.op \in {"mov", "lea", "add"} => 2 \in DOMAIN i.ops
  <2> SUFFICES ASSUME i.op \in {"mov", "lea", "add"} PROVE 2 \in DOMAIN i.ops
    OBVIOUS
  <2>1. Len(i.ops) = 2
    BY <1>1, OperandAssumption
  <2> HIDE DEF i
  <2>2. DOMAIN i.ops = 1..2
    BY <1>2, <2>1
  <2> QED BY <2>2
<1>4. 2 \in DOMAIN i.ops => /\ from.kind \in {"imm", "reg", "mem"}
                            /\ from.kind = "reg" => from.reg \in Regs
  <2> HIDE DEF i
  <2>1. \A n \in DOMAIN i.ops : i.ops[n].kind \in {"imm", "reg", "mem"}
    <3> SUFFICES ASSUME NEW n \in DOMAIN i.ops PROVE i.ops[n].kind \in {"imm", "reg", "mem"}
      OBVIOUS
    <3> QED BY <1>1, OperandAssumption
  <2>2. 2 \in DOMAIN i.ops /\ from.kind = "reg" => from.reg \in Regs
    BY <1>1, RegisterAssumption
  <2> QED BY <2>1, <2>2
<1>5. Copied(p, r) = IF ~is_call(i) /\ w # r THEN {r}
                     ELSE IF i.op = "mov" /\ from.kind = "reg" THEN {from.reg} ELSE {}
  BY DEF Copied
<1>6. after = IF is_call(i) THEN [x \in {"eax"} |-> Fact("returned_by_call", p)]
              ELSE IF w = None THEN facts ELSE Put(facts, w, written_by(i, p, facts))
  BY DEF apply
<1>7. r # None
  BY RegisterAssumption
<1>8. r \in DOMAIN after /\ determined(after[r])
  OBVIOUS
<1>9. w # None => i.op \in {"mov", "lea", "add"}
  BY DEF written_register
<1> HIDE DEF after, w, i
<1>10. CASE is_call(i)
  <2>1. Copied(p, r) = {}
    BY <1>5, <1>10 DEF is_call
  <2>2. after[r] = Fact("returned_by_call", p)
    BY <1>6, <1>8, <1>10
  <2> QED BY <2>1, <2>2 DEF Fact, after
<1>11. CASE ~is_call(i) /\ w # r
  <2>1. Copied(p, r) = {r}
    BY <1>5, <1>11
  <2>2. r \in DOMAIN facts /\ after[r] = facts[r]
    <3>1. CASE w = None
      BY <1>6, <1>8, <1>11, <3>1
    <3>2. CASE w # None
      <4>1. after = Put(facts, w, written_by(i, p, facts))
        BY <1>6, <1>11, <3>2
      <4> QED BY <1>8, <1>11, <4>1 DEF Put
    <3> QED BY <3>1, <3>2
  <2> QED BY <2>1, <2>2 DEF after
<1>12. CASE ~is_call(i) /\ w = r
  <2>1. i.op \in {"mov", "lea", "add"} /\ from.kind \in {"imm", "reg", "mem"}
        /\ (from.kind = "reg" => from.reg \in Regs)
    BY <1>3, <1>4, <1>7, <1>9, <1>12
  <2>2. Copied(p, r) = IF i.op = "mov" /\ from.kind = "reg" THEN {from.reg} ELSE {}
    BY <1>5, <1>12
  <2>3. after[r] = written_by(i, p, facts)
    <3>1. after = Put(facts, r, written_by(i, p, facts))
      BY <1>6, <1>7, <1>12
    <3> QED BY <3>1 DEF Put
  <2>4. determined(written_by(i, p, facts))
    BY <1>8, <2>3
  <2> DEFINE v == written_by(i, p, facts)
  <2>5. \A f : Fact(f, p).fact = f /\ Fact(f, p).source = p
    BY DEF Fact
  <2>6. CASE i.op = "mov" /\ from.kind = "reg"
    <3>1. v = IF from.reg \in DOMAIN facts /\ facts[from.reg].fact # "unknown" THEN facts[from.reg]
              ELSE Fact("moved_from_register", p)
      BY <2>6 DEF written_by
    <3>2. v # Fact("moved_from_register", p)
      BY <2>4, <2>5 DEF determined, DeterminedFacts
    <3>3. from.reg \in DOMAIN facts /\ v = facts[from.reg]
      BY <3>1, <3>2
    <3>4. Copied(p, r) = {from.reg} /\ from.reg \in Regs
      BY <2>1, <2>2, <2>6
    <3> QED BY <2>3, <3>3, <3>4 DEF after
  <2>7. CASE ~(i.op = "mov" /\ from.kind = "reg")
    <3>1. v.source = p
      <4>1. CASE i.op = "add"
        <5>1. v = Fact("unknown", p)
          BY <4>1 DEF written_by
        <5> QED BY <2>5, <5>1
      <4>2. CASE i.op = "lea"
        <5>1. v = Fact(IF from.base = None /\ from.index = None THEN "constant" ELSE "unknown", p)
          BY <4>2 DEF written_by
        <5> QED BY <2>5, <5>1
      <4>3. CASE i.op = "mov" /\ from.kind = "imm"
        <5>1. v = Fact("constant", p)
          BY <4>3 DEF written_by
        <5> QED BY <2>5, <5>1
      <4>4. CASE i.op = "mov" /\ from.kind = "mem"
        <5>1. v = Fact(IF from.base \in StackRegs THEN "loaded_from_stack" ELSE "loaded_from_slot", p)
          BY <4>4 DEF written_by
        <5> QED BY <2>5, <5>1
      <4> QED BY <2>1, <2>7, <4>1, <4>2, <4>3, <4>4
    <3> QED BY <2>2, <2>3, <2>7, <3>1 DEF after
  <2> QED BY <2>6, <2>7
<1> QED BY <1>10, <1>11, <1>12

(* A note that is called determined names where the value comes from.      *)
LEMMA ReceiverHolds ==
  ASSUME image \in Images, Known, CoverInv, StartsMapped,
         NEW rva \in DOMAIN claimed, NEW reg \in Regs, determined(receiver_of(rva, reg)),
         OneWayIn(function_of(rva), rva)
  PROVE  Origins(function_of(rva), rva, reg) = {receiver_of(rva, reg).source}
<1> DEFINE owner == function_of(rva)
           body  == Closure({owner}, Follows)
           s     == line_to(owner, rva)
           N     == Len(s)
           at(n) == At(s, rva, n + 1)
<1>1. decoded_at(rva) # None /\ rva \in RVAs /\ rva \in Nat
  <2>1. decoded_at(rva) # None
    BY DEF Known
  <2>2. Span \in Nat /\ rva \in 0..(Span - 1)
    BY <2>1, DecodedInside
  <2> QED BY <2>1, <2>2 DEF RVAs
<1>2. ~(owner = None \/ \E n \in DOMAIN s : is_jmp(decoded_at(s[n])) \/ is_ret(decoded_at(s[n])))
  BY DEF receiver_of, determined, DeterminedFacts, Fact
<1>3. /\ reg \in DOMAIN FoldLeft(apply, Empty, s)
      /\ receiver_of(rva, reg) = FoldLeft(apply, Empty, s)[reg]
  BY <1>2 DEF receiver_of, determined, DeterminedFacts, Fact
<1>4. owner \in Nat /\ owner <= rva
  <2>1. Span \in Nat /\ starts \in SUBSET (0..Span)
    BY StartsInside
  <2>2. owner = containing(rva)
    <3> HIDE DEF s
    <3>1. owner = owner_of(rva).owner /\ owner_of(rva).kind \in OwnedKinds
      BY <1>2 DEF function_of
    <3>2. rva \in Int
      BY <1>1
    <3> HIDE DEF owner
    <3>3. KindOf(rva) \in OwnedKinds
      BY <3>1, <3>2, OwnerIs
    <3> QED BY <3>1, <3>2, <3>3, OwnerIs
  <2>3. owner # None /\ rva \in Int
    BY <1>1, <1>2
  <2> HIDE DEF owner, s
  <2>4. owner = AtOrBefore(starts, rva)
    BY <2>2 DEF containing
  <2>5. owner \in starts /\ owner <= rva
    BY <2>1, <2>3, <2>4, AtOrBeforeIsGreatest
  <2> QED BY <2>1, <2>5
<1> HIDE DEF owner
<1>5. IsWay(s, owner, rva, body)
  BY <1>1, <1>2, <1>4, LineIsTheWay DEF owner
<1>6. /\ s \in Seq(Int) /\ N \in Nat /\ DOMAIN s = 1..N /\ at(0) = owner
      /\ \A n \in 1..N : /\ s[n] \in body /\ s[n] < rva /\ s[n] \in Int /\ decoded_at(s[n]) # None
                         /\ at(n) = s[n] + decoded_at(s[n]).size /\ at(n) \in body
      /\ \A n \in 1..N : at(n - 1) = s[n]
      /\ at(N) = rva
  <2>1. s \in Seq(Int) /\ At(s, rva, 1) = owner
    BY <1>5 DEF IsWay
  <2>2. N \in Nat /\ DOMAIN s = 1..N
    BY <2>1
  <2>3. \A n \in 1..N : /\ s[n] \in body /\ s[n] < rva /\ s[n] \in Int /\ decoded_at(s[n]) # None
                        /\ at(n) = s[n] + decoded_at(s[n]).size /\ at(n) \in body
    BY <1>5 DEF IsWay
  <2> HIDE DEF s
  <2>4. \A n \in 1..N : at(n - 1) = s[n]
    <3> SUFFICES ASSUME NEW n \in 1..N PROVE at(n - 1) = s[n]
      OBVIOUS
    <3>1. (n - 1) + 1 = n /\ n <= N
      BY <2>2
    <3> QED BY <3>1 DEF At
  <2>5. at(N) = rva
    BY <2>2 DEF At
  <2>6. at(0) = owner
    BY <2>1
  <2> QED BY <2>1, <2>2, <2>3, <2>4, <2>5, <2>6
<1>7. PICK h : /\ h[0] = Empty
               /\ \A n \in 1..N : h[n] = apply(h[n - 1], s[n])
               /\ h[N] = FoldLeft(apply, Empty, s)
  BY <1>6, FactsAreFolded
<1> HIDE DEF s, at
<1> DEFINE Told(n) == \A r \in DOMAIN h[n] : r \in Regs /\ determined(h[n][r]) =>
                          Origins(owner, at(n), r) = {h[n][r].source}
           Good == {n \in Nat : n <= N => h[n] \in NotedFacts /\ Told(n) /\ owner <= at(n)}
<1>8. 0 \in Good
  <2>1. Empty \in [{} -> Notes] /\ DOMAIN Empty = {}
    BY DEF Empty
  <2>2. h[0] \in NotedFacts
    BY <1>7, <2>1 DEF NotedFacts
  <2> QED BY <1>4, <1>6, <1>7, <2>1, <2>2
<1>9. ASSUME NEW m \in Nat, m \in Good, m + 1 <= N
      PROVE  h[m + 1] \in NotedFacts /\ Told(m + 1) /\ owner <= at(m + 1)
  <2> DEFINE n == m + 1
             p == s[n]
             x == at(n)
  <2>1. n \in 1..N /\ n - 1 = m /\ m <= N
    BY <1>6, <1>9
  <2> HIDE DEF n
  <2>2. /\ p \in body /\ p < rva /\ p \in Int /\ decoded_at(p) # None
        /\ x = p + decoded_at(p).size /\ x \in body /\ at(m) = p
    BY <1>6, <2>1
  <2>3. h[m] \in NotedFacts /\ Told(m) /\ owner <= p
    BY <1>9, <2>1, <2>2
  <2>4. h[n] = apply(h[m], p)
    BY <1>7, <2>1
  <2> HIDE DEF p, x
  <2>5. decoded_at(p).size \in Nat \ {0}
    BY <2>2, DecodedInside
  <2>6. x \in Follow(p)
    <3>1. ~is_jmp(decoded_at(p)) /\ ~is_ret(decoded_at(p))
      BY <1>2, <1>6, <2>1 DEF p, s
    <3> QED BY <2>2, <3>1 DEF Follow, is_jmp, is_ret
  <2>7. x \in owner..rva
    <3>1. owner \in Int /\ rva \in Int
      BY <1>1, <1>4
    <3>2. p \in owner..(rva - 1)
      BY <2>2, <2>3, <3>1
    <3>3. p + decoded_at(p).size <= rva
      BY <2>2, <3>1, <3>2, OneWay DEF owner
    <3> QED BY <2>2, <2>3, <2>5, <3>1, <3>3
  <2>8. h[n] \in NotedFacts
    BY <2>2, <2>3, <2>4, ApplyNotes
  <2>9. ASSUME NEW r \in DOMAIN h[n], r \in Regs, determined(h[n][r])
        PROVE  Origins(owner, x, r) = {h[n][r].source}
    <3>1. /\ Copied(p, r) = {} => Origins(owner, x, r) = {p}
          /\ \A c : Copied(p, r) = {c} => Origins(owner, x, r) = Origins(owner, p, c)
      BY <1>1, <1>4, <2>2, <2>6, <2>7, <2>9, OriginsStep DEF owner
    <3>2. \/ Copied(p, r) = {} /\ h[n][r].source = p
          \/ \E c \in Regs : Copied(p, r) = {c} /\ c \in DOMAIN h[m] /\ h[n][r] = h[m][c]
      BY <2>2, <2>3, <2>4, <2>9, NoteOf
    <3>3. CASE Copied(p, r) = {} /\ h[n][r].source = p
      BY <3>1, <3>3
    <3>4. ASSUME NEW c \in Regs, Copied(p, r) = {c}, c \in DOMAIN h[m], h[n][r] = h[m][c]
          PROVE  Origins(owner, x, r) = {h[n][r].source}
      <4>1. Origins(owner, p, c) = {h[m][c].source}
        BY <2>2, <2>3, <2>9, <3>4
      <4> QED BY <3>1, <3>4, <4>1
    <3> QED BY <3>2, <3>3, <3>4
  <2>10. owner <= x
    BY <2>7
  <2> QED BY <2>8, <2>9, <2>10 DEF n, x
<1>10. N \in Good
  <2>1. \A m \in Nat : m \in Good => m + 1 \in Good
    <3> SUFFICES ASSUME NEW m \in Nat, m \in Good PROVE m + 1 \in Good
      OBVIOUS
    <3> HIDE DEF Told
    <3> QED BY <1>9
  <2> HIDE DEF Good
  <2> QED BY <1>6, <1>8, <2>1, Induction
<1>11. Told(N)
  BY <1>6, <1>10
<1> QED BY <1>3, <1>6, <1>7, <1>11 DEF owner, s

(* Along a line that is the only way, the instruction a note names is the  *)
(* one that gave the register its value.                                   *)
THEOREM ReceiversAreTold == Spec => []ReceiverTrue
<1> DEFINE Inv == ScanInv /\ NeverBackwards /\ Known /\ CoverInv /\ StartsMapped
<1>1. Init => Inv
  <2> SUFFICES ASSUME Init PROVE Inv
    OBVIOUS
  <2>1. DOMAIN size_at = {} /\ DOMAIN claimed = {} /\ indirect_sites = {} /\ starts = {}
    BY DEF Init, AInit, Empty
  <2> QED BY <2>1, CoverInit DEF Init, ScanInv, NeverBackwards, Known, StartsMapped
<1>2. AskedWhenDone /\ SweepInv /\ Inv /\ [Next]_vars => (AskedWhenDone /\ SweepInv /\ Inv)'
  BY SweepStep, QuestionsComeLast, ScanHolds, NeverBackwardsStep, KnownStep, CoverStep, StartsMappedStep
     DEF SweepInv
<1>3. SweepInv /\ Inv => ReceiverTrue
  <2> SUFFICES ASSUME image \in Images, Known, CoverInv, StartsMapped PROVE ReceiverTrue
    BY DEF SweepInv, Phases
  <2> SUFFICES ASSUME NEW rva \in DOMAIN claimed, NEW reg \in Receivers,
                      determined(receiver_of(rva, reg)), OneWayIn(function_of(rva), rva)
               PROVE  Origins(function_of(rva), rva, reg) = {receiver_of(rva, reg).source}
    BY DEF ReceiverTrue
  <2> QED BY ReceiverHolds, RegisterAssumption
<1> QED BY <1>1, <1>2, <1>3, SweepInit, PTL DEF Spec

=============================================================================
