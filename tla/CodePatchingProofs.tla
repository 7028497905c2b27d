------------------------- MODULE CodePatchingProofs -------------------------
(* Theorems about CodePatching, for every value of its constants.          *)
EXTENDS CodePatching, TLAPS

(* Type correctness, whatever the client does and whatever fails. *)
LEMMA TypeInit == Init => TypeOK
BY ModeAssumption DEF Init, TypeOK, Content, Empty

\* Making a detour keeps the records well typed.
LEMMA TypeMake ==
    ASSUME TypeOK, counter < MaxHooks, NEW kind \in Kinds, NEW s \in Sites, Make(kind, s)
    PROVE  /\ counter' = counter + 1 /\ counter' \in 0..MaxHooks
           /\ 1..counter \subseteq 1..counter' /\ counter' \in 1..counter'
           /\ counter' \in Hooks
           /\ DOMAIN made' = 1..counter'
           /\ \A h \in 1..counter' : \E x \in Sites :
                 made'[h] \in [kind : Kinds, site : {x}, saved : [Covers[x] -> Content]]
           /\ made'[counter'] = [kind |-> kind, site |-> s, saved |-> Saved(s)]
           /\ \A h \in 1..counter : made'[h] = made[h]
<1> USE ModeAssumption, CoversAssumption DEF TypeOK, Make, Put
<1>1. /\ counter' = counter + 1 /\ counter' \in 0..MaxHooks
      /\ 1..counter \subseteq 1..counter' /\ counter' \in 1..counter'
    OBVIOUS
<1>2. DOMAIN made' = 1..counter'
    BY <1>1
<1>3. made'[counter'] = [kind |-> kind, site |-> s, saved |-> Saved(s)]
    BY <1>1
<1>4. \A h \in 1..counter : made'[h] = made[h]
    BY <1>1
<1>5. Saved(s) \in [Covers[s] -> Content]
    BY DEF Saved
<1>6. ASSUME NEW h \in 1..counter'
      PROVE \E x \in Sites :
               made'[h] \in [kind : Kinds, site : {x}, saved : [Covers[x] -> Content]]
    <2>0. h = counter' \/ h \in 1..counter
        BY <1>1
    <2>1. CASE h = counter'
        BY <2>1, <1>3, <1>5
    <2>2. CASE h \in 1..counter
        BY <2>2, <1>4
    <2>3. QED
        BY <2>0, <2>1, <2>2
<1>7. counter' \in Hooks
    BY <1>1 DEF Hooks
<1>8. QED
    BY <1>1, <1>2, <1>3, <1>4, <1>6, <1>7

LEMMA TypeJump ==
    ASSUME TypeOK, NEW s \in Sites, NEW h \in Hooks
    PROVE  Jump(s, h) \in [Addrs -> Content]
BY DEF TypeOK, Jump, Content

LEMMA TypeHalfway ==
    ASSUME TypeOK, NEW s \in Sites, NEW h \in Hooks, NEW mem \in Halfway(s, h)
    PROVE  mem \in [Addrs -> Content]
BY TypeJump DEF TypeOK, Halfway, Content

LEMMA TypeUnpatched ==
    ASSUME TypeOK, NEW h \in 1..counter
    PROVE  Unpatched(h) \in [Addrs -> Content]
<1>1. PICK s \in Sites : made[h] \in [kind : Kinds, site : {s}, saved : [Covers[s] -> Content]]
    BY DEF TypeOK
<1>2. DOMAIN made[h].saved = Covers[s] /\ \A a \in Covers[s] : made[h].saved[a] \in Content
    BY <1>1
<1>3. QED
    BY <1>2 DEF TypeOK, Unpatched

LEMMA TypeTarget == TypeOK /\ TargetStep => TypeOK'
<1> SUFFICES ASSUME TypeOK, NEW t \in Threads,
                    Execute(t) \/ Detour(t) \/ CallOriginal(t) \/ HookReturns(t)
             PROVE  TypeOK'
    BY DEF TargetStep
<1> USE ModeAssumption DEF TypeOK, managed
<1>1. CASE Execute(t)
    <2>1. loc' \in [Threads -> Addrs]
        BY <1>1, CodeAssumption DEF Execute
    <2>2. frames' \in [Threads -> SUBSET (1..counter)]
        <3>1. \/ frames' = frames
              \/ \E left \in SUBSET frames[t] : frames' = [frames EXCEPT ![t] = left]
            <4>1. \/ frames' = frames
                  \/ \E h \in frames[t] : \E left \in {frames[t], frames[t] \ {h}} :
                        frames' = [frames EXCEPT ![t] = left]
                BY <1>1 DEF Execute
            <4>2. \A h \in frames[t] : {frames[t], frames[t] \ {h}} \subseteq SUBSET frames[t]
                OBVIOUS
            <4>3. QED
                BY <4>1, <4>2
        <3>2. QED
            BY <3>1
    <2>3. \/ UNCHANGED <<where, via>>
          \/ MoveTo(t, "code", 0)
          \/ \E h \in 1..counter : MoveTo(t, "after", h)
        BY <1>1 DEF Execute
    <2>4. /\ where' \in [Threads -> {"code", "entry", "copy", "after"}]
          /\ via' \in [Threads -> 0..counter]
          /\ \A u \in Threads : where'[u] = "code" <=> via'[u] = 0
        <3>1. CASE UNCHANGED <<where, via>>
            BY <3>1
        <3>2. CASE MoveTo(t, "code", 0)
            BY <3>2 DEF MoveTo
        <3>3. ASSUME NEW h \in 1..counter, MoveTo(t, "after", h)
              PROVE  /\ where' \in [Threads -> {"code", "entry", "copy", "after"}]
                     /\ via' \in [Threads -> 0..counter]
                     /\ \A u \in Threads : where'[u] = "code" <=> via'[u] = 0
            BY <3>3 DEF MoveTo
        <3>4. QED
            BY <2>3, <3>1, <3>2, <3>3
    <2>5. UNCHANGED <<code, region, managed>>
        BY <1>1 DEF Execute
    <2>6. QED
        BY <2>1, <2>2, <2>4, <2>5
<1>2. CASE Detour(t)
    BY <1>2 DEF Detour, MoveTo
<1>3. CASE CallOriginal(t)
    <2>1. where[t] # "code"
        BY <1>3 DEF CallOriginal
    <2>2. QED
        BY <1>3 DEF CallOriginal
<1>4. CASE HookReturns(t)
    BY <1>4 DEF HookReturns, MoveTo
<1>5. QED
    BY <1>1, <1>2, <1>3, <1>4

LEMMA TypeClient == TypeOK /\ ClientStep => TypeOK'
<1> SUFFICES ASSUME TypeOK, NEW s \in Sites,
                    \/ SetInline(s) \/ SetInlineFails(s) \/ RestoreInline(s)
                    \/ Install(s) \/ InstallFails(s) \/ RestoreProbe(s)
             PROVE  TypeOK'
    BY DEF ClientStep
<1> USE ModeAssumption DEF Put, Drop, Kinds, threads, Free
<1>a. counter \in Nat
    BY DEF TypeOK
\* Whatever an action does to the code and the records, the threads stay.
<1>b. ASSUME counter' = counter \/ counter' = counter + 1, UNCHANGED threads
      PROVE  /\ loc' \in [Threads -> Addrs]
             /\ where' \in [Threads -> {"code", "entry", "copy", "after"}]
             /\ via' \in [Threads -> 0..counter']
             /\ \A t \in Threads : where'[t] = "code" <=> via'[t] = 0
             /\ frames' \in [Threads -> SUBSET (1..counter')]
    BY <1>a, <1>b DEF TypeOK
<1> DEFINE Grown == /\ counter' = counter + 1 /\ counter' \in 0..MaxHooks
                    /\ 1..counter \subseteq 1..counter' /\ counter + 1 \in 1..counter'
                    /\ DOMAIN made' = 1..counter'
                    /\ \A h \in 1..counter' : \E x \in Sites :
                          made'[h] \in [kind : Kinds, site : {x}, saved : [Covers[x] -> Content]]
<1>c. ASSUME NEW kind \in Kinds, counter < MaxHooks, Make(kind, s)
      PROVE  Grown
    BY <1>c, TypeMake
<1> HIDE DEF Grown
<1>1. CASE SetInline(s)
    <2>1. counter < MaxHooks /\ Make("inline", s)
        BY <1>1 DEF SetInline, MayPatch
    <2>2. code' \in [Addrs -> Content]
        BY <1>1, <2>1, TypeMake, TypeJump DEF SetInline
    <2>3. Grown
        BY <2>1, <1>c
    <2>4. /\ region' \subseteq 1..counter' /\ excused' \subseteq 1..counter'
          /\ inline_hooks' \in [DOMAIN inline_hooks' -> 1..counter']
          /\ DOMAIN inline_hooks' \subseteq Sites
          /\ probes' \in [DOMAIN probes' -> 1..counter'] /\ DOMAIN probes' \subseteq Sites
        BY <1>1, <2>3 DEF SetInline, TypeOK, Grown
    <2>5. UNCHANGED threads
        BY <1>1 DEF SetInline
    <2>6. QED
        BY <2>2, <2>3, <2>4, <2>5, <1>b DEF TypeOK, Grown
<1>2. CASE SetInlineFails(s)
    <2>1. counter < MaxHooks /\ Make("inline", s)
        BY <1>2 DEF SetInlineFails, MayPatch
    <2>2. code' \in [Addrs -> Content]
        BY <1>2, <2>1, TypeMake, TypeHalfway DEF SetInlineFails
    <2>3. Grown
        BY <2>1, <1>c
    <2>4. /\ region' \subseteq 1..counter' /\ excused' \subseteq 1..counter'
          /\ inline_hooks' \in [DOMAIN inline_hooks' -> 1..counter']
          /\ DOMAIN inline_hooks' \subseteq Sites
          /\ probes' \in [DOMAIN probes' -> 1..counter'] /\ DOMAIN probes' \subseteq Sites
        BY <1>2, <2>3 DEF SetInlineFails, TypeOK, Grown
    <2>5. UNCHANGED threads
        BY <1>2 DEF SetInlineFails
    <2>6. QED
        BY <2>2, <2>3, <2>4, <2>5, <1>b DEF TypeOK, Grown
<1>3. CASE RestoreInline(s)
    <2>1. inline_hooks[s] \in 1..counter /\ s \in DOMAIN inline_hooks
        BY <1>3 DEF RestoreInline, TypeOK
    <2>2. code' \in [Addrs -> Content]
        BY <1>3, <2>1, TypeUnpatched DEF RestoreInline, Rewritten
    <2>3. /\ inline_hooks' \in [DOMAIN inline_hooks' -> 1..counter]
          /\ DOMAIN inline_hooks' \subseteq Sites
        BY <1>3 DEF RestoreInline, TypeOK, Restrict
    <2>4. QED
        BY <1>3, <2>1, <2>2, <2>3, <1>b DEF RestoreInline, TypeOK
<1>4. CASE Install(s)
    <2>1. counter < MaxHooks /\ Make("probe", s)
        BY <1>4 DEF Install, MayInstall, MayPatch
    <2>2. code' \in [Addrs -> Content]
        BY <1>4, <2>1, TypeMake, TypeJump DEF Install
    <2>3. Grown
        BY <2>1, <1>c
    <2>4. /\ region' \subseteq 1..counter' /\ excused' \subseteq 1..counter'
          /\ inline_hooks' \in [DOMAIN inline_hooks' -> 1..counter']
          /\ DOMAIN inline_hooks' \subseteq Sites
          /\ probes' \in [DOMAIN probes' -> 1..counter'] /\ DOMAIN probes' \subseteq Sites
        BY <1>4, <2>3 DEF Install, TypeOK, Grown
    <2>5. UNCHANGED threads
        BY <1>4 DEF Install
    <2>6. QED
        BY <2>2, <2>3, <2>4, <2>5, <1>b DEF TypeOK, Grown
<1>5. CASE InstallFails(s)
    <2>1. counter < MaxHooks /\ Make("probe", s)
        BY <1>5 DEF InstallFails, MayInstall, MayPatch
    <2>2. code' \in [Addrs -> Content]
        BY <1>5, <2>1, TypeMake, TypeHalfway DEF InstallFails, TypeOK
    <2>3. Grown
        BY <2>1, <1>c
    <2>4. /\ region' \subseteq 1..counter' /\ excused' \subseteq 1..counter'
          /\ inline_hooks' \in [DOMAIN inline_hooks' -> 1..counter']
          /\ DOMAIN inline_hooks' \subseteq Sites
          /\ probes' \in [DOMAIN probes' -> 1..counter'] /\ DOMAIN probes' \subseteq Sites
        BY <1>5, <2>3 DEF InstallFails, Release, TypeOK, Grown
    <2>5. UNCHANGED threads
        BY <1>5 DEF InstallFails
    <2>6. QED
        BY <2>2, <2>3, <2>4, <2>5, <1>b DEF TypeOK, Grown
<1>6. CASE RestoreProbe(s)
    <2>1. probes[s] \in 1..counter /\ s \in DOMAIN probes
        BY <1>6 DEF RestoreProbe, TypeOK
    <2>2. code' \in [Addrs -> Content]
        BY <1>6, <2>1, TypeUnpatched DEF RestoreProbe, WrittenBack
    <2>3. /\ probes' \in [DOMAIN probes' -> 1..counter]
          /\ DOMAIN probes' \subseteq Sites
        BY <1>6 DEF RestoreProbe, TypeOK, Restrict
    <2>4. QED
        BY <1>6, <2>1, <2>2, <2>3, <1>b DEF RestoreProbe, TypeOK
<1>7. QED
    BY <1>1, <1>2, <1>3, <1>4, <1>5, <1>6

(* Every reachable state is well typed. *)
THEOREM TypeCorrect == Spec => []TypeOK
<1>1. TypeOK /\ UNCHANGED vars => TypeOK'
    BY DEF TypeOK, vars, threads, managed
<1>2. TypeOK /\ [Next]_vars => TypeOK'
    BY <1>1, TypeTarget, TypeClient DEF Next
<1>3. QED
    BY <1>2, TypeInit, PTL DEF Spec

-----------------------------------------------------------------------------
(* The target's steps                                                      *)

\* The detour a thread is in is one of those made.
LEMMA InDetour ==
    ASSUME TypeOK, NEW t \in Threads, where[t] # "code"
    PROVE  via[t] # 0 /\ via[t] \in 1..counter
BY DEF TypeOK

\* A thread that is not about to enter or leave a hook executes what the
\* program would execute.
LEMMA AtOriginal ==
    ASSUME TypeOK, IInv, Disciplined, NEW t \in Threads, ~Hooked(t)
    PROVE  Original(t)
<1> USE DEF IInv
<1>0. where[t] \in {"code", "entry", "copy", "after"} /\ loc[t] \in Addrs
    BY DEF TypeOK
<1>1. CASE where[t] = "code"
    <2>1. SUFFICES ASSUME code[loc[t]] # Own PROVE FALSE
        BY <1>1 DEF Original, InCode
    <2>2. PICK s \in Sites, h \in 1..counter :
              Holds(s, h) /\ loc[t] \in Covers[s] /\ code[loc[t]] = IF loc[t] = s THEN h ELSE Torn
        BY <1>0, <2>1 DEF CodeRecorded
    <2>3. code[loc[t]] = h /\ h \in region
        BY <1>1, <2>2 DEF ThreadsPlaced, RecordsTrue
    <2>4. QED
        BY <1>1, <2>3 DEF Hooked, InCode, Standing
<1>2. CASE where[t] # "code"
    <2>1. via[t] \in 1..counter /\ via[t] # 0
        BY <1>2, InDetour
    <2>2. PICK s \in Sites : Holds(s, via[t])
        BY <2>1 DEF ThreadsPlaced
    <2>3. /\ via[t] \in region /\ made[via[t]].site = s
          /\ \A a \in Covers[s] : made[via[t]].saved[a] = Own
        BY <2>1, <2>2 DEF RecordsTrue
    <2>4. where[t] = "copy"
        BY <1>0, <1>2, <2>3 DEF Hooked, Standing
    <2>5. loc[t] \in Covers[s]
        BY <2>3, <2>4 DEF ThreadsPlaced
    <2>6. QED
        BY <2>3, <2>4, <2>5 DEF Original, Disciplined
<1>3. QED
    BY <1>1, <1>2

\* The rest of an overwritten instruction follows only where the thread is in
\* the copy it belongs to, and goes on there.
LEMMA NeverBehind ==
    ASSUME TypeOK, IInv, Disciplined, NEW t \in Threads, Original(t),
           NEW a \in Flow[loc[t]], code[a] = Torn
    PROVE  /\ where[t] = "copy" /\ loc[t] \notin Returns
           /\ a \in Covers[made[via[t]].site] \ {made[via[t]].site}
<1> USE DEF IInv
<1>0. loc[t] \in Addrs /\ a \in Addrs
    BY CodeAssumption DEF TypeOK
<1>1. PICK s \in Sites, h \in 1..counter :
          Holds(s, h) /\ a \in Covers[s] /\ code[a] = IF a = s THEN h ELSE Torn
    BY <1>0, CellAssumption DEF CodeRecorded
<1>2. h \in Hooks
    BY <1>1, ModeAssumption DEF TypeOK, Hooks
<1>3. a # s
    BY <1>1, <1>2, CellAssumption
<1>4. loc[t] \in Covers[s] /\ loc[t] \notin Returns
    BY <1>0, <1>1, <1>3 DEF Disciplined
<1>5. where[t] = "copy"
    <2>1. SUFFICES ASSUME code[loc[t]] = Own PROVE FALSE
        BY DEF Original, InCode
    <2>2. \/ \A b \in Covers[s] : code[b] = IF b = s THEN h ELSE Torn
          \/ \A b \in Covers[s] : code[b] = Own
        BY <1>1 DEF RecordsTrue
    <2>3. QED
        BY <2>1, <2>2, <1>1, <1>2, <1>4, CellAssumption
<1>6. via[t] \in 1..counter /\ via[t] # 0
    BY <1>5, InDetour
<1>7. PICK s2 \in Sites : Holds(s2, via[t])
    BY <1>6 DEF ThreadsPlaced
<1>8. made[via[t]].site = s2 /\ loc[t] \in Covers[s2]
    BY <1>5, <1>6, <1>7 DEF RecordsTrue, ThreadsPlaced
<1>9. s2 = s
    BY <1>1, <1>4, <1>6, <1>7, <1>8 DEF RecordsApart
<1>10. QED
    BY <1>1, <1>3, <1>4, <1>5, <1>8, <1>9

\* What the target does leaves the records alone.
LEMMA RecordsStay ==
    ASSUME IInv, UNCHANGED <<code, region, managed>>
    PROVE  /\ RecordsApart' /\ RecordsTrue' /\ CodeRecorded' /\ NothingLeaks'
           /\ \A s \in Sites, h \in 1..counter : Holds(s, h)' <=> Holds(s, h)
BY DEF IInv, RecordsApart, RecordsTrue, CodeRecorded, NothingLeaks, Holds, managed

LEMMA TargetKeeps ==
    ASSUME TypeOK, IInv, Disciplined, TargetStep
    PROVE  IInv'
<1> SUFFICES ASSUME NEW t \in Threads,
                    Execute(t) \/ Detour(t) \/ CallOriginal(t) \/ HookReturns(t)
             PROVE  IInv'
    BY DEF TargetStep
<1>1. UNCHANGED <<code, region, managed>>
    BY DEF Execute, Detour, CallOriginal, HookReturns
<1>2. RecordsApart' /\ RecordsTrue' /\ CodeRecorded' /\ NothingLeaks'
    BY <1>1, RecordsStay
<1>3. \A s \in Sites, h \in 1..counter : Holds(s, h)' <=> Holds(s, h)
    BY <1>1, RecordsStay
<1>4. code' = code /\ made' = made /\ counter' = counter
    BY <1>1 DEF managed
<1> DEFINE Recorded(h) == \E s \in Sites : Holds(s, h)
           Placed(u) == /\ \A h \in frames[u] : Recorded(h)
                        /\ via[u] # 0 => Recorded(via[u])
                        /\ where[u] = "entry" => loc[u] = made[via[u]].site
                        /\ where[u] = "copy" => loc[u] \in Covers[made[via[u]].site]
                        /\ where[u] # "copy" => code[loc[u]] # Torn
<1>5. \A h \in 1..counter : Recorded(h)' <=> Recorded(h)
    BY <1>3
<1>6. \A u \in Threads : Placed(u)
    BY DEF IInv, ThreadsPlaced
<1>7. \A u \in Threads \ {t} : Placed(u)'
    <2> SUFFICES ASSUME NEW u \in Threads \ {t} PROVE Placed(u)'
        OBVIOUS
    <2>1. /\ loc'[u] = loc[u] /\ where'[u] = where[u] /\ via'[u] = via[u]
          /\ frames'[u] = frames[u]
        BY DEF Execute, Detour, CallOriginal, HookReturns, MoveTo, TypeOK
    <2>2. frames[u] \subseteq 1..counter /\ (via[u] # 0 => via[u] \in 1..counter)
        BY DEF TypeOK
    <2>3. QED
        BY <1>4, <1>5, <1>6, <2>1, <2>2
<1>8. frames[t] \subseteq 1..counter /\ (via[t] # 0 => via[t] \in 1..counter)
    BY DEF TypeOK
<1>9. Placed(t)'
    <2>1. CASE Execute(t)
        <3>1. Original(t)
            BY <2>1, AtOriginal DEF Execute
        <3>2. PICK a \in Flow[loc[t]] :
                  /\ loc' = [loc EXCEPT ![t] = a]
                  /\ \/ /\ frames' = frames
                        /\ IF /\ where[t] = "copy"
                              /\ a \in Covers[made[via[t]].site] \ {made[via[t]].site}
                           THEN UNCHANGED <<where, via>> ELSE MoveTo(t, "code", 0)
                     \/ /\ loc[t] \in Returns
                        /\ \E h \in frames[t] :
                              /\ MoveTo(t, "after", h)
                              /\ \E left \in {frames[t], frames[t] \ {h}} :
                                    frames' = [frames EXCEPT ![t] = left]
            BY <2>1, <3>1 DEF Execute
        <3>3. loc'[t] = a /\ frames'[t] \subseteq frames[t]
            BY <3>2 DEF TypeOK
        <3>4. \A h \in frames'[t] : Recorded(h)'
            BY <1>5, <1>6, <1>8, <3>3
        <3>5. CASE /\ where[t] = "copy" /\ UNCHANGED <<where, via>>
                   /\ a \in Covers[made[via[t]].site]
            BY <1>4, <1>5, <1>6, <1>8, <3>3, <3>4, <3>5
        <3>6. CASE /\ MoveTo(t, "code", 0)
                   /\ ~(/\ where[t] = "copy"
                        /\ a \in Covers[made[via[t]].site] \ {made[via[t]].site})
            <4>1. where'[t] = "code" /\ via'[t] = 0
                BY <3>6 DEF MoveTo, TypeOK
            <4>2. code[a] # Torn
                BY <3>1, <3>6, NeverBehind
            <4>3. QED
                BY <1>4, <3>3, <3>4, <4>1, <4>2
        <3>7. CASE loc[t] \in Returns /\ \E h \in frames[t] : MoveTo(t, "after", h)
            <4>1. PICK h \in frames[t] : MoveTo(t, "after", h)
                BY <3>7
            <4>2. where'[t] = "after" /\ via'[t] = h
                BY <4>1 DEF MoveTo, TypeOK
            <4>3. code[a] # Torn
                BY <3>1, <3>7, NeverBehind
            <4>4. Recorded(h)'
                BY <1>5, <1>6, <1>8, <4>1
            <4>5. QED
                BY <1>4, <3>3, <3>4, <4>2, <4>3, <4>4
        <3>8. QED
            BY <3>2, <3>5, <3>6, <3>7
    <2>2. CASE Detour(t)
        <3>1. PICK h \in 1..counter : InCode(t, h) /\ MoveTo(t, "entry", h)
            BY <2>2 DEF Detour
        <3>2. /\ where'[t] = "entry" /\ via'[t] = h /\ loc'[t] = loc[t]
              /\ frames'[t] = frames[t] /\ loc[t] \in Addrs /\ code[loc[t]] = h
            BY <2>2, <3>1 DEF Detour, MoveTo, TypeOK, InCode
        <3>3. h # Own /\ h # Torn
            BY CellAssumption, ModeAssumption DEF TypeOK, Hooks
        <3>4. PICK s \in Sites, h2 \in 1..counter :
                  Holds(s, h2) /\ loc[t] \in Covers[s] /\ code[loc[t]] = IF loc[t] = s THEN h2 ELSE Torn
            BY <3>2, <3>3 DEF IInv, CodeRecorded
        <3>5. loc[t] = s /\ Holds(s, h) /\ made[h].site = s
            BY <3>2, <3>3, <3>4 DEF IInv, RecordsTrue
        <3>6. Recorded(h)'
            BY <1>5, <3>5
        <3>7. QED
            BY <1>4, <1>5, <1>6, <1>8, <3>2, <3>3, <3>5, <3>6
    <2>3. CASE CallOriginal(t)
        <3>1. where[t] = "entry"
            BY <2>3 DEF CallOriginal
        <3>2. /\ where'[t] = "copy" /\ via'[t] = via[t] /\ loc'[t] = loc[t]
              /\ frames'[t] = frames[t] \cup {via[t]}
            BY <2>3 DEF CallOriginal, TypeOK
        <3>3. via[t] \in 1..counter /\ via[t] # 0
            BY <3>1, InDetour
        <3>4. PICK s \in Sites : Holds(s, via[t])
            BY <1>6, <3>3
        <3>5. made[via[t]].site = s /\ s \in Covers[s]
            BY <3>3, <3>4, CoversAssumption DEF IInv, RecordsTrue
        <3>6. loc[t] = s
            BY <1>6, <3>1, <3>5
        <3>7. QED
            BY <1>4, <1>5, <1>6, <1>8, <3>2, <3>3, <3>4, <3>5, <3>6
    <2>4. CASE HookReturns(t)
        <3>1. /\ where[t] = "after" /\ where'[t] = "code" /\ via'[t] = 0 /\ loc'[t] = loc[t]
              /\ frames'[t] = frames[t]
            BY <2>4 DEF HookReturns, MoveTo, TypeOK
        <3>2. QED
            BY <1>4, <1>5, <1>6, <1>8, <3>1
    <2>5. QED
        BY <2>1, <2>2, <2>3, <2>4
<1>10. \A u \in Threads : Placed(u)'
    BY <1>7, <1>9
<1>11. ThreadsPlaced'
    BY <1>10 DEF ThreadsPlaced
<1>12. QED
    BY <1>2, <1>11 DEF IInv

-----------------------------------------------------------------------------
(* The managers' steps                                                     *)

\* A site that may be patched is no recorded one's, and untouched.
LEMMA SiteFree ==
    ASSUME TypeOK, IInv, Disciplined, NEW s \in Sites, MayPatch(s)
    PROVE  /\ s \notin DOMAIN inline_hooks \cup DOMAIN probes
           /\ \A s2 \in Sites, h \in 1..counter : Holds(s2, h) => Covers[s] \cap Covers[s2] = {}
           /\ \A a \in Covers[s] : code[a] = Own
           /\ \A t \in Threads : loc[t] \notin Covers[s] \ {s}
<1>1. \A s2 \in DOMAIN inline_hooks \cup DOMAIN probes : Covers[s] \cap Covers[s2] = {}
    BY DEF MayPatch, Apart, Disciplined
<1>2. s \notin DOMAIN inline_hooks \cup DOMAIN probes
    BY <1>1, CoversAssumption
<1>3. \A s2 \in Sites, h \in 1..counter : Holds(s2, h) => Covers[s] \cap Covers[s2] = {}
    BY <1>1 DEF Holds
<1>4. \A a \in Covers[s] : code[a] = Own
    BY <1>3, CoversAssumption DEF IInv, CodeRecorded
<1>5. \A t \in Threads : loc[t] \notin Covers[s] \ {s}
    BY DEF MayPatch, Clear, Disciplined
<1>6. QED
    BY <1>2, <1>3, <1>4, <1>5

\* Threads stay where they may be when their detours stay recorded and no
\* instruction under them is torn.
LEMMA ThreadsStay ==
    ASSUME TypeOK, IInv, UNCHANGED threads,
           \A h \in 1..counter : made'[h] = made[h],
           \A t \in Threads : \A h \in frames[t] \cup {via[t]} :
               h # 0 => \E s \in Sites : Holds(s, h)',
           \A t \in Threads : where[t] # "copy" => code'[loc[t]] # Torn
    PROVE  ThreadsPlaced'
<1> SUFFICES ASSUME NEW t \in Threads
             PROVE  /\ \A h \in frames[t] : \E s \in Sites : Holds(s, h)'
                    /\ via[t] # 0 => \E s \in Sites : Holds(s, via[t])'
                    /\ where[t] = "entry" => loc[t] = made'[via[t]].site
                    /\ where[t] = "copy" => loc[t] \in Covers[made'[via[t]].site]
                    /\ where[t] # "copy" => code'[loc[t]] # Torn
    BY DEF ThreadsPlaced, threads
<1>1. frames[t] \subseteq 1..counter /\ 0 \notin frames[t]
    BY DEF TypeOK
<1>2. where[t] # "code" => made'[via[t]] = made[via[t]]
    BY InDetour
<1>3. /\ where[t] = "entry" => loc[t] = made[via[t]].site
      /\ where[t] = "copy" => loc[t] \in Covers[made[via[t]].site]
    BY DEF IInv, ThreadsPlaced
<1>4. /\ where[t] = "entry" => loc[t] = made'[via[t]].site
      /\ where[t] = "copy" => loc[t] \in Covers[made'[via[t]].site]
    BY <1>2, <1>3
<1>5. /\ \A h \in frames[t] : \E s \in Sites : Holds(s, h)'
      /\ via[t] # 0 => \E s \in Sites : Holds(s, via[t])'
    <2>1. via' = via
        BY DEF threads
    <2>2. \A h \in frames[t] : \E s \in Sites : Holds(s, h)'
        BY <1>1
    <2>3. ASSUME NEW h, h = via[t], h # 0 PROVE \E s \in Sites : Holds(s, h)'
        BY <2>3
    <2>4. QED
        BY <2>1, <2>2, <2>3
<1>6. where[t] # "copy" => code'[loc[t]] # Torn
    OBVIOUS
<1>7. QED
    BY <1>4, <1>5, <1>6

\* A detour that comes in: the jump is written and the record is made.
LEMMA ComesIn ==
    ASSUME TypeOK, IInv, Disciplined, NEW s \in Sites, MayPatch(s),
           NEW kind \in Kinds, Make(kind, s),
           code' = Jump(s, counter + 1), region' = region \cup {counter + 1},
           UNCHANGED threads, (DOMAIN inline_hooks \cap DOMAIN probes = {})',
           \A s2 \in Sites, h2 \in 1..counter' :
               Holds(s2, h2)' <=> \/ Holds(s2, h2) /\ h2 \in 1..counter
                                  \/ s2 = s /\ h2 = counter + 1
    PROVE  RecordsApart' /\ RecordsTrue' /\ CodeRecorded' /\ ThreadsPlaced'
<1> DEFINE new == counter + 1
<1>1. /\ counter' = new /\ new \in 1..counter' /\ new \in Hooks /\ new \notin 1..counter
      /\ 1..counter' = 1..counter \cup {new} /\ new # Own /\ new # Torn
    <2>1. counter < MaxHooks
        BY DEF MayPatch
    <2>2. counter' = new /\ new \in 1..counter' /\ new \in Hooks
        BY <2>1, TypeMake
    <2>3. new \notin 1..counter /\ 1..counter' = 1..counter \cup {new}
        BY <2>2 DEF TypeOK
    <2>4. QED
        BY <2>2, <2>3, CellAssumption
<1>2. /\ made'[new] = [kind |-> kind, site |-> s, saved |-> Saved(s)]
      /\ \A h \in 1..counter : made'[h] = made[h]
    BY TypeMake, <1>1 DEF MayPatch
<1>3. /\ \A s2 \in Sites, h \in 1..counter : Holds(s2, h) => Covers[s] \cap Covers[s2] = {}
      /\ \A a \in Covers[s] : code[a] = Own
      /\ \A t \in Threads : loc[t] \notin Covers[s] \ {s}
    BY SiteFree
<1>4. /\ \A a \in Addrs \ Covers[s] : code'[a] = code[a]
      /\ \A a \in Covers[s] : code'[a] = IF a = s THEN new ELSE Torn
    BY CoversAssumption DEF Jump
<1>5. RecordsApart'
    <2> SUFFICES ASSUME NEW s1 \in Sites, NEW s2 \in Sites,
                        NEW h1 \in 1..counter', NEW h2 \in 1..counter',
                        Holds(s1, h1)', Holds(s2, h2)'
                 PROVE  (s2 = s1 /\ h2 = h1) \/ Covers[s1] \cap Covers[s2] = {}
        BY DEF RecordsApart
    <2>1. CASE h1 \in 1..counter /\ h2 \in 1..counter
        BY <1>1, <2>1 DEF IInv, RecordsApart
    <2>2. CASE h1 \in 1..counter /\ h2 = new
        BY <1>1, <1>3, <2>2
    <2>3. CASE h1 = new /\ h2 \in 1..counter
        BY <1>1, <1>3, <2>3
    <2>4. CASE h1 = new /\ h2 = new
        BY <1>1, <2>4
    <2>5. QED
        BY <1>1, <2>1, <2>2, <2>3, <2>4
<1>6. RecordsTrue'
    <2> SUFFICES ASSUME NEW s2 \in Sites, NEW h2 \in 1..counter', Holds(s2, h2)'
                 PROVE  /\ made'[h2].site = s2 /\ h2 \in region'
                        /\ \A a \in Covers[s2] : made'[h2].saved[a] = Own
                        /\ \/ \A a \in Covers[s2] : code'[a] = IF a = s2 THEN h2 ELSE Torn
                           \/ \A a \in Covers[s2] : code'[a] = Own
        BY DEF RecordsTrue
    <2>1. CASE h2 = new
        <3>1. s2 = s
            BY <1>1, <2>1
        <3>2. QED
            BY <1>2, <1>3, <1>4, <2>1, <3>1 DEF Saved
    <2>2. CASE h2 \in 1..counter
        <3>1. Holds(s2, h2)
            BY <1>1, <2>2
        <3>2. Covers[s] \cap Covers[s2] = {} /\ Covers[s2] \subseteq Addrs
            BY <1>3, <2>2, <3>1, CoversAssumption
        <3>3. \A a \in Covers[s2] : code'[a] = code[a]
            BY <1>4, <3>2
        <3>4. /\ made[h2].site = s2 /\ h2 \in region
              /\ \A a \in Covers[s2] : made[h2].saved[a] = Own
              /\ \/ \A a \in Covers[s2] : code[a] = IF a = s2 THEN h2 ELSE Torn
                 \/ \A a \in Covers[s2] : code[a] = Own
            BY <2>2, <3>1 DEF IInv, RecordsTrue
        <3>5. made'[h2] = made[h2]
            BY <1>2, <2>2
        <3>6. QED
            BY <3>3, <3>4, <3>5
    <2>3. QED
        BY <1>1, <2>1, <2>2
<1>7. CodeRecorded'
    <2> SUFFICES ASSUME NEW a \in Addrs, code'[a] # Own
                 PROVE  \E s2 \in Sites, h2 \in 1..counter' :
                            Holds(s2, h2)' /\ a \in Covers[s2]
                            /\ code'[a] = IF a = s2 THEN h2 ELSE Torn
        BY DEF CodeRecorded
    <2>1. CASE a \in Covers[s]
        BY <1>1, <1>4, <2>1
    <2>2. CASE a \notin Covers[s]
        <3>1. code'[a] = code[a]
            BY <1>4, <2>2
        <3>2. PICK s2 \in Sites, h2 \in 1..counter :
                  Holds(s2, h2) /\ a \in Covers[s2] /\ code[a] = IF a = s2 THEN h2 ELSE Torn
            BY <3>1 DEF IInv, CodeRecorded
        <3>3. h2 \in 1..counter' /\ Holds(s2, h2)'
            BY <1>1, <3>2
        <3>4. QED
            BY <3>1, <3>2, <3>3
    <2>3. QED
        BY <2>1, <2>2
<1>8. ThreadsPlaced'
    <2>1. ASSUME NEW t \in Threads, NEW h \in frames[t] \cup {via[t]}, h # 0
          PROVE  \E s2 \in Sites : Holds(s2, h)'
        <3>1. h \in 1..counter
            BY <2>1 DEF TypeOK
        <3>2. PICK s2 \in Sites : Holds(s2, h)
            BY <2>1 DEF IInv, ThreadsPlaced
        <3>3. QED
            BY <1>1, <3>1, <3>2
    <2>2. ASSUME NEW t \in Threads, where[t] # "copy"
          PROVE  code'[loc[t]] # Torn
        <3>1. loc[t] \in Addrs /\ code[loc[t]] # Torn
            BY <2>2 DEF IInv, ThreadsPlaced, TypeOK
        <3>2. QED
            BY <1>1, <1>3, <1>4, <3>1
    <2>3. QED
        BY <1>2, <2>1, <2>2, ThreadsStay
<1>9. QED
    BY <1>5, <1>6, <1>7, <1>8

\* A detour that fails to come in: the code and the records are as they were.
LEMMA StaysOut ==
    ASSUME TypeOK, IInv, counter < MaxHooks, NEW kind \in Kinds, NEW s \in Sites, Make(kind, s),
           code' = code, region \subseteq region', UNCHANGED <<threads, inline_hooks, probes>>
    PROVE  RecordsApart' /\ RecordsTrue' /\ CodeRecorded' /\ ThreadsPlaced'
<1>1. /\ 1..counter \subseteq 1..counter'
      /\ \A h \in 1..counter : made'[h] = made[h]
    BY TypeMake
<1>2. \A s2, h : Holds(s2, h)' <=> Holds(s2, h)
    BY DEF Holds
<1>3. \A s2 \in Sites : \A h : Holds(s2, h) => h \in 1..counter
    BY DEF Holds, TypeOK
<1>4. RecordsApart'
    BY <1>2, <1>3 DEF IInv, RecordsApart
<1>5. RecordsTrue'
    <2> SUFFICES ASSUME NEW s2 \in Sites, NEW h \in 1..counter', Holds(s2, h)'
                 PROVE  /\ made'[h].site = s2 /\ h \in region'
                        /\ \A a \in Covers[s2] : made'[h].saved[a] = Own
                        /\ \/ \A a \in Covers[s2] : code'[a] = IF a = s2 THEN h ELSE Torn
                           \/ \A a \in Covers[s2] : code'[a] = Own
        BY DEF RecordsTrue
    <2>1. Holds(s2, h) /\ h \in 1..counter /\ made'[h] = made[h]
        BY <1>1, <1>2, <1>3
    <2>2. QED
        BY <2>1 DEF IInv, RecordsTrue
<1>6. CodeRecorded'
    BY <1>1, <1>2 DEF IInv, CodeRecorded
<1>7. ThreadsPlaced'
    BY <1>1, <1>2, ThreadsStay DEF IInv, ThreadsPlaced
<1>8. QED
    BY <1>4, <1>5, <1>6, <1>7

\* Writing back what a record saved restores the program's own instructions.
LEMMA WritesBack ==
    ASSUME TypeOK, IInv, NEW s \in Sites, NEW h \in 1..counter, Holds(s, h)
    PROVE  Unpatched(h) = [a \in Addrs |-> IF a \in Covers[s] THEN Own ELSE code[a]]
<1>1. made[h].site = s /\ \A a \in Covers[s] : made[h].saved[a] = Own
    BY DEF IInv, RecordsTrue
<1>2. PICK x \in Sites : made[h] \in [kind : Kinds, site : {x}, saved : [Covers[x] -> Content]]
    BY DEF TypeOK
<1>3. DOMAIN made[h].saved = Covers[s]
    BY <1>1, <1>2
<1>4. QED
    BY <1>1, <1>3 DEF Unpatched

\* A detour whose original bytes are back, and whose record stays or goes; no
\* thread is in a detour that goes.
LEMMA GoesOut ==
    ASSUME TypeOK, IInv, Disciplined, NEW s \in Sites, NEW h \in 1..counter, Holds(s, h), Drained(h),
           code' = Unpatched(h), UNCHANGED <<threads, made, counter>>,
           (DOMAIN inline_hooks \cap DOMAIN probes = {})',
           \/ /\ region \subseteq region'
              /\ \A s2 \in Sites, h2 \in 1..counter : Holds(s2, h2)' <=> Holds(s2, h2)
           \/ /\ region \ {h} \subseteq region'
              /\ \A s2 \in Sites, h2 \in 1..counter :
                     Holds(s2, h2)' <=> Holds(s2, h2) /\ s2 # s
    PROVE  RecordsApart' /\ RecordsTrue' /\ CodeRecorded' /\ ThreadsPlaced'
<1>1. /\ \A a \in Addrs \ Covers[s] : code'[a] = code[a]
      /\ \A a \in Covers[s] : code'[a] = Own
    BY WritesBack, CoversAssumption
\* Every other record stays, with its memory.
<1>2. ASSUME NEW s2 \in Sites, NEW h2 \in 1..counter, Holds(s2, h2), h2 # h
      PROVE  Holds(s2, h2)' /\ h2 \in region' /\ s2 # s /\ Covers[s] \cap Covers[s2] = {}
    <2>1. Covers[s] \cap Covers[s2] = {} /\ s2 # s
        BY <1>2, CoversAssumption DEF IInv, RecordsApart
    <2>2. h2 \in region
        BY <1>2 DEF IInv, RecordsTrue
    <2>3. QED
        BY <1>2, <2>1, <2>2
<1>3. ASSUME NEW s2 \in Sites, NEW h2 \in 1..counter, Holds(s2, h2)'
      PROVE  Holds(s2, h2) /\ h2 \in region'
    <2>1. Holds(s2, h2)
        BY <1>3
    <2>2. h2 \in region
        BY <2>1 DEF IInv, RecordsTrue
    <2>3. h2 = h => s2 = s
        BY <2>1 DEF IInv, RecordsTrue
    <2>4. QED
        BY <1>3, <2>1, <2>2, <2>3
<1>4. RecordsApart'
    BY <1>3 DEF IInv, RecordsApart
<1>5. RecordsTrue'
    <2> SUFFICES ASSUME NEW s2 \in Sites, NEW h2 \in 1..counter, Holds(s2, h2)'
                 PROVE  /\ made[h2].site = s2 /\ h2 \in region'
                        /\ \A a \in Covers[s2] : made[h2].saved[a] = Own
                        /\ \/ \A a \in Covers[s2] : code'[a] = IF a = s2 THEN h2 ELSE Torn
                           \/ \A a \in Covers[s2] : code'[a] = Own
        BY DEF RecordsTrue
    <2>1. Holds(s2, h2) /\ h2 \in region'
        BY <1>3
    <2>2. /\ made[h2].site = s2
          /\ \A a \in Covers[s2] : made[h2].saved[a] = Own
          /\ \/ \A a \in Covers[s2] : code[a] = IF a = s2 THEN h2 ELSE Torn
             \/ \A a \in Covers[s2] : code[a] = Own
        BY <2>1 DEF IInv, RecordsTrue
    <2>3. CASE h2 = h
        <3>1. s2 = s
            BY <2>2, <2>3 DEF IInv, RecordsTrue
        <3>2. QED
            BY <1>1, <2>1, <2>2, <3>1
    <2>4. CASE h2 # h
        <3>1. Covers[s] \cap Covers[s2] = {} /\ Covers[s2] \subseteq Addrs
            BY <1>2, <2>1, <2>4, CoversAssumption
        <3>2. \A a \in Covers[s2] : code'[a] = code[a]
            BY <1>1, <3>1
        <3>3. QED
            BY <2>1, <2>2, <3>2
    <2>5. QED
        BY <2>3, <2>4
<1>6. CodeRecorded'
    <2> SUFFICES ASSUME NEW a \in Addrs, code'[a] # Own
                 PROVE  \E s2 \in Sites, h2 \in 1..counter :
                            Holds(s2, h2)' /\ a \in Covers[s2]
                            /\ code'[a] = IF a = s2 THEN h2 ELSE Torn
        BY DEF CodeRecorded
    <2>1. a \notin Covers[s] /\ code'[a] = code[a]
        BY <1>1
    <2>2. PICK s2 \in Sites, h2 \in 1..counter :
              Holds(s2, h2) /\ a \in Covers[s2] /\ code[a] = IF a = s2 THEN h2 ELSE Torn
        BY <2>1 DEF IInv, CodeRecorded
    <2>3. h2 # h
        BY <2>1, <2>2 DEF IInv, RecordsTrue
    <2>4. QED
        BY <1>2, <2>1, <2>2, <2>3
<1>7. ThreadsPlaced'
    <2>1. ASSUME NEW t \in Threads, NEW x \in frames[t] \cup {via[t]}, x # 0
          PROVE  \E s2 \in Sites : Holds(s2, x)'
        <3>1. x \in 1..counter /\ x # h
            BY <2>1 DEF TypeOK, Drained, Disciplined
        <3>2. PICK s2 \in Sites : Holds(s2, x)
            BY <2>1 DEF IInv, ThreadsPlaced
        <3>3. QED
            BY <1>2, <3>1, <3>2
    <2>2. ASSUME NEW t \in Threads, where[t] # "copy"
          PROVE  code'[loc[t]] # Torn
        <3>1. loc[t] \in Addrs /\ code[loc[t]] # Torn
            BY <2>2 DEF IInv, ThreadsPlaced, TypeOK
        <3>2. QED
            BY <1>1, <3>1, CellAssumption
    <2>3. QED
        BY <2>1, <2>2, ThreadsStay
<1>8. QED
    BY <1>4, <1>5, <1>6, <1>7

\* Putting a key into a dictionary, and dropping one, and what is then in it.
LEMMA InRange ==
    ASSUME NEW f, NEW x
    PROVE  x \in Range(f) <=> \E k \in DOMAIN f : f[k] = x
BY DEF Range

LEMMA PutRange ==
    ASSUME NEW f, NEW k, NEW v, k \notin DOMAIN f
    PROVE  Range(f) \cup {v} \subseteq Range(Put(f, k, v))
BY DEF Range, Put

LEMMA DropRange ==
    ASSUME NEW f, NEW k
    PROVE  Range(f) \ {f[k]} \subseteq Range(Drop(f, k))
BY DEF Range, Drop, Restrict

LEMMA ClientKeeps ==
    ASSUME TypeOK, IInv, Disciplined, ClientStep
    PROVE  IInv'
<1> SUFFICES ASSUME NEW s \in Sites,
                    \/ SetInline(s) \/ SetInlineFails(s) \/ RestoreInline(s)
                    \/ Install(s) \/ InstallFails(s) \/ RestoreProbe(s)
             PROVE  IInv'
    BY DEF ClientStep
<1>a. counter \in Nat /\ counter + 1 \notin 1..counter
    BY ModeAssumption DEF TypeOK
<1>b. /\ DOMAIN inline_hooks \cap DOMAIN probes = {}
      /\ region \subseteq Range(inline_hooks) \cup Range(probes) \cup excused
    BY DEF IInv, RecordsApart, NothingLeaks
<1>c. \A mem \in Halfway(s, counter + 1) : mem = code
    BY DEF Halfway, Disciplined
<1>1. CASE SetInline(s)
    <2>1. MayPatch(s) /\ Make("inline", s) /\ "inline" \in Kinds
        BY <1>1 DEF SetInline, Kinds
    <2>2. s \notin DOMAIN inline_hooks \cup DOMAIN probes
        BY <2>1, SiteFree
    <2>3. (DOMAIN inline_hooks \cap DOMAIN probes = {})'
        BY <1>1, <1>b, <2>2 DEF SetInline, Put
    <2>4. \A s2 \in Sites, h2 \in 1..counter' :
              Holds(s2, h2)' <=> \/ Holds(s2, h2) /\ h2 \in 1..counter
                                 \/ s2 = s /\ h2 = counter + 1
        BY <1>1, <2>2 DEF SetInline, Put, Holds, TypeOK
    <2>5. RecordsApart' /\ RecordsTrue' /\ CodeRecorded' /\ ThreadsPlaced'
        BY <1>1, <2>1, <2>3, <2>4, ComesIn DEF SetInline
    <2>6. NothingLeaks'
        BY <1>1, <1>b, <2>2, PutRange DEF SetInline, NothingLeaks
    <2>7. QED
        BY <2>5, <2>6 DEF IInv
<1>2. CASE SetInlineFails(s)
    <2>1. counter < MaxHooks /\ Make("inline", s) /\ "inline" \in Kinds
        BY <1>2 DEF SetInlineFails, MayPatch, Kinds
    <2>2. code' = code /\ region \subseteq region'
        BY <1>2, <1>c DEF SetInlineFails
    <2>3. RecordsApart' /\ RecordsTrue' /\ CodeRecorded' /\ ThreadsPlaced'
        BY <1>2, <2>1, <2>2, StaysOut DEF SetInlineFails
    <2>4. NothingLeaks'
        BY <1>2, <1>b DEF SetInlineFails, NothingLeaks
    <2>5. QED
        BY <2>3, <2>4 DEF IInv
<1>3. CASE RestoreInline(s)
    <2> DEFINE h == inline_hooks[s]
    <2>1. /\ h \in 1..counter /\ Holds(s, h) /\ Drained(h) /\ s \in DOMAIN inline_hooks
          /\ s \notin DOMAIN probes
        BY <1>3, <1>b DEF RestoreInline, Holds, TypeOK
    <2>2. (DOMAIN inline_hooks \cap DOMAIN probes = {})'
        BY <1>3, <1>b DEF RestoreInline, Drop, Restrict
    <2>3. \A s2 \in Sites, h2 \in 1..counter : Holds(s2, h2)' <=> Holds(s2, h2) /\ s2 # s
        BY <1>3, <2>1 DEF RestoreInline, Drop, Restrict, Holds
    <2>4. region \ {h} \subseteq region'
        BY <1>3 DEF RestoreInline, Free
    <2>5. RecordsApart' /\ RecordsTrue' /\ CodeRecorded' /\ ThreadsPlaced'
        BY <1>3, <2>1, <2>2, <2>3, <2>4, GoesOut DEF RestoreInline, Rewritten
    <2>6. Range(inline_hooks) \ {h} \subseteq Range(inline_hooks')
        BY <1>3, DropRange DEF RestoreInline
    <2>7. NothingLeaks'
        BY <1>3, <1>b, <2>6 DEF RestoreInline, Free, NothingLeaks
    <2>8. QED
        BY <2>5, <2>7 DEF IInv
<1>4. CASE Install(s)
    <2>1. MayPatch(s) /\ Make("probe", s) /\ "probe" \in Kinds
        BY <1>4 DEF Install, MayInstall, Kinds
    <2>2. s \notin DOMAIN inline_hooks \cup DOMAIN probes
        BY <2>1, SiteFree
    <2>3. (DOMAIN inline_hooks \cap DOMAIN probes = {})'
        BY <1>4, <1>b, <2>2 DEF Install, Put
    <2>4. \A s2 \in Sites, h2 \in 1..counter' :
              Holds(s2, h2)' <=> \/ Holds(s2, h2) /\ h2 \in 1..counter
                                 \/ s2 = s /\ h2 = counter + 1
        BY <1>4, <2>2 DEF Install, Put, Holds, TypeOK
    <2>5. RecordsApart' /\ RecordsTrue' /\ CodeRecorded' /\ ThreadsPlaced'
        BY <1>4, <2>1, <2>3, <2>4, ComesIn DEF Install
    <2>6. NothingLeaks'
        BY <1>4, <1>b, <2>2, PutRange DEF Install, NothingLeaks
    <2>7. QED
        BY <2>5, <2>6 DEF IInv
<1>5. CASE InstallFails(s)
    <2>1. counter < MaxHooks /\ Make("probe", s) /\ "probe" \in Kinds
        BY <1>5 DEF InstallFails, MayInstall, MayPatch, Kinds
    <2>2. code' = code
        BY <1>5, <1>c DEF InstallFails
    <2>3. region \subseteq region'
        BY <1>5, <1>a DEF InstallFails, Release, Free, TypeOK
    <2>4. RecordsApart' /\ RecordsTrue' /\ CodeRecorded' /\ ThreadsPlaced'
        BY <1>5, <2>1, <2>2, <2>3, StaysOut DEF InstallFails
    <2>5. NothingLeaks'
        BY <1>5, <1>b DEF InstallFails, Release, Free, NothingLeaks
    <2>6. QED
        BY <2>4, <2>5 DEF IInv
<1>6. CASE RestoreProbe(s)
    <2> DEFINE h == probes[s]
    <2>1. /\ h \in 1..counter /\ Holds(s, h) /\ Drained(h) /\ s \in DOMAIN probes
          /\ s \notin DOMAIN inline_hooks
        BY <1>6, <1>b DEF RestoreProbe, Holds, TypeOK
    <2>2. /\ code' = Unpatched(h) /\ UNCHANGED <<threads, made, counter, inline_hooks>>
          /\ Free(h) /\ probes' = IF h \in region' THEN probes ELSE Drop(probes, s)
        BY <1>6 DEF RestoreProbe, WrittenBack
    <2>3. (DOMAIN inline_hooks \cap DOMAIN probes = {})'
        BY <2>2, <1>b DEF Drop, Restrict
    <2>4. CASE h \in region'
        <3>1. probes' = probes /\ region \subseteq region' /\ excused \subseteq excused'
            BY <2>2, <2>4 DEF Free
        <3>2. \A s2 \in Sites, h2 \in 1..counter : Holds(s2, h2)' <=> Holds(s2, h2)
            BY <2>2, <3>1 DEF Holds
        <3>3. RecordsApart' /\ RecordsTrue' /\ CodeRecorded' /\ ThreadsPlaced'
            BY <2>1, <2>2, <2>3, <3>1, <3>2, GoesOut
        <3>4. NothingLeaks'
            BY <1>b, <2>2, <3>1 DEF Free, NothingLeaks
        <3>5. QED
            BY <3>3, <3>4 DEF IInv
    <2>5. CASE h \notin region'
        <3>1. probes' = Drop(probes, s) /\ region' = region \ {h} /\ excused' = excused
            BY <2>2, <2>5 DEF Free
        <3>2. \A s2 \in Sites, h2 \in 1..counter : Holds(s2, h2)' <=> Holds(s2, h2) /\ s2 # s
            BY <2>1, <2>2, <3>1 DEF Drop, Restrict, Holds
        <3>3. RecordsApart' /\ RecordsTrue' /\ CodeRecorded' /\ ThreadsPlaced'
            BY <2>1, <2>2, <2>3, <3>1, <3>2, GoesOut
        <3>4. Range(probes) \ {h} \subseteq Range(probes')
            BY <3>1, DropRange
        <3>5. NothingLeaks'
            BY <1>b, <2>2, <3>1, <3>4 DEF NothingLeaks
        <3>6. QED
            BY <3>3, <3>5 DEF IInv
    <2>6. QED
        BY <2>4, <2>5
<1>7. QED
    BY <1>1, <1>2, <1>3, <1>4, <1>5, <1>6

-----------------------------------------------------------------------------
(* Theorems                                                                *)

LEMMA IInvInit == Init => IInv
<1> SUFFICES ASSUME Init PROVE IInv
    OBVIOUS
<1>1. DOMAIN inline_hooks = {} /\ DOMAIN probes = {}
    BY DEF Init, Empty
<1>2. \A s, h : ~Holds(s, h)
    BY <1>1 DEF Holds
<1>3. RecordsApart /\ RecordsTrue
    BY <1>1, <1>2 DEF RecordsApart, RecordsTrue
<1>4. CodeRecorded
    BY DEF Init, CodeRecorded
<1>5. ThreadsPlaced
    BY CellAssumption DEF Init, ThreadsPlaced
<1>6. NothingLeaks
    BY DEF Init, NothingLeaks
<1>7. QED
    BY <1>3, <1>4, <1>5, <1>6 DEF IInv

LEMMA IInvStep == TypeOK /\ IInv /\ Disciplined /\ [Next]_vars => IInv'
<1>1. IInv /\ UNCHANGED vars => IInv'
    BY DEF IInv, RecordsApart, RecordsTrue, CodeRecorded, ThreadsPlaced, NothingLeaks, Holds,
           vars, threads, managed
<1>2. QED
    BY <1>1, TargetKeeps, ClientKeeps DEF Next

(* A disciplined client's records, the code and the threads agree. *)
THEOREM Accounts == ASSUME Disciplined PROVE Spec => []IInv
<1>1. TypeOK /\ IInv /\ [Next]_vars => IInv'
    BY IInvStep
<1>2. QED
    BY <1>1, IInvInit, TypeCorrect, PTL DEF Spec

(* Nothing is freed under a jump or a thread: restore() may free what it
   allocated. *)
THEOREM FreedWhenUnused == ASSUME Disciplined PROVE Spec => []NothingFreedInUse
<1>1. TypeOK /\ IInv => NothingFreedInUse
    <2> SUFFICES ASSUME TypeOK, IInv PROVE NothingFreedInUse
        OBVIOUS
    <2>1. \A s \in Sites, h \in 1..counter : Holds(s, h) => h \in region
        BY DEF IInv, RecordsTrue
    <2>2. ASSUME NEW a \in Addrs, code[a] \in Hooks PROVE code[a] \in region
        <3>1. code[a] # Own /\ code[a] # Torn
            BY <2>2, CellAssumption
        <3>2. QED
            BY <2>1, <3>1 DEF IInv, CodeRecorded
    <2>3. ASSUME NEW t \in Threads
          PROVE  (where[t] # "code" => via[t] \in region) /\ frames[t] \subseteq region
        <3>1. frames[t] \subseteq 1..counter
            BY DEF TypeOK
        <3>2. QED
            BY <2>1, <3>1, InDetour DEF IInv, ThreadsPlaced
    <2>4. QED
        BY <2>2, <2>3 DEF NothingFreedInUse
<1>2. QED
    BY <1>1, Accounts, TypeCorrect, PTL

(* Once everything is restored the code is the program's. *)
THEOREM OriginalsReturn == ASSUME Disciplined PROVE Spec => []OriginalsBack
<1>1. IInv => OriginalsBack
    BY DEF IInv, CodeRecorded, OriginalsBack, Holds
<1>2. QED
    BY <1>1, Accounts, PTL

(* Every region in the target has a record that frees it, unless freeing it
   failed or InlineHook.set() raised. *)
THEOREM RegionsAccounted == ASSUME Disciplined PROVE Spec => []NothingLeaks
<1>1. IInv => NothingLeaks
    BY DEF IInv
<1>2. QED
    BY <1>1, Accounts, PTL

(* The detoured target implements the program nobody patches: a step is one of
   its own instructions, in place or in a copy, or moves no thread. *)
THEOREM DetoursAreTransparent == ASSUME Disciplined PROVE Spec => Transparent
<1>1. Init => Program!Init
    BY DEF Init, Program!Init
<1>2. TypeOK /\ IInv /\ [Next]_vars => [Program!Next]_<<loc, [t \in Threads |-> TRUE]>>
    <2> SUFFICES ASSUME TypeOK, IInv, [Next]_vars
                 PROVE  UNCHANGED loc \/ Program!Next
        OBVIOUS
    <2>1. ASSUME NEW t \in Threads, Execute(t) PROVE Program!Next
        <3>1. Original(t)
            BY <2>1, AtOriginal DEF Execute
        <3>2. Program!Execute(t)
            BY <2>1, <3>1 DEF Execute, Program!Execute
        <3>3. QED
            BY <3>2 DEF Program!Next
    <2>2. ASSUME NEW t \in Threads, Detour(t) \/ CallOriginal(t) \/ HookReturns(t)
          PROVE  UNCHANGED loc
        BY <2>2 DEF Detour, CallOriginal, HookReturns
    <2>3. ASSUME ClientStep PROVE UNCHANGED loc
        BY <2>3 DEF ClientStep, SetInline, SetInlineFails, RestoreInline, Install, InstallFails,
                    RestoreProbe, threads
    <2>4. ASSUME UNCHANGED vars PROVE UNCHANGED loc
        BY <2>4 DEF vars, threads
    <2>5. QED
        BY <2>1, <2>2, <2>3, <2>4 DEF Next, TargetStep
<1>3. QED
    BY <1>1, <1>2, Accounts, TypeCorrect, PTL DEF Spec, Transparent, Program!Spec

=============================================================================
