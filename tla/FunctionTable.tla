---------------------------- MODULE FunctionTable ----------------------------
(***************************************************************************)
(* Recovered function starts and their extents (analysis/functions.py).    *)
(* The table caches its sorted starts and extents; the analysis throws the *)
(* caches away before it hands the table out, so none is kept here.        *)
(***************************************************************************)
EXTENDS AnalyzedImage

VARIABLES
    starts,       \* believed to begin a function
    confident,    \* the starts there is evidence for
    code_seeds,   \* worth decoding, not the beginning of a function
    claimed       \* claimed[rva]: the size of the instruction swept at rva

table == <<starts, confident, code_seeds, claimed>>

\* The greatest of S at or before rva, the least behind it, or None
AtOrBefore(S, rva) ==
    IF \E s \in S : s <= rva THEN CHOOSE s \in S : s <= rva /\ \A x \in S : x <= rva => x <= s
    ELSE None
After(S, rva) ==
    IF \E s \in S : rva < s THEN CHOOSE s \in S : rva < s /\ \A x \in S : rva < x => s <= x
    ELSE None

\* One behind the last byte claimed by an instruction that follows s and no
\* later member of S
claimed_end(S, s) ==
    LET ends == {s} \cup {rva + claimed[rva] : rva \in {r \in DOMAIN claimed : AtOrBefore(S, r) = s}}
    IN CHOOSE e \in ends : \A x \in ends : x <= e

\* Mutant of end_within: the next start does not bound a function.
end_claimed(S, s) == claimed_end(S, s)

\* Where s ends: the last byte claimed for it, or the next start
end_within(S, s) ==
    LET next == After(S, s)
    IN IF next # None /\ next < claimed_end(S, s) THEN next ELSE claimed_end(S, s)

\* Tentative starts inside a trusted function
starts_inside_functions ==
    {s \in starts \ confident :
        LET owner == AtOrBefore(confident, s) IN owner # None /\ s < end_within(confident, owner)}

prune_starts_inside_functions ==
    /\ starts' = starts \ starts_inside_functions
    /\ code_seeds' = code_seeds \cup starts_inside_functions

containing(rva) == AtOrBefore(starts, rva)

extent_of(s) == IF s \in starts THEN end_within(starts, s) - s ELSE 0

OwnerKinds == {"start", "body", "gap", "after", "before", "unmapped"}
OwnedKinds == {"start", "body", "gap"}

owner_of(rva) ==
    LET s == containing(rva)
        Kind(owner, kind) == [owner |-> owner, kind |-> kind]
    IN CASE ~is_mapped(rva)                               -> Kind(None, "unmapped")
         [] is_mapped(rva) /\ s = None                    -> Kind(None, "before")
         [] is_mapped(rva) /\ s = rva                     -> Kind(s, "start")
         [] is_mapped(rva) /\ s \notin {None, rva} /\ rva < s + extent_of(s) -> Kind(s, "body")
         [] is_mapped(rva) /\ s \notin {None, rva} /\ rva >= s + extent_of(s) ->
                IF After(starts, rva) # None THEN Kind(s, "gap") ELSE Kind(None, "after")

function_of(rva) == IF owner_of(rva).kind \in OwnedKinds THEN owner_of(rva).owner ELSE None

=============================================================================
