----------------------------- MODULE LinearScan -----------------------------
(***************************************************************************)
(* The linear scan of a byte range (analysis/scan.py), one instruction or  *)
(* one gap per step, on the decoder of a finished analysis: what a scan    *)
(* decodes, the decoder remembers.                                         *)
(***************************************************************************)
EXTENDS StaticAnalyzer

CONSTANT Ranges   \* the scans asked for: [start, end, limit]

ASSUME RangeAssumption == \A r \in Ranges : r.start \in Nat /\ r.end \in Nat

\* None, or the scan under way or finished: the range, [at], decoded (RVAs of
\* its instructions), gaps ([rva, end]), resyncs ([stop, resume]), truncated
\* and over
VARIABLE scan

Remember(rva) == size_at' = Put(size_at, rva, decoded_at(rva).size)

StartScan(r) ==
    /\ phase = "done" /\ scan = None
    /\ scan' = [range |-> r, at |-> r.start, decoded |-> {}, gaps |-> {}, resyncs |-> {},
                truncated |-> FALSE, over |-> r.end <= r.start]
    /\ UNCHANGED avars

Scanning   == scan # None /\ ~scan.over
AtLimit    == scan.range.limit # None /\ Cardinality(scan.decoded) >= scan.range.limit
AtInsn     == Scanning /\ scan.at < scan.range.end /\ ~AtLimit /\ decoded_at(scan.at) # None
ScanUnchanged == UNCHANGED <<given, phase, sweeping, covered, overlap_bytes, undecodable,
                             found, table>>

ScanInsn ==
    /\ AtInsn /\ scan.at + decoded_at(scan.at).size <= scan.range.end
    /\ scan' = [scan EXCEPT !.decoded = @ \cup {scan.at}, !.at = @ + decoded_at(scan.at).size]
    /\ Remember(scan.at) /\ ScanUnchanged

\* The first address behind rva that decodes, or the end of the range
resume_at(rva, end) ==
    LET hits == {r \in (rva + 1)..end : r = end \/ decoded_at(r) # None}
    IN CHOOSE r \in hits : \A x \in hits : r <= x

ScanGap ==
    /\ Scanning /\ scan.at < scan.range.end /\ ~AtLimit /\ decoded_at(scan.at) = None
    /\ LET resume == resume_at(scan.at, scan.range.end) IN
       /\ scan' = [scan EXCEPT
              !.gaps = @ \cup {[rva |-> scan.at, end |-> resume]},
              !.resyncs = @ \cup {[stop |-> scan.at, resume |-> resume] : x \in {resume} \ {scan.range.end}},
              !.at = resume]
       /\ IF resume < scan.range.end THEN Remember(resume) ELSE UNCHANGED size_at
    /\ ScanUnchanged

\* The end, the limit, or an instruction that runs past the end
ScanStop ==
    /\ Scanning
    /\ \/ /\ scan.at >= scan.range.end \/ AtLimit
          /\ UNCHANGED size_at
       \/ /\ AtInsn /\ scan.at + decoded_at(scan.at).size > scan.range.end
          /\ Remember(scan.at)
    /\ scan' = [scan EXCEPT !.over = TRUE, !.truncated = scan.at < scan.range.end /\ AtLimit]
    /\ ScanUnchanged

ScanStep == ScanInsn \/ ScanGap \/ ScanStop \/ \E r \in Ranges : StartScan(r)

-----------------------------------------------------------------------------
(* What the scan says                                                      *)

Spanned(rva) == rva..(rva + decoded_at(rva).size - 1)
covered_by_scan  == UNION {Spanned(rva) : rva \in scan.decoded}
undecodable_runs == UNION {g.rva..(g.end - 1) : g \in scan.gaps}

is_complete ==
    /\ scan.gaps = {} /\ scan.resyncs = {} /\ ~scan.truncated
    /\ Cardinality(covered_by_scan) = scan.range.end - scan.range.start

\* Mutant of unproven_runs: the last stretch is forgotten.
between_resyncs ==
    {[start |-> r.resume, end |-> CHOOSE e \in {x.stop : x \in scan.resyncs} :
          r.resume <= e /\ \A x \in scan.resyncs : r.resume <= x.stop => e <= x.stop]
       : r \in {r \in scan.resyncs : \E x \in scan.resyncs : r.resume <= x.stop}}

\* From each resync to where the scan broke next, or to the end
unproven_runs ==
    LET Later(r) == {x.stop : x \in {x \in scan.resyncs : r.resume <= x.stop}} \cup {scan.range.end}
        Runs == {[start |-> r.resume, end |-> CHOOSE e \in Later(r) : \A x \in Later(r) : e <= x]
                    : r \in scan.resyncs}
    IN {run \in Runs : \E rva \in scan.decoded : run.start <= rva /\ rva < run.end}

=============================================================================
