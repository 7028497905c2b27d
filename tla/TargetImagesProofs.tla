------------------------- MODULE TargetImagesProofs -------------------------
(***************************************************************************)
(* Theorems about TargetImages, for any images that fill pages and any     *)
(* steps of the target: that what is said of the modules is true of it,    *)
(* that a tolerant read accounts for every byte it was asked for and keeps *)
(* what it could have read all along, whatever changes between two system  *)
(* calls, and that every redirected import slot can be given back.         *)
(***************************************************************************)
EXTENDS TargetImages, TLAPS, WellFoundedInduction, FiniteSetTheorems

-----------------------------------------------------------------------------
(* Numbers and pages. *)

LEMMA LeastElement ==
  ASSUME NEW T, T \subseteq Nat, T # {}
  PROVE  \E x \in T : \A y \in T : x <= y
<1>1. PICK x \in T : \A y \in T : ~(<<y, x>> \in OpToRel(<, Nat))
  BY NatLessThanWellFounded, WFMin, Zenon
<1>2. \A y \in T : ~(y < x)
  BY <1>1 DEF OpToRel
<1> QED BY <1>2

LEMMA MaxElement ==
  ASSUME NEW n \in Nat, NEW T, T \subseteq 0 .. n, T # {}
  PROVE  Max(T) \in T /\ \A y \in T : y <= Max(T)
<1> DEFINE D == {n - y : y \in T}
<1>1. D \subseteq Nat /\ D # {}
  <2>1. \A y \in T : n - y \in Nat
    OBVIOUS
  <2> QED BY <2>1, Zenon
<1>2. PICK d \in D : \A e \in D : d <= e
  BY <1>1, LeastElement
<1>3. PICK x \in T : d = n - x
  BY <1>2
<1>4. \A y \in T : x >= y
  <2> TAKE y \in T
  <2>1. n - x <= n - y
    BY <1>2, <1>3
  <2> QED BY <2>1
<1> QED BY <1>4 DEF Max

LEMMA MinOfTwo ==
  ASSUME NEW a \in Int, NEW b \in Int
  PROVE  Min({a, b}) = IF a <= b THEN a ELSE b
<1> DEFINE m == IF a <= b THEN a ELSE b
<1>1. m \in {a, b} /\ \A y \in {a, b} : m <= y
  OBVIOUS
<1>2. \A x \in {a, b} : (\A y \in {a, b} : x <= y) => x = m
  OBVIOUS
<1> QED BY <1>1, <1>2 DEF Min

LEMMA PageBound ==
  ASSUME NEW P \in Nat \ {0}, NEW a \in Nat, NEW p \in Nat
  PROVE  /\ a \div P \in Nat
         /\ a < p * P <=> a \div P < p
         /\ a >= p * P <=> a \div P >= p
OBVIOUS

LEMMA PageOrder ==
  ASSUME NEW P \in Nat \ {0}, NEW a \in Nat, NEW b \in Nat, a <= b
  PROVE  a \div P <= b \div P
OBVIOUS

LEMMA WholePages ==
  ASSUME NEW P \in Nat \ {0}, NEW a \in Nat, a % P = 0
  PROVE  a = (a \div P) * P /\ a \div P \in Nat
OBVIOUS

LEMMA PageStart ==
  ASSUME NEW P \in Nat \ {0}, NEW p \in Nat
  PROVE  (p * P) \div P = p /\ (p * P) % P = 0 /\ p * P \in Nat
OBVIOUS

LEMMA SamePage ==
  ASSUME NEW P \in Nat \ {0}, NEW a \in Nat, NEW c \in Nat,
         c % P = 0, c <= a, a < c + P
  PROVE  a \div P = c \div P
<1> DEFINE q == c \div P
<1>1. c = q * P /\ q \in Nat
  BY WholePages
<1>2. c + P = (q + 1) * P
  BY <1>1
<1> HIDE DEF q
<1>3. a \div P \in Nat /\ a \div P >= q
  BY <1>1, PageBound
<1>4. a \div P < q + 1
  <2>1. a < (q + 1) * P /\ q + 1 \in Nat
    BY <1>1, <1>2
  <2> QED BY <2>1, PageBound
<1> QED BY <1>1, <1>3, <1>4 DEF q

LEMMA PageBefore ==
  ASSUME NEW P \in Nat \ {0}, NEW a \in Nat \ {0}, a % P # 0
  PROVE  (a - 1) \div P = a \div P
<1> DEFINE q == a \div P
<1>1. q \in Nat /\ a >= q * P /\ a < (q + 1) * P
  <2>1. q \in Nat
    BY PageBound
  <2>2. a >= q * P
    BY <2>1, PageBound
  <2>3. q < q + 1 /\ q + 1 \in Nat
    BY <2>1
  <2> QED BY <2>1, <2>2, <2>3, PageBound
<1> HIDE DEF q
<1>2. q * P # a /\ q * P \in Nat /\ (q + 1) * P \in Nat
  <2>1. (q * P) % P = 0 /\ q * P \in Nat
    BY <1>1, PageStart
  <2>2. q + 1 \in Nat
    BY <1>1
  <2> QED BY <2>1, <2>2, PageStart
<1>3. a - 1 \in Nat /\ a - 1 >= q * P /\ a - 1 < (q + 1) * P
  <2> DEFINE low == q * P
             high == (q + 1) * P
  <2>1. low \in Nat /\ high \in Nat /\ low # a /\ a >= low /\ a < high
    BY <1>1, <1>2
  <2> HIDE DEF low, high
  <2>2. a - 1 \in Nat /\ a - 1 >= low /\ a - 1 < high
    BY <2>1
  <2> QED BY <2>2 DEF low, high
<1>4. (a - 1) \div P \in Nat /\ (a - 1) \div P >= q /\ (a - 1) \div P < q + 1
  <2>1. (a - 1) \div P \in Nat /\ (a - 1) \div P >= q
    BY <1>1, <1>3, PageBound
  <2>2. q + 1 \in Nat
    BY <1>1
  <2>3. (a - 1) \div P < q + 1
    BY <1>3, <2>2, PageBound
  <2> QED BY <2>1, <2>3
<1>5. (a - 1) \div P = q
  BY <1>1, <1>4
<1> QED BY <1>5 DEF q

LEMMA NextPage ==
  ASSUME NEW P \in Nat \ {0}, NEW a \in Nat, a % P = 0
  PROVE  (a + P) % P = 0
<1> DEFINE q == a \div P
<1>1. a = q * P /\ q \in Nat
  BY WholePages
<1> HIDE DEF q
<1>2. a + P = (q + 1) * P /\ q + 1 \in Nat
  BY <1>1
<1>3. ((q + 1) * P) % P = 0
  BY <1>2, PageStart
<1> QED BY <1>2, <1>3

-----------------------------------------------------------------------------
(* The address space: every mapped image lies on pages of it. *)

MapInv == DOMAIN mapped \subseteq Images /\ \A i \in DOMAIN mapped : mapped[i] \in BasesOf[i]

LEMMA MapInit == Init => MapInv
<1> SUFFICES ASSUME Init PROVE MapInv
  OBVIOUS
<1>1. PICK base \in BasesOf[Exe] : mapped = [i \in {Exe} |-> base]
  BY DEF Init, ModulesInit
<1> QED BY <1>1, SpaceAssumption DEF MapInv

LEMMA MapStep ==
  ASSUME MapInv, [Next]_vars
  PROVE  MapInv'
<1>1. CASE UNCHANGED mapped
  BY <1>1 DEF MapInv
<1>2. CASE \E i \in Images : \E base \in BasesOf[i] : Load(i, base)
  <2>0. PICK i \in Images : \E base \in BasesOf[i] : Load(i, base)
    BY <1>2
  <2>1. PICK base \in BasesOf[i] : Load(i, base)
    BY <2>0
  <2>2. mapped' = [j \in DOMAIN mapped \cup {i} |-> IF j = i THEN base ELSE mapped[j]]
    BY <2>1 DEF Load
  <2> QED BY <2>2 DEF MapInv
<1>3. CASE \E i \in Images : Unload(i)
  <2>1. PICK i \in Images : mapped' = [j \in DOMAIN mapped \ {i} |-> mapped[j]]
    BY <1>3 DEF Unload
  <2> QED BY <2>1 DEF MapInv
<1>4. \/ UNCHANGED mapped
      \/ \E i \in Images : \E base \in BasesOf[i] : Load(i, base)
      \/ \E i \in Images : Unload(i)
  <2>1. CASE TargetStep
    BY <2>1 DEF TargetStep, Target, Link, LoaderReady, Protect
  <2>2. CASE ClientStep
    BY <2>2 DEF ClientStep, WaitEvent, Questions, EnumModules, ModuleAt, FindModule,
                ParseLoadedDll, targetVars
  <2>3. CASE ReadStep \/ UNCHANGED vars
    BY <2>3 DEF ReadStep, targetVars, vars
  <2> QED BY <2>1, <2>2, <2>3 DEF Next
<1> QED BY <1>1, <1>2, <1>3, <1>4

(* An image holds an address just when it holds the page's first one. *)
LEMMA PageUniform ==
  ASSUME MapInv, NEW a \in Nat
  PROVE  Holding(a) = Holding(PageOf(a) * PageSize)
<1> DEFINE P == PageSize
           p == a \div PageSize
<1>0. P \in Nat \ {0} /\ p \in Nat /\ p * P \in Nat
  BY SpaceAssumption, PageBound, PageStart
<1>1. ASSUME NEW i \in DOMAIN mapped
      PROVE  a \in Span(i) <=> p * P \in Span(i)
  <2>1. /\ mapped[i] \in Nat /\ SizeOf[i] \in Nat
        /\ mapped[i] % P = 0 /\ SizeOf[i] % P = 0
    BY SpaceAssumption DEF MapInv
  <2>2. PICK b \in Nat, s \in Nat : mapped[i] = b * P /\ SizeOf[i] = s * P
    BY <1>0, <2>1, WholePages
  <2>3. mapped[i] + SizeOf[i] = (b + s) * P /\ b + s \in Nat
    BY <1>0, <2>2
  <2>4. a >= b * P <=> p >= b
    BY <1>0, PageBound
  <2>5. a < (b + s) * P <=> p < b + s
    BY <1>0, <2>3, PageBound
  <2>6. (p * P) \div P = p
    BY <1>0, PageStart
  <2>7. p * P >= b * P <=> p >= b
    BY <1>0, <2>6, PageBound
  <2>8. p * P < (b + s) * P <=> p < b + s
    BY <1>0, <2>3, <2>6, PageBound
  <2> QED
    <3>1. a \in Span(i) <=> a >= b * P /\ a < (b + s) * P
      BY <2>1, <2>2, <2>3 DEF Span
    <3>2. p * P \in Span(i) <=> p * P >= b * P /\ p * P < (b + s) * P
      BY <1>0, <2>1, <2>2, <2>3 DEF Span
    <3> QED BY <2>4, <2>5, <2>7, <2>8, <3>1, <3>2
<1> QED BY <1>1 DEF Holding, PageOf

LEMMA OnePageReadable ==
  ASSUME MapInv, NEW a \in Nat, NEW b \in Nat, PageOf(a) = PageOf(b)
  PROVE  Readable(a) <=> Readable(b)
BY PageUniform DEF Readable

LEMMA NothingBeyond ==
  ASSUME MapInv, NEW a \in Nat, a >= Pages * PageSize
  PROVE  ~Readable(a)
<1>1. ASSUME NEW i \in DOMAIN mapped PROVE a \notin Span(i)
  BY SpaceAssumption DEF MapInv, Span
<1> QED BY <1>1 DEF Readable, Holding

-----------------------------------------------------------------------------
(* The calls to Windows. *)

(* A partial read transfers a prefix: it stops at the first address that   *)
(* cannot be read.                                                         *)
LEMMA TransfersPrefix ==
  ASSUME NEW from \in Nat, NEW to \in Nat, from <= to
  PROVE  \E k \in from .. to :
           /\ transferred(from, to) = from .. k - 1
           /\ \A a \in from .. k - 1 : Readable(a)
           /\ k < to => ~Readable(k)
           /\ resume(from, transferred(from, to)) = k
<1> DEFINE T == {k \in from .. to : k = to \/ ~Readable(k)}
<1>1. T \subseteq Nat /\ T # {}
  OBVIOUS
<1>2. PICK k \in T : \A y \in T : k <= y
  BY <1>1, LeastElement
<1>3. k \in from .. to /\ (k < to => ~Readable(k))
  BY <1>2
<1>4. \A a \in from .. k - 1 : Readable(a)
  BY <1>2, <1>3
<1>5. transferred(from, to) = from .. k - 1
  BY <1>3, <1>4 DEF transferred
<1>6. Cardinality(from .. k - 1) = k - from
  <2>1. from \in Int /\ k - 1 \in Int
    BY <1>3
  <2>2. Cardinality(from .. k - 1) = IF from > k - 1 THEN 0 ELSE (k - 1) - from + 1
    BY <2>1, FS_Interval
  <2> QED BY <1>3, <2>2
<1>7. resume(from, transferred(from, to)) = k
  BY <1>3, <1>5, <1>6 DEF resume
<1> QED BY <1>3, <1>4, <1>5, <1>7

(* A region reaches past the address asked about, ends on a page and is of *)
(* one kind.                                                               *)
LEMMA RegionEnds ==
  ASSUME MapInv, NEW c \in Addresses
  PROVE  /\ region_end(c) \in Nat /\ c < region_end(c)
         /\ region_end(c) <= Pages * PageSize
         /\ region_end(c) % PageSize = 0
         /\ \A a \in c .. region_end(c) - 1 : Holding(a) = Holding(c)
<1> DEFINE P == PageSize
           first == PageOf(c)
           run == {p \in first .. Pages - 1 : \A q \in first .. p : Alike(first, q)}
           last == Max(run)
<1>0. P \in Nat \ {0} /\ Pages \in Nat \ {0} /\ c \in Nat /\ c < Pages * P
  BY SpaceAssumption DEF Addresses
<1>1. first \in Nat /\ first < Pages
  BY <1>0, PageBound DEF PageOf
<1>2. first \in run
  <2>1. \A q \in first .. first : Alike(first, q)
    BY <1>1 DEF Alike
  <2> QED BY <1>0, <1>1, <2>1
<1>3. last \in run
  <2>1. run \subseteq 0 .. Pages - 1 /\ Pages - 1 \in Nat
    BY <1>0, <1>1
  <2> HIDE DEF run
  <2> QED BY <1>2, <2>1, MaxElement
<1>4. last \in Nat /\ last <= Pages - 1 /\ first <= last
  BY <1>1, <1>3
<1>5. \A q \in first .. last : Alike(first, q)
  BY <1>3
<1>6. region_end(c) = (last + 1) * P
  BY DEF region_end
<1> HIDE DEF run, last, first
<1>7. (last + 1) * P \in Nat /\ ((last + 1) * P) % P = 0
  BY <1>0, <1>4, PageStart
<1>8. c < (last + 1) * P
  BY <1>0, <1>4, PageBound DEF first, PageOf
<1>9. (last + 1) * P <= Pages * P
  BY <1>0, <1>4
<1>10. ASSUME NEW a \in c .. (last + 1) * P - 1 PROVE Holding(a) = Holding(c)
  <2>1. a \in Nat /\ c <= a /\ a < (last + 1) * P
    BY <1>0, <1>7
  <2>2. PageOf(a) \in Nat /\ PageOf(a) < last + 1 /\ first <= PageOf(a)
    BY <1>0, <1>4, <2>1, PageBound, PageOrder DEF PageOf, first
  <2>3. Alike(first, PageOf(a))
    BY <1>1, <1>4, <1>5, <2>2
  <2> QED BY <1>0, <2>1, <2>3, PageUniform DEF Alike, first
<1> QED BY <1>6, <1>7, <1>8, <1>9, <1>10

-----------------------------------------------------------------------------
(* The read in progress. *)

Phases == {"query", "span", "page", "done"}

Reads == [start : Nat, end : Nat, cursor : Nat, stop : Nat, next : Phases,
          data : SUBSET Nat, gaps : SUBSET Nat, steady : SUBSET Nat, touched : SUBSET Nat]

(* The cursor stays in what was asked for; what is read in one region ends *)
(* on a page, except at the end of the request.                            *)
CursorInv(r) ==
  /\ r.start <= r.cursor /\ r.cursor <= r.stop /\ r.stop <= r.end
  /\ r.next = "query" => r.cursor < r.end
  /\ r.next \in {"span", "page"} => r.cursor < r.stop /\ r.stop <= Pages * PageSize
  /\ r.next \in {"span", "page"} /\ r.stop < r.end => r.stop % PageSize = 0
  /\ r.next = "done" => r.cursor = r.end

Tiles(r) ==
  /\ r.data \cap r.gaps = {}
  /\ r.data \cup r.gaps = r.start .. r.cursor - 1
  /\ r.data \subseteq r.touched
  /\ r.steady \subseteq r.start .. r.end - 1

(* From a page on, every resumption is on a page too, and nothing that     *)
(* could be read all along was passed without being read.                  *)
KeptSoFar(r) ==
  r.start % PageSize = 0 =>
    /\ r.next # "done" => r.cursor % PageSize = 0
    /\ r.steady \cap (r.start .. r.cursor - 1) \subseteq r.data

(* History agrees with what can be read now. *)
Witness(r) ==
  r.next # "done" => /\ \A a \in r.steady : Readable(a)
                     /\ \A a \in r.start .. r.end - 1 : Readable(a) => a \in r.touched

ReadInv(r) == r \in Reads /\ CursorInv(r) /\ Tiles(r) /\ KeptSoFar(r) /\ Witness(r)

IInv == MapInv /\ (reading # NotRequested => ReadInv(reading))

(* While memory does not change, an invariant of the next read is one of   *)
(* the next state.                                                         *)
LEMMA NextState ==
  ASSUME UNCHANGED <<mapped, unreadable>>, NEW r, reading' = r, ReadInv(r)
  PROVE  ReadInv(reading)'
<1>1. \A a : Readable(a)' <=> Readable(a)
  BY DEF Readable, Holding, Span
<1> QED BY <1>1 DEF ReadInv, Witness, CursorInv, Tiles, KeptSoFar

LEMMA StartHolds ==
  ASSUME NEW start \in Starts, NEW length \in Lengths, StartRead(start, length),
         UNCHANGED <<mapped, unreadable>>
  PROVE  ReadInv(reading)'
<1> DEFINE asked == [start |-> start, end |-> start + length]
           now == ReadableNow(asked)
           r == [start |-> start, end |-> start + length, cursor |-> start,
                 stop |-> start, next |-> "query", data |-> {}, gaps |-> {},
                 steady |-> now, touched |-> now]
<1>1. start \in Nat /\ length \in Nat \ {0}
  BY ReadAssumption, SpaceAssumption DEF Addresses
<1>2. reading' = r
  BY DEF StartRead
<1>3. now = {a \in start .. start + length - 1 : Readable(a)}
  <2>1. asked.start = start /\ asked.end = start + length
    OBVIOUS
  <2> HIDE DEF asked
  <2>2. Requested(asked) = start .. start + length - 1
    BY <1>1, <2>1 DEF Requested
  <2> QED BY <2>2 DEF ReadableNow
<1> HIDE DEF now
<1>4. now \subseteq Nat
  BY <1>1, <1>3
<1>5. ReadInv(r)
  BY <1>1, <1>3, <1>4 DEF ReadInv, Reads, Phases, CursorInv, Tiles, KeptSoFar, Witness
<1> QED BY <1>2, <1>5, NextState

(* A region: what is skipped because nothing is mapped there was at no     *)
(* time readable throughout.                                               *)
LEMMA QueryHolds ==
  ASSUME MapInv, ReadInv(reading), QueryRegion, UNCHANGED <<mapped, unreadable>>
  PROVE  ReadInv(reading)'
<1> DEFINE c == reading.cursor
           stop == IF c \in Addresses THEN Min({region_end(c), reading.end}) ELSE reading.end
           rest == c .. stop - 1
           skip == ~(c \in Addresses /\ Committed(c))
           skipped == [reading EXCEPT !.gaps = @ \cup rest, !.cursor = stop, !.stop = stop,
                                      !.next = IF stop < reading.end THEN "query" ELSE "done"]
           found == [reading EXCEPT !.stop = stop, !.next = "span"]
<1>1. reading' = IF skip THEN skipped ELSE found
  BY DEF QueryRegion
<1>2. /\ reading \in Reads /\ reading.next = "query"
      /\ c \in Nat /\ c < reading.end /\ reading.end \in Nat
      /\ reading.start \in Nat /\ reading.start <= c
  BY DEF QueryRegion, ReadInv, CursorInv, Reads
<1>3. /\ stop \in Nat /\ c < stop /\ stop <= reading.end
      /\ c \in Addresses => stop <= Pages * PageSize
      /\ c \in Addresses /\ stop < reading.end => stop % PageSize = 0
      /\ c \in Addresses => \A a \in rest : Holding(a) = Holding(c)
      /\ c \notin Addresses => stop = reading.end
  <2>1. CASE c \in Addresses
    <3>1. /\ region_end(c) \in Nat /\ c < region_end(c)
          /\ region_end(c) <= Pages * PageSize /\ region_end(c) % PageSize = 0
          /\ \A a \in c .. region_end(c) - 1 : Holding(a) = Holding(c)
      BY <2>1, RegionEnds
    <3>2. \/ stop = region_end(c) /\ stop <= reading.end
          \/ stop = reading.end /\ stop <= region_end(c)
      <4>1. region_end(c) \in Int /\ reading.end \in Int
        BY <1>2, <3>1
      <4>2. Min({region_end(c), reading.end})
              = IF region_end(c) <= reading.end THEN region_end(c) ELSE reading.end
        BY <4>1, MinOfTwo
      <4> QED BY <2>1, <4>1, <4>2
    <3> HIDE DEF stop
    <3>3. PageSize \in Nat /\ Pages \in Nat /\ Pages * PageSize \in Nat
      BY SpaceAssumption
    <3> QED BY <1>2, <2>1, <3>1, <3>2, <3>3
  <2>2. CASE c \notin Addresses
    BY <1>2, <2>2
  <2> QED BY <2>1, <2>2
<1>4. CASE skip
  <2>1. \A a \in rest : ~Readable(a)
    <3>1. CASE c \in Addresses
      BY <1>3, <1>4, <3>1 DEF Committed, Readable
    <3>2. CASE c \notin Addresses
      <4>1. \A a \in rest : a \in Nat /\ a >= Pages * PageSize
        BY <1>2, <1>3, <3>2, SpaceAssumption DEF Addresses
      <4> QED BY <4>1, NothingBeyond
    <3> QED BY <3>1, <3>2
  <2>2. reading.steady \cap rest = {}
    BY <1>2, <2>1 DEF ReadInv, Witness
  <2> HIDE DEF stop
  <2>3. rest \subseteq Nat
    BY <1>2
  <2>4. skipped \in Reads
    BY <1>2, <1>3, <2>3 DEF Reads, Phases
  <2>5. CursorInv(skipped)
    BY <1>2, <1>3 DEF CursorInv, Reads
  <2>6. Tiles(skipped)
    BY <1>2, <1>3 DEF ReadInv, Tiles, Reads
  <2>7. KeptSoFar(skipped)
    <3>1. skipped.next # "done" => skipped.cursor % PageSize = 0
      BY <1>2, <1>3 DEF Reads
    <3>2. skipped.start .. skipped.cursor - 1 = (reading.start .. c - 1) \cup rest
      BY <1>2, <1>3 DEF Reads
    <3>3. skipped.steady = reading.steady /\ skipped.data = reading.data /\ skipped.start = reading.start
      BY <1>2 DEF Reads
    <3> QED BY <1>2, <2>2, <3>1, <3>2, <3>3 DEF ReadInv, KeptSoFar
  <2>8. Witness(skipped)
    BY <1>2 DEF ReadInv, Witness, Reads
  <2> QED BY <1>1, <1>4, <2>4, <2>5, <2>6, <2>7, <2>8, NextState DEF ReadInv
<1>5. CASE ~skip
  <2> HIDE DEF stop
  <2>1. found \in Reads
    BY <1>2, <1>3 DEF Reads, Phases
  <2>2. CursorInv(found)
    BY <1>2, <1>3, <1>5 DEF CursorInv, Reads
  <2>3. Tiles(found) /\ KeptSoFar(found) /\ Witness(found)
    BY <1>2 DEF ReadInv, Tiles, KeptSoFar, Witness, Reads
  <2> QED BY <1>1, <1>5, <2>1, <2>2, <2>3, NextState DEF ReadInv
<1> QED BY <1>4, <1>5

LEMMA SpanHolds ==
  ASSUME MapInv, ReadInv(reading), ReadSpan, UNCHANGED <<mapped, unreadable>>
  PROVE  ReadInv(reading)'
<1> DEFINE c == reading.cursor
           got == transferred(c, reading.stop)
<1>1. /\ reading \in Reads /\ reading.next = "span"
      /\ c \in Nat /\ c < reading.stop /\ reading.stop \in Nat
      /\ reading.end \in Nat /\ reading.stop <= reading.end
      /\ reading.start \in Nat /\ reading.start <= c
  BY DEF ReadSpan, ReadInv, CursorInv, Reads
<1>2. PICK k \in c .. reading.stop :
        /\ got = c .. k - 1
        /\ \A a \in c .. k - 1 : Readable(a)
        /\ k < reading.stop => ~Readable(k)
        /\ resume(c, got) = k
  <2>1. c \in Nat /\ reading.stop \in Nat /\ c <= reading.stop
    BY <1>1
  <2> QED BY <2>1, TransfersPrefix, Zenon
<1> DEFINE r == [reading EXCEPT !.data = @ \cup got, !.cursor = k, !.next = After(reading, k)]
<1>3. reading' = r
  BY <1>2 DEF ReadSpan
<1>4. got \subseteq Nat /\ got \subseteq reading.touched
  BY <1>1, <1>2 DEF ReadInv, Witness, Reads
<1>5. r \in Reads
  <2>1. After(reading, k) \in Phases
    BY DEF After, Phases
  <2>2. k \in Nat /\ reading.data \cup got \subseteq Nat
    BY <1>1, <1>2, <1>4 DEF Reads
  <2> HIDE DEF got
  <2> QED BY <1>1, <2>1, <2>2 DEF Reads
<1>6. CursorInv(r)
  BY <1>1, <1>2 DEF ReadInv, CursorInv, Reads, After
<1>7. Tiles(r)
  BY <1>1, <1>2, <1>4 DEF ReadInv, Tiles, Reads
<1>8. KeptSoFar(r)
  <2>1. ASSUME reading.start % PageSize = 0, After(reading, k) # "done"
        PROVE  k % PageSize = 0
    <3>1. CASE k = reading.stop
      BY <1>1, <2>1, <3>1 DEF ReadInv, CursorInv, After
    <3>2. CASE k = c
      BY <1>1, <2>1, <3>2 DEF ReadInv, KeptSoFar
    <3>3. CASE k < reading.stop /\ c < k
      <4>1. k \in Nat \ {0} /\ k - 1 \in Nat /\ Readable(k - 1) /\ ~Readable(k)
        BY <1>1, <1>2, <3>3
      <4>2. PageOf(k - 1) # PageOf(k)
        BY <4>1, OnePageReadable
      <4> QED BY <4>1, <4>2, PageBefore, SpaceAssumption DEF PageOf
    <3> QED BY <1>1, <1>2, <3>1, <3>2, <3>3
  <2>2. reading.start .. k - 1 = (reading.start .. c - 1) \cup got
    BY <1>1, <1>2
  <2>3. /\ r.start = reading.start /\ r.steady = reading.steady /\ r.cursor = k
        /\ r.data = reading.data \cup got /\ r.next = After(reading, k)
    BY <1>1 DEF Reads
  <2> QED BY <2>1, <2>2, <2>3 DEF ReadInv, KeptSoFar
<1>9. Witness(r)
  BY <1>1 DEF ReadInv, Witness, Reads
<1> QED BY <1>3, <1>5, <1>6, <1>7, <1>8, <1>9, NextState DEF ReadInv

(* A page-sized read that starts on a page reads all of it or nothing. *)
LEMMA PageHolds ==
  ASSUME MapInv, ReadInv(reading), ReadPage, UNCHANGED <<mapped, unreadable>>
  PROVE  ReadInv(reading)'
<1> DEFINE c == reading.cursor
           e == c + page_chunk(reading)
           got == transferred(c, e)
           rest == (c .. e - 1) \ got
           r == [reading EXCEPT !.data = @ \cup got, !.gaps = @ \cup rest,
                                !.cursor = e, !.next = After(reading, e)]
<1>0. PageSize \in Nat \ {0}
  BY SpaceAssumption
<1>1. /\ reading \in Reads /\ reading.next = "page"
      /\ c \in Nat /\ c < reading.stop /\ reading.stop \in Nat
      /\ reading.end \in Nat /\ reading.stop <= reading.end
      /\ reading.start \in Nat /\ reading.start <= c
  BY DEF ReadPage, ReadInv, CursorInv, Reads
<1>2. /\ e \in Nat /\ c < e /\ e <= reading.stop /\ e <= c + PageSize
      /\ e < reading.stop => e = c + PageSize
  <2>1. page_chunk(reading) = IF PageSize <= reading.stop - c THEN PageSize
                              ELSE reading.stop - c
    BY <1>0, <1>1, MinOfTwo DEF page_chunk
  <2> QED BY <1>0, <1>1, <2>1
<1> HIDE DEF e
<1>3. Min({e, reading.stop}) = e
  BY <1>1, <1>2, MinOfTwo
<1>4. reading' = r
  BY <1>3 DEF ReadPage, e
<1>5. PICK k \in c .. e :
        /\ got = c .. k - 1
        /\ \A a \in c .. k - 1 : Readable(a)
        /\ k < e => ~Readable(k)
  <2>1. c \in Nat /\ e \in Nat /\ c <= e
    BY <1>1, <1>2
  <2> QED BY <2>1, TransfersPrefix, Zenon
<1>6. got \subseteq Nat /\ rest \subseteq Nat /\ got \subseteq reading.touched
  BY <1>1, <1>2, <1>5 DEF ReadInv, Witness, Reads
<1>7. r \in Reads
  BY <1>1, <1>2, <1>6 DEF Reads, Phases, After
<1>8. CursorInv(r)
  BY <1>1, <1>2 DEF ReadInv, CursorInv, Reads, After
<1>9. Tiles(r)
  <2>1. got \cup rest = c .. e - 1 /\ got \cap rest = {}
    BY <1>1, <1>2, <1>5
  <2>2. /\ r.start = reading.start /\ r.cursor = e /\ r.touched = reading.touched
        /\ r.end = reading.end /\ r.steady = reading.steady
        /\ r.data = reading.data \cup got /\ r.gaps = reading.gaps \cup rest
    BY <1>1 DEF Reads
  <2>3. /\ reading.start .. e - 1 = (reading.start .. c - 1) \cup (c .. e - 1)
        /\ (reading.start .. c - 1) \cap (c .. e - 1) = {}
    BY <1>1, <1>2
  <2> HIDE DEF got, rest, r
  <2> QED BY <1>6, <2>1, <2>2, <2>3 DEF ReadInv, Tiles
<1>10. KeptSoFar(r)
  <2>1. ASSUME reading.start % PageSize = 0 PROVE c % PageSize = 0
    BY <1>1, <2>1 DEF ReadInv, KeptSoFar
  <2>2. ASSUME reading.start % PageSize = 0, After(reading, e) # "done"
        PROVE  e % PageSize = 0
    <3>1. CASE e = reading.stop
      BY <1>1, <2>2, <3>1 DEF ReadInv, CursorInv, After
    <3>2. CASE e < reading.stop
      BY <1>0, <1>1, <1>2, <2>1, <2>2, <3>2, NextPage
    <3> QED BY <1>1, <1>2, <3>1, <3>2
  <2>3. ASSUME reading.start % PageSize = 0, NEW a \in rest, a \in reading.steady
        PROVE  FALSE
    <3>1. k < e /\ ~Readable(k) /\ a \in Nat /\ c <= a /\ a < e /\ k \in Nat /\ c <= k
      BY <1>1, <1>2, <1>5, <2>3
    <3>2. PageOf(a) = PageOf(k)
      <4>1. c % PageSize = 0 /\ a < c + PageSize /\ k < c + PageSize
        BY <1>0, <1>1, <1>2, <2>1, <2>3, <3>1
      <4>2. a \div PageSize = c \div PageSize
        BY <1>0, <1>1, <3>1, <4>1, SamePage
      <4>3. k \div PageSize = c \div PageSize
        BY <1>0, <1>1, <3>1, <4>1, SamePage
      <4> QED BY <4>2, <4>3 DEF PageOf
    <3>3. Readable(a)
      BY <1>1, <2>3 DEF ReadInv, Witness
    <3> QED BY <3>1, <3>2, <3>3, OnePageReadable
  <2>4. reading.start .. e - 1 = (reading.start .. c - 1) \cup (got \cup rest)
    BY <1>1, <1>2, <1>5
  <2>5. /\ r.start = reading.start /\ r.cursor = e /\ r.steady = reading.steady
        /\ r.data = reading.data \cup got /\ r.next = After(reading, e)
    BY <1>1 DEF Reads
  <2> HIDE DEF got, rest, r
  <2> QED BY <2>2, <2>3, <2>4, <2>5 DEF ReadInv, KeptSoFar
<1>11. Witness(r)
  BY <1>1 DEF ReadInv, Witness, Reads
<1> QED BY <1>4, <1>7, <1>8, <1>9, <1>10, <1>11, NextState DEF ReadInv

-----------------------------------------------------------------------------
(* The target changes memory under the read, and the history with it. *)
LEMMA TargetHolds ==
  ASSUME reading # NotRequested, ReadInv(reading), Witnessed
  PROVE  ReadInv(reading)'
<1> DEFINE after == {a \in Requested(reading) : Readable(a)'}
           r == [reading EXCEPT !.steady = @ \cap after, !.touched = @ \cup after]
<1>1. reading \in Reads
  BY DEF ReadInv
<1>2. CASE Busy
  <2>1. reading' = r
    BY <1>2 DEF Witnessed
  <2>2. after \subseteq Nat
    BY <1>1 DEF Requested, Reads
  <2>3. r \in Reads
    BY <1>1, <2>2 DEF Reads
  <2>4. CursorInv(r) /\ Tiles(r) /\ KeptSoFar(r)
    BY <1>1 DEF ReadInv, CursorInv, Tiles, KeptSoFar, Reads
  <2>5. /\ \A a \in r.steady : Readable(a)'
        /\ \A a \in r.start .. r.end - 1 : Readable(a)' => a \in r.touched
    BY <1>1 DEF Requested, Reads
  <2> HIDE DEF r
  <2> QED BY <2>1, <2>3, <2>4, <2>5 DEF ReadInv, Witness, CursorInv, Tiles, KeptSoFar
<1>3. CASE ~Busy
  <2>1. reading' = reading
    BY <1>3 DEF Witnessed
  <2>2. reading.next = "done"
    BY <1>3 DEF Busy
  <2> QED BY <2>1, <2>2 DEF ReadInv, Witness, CursorInv, Tiles, KeptSoFar
<1> QED BY <1>2, <1>3

LEMMA StepHolds ==
  ASSUME IInv, [Next]_vars
  PROVE  IInv'
<1>1. MapInv'
  BY MapStep DEF IInv
<1>2. ASSUME reading' # NotRequested PROVE ReadInv(reading)'
  <2>1. CASE TargetStep
    <3>1. Witnessed
      BY <2>1 DEF TargetStep
    <3>2. reading # NotRequested
      BY <1>2, <3>1 DEF Witnessed, Busy, NotRequested
    <3> QED BY <3>1, <3>2, TargetHolds DEF IInv
  <2>2. CASE ReadStep
    <3>1. UNCHANGED <<mapped, unreadable>> /\ Reading
      BY <2>2 DEF ReadStep, targetVars
    <3>2. CASE \E start \in Starts, length \in Lengths : StartRead(start, length)
      BY <3>1, <3>2, StartHolds
    <3>3. CASE QueryRegion
      BY <3>1, <3>3, QueryHolds DEF IInv, QueryRegion
    <3>4. CASE ReadSpan
      BY <3>1, <3>4, SpanHolds DEF IInv, ReadSpan
    <3>5. CASE ReadPage
      BY <3>1, <3>5, PageHolds DEF IInv, ReadPage
    <3>6. CASE TakeRead
      BY <1>2, <3>6 DEF TakeRead
    <3> QED BY <3>1, <3>2, <3>3, <3>4, <3>5, <3>6 DEF Reading
  <2>3. CASE ClientStep
    <3>1. reading = NotRequested /\ reading' = reading
      BY <2>3 DEF ClientStep
    <3> QED BY <1>2, <3>1
  <2>4. CASE UNCHANGED vars
    <3>1. UNCHANGED <<mapped, unreadable>> /\ reading' = reading
      BY <2>4 DEF vars, targetVars
    <3>2. ReadInv(reading)
      BY <1>2, <3>1 DEF IInv, NotRequested
    <3> QED BY <3>1, <3>2, NextState
  <2> QED BY <2>1, <2>2, <2>3, <2>4 DEF Next
<1> QED BY <1>1, <1>2 DEF IInv, NotRequested

LEMMA InvImplies == IInv => ReadAccounts
BY DEF IInv, ReadInv, Reads, CursorInv, Tiles, KeptSoFar, ReadAccounts

(* A tolerant read accounts for every byte and keeps what it could read    *)
(* (manager.py read_safe_handle, _read_span).                              *)
THEOREM EveryByteAccounted == Spec => []ReadAccounts
<1>1. Init => IInv
  BY MapInit DEF Init, ReadInit, IInv
<1>2. IInv /\ [Next]_vars => IInv'
  BY StepHolds
<1>3. IInv => ReadAccounts
  BY InvImplies
<1> QED BY <1>1, <1>2, <1>3, PTL DEF Spec

-----------------------------------------------------------------------------
(* The import slots. *)

Values == Replacements \cup {Genuine}

HooksTypeOK ==
  /\ slot \in [Functions -> Values]
  /\ hooks = [k \in DOMAIN hooks |-> hooks[k]]
  /\ DOMAIN hooks \subseteq ClientNames \X Functions

(* The records of a function, and what HooksUndone says of one function. *)
Records(f) == {k \in DOMAIN hooks : k[2] = f}

Undone(f) ==
  /\ slot[f] # Genuine => Records(f) # {} \/ f \in lost
  /\ \A k \in Records(f) : hooks[k].original = Genuine /\ slot[f] # Genuine

HooksInv == HooksTypeOK /\ HooksUndone

(* A function has one record at most: the client has one name for the      *)
(* executable.                                                             *)
LEMMA OneRecord ==
  ASSUME HooksTypeOK, NEW name \in ClientNames, NEW f \in Functions
  PROVE  Records(f) = {<<name, f>>} \cap DOMAIN hooks
<1>1. \A k \in DOMAIN hooks : k[2] = f => k = <<name, f>>
  BY HookAssumption DEF HooksTypeOK
<1> QED BY <1>1 DEF Records

LEMMA UndoneEach == HooksUndone <=> \A f \in Functions : Undone(f)
BY DEF HooksUndone, Undone, Records

LEMMA InitHolds == Init => HooksInv
<1> SUFFICES ASSUME Init PROVE HooksInv
  OBVIOUS
<1>1. slot = [f \in Functions |-> Genuine] /\ DOMAIN hooks = {} /\ lost = {}
  BY DEF Init, HooksInit
<1>2. hooks = [k \in DOMAIN hooks |-> hooks[k]]
  BY DEF Init, HooksInit
<1> QED BY <1>1, <1>2 DEF HooksInv, HooksTypeOK, HooksUndone, Values

(* Setting a hook: the slot still held what the loader put there. *)
LEMMA SetKeeps ==
  ASSUME HooksInv, Again = FALSE,
         NEW name \in ClientNames, NEW f \in Functions, NEW new \in Replacements,
         IatSet(name, f, new)
  PROVE  HooksInv'
<1> DEFINE key == <<name, f>>
<1>1. key \notin DOMAIN hooks /\ f \notin lost
  BY DEF IatSet
<1>2. slot[f] = Genuine
  BY <1>1, OneRecord, UndoneEach DEF HooksInv, Undone
<1>3. slot' = [slot EXCEPT ![f] = new] /\ lost' = lost \ {f}
  BY DEF IatSet
<1>4. DOMAIN hooks' = DOMAIN hooks \cup {key}
  BY DEF IatSet
<1>5. hooks'[key].original = Genuine /\ \A k \in DOMAIN hooks : hooks'[k] = hooks[k]
  BY <1>1, <1>2 DEF IatSet, saved
<1>6. HooksTypeOK'
  <2>1. slot' \in [Functions -> Values]
    BY <1>3 DEF HooksInv, HooksTypeOK, Values
  <2>2. hooks' = [k \in DOMAIN hooks' |-> hooks'[k]]
    BY <1>4 DEF IatSet
  <2>3. DOMAIN hooks' \subseteq ClientNames \X Functions
    BY <1>4 DEF HooksInv, HooksTypeOK
  <2> QED BY <2>1, <2>2, <2>3 DEF HooksTypeOK
<1>7. ASSUME NEW g \in Functions PROVE Undone(g)'
  <2>1. CASE g = f
    <3>1. slot'[g] = new /\ new # Genuine
      BY <1>3, <2>1, HookAssumption DEF HooksInv, HooksTypeOK
    <3>2. Records(g)' = {key}
      BY <1>1, <1>4, <2>1, OneRecord DEF HooksInv, Records
    <3> QED BY <1>5, <3>1, <3>2 DEF Undone
  <2>2. CASE g # f
    <3>1. slot'[g] = slot[g] /\ (g \in lost' <=> g \in lost)
      BY <1>3, <2>2 DEF HooksInv, HooksTypeOK
    <3>2. Records(g)' = Records(g)
      BY <1>4, <2>2 DEF Records
    <3>3. Undone(g)
      BY UndoneEach DEF HooksInv
    <3> QED BY <1>5, <3>1, <3>2, <3>3 DEF Undone, Records
  <2> QED BY <2>1, <2>2
<1>8. HooksUndone'
  BY <1>7 DEF HooksUndone, Undone, Records
<1> QED BY <1>6, <1>8 DEF HooksInv

(* Restoring from a record: the slot is the loader's again, or lost. *)
LEMMA RestoreKeeps ==
  ASSUME HooksInv, NEW name \in ClientNames, NEW f \in Functions, IatRestore(name, f)
  PROVE  HooksInv'
<1> DEFINE key == <<name, f>>
<1>1. key \in DOMAIN hooks /\ hooks[key].original = Genuine
  BY UndoneEach DEF IatRestore, HooksInv, Undone, Records
<1>2. DOMAIN hooks' = DOMAIN hooks \ {key} /\ \A k \in DOMAIN hooks' : hooks'[k] = hooks[k]
  BY DEF IatRestore
<1>3. \/ slot' = [slot EXCEPT ![f] = Genuine] /\ lost' = lost
      \/ slot' = slot /\ lost' = lost \cup {f}
  BY <1>1 DEF IatRestore
<1>4. HooksTypeOK'
  <2>1. slot' \in [Functions -> Values]
    BY <1>3 DEF HooksInv, HooksTypeOK, Values
  <2>2. hooks' = [k \in DOMAIN hooks' |-> hooks'[k]]
    BY <1>2 DEF IatRestore
  <2>3. DOMAIN hooks' \subseteq ClientNames \X Functions
    BY <1>2 DEF HooksInv, HooksTypeOK
  <2> QED BY <2>1, <2>2, <2>3 DEF HooksTypeOK
<1>5. ASSUME NEW g \in Functions PROVE Undone(g)'
  <2>1. CASE g = f
    <3>1. Records(g)' = {}
      BY <1>1, <1>2, <2>1, OneRecord DEF HooksInv, Records
    <3>2. slot'[g] = Genuine \/ g \in lost'
      BY <1>3, <2>1 DEF HooksInv, HooksTypeOK
    <3> QED BY <3>1, <3>2 DEF Undone
  <2>2. CASE g # f
    <3>1. slot'[g] = slot[g] /\ (g \in lost' <=> g \in lost)
      BY <1>3, <2>2 DEF HooksInv, HooksTypeOK
    <3>2. Records(g)' = Records(g)
      BY <1>2, <2>2 DEF Records
    <3>3. Undone(g)
      BY UndoneEach DEF HooksInv
    <3> QED BY <1>2, <3>1, <3>2, <3>3 DEF Undone, Records
  <2> QED BY <2>1, <2>2
<1>6. HooksUndone'
  BY <1>5 DEF HooksUndone, Undone, Records
<1> QED BY <1>4, <1>6 DEF HooksInv

(* Restoring by hand what the loader put there. *)
LEMMA RestoreWithKeeps ==
  ASSUME HooksInv, NEW name \in ClientNames, NEW f \in Functions,
         IatRestoreWith(name, f, Genuine)
  PROVE  HooksInv'
<1>1. /\ hooks' = hooks /\ slot' = [slot EXCEPT ![f] = Genuine] /\ lost' = lost \ {f}
      /\ <<name, f>> \notin DOMAIN hooks
  BY DEF IatRestoreWith
<1>2. Records(f) = {}
  BY <1>1, OneRecord DEF HooksInv
<1>3. HooksTypeOK'
  BY <1>1 DEF HooksInv, HooksTypeOK, Values
<1>4. ASSUME NEW g \in Functions PROVE Undone(g)'
  <2>1. Undone(g) /\ Records(g)' = Records(g)
    BY <1>1, UndoneEach DEF HooksInv, Records
  <2>2. CASE g = f
    BY <1>1, <1>2, <2>1, <2>2 DEF Undone, HooksInv, HooksTypeOK
  <2>3. CASE g # f
    BY <1>1, <2>1, <2>3 DEF Undone, HooksInv, HooksTypeOK
  <2> QED BY <2>2, <2>3
<1>5. HooksUndone'
  BY <1>4 DEF HooksUndone, Undone, Records
<1> QED BY <1>3, <1>5 DEF HooksInv

(* The steps of the target, the questions and the reads leave slots and    *)
(* records alone.                                                          *)
LEMMA StepKeeps ==
  ASSUME HooksInv, Again = FALSE, [Next]_vars
  PROVE  HooksInv'
<1>1. CASE UNCHANGED hookVars
  BY <1>1 DEF hookVars, HooksInv, HooksTypeOK, HooksUndone
<1>2. CASE Hooking
  <2>1. PICK name \in ClientNames, f \in Functions :
          \/ \E new \in Replacements : IatSet(name, f, new)
          \/ IatRestore(name, f)
          \/ IatRestoreWith(name, f, Genuine)
    BY <1>2 DEF Hooking
  <2> QED BY <2>1, SetKeeps, RestoreKeeps, RestoreWithKeeps
<1>3. UNCHANGED hookVars \/ Hooking
  BY DEF Next, TargetStep, ClientStep, ReadStep, vars
<1> QED BY <1>1, <1>2, <1>3

(* Every redirected slot can be given back (iat.py set, restore): for a    *)
(* client that redirects no slot twice.                                    *)
THEOREM HooksCanBeUndone == (Again = FALSE) => (Spec => []HooksUndone)
<1> SUFFICES ASSUME Again = FALSE PROVE Spec => []HooksUndone
  OBVIOUS
<1>1. Init => HooksInv
  BY InitHolds
<1>2. HooksInv /\ [Next]_vars => HooksInv'
  BY StepKeeps
<1>3. HooksInv => HooksUndone
  BY DEF HooksInv
<1> QED BY <1>1, <1>2, <1>3, PTL DEF Spec

-----------------------------------------------------------------------------
(* What the debugger says of the modules. *)

Extent(i, base) == base .. base + SizeOf[i] - 1

(* No image is ever mapped over an address that another base of an image   *)
(* reaches: a record that outlived its image answers for its base only.    *)
BasesApart ==
  \A i, j \in Images : \A b \in BasesOf[i], c \in BasesOf[j] :
    b # c => Extent(i, b) \cap Extent(j, c) = {}

Disjoint == \A i, j \in DOMAIN mapped : i # j => Span(i) \cap Span(j) = {}

(* An image is mapped at a base, or was. *)
Was(i, b) == b \in BasesOf[i] /\ (i \in ImageAt(b) \/ <<i, b>> \in departed)

(* A record's size is the size of an image that is mapped at its base, or  *)
(* was.                                                                    *)
RecordsTrue ==
  /\ recorded = [b \in DOMAIN recorded |-> recorded[b]]
  /\ \A b \in DOMAIN recorded :
       /\ b \in Nat
       /\ recorded[b] = 0 \/ \E i \in Images : Was(i, b) /\ recorded[b] = SizeOf[i]

PendingTrue ==
  pending # NoModule =>
    /\ pending.type \in {"CREATE_PROCESS", "LOAD_DLL", "UNLOAD_DLL"}
    /\ pending.type \in {"CREATE_PROCESS", "LOAD_DLL"}
         => pending.image \in DOMAIN mapped /\ pending.base = mapped[pending.image]
    /\ pending.type = "UNLOAD_DLL" => pending.image \notin DOMAIN mapped

AnnouncedRecorded == \A i \in Announced : mapped[i] \in DOMAIN recorded

TableInv ==
  /\ MapInv /\ Disjoint /\ listed \subseteq DOMAIN mapped
  /\ RecordsTrue /\ PendingTrue /\ AnnouncedRecorded

LEMMA Places ==
  ASSUME NEW i \in Images, NEW b \in BasesOf[i]
  PROVE  /\ b \in Nat /\ b # 0 /\ SizeOf[i] \in Nat \ {0}
         /\ b \in Extent(i, b) /\ b + SizeOf[i] - 1 \in Extent(i, b)
<1>1. b \in 1 .. (Pages * PageSize - SizeOf[i]) /\ SizeOf[i] \in Nat \ {0}
  BY SpaceAssumption
<1>2. Pages * PageSize \in Nat
  BY SpaceAssumption
<1>3. b \in Nat /\ b # 0
  BY <1>1, <1>2
<1> QED BY <1>1, <1>3 DEF Extent

(* An image is the only one at its base, and the header read there is its  *)
(* own.                                                                    *)
LEMMA OneAtBase ==
  ASSUME TableInv, NEW i \in DOMAIN mapped
  PROVE  /\ ImageAt(mapped[i]) = {i}
         /\ mapped[i] \in Nat /\ mapped[i] # 0 /\ mapped[i] \in Span(i)
         /\ HeaderReadable(i) => header_size(mapped[i]) = SizeOf[i]
<1>1. \A j \in DOMAIN mapped : mapped[j] \in Nat /\ mapped[j] # 0 /\ mapped[j] \in Span(j)
  BY Places DEF TableInv, MapInv, Span, Extent
<1>2. ImageAt(mapped[i]) = {i}
  BY <1>1 DEF ImageAt, TableInv, Disjoint
<1>3. Holding(mapped[i]) # {}
  BY <1>1 DEF Holding
<1>4. HeaderReadable(i) => header_size(mapped[i]) = SizeOf[i]
  BY <1>2, <1>3 DEF HeaderReadable, header_size, Readable
<1> QED BY <1>1, <1>2, <1>4

(* What a decorated record says of the image mapped at its base. *)
LEMMA Decorated ==
  ASSUME TableInv, NEW i \in DOMAIN mapped, NEW size, NEW source
  PROVE  Is(decorate(mapped[i], size, source), i)
<1>1. HeaderReadable(i) => header_size(mapped[i]) = SizeOf[i] /\ SizeOf[i] # 0
  BY OneAtBase, SpaceAssumption DEF TableInv, MapInv
<1> QED BY <1>1 DEF Is, decorate

LEMMA TypeDecorated ==
  ASSUME TableInv, NEW b \in Nat, NEW size \in Nat, NEW source \in {"psapi", "events"}
  PROVE  /\ decorate(b, size, source) # NoModule
         /\ decorate(b, size, source).size = size \/ 
              \E i \in ImageAt(b) : decorate(b, size, source).size = SizeOf[i]
         /\ \A i \in Images :
              /\ decorate(b, size, source).name # NoModule
              /\ decorate(b, size, source).name.image = i
              => i \in ImageAt(b)
<1> DEFINE m == decorate(b, size, source)
<1>1. ImageAt(b) \subseteq Images
  BY DEF ImageAt, TableInv, MapInv
<1>2. header_size(b) = 0 \/ \E i \in ImageAt(b) : header_size(b) = SizeOf[i]
  BY DEF header_size
<1>3. header_size(b) \in Nat
  BY <1>1, <1>2, SpaceAssumption
<1>4. m.size = size \/ \E i \in ImageAt(b) : m.size = SizeOf[i]
  BY <1>2 DEF decorate
<1>5. \/ module_file_name(b) = NoModule
      \/ \E i \in ImageAt(b) : \E full \in BOOLEAN : module_file_name(b) = [full |-> full, image |-> i]
  <2>1. CASE ready /\ ImageAt(b) \cap listed # {}
    <3>1. (CHOOSE i \in ImageAt(b) \cap listed : TRUE) \in ImageAt(b)
      BY <2>1
    <3> QED BY <2>1, <3>1 DEF module_file_name, Path
  <2>2. CASE ~(ready /\ ImageAt(b) \cap listed # {})
    <3> DEFINE named == {i \in ImageAt(b) \ {Exe} : Readable(b) /\ Readable(b + SizeOf[i] - 1)}
    <3>1. module_file_name(b) = IF named = {} THEN NoModule ELSE ExportName(CHOOSE i \in named : TRUE)
      BY <2>2 DEF module_file_name, export_name
    <3>2. named # {} => (CHOOSE i \in named : TRUE) \in ImageAt(b)
      OBVIOUS
    <3> QED BY <3>1, <3>2 DEF ExportName
  <2> QED BY <2>1, <2>2
<1>6. m \in [base : Nat, source : {"psapi", "events"},
             name : [full : BOOLEAN, image : Images] \cup {NoModule}, size : Nat]
  <2>1. module_file_name(b) \in [full : BOOLEAN, image : Images] \cup {NoModule}
    BY <1>1, <1>5
  <2>2. m.size \in Nat
    BY <1>3 DEF decorate
  <2> QED BY <2>1, <2>2 DEF decorate
<1>7. ASSUME NEW i \in Images, m.name # NoModule, m.name.image = i
      PROVE  i \in ImageAt(b)
  <2>1. m.name = module_file_name(b)
    BY DEF decorate
  <2> QED BY <1>5, <1>7, <2>1
<1> QED BY <1>4, <1>6, <1>7, NoneAssumption

(* What the listing is made of. *)
LEMMA Listing ==
  ASSUME TableInv, NEW m \in enumerate
  PROVE  \E b \in Nat, size \in Nat, source \in {"psapi", "events"} :
           /\ m = decorate(b, size, source)
           /\ source = "psapi" => b \in {mapped[i] : i \in listed}
<1>1. CASE m \in enum_process_modules
  <2>1. PICK i \in listed : m = decorate(mapped[i], 0, "psapi")
    BY <1>1 DEF enum_process_modules
  <2>2. mapped[i] \in Nat
    BY OneAtBase DEF TableInv
  <2> QED BY <2>1, <2>2
<1>2. CASE m \notin enum_process_modules
  <2>1. PICK b \in DOMAIN recorded : m = decorate(b, recorded[b], "events")
    BY <1>2 DEF enumerate, merge_event_modules
  <2>2. b \in Nat /\ recorded[b] \in Nat
    BY SpaceAssumption DEF TableInv, RecordsTrue
  <2> QED BY <2>1, <2>2
<1> QED BY <1>1, <1>2

(* An image that PSAPI or the table knows is listed once. *)
LEMMA ListedOnce ==
  ASSUME TableInv, NEW i \in Announced \cup (IF ready THEN listed ELSE {})
  PROVE  /\ i \in DOMAIN mapped
         /\ \E m \in enumerate : {n \in enumerate : n.base = mapped[i]} = {m} /\ Is(m, i)
<1>1. i \in DOMAIN mapped
  BY DEF Announced, TableInv
<1> DEFINE psapi == decorate(mapped[i], 0, "psapi")
           event == decorate(mapped[i], recorded[mapped[i]], "events")
           known == {m.base : m \in enum_process_modules}
<1>2. Is(psapi, i) /\ Is(event, i) /\ psapi.base = mapped[i] /\ event.base = mapped[i]
  BY <1>1, Decorated DEF Is
<1>3. CASE ready /\ i \in listed
  <2>1. psapi \in enum_process_modules
    BY <1>3 DEF enum_process_modules
  <2>2. \A n \in enum_process_modules : n.base = mapped[i] => n = psapi
    BY <1>3 DEF enum_process_modules, decorate
  <2>3. mapped[i] \in known
    BY <1>2, <2>1
  <2>4. \A n \in enumerate \ enum_process_modules : n.base # mapped[i]
    BY <2>3 DEF enumerate, merge_event_modules, decorate
  <2>5. psapi \in enumerate
    BY <2>1 DEF enumerate, merge_event_modules
  <2>6. {n \in enumerate : n.base = mapped[i]} = {psapi}
    BY <1>2, <2>2, <2>4, <2>5
  <2> QED BY <1>1, <1>2, <2>5, <2>6
<1>4. CASE ~(ready /\ i \in listed)
  <2>1. i \in Announced /\ mapped[i] \in DOMAIN recorded
    BY <1>4 DEF TableInv, AnnouncedRecorded
  <2>2. mapped[i] \notin known
    <3> SUFFICES ASSUME NEW j \in listed, ready, mapped[j] = mapped[i] PROVE FALSE
      BY DEF enum_process_modules, decorate
    <3>1. j \in ImageAt(mapped[i]) /\ ImageAt(mapped[i]) = {i}
      BY <1>1, OneAtBase DEF ImageAt, TableInv
    <3> QED BY <1>4, <3>1
  <2>3. event \in enumerate
    BY <2>1, <2>2 DEF enumerate, merge_event_modules
  <2>4. \A n \in enumerate : n.base = mapped[i] => n = event
    BY <2>2 DEF enumerate, merge_event_modules, decorate
  <2>5. {n \in enumerate : n.base = mapped[i]} = {event}
    BY <1>2, <2>3, <2>4
  <2> QED BY <1>1, <1>2, <2>3, <2>5
<1> QED BY <1>3, <1>4

LEMMA AllTrue ==
  ASSUME TableInv
  PROVE  ListsTheMapped(enumerate)
<1>1. ASSUME NEW i \in Announced \cup (IF ready THEN listed ELSE {})
      PROVE  /\ Cardinality({m \in enumerate : m.base = mapped[i]}) = 1
             /\ \E m \in enumerate : Is(m, i)
  <2>1. PICK m \in enumerate : {n \in enumerate : n.base = mapped[i]} = {m} /\ Is(m, i)
    BY ListedOnce
  <2> QED BY <2>1, FS_Singleton
<1>2. ASSUME NEW m \in enumerate, m.source = "psapi" PROVE ImageAt(m.base) # {}
  <2>1. PICK b \in Nat, size \in Nat, source \in {"psapi", "events"} :
           /\ m = decorate(b, size, source)
           /\ source = "psapi" => b \in {mapped[i] : i \in listed}
    BY Listing
  <2>2. m.source = source /\ m.base = b
    BY <2>1 DEF decorate
  <2>3. PICK i \in listed : m.base = mapped[i]
    BY <1>2, <2>1, <2>2
  <2> QED BY <2>3 DEF ImageAt, TableInv
<1> QED BY <1>1, <1>2 DEF ListsTheMapped

(* The least of modules that all have one base is any of them. *)
LEMMA LowestOfOne ==
  ASSUME NEW modules, modules # {}, NEW base \in Nat, \A m \in modules : m.base = base
  PROVE  Lowest(modules) \in modules
<1>1. \E m \in modules : \A n \in modules : m.base <= n.base
  OBVIOUS
<1> QED BY <1>1 DEF Lowest

(* The record a question about an address finds. *)
LEMMA AtMapped ==
  ASSUME BasesApart, TableInv, NEW addr,
         NEW i \in Announced, addr \in Span(i), HeaderReadable(i)
  PROVE  module_at(addr) # NoModule /\ Is(module_at(addr), i)
<1> DEFINE base == mapped[i]
           record == decorate(base, recorded[base], "events")
           holding == {m \in decorated_records :
                         /\ m.size # 0 /\ m.base <= addr /\ addr < m.base + m.size}
<1>1. i \in DOMAIN mapped /\ i \in Images /\ base \in DOMAIN recorded /\ base \in BasesOf[i]
  BY DEF Announced, TableInv, AnnouncedRecorded, MapInv
<1>2. base \in Nat /\ SizeOf[i] \in Nat \ {0} /\ addr \in Extent(i, base)
  BY <1>1, Places DEF Span, Extent
<1>3. record.base = base /\ record.size = SizeOf[i]
  BY <1>1, Decorated DEF Is, decorate
<1>4. record \in holding
  <2>1. record \in decorated_records
    BY <1>1 DEF decorated_records
  <2> QED BY <2>1, <1>2, <1>3 DEF Extent
<1>5. ASSUME NEW m \in holding PROVE m = record
  <2>1. PICK b \in DOMAIN recorded : m = decorate(b, recorded[b], "events")
    BY DEF decorated_records
  <2>2. b \in Nat /\ recorded[b] \in Nat
    BY SpaceAssumption DEF TableInv, RecordsTrue
  <2>3. m.base = b
    BY <2>1 DEF decorate
  <2>4. PICK j \in Images : b \in BasesOf[j] /\ m.size = SizeOf[j]
    <3>0. m.size # 0
      OBVIOUS
    <3>1. CASE m.size = recorded[b]
      BY <2>2, <2>1, <3>1, <3>0 DEF TableInv, RecordsTrue, Was
    <3>2. CASE \E j \in ImageAt(b) : m.size = SizeOf[j]
      BY <3>2 DEF ImageAt, TableInv, MapInv
    <3> QED BY <2>1, <2>2, <3>1, <3>2, TypeDecorated
  <2>5. addr \in Extent(j, b)
    BY <1>2, <2>2, <2>3, <2>4, SpaceAssumption DEF Extent
  <2>6. b = base
    BY <1>1, <1>2, <2>4, <2>5 DEF BasesApart
  <2> QED BY <2>1, <2>6
<1>6. Lowest(holding) = record
  <2>1. \A m \in holding : m.base = base
    BY <1>3, <1>5
  <2> QED BY <1>2, <1>4, <1>5, <2>1, LowestOfOne
<1>7. module_at(addr) = record
  <2>1. recorded # <<>>
    BY <1>1
  <2>2. find_containing(decorated_records, addr) = Lowest(holding)
    BY <1>4 DEF find_containing
  <2> QED BY <1>6, <2>1, <2>2 DEF module_at
<1>8. record # NoModule
  <2>1. recorded[base] \in Nat
    BY <1>1, SpaceAssumption DEF TableInv, RecordsTrue
  <2> QED BY <1>2, <2>1, TypeDecorated
<1> QED BY <1>1, <1>7, <1>8, Decorated

(* What a record, or an entry of PSAPI's, with a size is of.  *)
LEMMA SizedTrue ==
  ASSUME TableInv, NEW b \in Nat, NEW size \in Nat, NEW source,
         size = 0 \/ \E i \in Images : Was(i, b) /\ size = SizeOf[i],
         decorate(b, size, source).size # 0
  PROVE  \/ \E i \in ImageAt(b) : decorate(b, size, source).size = SizeOf[i]
         \/ IsGone(decorate(b, size, source))
<1> DEFINE m == decorate(b, size, source)
<1>1. m.base = b /\ m.size = IF header_size(b) # 0 THEN header_size(b) ELSE size
  BY DEF decorate
<1> HIDE DEF m
<1>2. CASE header_size(b) # 0
  BY <1>1, <1>2 DEF header_size, m
<1>3. CASE header_size(b) = 0
  <2>1. PICK i \in Images : Was(i, b) /\ m.size = SizeOf[i]
    BY <1>1, <1>3 DEF m
  <2>2. ASSUME NEW j \in ImageAt(b) PROVE ~HeaderReadable(j)
    <3>1. j \in DOMAIN mapped /\ mapped[j] = b /\ SizeOf[j] # 0
      BY SpaceAssumption DEF ImageAt, TableInv, MapInv
    <3> QED BY <1>3, <3>1, OneAtBase
  <2> QED BY <1>1, <2>1, <2>2 DEF Was, IsGone, m
<1> QED BY <1>2, <1>3

(* A module said to hold an address is there, or was.                      *)
LEMMA AtFound ==
  ASSUME TableInv, NEW addr \in Nat, module_at(addr) # NoModule
  PROVE  LET m == module_at(addr) IN
         /\ addr \in m.base .. m.base + m.size - 1
         /\ (\E i \in ImageAt(m.base) : m.size = SizeOf[i]) \/ IsGone(m)
<1> DEFINE modules == IF recorded = <<>> THEN enumerate ELSE decorated_records
           holding == {m \in modules : /\ m.size # 0
                                        /\ m.base <= addr /\ addr < m.base + m.size}
<1>1. ASSUME NEW m \in modules
      PROVE  \E b \in Nat, size \in Nat, source \in {"psapi", "events"} :
               /\ m = decorate(b, size, source)
               /\ size = 0 \/ \E i \in Images : Was(i, b) /\ size = SizeOf[i]
  <2>1. ASSUME NEW b \in DOMAIN recorded
        PROVE  /\ b \in Nat /\ recorded[b] \in Nat
               /\ recorded[b] = 0 \/ \E i \in Images : Was(i, b) /\ recorded[b] = SizeOf[i]
    BY SpaceAssumption DEF TableInv, RecordsTrue
  <2>2. CASE m \in enum_process_modules
    <3>1. PICK i \in listed : m = decorate(mapped[i], 0, "psapi")
      BY <2>2 DEF enum_process_modules
    <3>2. mapped[i] \in Nat
      BY OneAtBase DEF TableInv
    <3> QED BY <3>1, <3>2
  <2>3. CASE m \notin enum_process_modules
    <3>1. PICK b \in DOMAIN recorded : m = decorate(b, recorded[b], "events")
      BY <2>3 DEF enumerate, merge_event_modules, decorated_records
    <3> QED BY <2>1, <3>1
  <2> QED BY <2>2, <2>3
<1>2. module_at(addr) = IF holding = {} THEN NoModule ELSE Lowest(holding)
  BY DEF module_at, find_containing
<1>3. holding # {} /\ module_at(addr) = Lowest(holding)
  BY <1>2
<1>4. \A m \in holding : m.base \in Nat
  BY <1>1 DEF decorate
<1>5. Lowest(holding) \in holding
  <2> DEFINE bases == {m.base : m \in holding}
  <2>1. bases \subseteq Nat /\ bases # {}
    <3> HIDE DEF holding
    <3> QED BY <1>3, <1>4
  <2>2. PICK b \in bases : \A c \in bases : b <= c
    <3> HIDE DEF bases
    <3> QED BY <2>1, LeastElement
  <2>3. \E m \in holding : \A n \in holding : m.base <= n.base
    <3> HIDE DEF holding
    <3> QED BY <2>2
  <2> HIDE DEF holding
  <2> QED BY <2>3 DEF Lowest
<1> DEFINE m == Lowest(holding)
<1>6. m \in modules /\ m.size # 0 /\ m.base <= addr /\ addr < m.base + m.size
  <2> HIDE DEF modules
  <2> QED BY <1>5
<1> HIDE DEF m, holding, modules
<1>7. PICK b \in Nat, size \in Nat, source \in {"psapi", "events"} :
        /\ m = decorate(b, size, source)
        /\ size = 0 \/ \E i \in Images : Was(i, b) /\ size = SizeOf[i]
  BY <1>1, <1>6
<1>8. m.base = b
  BY <1>7 DEF decorate
<1>9. (\E i \in ImageAt(b) : m.size = SizeOf[i]) \/ IsGone(m)
  BY <1>6, <1>7, SizedTrue
<1>10. m.size \in Nat
  BY <1>9, SpaceAssumption DEF IsGone, ImageAt, TableInv, MapInv
<1>11. addr \in m.base .. m.base + m.size - 1
  BY <1>6, <1>8, <1>10
<1> QED BY <1>3, <1>8, <1>9, <1>11 DEF m

LEMMA AtTrue ==
  ASSUME BasesApart, TableInv, NEW addr \in Nat
  PROVE  HoldsTheAddress(module_at(addr), addr)
BY AtMapped, AtFound DEF HoldsTheAddress

(* The module found by name. *)
LEMMA NamedTrue ==
  ASSUME TableInv, NEW i \in Images
  PROVE  NamesTheImage(find_module(i), i)
<1> DEFINE named == {m \in enumerate : m.name # NoModule /\ m.name.image = i}
<1>1. ASSUME NEW m \in named PROVE i \in DOMAIN mapped /\ m.base = mapped[i] /\ m # NoModule /\ Is(m, i)
  <2>1. PICK b \in Nat, size \in Nat, source \in {"psapi", "events"} : m = decorate(b, size, source)
    BY Listing
  <2>2. i \in ImageAt(b) /\ m # NoModule
    BY <2>1, TypeDecorated
  <2>3. i \in DOMAIN mapped /\ mapped[i] = b
    BY <2>2 DEF ImageAt
  <2> QED BY <2>1, <2>2, <2>3, Decorated DEF Is
<1>2. ASSUME i \in listed, ready PROVE named # {}
  <2>1. i \in DOMAIN mapped
    BY <1>2 DEF TableInv
  <2> DEFINE m == decorate(mapped[i], 0, "psapi")
  <2>2. m \in enumerate
    BY <1>2 DEF enumerate, merge_event_modules, enum_process_modules
  <2>3. ImageAt(mapped[i]) \cap listed = {i}
    BY <1>2, <2>1, OneAtBase
  <2>4. m.name = Path(i)
    BY <1>2, <2>3 DEF decorate, module_file_name
  <2>5. Path(i) # NoModule
    <3>1. Path(i) \in [full : BOOLEAN, image : Images]
      BY DEF Path
    <3> QED BY <3>1, NoneAssumption
  <2> QED BY <2>2, <2>4, <2>5 DEF Path
<1>3. CASE named = {}
  BY <1>2, <1>3 DEF find_module, NamesTheImage
<1>4. CASE named # {}
  <2>1. find_module(i) = Lowest(named)
    BY <1>4 DEF find_module
  <2>2. i \in DOMAIN mapped /\ mapped[i] \in Nat
    BY <1>1, <1>4, OneAtBase
  <2>3. Lowest(named) \in named
    BY <1>1, <1>4, <2>2, LowestOfOne
  <2> QED BY <1>1, <2>1, <2>3 DEF NamesTheImage
<1> QED BY <1>3, <1>4

(* The image an event is parsed as. *)
LEMMA ParsedTrue ==
  ASSUME TableInv, NEW event
  PROVE  \/ parse_loaded_dll(event) = event.image
         \/ ImageAt(event.base) = {parse_loaded_dll(event)}
<1> DEFINE there == {i \in ImageAt(event.base) : \A a \in Span(i) : Readable(a)}
<1>1. CASE there = {}
  BY <1>1 DEF parse_loaded_dll
<1>2. CASE there # {}
  <2>1. parse_loaded_dll(event) \in ImageAt(event.base)
    BY <1>2 DEF parse_loaded_dll
  <2>2. ImageAt(event.base) = {parse_loaded_dll(event)}
    BY <2>1, OneAtBase DEF ImageAt
  <2> QED BY <2>2
<1> QED BY <1>1, <1>2

(* A question is answered from the state it is asked in. *)
LEMMA QuestionTrue ==
  ASSUME BasesApart, TableInv, Questions
  PROVE  ModulesTrue'
<1>1. UNCHANGED targetVars
  BY DEF Questions, EnumModules, ModuleAt, FindModule, ParseLoadedDll
<1>2. CASE EnumModules
  <2>1. answer' = [of |-> "all", modules |-> enumerate]
    BY <1>2 DEF EnumModules
  <2>2. ASSUME NEW listing, ListsTheMapped(listing) PROVE ListsTheMapped(listing)'
    BY <1>1, <2>2 DEF targetVars, ListsTheMapped, Announced, ImageAt, HeaderReadable, Is
  <2> HIDE DEF enumerate
  <2> QED BY <2>1, <2>2, AllTrue DEF ModulesTrue
<1>3. CASE \E addr \in Asked : ModuleAt(addr)
  <2>1. PICK addr \in Asked : answer' = [of |-> "at", addr |-> addr, module |-> module_at(addr)]
    BY <1>3 DEF ModuleAt
  <2>2. ASSUME NEW m, HoldsTheAddress(m, addr) PROVE HoldsTheAddress(m, addr)'
    BY <1>1, <2>2
       DEF targetVars, HoldsTheAddress, Announced, HeaderReadable, Is, Span, IsGone, ImageAt
  <2>3. addr \in Nat
    BY SpaceAssumption
  <2> QED BY <2>1, <2>2, <2>3, AtTrue DEF ModulesTrue
<1>4. CASE \E i \in Images : FindModule(i)
  <2>1. PICK i \in Images : answer' = [of |-> "named", image |-> i, module |-> find_module(i)]
    BY <1>4 DEF FindModule
  <2>2. ASSUME NEW m, NamesTheImage(m, i) PROVE NamesTheImage(m, i)'
    BY <1>1, <2>2 DEF targetVars, NamesTheImage, HeaderReadable, Is
  <2> QED BY <2>1, <2>2, NamedTrue DEF ModulesTrue
<1>5. CASE ParseLoadedDll
  <2>1. answer' = [of |-> "parsed", event |-> held, image |-> parse_loaded_dll(held)]
    BY <1>5 DEF ParseLoadedDll
  <2>2. \A base : ImageAt(base)' = ImageAt(base)
    BY <1>1 DEF targetVars, ImageAt
  <2> QED BY <2>1, <2>2, ParsedTrue DEF ModulesTrue
<1> QED BY <1>2, <1>3, <1>4, <1>5 DEF Questions

(* The loader's steps and the events that tell of them. *)
LEMMA LoadKeeps ==
  ASSUME TableInv, NEW i \in Images, NEW base \in BasesOf[i], Load(i, base), MapInv'
  PROVE  TableInv'
<1>1. /\ mapped' = [j \in DOMAIN mapped \cup {i} |-> IF j = i THEN base ELSE mapped[j]]
      /\ i \notin DOMAIN mapped /\ pending = NoModule
      /\ pending' = [type |-> "LOAD_DLL", image |-> i, base |-> base]
      /\ \A a \in Extent(i, base) : Holding(a) = {}
      /\ UNCHANGED <<listed, recorded, departed>>
  BY DEF Load, Running, Extent
<1>2. DOMAIN mapped' = DOMAIN mapped \cup {i}
  BY <1>1
<1>3. \A j \in DOMAIN mapped : mapped'[j] = mapped[j] /\ Span(j)' = Span(j)
  BY <1>1 DEF Span
<1>4. mapped'[i] = base /\ Span(i)' = Extent(i, base)
  BY <1>1 DEF Span, Extent
<1>5. Disjoint'
  <2>1. \A j \in DOMAIN mapped : Span(j) \cap Extent(i, base) = {}
    BY <1>1 DEF Holding
  <2> QED BY <1>2, <1>3, <1>4, <2>1 DEF Disjoint, TableInv
<1>6. RecordsTrue' /\ listed' \subseteq DOMAIN mapped'
  <2>1. \A j, b : Was(j, b) => Was(j, b)'
    BY <1>1, <1>2, <1>3 DEF Was, ImageAt
  <2> QED BY <1>1, <1>2, <2>1 DEF RecordsTrue, TableInv
<1>7. PendingTrue'
  BY <1>1, <1>4 DEF PendingTrue
<1>8. AnnouncedRecorded'
  <2>1. pending' # NoModule
    BY <1>1, Places, NoneAssumption
  <2>2. Announced' = DOMAIN mapped /\ Announced = DOMAIN mapped
    BY <1>1, <1>2, <2>1 DEF Announced
  <2> QED BY <1>1, <1>3, <2>2 DEF AnnouncedRecorded, TableInv
<1> QED BY <1>5, <1>6, <1>7, <1>8 DEF TableInv

LEMMA UnloadKeeps ==
  ASSUME TableInv, NEW i \in Images, Unload(i), MapInv'
  PROVE  TableInv'
<1>1. /\ mapped' = [j \in DOMAIN mapped \ {i} |-> mapped[j]]
      /\ pending = NoModule /\ pending'.type = "UNLOAD_DLL" /\ pending'.image = i
      /\ listed' = listed \ {i} /\ recorded' = recorded
      /\ departed' = departed \cup {<<i, mapped[i]>>}
  BY DEF Unload, Running
<1>2. DOMAIN mapped' = DOMAIN mapped \ {i}
  BY <1>1
<1>3. \A j \in DOMAIN mapped' : mapped'[j] = mapped[j] /\ Span(j)' = Span(j)
  BY <1>1 DEF Span
<1>4. Disjoint'
  BY <1>2, <1>3 DEF Disjoint, TableInv
<1>5. RecordsTrue' /\ listed' \subseteq DOMAIN mapped'
  <2>1. \A j, b : Was(j, b) => Was(j, b)'
    BY <1>1, <1>2, <1>3 DEF Was, ImageAt
  <2> QED BY <1>1, <1>2, <2>1 DEF RecordsTrue, TableInv
<1>6. PendingTrue'
  BY <1>1, <1>2 DEF PendingTrue
<1>7. AnnouncedRecorded'
  <2>1. Announced' \subseteq DOMAIN mapped' /\ DOMAIN mapped \subseteq Announced
    BY <1>1 DEF Announced
  <2> QED BY <1>1, <1>2, <1>3, <2>1 DEF AnnouncedRecorded, TableInv
<1> QED BY <1>4, <1>5, <1>6, <1>7 DEF TableInv

LEMMA WaitKeeps ==
  ASSUME TableInv, WaitEvent, MapInv'
  PROVE  TableInv'
<1>1. /\ pending # NoModule /\ pending' = NoModule /\ UNCHANGED <<mapped, listed, departed>>
      /\ recorded' = IF pending.type \in {"CREATE_PROCESS", "LOAD_DLL"}
                     THEN record_module(pending.base) ELSE recorded
  BY DEF WaitEvent, Running
<1>2. Disjoint' /\ listed' \subseteq DOMAIN mapped'
  BY <1>1 DEF Disjoint, Span, TableInv
<1>3. PendingTrue'
  BY <1>1 DEF PendingTrue
<1>4. /\ DOMAIN recorded \subseteq DOMAIN recorded'
      /\ \A b \in DOMAIN recorded : recorded'[b] = recorded[b]
  BY <1>1 DEF record_module
<1>5. RecordsTrue'
  <2>0. \A i, b : Was(i, b)' = Was(i, b)
    BY <1>1 DEF Was, ImageAt
  <2>1. recorded = [b \in DOMAIN recorded |-> recorded[b]]
    BY DEF TableInv, RecordsTrue
  <2>2. CASE recorded' = recorded
    BY <2>0, <2>2 DEF RecordsTrue, TableInv
  <2>3. CASE recorded' # recorded
    <3>1. pending.type \in {"CREATE_PROCESS", "LOAD_DLL"} /\ pending.base \in Nat
      BY <1>1, <2>3, OneAtBase DEF TableInv, PendingTrue
    <3>2. /\ DOMAIN recorded' = DOMAIN recorded \cup {pending.base}
          /\ recorded' = [b \in DOMAIN recorded' |-> recorded'[b]]
          /\ pending.base \notin DOMAIN recorded /\ recorded'[pending.base] = 0
      BY <1>1, <2>3, <3>1 DEF record_module
    <3> QED BY <1>4, <2>0, <3>1, <3>2 DEF RecordsTrue, TableInv
  <2> QED BY <2>2, <2>3
<1>6. AnnouncedRecorded'
  <2> SUFFICES ASSUME NEW i \in DOMAIN mapped PROVE mapped[i] \in DOMAIN recorded'
    BY <1>1 DEF AnnouncedRecorded, Announced
  <2>1. CASE i # pending.image
    BY <1>4, <2>1 DEF TableInv, AnnouncedRecorded, Announced
  <2>2. CASE i = pending.image
    <3>1. pending.type \in {"CREATE_PROCESS", "LOAD_DLL"} /\ pending.base = mapped[i]
      BY <1>1, <2>2 DEF TableInv, PendingTrue
    <3>2. mapped[i] # 0
      BY OneAtBase
    <3> QED BY <1>1, <3>1, <3>2 DEF record_module
  <2> QED BY <2>1, <2>2
<1> QED BY <1>2, <1>3, <1>5, <1>6 DEF TableInv

LEMMA TableInit == Init => TableInv
<1> SUFFICES ASSUME Init PROVE TableInv
  OBVIOUS
<1>1. PICK base \in BasesOf[Exe] :
        /\ mapped = [i \in {Exe} |-> base]
        /\ pending = [type |-> "CREATE_PROCESS", image |-> Exe, base |-> base]
        /\ listed = {} /\ recorded = <<>>
  BY DEF Init, ModulesInit
<1>2. MapInv /\ Disjoint /\ PendingTrue
  BY <1>1, SpaceAssumption DEF MapInv, Disjoint, PendingTrue
<1>3. RecordsTrue
  BY <1>1 DEF RecordsTrue
<1>4. Announced = {}
  <2>1. pending # NoModule
    BY <1>1, Places, SpaceAssumption, NoneAssumption
  <2> QED BY <1>1, <2>1 DEF Announced
<1> QED BY <1>1, <1>2, <1>3, <1>4 DEF TableInv, AnnouncedRecorded

(* What every step that maps and unmaps nothing and takes no event leaves. *)
LEMMA TableKeeps ==
  ASSUME TableInv, UNCHANGED <<mapped, pending>>, listed' \subseteq DOMAIN mapped,
         DOMAIN recorded' = DOMAIN recorded, RecordsTrue'
  PROVE  TableInv'
<1>1. MapInv' /\ Disjoint' /\ PendingTrue'
  BY DEF TableInv, MapInv, Disjoint, Span, PendingTrue
<1>2. AnnouncedRecorded'
  BY DEF TableInv, AnnouncedRecorded, Announced
<1> QED BY <1>1, <1>2 DEF TableInv

(* module_at leaves in each record the size it read, or the one it had. *)
LEMMA AskKeeps ==
  ASSUME TableInv, NEW addr, ModuleAt(addr)
  PROVE  RecordsTrue'
<1>1. recorded' = [b \in DOMAIN recorded |-> decorate(b, recorded[b], "events").size]
  BY DEF ModuleAt
<1>2. ASSUME NEW b \in DOMAIN recorded
      PROVE  /\ b \in Nat
             /\ \/ recorded'[b] = 0
                \/ \E i \in Images : Was(i, b) /\ recorded'[b] = SizeOf[i]
  <2>1. b \in Nat /\ recorded[b] \in Nat
    BY SpaceAssumption DEF TableInv, RecordsTrue
  <2>2. recorded'[b] = recorded[b] \/ \E i \in ImageAt(b) : recorded'[b] = SizeOf[i]
    BY <1>1, <2>1, TypeDecorated
  <2> QED BY <2>1, <2>2 DEF TableInv, RecordsTrue, ImageAt, MapInv, Was
<1>3. DOMAIN recorded' = DOMAIN recorded /\ recorded' = [b \in DOMAIN recorded' |-> recorded'[b]]
  BY <1>1
<1>4. \A i, b : Was(i, b)' = Was(i, b)
  BY DEF ModuleAt, targetVars, Was, ImageAt
<1> QED BY <1>2, <1>3, <1>4 DEF RecordsTrue

LEMMA TableStep ==
  ASSUME TableInv, [Next]_vars
  PROVE  TableInv'
<1>1. MapInv'
  BY MapStep DEF TableInv
<1>2. CASE TargetStep
  <2>1. CASE \E i \in Images : \E base \in BasesOf[i] : Load(i, base)
    <3>1. PICK i \in Images : \E base \in BasesOf[i] : Load(i, base)
      BY <2>1
    <3> QED BY <1>1, <3>1, LoadKeeps
  <2>2. CASE \E i \in Images : Unload(i)
    BY <1>1, <2>2, UnloadKeeps
  <2>3. CASE \/ \E i \in Images : Link(i)
             \/ LoaderReady
             \/ \E page \in 0 .. Pages - 1 : Protect(page)
    <3>1. /\ UNCHANGED <<mapped, pending, recorded, departed>>
          /\ listed' = listed \/ \E i \in DOMAIN mapped : listed' = listed \cup {i}
      BY <2>3 DEF Link, LoaderReady, Protect
    <3> QED BY <3>1, TableKeeps DEF TableInv, RecordsTrue, Was, ImageAt
  <2> QED BY <1>2, <2>1, <2>2, <2>3 DEF TargetStep, Target
<1>3. CASE ClientStep
  <2>1. CASE WaitEvent
    BY <1>1, <2>1, WaitKeeps
  <2>2. CASE \E addr \in Asked : ModuleAt(addr)
    <3>1. PICK addr \in Asked : ModuleAt(addr)
      BY <2>2
    <3>2. RecordsTrue'
      BY <3>1, AskKeeps
    <3>3. UNCHANGED <<mapped, pending, listed>> /\ DOMAIN recorded' = DOMAIN recorded
      BY <3>1 DEF ModuleAt, targetVars
    <3> QED BY <3>2, <3>3, TableKeeps DEF TableInv
  <2>3. CASE UNCHANGED <<targetVars, recorded>>
    BY <2>3, TableKeeps DEF TableInv, RecordsTrue, Was, ImageAt, targetVars
  <2> QED BY <1>3, <2>1, <2>2, <2>3
          DEF ClientStep, Questions, EnumModules, FindModule, ParseLoadedDll
<1>4. CASE ReadStep \/ UNCHANGED vars
  BY <1>4, TableKeeps
     DEF TableInv, RecordsTrue, Was, ImageAt, targetVars, clientVars, ReadStep, vars
<1> QED BY <1>2, <1>3, <1>4 DEF Next

(* A step that asks nothing leaves no answer, or the one there was. *)
Answers == answer # NoModule => answer.of \in {"all", "at", "named", "parsed"}

LEMMA AnswerStep ==
  ASSUME BasesApart, TableInv, ModulesTrue, Answers, [Next]_vars
  PROVE  ModulesTrue' /\ Answers'
<1>1. CASE Questions
  <2>1. answer'.of \in {"all", "at", "named", "parsed"}
    BY <1>1 DEF Questions, EnumModules, ModuleAt, FindModule, ParseLoadedDll
  <2> QED BY <1>1, <2>1, QuestionTrue DEF Answers
<1>2. CASE answer' = NoModule
  BY <1>2 DEF ModulesTrue, Answers
<1>3. CASE UNCHANGED vars
  <2>1. answer' = answer /\ UNCHANGED <<mapped, listed, ready, unreadable, pending, departed>>
    BY <1>3 DEF vars, targetVars, clientVars
  <2>2. ASSUME NEW m, NEW i PROVE Is(m, i)' <=> Is(m, i)
    BY <2>1 DEF Is, HeaderReadable
  <2>3. \A base : ImageAt(base)' = ImageAt(base)
    BY <2>1 DEF ImageAt
  <2>4. Announced' = Announced
    BY <2>1 DEF Announced
  <2>5. ASSUME NEW listing, ListsTheMapped(listing) PROVE ListsTheMapped(listing)'
    BY <2>1, <2>2, <2>3, <2>4, <2>5 DEF ListsTheMapped
  <2>6. ASSUME NEW m, NEW addr, HoldsTheAddress(m, addr) PROVE HoldsTheAddress(m, addr)'
    BY <2>1, <2>2, <2>3, <2>4, <2>6 DEF HoldsTheAddress, HeaderReadable, Span, IsGone
  <2>7. ASSUME NEW m, NEW i, NamesTheImage(m, i) PROVE NamesTheImage(m, i)'
    BY <2>1, <2>2, <2>7 DEF NamesTheImage
  <2> QED BY <2>1, <2>3, <2>5, <2>6, <2>7 DEF ModulesTrue, Answers
<1>4. Questions \/ answer' = NoModule \/ UNCHANGED vars
  BY DEF Next, TargetStep, Target, Load, Unload, Link, LoaderReady, Protect, ClientStep,
         WaitEvent, ReadStep
<1> QED BY <1>1, <1>2, <1>3, <1>4

(* What the debugger answers about modules is true of the target while it  *)
(* has not moved (resolver.py enumerate_handle, module_at, find_module;    *)
(* debugger.py parse_loaded_dll), as long as no image is mapped across     *)
(* another one's former place.                                             *)
THEOREM ModuleAnswersAreTrue == BasesApart => (Spec => []ModulesTrue)
<1> SUFFICES ASSUME BasesApart PROVE Spec => []ModulesTrue
  OBVIOUS
<1> DEFINE Inv == TableInv /\ ModulesTrue /\ Answers
<1>1. Init => Inv
  <2>1. Init => ModulesTrue /\ Answers
    BY DEF Init, ModulesInit, ModulesTrue, Answers
  <2> QED BY <2>1, TableInit
<1>2. Inv /\ [Next]_vars => Inv'
  BY TableStep, AnswerStep
<1>3. Inv => ModulesTrue
  OBVIOUS
<1> HIDE DEF Inv
<1> QED BY <1>1, <1>2, <1>3, PTL DEF Spec
=============================================================================
