--------------------------- MODULE ErrorSummaryProofs ---------------------------
(***************************************************************************)
(* For any comparisons, any offsets and any limits: what compare_words does *)
(* with the words that differ keeps the totals complete, the records are    *)
(* the first of them, and the offsets that repeat, the clusters and the     *)
(* stride are those of the offsets that failed first.                      *)
(***************************************************************************)
EXTENDS ErrorSummary, TLAPS, FiniteSetTheorems, SequenceTheorems

\* Where a word came back wrong in a given bit, one way or the other.
UpAt(b) == {i \in DOMAIN errors : b \in errors[i].flip.up}
DownAt(b) == {i \in DOMAIN errors : b \in errors[i].flip.down}
FlipAt(b) == {i \in DOMAIN errors : b \in errors[i].flip.up \union errors[i].flip.down}

\* The first and the last of the offsets that failed.
EndsInv ==
    IF errors = <<>> THEN first = NoOffset /\ last = 0
    ELSE /\ \A i \in DOMAIN errors : first <= errors[i].offset /\ errors[i].offset <= last
         /\ \E i \in DOMAIN errors : errors[i].offset = first
         /\ \E i \in DOMAIN errors : errors[i].offset = last

\* The histograms count every word.
HistogramInv ==
    /\ up = [b \in Bits |-> Cardinality(UpAt(b))]
    /\ down = [b \in Bits |-> Cardinality(DownAt(b))]
    /\ xor = [b \in Bits |-> Cardinality(FlipAt(b))]

\* The records are the first words, as many as may be written.
RecordInv ==
    /\ records \in Seq(Error)
    /\ Len(records) = IF Len(errors) < MaxRecords THEN Len(errors) ELSE MaxRecords
    /\ \A i \in DOMAIN records : records[i] = errors[i]

\* Where an offset failed, and the bits of a mask for what was noted there.
At(es, o) == {k \in DOMAIN es : es[k].offset = o}
Seen(noted, es, o) == {noted[k] : k \in At(es, o)} \intersect (0..7)
Rereads(es) == [k \in DOMAIN es |-> es[k].reread]
Passes(es) == [k \in DOMAIN es |-> es[k].pass]
Allocations(es) == [k \in DOMAIN es |-> es[k].allocation]
Masks(noted, es, os) == [i \in DOMAIN os |-> Seen(noted, es, os[i])]
Tracked == {offsets[i] : i \in DOMAIN offsets}

\* The offsets tracked are different ones that failed; an offset that is not
\* tracked failed only when the table was full of earlier ones.  The masks tell
\* all that was seen of an offset tracked.
TrackInv ==
    /\ offsets \in Seq(Offsets) /\ Len(offsets) <= MaxTracked
    /\ \A i, j \in DOMAIN offsets : offsets[i] = offsets[j] => i = j
    /\ \A o \in Tracked : At(errors, o) # {}
    /\ \A k \in DOMAIN errors : errors[k].offset \notin Tracked =>
        /\ Len(offsets) = MaxTracked
        /\ \A o \in Tracked : \E j \in At(errors, o) : j < k
    /\ rereads = Masks(Rereads(errors), errors, offsets)
    /\ passes = Masks(Passes(errors), errors, offsets)
    /\ allocations = Masks(Allocations(errors), errors, offsets)

SummaryInv ==
    /\ comparison \in 0..Len(Comparisons) /\ from \in Nat
    /\ errors \in Seq(Error) /\ Len(errors) <= MaxErrors
    /\ total = Len(errors)
    /\ EndsInv /\ HistogramInv /\ RecordInv /\ TrackInv

-----------------------------------------------------------------------------
(* Numbers.                                                                *)

\* A set of numbers that is not empty has a least one.
LEMMA LeastExists ==
    ASSUME NEW T \in SUBSET Nat, T # {}
    PROVE  \E n \in T : \A m \in T : n <= m
<1> DEFINE R == {p \in Nat \X Nat : p[1] < p[2]}
<1>1. IsWellFoundedOn(OpToRel(<, Nat), Nat)
    BY NatLessThanWellFounded
<1>2. OpToRel(<, Nat) = R
    BY DEF OpToRel
<1>3. PICK n \in T : \A m \in T : ~ (<<m, n>> \in R)
    BY <1>1, <1>2, WFMin
<1>4. \A m \in T : m \in Nat /\ n \in Nat /\ ~(m < n)
    BY <1>3
<1> QED
    BY <1>4

\* A finite set of numbers has a bound.
LEMMA FiniteIsBounded ==
    ASSUME NEW S \in SUBSET Nat, IsFiniteSet(S)
    PROVE  \E u \in Nat : \A x \in S : x <= u
<1> DEFINE Bounded(U) == \E u \in Nat : \A x \in U : x <= u
           T == {k \in Nat : \E U \in SUBSET S : Cardinality(U) = k /\ ~Bounded(U)}
<1>1. T = {}
    <2> SUFFICES ASSUME T # {} PROVE FALSE
        OBVIOUS
    <2>1. PICK k \in T : \A m \in T : k <= m
        BY LeastExists
    <2>2. PICK U \in SUBSET S : Cardinality(U) = k /\ ~Bounded(U)
        BY <2>1
    <2>3. PICK x \in U : x \in Nat
        BY <2>2
    <2>4. /\ IsFiniteSet(U) /\ IsFiniteSet(U \ {x})
          /\ Cardinality(U \ {x}) = k - 1 /\ k - 1 \in Nat
        <3>1. IsFiniteSet(U)
            BY FS_Subset
        <3>2. IsFiniteSet(U \ {x}) /\ Cardinality(U \ {x}) = Cardinality(U) - 1
            BY <2>3, <3>1, FS_RemoveElement
        <3>3. Cardinality(U \ {x}) \in Nat
            BY <3>2, FS_CardinalityType
        <3> QED
            BY <2>2, <3>1, <3>2, <3>3
    <2>5. Bounded(U \ {x})
        BY <2>1, <2>4
    <2>6. PICK u \in Nat : \A y \in U \ {x} : y <= u
        BY <2>5
    <2>7. \E v \in Nat : x <= v /\ u <= v
        BY <2>3
    <2>8. PICK v \in Nat : x <= v /\ u <= v
        BY <2>7
    <2>9. \A y \in U : y \in Nat /\ y <= v
        BY <2>3, <2>6, <2>8
    <2> QED
        BY <2>2, <2>9
<1>2. Cardinality(S) \in Nat
    BY FS_CardinalityType
<1> QED
    BY <1>1, <1>2

\* What Min and Max choose.
LEMMA MinIs ==
    ASSUME NEW S \in SUBSET Int, NEW m \in S, \A x \in S : m <= x
    PROVE  Min(S) = m
<1>1. \A x \in S : (\A y \in S : x <= y) => x = m
    OBVIOUS
<1> QED
    BY <1>1 DEF Min

\* Likewise at the other end.
LEMMA MaxIs ==
    ASSUME NEW S \in SUBSET Int, NEW m \in S, \A x \in S : x <= m
    PROVE  Max(S) = m
<1>1. \A x \in S : (\A y \in S : x >= y) => x = m
    OBVIOUS
<1> QED
    BY <1>1 DEF Max

\* The smaller of two numbers.
LEMMA MinOfTwo ==
    ASSUME NEW a \in Int, NEW b \in Int
    PROVE  Min({a, b}) = IF a <= b THEN a ELSE b
<1> DEFINE m == IF a <= b THEN a ELSE b
<1>1. {a, b} \in SUBSET Int /\ m \in {a, b} /\ \A x \in {a, b} : m <= x
    OBVIOUS
<1> QED
    BY <1>1, MinIs

\* And the greater.
LEMMA MaxOfTwo ==
    ASSUME NEW a \in Int, NEW b \in Int
    PROVE  Max({a, b}) = IF b <= a THEN a ELSE b
<1> DEFINE m == IF b <= a THEN a ELSE b
<1>1. {a, b} \in SUBSET Int /\ m \in {a, b} /\ \A x \in {a, b} : x <= m
    OBVIOUS
<1> QED
    BY <1>1, MaxIs

\* A finite set of numbers that is not empty has a greatest one.
LEMMA GreatestExists ==
    ASSUME NEW S \in SUBSET Nat, IsFiniteSet(S), S # {}
    PROVE  \E m \in S : \A x \in S : x <= m
<1> DEFINE U == {u \in Nat : \A x \in S : x <= u}
<1>1. U # {}
    BY FiniteIsBounded
<1>2. PICK u \in U : \A v \in U : u <= v
    BY <1>1, LeastExists
<1>3. u \in S
    <2> SUFFICES ASSUME u \notin S PROVE FALSE
        OBVIOUS
    <2>1. \A x \in S : x \in Nat /\ x < u
        <3>1. u \in Nat /\ \A x \in S : x <= u
            BY <1>2
        <3>2. S \subseteq Nat
            OBVIOUS
        <3> QED
            BY <3>1, <3>2
    <2>2. u # 0 /\ u \in Nat
        <3>1. \E x \in S : x \in Nat /\ x < u
            BY <2>1
        <3> QED
            BY <1>2, <3>1
    <2>3. u - 1 \in Nat
        BY <2>2
    <2>4. \A x \in S : x <= u - 1
        BY <2>1, <2>2
    <2>5. u - 1 \in U
        BY <2>3, <2>4
    <2>6. u <= u - 1
        BY <1>2, <2>5
    <2> QED
        BY <2>2, <2>6
<1> QED
    BY <1>2, <1>3

\* There is a highest offset.
LEMMA MaxOfOffsets ==
    ASSUME NEW o \in Offsets
    PROVE  Max(Offsets) \in Nat /\ o \in Nat /\ o <= Max(Offsets)
<1>1. Offsets \subseteq Nat /\ IsFiniteSet(Offsets)
    BY OffsetsAssumption
<1>2. PICK m \in Offsets : \A x \in Offsets : x <= m
    BY <1>1, GreatestExists
<1>3. Max(Offsets) = m
    BY <1>1, <1>2, MaxIs
<1> QED
    BY <1>1, <1>2, <1>3

\* UINT64_MAX is above every offset.
LEMMA NoOffsetIsAbove ==
    ASSUME NEW o \in Offsets
    PROVE  NoOffset \in Nat /\ o < NoOffset
BY MaxOfOffsets DEF NoOffset

-----------------------------------------------------------------------------
(* The histograms.                                                         *)

\* Places among the first n, and how many there are at most.
LEMMA PlacesAreFinite ==
    ASSUME NEW n \in Nat, NEW P \in SUBSET (1..n)
    PROVE  IsFiniteSet(P) /\ Cardinality(P) \in Nat /\ Cardinality(P) <= n
<1>1. IsFiniteSet(1..n) /\ Cardinality(1..n) = n
    BY FS_Interval
<1> QED
    BY <1>1, FS_Subset, FS_CardinalityType

\* All of them.
LEMMA PlacesAreCounted ==
    ASSUME NEW n \in Nat
    PROVE  Cardinality(1..n) = n
BY FS_Interval

\* With the next place there is one more.
LEMMA OnePlaceMore ==
    ASSUME NEW n \in Nat, NEW P \in SUBSET (1..n)
    PROVE  Cardinality(P \union {n + 1}) = Cardinality(P) + 1
<1>1. IsFiniteSet(P) /\ n + 1 \notin P
    BY PlacesAreFinite
<1> QED
    BY <1>1, FS_AddElement

-----------------------------------------------------------------------------
(* Init and the two steps.                                                 *)

\* Nothing has failed yet.
LEMMA SummaryInitInv == SummaryInit => SummaryInv
<1> SUFFICES ASSUME SummaryInit PROVE SummaryInv
    OBVIOUS
<1>1. /\ comparison = 0 /\ from = 0 /\ total = 0 /\ first = NoOffset /\ last = 0
      /\ up = [b \in Bits |-> 0] /\ down = up /\ xor = up
      /\ offsets = <<>> /\ allocations = <<>> /\ passes = <<>> /\ rereads = <<>>
      /\ records = <<>> /\ errors = <<>>
    BY DEF SummaryInit
<1>2. /\ errors \in Seq(Error) /\ Len(errors) = 0 /\ DOMAIN errors = {}
      /\ records \in Seq(Error) /\ Len(records) = 0 /\ DOMAIN records = {}
      /\ offsets \in Seq(Offsets) /\ Len(offsets) = 0 /\ DOMAIN offsets = {}
    BY <1>1, EmptySeq
<1>3. EndsInv
    BY <1>1 DEF EndsInv
<1>4. \A b \in Bits : UpAt(b) = {} /\ DownAt(b) = {} /\ FlipAt(b) = {}
    BY <1>2 DEF UpAt, DownAt, FlipAt
<1>5. HistogramInv
    BY <1>1, <1>4, FS_EmptySet DEF HistogramInv
<1>6. RecordInv
    BY <1>2, LimitsAssumption DEF RecordInv
<1>7. TrackInv
    BY <1>1, <1>2, LimitsAssumption DEF TrackInv, Tracked, Masks
<1>8. comparison \in 0..Len(Comparisons)
    BY <1>1, ComparisonsAssumption, LenProperties
<1> QED
    BY <1>1, <1>2, <1>3, <1>5, <1>6, <1>7, <1>8, LimitsAssumption DEF SummaryInv

\* The invariant speaks of nothing else.
LEMMA SummaryStays ==
    ASSUME SummaryInv, UNCHANGED summaryVars
    PROVE  SummaryInv'
<1>1. UNCHANGED <<comparison, from, total, first, last, up, down, xor, offsets, allocations,
                  passes, rereads, records, errors>>
    BY DEF summaryVars, totals, tracked
<1>2. EndsInv' /\ HistogramInv'
    BY <1>1 DEF SummaryInv, EndsInv, HistogramInv, UpAt, DownAt, FlipAt
<1>3. RecordInv' /\ TrackInv'
    BY <1>1 DEF SummaryInv, RecordInv, TrackInv, Tracked
<1> QED
    BY <1>1, <1>2, <1>3 DEF SummaryInv

\* The next comparison starts from the lowest offset again.
LEMMA NextComparisonKeeps ==
    ASSUME SummaryInv, NextComparison
    PROVE  SummaryInv'
<1>1. UNCHANGED <<total, first, last, up, down, xor, offsets, allocations,
                  passes, rereads, records, errors>>
    BY DEF NextComparison, totals, tracked
<1>2. EndsInv' /\ HistogramInv'
    BY <1>1 DEF SummaryInv, EndsInv, HistogramInv, UpAt, DownAt, FlipAt
<1>3. RecordInv' /\ TrackInv'
    BY <1>1 DEF SummaryInv, RecordInv, TrackInv, Tracked
<1>4. comparison' \in 0..Len(Comparisons) /\ from' \in Nat
    BY ComparisonsAssumption, LenProperties DEF SummaryInv, NextComparison
<1> QED
    BY <1>1, <1>2, <1>3, <1>4 DEF SummaryInv

\* A word that differs is an error of this comparison.
LEMMA ErrorAtIsError ==
    ASSUME SummaryInv, comparison < Len(Comparisons), NEW offset \in Offsets, NEW flip \in Flips
    PROVE  /\ ErrorAt(offset, flip) \in Error
           /\ ErrorAt(offset, flip).offset = offset
           /\ ErrorAt(offset, flip).flip = flip
<1>1. comparison + 1 \in 1..Len(Comparisons)
    BY ComparisonsAssumption, LenProperties DEF SummaryInv
<1>2. comparison + 1 \in DOMAIN Comparisons
    BY <1>1, ComparisonsAssumption, LenProperties
<1>3. Comparisons[comparison + 1] \in
        [experiment : {"host_transfer", "gpu_local_copy", "compute_kat", "vram_pattern"},
         allocation : 0..1, pass : Nat, reread : 0..1]
    BY <1>1, ComparisonsAssumption, ElementOfSeq
<1> QED
    BY <1>2, <1>3 DEF ErrorAt, Error

\* gt_summary_add keeps first and last.
LEMMA EndsStep ==
    ASSUME SummaryInv, NEW e \in Error, Count(e), errors' = Append(errors, e)
    PROVE  EndsInv'
<1> DEFINE n == Len(errors)
<1>1. /\ errors \in Seq(Error) /\ n \in Nat /\ DOMAIN errors = 1..n
      /\ \A i \in 1..n : errors[i] \in Error
    BY LenProperties, ElementOfSeq DEF SummaryInv
<1>2. /\ DOMAIN errors' = 1..(n + 1) /\ errors'[n + 1] = e
      /\ \A i \in 1..n : errors'[i] = errors[i]
    BY <1>1, AppendProperties, LenProperties
<1>3. errors' # <<>>
    BY <1>2
<1>4. /\ e.offset \in Offsets /\ e.offset \in Nat
      /\ \A i \in 1..n : errors[i].offset \in Offsets /\ errors[i].offset \in Nat
    BY <1>1, OffsetsAssumption DEF Error
<1>5. first' = Min({first, e.offset}) /\ last' = Max({last, e.offset})
    BY DEF Count
<1>6. CASE errors = <<>>
    <2>1. first = NoOffset /\ last = 0
        BY <1>6 DEF SummaryInv, EndsInv
    <2>2. first' = e.offset
        BY <1>4, <1>5, <2>1, NoOffsetIsAbove, MinOfTwo
    <2>3. last' = e.offset
        BY <1>4, <1>5, <2>1, MaxOfTwo
    <2>4. n = 0
        BY <1>6
    <2> QED
        BY <1>2, <1>3, <1>4, <2>2, <2>3, <2>4 DEF EndsInv
<1>7. CASE errors # <<>>
    <2>1. /\ \A i \in 1..n : first <= errors[i].offset /\ errors[i].offset <= last
          /\ \E i \in 1..n : errors[i].offset = first
          /\ \E i \in 1..n : errors[i].offset = last
        BY <1>1, <1>7 DEF SummaryInv, EndsInv
    <2>2. first \in Nat /\ last \in Nat
        BY <1>4, <2>1
    <2>3. first' = IF first <= e.offset THEN first ELSE e.offset
        BY <1>4, <1>5, <2>2, MinOfTwo
    <2>4. last' = IF e.offset <= last THEN last ELSE e.offset
        BY <1>4, <1>5, <2>2, MaxOfTwo
    <2>5. \A i \in 1..(n + 1) : first' <= errors'[i].offset /\ errors'[i].offset <= last'
        <3> SUFFICES ASSUME NEW i \in 1..(n + 1)
                     PROVE  first' <= errors'[i].offset /\ errors'[i].offset <= last'
            OBVIOUS
        <3>1. CASE i = n + 1
            BY <1>2, <1>4, <2>2, <2>3, <2>4, <3>1
        <3>2. CASE i \in 1..n
            BY <1>2, <1>4, <2>1, <2>2, <2>3, <2>4, <3>2
        <3> QED
            BY <1>1, <3>1, <3>2
    <2>6. \E i \in 1..(n + 1) : errors'[i].offset = first'
        <3>1. CASE first' = first
            <4>1. PICK i \in 1..n : errors[i].offset = first
                BY <2>1
            <4> QED
                BY <1>1, <1>2, <3>1, <4>1
        <3>2. CASE first' = e.offset
            BY <1>1, <1>2, <3>2
        <3> QED
            BY <2>3, <3>1, <3>2
    <2>7. \E i \in 1..(n + 1) : errors'[i].offset = last'
        <3>1. CASE last' = last
            <4>1. PICK i \in 1..n : errors[i].offset = last
                BY <2>1
            <4> QED
                BY <1>1, <1>2, <3>1, <4>1
        <3>2. CASE last' = e.offset
            BY <1>1, <1>2, <3>2
        <3> QED
            BY <2>4, <3>1, <3>2
    <2> QED
        BY <1>2, <1>3, <2>5, <2>6, <2>7 DEF EndsInv
<1> QED
    BY <1>6, <1>7

\* gt_summary_add keeps the three histograms.
LEMMA HistogramStep ==
    ASSUME SummaryInv, NEW e \in Error, Count(e), errors' = Append(errors, e)
    PROVE  HistogramInv'
<1> DEFINE n == Len(errors)
<1>1. errors \in Seq(Error) /\ n \in Nat /\ DOMAIN errors = 1..n
    BY LenProperties DEF SummaryInv
<1>2. /\ DOMAIN errors' = 1..(n + 1) /\ errors'[n + 1] = e
      /\ \A i \in 1..n : errors'[i] = errors[i]
    BY <1>1, AppendProperties, LenProperties
<1>3. 1..(n + 1) = (1..n) \union {n + 1} /\ n + 1 \notin 1..n
    BY <1>1
<1>4. ASSUME NEW b \in Bits
      PROVE  /\ UpAt(b) \in SUBSET (1..n) /\ DownAt(b) \in SUBSET (1..n)
             /\ FlipAt(b) \in SUBSET (1..n)
             /\ up[b] = Cardinality(UpAt(b)) /\ down[b] = Cardinality(DownAt(b))
             /\ xor[b] = Cardinality(FlipAt(b))
    BY <1>1 DEF SummaryInv, HistogramInv, UpAt, DownAt, FlipAt
<1>5. /\ up' = Bump(up, e.flip.up) /\ down' = Bump(down, e.flip.down)
      /\ xor' = Bump(xor, e.flip.up \union e.flip.down)
    BY DEF Count
<1>6. up' = [b \in Bits |-> Cardinality(UpAt(b)')]
    <2>1. ASSUME NEW b \in Bits
          PROVE  up[b] + (IF b \in e.flip.up THEN 1 ELSE 0) = Cardinality(UpAt(b)')
        <3>0. UpAt(b)' = IF b \in e.flip.up
                       THEN UpAt(b) \union {n + 1} ELSE UpAt(b)
            BY <1>1, <1>2, <1>3 DEF UpAt
        <3>1. Cardinality(UpAt(b)) \in Nat
            BY <1>1, <1>4, PlacesAreFinite
        <3>2. Cardinality(UpAt(b) \union {n + 1}) = Cardinality(UpAt(b)) + 1
            BY <1>1, <1>4, OnePlaceMore
        <3> QED
            BY <1>4, <3>0, <3>1, <3>2
    <2> QED
        BY <1>5, <2>1 DEF Bump
<1>7. down' = [b \in Bits |-> Cardinality(DownAt(b)')]
    <2>1. ASSUME NEW b \in Bits
          PROVE  down[b] + (IF b \in e.flip.down THEN 1 ELSE 0) = Cardinality(DownAt(b)')
        <3>0. DownAt(b)' = IF b \in e.flip.down
                       THEN DownAt(b) \union {n + 1} ELSE DownAt(b)
            BY <1>1, <1>2, <1>3 DEF DownAt
        <3>1. Cardinality(DownAt(b)) \in Nat
            BY <1>1, <1>4, PlacesAreFinite
        <3>2. Cardinality(DownAt(b) \union {n + 1}) = Cardinality(DownAt(b)) + 1
            BY <1>1, <1>4, OnePlaceMore
        <3> QED
            BY <1>4, <3>0, <3>1, <3>2
    <2> QED
        BY <1>5, <2>1 DEF Bump
<1>8. xor' = [b \in Bits |-> Cardinality(FlipAt(b)')]
    <2>1. ASSUME NEW b \in Bits
          PROVE  xor[b] + (IF b \in e.flip.up \union e.flip.down THEN 1 ELSE 0) = Cardinality(FlipAt(b)')
        <3>0. FlipAt(b)' = IF b \in e.flip.up \union e.flip.down
                       THEN FlipAt(b) \union {n + 1} ELSE FlipAt(b)
            BY <1>1, <1>2, <1>3 DEF FlipAt
        <3>1. Cardinality(FlipAt(b)) \in Nat
            BY <1>1, <1>4, PlacesAreFinite
        <3>2. Cardinality(FlipAt(b) \union {n + 1}) = Cardinality(FlipAt(b)) + 1
            BY <1>1, <1>4, OnePlaceMore
        <3> QED
            BY <1>4, <3>0, <3>1, <3>2
    <2> QED
        BY <1>5, <2>1 DEF Bump
<1> QED
    BY <1>6, <1>7, <1>8 DEF HistogramInv

\* emit_error writes the first words.
LEMMA RecordStep ==
    ASSUME SummaryInv, NEW e \in Error, Record(e), errors' = Append(errors, e)
    PROVE  RecordInv'
<1> DEFINE n == Len(errors)
           m == Len(records)
<1>1. /\ errors \in Seq(Error) /\ n \in Nat
      /\ records \in Seq(Error) /\ m \in Nat /\ DOMAIN records = 1..m
      /\ m = (IF n < MaxRecords THEN n ELSE MaxRecords)
      /\ \A i \in 1..m : records[i] = errors[i]
    BY LenProperties DEF SummaryInv, RecordInv
<1>2. /\ Len(errors') = n + 1 /\ errors'[n + 1] = e
      /\ \A i \in 1..n : errors'[i] = errors[i]
    BY <1>1, AppendProperties
<1>3. MaxRecords \in Nat \ {0}
    BY LimitsAssumption
<1>4. CASE m >= MaxRecords
    <2>1. records' = records
        BY <1>4 DEF Record
    <2>2. m = MaxRecords /\ m <= n
        BY <1>1, <1>3, <1>4
    <2> QED
        BY <1>1, <1>2, <1>3, <2>1, <2>2 DEF RecordInv
<1>5. CASE ~(m >= MaxRecords)
    <2>1. records' = Append(records, e)
        BY <1>5 DEF Record
    <2>2. m = n /\ n + 1 <= MaxRecords
        BY <1>1, <1>3, <1>5
    <2>3. /\ records' \in Seq(Error) /\ Len(records') = m + 1
          /\ records'[m + 1] = e /\ \A i \in 1..m : records'[i] = records[i]
        BY <1>1, <2>1, AppendProperties
    <2>4. DOMAIN records' = 1..(m + 1)
        BY <2>3, LenProperties
    <2>5. Len(records') = IF Len(errors') < MaxRecords THEN Len(errors') ELSE MaxRecords
        BY <1>1, <1>2, <1>3, <2>2, <2>3
    <2>6. ASSUME NEW i \in 1..(m + 1) PROVE records'[i] = errors'[i]
        BY <1>1, <1>2, <2>2, <2>3
    <2> QED
        BY <2>3, <2>4, <2>5, <2>6 DEF RecordInv
<1> QED
    BY <1>4, <1>5

-----------------------------------------------------------------------------
(* The offsets tracked.                                                    *)

\* An offset tracked has its place, a new one gets the next.
LEMMA SlotIs ==
    ASSUME TrackInv, NEW o
    PROVE  \/ Contains(offsets, o) /\ Slot(o) \in DOMAIN offsets /\ offsets[Slot(o)] = o
           \/ ~Contains(offsets, o) /\ o \notin Tracked /\ Slot(o) = Len(offsets) + 1
<1>1. offsets \in Seq(Offsets) /\ Len(offsets) \in Nat /\ DOMAIN offsets = 1..Len(offsets)
    BY LenProperties DEF TrackInv
<1>2. CASE Contains(offsets, o)
    <2>1. PICK i \in 1..Len(offsets) : offsets[i] = o
        BY <1>2 DEF Contains
    <2>2. {j \in 1..Len(offsets) : offsets[j] = o} = {i}
        BY <1>1, <2>1 DEF TrackInv
    <2>3. Min({i}) = i
        <3>1. {i} \in SUBSET Int /\ i \in {i} /\ \A x \in {i} : i <= x
            OBVIOUS
        <3> QED
            BY <3>1, MinIs
    <2>4. Slot(o) = i
        BY <1>2, <2>2, <2>3 DEF Slot, SelectInSeq
    <2> QED
        BY <1>1, <1>2, <2>1, <2>4
<1>3. CASE ~Contains(offsets, o)
    BY <1>1, <1>3 DEF Contains, Slot, Tracked
<1> QED
    BY <1>2, <1>3

\* Where an offset failed, with one more error.
LEMMA AtStep ==
    ASSUME errors \in Seq(Error), NEW e \in Error, errors' = Append(errors, e), NEW o
    PROVE  At(errors', o) = IF o = e.offset THEN At(errors, o) \union {Len(errors) + 1} ELSE At(errors, o)
<1>1. Len(errors) \in Nat /\ DOMAIN errors = 1..Len(errors)
    BY LenProperties
<1>2. /\ DOMAIN errors' = 1..(Len(errors) + 1) /\ errors'[Len(errors) + 1] = e
      /\ \A i \in 1..Len(errors) : errors'[i] = errors[i]
    BY <1>1, AppendProperties, LenProperties
<1>3. 1..(Len(errors) + 1) = (1..Len(errors)) \union {Len(errors) + 1}
    BY <1>1
<1> QED
    BY <1>1, <1>2, <1>3 DEF At

\* Marking the place of an offset keeps the masks; noted is what was noted of the
\* errors before, now with the one more.
LEMMA MarkKeeps ==
    ASSUME TrackInv, errors \in Seq(Error), NEW e \in Error, errors' = Append(errors, e),
           offsets' = IF Contains(offsets, e.offset) THEN offsets ELSE Append(offsets, e.offset),
           ~Contains(offsets, e.offset) => At(errors, e.offset) = {},
           NEW masks, NEW noted, NEW now,
           masks = Masks(noted, errors, offsets),
           \A k \in DOMAIN errors : now[k] = noted[k]
    PROVE  Mark(masks, Slot(e.offset), now[Len(errors) + 1]) = Masks(now, errors', offsets')
<1> DEFINE n == Len(errors)
           o == e.offset
           new == now[n + 1]
<1>1. /\ offsets \in Seq(Offsets) /\ Len(offsets) \in Nat /\ DOMAIN offsets = 1..Len(offsets)
      /\ n \in Nat /\ DOMAIN errors = 1..n
    BY LenProperties DEF TrackInv
<1>2. /\ masks = [i \in DOMAIN offsets |-> Seen(noted, errors, offsets[i])]
      /\ DOMAIN masks = 1..Len(offsets)
    BY <1>1 DEF Masks
<1>3. \A p : At(errors, p) \subseteq 1..n /\ n + 1 \notin At(errors, p)
    BY <1>1 DEF At
<1>4. ASSUME NEW p, p # o
      PROVE  Seen(now, errors', p) = Seen(noted, errors, p)
    <2>1. At(errors', p) = At(errors, p)
        BY <1>4, AtStep
    <2> QED
        BY <1>1, <1>3, <2>1 DEF Seen
<1>5. Seen(now, errors', o) = Marked(Seen(noted, errors, o), new)
    <2>1. At(errors', o) = At(errors, o) \union {n + 1}
        BY AtStep
    <2>2. \A k \in At(errors, o) : now[k] = noted[k]
        BY <1>1, <1>3
    <2>3. {now[k] : k \in At(errors, o) \union {n + 1}}
            = {noted[k] : k \in At(errors, o)} \union {new}
        BY <2>2
    <2> QED
        BY <2>1, <2>3 DEF Seen, Marked
<1>6. CASE Contains(offsets, o)
    <2>1. offsets' = offsets /\ Slot(o) \in DOMAIN offsets /\ offsets[Slot(o)] = o
        BY <1>6, SlotIs
    <2>2. \A i \in DOMAIN offsets : offsets[i] = o => i = Slot(o)
        BY <2>1 DEF TrackInv
    <2>3. Mark(masks, Slot(o), new) = [masks EXCEPT ![Slot(o)] = Marked(@, new)]
        BY <1>1, <1>2, <2>1 DEF Mark
    <2>4. ASSUME NEW i \in DOMAIN offsets
          PROVE  [masks EXCEPT ![Slot(o)] = Marked(@, new)][i]
                    = Seen(now, errors', offsets[i])
        <3>1. CASE i = Slot(o)
            BY <1>2, <1>5, <2>1, <3>1
        <3>2. CASE i # Slot(o)
            BY <1>2, <1>4, <2>2, <3>2
        <3> QED
            BY <3>1, <3>2
    <2> DEFINE marked == [masks EXCEPT ![Slot(o)] = Marked(@, new)]
    <2>5. DOMAIN marked = DOMAIN offsets
        BY <1>2
    <2>6. marked = [i \in DOMAIN marked |-> marked[i]]
        OBVIOUS
    <2>7. marked = [i \in DOMAIN offsets |-> Seen(now, errors', offsets[i])]
        BY <2>4, <2>5, <2>6
    <2> QED
        BY <2>1, <2>3, <2>7 DEF Masks
<1>7. CASE ~Contains(offsets, o)
    <2>1. /\ offsets' = Append(offsets, o) /\ o \notin Tracked
          /\ Slot(o) = Len(offsets) + 1 /\ At(errors, o) = {}
        BY <1>7, SlotIs
    <2>2. Slot(o) \notin DOMAIN masks
        BY <1>1, <1>2, <2>1
    <2>3. Mark(masks, Slot(o), new) = Append(masks, Marked({}, new))
        BY <2>2 DEF Mark
    <2>4. Seen(noted, errors, o) = {}
        BY <2>1 DEF Seen
    <2>5. /\ DOMAIN offsets' = 1..(Len(offsets) + 1) /\ offsets'[Len(offsets) + 1] = o
          /\ \A i \in 1..Len(offsets) : offsets'[i] = offsets[i] /\ offsets[i] # o
        <3>1. o \in Offsets
            BY DEF Error
        <3>2. /\ offsets' \in Seq(Offsets) /\ Len(offsets') = Len(offsets) + 1
              /\ offsets'[Len(offsets) + 1] = o
              /\ \A i \in 1..Len(offsets) : offsets'[i] = offsets[i]
            BY <1>1, <2>1, <3>1, AppendProperties
        <3>3. DOMAIN offsets' = 1..(Len(offsets) + 1)
            BY <3>2, LenProperties
        <3>4. \A i \in 1..Len(offsets) : offsets[i] # o
            BY <1>1, <2>1 DEF Tracked
        <3> QED
            BY <3>2, <3>3, <3>4
    <2>6. Append(masks, Marked({}, new))
            = [i \in 1..(Len(offsets) + 1) |->
                IF i = Len(offsets) + 1 THEN Marked({}, new) ELSE masks[i]]
        <3>1. masks \in Seq({masks[i] : i \in 1..Len(offsets)}) /\ Len(masks) = Len(offsets)
            BY <1>1, <1>2, SeqDef, LenProperties
        <3> QED
            BY <1>1, <3>1
    <2>7. ASSUME NEW i \in 1..(Len(offsets) + 1)
          PROVE  (IF i = Len(offsets) + 1 THEN Marked({}, new) ELSE masks[i])
                    = Seen(now, errors', offsets'[i])
        <3>1. CASE i = Len(offsets) + 1
            BY <1>5, <2>4, <2>5, <3>1
        <3>2. CASE i \in 1..Len(offsets)
            BY <1>1, <1>2, <1>4, <2>5, <3>2
        <3> QED
            BY <1>1, <3>1, <3>2
    <2> QED
        BY <2>3, <2>5, <2>6, <2>7 DEF Masks
<1> QED
    BY <1>6, <1>7

\* gt_summary_add keeps the table, also when it is full.
LEMMA TrackStep ==
    ASSUME SummaryInv, NEW e \in Error, Track(e), errors' = Append(errors, e)
    PROVE  TrackInv'
<1> DEFINE n == Len(errors)
           o == e.offset
<1>1. /\ TrackInv /\ errors \in Seq(Error)
      /\ offsets \in Seq(Offsets) /\ Len(offsets) \in Nat /\ DOMAIN offsets = 1..Len(offsets)
      /\ Len(offsets) <= MaxTracked /\ MaxTracked \in Nat
      /\ n \in Nat /\ DOMAIN errors = 1..n
    BY LenProperties, LimitsAssumption DEF SummaryInv, TrackInv
<1>2. /\ DOMAIN errors' = 1..(n + 1) /\ errors'[n + 1] = e
      /\ \A i \in 1..n : errors'[i] = errors[i]
    BY <1>1, AppendProperties, LenProperties
<1>3. o \in Offsets
    BY DEF Error
<1>4. \A p : At(errors, p) \subseteq 1..n
    BY <1>1 DEF At
<1>5. ASSUME NEW p PROVE At(errors, p) \subseteq At(errors', p) /\ (p # o => At(errors', p) = At(errors, p))
    BY <1>1, AtStep
<1>6. \A k \in 1..n : /\ Rereads(errors')[k] = Rereads(errors)[k]
                      /\ Passes(errors')[k] = Passes(errors)[k]
                      /\ Allocations(errors')[k] = Allocations(errors)[k]
    BY <1>1, <1>2 DEF Rereads, Passes, Allocations
<1>7. /\ Rereads(errors')[n + 1] = e.reread /\ Passes(errors')[n + 1] = e.pass
      /\ Allocations(errors')[n + 1] = e.allocation
    BY <1>1, <1>2 DEF Rereads, Passes, Allocations
<1>8. CASE Slot(o) > MaxTracked
    <2>1. UNCHANGED <<offsets, allocations, passes, rereads>>
        BY <1>8 DEF Track, tracked
    <2>2. o \notin Tracked /\ Len(offsets) = MaxTracked
        <3>1. ~(Slot(o) \in DOMAIN offsets)
            BY <1>1, <1>8
        <3>2. o \notin Tracked /\ Slot(o) = Len(offsets) + 1
            BY <1>1, <3>1, SlotIs
        <3>3. /\ Len(offsets) \in Nat /\ MaxTracked \in Nat
              /\ Len(offsets) <= MaxTracked /\ Len(offsets) + 1 > MaxTracked
            BY <1>1, <1>8, <3>2
        <3> QED
            BY <3>2, <3>3
    <2>3. Tracked' = Tracked
        BY <2>1 DEF Tracked
    <2>4. \A p \in Tracked : At(errors', p) = At(errors, p)
        BY <1>5, <2>2
    <2>5. ASSUME NEW k \in DOMAIN errors', errors'[k].offset \notin Tracked
          PROVE  \A p \in Tracked : \E j \in At(errors, p) : j < k
        <3>1. CASE k = n + 1
            <4> SUFFICES ASSUME NEW p \in Tracked PROVE \E j \in At(errors, p) : j < k
                OBVIOUS
            <4>1. PICK j \in At(errors, p) : TRUE
                BY <1>1 DEF TrackInv
            <4>2. j \in 1..n
                BY <1>4
            <4> QED
                BY <1>1, <3>1, <4>1, <4>2
        <3>2. CASE k \in 1..n
            BY <1>1, <1>2, <2>5, <3>2 DEF TrackInv
        <3> QED
            BY <1>1, <1>2, <3>1, <3>2
    <2>6. ASSUME NEW i \in DOMAIN offsets
          PROVE  /\ Seen(Rereads(errors'), errors', offsets'[i]) = Seen(Rereads(errors), errors, offsets[i])
                 /\ Seen(Passes(errors'), errors', offsets'[i]) = Seen(Passes(errors), errors, offsets[i])
                 /\ Seen(Allocations(errors'), errors', offsets'[i]) = Seen(Allocations(errors), errors, offsets[i])
        <3>1. offsets[i] \in Tracked /\ offsets'[i] = offsets[i]
            BY <2>1 DEF Tracked
        <3>2. At(errors', offsets[i]) = At(errors, offsets[i])
            BY <1>5, <2>2, <3>1, <2>1
        <3> QED
            BY <1>4, <1>6, <2>1, <3>2 DEF Seen
    <2> QED
        BY <1>1, <2>1, <2>2, <2>3, <2>4, <2>5, <2>6 DEF TrackInv, Masks
<1>9. CASE ~(Slot(o) > MaxTracked)
    <2>1. /\ offsets' = IF Contains(offsets, o) THEN offsets ELSE Append(offsets, o)
          /\ allocations' = Mark(allocations, Slot(o), e.allocation)
          /\ passes' = Mark(passes, Slot(o), e.pass)
          /\ rereads' = Mark(rereads, Slot(o), e.reread)
        BY <1>9 DEF Track
    <2>2. ~Contains(offsets, o) => /\ o \notin Tracked /\ Len(offsets) < MaxTracked
                                   /\ At(errors, o) = {}
        <3>1. ASSUME ~Contains(offsets, o) PROVE o \notin Tracked /\ Len(offsets) < MaxTracked
            BY <1>1, <1>9, <3>1, SlotIs
        <3>2. \A k \in DOMAIN errors : errors[k].offset \notin Tracked => Len(offsets) = MaxTracked
            BY <1>1 DEF TrackInv
        <3>3. ASSUME o \notin Tracked, Len(offsets) < MaxTracked, NEW k \in DOMAIN errors
              PROVE  errors[k].offset # o
            <4>1. Len(offsets) \in Int /\ MaxTracked \in Int
                BY <1>1
            <4>2. Len(offsets) # MaxTracked
                BY <3>3, <4>1
            <4>3. errors[k].offset \in Tracked
                BY <3>2, <4>2
            <4> QED
                BY <3>3, <4>3
        <3> QED
            BY <3>1, <3>3 DEF At
    <2>3. /\ offsets' \in Seq(Offsets) /\ Len(offsets') <= MaxTracked
          /\ DOMAIN offsets' = IF Contains(offsets, o) THEN DOMAIN offsets
                               ELSE (1..Len(offsets)) \union {Len(offsets) + 1}
          /\ \A i \in DOMAIN offsets : offsets'[i] = offsets[i]
          /\ ~Contains(offsets, o) => offsets'[Len(offsets) + 1] = o
        <3>1. CASE Contains(offsets, o)
            BY <1>1, <2>1, <3>1
        <3>2. CASE ~Contains(offsets, o)
            <4>1. /\ offsets' \in Seq(Offsets) /\ Len(offsets') = Len(offsets) + 1
                  /\ offsets'[Len(offsets) + 1] = o
                  /\ \A i \in 1..Len(offsets) : offsets'[i] = offsets[i]
                BY <1>1, <1>3, <2>1, <3>2, AppendProperties
            <4>2. DOMAIN offsets' = 1..(Len(offsets) + 1)
                BY <4>1, LenProperties
            <4> QED
                BY <1>1, <2>2, <3>2, <4>1, <4>2
        <3> QED
            BY <3>1, <3>2
    <2>4. Tracked' = Tracked \union {o}
        <3>1. Contains(offsets, o) => o \in Tracked
            BY <1>1 DEF Contains, Tracked
        <3> QED
            BY <1>1, <2>3, <3>1 DEF Tracked
    <2>5. \A i, j \in DOMAIN offsets' : offsets'[i] = offsets'[j] => i = j
        <3>1. \A i \in DOMAIN offsets : ~Contains(offsets, o) => offsets[i] # o
            BY <1>1 DEF Contains
        <3>2. \A i, j \in DOMAIN offsets : offsets[i] = offsets[j] => i = j
            BY <1>1 DEF TrackInv
        <3> QED
            BY <1>1, <2>3, <3>1, <3>2
    <2>6. \A p \in Tracked' : At(errors', p) # {}
        <3>1. At(errors', o) = At(errors, o) \union {n + 1}
            BY <1>1, AtStep
        <3>2. \A p \in Tracked : At(errors, p) # {}
            BY <1>1 DEF TrackInv
        <3> QED
            BY <1>5, <2>4, <3>1, <3>2
    <2>7. ASSUME NEW k \in DOMAIN errors', errors'[k].offset \notin Tracked'
          PROVE  /\ Len(offsets') = MaxTracked
                 /\ \A p \in Tracked' : \E j \in At(errors', p) : j < k
        <3>1. errors'[k].offset # o /\ errors'[k].offset \notin Tracked
            BY <2>4, <2>7
        <3>2. k \in 1..n /\ errors[k].offset \notin Tracked
            BY <1>1, <1>2, <3>1
        <3>3. /\ Len(offsets) = MaxTracked
              /\ \A p \in Tracked : \E j \in At(errors, p) : j < k
            BY <1>1, <3>2 DEF TrackInv
        <3>4. Contains(offsets, o)
            BY <1>1, <2>2, <3>3
        <3>5. offsets' = offsets /\ Tracked' = Tracked
            BY <2>1, <3>4 DEF Tracked
        <3> QED
            BY <1>5, <3>3, <3>5
    <2>8. rereads' = Masks(Rereads(errors'), errors', offsets')
        <3> DEFINE now == Rereads(errors')
        <3>1. rereads = Masks(Rereads(errors), errors, offsets)
            BY <1>1 DEF TrackInv
        <3>2. \A k \in DOMAIN errors : now[k] = Rereads(errors)[k]
            BY <1>1, <1>6
        <3>3. now[n + 1] = e.reread
            BY <1>7
        <3> HIDE DEF now
        <3>4. Mark(rereads, Slot(o), now[n + 1]) = Masks(now, errors', offsets')
            BY <1>1, <2>1, <2>2, <3>1, <3>2, MarkKeeps
        <3> QED
            BY <2>1, <3>3, <3>4 DEF now
    <2>9. passes' = Masks(Passes(errors'), errors', offsets')
        <3> DEFINE now == Passes(errors')
        <3>1. passes = Masks(Passes(errors), errors, offsets)
            BY <1>1 DEF TrackInv
        <3>2. \A k \in DOMAIN errors : now[k] = Passes(errors)[k]
            BY <1>1, <1>6
        <3>3. now[n + 1] = e.pass
            BY <1>7
        <3> HIDE DEF now
        <3>4. Mark(passes, Slot(o), now[n + 1]) = Masks(now, errors', offsets')
            BY <1>1, <2>1, <2>2, <3>1, <3>2, MarkKeeps
        <3> QED
            BY <2>1, <3>3, <3>4 DEF now
    <2>10. allocations' = Masks(Allocations(errors'), errors', offsets')
        <3> DEFINE now == Allocations(errors')
        <3>1. allocations = Masks(Allocations(errors), errors, offsets)
            BY <1>1 DEF TrackInv
        <3>2. \A k \in DOMAIN errors : now[k] = Allocations(errors)[k]
            BY <1>1, <1>6
        <3>3. now[n + 1] = e.allocation
            BY <1>7
        <3> HIDE DEF now
        <3>4. Mark(allocations, Slot(o), now[n + 1]) = Masks(now, errors', offsets')
            BY <1>1, <2>1, <2>2, <3>1, <3>2, MarkKeeps
        <3> QED
            BY <2>1, <3>3, <3>4 DEF now
    <2> QED
        BY <2>3, <2>5, <2>6, <2>7, <2>8, <2>9, <2>10 DEF TrackInv
<1> QED
    BY <1>8, <1>9

-----------------------------------------------------------------------------
(* Every step.                                                             *)

\* A word that differs.
LEMMA DifferKeeps ==
    ASSUME SummaryInv, NEW offset \in Offsets, NEW flip \in Flips, Differ(offset, flip)
    PROVE  SummaryInv'
<1> DEFINE e == ErrorAt(offset, flip)
<1>1. /\ comparison < Len(Comparisons) /\ Len(errors) < MaxErrors
      /\ from' = offset + 1 /\ comparison' = comparison
      /\ Count(e) /\ Track(e) /\ Record(e) /\ errors' = Append(errors, e)
    BY DEF Differ
<1>2. e \in Error
    BY <1>1, ErrorAtIsError
<1>3. errors \in Seq(Error) /\ Len(errors) \in Nat /\ total = Len(errors) /\ MaxErrors \in Nat
    BY LenProperties, LimitsAssumption DEF SummaryInv
<1>4. errors' \in Seq(Error) /\ Len(errors') = Len(errors) + 1
    BY <1>1, <1>2, <1>3, AppendProperties
<1>5. Len(errors') <= MaxErrors /\ total' = Len(errors')
    BY <1>1, <1>3, <1>4 DEF Count
<1>6. comparison' \in 0..Len(Comparisons)
    BY <1>1 DEF SummaryInv
<1>7. from' \in Nat
    BY <1>1, OffsetsAssumption
<1> HIDE DEF e
<1>8. EndsInv' /\ HistogramInv'
    BY <1>1, <1>2, EndsStep, HistogramStep
<1>9. RecordInv' /\ TrackInv'
    BY <1>1, <1>2, RecordStep, TrackStep
<1> QED
    BY <1>4, <1>5, <1>6, <1>7, <1>8, <1>9 DEF SummaryInv

\* compare_words.
LEMMA CompareKeeps ==
    ASSUME SummaryInv, Compare
    PROVE  SummaryInv'
BY NextComparisonKeeps, DifferKeeps DEF Compare

-----------------------------------------------------------------------------
(* What follows.                                                           *)

\* The types.
LEMMA SummaryTypes == SummaryInv => SummaryTypeOK
<1> SUFFICES ASSUME SummaryInv PROVE SummaryTypeOK
    OBVIOUS
<1> DEFINE n == Len(errors)
<1>1. /\ errors \in Seq(Error) /\ n \in Nat /\ n <= MaxErrors /\ DOMAIN errors = 1..n
      /\ MaxErrors \in Nat /\ MaxRecords \in Nat
    BY LenProperties, LimitsAssumption DEF SummaryInv
<1>2. comparison \in 0..Len(Comparisons) /\ from \in Nat /\ total \in 0..MaxErrors
    BY <1>1 DEF SummaryInv
<1>3. first \in Offsets \union {NoOffset} /\ last \in Offsets \union {0}
    <2>1. CASE errors = <<>>
        BY <2>1 DEF SummaryInv, EndsInv
    <2>2. CASE errors # <<>>
        <3>1. PICK i \in 1..n : errors[i].offset = first
            BY <1>1, <2>2 DEF SummaryInv, EndsInv
        <3>2. PICK j \in 1..n : errors[j].offset = last
            BY <1>1, <2>2 DEF SummaryInv, EndsInv
        <3>3. errors[i] \in Error /\ errors[j] \in Error
            BY <1>1, ElementOfSeq
        <3> QED
            BY <3>1, <3>2, <3>3 DEF Error
    <2> QED
        BY <2>1, <2>2
<1>4. ASSUME NEW b \in Bits
      PROVE  /\ Cardinality(UpAt(b)) \in 0..MaxErrors
             /\ Cardinality(DownAt(b)) \in 0..MaxErrors
             /\ Cardinality(FlipAt(b)) \in 0..MaxErrors
    <2>1. UpAt(b) \in SUBSET (1..n) /\ DownAt(b) \in SUBSET (1..n) /\ FlipAt(b) \in SUBSET (1..n)
        BY <1>1 DEF UpAt, DownAt, FlipAt
    <2>2. Cardinality(UpAt(b)) \in Nat /\ Cardinality(UpAt(b)) <= n
        BY <1>1, <2>1, PlacesAreFinite
    <2>3. Cardinality(DownAt(b)) \in Nat /\ Cardinality(DownAt(b)) <= n
        BY <1>1, <2>1, PlacesAreFinite
    <2>4. Cardinality(FlipAt(b)) \in Nat /\ Cardinality(FlipAt(b)) <= n
        BY <1>1, <2>1, PlacesAreFinite
    <2> QED
        BY <1>1, <2>2, <2>3, <2>4
<1>5. /\ up \in [Bits -> 0..MaxErrors] /\ down \in [Bits -> 0..MaxErrors]
      /\ xor \in [Bits -> 0..MaxErrors]
    BY <1>4 DEF SummaryInv, HistogramInv
<1>6. offsets \in Seq(Offsets) /\ Len(offsets) <= MaxTracked
    BY DEF SummaryInv, TrackInv
<1>7. \A noted, o : Seen(noted, errors, o) \in Mask
    BY DEF Seen, Mask
<1>8. /\ allocations \in [DOMAIN offsets -> Mask] /\ passes \in [DOMAIN offsets -> Mask]
      /\ rereads \in [DOMAIN offsets -> Mask]
    BY <1>7 DEF SummaryInv, TrackInv, Masks
<1>9. records \in Seq(Error) /\ Len(records) <= MaxRecords
    BY <1>1 DEF SummaryInv, RecordInv
<1> QED
    BY <1>1, <1>2, <1>3, <1>5, <1>6, <1>8, <1>9 DEF SummaryTypeOK

\* The totals, whatever limit was reached.
LEMMA TotalsFollow == SummaryInv => TotalsAreComplete
<1> SUFFICES ASSUME SummaryInv PROVE TotalsAreComplete
    OBVIOUS
<1> DEFINE n == Len(errors)
           failed == {errors[i].offset : i \in DOMAIN errors}
<1>1. /\ errors \in Seq(Error) /\ n \in Nat /\ DOMAIN errors = 1..n
      /\ MaxRecords \in Nat /\ total = n
    BY LenProperties, LimitsAssumption DEF SummaryInv
<1>2. ASSUME failed # {} PROVE first = Min(failed) /\ last = Max(failed)
    <2>1. errors # <<>>
        BY <1>1, <1>2
    <2>2. failed \in SUBSET Int
        <3>1. ASSUME NEW i \in 1..n PROVE errors[i].offset \in Int
            <4>1. errors[i] \in Error
                BY <1>1, ElementOfSeq
            <4>2. errors[i].offset \in Offsets
                BY <4>1 DEF Error
            <4>3. \A o \in Offsets : o \in Int
                BY OffsetsAssumption
            <4> QED
                BY <4>2, <4>3
        <3> QED
            BY <1>1, <3>1
    <2>3. /\ first \in failed /\ \A x \in failed : first <= x
          /\ last \in failed /\ \A x \in failed : x <= last
        BY <2>1 DEF SummaryInv, EndsInv
    <2> HIDE DEF failed
    <2>4. Min(failed) = first
        BY <2>2, <2>3, MinIs
    <2>5. Max(failed) = last
        BY <2>2, <2>3, MaxIs
    <2> QED
        BY <2>4, <2>5
<1>3. /\ up = [b \in Bits |-> Cardinality({i \in DOMAIN errors : b \in errors[i].flip.up})]
      /\ down = [b \in Bits |-> Cardinality({i \in DOMAIN errors : b \in errors[i].flip.down})]
      /\ xor = [b \in Bits |-> Cardinality({i \in DOMAIN errors :
                    b \in errors[i].flip.up \union errors[i].flip.down})]
    BY DEF SummaryInv, HistogramInv, UpAt, DownAt, FlipAt
<1>4. records = SubSeq(errors, 1, Min({n, MaxRecords}))
    <2> DEFINE m == IF n <= MaxRecords THEN n ELSE MaxRecords
    <2>1. Min({n, MaxRecords}) = m
        BY <1>1, MinOfTwo
    <2>2. /\ records \in Seq(Error) /\ Len(records) = m
          /\ \A i \in DOMAIN records : records[i] = errors[i]
        BY <1>1 DEF SummaryInv, RecordInv
    <2>3. m \in Nat /\ m <= n
        BY <1>1
    <2>4. DOMAIN records = 1..m /\ records = [i \in 1..m |-> records[i]]
        BY <2>2, LenProperties
    <2>5. SubSeq(errors, 1, m) = [i \in 1..m |-> errors[i]]
        BY <1>1, <2>3, SubSeqProperties
    <2> QED
        BY <2>1, <2>2, <2>4, <2>5
<1> QED
    BY <1>1, <1>2, <1>3, <1>4 DEF TotalsAreComplete, ErrorsOf

-----------------------------------------------------------------------------
(* The offsets tracked are the first that failed.                          *)

\* An offset that failed has a first time.
LEMMA FirstSeenIs ==
    ASSUME SummaryInv, NEW o, At(errors, o) # {}
    PROVE  /\ FirstSeen(o) \in At(errors, o) /\ FirstSeen(o) \in 1..Len(errors)
           /\ \A j \in At(errors, o) : j \in Nat /\ FirstSeen(o) <= j
<1>1. errors \in Seq(Error) /\ Len(errors) \in Nat /\ DOMAIN errors = 1..Len(errors)
    BY LenProperties DEF SummaryInv
<1>2. At(errors, o) \in SUBSET (1..Len(errors)) /\ At(errors, o) \in SUBSET Nat
    BY <1>1 DEF At
<1>3. PICK m \in At(errors, o) : \A j \in At(errors, o) : m <= j
    BY <1>2, LeastExists
<1>4. At(errors, o) \in SUBSET Int
    BY <1>2
<1>5. Min(At(errors, o)) = m
    BY <1>3, <1>4, MinIs
<1>6. FirstSeen(o) = Min(At(errors, o))
    BY DEF FirstSeen, ErrorsOf, At
<1> QED
    BY <1>2, <1>3, <1>5, <1>6

\* Every offset tracked failed, and what failed is an offset.
LEMMA FailedIs ==
    ASSUME SummaryInv
    PROVE  /\ \A o : o \in Failed <=> At(errors, o) # {}
           /\ Tracked \subseteq Failed /\ Failed \subseteq Offsets /\ IsFiniteSet(Failed)
<1>1. errors \in Seq(Error) /\ Len(errors) \in Nat /\ DOMAIN errors = 1..Len(errors)
    BY LenProperties DEF SummaryInv
<1>2. \A o : o \in Failed <=> At(errors, o) # {}
    BY DEF Failed, At
<1>3. Tracked \subseteq Failed
    BY <1>2 DEF SummaryInv, TrackInv
<1>4. Failed \subseteq Offsets
    <2>1. ASSUME NEW i \in 1..Len(errors) PROVE errors[i].offset \in Offsets
        <3>1. errors[i] \in Error
            BY <1>1, ElementOfSeq
        <3> QED
            BY <3>1 DEF Error
    <2> QED
        BY <1>1, <2>1 DEF Failed
<1> QED
    BY <1>2, <1>3, <1>4, OffsetsAssumption, FS_Subset

\* Places and offsets are counted alike, whatever is asked of the offsets.
LEMMA PlacesOrOffsets ==
    ASSUME SummaryInv, NEW Q
    PROVE  Cardinality({i \in DOMAIN offsets : offsets[i] \in Q}) = Cardinality(Tracked \cap Q)
<1> DEFINE P == {i \in DOMAIN offsets : offsets[i] \in Q}
           T == Tracked \cap Q
           f == [i \in P |-> offsets[i]]
<1>1. offsets \in Seq(Offsets) /\ Len(offsets) \in Nat /\ DOMAIN offsets = 1..Len(offsets)
    BY LenProperties DEF SummaryInv, TrackInv
<1>2. P \in SUBSET (1..Len(offsets))
    BY <1>1
<1>3. IsFiniteSet(P)
    BY <1>1, <1>2, PlacesAreFinite
<1>4. \A i, j \in P : offsets[i] = offsets[j] => i = j
    BY DEF SummaryInv, TrackInv
<1>5. f \in Bijection(P, T)
    <2>1. f \in [P -> T] /\ \A t \in T : \E i \in P : f[i] = t
        BY DEF Tracked
    <2>2. \A i, j \in P : f[i] = f[j] => i = j
        BY <1>4
    <2> QED
        BY <2>1, <2>2 DEF Bijection, Injection, Surjection, IsInjective
<1>6. ExistsBijection(P, T)
    BY <1>5 DEF ExistsBijection
<1> QED
    BY <1>3, <1>6, FS_Bijection

\* The table holds the offsets that failed first, whenever it was full.
LEMMA FirstAreTracked == SummaryInv => FirstFailed = Tracked
<1> SUFFICES ASSUME SummaryInv PROVE FirstFailed = Tracked
    OBVIOUS
<1> DEFINE Before(o) == {p \in Failed : FirstSeen(p) < FirstSeen(o)}
<1>1. /\ errors \in Seq(Error) /\ Len(errors) \in Nat /\ DOMAIN errors = 1..Len(errors)
      /\ Len(offsets) \in Nat /\ Len(offsets) <= MaxTracked /\ MaxTracked \in Nat
    BY LenProperties, LimitsAssumption DEF SummaryInv, TrackInv
<1>2. /\ \A o : o \in Failed <=> At(errors, o) # {}
      /\ Tracked \subseteq Failed /\ IsFiniteSet(Failed)
    BY FailedIs
<1>3. IsFiniteSet(Tracked) /\ Cardinality(Tracked) = Len(offsets)
    <2>1. DOMAIN offsets = 1..Len(offsets)
        BY LenProperties DEF SummaryInv, TrackInv
    <2>2. {i \in DOMAIN offsets : offsets[i] \in Tracked} = 1..Len(offsets)
        BY <2>1 DEF Tracked
    <2>3. Tracked \cap Tracked = Tracked
        OBVIOUS
    <2>4. Cardinality(1..Len(offsets)) = Len(offsets)
        BY <1>1, PlacesAreCounted
    <2>5. IsFiniteSet(Tracked)
        BY <1>2, FS_Subset
    <2> QED
        BY <2>2, <2>3, <2>4, <2>5, PlacesOrOffsets
<1>4. ASSUME NEW o \in Failed
      PROVE  /\ FirstSeen(o) \in Nat /\ FirstSeen(o) \in DOMAIN errors
             /\ errors[FirstSeen(o)].offset = o
             /\ \A j \in At(errors, o) : j \in Nat /\ FirstSeen(o) <= j
    BY <1>1, <1>2, FirstSeenIs DEF At
<1>5. ASSUME NEW o \in Failed, o \notin Tracked
      PROVE  /\ Len(offsets) = MaxTracked
             /\ \A p \in Tracked : FirstSeen(p) < FirstSeen(o)
    <2>1. /\ Len(offsets) = MaxTracked
          /\ \A p \in Tracked : \E j \in At(errors, p) : j < FirstSeen(o)
        BY <1>4, <1>5 DEF SummaryInv, TrackInv
    <2> SUFFICES ASSUME NEW p \in Tracked PROVE FirstSeen(p) < FirstSeen(o)
        BY <2>1
    <2>2. PICK j \in At(errors, p) : j < FirstSeen(o)
        BY <2>1
    <2>3. p \in Failed
        BY <1>2
    <2>4. j \in Nat /\ FirstSeen(p) \in Nat /\ FirstSeen(p) <= j /\ FirstSeen(o) \in Nat
        BY <1>4, <2>3
    <2> QED
        BY <2>2, <2>4
<1>6. ASSUME NEW o \in Tracked PROVE Cardinality(Before(o)) < MaxTracked
    <2>1. Before(o) \subseteq Tracked \ {o}
        <3> SUFFICES ASSUME NEW p \in Before(o) PROVE p \in Tracked /\ p # o
            OBVIOUS
        <3>1. p \in Failed /\ o \in Failed /\ FirstSeen(p) < FirstSeen(o)
            BY <1>2
        <3>2. FirstSeen(p) \in Nat /\ FirstSeen(o) \in Nat
            BY <1>4, <3>1
        <3>3. ~(FirstSeen(o) < FirstSeen(p))
            BY <3>1, <3>2
        <3>4. p \in Tracked
            BY <1>5, <3>1, <3>3
        <3> QED
            BY <3>1, <3>2, <3>4
    <2>2. /\ IsFiniteSet(Tracked \ {o})
          /\ Cardinality(Tracked \ {o}) = Len(offsets) - 1
        BY <1>3, FS_RemoveElement
    <2>3. Cardinality(Before(o)) \in Nat /\ Cardinality(Before(o)) <= Len(offsets) - 1
        BY <2>1, <2>2, FS_Subset, FS_CardinalityType
    <2> QED
        BY <1>1, <2>3
<1>7. ASSUME NEW o \in Failed, o \notin Tracked PROVE ~(Cardinality(Before(o)) < MaxTracked)
    <2>1. Tracked \subseteq Before(o) /\ Before(o) \subseteq Failed
        BY <1>2, <1>5, <1>7
    <2>2. IsFiniteSet(Before(o)) /\ Cardinality(Tracked) <= Cardinality(Before(o))
        BY <1>2, <2>1, FS_Subset
    <2>3. Cardinality(Before(o)) \in Nat
        BY <2>2, FS_CardinalityType
    <2>4. Len(offsets) = MaxTracked
        BY <1>5, <1>7
    <2> QED
        BY <1>1, <1>3, <2>2, <2>3, <2>4
<1> QED
    BY <1>2, <1>6, <1>7 DEF FirstFailed

\* What failed twice, in rereads, in passes or in allocations.
LEMMA ReproducibleFollows == SummaryInv => ReproducibleIsReal
<1> SUFFICES ASSUME SummaryInv PROVE ReproducibleIsReal
    OBVIOUS
<1>1. FirstFailed = Tracked
    BY FirstAreTracked
<1>2. ASSUME NEW noted
      PROVE  Cardinality({i \in DOMAIN Masks(noted, errors, offsets) :
                            Cardinality(Masks(noted, errors, offsets)[i]) > 1})
                = Cardinality({o \in Tracked : Cardinality(Seen(noted, errors, o)) > 1})
    <2> DEFINE Q == {o \in Tracked : Cardinality(Seen(noted, errors, o)) > 1}
    <2>1. {i \in DOMAIN Masks(noted, errors, offsets) :
                            Cardinality(Masks(noted, errors, offsets)[i]) > 1}
            = {i \in DOMAIN offsets : offsets[i] \in Q}
        BY DEF Masks, Tracked
    <2>2. Tracked \cap Q = Q
        OBVIOUS
    <2> QED
        BY <2>1, <2>2, PlacesOrOffsets
<1>3. ASSUME NEW o
      PROVE  /\ Seen(Rereads(errors), errors, o)
                    = {errors[i].reread : i \in At(errors, o)} \cap 0..7
             /\ Seen(Passes(errors), errors, o)
                    = {errors[i].pass : i \in At(errors, o)} \cap 0..7
             /\ Seen(Allocations(errors), errors, o)
                    = {errors[i].allocation : i \in At(errors, o)} \cap 0..7
    BY DEF Seen, Rereads, Passes, Allocations, At
<1>4. /\ rereads = Masks(Rereads(errors), errors, offsets)
      /\ passes = Masks(Passes(errors), errors, offsets)
      /\ allocations = Masks(Allocations(errors), errors, offsets)
    BY DEF SummaryInv, TrackInv
<1>5. Reproducible(rereads) = Cardinality({o \in Tracked :
            Cardinality({errors[i].reread : i \in At(errors, o)} \cap 0..7) > 1})
    <2>1. Reproducible(rereads)
            = Cardinality({o \in Tracked : Cardinality(Seen(Rereads(errors), errors, o)) > 1})
        BY <1>2, <1>4 DEF Reproducible, Quantify
    <2> QED
        BY <1>3, <2>1
<1>6. Reproducible(passes) = Cardinality({o \in Tracked :
            Cardinality({errors[i].pass : i \in At(errors, o)} \cap 0..7) > 1})
    <2>1. Reproducible(passes)
            = Cardinality({o \in Tracked : Cardinality(Seen(Passes(errors), errors, o)) > 1})
        BY <1>2, <1>4 DEF Reproducible, Quantify
    <2> QED
        BY <1>3, <2>1
<1>7. Reproducible(allocations) = Cardinality({o \in Tracked :
            Cardinality({errors[i].allocation : i \in At(errors, o)} \cap 0..7) > 1})
    <2>1. Reproducible(allocations)
            = Cardinality({o \in Tracked : Cardinality(Seen(Allocations(errors), errors, o)) > 1})
        BY <1>2, <1>4 DEF Reproducible, Quantify
    <2> QED
        BY <1>3, <2>1
<1> QED
    BY <1>1, <1>5, <1>6, <1>7 DEF ReproducibleIsReal, ErrorsOf, At

-----------------------------------------------------------------------------
(* Loops.                                                                  *)

\* What holds of 0, and of k + 1 if it holds of k, holds of every number.
LEMMA Counting ==
    ASSUME NEW T, 0 \in T, \A k \in Nat : k \in T => k + 1 \in T
    PROVE  \A k \in Nat : k \in T
<1> DEFINE Out == {k \in Nat : k \notin T}
<1>1. Out = {}
    <2> SUFFICES ASSUME Out # {} PROVE FALSE
        OBVIOUS
    <2>1. PICK n \in Out : \A k \in Out : n <= k
        BY LeastExists
    <2>2. n \in Nat /\ n # 0 /\ n - 1 \in Nat /\ ~(n <= n - 1)
        <3>1. n \in Nat /\ n # 0
            OBVIOUS
        <3> QED
            BY <3>1
    <2>3. n - 1 \in T
        BY <2>1, <2>2
    <2>4. (n - 1) + 1 \in T
        BY <2>2, <2>3
    <2> QED
        BY <2>2, <2>4
<1> QED
    BY <1>1

Best == [delta : Nat, hits : Nat]
Nothing == [delta |-> 0, hits |-> 0]

\* The same between two numbers.
LEMMA CountingUp ==
    ASSUME NEW m \in Nat, NEW n \in Nat, m <= n, NEW T, m \in T,
           \A k \in m..(n - 1) : k \in T => k + 1 \in T
    PROVE  n \in T
<1> DEFINE U == {d \in Nat : m + d <= n => m + d \in T}
<1>1. 0 \in U
    <2>1. m + 0 = m
        OBVIOUS
    <2> QED
        BY <2>1
<1>2. ASSUME NEW d \in Nat, d \in U PROVE d + 1 \in U
    <2> SUFFICES ASSUME m + (d + 1) <= n PROVE m + (d + 1) \in T
        OBVIOUS
    <2>1. m + d \in m..(n - 1) /\ m + d <= n /\ m + (d + 1) = (m + d) + 1
        OBVIOUS
    <2>2. m + d \in T
        BY <1>2, <2>1
    <2>3. (m + d) + 1 \in T
        BY <2>1, <2>2
    <2> QED
        BY <2>1, <2>3
<1> HIDE DEF U
<1>3. n - m \in U
    BY <1>1, <1>2, Counting
<1> USE DEF U
<1>4. m + (n - m) = n
    OBVIOUS
<1>5. m + (n - m) <= n => m + (n - m) \in T
    BY <1>3
<1> QED
    BY <1>4, <1>5

\* A run of a loop over m + 1, ..., n that keeps a best distance.
Steps(m, n) == [(m + 1)..n -> [Best -> Best]]
IsRun(f, start, Step, m, n) ==
    /\ f \in [m..n -> Best] /\ f[m] = start
    /\ \A k \in (m + 1)..n : f[k] = Step[k][f[k - 1]]

\* A loop over m + 1, ..., n that keeps a best distance has a run.
LEMMA LoopRuns ==
    ASSUME NEW m \in Nat, NEW n \in Nat, m <= n, NEW start \in Best, NEW Step \in Steps(m, n)
    PROVE  \E f : IsRun(f, start, Step, m, n)
<1> USE DEF Steps
<1> DEFINE Run(f, u) == f[m] = start /\ \A k \in (m + 1)..u : f[k] = Step[k][f[k - 1]]
           T == {d \in Nat : m + d <= n => \E f \in [m..(m + d) -> Best] : Run(f, m + d)}
<1>1. 0 \in T
    <2> DEFINE f == [k \in m..m |-> start]
    <2>1. f \in [m..m -> Best] /\ Run(f, m)
        OBVIOUS
    <2>2. m + 0 = m
        OBVIOUS
    <2> QED
        BY <2>1, <2>2
<1>2. ASSUME NEW d \in Nat, d \in T PROVE d + 1 \in T
    <2> SUFFICES ASSUME m + (d + 1) <= n
                 PROVE  \E f \in [m..(m + (d + 1)) -> Best] : Run(f, m + (d + 1))
        OBVIOUS
    <2> DEFINE u == m + d
    <2>1. u \in Nat /\ m <= u /\ u + 1 <= n /\ m + (d + 1) = u + 1
        OBVIOUS
    <2>2. PICK f \in [m..u -> Best] : Run(f, u)
        BY <1>2, <2>1
    <2> HIDE DEF u, T
    <2> DEFINE g == [k \in m..(u + 1) |-> IF k = u + 1 THEN Step[u + 1][f[u]] ELSE f[k]]
    <2>3. f[u] \in Best /\ Step[u + 1] \in [Best -> Best]
        BY <2>1
    <2>4. g \in [m..(u + 1) -> Best]
        <3>1. Step[u + 1][f[u]] \in Best
            BY <2>3
        <3> QED
            BY <2>1, <3>1
    <2>5. g[m] = start
        BY <2>1, <2>2
    <2>6. ASSUME NEW k \in (m + 1)..(u + 1) PROVE g[k] = Step[k][g[k - 1]]
        <3>1. CASE k = u + 1
            BY <2>1, <3>1
        <3>2. CASE k # u + 1
            <4>1. k \in (m + 1)..u /\ k - 1 \in m..u
                BY <2>1, <3>2
            <4>2. g[k] = f[k] /\ g[k - 1] = f[k - 1]
                BY <2>1, <4>1
            <4> QED
                BY <2>2, <4>1, <4>2
        <3> QED
            BY <3>1, <3>2
    <2> HIDE DEF g
    <2> QED
        BY <2>1, <2>4, <2>5, <2>6
<1>3. n - m \in T
    <2> HIDE DEF T
    <2> QED
        BY <1>1, <1>2, Counting
<1>4. m + (n - m) = n
    OBVIOUS
<1>5. PICK f \in [m..n -> Best] : Run(f, n)
    BY <1>3, <1>4
<1> QED
    BY <1>5 DEF IsRun

-----------------------------------------------------------------------------
(* The stride.                                                             *)

\* A distance has a number of pairs.
LEMMA HitsIsNumber ==
    ASSUME SummaryInv, NEW d
    PROVE  Hits(d) \in Nat /\ Hits(d) > 0
<1> DEFINE P == {p \in (DOMAIN offsets) \X (DOMAIN offsets) :
                    p[1] < p[2] /\ Distance(p[1], p[2]) = d}
<1>1. IsFiniteSet(DOMAIN offsets)
    BY FS_Interval, LenProperties DEF SummaryInv, TrackInv
<1>2. IsFiniteSet(P)
    BY <1>1, FS_Product, FS_Subset
<1>3. Cardinality(P) \in Nat
    BY <1>2, FS_CardinalityType
<1> HIDE DEF P
<1>4. Hits(d) = 1 + Cardinality(P)
    BY DEF Hits, P
<1> QED
    BY <1>3, <1>4

\* The offsets at two places.
LEMMA OffsetsAtPlaces ==
    ASSUME SummaryInv
    PROVE  /\ Len(offsets) \in Nat /\ DOMAIN offsets = 1..Len(offsets)
           /\ \A i \in 1..Len(offsets) : offsets[i] \in Nat /\ offsets[i] \in Offsets
                                       /\ offsets[i] \in Tracked
           /\ \A i, j \in 1..Len(offsets) : offsets[i] = offsets[j] => i = j
           /\ \A o \in Tracked : o \in Nat /\ \E i \in 1..Len(offsets) : o = offsets[i]
<1>1. offsets \in Seq(Offsets) /\ Len(offsets) \in Nat /\ DOMAIN offsets = 1..Len(offsets)
    BY LenProperties DEF SummaryInv, TrackInv
<1>2. \A i \in 1..Len(offsets) : offsets[i] \in Nat /\ offsets[i] \in Offsets
    BY <1>1, OffsetsAssumption, ElementOfSeq
<1>3. \A i, j \in DOMAIN offsets : offsets[i] = offsets[j] => i = j
    BY DEF SummaryInv, TrackInv
<1> QED
    BY <1>1, <1>2, <1>3 DEF Tracked

\* Two places have a distance, and offsets at two places are not the same.
LEMMA DistanceIsNumber ==
    ASSUME SummaryInv, NEW i \in 1..Len(offsets), NEW j \in 1..Len(offsets), i # j
    PROVE  Distance(i, j) \in Nat \ {0}
<1>1. offsets[i] \in Nat /\ offsets[j] \in Nat /\ offsets[i] # offsets[j]
    BY OffsetsAtPlaces
<1> QED
    BY <1>1 DEF Distance

\* The best of some distances.
BestOf(best, distances) ==
    IF distances = {} THEN best = Nothing
    ELSE /\ best.delta \in distances
         /\ best = [delta |-> best.delta, hits |-> Hits(best.delta)]
         /\ \A d \in distances : ~Better(d, best)

\* One distance more.
LEMMA TryStep ==
    ASSUME SummaryInv, NEW S \in SUBSET (Nat \ {0}), NEW d \in Nat \ {0},
           NEW best, BestOf(best, S)
    PROVE  BestOf(Try(best, d), S \union {d}) /\ Try(best, d) \in Best
<1>1. \A e \in Nat : Hits(e) \in Nat /\ Hits(e) > 0
    BY HitsIsNumber
<1>2. d \in Nat /\ d # 0 /\ S \union {d} # {} /\ \A e \in S : e \in Nat
    OBVIOUS
<1>3. CASE S = {}
    <2>1. best = Nothing
        BY <1>3 DEF BestOf
    <2>2. Better(d, best)
        BY <1>1, <1>2, <2>1 DEF Better, Nothing
    <2>3. Try(best, d) = [delta |-> d, hits |-> Hits(d)]
        BY <1>2, <2>2 DEF Try
    <2>4. ~Better(d, [delta |-> d, hits |-> Hits(d)])
        BY <1>1, <1>2 DEF Better
    <2> QED
        BY <1>1, <1>2, <1>3, <2>3, <2>4 DEF BestOf, Best
<1>4. CASE S # {}
    <2> DEFINE b == best.delta
    <2>1. b \in S /\ b \in Nat /\ best = [delta |-> b, hits |-> Hits(b)]
        BY <1>2, <1>4 DEF BestOf
    <2>2. \A e \in S : ~Better(e, best)
        BY <1>4 DEF BestOf
    <2> HIDE DEF b
    <2>3. CASE Better(d, best)
        <3>1. Try(best, d) = [delta |-> d, hits |-> Hits(d)]
            BY <1>2, <2>3 DEF Try
        <3>2. ASSUME NEW e \in S \union {d}
              PROVE  ~Better(e, [delta |-> d, hits |-> Hits(d)])
            BY <1>1, <1>2, <2>1, <2>2, <2>3 DEF Better
        <3> QED
            BY <1>1, <1>2, <3>1, <3>2 DEF BestOf, Best
    <2>4. CASE ~Better(d, best)
        <3>1. Try(best, d) = best
            BY <2>4 DEF Try
        <3>2. best.delta = b /\ best.hits = Hits(b)
            BY <2>1
        <3>3. best \in Best
            BY <1>1, <2>1 DEF Best
        <3>4. \A e \in S \union {d} : ~Better(e, best)
            BY <2>2, <2>4
        <3> QED
            BY <1>2, <2>1, <3>1, <3>2, <3>3, <3>4 DEF BestOf
    <2> QED
        BY <2>3, <2>4
<1> QED
    BY <1>3, <1>4

\* The best of no distances, or of some, is a distance and a number of pairs.
LEMMA BestOfType ==
    ASSUME SummaryInv, NEW S \in SUBSET (Nat \ {0}), NEW best, BestOf(best, S)
    PROVE  best \in Best
<1>1. \A e \in Nat : Hits(e) \in Nat
    BY HitsIsNumber
<1>2. CASE S = {}
    BY <1>2 DEF BestOf, Best, Nothing
<1>3. CASE S # {}
    <2>1. best.delta \in Nat /\ best = [delta |-> best.delta, hits |-> Hits(best.delta)]
        BY <1>3 DEF BestOf
    <2>2. Hits(best.delta) \in Nat
        BY <1>1, <2>1
    <2> QED
        BY <2>1, <2>2 DEF Best
<1> QED
    BY <1>2, <1>3

\* What the inner loop has tried.
Tried(i, n) == {Distance(i, j) : j \in (i + 1)..n}

\* The inner loop, one step after the other.
LEMMA InnerRun ==
    ASSUME SummaryInv, NEW i \in 1..Len(offsets), NEW best \in Best
    PROVE  \E f : /\ f \in [i..Len(offsets) -> Best]
                  /\ f[i] = best
                  /\ \A j \in (i + 1)..Len(offsets) : f[j] = Try(f[j - 1], Distance(i, j))
                  /\ BestFrom(best, i) = f[Len(offsets)]
<1> DEFINE n == Len(offsets)
           Body(f) == [j \in i..n |-> IF j = i THEN best ELSE Try(f[j - 1], Distance(i, j))]
           after == CHOOSE f : f = Body(f)
<1>1. n \in Nat /\ i \in Nat /\ i \in 1..n /\ i <= n
    BY LenProperties DEF SummaryInv, TrackInv
<1>2. \A k \in (i + 1)..n : Distance(i, k) \in Nat
    BY <1>1, DistanceIsNumber
<1>3. BestFrom(best, i) = after[n]
    BY DEF BestFrom
<1> HIDE DEF n
<1>4. ASSUME NEW b \in Best, NEW d \in Nat PROVE Try(b, d) \in Best
    <2>1. Hits(d) \in Nat
        BY HitsIsNumber
    <2> QED
        BY <2>1 DEF Try, Best
<1>5. \E f : f = Body(f)
    <2> DEFINE Step == [k \in (i + 1)..n |-> [b \in Best |-> Try(b, Distance(i, k))]]
    <2>1. Step \in Steps(i, n)
        BY <1>2, <1>4 DEF Steps
    <2> HIDE DEF Step
    <2>2. PICK f : IsRun(f, best, Step, i, n)
        BY <1>1, <2>1, LoopRuns
    <2> USE DEF Step
    <2>3. /\ f \in [i..n -> Best] /\ f[i] = best
          /\ \A k \in (i + 1)..n : f[k] = Step[k][f[k - 1]]
        BY <2>2 DEF IsRun
    <2>4. ASSUME NEW k \in i..n
          PROVE  f[k] = IF k = i THEN best ELSE Try(f[k - 1], Distance(i, k))
        <3>1. CASE k = i
            BY <2>3, <3>1
        <3>2. CASE k # i
            <4>1. k \in (i + 1)..n /\ k - 1 \in i..n
                BY <1>1, <3>2
            <4>2. f[k - 1] \in Best /\ f[k] = Step[k][f[k - 1]]
                BY <2>3, <4>1
            <4> QED
                BY <3>2, <4>1, <4>2
        <3> QED
            BY <3>1, <3>2
    <2>5. f = Body(f)
        BY <2>3, <2>4
    <2> QED
        BY <2>5
<1>6. after = Body(after)
    <2> HIDE DEF Body
    <2> QED
        BY <1>5, Zenon
<1> HIDE DEF after
<1>7. /\ after[i] = best
      /\ \A j \in (i + 1)..n : after[j] = Try(after[j - 1], Distance(i, j))
    <2>1. \A j \in i..n : after[j] = IF j = i THEN best ELSE Try(after[j - 1], Distance(i, j))
        BY <1>6
    <2> QED
        BY <1>1, <2>1
<1>8. ASSUME NEW k \in i..n PROVE after[k] \in Best
    <2> DEFINE T == {j \in i..n : after[j] \in Best}
    <2>1. i \in T
        BY <1>1, <1>7
    <2>2. ASSUME NEW j \in i..(k - 1), j \in T PROVE j + 1 \in T
        <3>1. j + 1 \in (i + 1)..n /\ (j + 1) - 1 = j
            BY <1>1
        <3>2. after[j + 1] = Try(after[j], Distance(i, j + 1))
            BY <1>7, <3>1
        <3>3. Distance(i, j + 1) \in Nat
            BY <1>2, <3>1
        <3>4. after[j + 1] \in Best
            BY <1>4, <2>2, <3>2, <3>3
        <3> QED
            BY <3>1, <3>4
    <2>3. i \in Nat /\ k \in Nat /\ i <= k
        BY <1>1
    <2> HIDE DEF T
    <2>4. k \in T
        BY <2>1, <2>2, <2>3, CountingUp
    <2> USE DEF T
    <2> QED
        BY <2>4
<1>9. after \in [i..n -> Best]
    BY <1>6, <1>8
<1> QED
    BY <1>3, <1>7, <1>9 DEF n

\* The inner loop tries the distances of one offset to those after it.
LEMMA InnerLoop ==
    ASSUME SummaryInv, NEW i \in 1..Len(offsets), NEW S \in SUBSET (Nat \ {0}),
           NEW best, BestOf(best, S)
    PROVE  BestOf(BestFrom(best, i), S \union Tried(i, Len(offsets)))
<1> DEFINE n == Len(offsets)
<1>1. n \in Nat /\ i \in Nat /\ i \in 1..n /\ i <= n
    BY LenProperties DEF SummaryInv, TrackInv
<1>2. best \in Best
    BY BestOfType
<1>3. \A k \in (i + 1)..n : Distance(i, k) \in Nat \ {0}
    BY <1>1, DistanceIsNumber
<1>4. PICK after : /\ after[i] = best
                   /\ \A j \in (i + 1)..n : after[j] = Try(after[j - 1], Distance(i, j))
                   /\ BestFrom(best, i) = after[n]
    BY <1>2, InnerRun
<1> HIDE DEF n
<1> DEFINE T == {k \in i..n : BestOf(after[k], S \union Tried(i, k))}
<1>5. i \in T
    <2>1. Tried(i, i) = {}
        BY <1>1 DEF Tried
    <2>2. S \union Tried(i, i) = S
        BY <2>1
    <2>3. BestOf(after[i], S \union Tried(i, i))
        BY <1>4, <2>2
    <2> QED
        BY <1>1, <2>3
<1>6. ASSUME NEW k \in i..(n - 1), k \in T PROVE k + 1 \in T
    <2> DEFINE R == S \union Tried(i, k)
    <2>1. k \in Nat /\ k + 1 \in (i + 1)..n /\ k + 1 \in i..n /\ (k + 1) - 1 = k
        BY <1>1
    <2>2. BestOf(after[k], R)
        BY <1>6
    <2>3. R \in SUBSET (Nat \ {0})
        <3>1. \A j \in (i + 1)..k : j \in (i + 1)..n
            BY <1>1, <2>1
        <3> QED
            BY <1>3, <3>1 DEF Tried
    <2>4. after[k + 1] = Try(after[k], Distance(i, k + 1))
        BY <1>4, <2>1
    <2>5. R \union {Distance(i, k + 1)} = S \union Tried(i, k + 1)
        <3>1. (i + 1)..(k + 1) = ((i + 1)..k) \union {k + 1}
            BY <1>1, <2>1
        <3> QED
            BY <3>1 DEF Tried
    <2>6. Distance(i, k + 1) \in Nat \ {0}
        BY <1>3, <2>1
    <2> HIDE DEF R, T
    <2>7. BestOf(Try(after[k], Distance(i, k + 1)), R \union {Distance(i, k + 1)})
        BY <2>2, <2>3, <2>6, TryStep
    <2>8. BestOf(after[k + 1], S \union Tried(i, k + 1))
        BY <2>4, <2>5, <2>7
    <2> USE DEF T
    <2> QED
        BY <2>1, <2>8
<1>7. n \in T
    <2> HIDE DEF T
    <2> QED
        BY <1>1, <1>5, <1>6, CountingUp
<1>8. BestOf(BestFrom(best, i), S \union Tried(i, n))
    BY <1>4, <1>7
<1> QED
    BY <1>8 DEF n

\* What the outer loop has tried.
AllTried(m) == UNION {Tried(i, Len(offsets)) : i \in 1..m}

\* The outer loop, one step after the other.
LEMMA OuterRun ==
    ASSUME SummaryInv
    PROVE  \E f : /\ f[0] = Nothing
                  /\ \A i \in 1..Len(offsets) : f[i] = BestFrom(f[i - 1], i)
                  /\ StrideCandidate = f[Len(offsets)].delta
<1> DEFINE n == Len(offsets)
           Body(f) == [i \in 0..n |-> IF i = 0 THEN [delta |-> 0, hits |-> 0]
                                     ELSE BestFrom(f[i - 1], i)]
           best == CHOOSE f : f = Body(f)
<1>1. n \in Nat /\ 0 \in Nat /\ 0 <= n
    BY LenProperties DEF SummaryInv, TrackInv
<1>2. StrideCandidate = best[n].delta
    BY DEF StrideCandidate
<1>3. \A b \in Best : \A i \in 1..n : BestFrom(b, i) \in Best
    <2> SUFFICES ASSUME NEW b \in Best, NEW i \in 1..n PROVE BestFrom(b, i) \in Best
        OBVIOUS
    <2>1. PICK f : f \in [i..n -> Best] /\ BestFrom(b, i) = f[n]
        BY InnerRun
    <2>2. n \in i..n
        BY <1>1
    <2> QED
        BY <2>1, <2>2
<1>4. Nothing \in Best
    BY DEF Best, Nothing
<1> HIDE DEF n
<1>5. \E f : f = Body(f)
    <2> DEFINE Step == [i \in (0 + 1)..n |-> [b \in Best |-> BestFrom(b, i)]]
    <2>1. Step \in Steps(0, n)
        BY <1>3 DEF Steps
    <2> HIDE DEF Step
    <2>2. PICK f : IsRun(f, Nothing, Step, 0, n)
        BY <1>1, <1>4, <2>1, LoopRuns
    <2> USE DEF Step
    <2>3. /\ f \in [0..n -> Best] /\ f[0] = Nothing
          /\ \A i \in 1..n : f[i] = Step[i][f[i - 1]]
        BY <2>2 DEF IsRun
    <2>4. ASSUME NEW i \in 0..n
          PROVE  f[i] = IF i = 0 THEN [delta |-> 0, hits |-> 0] ELSE BestFrom(f[i - 1], i)
        <3>1. CASE i = 0
            BY <2>3, <3>1 DEF Nothing
        <3>2. CASE i # 0
            <4>1. i \in 1..n /\ i - 1 \in 0..n
                BY <1>1, <3>2
            <4>2. f[i - 1] \in Best /\ f[i] = Step[i][f[i - 1]]
                BY <2>3, <4>1
            <4> QED
                BY <3>2, <4>1, <4>2
        <3> QED
            BY <3>1, <3>2
    <2>5. f = Body(f)
        BY <2>3, <2>4
    <2> QED
        BY <2>5
<1>6. best = Body(best)
    <2> HIDE DEF Body
    <2> QED
        BY <1>5, Zenon
<1> HIDE DEF best
<1>7. /\ best[0] = Nothing
      /\ \A i \in 1..n : best[i] = BestFrom(best[i - 1], i)
    <2>1. \A i \in 0..n : best[i] = IF i = 0 THEN [delta |-> 0, hits |-> 0]
                                    ELSE BestFrom(best[i - 1], i)
        BY <1>6
    <2> QED
        BY <1>1, <2>1 DEF Nothing
<1> QED
    BY <1>2, <1>7 DEF n

\* gt_stride_candidate finds the best of all distances.
LEMMA StrideIsBest ==
    ASSUME SummaryInv
    PROVE  \E b : BestOf(b, AllTried(Len(offsets))) /\ StrideCandidate = b.delta
<1> DEFINE n == Len(offsets)
<1>1. n \in Nat /\ 0 \in Nat /\ 0 <= n
    BY LenProperties DEF SummaryInv, TrackInv
<1>2. PICK best : /\ best[0] = Nothing
                  /\ \A i \in 1..n : best[i] = BestFrom(best[i - 1], i)
                  /\ StrideCandidate = best[n].delta
    BY OuterRun
<1>3. \A i \in 1..n : Tried(i, n) \in SUBSET (Nat \ {0})
    <2> SUFFICES ASSUME NEW i \in 1..n, NEW j \in (i + 1)..n PROVE Distance(i, j) \in Nat \ {0}
        BY DEF Tried
    <2>1. j \in 1..n /\ i # j
        BY <1>1
    <2> QED
        BY <2>1, DistanceIsNumber
<1> DEFINE T == {m \in 0..n : BestOf(best[m], AllTried(m))}
<1>4. 0 \in T
    <2>1. AllTried(0) = {}
        BY DEF AllTried
    <2>2. BestOf(best[0], AllTried(0))
        BY <1>2, <2>1 DEF BestOf
    <2> QED
        BY <1>1, <2>2
<1>5. ASSUME NEW m \in 0..(n - 1), m \in T PROVE m + 1 \in T
    <2>1. m \in Nat /\ m + 1 \in 1..n /\ m + 1 \in 0..n /\ (m + 1) - 1 = m
        BY <1>1
    <2>2. BestOf(best[m], AllTried(m))
        BY <1>5
    <2>3. AllTried(m) \in SUBSET (Nat \ {0})
        <3>1. \A i \in 1..m : i \in 1..n
            BY <1>1, <2>1
        <3> QED
            BY <1>3, <3>1 DEF AllTried
    <2>4. best[m + 1] = BestFrom(best[m], m + 1)
        BY <1>2, <2>1
    <2>5. AllTried(m) \union Tried(m + 1, n) = AllTried(m + 1)
        <3>1. 1..(m + 1) = (1..m) \union {m + 1}
            BY <2>1
        <3> HIDE DEF n
        <3> QED
            BY <3>1 DEF AllTried, n
    <2>6. BestOf(BestFrom(best[m], m + 1), AllTried(m) \union Tried(m + 1, n))
        BY <2>1, <2>2, <2>3, InnerLoop
    <2> HIDE DEF T
    <2>7. BestOf(best[m + 1], AllTried(m + 1))
        BY <2>4, <2>5, <2>6
    <2> USE DEF T
    <2> QED
        BY <2>1, <2>7
<1>6. n \in T
    <2> HIDE DEF T, n
    <2> QED
        BY <1>1, <1>4, <1>5, CountingUp
<1> QED
    BY <1>2, <1>6

\* What is matched one to one is counted alike.
LEMMA CountedAlike ==
    ASSUME NEW P, NEW T, IsFiniteSet(P), NEW f \in [P -> T],
           \A i, j \in P : f[i] = f[j] => i = j, \A t \in T : \E i \in P : f[i] = t
    PROVE  IsFiniteSet(T) /\ Cardinality(T) = Cardinality(P)
<1>1. f \in Bijection(P, T)
    BY DEF Bijection, Injection, Surjection, IsInjective
<1>2. ExistsBijection(P, T)
    BY <1>1 DEF ExistsBijection
<1> QED
    BY <1>2, FS_Bijection

\* The distances tried are those between two offsets.
LEMMA DistancesAre ==
    ASSUME SummaryInv
    PROVE  AllTried(Len(offsets)) = {o - p : o, p \in Tracked} \cap (1..Max(Offsets))
<1> DEFINE n == Len(offsets)
           D == {o - p : o, p \in Tracked} \cap (1..Max(Offsets))
<1>1. n \in Nat
    BY OffsetsAtPlaces
<1>2. ASSUME NEW i \in 1..n, NEW j \in (i + 1)..n PROVE Distance(i, j) \in D
    <2>1. j \in 1..n /\ i # j
        BY <1>1
    <2> DEFINE a == offsets[i]
               b == offsets[j]
    <2>2. /\ a \in Nat /\ b \in Nat /\ a \in Offsets /\ b \in Offsets
          /\ a \in Tracked /\ b \in Tracked
        BY <2>1, OffsetsAtPlaces
    <2>3. Max(Offsets) \in Nat /\ a <= Max(Offsets) /\ b <= Max(Offsets)
        BY <2>2, MaxOfOffsets
    <2>4. Distance(i, j) \in Nat \ {0}
        BY <2>1, DistanceIsNumber
    <2>5. Distance(i, j) = IF a > b THEN a - b ELSE b - a
        BY DEF Distance
    <2> HIDE DEF a, b
    <2>6. Distance(i, j) \in 1..Max(Offsets)
        BY <2>2, <2>3, <2>4, <2>5
    <2> QED
        BY <2>2, <2>5, <2>6
<1>3. ASSUME NEW o \in Tracked, NEW p \in Tracked, o - p \in 1..Max(Offsets)
      PROVE  \E i \in 1..n : o - p \in Tried(i, n)
    <2>1. PICK i \in 1..n : o = offsets[i] /\ o \in Nat
        BY OffsetsAtPlaces
    <2>2. PICK j \in 1..n : p = offsets[j] /\ p \in Nat
        BY OffsetsAtPlaces
    <2>3. Max(Offsets) \in Int
        BY <2>1, OffsetsAtPlaces, MaxOfOffsets
    <2>4. o - p \in Nat /\ o - p >= 1 /\ o > p
        BY <1>3, <2>1, <2>2, <2>3
    <2>5. i # j
        BY <2>1, <2>2, <2>4
    <2>6. CASE i < j
        <3>1. j \in (i + 1)..n /\ Distance(i, j) = o - p
            BY <1>1, <2>1, <2>2, <2>4, <2>6 DEF Distance
        <3> QED
            BY <3>1 DEF Tried
    <2>7. CASE j < i
        <3>1. i \in (j + 1)..n
            BY <1>1, <2>7
        <3>2. Distance(j, i) = o - p
            BY <2>1, <2>2, <2>4 DEF Distance
        <3> QED
            BY <3>1, <3>2 DEF Tried
    <2> QED
        BY <1>1, <2>5, <2>6, <2>7
<1>4. AllTried(n) \subseteq D
    BY <1>2 DEF AllTried, Tried
<1>5. D \subseteq AllTried(n)
    BY <1>3 DEF AllTried
<1> QED
    BY <1>4, <1>5

\* The pairs of places at a distance are as many as the offsets with another one
\* at that distance above.
LEMMA HitsAre ==
    ASSUME SummaryInv, NEW d \in Nat \ {0}
    PROVE  /\ IsFiniteSet({o \in Tracked : o + d \in Tracked})
           /\ Hits(d) = 1 + Cardinality({o \in Tracked : o + d \in Tracked})
<1> DEFINE n == Len(offsets)
           P == {p \in (DOMAIN offsets) \X (DOMAIN offsets) :
                    p[1] < p[2] /\ Distance(p[1], p[2]) = d}
           T == {o \in Tracked : o + d \in Tracked}
           Low(i, j) == IF offsets[i] < offsets[j] THEN offsets[i] ELSE offsets[j]
           f == [p \in P |-> Low(p[1], p[2])]
<1>1. /\ n \in Nat /\ DOMAIN offsets = 1..n
      /\ \A i \in 1..n : offsets[i] \in Nat /\ offsets[i] \in Tracked
      /\ \A i, j \in 1..n : offsets[i] = offsets[j] => i = j
      /\ \A o \in Tracked : o \in Nat /\ \E i \in 1..n : o = offsets[i]
    BY OffsetsAtPlaces
<1>2. IsFiniteSet(P)
    <2>1. IsFiniteSet(1..n)
        BY <1>1, FS_Interval
    <2>2. IsFiniteSet((1..n) \X (1..n))
        BY <2>1, FS_Product
    <2> QED
        BY <1>1, <2>2, FS_Subset
<1> HIDE DEF n
<1>3. ASSUME NEW i \in 1..n, NEW j \in 1..n, Distance(i, j) = d
      PROVE  /\ Low(i, j) \in Tracked /\ Low(i, j) + d \in Tracked
             /\ \/ offsets[i] = Low(i, j) /\ offsets[j] = Low(i, j) + d
                \/ offsets[j] = Low(i, j) /\ offsets[i] = Low(i, j) + d
    <2> DEFINE a == offsets[i]
               b == offsets[j]
    <2>1. a \in Nat /\ b \in Nat /\ a \in Tracked /\ b \in Tracked
        BY <1>1
    <2>2. d = (IF a > b THEN a - b ELSE b - a) /\ Low(i, j) = IF a < b THEN a ELSE b
        BY <1>3 DEF Distance
    <2> HIDE DEF a, b, Low
    <2>3. \/ Low(i, j) = a /\ Low(i, j) + d = b
          \/ Low(i, j) = b /\ Low(i, j) + d = a
        BY <2>1, <2>2
    <2> USE DEF a, b
    <2> QED
        BY <2>1, <2>3
<1>4. f \in [P -> T]
    BY <1>1, <1>3
<1>5. ASSUME NEW p \in P, NEW q \in P, f[p] = f[q] PROVE p = q
    <2>1. /\ p = <<p[1], p[2]>> /\ p[1] \in 1..n /\ p[2] \in 1..n /\ p[1] < p[2]
          /\ Distance(p[1], p[2]) = d /\ f[p] = Low(p[1], p[2])
        BY <1>1
    <2>2. /\ q = <<q[1], q[2]>> /\ q[1] \in 1..n /\ q[2] \in 1..n /\ q[1] < q[2]
          /\ Distance(q[1], q[2]) = d /\ f[q] = Low(q[1], q[2])
        BY <1>1
    <2> HIDE DEF P, f
    <2> DEFINE i == p[1]
               j == p[2]
               k == q[1]
               m == q[2]
               a == Low(i, j)
    <2>3. a = Low(k, m)
        BY <1>5, <2>1, <2>2
    <2>4. \/ offsets[i] = a /\ offsets[j] = a + d
          \/ offsets[j] = a /\ offsets[i] = a + d
        BY <1>3, <2>1
    <2>5. \/ offsets[k] = a /\ offsets[m] = a + d
          \/ offsets[m] = a /\ offsets[k] = a + d
        BY <1>3, <2>2, <2>3
    <2>6. /\ i \in 1..n /\ j \in 1..n /\ i < j /\ k \in 1..n /\ m \in 1..n /\ k < m
        BY <2>1, <2>2
    <2> HIDE DEF i, j, k, m, a
    <2>7. (i = k /\ j = m) \/ (i = m /\ j = k)
        BY <1>1, <2>4, <2>5, <2>6
    <2>8. i = k /\ j = m
        BY <1>1, <2>6, <2>7
    <2> QED
        BY <2>1, <2>2, <2>8 DEF i, j, k, m
<1>6. ASSUME NEW o \in T PROVE \E p \in P : f[p] = o
    <2>1. PICK i \in 1..n, j \in 1..n : offsets[i] = o /\ offsets[j] = o + d /\ o \in Nat
        BY <1>1
    <2>2. i # j /\ i \in Nat /\ j \in Nat
        BY <1>1, <2>1
    <2>3. Distance(i, j) = d /\ Distance(j, i) = d /\ Low(i, j) = o /\ Low(j, i) = o
        BY <2>1 DEF Distance
    <2>4. CASE i < j
        <3>1. <<i, j>> \in P
            BY <1>1, <2>3, <2>4
        <3>2. f[<<i, j>>] = Low(i, j)
            BY <3>1
        <3> QED
            BY <2>3, <3>1, <3>2
    <2>5. CASE j < i
        <3>1. <<j, i>> \in P
            BY <1>1, <2>3, <2>5
        <3>2. f[<<j, i>>] = Low(j, i)
            BY <3>1
        <3> QED
            BY <2>3, <3>1, <3>2
    <2> QED
        BY <2>2, <2>4, <2>5
<1>7. IsFiniteSet(T) /\ Cardinality(T) = Cardinality(P)
    <2> HIDE DEF f, P, T
    <2> QED
        BY <1>2, <1>4, <1>5, <1>6, CountedAlike
<1>8. Hits(d) = 1 + Cardinality(P)
    BY DEF Hits
<1> QED
    BY <1>7, <1>8

\* The stride is the commonest distance.
LEMMA StrideFollows == SummaryInv => StrideIsCommonest
<1> SUFFICES ASSUME SummaryInv PROVE StrideIsCommonest
    OBVIOUS
<1> DEFINE Common(d) == Cardinality({o \in Tracked : o + d \in Tracked})
           distances == {o - p : o, p \in Tracked} \cap (1..Max(Offsets))
<1>1. FirstFailed = Tracked
    BY FirstAreTracked
<1>2. distances \subseteq Nat \ {0}
    OBVIOUS
<1>3. \A d \in distances : Hits(d) = 1 + Common(d) /\ Common(d) \in Nat
    <2> SUFFICES ASSUME NEW d \in Nat \ {0} PROVE Hits(d) = 1 + Common(d) /\ Common(d) \in Nat
        BY <1>2
    <2>1. IsFiniteSet({o \in Tracked : o + d \in Tracked}) /\ Hits(d) = 1 + Common(d)
        BY HitsAre
    <2>2. Common(d) \in Nat
        BY <2>1, FS_CardinalityType
    <2> QED
        BY <2>1, <2>2
<1>4. AllTried(Len(offsets)) = distances
    BY DistancesAre
<1> HIDE DEF distances, Common
<1>5. PICK b : BestOf(b, distances) /\ StrideCandidate = b.delta
    <2>1. PICK b : BestOf(b, AllTried(Len(offsets))) /\ StrideCandidate = b.delta
        BY StrideIsBest
    <2>2. BestOf(b, distances)
        BY <1>4, <2>1
    <2> QED
        BY <2>1, <2>2
<1>6. CASE distances = {}
    <2>1. StrideCandidate = 0
        BY <1>5, <1>6 DEF BestOf, Nothing
    <2> QED
        BY <1>1, <1>6, <2>1 DEF StrideIsCommonest, distances, Common
<1>7. CASE distances # {}
    <2> DEFINE s == StrideCandidate
    <2>1. s \in distances /\ b = [delta |-> s, hits |-> Hits(s)] /\ \A d \in distances : ~Better(d, b)
        BY <1>5, <1>7 DEF BestOf
    <2> HIDE DEF s
    <2>2. ASSUME NEW d \in distances
          PROVE  Common(d) < Common(s) \/ (Common(d) = Common(s) /\ s <= d)
        <3>1. ~(Hits(d) > Hits(s) \/ (Hits(d) = Hits(s) /\ d < s))
            BY <2>1 DEF Better
        <3>2. /\ Hits(d) = 1 + Common(d) /\ Common(d) \in Nat /\ d \in Nat
              /\ Hits(s) = 1 + Common(s) /\ Common(s) \in Nat /\ s \in Nat
            BY <1>2, <1>3, <2>1
        <3> QED
            BY <3>1, <3>2
    <2> QED
        BY <1>1, <1>7, <2>1, <2>2 DEF StrideIsCommonest, distances, Common, s
<1> QED
    BY <1>6, <1>7

-----------------------------------------------------------------------------
(* The clusters.                                                           *)

\* A set in order.
InOrder(s, k, S) ==
    /\ s \in [1..k -> S] /\ \A x \in S : \E i \in 1..k : s[i] = x
    /\ \A i, j \in 1..k : i < j => s[i] <= s[j]

\* Every finite set of numbers can be put in order.
LEMMA OrderExists ==
    ASSUME NEW S \in SUBSET Nat, IsFiniteSet(S)
    PROVE  \E s : InOrder(s, Cardinality(S), S)
<1> DEFINE T == {k \in Nat : \A U \in SUBSET S : Cardinality(U) = k => \E s : InOrder(s, k, U)}
<1>1. 0 \in T
    <2> SUFFICES ASSUME NEW U \in SUBSET S, Cardinality(U) = 0 PROVE \E s : InOrder(s, 0, U)
        OBVIOUS
    <2>1. U = {}
        BY FS_Subset, FS_EmptySet
    <2> DEFINE s == [i \in 1..0 |-> 0]
    <2>2. 1..0 = {}
        OBVIOUS
    <2>3. InOrder(s, 0, U)
        BY <2>1, <2>2 DEF InOrder
    <2> QED
        BY <2>3
<1>2. ASSUME NEW k \in Nat, k \in T PROVE k + 1 \in T
    <2> SUFFICES ASSUME NEW U \in SUBSET S, Cardinality(U) = k + 1
                 PROVE  \E s : InOrder(s, k + 1, U)
        OBVIOUS
    <2>1. IsFiniteSet(U) /\ U \in SUBSET Nat
        BY FS_Subset
    <2>2. U # {}
        BY FS_EmptySet
    <2>3. PICK m \in U : \A x \in U : x <= m
        BY <2>1, <2>2, GreatestExists
    <2>4. Cardinality(U \ {m}) = k
        <3>1. Cardinality(U \ {m}) = Cardinality(U) - 1
            BY <2>1, <2>3, FS_RemoveElement
        <3> QED
            BY <3>1
    <2>5. PICK r : InOrder(r, k, U \ {m})
        BY <1>2, <2>4
    <2> DEFINE s == [i \in 1..(k + 1) |-> IF i = k + 1 THEN m ELSE r[i]]
    <2>6. \A i \in 1..k : i \in 1..(k + 1) /\ i # k + 1 /\ s[i] = r[i] /\ r[i] \in U
        BY <2>5 DEF InOrder
    <2>7. s[k + 1] = m /\ k + 1 \in 1..(k + 1) /\ \A i \in 1..(k + 1) : i = k + 1 \/ i \in 1..k
        OBVIOUS
    <2>8. s \in [1..(k + 1) -> U]
        BY <2>6, <2>7
    <2> HIDE DEF s
    <2>9. \A x \in U : \E i \in 1..(k + 1) : s[i] = x
        <3> SUFFICES ASSUME NEW x \in U, x # m PROVE \E i \in 1..(k + 1) : s[i] = x
            BY <2>7
        <3>1. PICK i \in 1..k : r[i] = x
            BY <2>5 DEF InOrder
        <3> QED
            BY <2>6, <3>1
    <2>10. ASSUME NEW i \in 1..(k + 1), NEW j \in 1..(k + 1), i < j PROVE s[i] <= s[j]
        <3>1. i \in 1..k
            BY <2>10
        <3>2. CASE j = k + 1
            BY <2>3, <2>6, <2>7, <3>1, <3>2
        <3>3. CASE j \in 1..k
            <4>1. r[i] <= r[j]
                BY <2>5, <2>10, <3>1, <3>3 DEF InOrder
            <4> QED
                BY <2>6, <3>1, <3>3, <4>1
        <3> QED
            BY <2>7, <3>2, <3>3
    <2> QED
        BY <2>8, <2>9, <2>10 DEF InOrder
<1>3. Cardinality(S) \in Nat
    BY FS_CardinalityType
<1>4. Cardinality(S) \in T
    <2> HIDE DEF T
    <2> QED
        BY <1>1, <1>2, <1>3, Counting
<1> QED
    BY <1>4

\* The offsets tracked are as many as their places.
LEMMA TrackedAreCounted ==
    ASSUME SummaryInv
    PROVE  IsFiniteSet(Tracked) /\ Cardinality(Tracked) = Len(offsets)
<1>1. /\ Len(offsets) \in Nat /\ DOMAIN offsets = 1..Len(offsets)
      /\ \A i, j \in 1..Len(offsets) : offsets[i] = offsets[j] => i = j
    BY OffsetsAtPlaces
<1> DEFINE f == [i \in 1..Len(offsets) |-> offsets[i]]
<1>2. f \in [1..Len(offsets) -> Tracked] /\ \A t \in Tracked : \E i \in 1..Len(offsets) : f[i] = t
    BY <1>1 DEF Tracked
<1>3. \A i, j \in 1..Len(offsets) : f[i] = f[j] => i = j
    BY <1>1
<1>4. IsFiniteSet(1..Len(offsets)) /\ Cardinality(1..Len(offsets)) = Len(offsets)
    BY <1>1, FS_Interval
<1> HIDE DEF f
<1> QED
    BY <1>2, <1>3, <1>4, CountedAlike

\* What the insertion sort leaves.
LEMMA SortedIs ==
    ASSUME SummaryInv
    PROVE  InOrder(Sorted, Len(offsets), Tracked)
<1> DEFINE n == Len(offsets)
<1>1. n \in Nat /\ DOMAIN offsets = 1..n /\ Tracked \in SUBSET Nat
    BY OffsetsAtPlaces
<1>2. IsFiniteSet(Tracked) /\ Cardinality(Tracked) = n
    BY TrackedAreCounted
<1>3. PICK s : InOrder(s, n, Tracked)
    BY <1>1, <1>2, OrderExists
<1>4. ToSet(offsets) = Tracked
    BY DEF ToSet, Tracked
<1> HIDE DEF n
<1> DEFINE AsSorted(t) == /\ ToSet(t) = ToSet(offsets)
                          /\ \A i, j \in DOMAIN t : i < j => t[i] <= t[j]
<1>5. s \in [DOMAIN offsets -> ToSet(offsets)] /\ AsSorted(s)
    <2>1. DOMAIN s = 1..n /\ s \in [1..n -> Tracked]
        BY <1>3 DEF InOrder
    <2>2. ToSet(s) = Tracked
        BY <1>3, <2>1 DEF InOrder, ToSet
    <2> QED
        BY <1>1, <1>3, <1>4, <2>1, <2>2 DEF InOrder
<1>6. Sorted = CHOOSE t \in [DOMAIN offsets -> ToSet(offsets)] : AsSorted(t)
    BY DEF Sorted
<1>7. Sorted \in [DOMAIN offsets -> ToSet(offsets)] /\ AsSorted(Sorted)
    <2> HIDE DEF AsSorted
    <2> QED
        BY <1>5, <1>6
<1>8. Sorted \in [1..n -> Tracked] /\ DOMAIN Sorted = 1..n
    BY <1>1, <1>4, <1>7
<1>9. \A x \in Tracked : \E i \in 1..n : Sorted[i] = x
    BY <1>4, <1>7, <1>8 DEF ToSet
<1>10. InOrder(Sorted, n, Tracked)
    BY <1>7, <1>8, <1>9 DEF InOrder
<1> QED
    BY <1>10 DEF n

\* As many clusters as offsets without another one close below.
LEMMA ClustersFollow == SummaryInv => ClustersAreApart
<1> SUFFICES ASSUME SummaryInv PROVE ClustersAreApart
    OBVIOUS
<1> DEFINE n == Len(offsets)
           T == {o \in Tracked : ~\E p \in Tracked : p < o /\ o - p <= Gap}
           P == {i \in 2..n : Sorted[i] - Sorted[i - 1] > Gap}
           Q == P \union {1}
           f == [i \in Q |-> Sorted[i]]
<1>1. FirstFailed = Tracked
    BY FirstAreTracked
<1>2. n \in Nat /\ DOMAIN offsets = 1..n /\ Gap \in Nat \ {0}
      /\ \A o \in Tracked : o \in Nat
    BY OffsetsAtPlaces, LimitsAssumption
<1>3. ClusterCount = IF offsets = <<>> THEN 0 ELSE 1 + Cardinality(P)
    BY DEF ClusterCount, Quantify
<1>4. CASE offsets = <<>>
    <2>1. T = {}
        BY <1>4 DEF Tracked
    <2>2. Cardinality(T) = 0
        BY <2>1, FS_EmptySet
    <2> QED
        BY <1>1, <1>3, <1>4, <2>2 DEF ClustersAreApart
<1>5. CASE offsets # <<>>
    <2>1. 1 \in 1..n
        <3>1. offsets \in Seq(Offsets)
            BY DEF SummaryInv, TrackInv
        <3> QED
            BY <1>2, <1>5, <3>1, EmptySeq, LenProperties
    <2>2. InOrder(Sorted, n, Tracked)
        BY SortedIs
    <2> HIDE DEF n
    <2>3. /\ \A i \in 1..n : Sorted[i] \in Tracked /\ Sorted[i] \in Nat
          /\ \A o \in Tracked : \E i \in 1..n : Sorted[i] = o
          /\ \A i, j \in 1..n : i <= j => Sorted[i] <= Sorted[j]
        <3>1. \A i \in 1..n : Sorted[i] \in Tracked /\ Sorted[i] \in Nat
            BY <1>2, <2>2 DEF InOrder
        <3>2. ASSUME NEW i \in 1..n, NEW j \in 1..n, i <= j PROVE Sorted[i] <= Sorted[j]
            <4>1. CASE i = j
                BY <3>1, <4>1
            <4>2. CASE i < j
                BY <2>2, <4>2 DEF InOrder
            <4> QED
                BY <3>2, <4>1, <4>2
        <3> QED
            BY <2>2, <3>1, <3>2 DEF InOrder
    <2>4. \A i, j \in 1..n : Sorted[i] = Sorted[j] => i = j
        <3> DEFINE g == [i \in 1..n |-> Sorted[i]]
        <3>1. g \in Surjection(1..n, Tracked)
            BY <2>3 DEF Surjection
        <3>2. IsFiniteSet(1..n) /\ Cardinality(1..n) = Cardinality(Tracked)
            <4>1. Cardinality(Tracked) = n
                BY TrackedAreCounted DEF n
            <4> QED
                BY <1>2, <4>1, FS_Interval
        <3> HIDE DEF g
        <3>3. g \in Injection(1..n, Tracked)
            BY <3>1, <3>2, FS_SurjSameCardinalityImpliesInj
        <3> USE DEF g
        <3> QED
            BY <3>3 DEF Injection, IsInjective
    <2>5. \A i \in Q : i \in 1..n
        BY <1>2, <2>1
    <2>6. ASSUME NEW i \in Q PROVE f[i] \in T
        <3> SUFFICES ASSUME NEW p \in Tracked, p < Sorted[i], Sorted[i] - p <= Gap PROVE FALSE
            BY <2>3, <2>5
        <3>1. PICK j \in 1..n : Sorted[j] = p
            BY <2>3
        <3>2. i \in 1..n /\ Sorted[i] \in Nat /\ p \in Nat
            BY <1>2, <2>3, <2>5
        <3>3. ~(i <= j)
            BY <2>3, <3>1, <3>2
        <3>4. i # 1 /\ j <= i - 1 /\ i - 1 \in 1..n
            BY <1>2, <3>1, <3>2, <3>3
        <3>5. Sorted[i] - Sorted[i - 1] > Gap
            BY <3>4
        <3>6. p <= Sorted[i - 1] /\ Sorted[i - 1] \in Nat
            BY <2>3, <3>1, <3>4
        <3> QED
            BY <1>2, <3>2, <3>5, <3>6
    <2>7. ASSUME NEW o \in T PROVE \E i \in Q : f[i] = o
        <3>1. PICK i \in 1..n : Sorted[i] = o
            BY <2>3
        <3>2. CASE i = 1
            BY <3>1, <3>2
        <3>3. CASE i # 1
            <4>1. i \in 2..n /\ i - 1 \in 1..n /\ i - 1 # i /\ i - 1 <= i
                BY <1>2, <3>3
            <4>2. /\ Sorted[i - 1] \in Tracked /\ Sorted[i - 1] \in Nat /\ o \in Nat
                  /\ Sorted[i - 1] # o /\ Sorted[i - 1] <= o
                BY <1>2, <2>3, <2>4, <3>1, <4>1
            <4>3. ~(o - Sorted[i - 1] <= Gap)
                BY <4>2
            <4>4. i \in P
                BY <1>2, <3>1, <4>1, <4>2, <4>3
            <4> QED
                BY <3>1, <4>4
        <3> QED
            BY <3>2, <3>3
    <2>8. \A i, j \in Q : f[i] = f[j] => i = j
        BY <2>4, <2>5
    <2>9. IsFiniteSet(P) /\ 1 \notin P
        <3>1. IsFiniteSet(2..n)
            BY <1>2, FS_Interval
        <3>2. P \in SUBSET (2..n)
            OBVIOUS
        <3>3. 1 \notin P
            BY <1>2, <3>2
        <3> HIDE DEF P
        <3> QED
            BY <3>1, <3>2, <3>3, FS_Subset
    <2>10. IsFiniteSet(Q) /\ Cardinality(Q) = Cardinality(P) + 1
        <3> HIDE DEF P
        <3> QED
            BY <2>9, FS_AddElement
    <2>11. f \in [Q -> T]
        BY <2>6
    <2>12. Cardinality(T) = Cardinality(Q)
        <3> HIDE DEF f, Q, T
        <3> QED
            BY <2>7, <2>8, <2>10, <2>11, CountedAlike
    <2>13. Cardinality(P) \in Nat
        BY <2>9, FS_CardinalityType
    <2>14. ClusterCount = Cardinality(T)
        <3> HIDE DEF P, Q, T
        <3> QED
            BY <1>3, <1>5, <2>10, <2>12, <2>13
    <2> QED
        BY <1>1, <2>14 DEF ClustersAreApart
<1> QED
    BY <1>4, <1>5

\* What is derived from the offsets tracked.
LEMMA StatisticsFollow == SummaryInv => StatisticsAreTrue
BY ReproducibleFollows, ClustersFollow, StrideFollows DEF StatisticsAreTrue
===============================================================================
