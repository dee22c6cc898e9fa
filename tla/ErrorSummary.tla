---------------------------- MODULE ErrorSummary ----------------------------
(***************************************************************************)
(* What the native helper keeps of the words that came back wrong           *)
(* (vram-helper/analysis.c): complete totals, error records up to a limit,  *)
(* and the offsets that failed, up to another limit, with the rereads,      *)
(* passes and allocations they failed in.                                   *)
(*                                                                         *)
(* Comparisons are made one after the other, each from the lowest offset    *)
(* to the highest.                                                         *)
(***************************************************************************)
EXTENDS Integers, Sequences, FiniteSets, SequencesExt

CONSTANTS
    Comparisons,    \* the calls of compare_words, in order
    Offsets,        \* byte offsets of the words compared
    Bits,           \* the bits of a word
    Flips,          \* the ways a word may differ: the bits that became 1, and 0
    MaxRecords,     \* --max-errors
    MaxTracked,     \* GT_MAX_TRACKED_ERRORS: 4096
    Gap,            \* offsets closer than this are a cluster: 64
    MaxErrors       \* bound: words that come back wrong

ASSUME ComparisonsAssumption ==
    Comparisons \in Seq([experiment : {"host_transfer", "gpu_local_copy", "compute_kat",
                                       "vram_pattern"},
                         allocation : 0..1, pass : Nat, reread : 0..1])
ASSUME OffsetsAssumption == Offsets \subseteq Nat /\ IsFiniteSet(Offsets)
ASSUME FlipsAssumption ==
    /\ IsFiniteSet(Bits)
    /\ \A f \in Flips : /\ f.up \subseteq Bits /\ f.down \subseteq Bits
                       /\ f.up \cap f.down = {} /\ f.up \union f.down # {}
ASSUME LimitsAssumption ==
    {MaxRecords, MaxTracked, Gap} \subseteq Nat \ {0} /\ MaxErrors \in Nat

VARIABLES
    comparison,  \* how many comparisons are over
    from,        \* the next offset to compare
    total, first, last,
    up, down, xor,                    \* bit_0_to_1, bit_1_to_0, xor_bits
    offsets,                          \* the offsets tracked
    allocations, passes, rereads,     \* their masks, as sets of bits
    records,     \* the error records written
    errors       \* history: every word that came back wrong

totals == <<total, first, last, up, down, xor>>
tracked == <<offsets, allocations, passes, rereads>>
summaryVars == <<comparison, from, totals, tracked, records, errors>>

NoOffset == 1 + Max(Offsets)    \* UINT64_MAX, above every offset
Mask == SUBSET (0..7)
Error == [experiment : {Comparisons[i].experiment : i \in DOMAIN Comparisons},
          allocation : 0..1, pass : Nat, reread : 0..1, offset : Offsets, flip : Flips]

SummaryTypeOK ==
    /\ comparison \in 0..Len(Comparisons)
    /\ from \in Nat
    /\ total \in 0..MaxErrors
    /\ first \in Offsets \union {NoOffset} /\ last \in Offsets \union {0}
    /\ \A h \in {up, down, xor} : h \in [Bits -> 0..MaxErrors]
    /\ offsets \in Seq(Offsets) /\ Len(offsets) <= MaxTracked
    /\ \A m \in {allocations, passes, rereads} : m \in [DOMAIN offsets -> Mask]
    /\ records \in Seq(Error) /\ Len(records) <= MaxRecords
    /\ errors \in Seq(Error)

SummaryInit ==
    /\ comparison = 0 /\ from = 0
    /\ total = 0 /\ first = NoOffset /\ last = 0
    /\ up = [b \in Bits |-> 0] /\ down = up /\ xor = up
    /\ offsets = <<>> /\ allocations = <<>> /\ passes = <<>> /\ rereads = <<>>
    /\ records = <<>> /\ errors = <<>>

-----------------------------------------------------------------------------
Bump(histogram, bits) == [b \in Bits |-> histogram[b] + IF b \in bits THEN 1 ELSE 0]

\* Mutant: offsets and bits are counted as long as they are recorded.
CountRecorded(e) ==
    /\ total' = total + 1
    /\ IF Len(records) < MaxRecords
       THEN /\ first' = Min({first, e.offset}) /\ last' = Max({last, e.offset})
            /\ up' = Bump(up, e.flip.up) /\ down' = Bump(down, e.flip.down)
            /\ xor' = Bump(xor, e.flip.up \union e.flip.down)
       ELSE UNCHANGED <<first, last, up, down, xor>>

Count(e) ==
    /\ total' = total + 1
    /\ first' = Min({first, e.offset}) /\ last' = Max({last, e.offset})
    /\ up' = Bump(up, e.flip.up) /\ down' = Bump(down, e.flip.down)
    /\ xor' = Bump(xor, e.flip.up \union e.flip.down)

\* The place of an offset among those tracked: the next one if it is new.
Slot(offset) ==
    IF Contains(offsets, offset) THEN SelectInSeq(offsets, LAMBDA o : o = offset)
    ELSE Len(offsets) + 1

\* Masks have eight bits.
Marked(mask, bit) == mask \union ({bit} \cap 0..7)

Mark(masks, i, bit) ==
    IF i \in DOMAIN masks THEN [masks EXCEPT ![i] = Marked(@, bit)]
    ELSE Append(masks, Marked({}, bit))

\* Mutant: a place is looked for only while the table has room.
TrackWhileRoom(e) ==
    IF Len(offsets) = MaxTracked THEN UNCHANGED tracked
    ELSE /\ offsets' = IF Contains(offsets, e.offset) THEN offsets ELSE Append(offsets, e.offset)
         /\ allocations' = Mark(allocations, Slot(e.offset), e.allocation)
         /\ passes' = Mark(passes, Slot(e.offset), e.pass)
         /\ rereads' = Mark(rereads, Slot(e.offset), e.reread)

Track(e) ==
    IF Slot(e.offset) > MaxTracked THEN UNCHANGED tracked
    ELSE /\ offsets' = IF Contains(offsets, e.offset) THEN offsets ELSE Append(offsets, e.offset)
         /\ allocations' = Mark(allocations, Slot(e.offset), e.allocation)
         /\ passes' = Mark(passes, Slot(e.offset), e.pass)
         /\ rereads' = Mark(rereads, Slot(e.offset), e.reread)

ErrorAt(offset, flip) ==
    LET c == Comparisons[comparison + 1]
    IN  [experiment |-> c.experiment, allocation |-> c.allocation, pass |-> c.pass,
         reread |-> c.reread, offset |-> offset, flip |-> flip]

\* Mutant: a record too many.
RecordOneMore(e) ==
    records' = IF Len(records) > MaxRecords THEN records ELSE Append(records, e)

Record(e) == records' = IF Len(records) >= MaxRecords THEN records ELSE Append(records, e)

\* compare_words meets a word that differs.
Differ(offset, flip) ==
    /\ comparison < Len(Comparisons) /\ Len(errors) < MaxErrors
    /\ offset >= from
    /\ from' = offset + 1
    /\ LET e == ErrorAt(offset, flip)
       IN  Count(e) /\ Track(e) /\ Record(e) /\ errors' = Append(errors, e)
    /\ UNCHANGED comparison

NextComparison ==
    /\ comparison < Len(Comparisons)
    /\ comparison' = comparison + 1 /\ from' = 0
    /\ UNCHANGED <<totals, tracked, records, errors>>

Compare == NextComparison \/ \E offset \in Offsets, flip \in Flips : Differ(offset, flip)

-----------------------------------------------------------------------------
(* The statistics of the summary.                                          *)

Distance(i, j) == IF offsets[i] > offsets[j] THEN offsets[i] - offsets[j]
                  ELSE offsets[j] - offsets[i]

\* How many pairs have that distance, and one more.
Hits(delta) ==
    1 + Cardinality({p \in (DOMAIN offsets) \X (DOMAIN offsets) :
                        p[1] < p[2] /\ Distance(p[1], p[2]) = delta})

\* Mutant: the distance seen last wins.
LastBetter(delta, best) == Hits(delta) >= best.hits

Better(delta, best) ==
    Hits(delta) > best.hits \/ (Hits(delta) = best.hits /\ delta < best.delta)

Try(best, delta) ==
    IF delta # 0 /\ Better(delta, best) THEN [delta |-> delta, hits |-> Hits(delta)] ELSE best

\* The inner loop: one offset and those after it in the table.
BestFrom(best, i) ==
    LET after[j \in i..Len(offsets)] ==
            IF j = i THEN best ELSE Try(after[j - 1], Distance(i, j))
    IN  after[Len(offsets)]

StrideCandidate ==
    LET best[i \in 0..Len(offsets)] ==
            IF i = 0 THEN [delta |-> 0, hits |-> 0] ELSE BestFrom(best[i - 1], i)
    IN  best[Len(offsets)].delta

\* Mutant: the offsets are compared in the order in which they failed.
ClustersUnsorted ==
    IF offsets = <<>> THEN 0
    ELSE 1 + Quantify(2..Len(offsets), LAMBDA i : offsets[i] - offsets[i - 1] > Gap)

\* As the insertion sort leaves the offsets: no two of them are the same.
Sorted ==
    CHOOSE s \in [DOMAIN offsets -> ToSet(offsets)] :
        /\ ToSet(s) = ToSet(offsets)
        /\ \A i, j \in DOMAIN s : i < j => s[i] <= s[j]

ClusterCount ==
    IF offsets = <<>> THEN 0
    ELSE 1 + Quantify(2..Len(offsets), LAMBDA i : Sorted[i] - Sorted[i - 1] > Gap)

Reproducible(masks) == Quantify(DOMAIN masks, LAMBDA i : Cardinality(masks[i]) > 1)

-----------------------------------------------------------------------------
(* What can be relied on.                                                  *)

ErrorsOf(Test(_)) == {i \in DOMAIN errors : Test(errors[i])}

\* Total, first and last offset and the three histograms are those of every word
\* that came back wrong, whatever limit was reached; the records are the first
\* of them (PLAN-SAFE-TRIAGE.md:461, "vollständige Summen bleiben erhalten").
TotalsAreComplete ==
    LET failed == {errors[i].offset : i \in DOMAIN errors}
        OfBit(Test(_, _)) ==
            [b \in Bits |-> Cardinality(ErrorsOf(LAMBDA e : Test(b, e.flip)))]
    IN  /\ total = Len(errors)
        /\ failed # {} => first = Min(failed) /\ last = Max(failed)
        /\ up = OfBit(LAMBDA b, f : b \in f.up) /\ down = OfBit(LAMBDA b, f : b \in f.down)
        /\ xor = OfBit(LAMBDA b, f : b \in f.up \union f.down)
        /\ records = SubSeq(errors, 1, Min({Len(errors), MaxRecords}))

\* The offsets that failed first, as many as can be tracked.
Failed == {e.offset : e \in {errors[i] : i \in DOMAIN errors}}
FirstSeen(o) == Min(ErrorsOf(LAMBDA e : e.offset = o))
FirstFailed ==
    {o \in Failed : Cardinality({p \in Failed : FirstSeen(p) < FirstSeen(o)}) < MaxTracked}

\* An offset counts as reproducible if it failed in two rereads, two passes or two
\* allocations, also if the table was full in between: all offsets do that were
\* among the first to fail, and of the passes the first eight are looked at.
ReproducibleIsReal ==
    LET Twice(Of(_)) == Cardinality({o \in FirstFailed :
            Cardinality({Of(errors[i]) : i \in ErrorsOf(LAMBDA e : e.offset = o)} \cap 0..7) > 1})
    IN  /\ Reproducible(rereads) = Twice(LAMBDA e : e.reread)
        /\ Reproducible(passes) = Twice(LAMBDA e : e.pass)
        /\ Reproducible(allocations) = Twice(LAMBDA e : e.allocation)

\* There are as many clusters as offsets without another one close below.
ClustersAreApart ==
    LET failed == FirstFailed
    IN  ClusterCount = Cardinality({o \in failed : ~\E p \in failed : p < o /\ o - p <= Gap})

\* The stride is the distance most pairs of offsets have, the smallest of those,
\* in whatever order they failed.
StrideIsCommonest ==
    LET failed == FirstFailed
        Common(d) == Cardinality({o \in failed : o + d \in failed})
        distances == {o - p : o, p \in failed} \cap (1..Max(Offsets))
    IN  IF distances = {} THEN StrideCandidate = 0
        ELSE /\ StrideCandidate \in distances
             /\ \A d \in distances :
                    \/ Common(d) < Common(StrideCandidate)
                    \/ Common(d) = Common(StrideCandidate) /\ StrideCandidate <= d

\* What is derived from the offsets that could be tracked, taken together.
StatisticsAreTrue == ReproducibleIsReal /\ ClustersAreApart /\ StrideIsCommonest
=============================================================================
