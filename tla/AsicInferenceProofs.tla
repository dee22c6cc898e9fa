------------------------- MODULE AsicInferenceProofs --------------------------
(***************************************************************************)
(* For any catalogs, any card and any errors: what infer_channel_lane       *)
(* returns comes from the only profile that matches, and is said to be      *)
(* complete only if it tells of every word that came back wrong.           *)
(***************************************************************************)
EXTENDS AsicInference, ErrorSummaryProofs

\* What was returned is what the catalog and the summary, both as they still
\* are, lead to.
ConclusionInv ==
    inference # NotYet => catalog \in Catalogs /\ inference = Infer(catalog)

IInv ==
    /\ SummaryInv
    /\ catalog \in Catalogs \union {{}} /\ lost \in BOOLEAN
    /\ ConclusionInv

-----------------------------------------------------------------------------
(* What a profile leads to.                                                *)

\* p is the one profile that matches, and leads to a hypothesis.
Leads(files, p) ==
    /\ ~CatalogInvalid(files) /\ Matching(files) = {p}
    /\ Infer(files) = Apply(p) /\ Apply(p).status = "HYPOTHESIS"

\* A hypothesis has one source.
LEMMA InferIs ==
    ASSUME NEW files, IsFiniteSet(files)
    PROVE  Infer(files).status = "UNKNOWN" \/ \E p \in files : Leads(files, p)
<1>1. CASE \/ CatalogInvalid(files) \/ Matching(files) = {}
           \/ Cardinality(Matching(files)) # 1
    BY <1>1 DEF Infer, Unknown
<1>2. CASE ~CatalogInvalid(files) /\ Matching(files) # {} /\ Cardinality(Matching(files)) = 1
    <2>1. IsFiniteSet(Matching(files)) /\ Matching(files) \subseteq files
        <3>1. Matching(files) \subseteq files
            BY DEF Matching
        <3> QED
            BY <3>1, FS_Subset
    <2>2. PICK p : Matching(files) = {p}
        BY <1>2, <2>1, FS_Singleton
    <2>3. p = CHOOSE q \in Matching(files) : TRUE
        BY <2>2
    <2>4. Infer(files) = Apply(p) /\ p \in files
        BY <1>2, <2>1, <2>2, <2>3 DEF Infer
    <2>5. Apply(p).status \in {"UNKNOWN", "HYPOTHESIS"}
        BY DEF Apply, Unknown
    <2> QED
        BY <1>2, <2>2, <2>4, <2>5 DEF Leads
<1> QED
    BY <1>1, <1>2

\* What the hypothesis of a profile says.
LEMMA HypothesisIs ==
    ASSUME NEW p, Apply(p).status = "HYPOTHESIS"
    PROVE  /\ Apply(p).profile = p.id
           /\ Apply(p).channels = [n \in Names |-> Cardinality({i \in Applicable(p) :
                    p.channels[Selector(p, records[i].offset)] = n})]
           /\ Apply(p).lanes = [n \in Names |-> Cardinality({i \in Applicable(p) :
                    n \in LanesOf(p, Flipped(records[i]))})]
           /\ Apply(p).confidence \in {p.confidence, "LOW"}
           /\ Apply(p).complete = (total = Cardinality(Applicable(p)))
BY DEF Apply, Unknown, Quantify, Complete

\* The records a profile speaks of are no more than the records.
LEMMA ApplicableIs ==
    ASSUME SummaryInv, NEW p, NEW P, P \subseteq Applicable(p)
    PROVE  /\ IsFiniteSet(P) /\ Cardinality(P) \in 0..MaxRecords
           /\ Applicable(p) \subseteq DOMAIN records
<1>1. /\ Len(records) \in Nat /\ Len(records) <= MaxRecords /\ DOMAIN records = 1..Len(records)
      /\ MaxRecords \in Nat
    BY LenProperties, LimitsAssumption, SummaryTypes DEF SummaryTypeOK
<1>2. Applicable(p) \subseteq DOMAIN records
    BY DEF Applicable
<1>3. P \in SUBSET (1..Len(records))
    BY <1>1, <1>2
<1>4. IsFiniteSet(P) /\ Cardinality(P) \in Nat /\ Cardinality(P) <= Len(records)
    BY <1>1, <1>3, PlacesAreFinite
<1> QED
    BY <1>1, <1>2, <1>4

-----------------------------------------------------------------------------
(* Init and the steps.                                                     *)

\* What a profile leads to depends on the summary and on the device.
LEMMA ApplyStays ==
    ASSUME UNCHANGED <<summaryVars, lost>>, NEW p
    PROVE  Apply(p)' = Apply(p)
<1>1. UNCHANGED <<total, rereads, passes, allocations, records, lost>>
    BY DEF summaryVars, totals, tracked
<1>2. Applicable(p)' = Applicable(p)
    BY <1>1 DEF Applicable
<1>3. Repeated' = Repeated
    BY <1>1 DEF Repeated, Reproducible, Quantify
<1> QED
    BY <1>1, <1>2, <1>3 DEF Apply, Quantify, Complete

\* And so does what a catalog leads to.
LEMMA InferStays ==
    ASSUME UNCHANGED <<summaryVars, lost>>, NEW files
    PROVE  Infer(files)' = Infer(files)
<1> DEFINE p == CHOOSE q \in Matching(files) : TRUE
<1>1. Apply(p)' = Apply(p)
    BY ApplyStays
<1> QED
    BY <1>1 DEF Infer

\* Nothing is concluded before the work ends.
LEMMA InitHolds == Init => IInv
BY SummaryInitInv DEF Init, IInv, ConclusionInv

\* Every step keeps it.
LEMMA StepHolds == IInv /\ [Next]_vars => IInv'
<1> SUFFICES ASSUME IInv, [Next]_vars PROVE IInv'
    OBVIOUS
<1>1. CASE inference = NotYet /\ Compare /\ UNCHANGED <<catalog, lost, inference>>
    BY <1>1, CompareKeeps DEF IInv, ConclusionInv
<1>2. CASE Conclude
    <2>1. SummaryInv'
        BY <1>2, SummaryStays DEF IInv, Conclude
    <2>2. lost' \in BOOLEAN
        BY <1>2 DEF IInv, Conclude
    <2>3. PICK files \in Catalogs : catalog' = files /\ inference' = Infer(files)'
        BY <1>2 DEF Conclude
    <2> QED
        BY <2>1, <2>2, <2>3 DEF IInv, ConclusionInv
<1>3. CASE UNCHANGED vars
    <2>1. UNCHANGED <<summaryVars, lost>> /\ catalog' = catalog /\ inference' = inference
        BY <1>3 DEF vars
    <2>2. SummaryInv'
        BY <2>1, SummaryStays DEF IInv
    <2>3. CASE inference = NotYet
        BY <2>1, <2>2, <2>3 DEF IInv, ConclusionInv
    <2>4. CASE inference # NotYet
        <3>1. PICK files \in Catalogs : catalog = files /\ inference = Infer(files)
            BY <2>4 DEF IInv, ConclusionInv
        <3>2. Infer(files)' = Infer(files)
            BY <2>1, InferStays
        <3>3. catalog' = files /\ inference' = Infer(files)'
            BY <2>1, <3>1, <3>2
        <3>4. ConclusionInv'
            BY <2>1, <2>4, <3>3 DEF ConclusionInv
        <3> QED
            BY <2>1, <2>2, <3>4 DEF IInv
    <2> QED
        BY <2>3, <2>4
<1> QED
    BY <1>1, <1>2, <1>3 DEF Next

\* It holds throughout.
LEMMA IInvHolds == Spec => []IInv
BY InitHolds, StepHolds, PTL DEF Spec

-----------------------------------------------------------------------------
(* What follows.                                                           *)

\* A hypothesis has one profile for its source.
LEMMA SourceOf ==
    ASSUME IInv, Hypothesis
    PROVE  /\ catalog \in Catalogs /\ inference = Infer(catalog) /\ IsFiniteSet(catalog)
           /\ \E p \in catalog : Leads(catalog, p) /\ inference = Apply(p)
<1>1. inference # NotYet
    BY DEF Hypothesis, NotYet
<1>2. catalog \in Catalogs /\ inference = Infer(catalog)
    BY <1>1 DEF IInv, ConclusionInv
<1>3. IsFiniteSet(catalog)
    BY <1>2, CatalogsAssumption
<1>4. Infer(catalog).status # "UNKNOWN"
    BY <1>2 DEF Hypothesis
<1>5. PICK p \in catalog : Leads(catalog, p)
    BY <1>3, <1>4, InferIs
<1> QED
    BY <1>2, <1>3, <1>5 DEF Leads

\* The types.
LEMMA TypesFollow == IInv => TypeOK
<1> SUFFICES ASSUME IInv PROVE TypeOK
    OBVIOUS
<1>1. SummaryTypeOK
    BY SummaryTypes DEF IInv
<1>2. inference.status \in {"none", "UNKNOWN", "HYPOTHESIS"}
    <2>1. CASE inference = NotYet
        BY <2>1 DEF NotYet
    <2>2. CASE inference # NotYet
        <3>1. catalog \in Catalogs /\ inference = Infer(catalog)
            BY <2>2 DEF IInv, ConclusionInv
        <3>2. IsFiniteSet(catalog)
            BY <3>1, CatalogsAssumption
        <3> QED
            BY <3>1, <3>2, InferIs DEF Leads
    <2> QED
        BY <2>1, <2>2
<1>3. ASSUME inference.status = "HYPOTHESIS"
      PROVE  /\ inference.profile \in {p.id : p \in catalog}
             /\ inference.channels \in [Names -> 0..MaxRecords]
             /\ inference.lanes \in [Names -> 0..MaxRecords]
             /\ inference.confidence \in {"LOW", "MEDIUM", "HIGH"}
             /\ inference.complete \in BOOLEAN
    <2>1. catalog \in Catalogs
        BY <1>3, SourceOf DEF Hypothesis
    <2>2. PICK p \in catalog : Leads(catalog, p) /\ inference = Apply(p)
        BY <1>3, SourceOf DEF Hypothesis
    <2>3. /\ inference.profile = p.id
          /\ inference.channels = [n \in Names |-> Cardinality({i \in Applicable(p) :
                    p.channels[Selector(p, records[i].offset)] = n})]
          /\ inference.lanes = [n \in Names |-> Cardinality({i \in Applicable(p) :
                    n \in LanesOf(p, Flipped(records[i]))})]
          /\ inference.confidence \in {p.confidence, "LOW"}
          /\ inference.complete = (total = Cardinality(Applicable(p)))
        BY <1>3, <2>2, HypothesisIs
    <2>4. ASSUME NEW P, P \subseteq Applicable(p) PROVE Cardinality(P) \in 0..MaxRecords
        BY <2>4, ApplicableIs DEF IInv
    <2>5. inference.channels \in [Names -> 0..MaxRecords]
        <3>1. ASSUME NEW n \in Names
              PROVE  Cardinality({i \in Applicable(p) :
                        p.channels[Selector(p, records[i].offset)] = n}) \in 0..MaxRecords
            BY <2>4
        <3> QED
            BY <2>3, <3>1
    <2>6. inference.lanes \in [Names -> 0..MaxRecords]
        <3>1. ASSUME NEW n \in Names
              PROVE  Cardinality({i \in Applicable(p) :
                        n \in LanesOf(p, Flipped(records[i]))}) \in 0..MaxRecords
            BY <2>4
        <3> QED
            BY <2>3, <3>1
    <2>7. p.confidence \in {"LOW", "MEDIUM", "HIGH"}
        BY <2>1, CatalogsAssumption
    <2>8. inference.complete \in BOOLEAN
        BY <2>3
    <2> QED
        BY <2>2, <2>3, <2>5, <2>6, <2>7, <2>8
<1> QED
    BY <1>1, <1>2, <1>3 DEF TypeOK, IInv

\* Records that are all there is.
LEMMA CompleteIs ==
    ASSUME SummaryInv, NEW p, total = Cardinality(Applicable(p))
    PROVE  Applicable(p) = DOMAIN errors /\ \A i \in DOMAIN errors : records[i] = errors[i]
<1>1. /\ errors \in Seq(Error) /\ Len(errors) \in Nat /\ DOMAIN errors = 1..Len(errors)
      /\ records \in Seq(Error) /\ Len(records) \in Nat /\ DOMAIN records = 1..Len(records)
      /\ Len(records) <= Len(errors) /\ total = Len(errors)
      /\ \A i \in DOMAIN records : records[i] = errors[i]
    <2>1. errors \in Seq(Error) /\ records \in Seq(Error)
        BY DEF SummaryInv, RecordInv
    <2>2. /\ Len(errors) \in Nat /\ DOMAIN errors = 1..Len(errors)
          /\ Len(records) \in Nat /\ DOMAIN records = 1..Len(records)
        BY <2>1, LenProperties
    <2>3. Len(records) <= Len(errors)
        BY <2>2, LimitsAssumption DEF SummaryInv, RecordInv
    <2> QED
        BY <2>1, <2>2, <2>3 DEF SummaryInv, RecordInv
<1> DEFINE m == Len(records)
<1>2. Applicable(p) \in SUBSET (1..m)
    BY <1>1 DEF Applicable
<1>3. Cardinality(1..m) = m /\ IsFiniteSet(1..m)
    <2>1. Cardinality(1..m) = m
        BY <1>1, PlacesAreCounted
    <2>2. (1..m) \in SUBSET (1..m)
        OBVIOUS
    <2> QED
        BY <1>1, <2>1, <2>2, PlacesAreFinite
<1>4. Cardinality(Applicable(p)) <= m /\ IsFiniteSet(Applicable(p))
    BY <1>1, <1>2, PlacesAreFinite
<1>5. m = Len(errors) /\ Cardinality(Applicable(p)) = m
    BY <1>1, <1>4
<1>6. Applicable(p) = 1..m
    BY <1>2, <1>3, <1>5, FS_Subset
<1> QED
    BY <1>1, <1>5, <1>6

\* What is said to be complete is.
LEMMA CoverageFollows == IInv => CoverageIsHonest
<1> SUFFICES ASSUME IInv, Hypothesis, inference.complete, NEW n \in Names
             PROVE  /\ inference.channels[n] = Cardinality(
                        ErrorsOf(LAMBDA e : Source.channels[Selector(Source, e.offset)] = n))
                    /\ inference.lanes[n] = Cardinality(
                        ErrorsOf(LAMBDA e : n \in LanesOf(Source, Flipped(e))))
    BY DEF CoverageIsHonest
<1>1. PICK p \in catalog : Leads(catalog, p) /\ inference = Apply(p)
    BY SourceOf
<1>2. /\ inference.profile = p.id
      /\ inference.channels = [m \in Names |-> Cardinality({i \in Applicable(p) :
                p.channels[Selector(p, records[i].offset)] = m})]
      /\ inference.lanes = [m \in Names |-> Cardinality({i \in Applicable(p) :
                m \in LanesOf(p, Flipped(records[i]))})]
      /\ inference.complete = (total = Cardinality(Applicable(p)))
    BY <1>1, HypothesisIs DEF Leads
<1>3. Source = p
    <2>1. \A q \in catalog : q.id = p.id => q = p
        BY <1>1 DEF Leads, CatalogInvalid
    <2> QED
        BY <1>1, <1>2, <2>1 DEF Source
<1>4. Applicable(p) = DOMAIN errors /\ \A i \in DOMAIN errors : records[i] = errors[i]
    BY <1>2, CompleteIs DEF IInv
<1>5. {i \in Applicable(p) : p.channels[Selector(p, records[i].offset)] = n}
        = {i \in DOMAIN errors : p.channels[Selector(p, errors[i].offset)] = n}
    BY <1>4
<1>6. {i \in Applicable(p) : n \in LanesOf(p, Flipped(records[i]))}
        = {i \in DOMAIN errors : n \in LanesOf(p, Flipped(errors[i]))}
    BY <1>4
<1>7. ErrorsOf(LAMBDA e : Source.channels[Selector(Source, e.offset)] = n)
        = {i \in DOMAIN errors : p.channels[Selector(p, errors[i].offset)] = n}
    BY <1>3 DEF ErrorsOf
<1>8. ErrorsOf(LAMBDA e : n \in LanesOf(Source, Flipped(e)))
        = {i \in DOMAIN errors : n \in LanesOf(p, Flipped(errors[i]))}
    BY <1>3 DEF ErrorsOf
<1>9. /\ inference.channels[n]
            = Cardinality({i \in DOMAIN errors : p.channels[Selector(p, errors[i].offset)] = n})
      /\ inference.lanes[n]
            = Cardinality({i \in DOMAIN errors : n \in LanesOf(p, Flipped(errors[i]))})
    <2>1. /\ inference.channels[n] = Cardinality({i \in Applicable(p) :
                p.channels[Selector(p, records[i].offset)] = n})
          /\ inference.lanes[n] = Cardinality({i \in Applicable(p) :
                n \in LanesOf(p, Flipped(records[i]))})
        BY <1>2
    <2> QED
        BY <1>5, <1>6, <2>1
<1> QED
    BY <1>7, <1>8, <1>9

\* Further files take a hypothesis away or leave it.
LEMMA MoreFilesFollow == IInv => MoreFilesNeverMislead
<1> SUFFICES ASSUME IInv, Hypothesis, NEW files \in Catalogs, catalog \subseteq files,
                    Infer(files).status # "UNKNOWN"
             PROVE  Infer(files) = inference
    BY DEF MoreFilesNeverMislead
<1>1. PICK p \in catalog : Leads(catalog, p) /\ inference = Apply(p)
    BY SourceOf
<1>2. PICK q \in files : Leads(files, q)
    BY CatalogsAssumption, InferIs
<1>3. p \in Matching(files)
    BY <1>1 DEF Leads, Matching
<1>4. p = q
    BY <1>2, <1>3 DEF Leads
<1> QED
    BY <1>1, <1>2, <1>4 DEF Leads

-----------------------------------------------------------------------------
(* The results.                                                            *)

\* Type correctness of what the helper keeps and of what is returned.
THEOREM TypeCorrect == Spec => []TypeOK
BY IInvHolds, TypesFollow, PTL

\* Totals, ends and histograms are those of every word that came back wrong,
\* whatever limit was reached, and the records are the first of the words.
THEOREM TotalsComplete == Spec => []TotalsAreComplete
<1>1. IInv => TotalsAreComplete
    BY TotalsFollow DEF IInv
<1> QED
    BY <1>1, IInvHolds, PTL

\* The offsets that count as reproducible failed in two rereads, passes or
\* allocations, the clusters are as many as there are offsets without another one
\* close below, and the stride is the commonest distance, each among the offsets
\* that failed first, whatever order they failed in.
THEOREM StatisticsReal == Spec => []StatisticsAreTrue
<1>1. IInv => StatisticsAreTrue
    BY StatisticsFollow DEF IInv
<1> QED
    BY <1>1, IInvHolds, PTL

\* A hypothesis said to be complete tells of every word that came back wrong.
THEOREM CoverageHonest == Spec => []CoverageIsHonest
BY IInvHolds, CoverageFollows, PTL

\* A hypothesis survives further files as it is, or turns into UNKNOWN.
THEOREM MoreFilesHarmless == Spec => []MoreFilesNeverMislead
BY IInvHolds, MoreFilesFollow, PTL
===============================================================================
