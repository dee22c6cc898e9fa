---------------------------- MODULE AsicInference ---------------------------
(***************************************************************************)
(* From the helper's error records to the memory channel and lane they      *)
(* speak of (app/asic_inference.py).  Files that describe how a chip maps   *)
(* addresses are validated, exactly one may match the card, and only then   *)
(* its rules are applied to the records.                                    *)
(***************************************************************************)
EXTENDS ErrorSummary

CONSTANTS
    Catalogs,   \* the sets of profile files that may be found
    Card,       \* the card: its vendor and device, and its revision
    Names       \* names of channels and lanes

ASSUME CardAssumption == DOMAIN Card = {"asic", "revision"}

\* A file as it is read.  What a profile must say of its sources, its version
\* and its format is well_formed; semantics is whether addresses, units, schema
\* and versions are the helper's.
ASSUME CatalogsAssumption ==
    \A files \in Catalogs : IsFiniteSet(files) /\ \A p \in files :
        /\ p.well_formed \in BOOLEAN /\ p.semantics \in BOOLEAN
        /\ p.width \in Nat \ {0}
        /\ p.groups \in Seq(SUBSET Nat)
        /\ p.confidence \in {"LOW", "MEDIUM", "HIGH"}

VARIABLES
    catalog,    \* history: the files found when it returned
    lost,       \* evidence["device_lost"]
    inference   \* what infer_channel_lane returned, NotYet before

vars == <<summaryVars, catalog, lost, inference>>

NotYet == [status |-> "none"]
Unknown(reason) == [status |-> "UNKNOWN", reason |-> reason]

-----------------------------------------------------------------------------
Bit(number, b) == (number \div 2^b) % 2
Parity(group, offset) == Quantify(group, LAMBDA b : Bit(offset, b) = 1) % 2

\* _selector_value
Selector(p, offset) == MapThenSumSet(LAMBDA i : Parity(p.groups[i], offset) * 2^(i - 1),
                                     DOMAIN p.groups)

\* _map_case
Mappable(p, offset, bits) ==
    /\ Selector(p, offset) \in DOMAIN p.channels
    /\ bits \subseteq DOMAIN p.lanes

LanesOf(p, bits) == {p.lanes[b] : b \in bits}

FixtureHolds(p, c) ==
    /\ c.experiment \in p.experiments
    /\ c.bits # {} /\ c.bits \subseteq 0..(p.width - 1)
    /\ Mappable(p, c.offset, c.bits)
    /\ c.channel = p.channels[Selector(p, c.offset)]
    /\ c.lanes = LanesOf(p, c.bits)

\* validate_profile
Valid(p) ==
    /\ p.well_formed
    /\ p.groups # <<>> /\ Len(p.groups) <= 6 /\ {} \notin ToSet(p.groups)
    /\ DOMAIN p.channels = 0..(2^Len(p.groups) - 1)
    /\ DOMAIN p.lanes = 0..(p.width - 1)
    /\ p.cases # {} /\ \A c \in p.cases : FixtureHolds(p, c)

\* load_profiles: one file that is not valid, or two of the same name and
\* version, are enough.
CatalogInvalid(files) ==
    \/ \E p \in files : ~Valid(p)
    \/ \E p, q \in files : p # q /\ p.id = q.id

Matching(files) == {p \in files : p.asic = Card.asic /\ Card.revision \in p.revisions}

-----------------------------------------------------------------------------
\* Mutant: the records are complete when all of them are used.
CompleteIfUsed(used) == Cardinality(used) = Len(records)

Complete(used) == total = Cardinality(used)

Repeated == Reproducible(rereads) > 0 \/ Reproducible(passes) > 0 \/ Reproducible(allocations) > 0

Flipped(e) == e.flip.up \union e.flip.down

\* The places of the records a profile speaks of.
Applicable(p) == {i \in DOMAIN records : records[i].experiment \in p.experiments}

Apply(p) ==
    LET used == Applicable(p)
        Uses(Test(_)) == Quantify(used, LAMBDA i : Test(records[i]))
    IN  IF ~p.semantics THEN Unknown("INPUT_SEMANTICS_MISMATCH")
        ELSE IF lost THEN Unknown("DEVICE_LOST_INVALIDATES_INFERENCE")
        ELSE IF records = <<>> THEN Unknown("NO_ERROR_EVIDENCE")
        ELSE IF used = {} THEN Unknown("NO_APPLICABLE_ERROR_EVIDENCE")
        ELSE IF p.width # Cardinality(Bits)
                \/ \E i \in used : ~Mappable(p, records[i].offset, Flipped(records[i]))
        THEN Unknown("EVIDENCE_NOT_MAPPABLE")
        ELSE [status |-> "HYPOTHESIS", profile |-> p.id,
              channels |-> [n \in Names |->
                Uses(LAMBDA e : p.channels[Selector(p, e.offset)] = n)],
              lanes |-> [n \in Names |-> Uses(LAMBDA e : n \in LanesOf(p, Flipped(e)))],
              confidence |-> IF Repeated THEN p.confidence ELSE "LOW",
              complete |-> Complete(used)]

\* Mutant: a bad file is passed over.
InferFromValid(files) ==
    LET fit == Matching({p \in files : Valid(p)})
    IN  IF fit = {} THEN Unknown("NO_VALIDATED_ASIC_PROFILE")
        ELSE Apply(CHOOSE p \in fit : TRUE)

\* infer_channel_lane
Infer(files) ==
    IF CatalogInvalid(files) THEN Unknown("INVALID_ASIC_PROFILE_CATALOG")
    ELSE IF Matching(files) = {} THEN Unknown("NO_VALIDATED_ASIC_PROFILE")
    ELSE IF Cardinality(Matching(files)) # 1 THEN Unknown("AMBIGUOUS_ASIC_PROFILE")
    ELSE Apply(CHOOSE p \in Matching(files) : TRUE)

-----------------------------------------------------------------------------
TypeOK ==
    /\ SummaryTypeOK
    /\ catalog \in Catalogs \union {{}} /\ lost \in BOOLEAN
    /\ inference.status \in {"none", "UNKNOWN", "HYPOTHESIS"}
    /\ inference.status = "HYPOTHESIS" =>
        /\ inference.profile \in {p.id : p \in catalog}
        /\ inference.channels \in [Names -> 0..MaxRecords]
        /\ inference.lanes \in [Names -> 0..MaxRecords]
        /\ inference.confidence \in {"LOW", "MEDIUM", "HIGH"}
        /\ inference.complete \in BOOLEAN

Init ==
    /\ SummaryInit
    /\ catalog = {}
    /\ lost = FALSE
    /\ inference = NotYet

\* The helper's work ends, after any comparison if the device is lost or a limit
\* is reached, and Python looks at what it reported.
Conclude ==
    /\ inference = NotYet
    /\ UNCHANGED summaryVars
    /\ IF comparison < Len(Comparisons) THEN lost' \in BOOLEAN ELSE UNCHANGED lost
    /\ \E files \in Catalogs : catalog' = files /\ inference' = Infer(files)'

Next ==
    \/ inference = NotYet /\ Compare /\ UNCHANGED <<catalog, lost, inference>>
    \/ Conclude

Spec == Init /\ [][Next]_vars

-----------------------------------------------------------------------------
(* What can be relied on.                                                  *)

Hypothesis == inference.status = "HYPOTHESIS"
Source == CHOOSE p \in catalog : p.id = inference.profile

\* If the records are said to cover all errors, then every word that ever came
\* back wrong, in any experiment, is counted for its channel and its lanes.
CoverageIsHonest ==
    Hypothesis /\ inference.complete =>
        \A n \in Names :
            /\ inference.channels[n]
                = Cardinality(ErrorsOf(LAMBDA e : Source.channels[Selector(Source, e.offset)] = n))
            /\ inference.lanes[n]
                = Cardinality(ErrorsOf(LAMBDA e : n \in LanesOf(Source, Flipped(e))))

\* Further files never turn a hypothesis into another one, only into UNKNOWN
\* (README.md:184-186, "ein ungültiges oder mehrdeutiges Profil").
MoreFilesNeverMislead ==
    Hypothesis => \A files \in Catalogs :
        catalog \subseteq files => Infer(files) = inference \/ Infer(files).status = "UNKNOWN"
=============================================================================
