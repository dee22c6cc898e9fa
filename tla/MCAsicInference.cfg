SPECIFICATION Spec
CONSTANTS
    Comparisons <- MCComparisons
    Offsets <- MCOffsets
    Bits <- MCBits
    Flips <- MCFlips
    MaxRecords <- MCMaxRecords
    MaxTracked <- MCMaxTracked
    Gap <- MCGap
    MaxErrors <- MCMaxErrors
    Catalogs <- MCCatalogs
    Card <- MCCard
    Names <- MCNames
INVARIANTS
    TypeOK
    TotalsAreComplete
    StatisticsAreTrue
    CoverageIsHonest
    MoreFilesNeverMislead
\* The inference is made once.
CHECK_DEADLOCK FALSE
