SPECIFICATION Spec
CONSTANTS
    Passes <- MCPasses
    Options <- MCOptions
    Readings <- MCReadings
    Enumerations <- MCEnumerations
    Affordable <- MCAffordable
    MaxMismatches <- MCMaxMismatches
    MaxLines <- MCMaxLines
INVARIANTS
    TypeOK
    WorksOnTargetOnly
    AcceptedIsTrue
    MismatchFails
PROPERTIES
    CallEnds
    ImplementsHelperRun
\* The call returns or raises.
CHECK_DEADLOCK FALSE
