SPECIFICATION Spec
CONSTANTS
    Passes <- MCPasses
    Options <- MCOptions
    Readings <- MCReadings
    Enumerations <- MCEnumerations
    Affordable <- MCAffordable
    MaxMismatches <- MCMaxMismatches
    MaxLines <- MCMaxLines
INVARIANT TotalsArePreserved
\* The call returns or raises.
CHECK_DEADLOCK FALSE
