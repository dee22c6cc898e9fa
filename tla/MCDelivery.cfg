SPECIFICATION Spec
CONSTANTS
    None = None
    Dates <- MCDates
    Builds <- MCBuilds
    DateOf <- MCDateOf
    PackagesOf <- MCPackagesOf
    HelperOf <- MCHelperOf
    CountOf <- MCCountOf
    Legacy <- MCLegacy
    Wanted <- MCWanted
    FaultKinds <- MCFaults
    MaxFaults <- MCMaxFaults
    MaxReleases <- MCMaxReleases
    MaxRuns <- MCMaxRuns
    MaxBoots <- MCMaxBoots
INVARIANTS
    TypeOK
    
    
    ReadyStickMatchesPin
    ReadyOrPassedStarts
PROPERTY
    RerunHeals
\* The budgets of the environment run out.
CHECK_DEADLOCK FALSE
