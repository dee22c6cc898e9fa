SPECIFICATION Spec
CONSTANTS
    None = None
    Dates <- MCDates
    Builds <- MCBuilds
    DateOf <- MCDateOf
    PackagesOf <- MCPackagesOf
    HelperOf <- MCHelperOf
    CountOf <- MCCountOf
    Legacy <- MCLegacy
    Wanted <- MCWanted
    FaultKinds <- MCLose
    MaxFaults <- MCMaxFaults
    MaxReleases <- MCNoReleases
    MaxRuns <- MCMaxRuns
    MaxBoots <- MCMaxBoots
INVARIANT ReadyToBoot
\* The budgets of the environment run out.
CHECK_DEADLOCK FALSE
