SPECIFICATION Spec
CONSTANTS
    Sidecars <- MCSidecars
    MaxReports <- MCMaxReports
INVARIANT FailedPrimaryKeepsPair
\* The run of the program ends.
CHECK_DEADLOCK FALSE
