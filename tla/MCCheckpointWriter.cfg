SPECIFICATION Spec
CONSTANTS
    Sidecars <- MCSidecars
    MaxReports <- MCMaxReports
INVARIANTS
    TypeOK
    AckedIsDurable
    SidecarsPrecedeReport
    MainFilesWhole
PROPERTIES
    FailedMediumUntouched
    CallEnds
    ImplementsJsonStore
    ImplementsMarkdownStore
\* The run of the program ends.
CHECK_DEADLOCK FALSE
