SPECIFICATION Spec
CONSTANTS
    Devices <- MCDevices
    Cpus <- MCCpus
    Target <- MCTarget
    KeyOf <- MCKeyOf
    MaxView = 4
INVARIANTS
    TypeOK
    VerdictIsOfTarget
    ErrorsAreKept
PROPERTY
    CallEnds
\* The call of the runner ends.
CHECK_DEADLOCK FALSE
