SPECIFICATION Spec
CONSTANTS
    Experiments <- MCOneExperiment
    MaxChanges <- MCNoChanges
INVARIANT
    CarriedOut
\* The run of the program ends.
CHECK_DEADLOCK FALSE
