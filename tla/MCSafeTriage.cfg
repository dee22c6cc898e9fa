SPECIFICATION Spec
CONSTANTS
    Experiments <- MCExperiments
    MaxChanges <- MCMaxChanges
INVARIANTS
    TypeOK
    PassIsEarned
    FailureWins
    StageIsTold
    WorkOnConfirmedTarget
    SafeModeStaysPreDriver
    ExitMatchesReport
PROPERTY
    RunEnds
\* The run of the program ends.
CHECK_DEADLOCK FALSE
