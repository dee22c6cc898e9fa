SPECIFICATION Spec
CONSTANTS
    Nodes <- MCNodes
    Endpoint <- MCEndpoint
    Counters <- MCCounters
    LogLines <- MCLogLines
    RingSize <- MCRingSize
    MaxRelevant <- MCMaxRelevant
    MaxEvents <- MCMaxEvents
INVARIANTS
    TypeOK
    CounterDeltasAreTrue
    LogDeltaIsTrue
CHECK_DEADLOCK FALSE
