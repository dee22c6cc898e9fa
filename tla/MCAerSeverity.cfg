SPECIFICATION Spec
CONSTANTS
    Nodes <- MCNodes
    Endpoint <- MCEndpoint
    Counters <- MCCounters
    LogLines <- MCLogLines
    RingSize <- MCRingSize
    MaxRelevant <- MCMaxRelevant
    MaxEvents <- MCMaxEvents
INVARIANT AerSeverity
\* The reading ends.
CHECK_DEADLOCK FALSE
