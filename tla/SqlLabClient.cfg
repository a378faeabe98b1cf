SPECIFICATION FairSpec
CONSTANTS
    MaxStops = 1
    MaxFetches = 2
    MaxFaults = 2
INVARIANTS
    TypeOK
    NeverAheadOfServer
PROPERTIES
    ResultsNotUndone
    EveryQueryConcludes
CHECK_DEADLOCK FALSE
