SPECIFICATION Spec
CONSTANTS
    Requests = {r1, r2}
    Stoppers = {s1, s2}
    NumBlocks = 2
    MaxTries = 2
    Crashes = TRUE
SYMMETRY Symmetry
INVARIANTS
    TypeOK
    SuccessIsFetchable
    KeyMeansStored
    StopBoundsBlocks
    SettledIsTerminal
PROPERTIES
    NoResurrection
    ImplementsQueryRow
CHECK_DEADLOCK FALSE
