SPECIFICATION Spec
CONSTANTS
    Requests = {r1, r2}
    Stoppers = {s1}
    NumBlocks = 2
    MaxTries = 2
    Crashes = FALSE
PROPERTY TaskSettles
CHECK_DEADLOCK FALSE
