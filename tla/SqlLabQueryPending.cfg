SPECIFICATION Spec
CONSTANTS
    Requests = {r1}
    Stoppers = {}
    NumBlocks = 1
    MaxTries = 1
    Crashes = FALSE
INVARIANT ErrorNeverLeavesPending
CHECK_DEADLOCK FALSE
