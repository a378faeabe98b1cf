SPECIFICATION Spec
CONSTANTS
    Execs = {e1, e2}
    Grace = 1
    WorkingTimeout = 1
    Updates = TRUE
    Prunes = FALSE
INVARIANTS
    TypeOK
    WorkingHasStart
PROPERTIES
    RefusalKeepsVerdict
    WorkingRecovers
