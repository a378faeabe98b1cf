SPECIFICATION Spec
CONSTANTS
    Execs = {e1}
    Grace = 1
    WorkingTimeout = 2
    Updates = FALSE
    Prunes = TRUE
PROPERTY WorkingRecovers
