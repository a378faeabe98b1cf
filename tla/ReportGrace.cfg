SPECIFICATION Spec
CONSTANTS
    Execs = {e1}
    Grace = 3
    WorkingTimeout = 2
    Updates = FALSE
    Prunes = TRUE
PROPERTIES
    GraceRespected
    LoggedNoticeNotRepeated
