SPECIFICATION Spec
CONSTANTS
    Calls = {c1, c2, c3}
    Threads = {t1, t2}
    Idle = Idle
INVARIANTS
    TypeOK
    SlotConservation
    NeverOverAdmits
    NoQueueBehindRunning
PROPERTIES
    CallsEnd
    SlotsReturn
CHECK_DEADLOCK FALSE
