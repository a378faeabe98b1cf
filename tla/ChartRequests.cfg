SPECIFICATION FairSpec
CONSTANT MaxRequests = 3
INVARIANTS
    TypeOK
    LoadingHasRequest
    FreshData
PROPERTY LoadingEnds
CHECK_DEADLOCK FALSE
