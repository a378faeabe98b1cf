SPECIFICATION Spec
CONSTANTS
    N = 2
    Stored <- Configurations
    MaxOpens = 2
INVARIANTS
    TypeOK
    ModalAgrees
    DependenciesExist
    NoCircle
    MaskCoversConfig
CHECK_DEADLOCK FALSE
