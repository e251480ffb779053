SPECIFICATION MxSpec
CONSTANTS
    Thread = {t1, t2, t3}
    NoThread = NoThread
    Recursive = TRUE
    MaxDepth = 2
    MaxDebt = 3
    MaxToken = 2
    Interrupts = TRUE
    OcallsFail = TRUE
SYMMETRY Symmetry
INVARIANTS
    MxTypeOK
    MutualExclusion
    SelfWaitAfterDestroy
    FrontIsCalled
CHECK_DEADLOCK FALSE
