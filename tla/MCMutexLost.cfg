SPECIFICATION MxSpec
CONSTANTS
    Thread = {t1, t2, t3}
    NoThread = NoThread
    Recursive = FALSE
    MaxDepth = 1
    MaxDebt = 2
    MaxToken = 2
    Interrupts = FALSE
    OcallsFail = FALSE
SYMMETRY Symmetry
INVARIANT FreeMutexWakesFront
CHECK_DEADLOCK FALSE
