SPECIFICATION TimedSpec
CONSTANTS
    Thread = {t1, t2}
    CvUser = {t1, t2}
    NoThread = NoThread
    Recursive = FALSE
    MaxDepth = 1
    MaxDebt = 2
    MaxToken = 2
    Interrupts = FALSE
    OcallsFail = FALSE
    Dur = 2
INVARIANT BlockedNoLongerThanDur
CHECK_DEADLOCK FALSE
