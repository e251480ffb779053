SPECIFICATION CvSpec
CONSTANTS
    Thread = {t1, t2, t3}
    CvUser = {t1}
    NoThread = NoThread
    Recursive = FALSE
    MaxDepth = 1
    MaxDebt = 1
    MaxToken = 1
    Interrupts = FALSE
    OcallsFail = FALSE
INVARIANTS
    QueueIsWaiters
    NoLostWakeup
PROPERTIES
    NotifiedReturns
    LockSucceeds
    IsFairLock
CHECK_DEADLOCK FALSE
