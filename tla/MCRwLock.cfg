SPECIFICATION RwSpec
CONSTANTS
    Thread = {t1, t2, t3}
    NoThread = NoThread
    MaxReads = 1
    MaxDebt = 1
    MaxToken = 1
    Interrupts = TRUE
    OcallsFail = FALSE
INVARIANTS
    ReadersOrWriter
    CountsAgree
    WaitersAreCalled
    QueuesAreWaiters
PROPERTIES
    LockIsTaken
CHECK_DEADLOCK FALSE
