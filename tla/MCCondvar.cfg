SPECIFICATION CvSpec
CONSTANTS
    Thread = {t1, t2, t3}
    CvUser = {t1, t2, t3}
    NoThread = NoThread
    Recursive = FALSE
    MaxDepth = 1
    MaxDebt = 1
    MaxToken = 1
    Interrupts = FALSE
    OcallsFail = FALSE
SYMMETRY Symmetry
INVARIANTS
    FrontIsCalled
    NotificationHonoured
    NotifiedIsCalled
    NoLostNotification
CHECK_DEADLOCK FALSE
