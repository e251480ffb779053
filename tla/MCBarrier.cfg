SPECIFICATION BarSpec
CONSTANTS
    Thread = {t1, t2, t3, t4}
    NoThread = NoThread
    NumThreads = 3
    MaxGeneration = 2
INVARIANTS
    Rendezvous
    CountIsJoined
PROPERTIES
    AllPass
CHECK_DEADLOCK FALSE
