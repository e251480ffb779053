SPECIFICATION EvSpec
CONSTANTS
    Thread = {t1, t2}
    MaxDebt = 3
    MaxToken = 2
    Interrupts = TRUE
    OcallsFail = TRUE
    SetLists <- MCSetLists
INVARIANTS
    WordsAgree
    SleeperHasWaker
    NoSetSleptThrough
PROPERTIES
    SetWakesSleeper
CHECK_DEADLOCK FALSE
