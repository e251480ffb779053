SPECIFICATION OnceSpec
CONSTANTS
    Thread = {t1, t2, t3}
    Null = Null
INVARIANTS
    InitializedOnce
    ListsAreWaiting
PROPERTIES
    WaiterGetsOn
