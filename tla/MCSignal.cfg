SPECIFICATION SgSpec
CONSTANTS
    Thread = {t1, t2}
    NoThread = NoThread
    s1 = s1
    s2 = s2
    Sig = {s1, s2}
    NoSig = NoSig
    RtMax = s2
    Signalled = {t1}
    Failing = {t1}
    Registered = {s1}
    Acts <- MCActs
    MaxActions = 2
    MaxCalls = 2
    MaxRaised = 2
INVARIANTS
    RegistrationKept
    MasksInStep
    RefusedOnlyOutOfSync
    RegisteringNotInterrupted
CHECK_DEADLOCK FALSE
