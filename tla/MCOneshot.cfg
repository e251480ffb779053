SPECIFICATION OsSpec
CONSTANTS
    Owner = owner
    Unparker = {u1, u2}
    Sender = u1
    Token = {k1, k2}
    NoThread = NoThread
INVARIANTS
    NeverInconsistent
    UnparkNotLost
    NeverUnreachable
    MessageKept
PROPERTIES
    UnparkedReturns
    BlockedIsWoken
CHECK_DEADLOCK FALSE
