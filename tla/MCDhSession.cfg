SPECIFICATION DhSpec
CONSTANTS
    r1 = r1
    r2 = r2
    i1 = i1
    i2 = i2
    e1 = e1
    e2 = e2
    Responder = {r1, r2}
    Initiator = {i1, i2}
    Enclave = {e1, e2}
    EnclaveOf <- MCEnclaveOf
    NoEnclave = NoEnclave
    MaxKeys = 4
SYMMETRY Symmetry
INVARIANTS
    Agreement
    AekReturnedOnce
CHECK_DEADLOCK FALSE
