SPECIFICATION AnySpec
CONSTANTS
    c = c
    d = d
    e = e
    a = a
    NoAddr = NoAddr
    Client = {c, d, e}
    Addr = {a}
    Hearing = {d, e}
    LockNode = d
    Memory = 12
INVARIANTS
    CopiesTracked
CHECK_DEADLOCK FALSE
