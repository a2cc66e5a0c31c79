SPECIFICATION Spec
CONSTANTS
    data = data
    log = log
    Node = {l, m, n}
    LockNode = l
    LockId = {data, log}
    Mutex = {log}
    Uses <- UsesOfAll
INVARIANTS
    LockInv
PROPERTIES
    DenialJustified
    ImplementsFragileLock
CHECK_DEADLOCK FALSE
