SPECIFICATION FairSpec
CONSTANTS
    Home = h
    LockNode = c
    Node = {h, c}
    Client = {c}
    Server = {h}
    Addr = {a1, a2}
    Value = {v1, v2}
    None = none
    MayWrite <- MainMayWrite
    FreshStates = {"UNSHARED"}
    CacheSize = 4
    CacheReserve = 1
    MaxSharers = 2
    Patient = TRUE
INVARIANTS
    SharersDistinct
    NobodyFails
PROPERTIES
    OperationsReturn
CHECK_DEADLOCK FALSE
