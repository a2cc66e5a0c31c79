SPECIFICATION Spec
CONSTANTS
    homes = homes
    clients = clients
    Home = h
    LockNode = l
    Node = {h, l, c1, c2}
    Client = {c1, c2}
    Server = {h, l, c1, c2}
    Addr = {a1}
    Value = {v1, v2}
    None = none
    MayWrite <- OneWrites
    FreshStates = {"UNSHARED"}
    CacheSize = 2
    CacheReserve = 0
    MaxSharers = 3
    Patient = FALSE
    Writer = c1
INVARIANTS
    SessionsPaired
    DirectoryFresh
    AtomicityInv
    SingleWriterCoherence
    WriteVisibleWhenReturned
PROPERTIES
    ImplementsAtomicMemory
SYMMETRY Words
CHECK_DEADLOCK FALSE
