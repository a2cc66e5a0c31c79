\* The home node and the lock node, each writing an address the other reads,
\* with room for one copy.
SPECIFICATION Spec
CONSTANTS
    homes = homes
    clients = clients
    Home = h
    LockNode = c1
    Node = {h, c1}
    Client = {h, c1}
    Server = {h, c1}
    Addr = {homes, clients}
    Value = {v1, v2}
    None = none
    MayWrite <- Divided
    FreshStates = {"UNSHARED", "WILD"}
    CacheSize = 1
    CacheReserve = 0
    MaxSharers = 2
    Patient = FALSE
    Writer = c1
PROPERTIES
    ImplementsAtomicMemory
SYMMETRY Words
CHECK_DEADLOCK FALSE
