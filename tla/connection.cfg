SPECIFICATION PartSpec
CONSTANTS
    Sockets = {s1, s2, s3}
    Fds = {f1, f2, f3}
    None = None
    Dead = Dead
    Rounds = 3
    RecordSize = 4
    Capacity = 4
    Handles = {h1, h2, h3, h4, h5, h6, h7, h8, h9, h10, h11}
    MaxScopes = 4
    MaxEvents = 2
    CallsMade = 3
    MtuRefused = TRUE
    ObjectSizes = {0, 8, 492, 493}
    BufferSize = 16777216
INVARIANTS
    PartsTypeOK
    Accounted
    ObjectsHeld
    ConnectedAsMeant
    NothingIsLost
    FieldsArrive
    ThrowsOnlyWhenLarge
PROPERTIES
    ImplementsOwnership
    ImplementsSwap
    EveryPartEnds
CHECK_DEADLOCK FALSE
