SPECIFICATION ContainersSpec
CONSTANTS
    a1 = a1
    a2 = a2
    a3 = a3
    a4 = a4
    k1 = k1
    k2 = k2
    k3 = k3
    k4 = k4
    b1 = b1
    b2 = b2
    Gaddr = {a1, a2, a3, a4}
    Key = {k1, k2, k3, k4}
    Value = {v1, v2}
    None = none
    size <- Sizes
    keyOf <- Colliding
    maxsize = 4
    MaxCount = 8
    TableKey = {k1, k2, k3}
    Bucket = {b1, b2}
    hashBucket <- Buckets
    Word = {0, 1}
    Zero = 0
    Address = {g1, g2, g3}
    NoEntry = nothing
    Absent = absent
    Contended = FALSE
PROPERTIES
    InsertIsNonOverwriting
CHECK_DEADLOCK FALSE
