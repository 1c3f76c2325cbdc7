SPECIFICATION Spec
CONSTANTS
    u1 = u1
    u2 = u2
    u3 = u3
    u4 = u4
    b1 = b1
    b2 = b2
    b3 = b3
    b4 = b4
    Urls = {u1, u2, u3, u4}
    Nodes = {n1, n2, n3, n4}
    Nil = Nil
    Free = Free
    None = None
    Buckets = {b1, b2, b3, b4}
    BucketOf <- Colliding
    MaxEntries = 3
    TTL = 0
    MaxTime = 3
SYMMETRY Symmetry
CHECK_DEADLOCK FALSE
PROPERTY
    ImplementsLruService
