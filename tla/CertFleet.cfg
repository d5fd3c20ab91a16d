SPECIFICATION Spec
CONSTANTS
    n1 = n1
    n2 = n2
    c1 = c1
    c2 = c2
    c3 = c3
    r1 = r1
    r2 = r2
    host = host
    Node = {n1, n2}
    Conn = {c1, c2, c3}
    NodeOf <- mcNodeOf
    Real = {r1}
    Tangled = {}
    Name = {host}
    NameOf <- mcNameOf
    FreshKey = {1}
    Bundles <- mcBundles
    MaxEdits = 1
    MaxCrashes = 1
    MaxFlushes = 1
    MayFail = TRUE
SYMMETRY mcConns
INVARIANTS
    TypeOK
    ServedVerifies
    PolicyIsCurrent
CHECK_DEADLOCK FALSE
