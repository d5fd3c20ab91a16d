SPECIFICATION Spec
CONSTANTS
    Node = {"n"}
    Thread = {t1}
    NodeOf <- mcOneNode
    TTLNodes = {}
    Http = {"h1", "h2"}
    OwnEgress = {"guard", "own"}
    Guard = "guard"
    Uuid = {3, 4, 5, 6, 7, 8}
    Backend = "posix"
    Stamp = {1, 2, 3, 4, 5, 6, 7, 8}
    Stamp0 = 1
    Seed = TRUE
    NoVersion = NoVersion
    IpFiles <- mcInherits
    DefaultFiles <- mcOneTable
    MayFail = FALSE
    MaxWrites = 2
PROPERTY InheritedEgressIsCurrent
