SPECIFICATION FairSpec
CONSTANTS
    Node = {"n"}
    Thread = {t1}
    NodeOf <- mcOneNode
    TTLNodes = {"n"}
    Http = {"h1", "h2"}
    OwnEgress = {"guard", "own"}
    Guard = "guard"
    Uuid = {3, 4, 5, 6, 7, 8}
    Backend = "s3"
    Stamp = {1, 2, 3, 4, 5, 6, 7, 8}
    Stamp0 = 1
    Seed = FALSE
    NoVersion = NoVersion
    IpFiles <- mcIpFiles
    DefaultFiles <- mcDefaultFiles
    MayFail = TRUE
    MaxWrites = 3
INVARIANT FailsClosed
PROPERTY Converges
