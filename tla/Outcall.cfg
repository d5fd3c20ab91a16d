SPECIFICATION FairSpec
CONSTANTS
    k1 = k1
    k2 = k2
    c1 = c1
    c2 = c2
    Key = {k1, k2}
    Caller = {c1, c2}
    Runs <- mcRuns
    FailOpen = {c1}
    Fetch = {c1}
    Headers <- mcFew
    Code = {401}
    Override = {402}
    MaxInflight = 1
    MaxReplies <- mcReplies
INVARIANTS TypeOK NoSupersededAnswer RefusalStands SlotsBalanced
PROPERTY EveryDoReturns
