SPECIFICATION Spec
CONSTANTS
    a1 = a1
    a2 = a2
    n1 = n1
    ip = ip
    r1 = r1
    r2 = r2
    Addr = {a1, a2}
    Host = {n1, ip}
    OrigDst = a2
    OrigHost = ip
    Policies <- mcPolicies
    Req = {r1, r2}
    MaxDials = 4
INVARIANTS TypeOK DialsAuthorized OneHost SentOnce NothingOutlives StreamsSurvive
PROPERTIES OneChannel
CHECK_DEADLOCK FALSE
