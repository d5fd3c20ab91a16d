SPECIFICATION Spec
CONSTANTS
    Family = {"v4", "v6"}
    Width <- mcWidth
    Lower = {"a", "b"}
    Upper = {"A"}
    ToLower <- mcToLower
    Name = {1, 2, 3}
    CAName = 9
    Unconstrained = 99
    IPOf <- mcIPOf
    MaxLabel = 2
    MaxName = 4
    SelfValidity = 10
    FallbackValidity = 1
    Peer = {"lb1", "lb2", "c1", "c2"}
    Trusted = {"lb1", "lb2"}
    Documents <- mcDocuments
    RuleLists <- mcRuleLists
    Hosts <- mcHosts
    RealChains <- mcRealChains
    Bundles <- mcBundles
    Forwardings <- mcForwardings
    Gates <- mcGates
    Listenings <- mcListenings
    Hop <- mcHop
    Seeds <- mcSeeds
    Char <- mcChar
    Headers <- mcHeaders
    Verdicts <- mcVerdicts
    MaxEntries = 3
    MaxGlob = 3
    MaxHost = 4
    MaxChain = 3
    MaxPool = 2
INVARIANTS
    TableCoverage
    TableBuckets
    TableLastEntry
    IndexTransparent
    ClonesReload
    ClonesIssuable
    BundleResolves
    ClientIsVouchedFor
    GateAdmitsItsOwn
    ListenerCertFits
