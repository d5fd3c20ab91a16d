SPECIFICATION FairSpec
CONSTANTS
    Listeners <- mcListeners
    MaxChunks <- mcChunks
INVARIANTS
    TypeOK
    ServesWithTable
    SpliceFaithful
PROPERTIES
    StopMeansStop
    SpliceDelivers
    SpliceFinishes
CHECK_DEADLOCK FALSE
