SPECIFICATION Spec
CONSTANTS
    Proc = {p1, p2}
    Key = {"rules/default", "leaf/a"}
    Dir = {"rules", "leaf"}
    DirOf <- mcDirOf
    WipedDir = "leaf"
    Value = {"v1", "v2"}
    None = None
    MaxCalls = 3
    MaxFaults = 2
SYMMETRY mcProcs
INVARIANTS TypeOK NoLitter
PROPERTY ImplementsStorage
CHECK_DEADLOCK FALSE
