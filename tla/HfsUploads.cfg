SPECIFICATION Spec
CONSTANTS
    Requests = {r1, r2, r3}
    Names = {n1, n2}
    Host = Host
    None = None
    MaxMutations = 2
    MaxFiles = 2
    MaxHostSteps = 1
    MaxCrashes = 1
    MaxUnremoved = 1
SYMMETRY Symmetry
INVARIANTS
    TypeOK
    BatchIsAtomic
    NothingStaysStaged
PROPERTY OnlyOwnFilesGo
CHECK_DEADLOCK FALSE
