SPECIFICATION FairSpec
CONSTANTS
    Servers = {s1}
    Works = {w1, w2}
    Original = Original
    Fresh = Fresh
    None = None
    MaxCrashes = 2
    CrashInCleanup = FALSE
    MaintenanceDuringRestore = FALSE
    OpenDuringSwap = FALSE
INVARIANTS
    NeverLost
    OneGeneration
PROPERTIES
    OpensOnlyAfterSwap
    SwapIsAtomic
    RecordedIsInstalled
