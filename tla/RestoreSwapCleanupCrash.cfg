SPECIFICATION Spec
CONSTANTS
    Servers = {s1}
    Works = {w1}
    Original = Original
    Fresh = Fresh
    None = None
    MaxCrashes = 1
    CrashInCleanup = TRUE
    MaintenanceDuringRestore = FALSE
    OpenDuringSwap = FALSE
INVARIANTS
    NeverLost
