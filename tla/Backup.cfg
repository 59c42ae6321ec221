SPECIFICATION BackupSpec
CONSTANTS
    Servers = {s1, s2}
    Works = {w1}
    Original = Original
    Fresh = Fresh
    None = None
    MaxCrashes = 1
    CrashInCleanup = FALSE
    MaintenanceDuringRestore = TRUE
    OpenDuringSwap = FALSE
    Snaps = {b1, b2}
    Torn = Torn
    MaxCommits = 2
INVARIANTS
    CandidateKept
PROPERTIES
    SnapshotsAreAtomic
