SPECIFICATION FairSpec
CONSTANTS
    Events = {e1, e2}
    None = None
    Capacity = 1
    Jobs = {j1}
    Enabled = {j1}
    Runs = {1, 2}
    Backups = {b1}
    Torn = Torn
    MaxChanges = 1
    MaxCrashes = 1
    PasswordDuringRestore = FALSE
INVARIANTS
    NoSendOnClosed
    AcceptedInOrder
    DrainedIsComplete
    NoOverlap
    RequestIsKept
    DatabaseClosesLast
    PromisedBackupSettled
    CredentialRetained
PROPERTY RestartCompletes
CHECK_DEADLOCK FALSE
