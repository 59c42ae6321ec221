SPECIFICATION Spec
CONSTANTS
    Events = {e1}
    None = None
    Capacity = 1
    Jobs = {j1}
    Enabled = {j1}
    Runs = {1, 2}
    Backups = {b1}
    Torn = Torn
    MaxChanges = 1
    MaxCrashes = 1
    PasswordDuringRestore = TRUE
INVARIANT CredentialRetained
CHECK_DEADLOCK FALSE
