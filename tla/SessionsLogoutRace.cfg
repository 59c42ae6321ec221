SPECIFICATION Spec
CONSTANTS
    Handlers = {h1, h2}
    Tokens = {t1}
    None = None
    MaxSessions = 1
    MaxChanges = 1
    OverlapLogout = TRUE
INVARIANTS
    LogoutIsFinal
