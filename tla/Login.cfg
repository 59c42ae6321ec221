SPECIFICATION LoginSpec
CONSTANTS
    Handlers = {h1, h2}
    Tokens = {t1, t2}
    None = None
    MaxSessions = 1
    MaxChanges = 1
    OverlapLogout = TRUE
    Sources = {a, b}
    MaxFailures = 2
    MaxSources = 1
    MaxChecks = 1
    Days = {7, 30}
    OverlapPolicy = FALSE
SYMMETRY Symmetry
INVARIANTS
    LogoutClearsRow
    SessionsMatchVerifier
    SessionsBounded
    LimiterBounded
    SlotsAccounted
    PolicyAgrees
