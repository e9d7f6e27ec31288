SPECIFICATION Spec
CONSTANTS
    Requests = {r1, r2}
    Tokens = {t1, t2}
    NoToken = NoToken
    MaxNow = 1
    MaxPassword = 1
    RefreshTtl = 2
    AccessTtl = 2
    PasswordReset = TRUE
    Workload = {"login", "refresh", "logout", "logoutAll", "change", "reset", "toggle", "delete"}
SYMMETRY Symmetry
INVARIANTS DeletedHasNoSession
CHECK_DEADLOCK FALSE
