SPECIFICATION Spec
CONSTANTS
    Requests = {r1, r2}
    Tokens = {t1, t2}
    NoToken = NoToken
    MaxNow = 1
    MaxPassword = 1
    RefreshTtl = 2
    AccessTtl = 1
    PasswordReset = FALSE
    Workload = {"login", "refresh", "logoutAll"}
PROPERTIES SweepEndsSessions
CHECK_DEADLOCK FALSE
