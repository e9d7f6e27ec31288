SPECIFICATION Spec
CONSTANTS
    Requests = {r1, r2}
    Tokens = {t1}
    NoToken = NoToken
    MaxNow = 1
    MaxPassword = 2
    RefreshTtl = 2
    AccessTtl = 1
    PasswordReset = TRUE
    Workload = {"reset"}
PROPERTIES ConsumedLinkIsDead
CHECK_DEADLOCK FALSE
