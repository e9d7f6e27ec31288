SPECIFICATION Spec
CONSTANTS
    Requests = {r1, r2}
    Tokens = {t1, t2, t3}
    NoToken = NoToken
    MaxNow = 2
    MaxPassword = 1
    RefreshTtl = 2
    AccessTtl = 1
    PasswordReset = FALSE
    Workload = {"login", "refresh", "change"}
SYMMETRY Symmetry
INVARIANTS TypeOK CurrentPasswordOnly OneActivePerFamily ChangeEndsSessions
PROPERTIES KeepsPromise
CHECK_DEADLOCK FALSE
