SPECIFICATION Spec
CONSTANTS
    u1 = u1
    u2 = u2
    p1 = p1
    Users = {u1, u2}
    Topics = {"algebra", "all", "notice", "routine"}
    FanOut = {"notice", "routine"}
    Stamped = {"routine"}
    Jobs = {1, 2, 3}
    Attempts = 2
    Subjects = {"algebra", "networks"}
    Scopes = {"algebra", "all"}
    Scores = {1, 2}
    Publishers = {p1}
    Everything = "all"
    Groups <- ByRole
    EnrolledIn <- EveryoneEnrolled
    Budgets <- Twice
INVARIANT ReleaseAnnounced
CHECK_DEADLOCK FALSE
