SPECIFICATION FairSpec
CONSTANTS
    Requests = {r1, r2}
    s1 = s1
    s2 = s2
    t1 = t1
    t2 = t2
    q1 = q1
    q2 = q2
    w1 = w1
    w2 = w2
    Students = {s1}
    Routines = {t1, t2}
    Codes = {q1, q2}
    Windows = {w1, w2}
    SubjectOf <- OneSubject
    StartOf <- InOrder
    GroupOf <- Together
    Enrolled <- EveryoneEnrolled
    CodeSubject <- AllForAlgebra
    Opens <- Opening
    Closes <- Closing
    Admits <- Admitted
    Validity = 1
    MaxNow = 2
    Workload = {"scan", "gate", "sync", "ticket", "review", "manual", "holiday", "staff"}
INVARIANTS TypeOK OneSelfScan GrantedPresent
PROPERTIES ApprovalsLostOnlyToRaces EveryClassRecorded
CHECK_DEADLOCK FALSE
