SPECIFICATION Spec
CONSTANTS
    Students = {ann, bob}
    Subjects = {"math", "art"}
    Teachers = {"tea", "lee"}
    Nobody = "nobody"
    Semesters = {1, 2}
    Departments = {"bca"}
    Shared = "all"
    Staff = {r1, r2}
    Works = {w1, w2}
    Hands = {h1, h2}
    Classes = {c1, c2}
    Planners = {p1, p2}
    None = "null"
    Entries <- Offers
    Budgets <- Terms
SYMMETRY Symmetry
INVARIANTS TypeOK InStep DuplicatesAreRaces NothingOrphaned ClashesAreRaces
CHECK_DEADLOCK FALSE
