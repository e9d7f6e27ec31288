SPECIFICATION Spec
CONSTANTS
    ada = ada
    col = col
    ivy = ivy
    sam = sam
    sue = sue
    Users = {ada, col, ivy, sam, sue}
    Role <- RoleOf
    Subjects = {"math"}
    Departments = {"cs"}
    Items = {i1, i2}
    Names = {f1, f2, f3}
    Requests = {q1, q2}
    Nobody = Nobody
    Budgets <- Terms
SYMMETRY Symmetry
INVARIANTS TypeOK SentToEntitled NothingDangling
CHECK_DEADLOCK FALSE
