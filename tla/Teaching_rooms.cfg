SPECIFICATION Spec
CONSTANTS
    Students = {ann, bob}
    Subjects = {"math", "art"}
    Teachers = {"tea", "lee"}
    Nobody = "nobody"
    Semesters = {1, 2}
    Departments = {"bca"}
    Shared = "all"
    Staff = {r1, r2}
    Works = {w1, w2}
    Hands = {h1, h2}
    Classes = {c1, c2}
    Planners = {p1}
    None = "null"
    Entries <- Bookings
    Budgets <- Booking
INVARIANT RoomsBookedOnce
CHECK_DEADLOCK FALSE
