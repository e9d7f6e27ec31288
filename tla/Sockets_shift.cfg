SPECIFICATION FairSpec
CONSTANTS
    Users = {"ann", "bob"}
    NoUser = "nobody"
    Tokens = {1, 2, 3}
    NoToken = 0
    Conns = {"s1", "s2", "s3"}
    NoConn = "none"
    Budgets <- Shifts
INVARIANTS TypeOK SentToEntitled ShownToOwner
PROPERTIES GoodStaysOpen ComesBack
CHECK_DEADLOCK FALSE
