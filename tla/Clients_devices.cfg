SPECIFICATION FairSpec
CONSTANTS
    Accounts = {"ann", "bob"}
    NoOne = "nobody"
    Tokens = {1, 2, 3, 4, 5}
    NoToken = 0
    Requests = {"q1", "q2"}
    Calls = {"c1", "c2"}
    NoCall = "none"
    Tabs = {"t1", "t2"}
    Budgets <- Days
INVARIANTS TypeOK TokensOfTheUser NothingLeftBehind
PROPERTIES AnswersStayInSession NeverPresentedTwice RequestsSettle
CHECK_DEADLOCK FALSE
