SPECIFICATION FairSpec
CONSTANTS
    Accounts = {adm, a1, a2, a3, a4}
    Founders = {adm}
    Emails = {"ann", "bob"}
    Nobody = "nobody"
    Rolls = {1, 2, 3, 4}
    MaxForms = 2
    Staff = {r1, r2}
    Sheet <- Rows
    Attempts = 3
    Guests = {g1, g2}
    Captchas = {c1, c2}
    CaptchaAt = 2
    LockAt = 3
    Budgets <- Terms
INVARIANTS TypeOK OneHolder EveryRowLands OneGuessPerCaptcha
PROPERTIES ImportEnds
CHECK_DEADLOCK FALSE
