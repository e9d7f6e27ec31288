--------------------------- MODULE LoginThrottle ---------------------------
(***************************************************************************)
(* Failed logins are counted in the user row: after some of them a login   *)
(* has to come with a solved captcha, after more the account is locked for *)
(* a time.  A request reads the row, compares the password, and writes the *)
(* count it read plus one.  A captcha is a signed text the server does not *)
(* store; the first use of its nonce is noted in Redis.                    *)
(***************************************************************************)
EXTENDS Admissions

CONSTANTS
    Guests,         \* login requests in progress
    Captchas,       \* bound: captchas that are solved
    CaptchaAt,      \* LOGIN_CAPTCHA_THRESHOLD
    LockAt          \* MAX_FAILED_LOGIN_ATTEMPTS

ASSUME ThrottleAssumption == CaptchaAt \in Nat /\ LockAt \in Nat /\ CaptchaAt <= LockAt
ASSUME NoCaptchaAssumption == Nobody \notin Captchas

VARIABLES
    failed,         \* User.failedLoginAttempts
    locked,         \* User.lockedUntil lies in the future
    captcha,        \* the account a captcha was made for
    expired,        \* captchas that are no longer valid
    noted,          \* nonces in Redis
    guest,          \* login requests
    answered        \* (history) answers past the threshold, by captcha

throttleVars == <<failed, locked, captcha, expired, noted, guest, answered>>

NoGuest == [pc |-> "idle", account |-> Nobody, right |-> FALSE, seen |-> 0,
            captcha |-> Nobody]

ThrottleTypeOK ==
    /\ failed \in [Accounts -> Nat]
    /\ locked \in [Accounts -> BOOLEAN]
    /\ captcha \in [Captchas -> Accounts \cup {Nobody}]
    /\ expired \subseteq Captchas /\ noted \subseteq Captchas
    /\ guest \in [Guests -> [pc : {"idle", "captcha", "note", "answer"},
                             account : Accounts \cup {Nobody}, right : BOOLEAN,
                             seen : Nat, captcha : Captchas \cup {Nobody}]]
    /\ answered \in [Captchas -> Nat]

ThrottleInit ==
    /\ failed = [a \in Accounts |-> 0]
    /\ locked = [a \in Accounts |-> FALSE]
    /\ captcha = [c \in Captchas |-> Nobody]
    /\ expired = {} /\ noted = {}
    /\ guest = [g \in Guests |-> NoGuest]
    /\ answered = [c \in Captchas |-> 0]

Leave(g) == guest' = [guest EXCEPT ![g] = NoGuest]

\* The row is read and the password compared; a locked account is refused.
Login(g, a, right, c) ==
    /\ Spend("guess")
    /\ guest[g].pc = "idle"
    /\ Live(a) /\ ~locked[a]
    /\ guest' = [guest EXCEPT ![g] =
         [pc |-> IF failed[a] >= CaptchaAt THEN "captcha" ELSE "answer",
          account |-> a, right |-> right, seen |-> failed[a], captcha |-> c]]
    /\ UNCHANGED <<account, form, request, failed, locked, captcha, expired, noted, answered>>

\* buildLoginCaptchaResponse: a new captcha, or the client has enough of them.
Challenged(a) ==
    \/ \E c \in Captchas : /\ captcha[c] = Nobody
                           /\ captcha' = [captcha EXCEPT ![c] = a]
    \/ UNCHANGED captcha

\* validateLoginCaptcha: solved, not expired and for this address.
CheckCaptcha(g) ==
    LET G     == guest[g]
        valid == /\ G.captcha \in Captchas \ expired
                 /\ captcha[G.captcha] = G.account
    IN  /\ G.pc = "captcha"
        /\ IF valid THEN guest' = [guest EXCEPT ![g].pc = "note"] /\ UNCHANGED captcha
                    ELSE Leave(g) /\ Challenged(G.account)
        /\ UNCHANGED <<admissionVars, failed, locked, expired, noted, answered>>

\* (mutant) The nonce is set without NX.
Overwritten(c) == TRUE

\* SET NX: only the first one is answered OK.
Fresh(c) == c \notin noted

\* consumeLoginCaptchaNonce, which is refused when Redis does not answer,
\* or answers a retry of its own first call.
NoteNonce(g) ==
    LET G == guest[g]
    IN  /\ G.pc = "note"
        /\ \/ /\ Fresh(G.captcha)
              /\ noted' = noted \cup {G.captcha}
              /\ guest' = [guest EXCEPT ![g].pc = "answer"]
              /\ UNCHANGED captcha
           \/ /\ noted' \in {noted, noted \cup {G.captcha}}
              /\ Leave(g) /\ Challenged(G.account)
        /\ UNCHANGED <<admissionVars, failed, locked, expired, answered>>

\* A wrong password writes the count that was read plus one, and the lock that
\* follows from it, which may be none; a right one clears what it saw.
AnswerLogin(g) ==
    LET G     == guest[g]
        count == IF G.right THEN 0 ELSE G.seen + 1
        keep  == G.right /\ G.seen = 0
    IN  /\ G.pc = "answer"
        /\ failed' = [failed EXCEPT ![G.account] = IF keep THEN failed[G.account] ELSE count]
        /\ locked' = [locked EXCEPT ![G.account] = IF keep THEN locked[G.account]
                                                   ELSE count >= LockAt]
        /\ answered' = [c \in Captchas |-> IF c = G.captcha /\ G.seen >= CaptchaAt
                                           THEN answered[c] + 1 ELSE answered[c]]
        /\ IF ~G.right /\ count >= CaptchaAt /\ count < LockAt THEN Challenged(G.account)
                                                               ELSE UNCHANGED captcha
        /\ Leave(g)
        /\ UNCHANGED <<admissionVars, expired, noted>>

LockEnds(a) ==
    /\ locked[a]
    /\ locked' = [locked EXCEPT ![a] = FALSE]
    /\ UNCHANGED <<admissionVars, failed, captcha, expired, noted, guest, answered>>

\* The note of a nonce outlasts its captcha, and every request.
CaptchaExpires(c) ==
    /\ captcha[c] # Nobody
    /\ expired' = expired \cup {c}
    /\ UNCHANGED <<admissionVars, failed, locked, captcha, noted, guest, answered>>

ThrottleStep ==
    \/ \E g \in Guests :
        \/ CheckCaptcha(g) \/ NoteNonce(g) \/ AnswerLogin(g)
        \/ \E a \in Accounts, right \in BOOLEAN, c \in Captchas \cup {Nobody} :
              Login(g, a, right, c)
    \/ \E a \in Accounts : LockEnds(a)
    \/ \E c \in Captchas : CaptchaExpires(c)

-----------------------------------------------------------------------------
(* Properties *)

\* Past the threshold a solved captcha buys one answer about the password,
\* however many requests present it at once.
OneGuessPerCaptcha == \A c \in Captchas : answered[c] <= 1
=============================================================================
