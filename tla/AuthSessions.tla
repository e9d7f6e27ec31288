---------------------------- MODULE AuthSessions ----------------------------
(***************************************************************************)
(* The session life cycle of ONE account of the TriLearn API: login,       *)
(* refresh-token rotation, reuse detection, logout, logout of every        *)
(* device, password change and reset, account disabling and deletion, and  *)
(* the periodic purge of token rows.  Accounts share no session state.     *)
(*                                                                         *)
(* A request is a sequence of steps separated by the awaits of its         *)
(* handler; requests of several browser tabs, phones and administrators    *)
(* interleave between them.  Transactions follow PostgreSQL: a SERIALIZABLE*)
(* transaction is serialised with the others of that level, while an       *)
(* ordinary updateMany sees the rows that existed when it started.         *)
(***************************************************************************)
EXTENDS Naturals

CONSTANTS
    Requests,       \* requests in flight in the API processes
    Tokens,         \* identities of the sessions (a refresh/access token pair)
    NoToken,        \* no token
    MaxNow,         \* bound on the clock, in seconds
    MaxPassword,    \* bound on the number of passwords the account gets
    RefreshTtl,     \* lifetime of a refresh token (7 days)
    AccessTtl,      \* lifetime of an access token (15 minutes)
    PasswordReset,  \* ENABLE_PASSWORD_RESET
    Workload        \* bound: the operations that clients and staff start

ASSUME TokenAssumption == NoToken \notin Tokens
ASSUME BoundAssumption == /\ MaxNow \in Nat \ {0}
                          /\ MaxPassword \in Nat
                          /\ RefreshTtl \in Nat \ {0}
                          /\ AccessTtl \in Nat \ {0}
ASSUME FlagAssumption == PasswordReset \in BOOLEAN

Ops == {"none", "login", "refresh", "reuse", "logout", "logoutAll",
        "change", "reset", "toggle", "delete"}

ASSUME WorkloadAssumption == Workload \subseteq Ops

VARIABLES
    now,            \* wall clock in whole seconds, as in a JWT's iat
    password,       \* User.password: which of the successive hashes is stored
    changedAt,      \* User.passwordChangedAt, floored to a second; 0 is null
    isActive,       \* User.isActive
    deleted,        \* User.deletedAt is set
    link,           \* the reset link: User.passwordResetTokenHash is set, is
                    \* null (or expired), or was nulled by a reset
    row,            \* the RefreshToken rows: none, active, revoked or purged
    iat,            \* when the pair was signed
    origin,         \* (history) the password the session's login proved
    family,         \* (history) the login a rotated session descends from
    ended,          \* (history) families that existed at a password change
    revoked,        \* Redis revoked-jti keys
    tracked,        \* Redis set of the account's access token jtis
    trackedUntil,   \* when that Redis set expires
    held,           \* pairs some client received in a response
    req             \* what each request in flight has read and where it is

user  == <<password, changedAt, isActive, deleted, link>>
rows  == <<row, iat, origin, family, ended>>
redis == <<revoked, tracked, trackedUntil>>
vars  == <<now, user, rows, redis, held, req>>

Steps == {"idle", "begin", "commit", "track", "logout", "members", "erase",
          "sweep", "swept", "change", "changed", "reset", "resetting",
          "toggled", "delete"}

\* What a handler keeps in its local variables between two awaits.
Request == [op: Ops, pc: Steps,
            prev: Tokens \cup {NoToken},    \* the token presented
            tok: Tokens \cup {NoToken},     \* the token being issued
            pw: Nat, at: Nat,               \* password hash read, time taken
            jtis: SUBSET Tokens,            \* members read from Redis
            seen: SUBSET Tokens]            \* rows an updateMany has seen
Idle == [op |-> "none", pc |-> "idle", prev |-> NoToken, tok |-> NoToken,
         pw |-> 0, at |-> 0, jtis |-> {}, seen |-> {}]

TypeOK ==
    /\ now \in Nat \ {0}
    /\ password \in Nat
    /\ changedAt \in Nat
    /\ isActive \in BOOLEAN
    /\ deleted \in BOOLEAN
    /\ link \in {"none", "set", "consumed"}
    /\ row \in [Tokens -> {"none", "active", "revoked", "purged"}]
    /\ iat \in [Tokens -> Nat]
    /\ origin \in [Tokens -> Nat]
    /\ family \in [Tokens -> Tokens \cup {NoToken}]
    /\ ended \in SUBSET (Tokens \cup {NoToken})
    /\ revoked \in SUBSET Tokens
    /\ tracked \in SUBSET Tokens
    /\ trackedUntil \in Nat
    /\ held \in SUBSET Tokens
    /\ req \in [Requests -> Request]

Init ==
    /\ now = 1
    /\ password = 0
    /\ changedAt = 0
    /\ isActive = TRUE
    /\ deleted = FALSE
    /\ link = "none"
    /\ row = [t \in Tokens |-> "none"]
    /\ iat = [t \in Tokens |-> 0]
    /\ origin = [t \in Tokens |-> 0]
    /\ family = [t \in Tokens |-> NoToken]
    /\ ended = {}
    /\ revoked = {}
    /\ tracked = {}
    /\ trackedUntil = 0
    /\ held = {}
    /\ req = [r \in Requests |-> Idle]

-----------------------------------------------------------------------------
(* What the checks of the code say of a token *)

\* The token was signed no later than the last password change.
CutOff(t) == changedAt # 0 /\ iat[t] <= changedAt

RefreshExpired(t) == iat[t] + RefreshTtl <= now

\* The stored row and its user let the refresh token be rotated.
Refreshable(t) ==
    /\ row[t] = "active"
    /\ ~RefreshExpired(t)
    /\ ~deleted
    /\ ~CutOff(t)
    /\ isActive

\* protect lets a request carrying the access token of t through.
Accepted(t) ==
    /\ t \in held
    /\ now < iat[t] + AccessTtl
    /\ t \notin revoked
    /\ isActive /\ ~deleted
    /\ ~CutOff(t)

ActiveRows == {t \in Tokens : row[t] = "active"}

\* The families that have at least one row so far.
KnownFamilies == {family[t] : t \in {u \in Tokens : row[u] # "none"}}

\* (mutant) The updateMany matches no row.
RevokeNothing(S) == row' = row

\* refreshToken.updateMany({revokedAt: null}) over the rows of S.
Revoke(S) == row' = [t \in Tokens |->
                       IF t \in S /\ row[t] = "active" THEN "revoked" ELSE row[t]]

\* A transaction that changes the email, a unique column, locks the user row
\* against the foreign key check of every insertion of a token row.
Deleting == \E q \in Requests : req[q].op = "delete"

\* No transaction of several statements holds the user row.
UserUnlocked == ~Deleting /\ \A q \in Requests : req[q].pc # "resetting"

\* (mutant) Nothing makes an overlapping transaction fail.
OverlapsReadCommitted(q) == FALSE

\* An issuing transaction that has its snapshot and has not committed.
Overlaps(q) == req[q].pc = "commit"

\* r moves on to step; the issuing transactions it overlaps fail.
Abort(r, q) == [p \in Requests |-> IF p = r THEN q
                                   ELSE IF Overlaps(p) THEN Idle ELSE req[p]]

\* A new request of the workload arrives.
Start(r, op) == req[r].pc = "idle" /\ op \in Workload

Advance(r, step) == req' = [req EXCEPT ![r].pc = step]

Finish(r) == req' = [req EXCEPT ![r] = Idle]

-----------------------------------------------------------------------------
(* login and refreshSession up to the issuing transaction *)

\* login: the password typed matches the hash read, the account is neither
\* deleted nor disabled.  Every other login changes no session state.
LoginRead(r) ==
    /\ Start(r, "login")
    /\ ~deleted
    /\ isActive
    /\ req' = [req EXCEPT ![r] = [Idle EXCEPT !.op = "login", !.pc = "begin",
                                              !.pw = password]]
    /\ UNCHANGED <<now, user, rows, redis, held>>

\* refreshSession: a token whose row is revoked is being reused, a valid one
\* goes on to rotation; any other ends in 401.
RefreshRead(r, t) ==
    /\ Start(r, "refresh")
    /\ t \in held
    /\ ~RefreshExpired(t)
    /\ \/ /\ row[t] = "revoked"
          /\ req' = [req EXCEPT ![r] = [Idle EXCEPT !.op = "reuse",
                                          !.pc = "sweep", !.prev = t]]
       \/ /\ Refreshable(t)
          /\ req' = [req EXCEPT ![r] = [Idle EXCEPT !.op = "refresh",
                                          !.pc = "begin", !.prev = t]]
    /\ UNCHANGED <<now, user, rows, redis, held>>

(* issueAuthSession *)

\* (mutant) The count of rows consumed is not checked.
ConsumableUnchecked(prev) == prev # NoToken => ~RefreshExpired(prev)

\* updateMany finds exactly one row to consume for a rotation.
Consumable(prev) == prev # NoToken => row[prev] = "active" /\ ~RefreshExpired(prev)

\* The pair is signed, then the serializable transaction takes its snapshot
\* and rechecks the user in it.
IssueBegin(r, t) ==
    /\ req[r].pc = "begin"
    /\ row[t] = "none"
    /\ \A q \in Requests : req[q].tok # t
    /\ isActive
    /\ ~deleted
    /\ IF req[r].prev = NoToken THEN password = req[r].pw
                                ELSE ~CutOff(req[r].prev)
    /\ req' = [req EXCEPT ![r].pc = "commit", ![r].tok = t, ![r].at = now]
    /\ UNCHANGED <<now, user, rows, redis, held>>

\* The transaction consumes the row presented, stores the new one and commits.
IssueCommit(r) ==
    LET prev == req[r].prev
        new  == req[r].tok
    IN  /\ req[r].pc = "commit"
        /\ ~Deleting
        /\ Consumable(prev)
        /\ row' = [t \in Tokens |-> IF t = new THEN "active"
                                    ELSE IF t = prev THEN "revoked"
                                    ELSE row[t]]
        /\ iat' = [iat EXCEPT ![new] = req[r].at]
        /\ origin' = [origin EXCEPT ![new] =
                        IF prev = NoToken THEN req[r].pw ELSE origin[prev]]
        /\ family' = [family EXCEPT ![new] =
                        IF prev = NoToken THEN new ELSE family[prev]]
        /\ Advance(r, "track")
        /\ UNCHANGED <<now, user, ended, redis, held>>

\* (mutant) The response carries the token that was presented.
IssuedTokenStale(r) == req[r].prev

\* The pair the response carries.
IssuedToken(r) == req[r].tok

\* trackAccessToken, which Redis may miss, then the response with the cookies.
IssueTrack(r) ==
    LET new == IssuedToken(r)
    IN  /\ req[r].pc = "track"
        /\ \/ /\ tracked' = (IF now < trackedUntil THEN tracked ELSE {}) \cup {new}
              /\ trackedUntil' = req[r].at + AccessTtl
           \/ UNCHANGED <<tracked, trackedUntil>>
        /\ held' = held \cup {new}
        /\ Finish(r)
        /\ UNCHANGED <<now, user, rows, revoked>>

-----------------------------------------------------------------------------
(* logout and logoutAll *)

LogoutAccess(r, t) ==
    /\ Start(r, "logout")
    /\ t \in held
    /\ revoked' = revoked \cup {t}
    /\ req' = [req EXCEPT ![r] = [Idle EXCEPT !.op = "logout",
                                    !.pc = "logout", !.prev = t]]
    /\ UNCHANGED <<now, user, rows, tracked, trackedUntil, held>>

LogoutRow(r) ==
    /\ req[r].pc = "logout"
    /\ Revoke({req[r].prev})
    /\ Finish(r)
    /\ UNCHANGED <<now, user, iat, origin, family, ended, redis, held>>

LogoutAllStart(r, t) ==
    /\ Start(r, "logoutAll")
    /\ Accepted(t)
    /\ revoked' = revoked \cup {t}
    /\ req' = [req EXCEPT ![r] = [Idle EXCEPT !.op = "logoutAll",
                                    !.pc = "members", !.prev = t]]
    /\ UNCHANGED <<now, user, rows, tracked, trackedUntil, held>>

\* revokeAllAccessTokensForUser: sMembers, then the pipeline of revoked-jti
\* keys and the deletion of the set.
Members(r) ==
    /\ req[r].pc = "members"
    /\ req' = [req EXCEPT ![r].pc = "erase",
                          ![r].jtis = IF now < trackedUntil THEN tracked ELSE {}]
    /\ UNCHANGED <<now, user, rows, redis, held>>

Erase(r) ==
    /\ req[r].pc = "erase"
    /\ revoked' = revoked \cup {t \in req[r].jtis : now < iat[t] + AccessTtl}
    /\ tracked' = IF req[r].jtis = {} THEN tracked ELSE {}
    /\ \/ req[r].op = "logoutAll" /\ Advance(r, "sweep")
       \/ req[r].op = "delete"    /\ Advance(r, "delete")
       \/ req[r].op = "toggle"    /\ Finish(r)
    /\ UNCHANGED <<now, user, rows, trackedUntil, held>>

\* refreshToken.updateMany outside a serializable transaction, of logoutAll
\* and of reuse detection: a row inserted after its snapshot is not seen.
SweepSnapshot(r) ==
    /\ req[r].pc = "sweep"
    /\ req' = [req EXCEPT ![r].pc = "swept", ![r].seen = ActiveRows]
    /\ UNCHANGED <<now, user, rows, redis, held>>

SweepApply(r) ==
    /\ req[r].pc = "swept"
    /\ Revoke(req[r].seen)
    /\ Finish(r)
    /\ UNCHANGED <<now, user, iat, origin, family, ended, redis, held>>

-----------------------------------------------------------------------------
(* changePassword, forgotPassword and resetPassword *)

\* The request passed protect and the current password typed is the stored one.
ChangeRead(r, t) ==
    /\ Start(r, "change")
    /\ password < MaxPassword
    /\ Accepted(t)
    /\ req' = [req EXCEPT ![r] = [Idle EXCEPT !.op = "change", !.pc = "change",
                              !.prev = t, !.pw = password, !.at = now]]
    /\ UNCHANGED <<now, user, rows, redis, held>>

\* The serializable transaction commits: the issuing transactions it overlaps
\* read the user before it and store rows it does not see, so they abort.
\* passwordChangedAt is taken somewhat before the commit.
ChangeCommit(r) ==
    /\ req[r].pc = "change"
    /\ UserUnlocked
    /\ password < MaxPassword
    /\ password' = password + 1
    /\ changedAt' \in req[r].at .. now
    /\ Revoke(Tokens)
    /\ ended' = ended \cup KnownFamilies
    /\ req' = Abort(r, [req[r] EXCEPT !.pc = "changed"])
    /\ UNCHANGED <<now, isActive, deleted, link, iat, origin, family, redis, held>>

ChangeRevoke(r) ==
    /\ req[r].pc = "changed"
    /\ revoked' = revoked \cup {req[r].prev}
    /\ Finish(r)
    /\ UNCHANGED <<now, user, rows, tracked, trackedUntil, held>>

ForgotPassword ==
    /\ PasswordReset
    /\ ~deleted
    /\ link' = "set"
    /\ UNCHANGED <<now, password, changedAt, isActive, deleted, rows, redis, held, req>>

LinkExpires ==
    /\ link = "set"
    /\ link' = "none"
    /\ UNCHANGED <<now, password, changedAt, isActive, deleted, rows, redis, held, req>>

\* The link presented is the stored one; the new password is then hashed.
ResetRead(r) ==
    /\ PasswordReset
    /\ Start(r, "reset")
    /\ password < MaxPassword
    /\ link = "set"
    /\ req' = [req EXCEPT ![r] = [Idle EXCEPT !.op = "reset", !.pc = "reset"]]
    /\ UNCHANGED <<now, user, rows, redis, held>>

\* The transaction at the default isolation level: the user is updated, and the
\* updateMany sees the rows committed by then.
ResetSnapshot(r) ==
    /\ req[r].pc = "reset"
    /\ UserUnlocked
    /\ req' = [req EXCEPT ![r].pc = "resetting", ![r].at = now,
                          ![r].seen = ActiveRows]
    /\ UNCHANGED <<now, user, rows, redis, held>>

ResetCommit(r) ==
    /\ req[r].pc = "resetting"
    /\ password < MaxPassword
    /\ password' = password + 1
    /\ changedAt' = req[r].at
    /\ link' = "consumed"
    /\ Revoke(req[r].seen)
    /\ Finish(r)
    /\ UNCHANGED <<now, isActive, deleted, iat, origin, family, ended, redis, held>>

-----------------------------------------------------------------------------
(* Administration of the account, maintenance, time and failures *)

\* toggleUserStatus: compare-and-set on isActive.
ToggleStatus(r) ==
    /\ Start(r, "toggle")
    /\ ~deleted
    /\ UserUnlocked
    /\ isActive' = ~isActive
    /\ req' = [req EXCEPT ![r] = [Idle EXCEPT !.op = "toggle", !.pc = "toggled"]]
    /\ UNCHANGED <<now, password, changedAt, deleted, link, rows, redis, held>>

\* The user is read again: the access tokens are revoked if it is disabled now.
ToggleConfirm(r) ==
    /\ req[r].pc = "toggled"
    /\ IF ~deleted /\ ~isActive THEN Advance(r, "members") ELSE Finish(r)
    /\ UNCHANGED <<now, user, rows, redis, held>>

\* deleteUser: the transaction renames the email and has its updateMany see
\* the rows; Redis is cleaned inside it, before its commit.
DeleteStart(r) ==
    /\ Start(r, "delete")
    /\ ~deleted
    /\ UserUnlocked
    /\ req' = [req EXCEPT ![r] = [Idle EXCEPT !.op = "delete", !.pc = "members",
                                              !.seen = ActiveRows]]
    /\ UNCHANGED <<now, user, rows, redis, held>>

DeleteCommit(r) ==
    /\ req[r].pc = "delete"
    /\ deleted' = TRUE
    /\ Revoke(req[r].seen)
    /\ req' = Abort(r, Idle)
    /\ UNCHANGED <<now, password, changedAt, isActive, link, iat, origin, family,
                   ended, redis, held>>

\* cleanupExpiredTokens deletes what is revoked or expired.
Purge ==
    /\ \E t \in Tokens : \/ row[t] = "revoked"
                         \/ row[t] = "active" /\ RefreshExpired(t)
    /\ row' = [t \in Tokens |->
                 IF \/ row[t] = "revoked"
                    \/ row[t] = "active" /\ RefreshExpired(t)
                 THEN "purged" ELSE row[t]]
    /\ UNCHANGED <<now, user, iat, origin, family, ended, redis, held, req>>

Tick ==
    /\ now < MaxNow
    /\ now' = now + 1
    /\ UNCHANGED <<user, rows, redis, held, req>>

\* A refusal, a Redis or database error, an aborted transaction or a crash ends
\* the request: what it has not written yet is never written.
Fail(r) ==
    /\ req[r].pc # "idle"
    /\ Finish(r)
    /\ UNCHANGED <<now, user, rows, redis, held>>

RequestStep(r) ==
    \/ LoginRead(r)
    \/ \E t \in Tokens : \/ RefreshRead(r, t)
                         \/ IssueBegin(r, t)
                         \/ LogoutAccess(r, t)
                         \/ LogoutAllStart(r, t)
                         \/ ChangeRead(r, t)
    \/ IssueCommit(r) \/ IssueTrack(r)
    \/ LogoutRow(r)
    \/ Members(r) \/ Erase(r) \/ SweepSnapshot(r) \/ SweepApply(r)
    \/ ChangeCommit(r) \/ ChangeRevoke(r)
    \/ ResetRead(r) \/ ResetSnapshot(r) \/ ResetCommit(r)
    \/ ToggleStatus(r) \/ ToggleConfirm(r) \/ DeleteStart(r) \/ DeleteCommit(r)
    \/ Fail(r)

Next ==
    \/ \E r \in Requests : RequestStep(r)
    \/ ForgotPassword \/ LinkExpires
    \/ Purge
    \/ Tick

Spec == Init /\ [][Next]_vars

-----------------------------------------------------------------------------
(* Properties *)

\* Every refresh session that is still active descends from a login that
\* proved the password now stored: the serializable transactions of
\* issueAuthSession and changePassword leave no gap (without password resets).
CurrentPasswordOnly == \A t \in ActiveRows : origin[t] = password

\* Rotation is single use: however many requests present the same refresh
\* token, one login never has two refresh tokens that can be rotated.
OneActivePerFamily ==
    \A t, u \in ActiveRows : family[t] = family[u] => t = u

\* A login that existed when the password was changed is never continued,
\* whatever rotation was in flight, and also when passwords are reset by link.
ChangeEndsSessions == \A t \in ActiveRows : family[t] \notin ended

\* A deleted account has no session left to refresh: deleteUser's updateMany
\* misses no rotation or login, though it is not serializable.
DeletedHasNoSession == deleted => ActiveRows = {}

\* A family is live while one of its rows is active.
LiveFamilies == {family[t] : t \in ActiveRows}

\* The password each login proved, kept at the token the login issued.
LoginPasswords == [t \in Tokens |-> IF family[t] = t THEN origin[t] ELSE 0]

\* The rows keep the promise of SessionFamilies: a login opens a session,
\* rotation does not show, a family that ended never comes back and a password
\* change ends all of them in one step.
Store == INSTANCE SessionFamilies WITH
           Families <- Tokens,
           pwd      <- password,
           proved   <- LoginPasswords,
           live     <- LiveFamilies,
           closed   <- KnownFamilies \ LiveFamilies
KeepsPromise == Store!Spec

\* "Clear the consumed reset token so the link cannot be reused": no reset
\* commits for a link that a reset has already consumed.
ConsumedLinkIsDead ==
    [][\A r \in Requests : ResetCommit(r) => link # "consumed"]_vars

\* "Signed out from all devices", "revoked all active sessions": when the
\* updateMany has run, none of the sessions it saw is continued.
SweepEndsSessions ==
    [][\A r \in Requests :
         SweepApply(r) => \A t \in Tokens, u \in req[r].seen :
                            row'[t] = "active" => family[t] # family[u]]_vars

=============================================================================
