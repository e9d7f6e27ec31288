------------------------------- MODULE Phone -------------------------------
(***************************************************************************)
(* The session of the mobile app: the auth store and its copy in           *)
(* SecureStore, requests through the api client, refreshes shared by all   *)
(* that need one, restoring a saved session at launch, login and logout.   *)
(* JavaScript runs to the next await, so the continuations of one answer   *)
(* are one step.  A session version tells answers of an earlier session.   *)
(***************************************************************************)
EXTENDS SessionServer, FiniteSets

CONSTANTS
    Requests,       \* requests through the api client
    Calls,          \* calls of /auth/refresh/mobile
    NoCall

ASSUME CallAssumption == NoCall \notin Calls

VARIABLES
    session,        \* useAuthStore
    saved,          \* what SecureStore holds of it
    shared,         \* refreshPromise and refreshVersion of the api client
    call,           \* refresh calls, each found by its token (refreshInFlight)
    request,
    restoring,      \* restoreSession in progress, with the state it captured
    login,          \* the login request
    revocations     \* logouts on their way, with the credentials captured

phoneVars == <<session, saved, shared, call, request, restoring, login, revocations>>

SignedOut(v) == [user |-> NoOne, refresh |-> NoToken, access |-> NoToken, version |-> v]
Nobody == [user |-> NoOne, refresh |-> NoToken]
NoShared == [call |-> NoCall, version |-> 0]
IdleCall == [pc |-> "idle", token |-> NoToken, new |-> NoToken]
IdleRequest == [pc |-> "idle", token |-> NoToken, version |-> 0, retried |-> FALSE, call |-> NoCall]
NoRestore == [call |-> NoCall, version |-> 0, token |-> NoToken]
NoLogin == [pc |-> "idle", account |-> NoOne, token |-> NoToken]

PhoneInit ==
    /\ session = SignedOut(0)
    /\ saved = Nobody
    /\ shared = NoShared
    /\ call = [c \in Calls |-> IdleCall]
    /\ request = [q \in Requests |-> IdleRequest]
    /\ restoring = NoRestore
    /\ login = NoLogin
    /\ revocations = {}

MaybeToken == Tokens \cup {NoToken}
PhoneTypeOK ==
    /\ session \in [user : Accounts \cup {NoOne}, refresh : MaybeToken,
                    access : MaybeToken, version : Nat]
    /\ saved \in [user : Accounts \cup {NoOne}, refresh : MaybeToken]
    /\ shared \in [call : Calls \cup {NoCall}, version : Nat]
    /\ call \in [Calls -> [pc : {"idle", "sent", "rotated", "refused"},
                           token : MaybeToken, new : MaybeToken]]
    /\ request \in [Requests -> [pc : {"idle", "sent", "ok", "denied", "waiting"},
                                 token : MaybeToken, version : Nat,
                                 retried : BOOLEAN, call : Calls \cup {NoCall}]]
    /\ restoring \in [call : Calls \cup {NoCall}, version : Nat, token : MaybeToken]
    /\ login \in [pc : {"idle", "sent", "issued"}, account : Accounts \cup {NoOne},
                  token : MaybeToken]
    /\ revocations \subseteq [access : MaybeToken, refresh : MaybeToken]

-----------------------------------------------------------------------------
(* The auth store *)

\* (mutant) The whole store is persisted.
PersistentWhole(s) == s

\* partialize: the access token stays in memory.
Persistent(s) == [user |-> s.user, refresh |-> s.refresh]

\* setSession: a session of its own version begins.
SetSession(a, t) ==
    session' = [user |-> a, refresh |-> t, access |-> t, version |-> session.version + 1]
SetTokens(t) == session' = [session EXCEPT !.refresh = t, !.access = t]
ClearSession == session' = SignedOut(session.version + 1)

\* The asynchronous write of SecureStore.
Persist ==
    /\ saved # Persistent(session)
    /\ saved' = Persistent(session)
    /\ UNCHANGED <<session, shared, call, request, restoring, login, revocations, serverVars>>

-----------------------------------------------------------------------------
(* Login and logout: useAuth *)

LoginSend(a) ==
    /\ Spend("signin")
    /\ login.pc = "idle"
    /\ session.access = NoToken /\ restoring = NoRestore
    /\ login' = [pc |-> "sent", account |-> a, token |-> NoToken]
    /\ shared' = NoShared
    /\ UNCHANGED <<session, saved, call, request, restoring, revocations, store, lost>>

LoginServe(t) ==
    /\ login.pc = "sent"
    /\ Issue(t, login.account, "phone")
    /\ login' = [login EXCEPT !.pc = "issued", !.token = t]
    /\ UNCHANGED <<session, saved, shared, call, request, restoring, revocations, lost, budget>>

LoginReceive ==
    /\ login.pc = "issued"
    /\ SetSession(login.account, login.token)
    /\ Lose({session.refresh})  \* a session kept when restoring failed
    /\ login' = NoLogin
    /\ shared' = NoShared
    /\ UNCHANGED <<saved, call, request, restoring, revocations, store, budget>>

LoginLost ==
    /\ Spend("loss")
    /\ login.pc # "idle"
    /\ Lose({login.token})
    /\ login' = NoLogin
    /\ UNCHANGED <<session, saved, shared, call, request, restoring, revocations, store>>

\* The revocation is posted with the captured credentials and not awaited.
SignOut ==
    /\ Spend("signout")
    /\ session.access # NoToken
    /\ revocations' = revocations \cup {[access |-> session.access, refresh |-> session.refresh]}
    /\ ClearSession
    /\ shared' = NoShared
    /\ UNCHANGED <<saved, call, request, restoring, login, store, lost>>

RevocationServe(x) ==
    /\ x \in revocations
    /\ Logout(x.access, x.refresh)
    /\ revocations' = revocations \ {x}
    /\ UNCHANGED <<session, saved, shared, call, request, restoring, login, lost, budget>>

RevocationLost(x) ==
    /\ Spend("loss")
    /\ x \in revocations
    /\ Lose({x.refresh})
    /\ revocations' = revocations \ {x}
    /\ UNCHANGED <<session, saved, shared, call, request, restoring, login, store>>

-----------------------------------------------------------------------------
(* Requests through the api client *)

\* The request interceptor stamps version and bearer token.
Stamped(retried, s) == [pc |-> "sent", token |-> s.access, version |-> s.version,
                        retried |-> retried, call |-> NoCall]

RequestSend(q) ==
    /\ Spend("send")
    /\ request[q].pc = "idle"
    /\ session.user # NoOne
    /\ request' = [request EXCEPT ![q] = Stamped(FALSE, session)]
    /\ UNCHANGED <<session, saved, shared, call, restoring, login, revocations, store, lost>>

\* protect lets the request through or answers 401.
RequestServe(q) ==
    /\ request[q].pc = "sent"
    /\ request' = [request EXCEPT ![q].pc =
                     IF request[q].token \in usable THEN "ok" ELSE "denied"]
    /\ UNCHANGED <<session, saved, shared, call, restoring, login, revocations, serverVars>>

RequestDone(q) == request' = [request EXCEPT ![q] = IdleRequest]

\* A network error rejects the request and changes nothing else.
RequestLost(q) ==
    /\ Spend("loss")
    /\ request[q].pc \in {"sent", "ok", "denied"}
    /\ RequestDone(q)
    /\ UNCHANGED <<session, saved, shared, call, restoring, login, revocations, store, lost>>

\* (mutant) Answers of an earlier session pass.
CurrentAlways(v) == TRUE

\* The version that was captured is still the session's.
Current(v) == v = session.version

\* The answer reaches the screen that asked.
Deliver(q) ==
    /\ request[q].pc = "ok" /\ Current(request[q].version)
    /\ RequestDone(q)
    /\ UNCHANGED <<session, saved, shared, call, restoring, login, revocations, serverVars>>

\* 'Session changed', or a second 401.
Reject(q) ==
    /\ \/ request[q].pc \in {"ok", "denied"} /\ ~Current(request[q].version)
       \/ request[q].pc = "denied" /\ request[q].retried
    /\ RequestDone(q)
    /\ UNCHANGED <<session, saved, shared, call, restoring, login, revocations, serverVars>>

\* 426: this version of the app is no longer served.
Outdated(q) ==
    /\ Spend("outdated")
    /\ request[q].pc = "sent" /\ Current(request[q].version)
    /\ ClearSession
    /\ Lose({session.refresh})
    /\ shared' = [shared EXCEPT !.call = NoCall]
    /\ RequestDone(q)
    /\ UNCHANGED <<saved, call, restoring, login, revocations, store>>

-----------------------------------------------------------------------------
(* Refreshing *)

\* (mutant) Every 401 starts a refresh of its own.
JoinsNothing == {}

\* The calls that a refresh of the current token joins instead of starting
\* one: refreshPromise of this version, or refreshInFlight for the token.
Joins ==
    IF shared.call # NoCall /\ shared.version = session.version THEN {shared.call}
    ELSE {c \in Calls : call[c].pc # "idle" /\ call[c].token = session.refresh}

Started(c, t) == [call EXCEPT ![c] = [pc |-> "sent", token |-> t, new |-> NoToken]]
IsFree(c) == call[c].pc = "idle"

\* 401 for a request of this session that was not retried yet.
Unauthorized(q, c) ==
    /\ request[q].pc = "denied" /\ Current(request[q].version) /\ ~request[q].retried
    /\ IF Joins # {} THEN c \in Joins /\ UNCHANGED call
                     ELSE IsFree(c) /\ call' = Started(c, session.refresh)
    /\ shared' = [call |-> c, version |-> session.version]
    /\ request' = [request EXCEPT ![q].pc = "waiting", ![q].call = c]
    /\ UNCHANGED <<session, saved, restoring, login, revocations, serverVars>>

\* The server rotates the token, detects its reuse, or has no such session.
RefreshServe(c) ==
    /\ call[c].pc = "sent"
    /\ \/ \E t \in Tokens :
            /\ Rotate(call[c].token, t)
            /\ call' = [call EXCEPT ![c].pc = "rotated", ![c].new = t]
       \/ /\ Reuse(call[c].token)
          /\ call' = [call EXCEPT ![c].pc = "refused"]
    /\ UNCHANGED <<session, saved, shared, request, restoring, login, revocations, lost, budget>>

\* (mutant) The waiters of an earlier session are forgotten.
WaitersOfSession(c) == {q \in Requests : /\ request[q].pc = "waiting"
                                         /\ request[q].call = c
                                         /\ Current(request[q].version)}

Waiters(c) == {q \in Requests : request[q].pc = "waiting" /\ request[q].call = c}
FreshWaiters(c) == {q \in Waiters(c) : Current(request[q].version)}

\* (mutant) Whatever happened meanwhile, the restored session is stored.
RestoreFreshAlways(c, tokens) == restoring.call = c

\* restoreSession still has the session it captured.
RestoreFresh(c, tokens) ==
    restoring.call = c /\ Current(restoring.version) /\ session.refresh \in tokens

\* (mutant) A pair that came too late is dropped.
DropLate(new) == {}

\* A pair that came too late is revoked with its own credentials.
RevokeLate(new) == {[access |-> new, refresh |-> new]}

RestoreDone(c) ==
    restoring' = IF restoring.call = c THEN NoRestore ELSE restoring
CallDone(c) == call' = [call EXCEPT ![c] = IdleCall]

\* A waiter of this session stores the pair and retries; one of an earlier
\* session revokes it and is rejected.
RefreshSucceed(c) ==
    LET new   == call[c].new
        fresh == FreshWaiters(c)
        kept  == fresh # {} \/ RestoreFresh(c, {call[c].token, new})
        stale == \/ Waiters(c) # fresh
                 \/ restoring.call = c /\ ~RestoreFresh(c, {call[c].token, new})
    IN  /\ call[c].pc = "rotated"
        /\ IF kept THEN SetTokens(new) ELSE UNCHANGED session
        /\ revocations' = revocations \cup
             IF stale THEN RevokeLate(new) ELSE {}
        /\ shared' = IF fresh # {} THEN [shared EXCEPT !.call = NoCall] ELSE shared
        /\ request' = [q \in Requests |->
             IF q \in fresh THEN Stamped(TRUE, [session EXCEPT !.access = new])
             ELSE IF q \in Waiters(c) THEN IdleRequest ELSE request[q]]
        /\ RestoreDone(c) /\ CallDone(c)
        /\ UNCHANGED <<saved, login, serverVars>>

\* A waiter of this session clears it whatever the error; restoreSession does
\* so only for a refusal.
RefreshFail(c, refused) ==
    LET fresh == FreshWaiters(c)
        clear == fresh # {} \/ (refused /\ RestoreFresh(c, {call[c].token}))
    IN  /\ IF clear THEN ClearSession ELSE UNCHANGED session
        /\ Lose(IF refused THEN {} ELSE {call[c].token, call[c].new})
        /\ shared' = IF fresh # {} THEN [shared EXCEPT !.call = NoCall] ELSE shared
        /\ request' = [q \in Requests |->
             IF q \in Waiters(c) THEN IdleRequest ELSE request[q]]
        /\ RestoreDone(c) /\ CallDone(c)
        /\ UNCHANGED <<saved, login, revocations, store>>

RefreshRefused(c) == call[c].pc = "refused" /\ RefreshFail(c, TRUE) /\ UNCHANGED budget

\* No answer in time, or an answer without a verdict (429, 5xx).
RefreshLost(c) == call[c].pc # "idle" /\ Spend("loss") /\ RefreshFail(c, FALSE)

\* The app is killed and launched again: SecureStore is read and a session
\* found in it is restored.  Calls on their way are lost with the process.
Restart ==
    /\ Spend("restart")
    /\ session' = [SignedOut(0) EXCEPT !.user = saved.user, !.refresh = saved.refresh]
    /\ Lose({login.token}
            \cup (IF saved # Persistent(session) THEN {session.refresh, saved.refresh} ELSE {})
            \cup UNION {{call[c].token, call[c].new} : c \in Calls})
    /\ shared' = NoShared
    /\ request' = [q \in Requests |-> IdleRequest]
    /\ login' = NoLogin
    /\ IF saved.refresh = NoToken
       THEN restoring' = NoRestore /\ call' = [c \in Calls |-> IdleCall]
       ELSE \E c \in Calls :
              /\ restoring' = [call |-> c, version |-> 0, token |-> saved.refresh]
              /\ call' = [d \in Calls |-> IF d = c
                            THEN [IdleCall EXCEPT !.pc = "sent", !.token = saved.refresh]
                            ELSE IdleCall]
    /\ UNCHANGED <<saved, revocations, store>>

-----------------------------------------------------------------------------

PhoneAnswers ==
    \/ LoginReceive \/ \E t \in Tokens : LoginServe(t)
    \/ \E q \in Requests : RequestServe(q) \/ Deliver(q) \/ Reject(q)
    \/ \E q \in Requests, c \in Calls : Unauthorized(q, c)
    \/ \E c \in Calls : RefreshServe(c) \/ RefreshSucceed(c) \/ RefreshRefused(c)
    \/ \E x \in revocations : RevocationServe(x)

PhoneNext ==
    \/ PhoneAnswers \/ Persist
    \/ SignOut \/ LoginLost \/ Restart
    \/ \E a \in Accounts : LoginSend(a)
    \/ \E q \in Requests : RequestSend(q) \/ RequestLost(q) \/ Outdated(q)
    \/ \E c \in Calls : RefreshLost(c)
    \/ \E x \in revocations : RevocationLost(x)
=============================================================================
