--------------------------- MODULE SessionServer ---------------------------
(***************************************************************************)
(* The session API as the clients see it: each request takes effect in one *)
(* step.  What happens inside these steps is the subject of AuthSessions.  *)
(* A token stands for the pair of a refresh and an access token that one   *)
(* answer carries.                                                         *)
(***************************************************************************)
EXTENDS Naturals

CONSTANTS
    Accounts,
    NoOne,          \* nobody is signed in
    Tokens,         \* the pairs that can be issued: 1 .. n
    NoToken,        \* 0
    Budgets         \* bound: how often each event happens, by scenario

ASSUME AccountAssumption == NoOne \notin Accounts
ASSUME TokenAssumption == Tokens \subseteq Nat \ {0} /\ NoToken = 0

Events == {"signin", "send", "signout", "restart", "outdated",   \* phone
           "open", "form", "ask", "leave", "close",             \* browser
           "expiry", "elsewhere", "loss"}
ASSUME BudgetAssumption == Budgets \subseteq [Events -> Nat]

Devices == {"phone", "web"}

VARIABLES
    row,        \* RefreshToken rows
    owner,      \* account a pair was issued to
    device,     \* (history) device whose login the pair descends from
    parent,     \* (history) the pair it was rotated from
    usable,     \* pairs whose access token protect accepts
    lost,       \* (history) pairs named by a message that was lost, or that
                \* a client dropped without telling the server
    budget      \* events left in the scenario

store == <<row, owner, device, parent, usable>>
serverVars == <<store, lost, budget>>

ServerTypeOK ==
    /\ row \in [Tokens -> {"none", "active", "revoked"}]
    /\ owner \in [Tokens -> Accounts \cup {NoOne}]
    /\ device \in [Tokens -> Devices]
    /\ parent \in [Tokens -> Tokens \cup {NoToken}]
    /\ usable \subseteq Tokens
    /\ lost \subseteq Tokens
    /\ budget \in [Events -> Nat]

ServerInit ==
    /\ row = [t \in Tokens |-> "none"]
    /\ owner = [t \in Tokens |-> NoOne]
    /\ device = [t \in Tokens |-> "phone"]
    /\ parent = [t \in Tokens |-> NoToken]
    /\ usable = {}
    /\ lost = {}
    /\ budget \in Budgets

Spend(what) ==
    /\ budget[what] > 0
    /\ budget' = [budget EXCEPT ![what] = budget[what] - 1]

\* The pairs that a message was lost with, or that a client dropped.
Lose(S) == lost' = (lost \cup S) \ {NoToken}

Unused == {t \in Tokens : row[t] = "none"}

\* The next pair to be issued.
IsNew(t) == t \in Unused /\ \A u \in Unused : t <= u

Stored(t, a, d, p) ==
    /\ owner' = [owner EXCEPT ![t] = a]
    /\ device' = [device EXCEPT ![t] = d]
    /\ parent' = [parent EXCEPT ![t] = p]
    /\ usable' = usable \cup {t}

\* login: a pair for account a.
Issue(t, a, d) ==
    /\ IsNew(t)
    /\ row' = [row EXCEPT ![t] = "active"]
    /\ Stored(t, a, d, NoToken)

\* refreshSession of an active row: p is consumed, t takes its place.  The
\* access token of p stays good until it expires.
Rotate(p, t) ==
    /\ row[p] = "active"
    /\ IsNew(t)
    /\ row' = [row EXCEPT ![p] = "revoked", ![t] = "active"]
    /\ Stored(t, owner[p], device[p], p)

RowsOf(a) == {t \in Tokens : owner[t] = a /\ row[t] = "active"}

RevokeRows(S) ==
    row' = [t \in Tokens |-> IF t \in S /\ row[t] = "active" THEN "revoked" ELSE row[t]]

\* refreshSession of a revoked row: reuse is detected, all rows of the account
\* are revoked and the answer is 401.
Reuse(p) ==
    /\ row[p] = "revoked"
    /\ RevokeRows(RowsOf(owner[p]))
    /\ UNCHANGED <<owner, device, parent, usable>>

\* logout: the access token presented and the row presented, no other.
Logout(access, refresh) ==
    /\ usable' = usable \ {access}
    /\ RevokeRows({refresh})
    /\ UNCHANGED <<owner, device, parent>>

\* The account signs out everywhere, or changes its password, on some device
\* that is not modelled.
EndElsewhere(a) ==
    /\ Spend("elsewhere")
    /\ RowsOf(a) # {}
    /\ RevokeRows(RowsOf(a))
    /\ usable' = {t \in usable : owner[t] # a}
    /\ UNCHANGED <<owner, device, parent, lost>>

\* The access token's 15 minutes are over.
ExpireAccess(t) ==
    /\ Spend("expiry")
    /\ t \in usable
    /\ usable' = usable \ {t}
    /\ UNCHANGED <<row, owner, device, parent, lost>>

Consumed(t) == t # NoToken /\ \E u \in Tokens : parent[u] = t
=============================================================================
