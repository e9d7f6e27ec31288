------------------------------ MODULE Browser ------------------------------
(***************************************************************************)
(* The session of the web app in one browser: tabs that share the cookies  *)
(* and the Web Lock of refreshes, but each keep who is signed in and one   *)
(* refreshPromise.  An answer's Set-Cookie takes effect when it arrives.   *)
(***************************************************************************)
EXTENDS SessionServer, FiniteSets

CONSTANT Tabs

VARIABLES
    jar,        \* the pair in the accessToken and refreshToken cookies
    hint,       \* localStorage: somebody was signed in
    tab,        \* apiAuthState of each tab
    ask,        \* the request of each tab
    renew,      \* refreshSession of each tab
    form,       \* the login form of each tab
    leave       \* the logout request of each tab

webVars == <<jar, hint, tab, ask, renew, form, leave>>

Closed == [open |-> FALSE, user |-> NoOne, hint |-> FALSE]
NoAsk == [pc |-> "idle", token |-> NoToken, retried |-> FALSE]
NoRenew == [pc |-> "idle", token |-> NoToken, new |-> NoToken]
NoForm == [pc |-> "idle", account |-> NoOne, token |-> NoToken]
NoLeave == [pc |-> "idle", token |-> NoToken]

WebInit ==
    /\ jar = NoToken
    /\ hint = FALSE
    /\ tab = [b \in Tabs |-> Closed]
    /\ ask = [b \in Tabs |-> NoAsk]
    /\ renew = [b \in Tabs |-> NoRenew]
    /\ form = [b \in Tabs |-> NoForm]
    /\ leave = [b \in Tabs |-> NoLeave]

Pair == Tokens \cup {NoToken}
WebTypeOK ==
    /\ jar \in Pair
    /\ hint \in BOOLEAN
    /\ tab \in [Tabs -> [open : BOOLEAN, user : Accounts \cup {NoOne}, hint : BOOLEAN]]
    /\ ask \in [Tabs -> [pc : {"idle", "sent", "ok", "denied", "waiting"},
                         token : Pair, retried : BOOLEAN]]
    /\ renew \in [Tabs -> [pc : {"idle", "queued", "sent", "rotated", "refused", "reused"},
                           token : Pair, new : Pair]]
    /\ form \in [Tabs -> [pc : {"idle", "sent", "issued"},
                          account : Accounts \cup {NoOne}, token : Pair]]
    /\ leave \in [Tabs -> [pc : {"idle", "sent", "done"}, token : Pair]]

-----------------------------------------------------------------------------
(* What a tab knows: apiAuthState *)

\* setAuthState in tab b; localStorage is common to the tabs.
SetUser(b, a) ==
    /\ tab' = [tab EXCEPT ![b].user = a, ![b].hint = a # NoOne]
    /\ hint' = (a # NoOne)

\* A page loads; if somebody was signed in it refreshes the session.
TabOpen(b) ==
    /\ Spend("open")
    /\ ~tab[b].open
    /\ tab' = [tab EXCEPT ![b] = [open |-> TRUE, user |-> NoOne, hint |-> hint]]
    /\ renew' = [renew EXCEPT ![b].pc = IF hint THEN "queued" ELSE "idle"]
    /\ UNCHANGED <<jar, hint, ask, form, leave, store, lost>>

\* The tab is closed; what it was waiting for is dropped and its lock freed.
TabClose(b) ==
    /\ Spend("close")
    /\ tab[b].open
    /\ Lose({renew[b].token, renew[b].new, form[b].token, leave[b].token})
    /\ tab' = [tab EXCEPT ![b] = Closed]
    /\ ask' = [ask EXCEPT ![b] = NoAsk]
    /\ renew' = [renew EXCEPT ![b] = NoRenew]
    /\ form' = [form EXCEPT ![b] = NoForm]
    /\ leave' = [leave EXCEPT ![b] = NoLeave]
    /\ UNCHANGED <<jar, hint, store>>

-----------------------------------------------------------------------------
(* Login and logout *)

FormSend(b, a) ==
    /\ Spend("form")
    /\ tab[b].open /\ tab[b].user = NoOne
    /\ form[b].pc = "idle" /\ renew[b].pc = "idle"
    /\ form' = [form EXCEPT ![b] = [NoForm EXCEPT !.pc = "sent", !.account = a]]
    /\ UNCHANGED <<jar, hint, tab, ask, renew, leave, store, lost>>

FormServe(b, t) ==
    /\ form[b].pc = "sent"
    /\ Issue(t, form[b].account, "web")
    /\ form' = [form EXCEPT ![b].pc = "issued", ![b].token = t]
    /\ UNCHANGED <<jar, hint, tab, ask, renew, leave, lost, budget>>

FormReceive(b) ==
    /\ form[b].pc = "issued"
    /\ jar' = form[b].token
    /\ SetUser(b, form[b].account)
    /\ form' = [form EXCEPT ![b] = NoForm]
    /\ UNCHANGED <<ask, renew, leave, serverVars>>

\* The tab forgets the user at once and posts the logout with the cookies.
LeaveSend(b) ==
    /\ Spend("leave")
    /\ tab[b].open /\ tab[b].user # NoOne /\ leave[b].pc = "idle"
    /\ SetUser(b, NoOne)
    /\ leave' = [leave EXCEPT ![b] = [pc |-> "sent", token |-> jar]]
    /\ UNCHANGED <<jar, ask, renew, form, store, lost>>

LeaveServe(b) ==
    /\ leave[b].pc = "sent"
    /\ Logout(leave[b].token, leave[b].token)
    /\ leave' = [leave EXCEPT ![b].pc = "done"]
    /\ UNCHANGED <<jar, hint, tab, ask, renew, form, lost, budget>>

\* The answer expires the cookies, whichever pair they hold by now.
LeaveReceive(b) ==
    /\ leave[b].pc = "done"
    /\ jar' = NoToken
    /\ leave' = [leave EXCEPT ![b] = NoLeave]
    /\ UNCHANGED <<hint, tab, ask, renew, form, serverVars>>

-----------------------------------------------------------------------------
(* Requests *)

Asked(retried) == [pc |-> "sent", token |-> jar, retried |-> retried]

AskSend(b) ==
    /\ Spend("ask")
    /\ tab[b].open /\ tab[b].user # NoOne
    /\ ask[b].pc = "idle"
    /\ ask' = [ask EXCEPT ![b] = Asked(FALSE)]
    /\ UNCHANGED <<jar, hint, tab, renew, form, leave, store, lost>>

AskServe(b) ==
    /\ ask[b].pc = "sent"
    /\ ask' = [ask EXCEPT ![b].pc = IF ask[b].token \in usable THEN "ok" ELSE "denied"]
    /\ UNCHANGED <<jar, hint, tab, renew, form, leave, serverVars>>

AskDeliver(b) ==
    /\ ask[b].pc = "ok"
    /\ ask' = [ask EXCEPT ![b] = NoAsk]
    /\ UNCHANGED <<jar, hint, tab, renew, form, leave, serverVars>>

HasHint(b) == tab[b].user # NoOne \/ tab[b].hint

\* The first 401 waits for the tab's refresh, started if there is none.
AskRefresh(b) ==
    /\ ask[b].pc = "denied" /\ ~ask[b].retried /\ HasHint(b)
    /\ ask' = [ask EXCEPT ![b].pc = "waiting"]
    /\ renew' = IF renew[b].pc = "idle" THEN [renew EXCEPT ![b].pc = "queued"] ELSE renew
    /\ UNCHANGED <<jar, hint, tab, form, leave, serverVars>>

\* Any other 401 ends in the login page.
AskDenied(b) ==
    /\ ask[b].pc = "denied" /\ (ask[b].retried \/ ~HasHint(b))
    /\ ask' = [ask EXCEPT ![b] = NoAsk]
    /\ SetUser(b, NoOne)
    /\ UNCHANGED <<jar, renew, form, leave, serverVars>>

-----------------------------------------------------------------------------
(* refreshSession *)

Holding(b) == renew[b].pc \in {"sent", "rotated", "refused", "reused"}

\* (mutant) The localStorage lock, whose key is the tab's own.
LockFreeAlways == TRUE

\* No tab is in the critical section of the Web Lock.
LockFree == \A b \in Tabs : ~Holding(b)

\* The lock is granted and the call sent with the cookie of that moment.
RenewSend(b) ==
    /\ renew[b].pc = "queued" /\ LockFree
    /\ renew' = [renew EXCEPT ![b].pc = "sent", ![b].token = jar]
    /\ UNCHANGED <<jar, hint, tab, ask, form, leave, serverVars>>

RenewServe(b) ==
    /\ renew[b].pc = "sent"
    /\ \/ \E t \in Tokens :
            /\ renew[b].token # NoToken
            /\ Rotate(renew[b].token, t)
            /\ renew' = [renew EXCEPT ![b].pc = "rotated", ![b].new = t]
       \/ /\ renew[b].token # NoToken
          /\ Reuse(renew[b].token)
          /\ renew' = [renew EXCEPT ![b].pc = "reused"]
       \/ /\ renew[b].token = NoToken
          /\ renew' = [renew EXCEPT ![b].pc = "refused"]
          /\ UNCHANGED store
    /\ UNCHANGED <<jar, hint, tab, ask, form, leave, lost, budget>>

RenewDone(b) == renew' = [renew EXCEPT ![b] = NoRenew]

\* The cookies and the user of the answer are set, whoever was signed in, and
\* the tab's request is sent again.
RenewSucceed(b) ==
    /\ renew[b].pc = "rotated"
    /\ jar' = renew[b].new
    /\ SetUser(b, owner[renew[b].new])
    /\ ask' = IF ask[b].pc = "waiting"
              THEN [ask EXCEPT ![b] = [Asked(TRUE) EXCEPT !.token = renew[b].new]]
              ELSE ask
    /\ RenewDone(b)
    /\ UNCHANGED <<form, leave, serverVars>>

\* Any error signs the tab out; the answer to a reused token also expires the
\* cookies.
RenewFailed(b) ==
    /\ SetUser(b, NoOne)
    /\ ask' = IF ask[b].pc = "waiting" THEN [ask EXCEPT ![b] = NoAsk] ELSE ask
    /\ RenewDone(b)
    /\ UNCHANGED <<form, leave, store>>

RenewRefused(b) ==
    /\ renew[b].pc \in {"refused", "reused"}
    /\ jar' = IF renew[b].pc = "reused" THEN NoToken ELSE jar
    /\ RenewFailed(b)
    /\ UNCHANGED <<lost, budget>>

RenewLost(b) ==
    /\ Spend("loss")
    /\ Holding(b)
    /\ Lose({renew[b].token, renew[b].new})
    /\ RenewFailed(b)
    /\ UNCHANGED jar

-----------------------------------------------------------------------------

WebAnswers ==
    \E b \in Tabs :
        \/ \E t \in Tokens : FormServe(b, t)
        \/ FormReceive(b) \/ LeaveServe(b) \/ LeaveReceive(b)
        \/ AskServe(b) \/ AskDeliver(b) \/ AskRefresh(b) \/ AskDenied(b)
        \/ RenewSend(b) \/ RenewServe(b) \/ RenewSucceed(b) \/ RenewRefused(b)

WebNext ==
    \/ WebAnswers
    \/ \E b \in Tabs :
        \/ TabOpen(b) \/ TabClose(b) \/ LeaveSend(b) \/ AskSend(b) \/ RenewLost(b)
        \/ \E a \in Accounts : FormSend(b, a)
=============================================================================
