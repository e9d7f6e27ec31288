------------------------------ MODULE Clients ------------------------------
(***************************************************************************)
(* The mobile app and the web app against one session server: what either  *)
(* shows, keeps and presents, and what an alarm of one does to the other.  *)
(***************************************************************************)
EXTENDS Phone, Browser

vars == <<serverVars, phoneVars, webVars>>

Init == ServerInit /\ PhoneInit /\ WebInit

Next ==
    \/ PhoneNext /\ UNCHANGED webVars
    \/ WebNext /\ UNCHANGED phoneVars
    \/ \E a \in Accounts : EndElsewhere(a) /\ UNCHANGED <<phoneVars, webVars>>
    \/ \E t \in Tokens : ExpireAccess(t) /\ UNCHANGED <<phoneVars, webVars>>

Spec == Init /\ [][Next]_vars

\* Servers answer and answers are handled; a lock is granted to each tab that
\* keeps asking.  Users, failures and time owe nothing.
FairSpec ==
    /\ Spec
    /\ WF_vars(PhoneAnswers /\ UNCHANGED webVars)
    /\ WF_vars(WebAnswers /\ UNCHANGED phoneVars)

-----------------------------------------------------------------------------
(* Properties *)

TypeOK == ServerTypeOK /\ PhoneTypeOK /\ WebTypeOK

\* "pending refreshes cannot restore or clear another account": whatever
\* refresh, restore or login is answered late, the tokens in the store are
\* those of the user in the store.
TokensOfTheUser ==
    \A t \in {session.refresh, session.access} \ {NoToken} : owner[t] = session.user

\* An answer that reaches a screen was given to the account that is signed in.
AnswersStayInSession ==
    [][\A q \in Requests : Deliver(q) => owner[request[q].token] = session.user]_vars

\* However many requests, tabs and launches need a refresh at once, a token
\* that was rotated is presented again only after an answer was lost.  This is
\* about rotated tokens only: refreshSession raises its alarm for any revoked
\* row, also for that of a sign-out that overtakes a refresh under way.
NeverPresentedTwice ==
    [][/\ \A c \in Calls : RefreshServe(c) /\ Consumed(call[c].token)
                             => call[c].token \in lost
       /\ \A b \in Tabs : RenewServe(b) /\ Consumed(renew[b].token)
                            => renew[b].token \in lost]_vars

\* "Late rotated credentials are revoked": when the phone is quiet and lost no
\* message, every session it opened is closed but the one it is in.
Quiet ==
    /\ \A c \in Calls : call[c].pc = "idle"
    /\ login.pc = "idle" /\ revocations = {}
NothingLeftBehind ==
    Quiet => \A t \in Tokens : row[t] = "active" /\ device[t] = "phone"
                                 => t \in lost \cup {session.refresh}

\* Every request ends: delivered, rejected, or with the session.
RequestsSettle ==
    /\ \A q \in Requests : (request[q].pc # "idle") ~> (request[q].pc = "idle")
    /\ \A b \in Tabs : (ask[b].pc # "idle") ~> (ask[b].pc = "idle")
=============================================================================
