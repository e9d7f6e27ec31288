----------------------------- MODULE MCClients -----------------------------
(* Two accounts, a phone with two requests, two tabs. *)
EXTENDS Clients

Nothing == [e \in Events |-> 0]

\* Two requests at once find their access token expired, the user signs out
\* and the other account signs in.
Switching == [Nothing EXCEPT !.signin = 2, !.send = 2, !.signout = 1, !.expiry = 1]
\* The app is killed and launched again, a message is lost.
Dropping == [Nothing EXCEPT !.signin = 2, !.send = 2, !.expiry = 1, !.restart = 1,
                            !.loss = 1, !.outdated = 1]
\* Two tabs find the access token expired, one signs out, one is closed.
Browsing == [Nothing EXCEPT !.open = 2, !.form = 1, !.ask = 2, !.leave = 1,
                            !.close = 1, !.expiry = 1]
Failing == [Nothing EXCEPT !.open = 2, !.form = 2, !.ask = 1, !.expiry = 1, !.loss = 1]
\* One account on both devices, and signed out from a third.
Roaming == [Nothing EXCEPT !.signin = 1, !.send = 1, !.open = 1, !.form = 1, !.ask = 1,
                           !.expiry = 1, !.elsewhere = 1]
Days == {Switching, Dropping, Browsing, Failing, Roaming}
=============================================================================
