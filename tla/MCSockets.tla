----------------------------- MODULE MCSockets -----------------------------
(* Two accounts on one phone, a socket for each effect that makes one. *)
EXTENDS Sockets

Nothing == [e \in Events |-> 0]

\* One account signs out and the other signs in under deliveries.
Switching == [Nothing EXCEPT !.signin = 2, !.signout = 1, !.renew = 1, !.post = 1, !.expiry = 1]
\* The session is renewed twice, the refreshes of the socket overlap.
Renewing == [Nothing EXCEPT !.signin = 1, !.renew = 2, !.expiry = 2]
\* A delivery meets a renewal, and the end of a token.
Expiring == [Nothing EXCEPT !.signin = 1, !.renew = 1, !.post = 1, !.expiry = 2]
Revoking == [Nothing EXCEPT !.signin = 1, !.renew = 1, !.post = 1, !.revoke = 1]
Ending == [Nothing EXCEPT !.signin = 2, !.signout = 1, !.post = 1, !.cut = 1]
\* The network, Redis or the adapter fails.
Failing == [Nothing EXCEPT !.signin = 1, !.renew = 1, !.drop = 1, !.outage = 1, !.post = 1,
                           !.lose = 1]
\* A timer closes the socket, and what the phone or the server asks then fails.
Missing == [Nothing EXCEPT !.signin = 1, !.renew = 1, !.expiry = 1, !.outage = 1]
Shifts == {Switching, Renewing, Expiring, Revoking, Ending, Failing, Missing}
=============================================================================
