----------------------------- MODULE MCAccounts -----------------------------
(* Two addresses, two requests of staff, one import and two logins at once. *)
EXTENDS Accounts, TLC

Nothing == [e \in Events |-> 0]

\* Two conversions, a second application and a review meet.
Applying == [Nothing EXCEPT !.intake = 3, !.review = 1, !.discard = 1, !.convert = 2]
\* A deleted student's number is wanted by hand and by conversion.
Entering == [Nothing EXCEPT !.intake = 1, !.convert = 1, !.admit = 1, !.expel = 1]
Renumbering == [Nothing EXCEPT !.admit = 2, !.expel = 1, !.renumber = 1]
\* The import meets both, its worker dies, and its accounts are deleted again.
Importing == [Nothing EXCEPT !.file = 1, !.crash = 2, !.admit = 1, !.expel = 1]
Racing == [Nothing EXCEPT !.file = 1, !.admit = 2, !.fault = 1]
Meeting == [Nothing EXCEPT !.file = 1, !.intake = 1, !.convert = 1]
\* Errors undo attempts, all of them or all but one, beside a dead worker.
Failing == [Nothing EXCEPT !.file = 1, !.fault = 3, !.crash = 2, !.admit = 1]
\* Wrong and right passwords up to the lock and past it.
Guessing == [Nothing EXCEPT !.guess = 6]
Terms == {Applying, Entering, Renumbering, Importing, Racing, Meeting, Failing, Guessing}
Crashing == {[Nothing EXCEPT !.file = 1, !.crash = 1]}

Rows == {[email |-> "ann", roll |-> 1], [email |-> "bob", roll |-> 2]}

Symmetry == Permutations(Staff) \cup Permutations(Guests) \cup Permutations(Captchas)
            \cup Permutations(Accounts \ Founders)
=============================================================================
