------------------------------ MODULE MCMarks ------------------------------
(* Two students, two subjects, and a notice, which goes to the first, and a *)
(* routine, which goes to both by jobs of their own.                        *)
EXTENDS Marks

CONSTANTS u1, u2

ByRole == [t \in FanOut |-> IF t = "routine" THEN {{u1}, {u2}} ELSE {{u1}}]
EveryoneEnrolled == [s \in Subjects |-> Users]

Nothing == [online |-> {}, topics |-> {}, edits |-> 0, publications |-> 0,
            failures |-> 0, clicks |-> 0, errors |-> 0]

\* Marks are edited and published; two announcements fan out; a client is open
\* while a notice arrives, is read and a poll fails.  One attempt fails.
Publishing == [Nothing EXCEPT !.edits = 2, !.publications = 2, !.failures = 1]
Announcing == [Nothing EXCEPT !.topics = FanOut, !.failures = 1]
Watching == [Nothing EXCEPT !.online = {u1}, !.topics = {"notice"},
                            !.failures = 1, !.clicks = 1, !.errors = 1]
Campus == {Publishing, Announcing, Watching}

\* A result is published, edited and published again.
Twice == {[Nothing EXCEPT !.edits = 2, !.publications = 2]}
\* A routine is announced and an attempt of its job fails.
Retried == {[Nothing EXCEPT !.topics = {"routine"}, !.failures = 1]}
=============================================================================
