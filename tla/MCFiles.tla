------------------------------- MODULE MCFiles -------------------------------
(* One subject, and one department that it and the coordinator may be without; *)
(* a user of each role, and a second student.                                  *)
EXTENDS Files, TLC

CONSTANTS ada, col, ivy, sam, sue

RoleOf == (ada :> "ADMIN") @@ (col :> "COORDINATOR") @@ (ivy :> "INSTRUCTOR")
          @@ (sam :> "STUDENT") @@ (sue :> "STUDENT")

Nothing == [e \in Events |-> 0]

\* Pictures replace one another, and something fails or the process is killed.
Pictures == [Nothing EXCEPT !.picture = 3, !.fault = 1]
Killed == [Nothing EXCEPT !.picture = 3, !.crash = 1]
\* Works are made, changed and deleted.
Changing == [Nothing EXCEPT !.work = 2, !.edit = 1, !.delete = 1, !.assign = 1, !.fault = 1]
Deleting == [Nothing EXCEPT !.work = 1, !.answer = 2, !.delete = 1, !.crash = 1]
Sheets == [Nothing EXCEPT !.sheet = 1, !.picture = 1, !.ask = 1, !.fault = 1]
\* An answer is handed in and read.
Reading == [Nothing EXCEPT !.work = 1, !.answer = 1, !.ask = 1, !.join = 1, !.delete = 1, !.fault = 1]
Terms == {Pictures, Killed, Changing, Deleting, Sheets, Reading}

Failing == {[Nothing EXCEPT !.work = 1, !.fault = 1]}

Symmetry == Permutations(Names) \cup Permutations(Items) \cup Permutations(Requests)
            \cup Permutations({sam, sue})
=============================================================================
