----------------------------- MODULE MCTeaching -----------------------------
(* Two subjects, two students and two of each kind of request. *)
EXTENDS Teaching, TLC

Nothing == [e \in Events |-> 0]

\* Subjects and students are created at the same time.
Opening == [Nothing EXCEPT !.subject = 2, !.admit = 2]
\* An account is disabled while two subjects are created around it.
Passing == [Nothing EXCEPT !.subject = 2, !.admit = 1, !.toggle = 1]
\* A promotion meets a change of the subject and of the account.
Changing == [Nothing EXCEPT !.subject = 1, !.admit = 1, !.move = 1, !.revise = 1, !.toggle = 1]
Moving == [Nothing EXCEPT !.subject = 1, !.admit = 1, !.move = 2]
\* Accounts and subjects are deleted under requests in flight.
Leaving == [Nothing EXCEPT !.subject = 1, !.admit = 1, !.move = 1, !.expel = 1, !.drop = 1,
                           !.fail = 1]
Listing == [Nothing EXCEPT !.subject = 1, !.admit = 2, !.override = 1, !.expel = 1]
\* A form is sent twice, work and subject are deleted meanwhile.
Handing == [Nothing EXCEPT !.subject = 1, !.admit = 1, !.work = 2, !.hand = 2, !.grade = 1,
                           !.drop = 1]
Assigning == [Nothing EXCEPT !.subject = 1, !.assign = 1, !.work = 2, !.drop = 1]
\* Classes are planned, moved and deleted by two planners.
Planning == [Nothing EXCEPT !.subject = 1, !.plan = 3, !.drop = 1]
Terms == {Opening, Passing, Changing, Moving, Leaving, Listing, Handing, Assigning, Planning}
Booking == {[Nothing EXCEPT !.subject = 1, !.plan = 2]}

Class(x, t, sec, s, e, room, g) ==
    [subject |-> x, teacher |-> t, department |-> "bca", semester |-> 1, section |-> sec,
     start |-> s, end |-> e, room |-> room, group |-> g]

\* Classes that share a room, a teacher, a section or a combined group with
\* one another, and one that contains another.
Offers == {Class("math", "tea", "A", 1, 2, "R1", "null"),
           Class("math", "tea", "B", 2, 4, "R1", "null"),
           Class("math", "lee", "A", 1, 4, "R2", "null"),
           Class("math", "lee", "B", 3, 4, "R1", "g1")}

\* One room, once for a class of its own and once for a combined class.
Bookings == {Class("math", "tea", "A", 1, 2, "R1", "null"),
             Class("math", "lee", "B", 1, 2, "R1", "g1")}

Symmetry == Permutations(Students) \cup Permutations(Staff) \cup Permutations(Hands)
            \cup Permutations(Works) \cup Permutations(Classes) \cup Permutations(Planners)
=============================================================================
