---------------------------- MODULE MCAttendance ----------------------------
(* A day of two students and two subjects, in two variants: one class of    *)
(* each subject for everyone, or a class of one subject for each section.   *)
EXTENDS Attendance, TLC

CONSTANTS s1, s2, t1, t2, q1, q2, w1, w2

\* Two subjects, taught to both students.
Together == [t \in Routines |-> Students]
TwoSubjects == (t1 :> "algebra") @@ (t2 :> "networks")

\* One subject, taught to each section at its own time.
BySection == (t1 :> {s1}) @@ (t2 :> {s2})
OneSubject == [t \in Routines |-> "algebra"]

InOrder == (t1 :> 1) @@ (t2 :> 2)
EveryoneEnrolled == Students \X Subjects
AllForAlgebra == [q \in Codes |-> "algebra"]

\* An early window for everyone and a late one for the second student.
Opening == [w \in Windows |-> IF w = w1 THEN 1 ELSE 2]
Closing == [w \in Windows |-> IF w = w1 THEN 1 ELSE 2]
Admitted == [w \in Windows |-> IF w = w1 THEN Students ELSE {s2}]
=============================================================================
