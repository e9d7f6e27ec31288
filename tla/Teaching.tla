------------------------------ MODULE Teaching ------------------------------
(***************************************************************************)
(* Enrollment, coursework and the timetable over one set of subjects: what *)
(* is deleted with a subject is deleted in one transaction, beside whatever *)
(* is in flight in all three.                                              *)
(***************************************************************************)
EXTENDS Coursework, Timetable

vars == <<enrollmentVars, courseworkVars, timetableVars>>

Init == EnrollmentInit /\ CourseworkInit /\ TimetableInit

DropSubject(x) == DeleteSubject(x) /\ DeleteWorksOf(x) /\ DeleteRoutinesOf(x)

Next ==
    \/ EnrollmentStep /\ UNCHANGED <<courseworkVars, timetableVars>>
    \/ CourseworkStep /\ UNCHANGED timetableVars
    \/ TimetableStep /\ UNCHANGED courseworkVars
    \/ \E x \in Subjects : DropSubject(x)

Spec == Init /\ [][Next]_vars

-----------------------------------------------------------------------------
(* Properties *)

TypeOK == EnrollmentTypeOK /\ CourseworkTypeOK /\ TimetableTypeOK

\* A deleted subject leaves no enrollment, work or class, and a deleted work no
\* answer, whatever was in flight when it was deleted; a student who was deleted
\* while no request held them is in no subject and never comes back into one.
NothingOrphaned ==
    /\ \A p \in enrolled : Live(p[1])
    /\ \A p \in enrolled : student[p[2]].status = "deleted" => p[2] \in raced
    /\ \A w \in Works : Open(w) => Live(work[w].subject)
    /\ \A h \in Hands : hand[h].pc = "stored" => Open(hand[h].work)
    /\ \A c \in Stored : Live(Entry(c).subject)
=============================================================================
