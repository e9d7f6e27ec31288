----------------------------- MODULE Enrollment -----------------------------
(***************************************************************************)
(* Subjects, students and the enrollment of the one in the other.  A       *)
(* subject is for a semester and a department, or for all departments; its *)
(* students are kept in step by requests that write their own side, then   *)
(* read the other, and then insert and delete enrollments.  No two of      *)
(* these steps are in one transaction.                                     *)
(***************************************************************************)
EXTENDS Naturals, FiniteSets

CONSTANTS
    Students,
    Subjects,
    Teachers,
    Nobody,         \* no student, subject or teacher
    Semesters,
    Departments,
    Shared,         \* the department of a subject for all departments
    Staff,          \* requests about enrollment in progress
    Budgets         \* bound: how often each event happens, by scenario

ASSUME NobodyAssumption == Nobody \notin Students \cup Subjects \cup Teachers
ASSUME PlaceAssumption == Semesters \subseteq Nat \ {0} /\ Shared \notin Departments

Events == {"subject", "revise", "override", "admit", "move", "toggle", "expel",
           "drop", "assign", "fail", "work", "hand", "grade", "plan"}
ASSUME BudgetAssumption == Budgets \subseteq [Events -> Nat]

VARIABLES
    student,        \* User and Student rows
    subject,        \* Subject rows
    enrolled,       \* SubjectEnrollment rows, unique by subject and student
    job,            \* requests about enrollment
    settled,        \* (history) pairs that the last request left undisturbed
    raced,          \* (history) students deleted while a request held them
    budget          \* events left in the scenario

people == <<student, raced>>
enrollmentVars == <<student, subject, enrolled, job, settled, raced, budget>>

\* Where a student may be, and whom a subject may be for.
Places == [semester : Semesters, department : Departments]
Audiences == [semester : Semesters, department : Departments \cup {Shared}]
NoPlace == [semester |-> 0, department |-> Shared]

Moves == {"promote", "transfer", "assign"}
Pairs == Subjects \X Students
NoJob == [op |-> "none", pc |-> "idle", student |-> Nobody, subject |-> Nobody,
          place |-> NoPlace, pairs |-> {}, olds |-> {}, clean |-> {}]

Jobs == [op : {"none", "create", "revise", "override", "admit"} \cup Moves,
         pc : {"idle", "update", "read", "subjects", "existing", "write"},
         student : Students \cup {Nobody}, subject : Subjects \cup {Nobody},
         place : Places \cup Audiences \cup {NoPlace},
         pairs : SUBSET Pairs, olds : SUBSET Pairs, clean : SUBSET Pairs]

EnrollmentTypeOK ==
    /\ student \in [Students -> [status : {"none", "active", "disabled", "deleted"},
                                 place : Places \cup {NoPlace}]]
    /\ subject \in [Subjects -> [state : {"none", "live", "gone"},
                                 audience : Audiences \cup {NoPlace},
                                 holder : Teachers \cup {Nobody}]]
    /\ enrolled \subseteq Pairs
    /\ job \in [Staff -> Jobs]
    /\ settled \subseteq Pairs
    /\ raced \subseteq Students
    /\ budget \in [Events -> Nat]

EnrollmentInit ==
    /\ student = [s \in Students |-> [status |-> "none", place |-> NoPlace]]
    /\ subject = [x \in Subjects |-> [state |-> "none", audience |-> NoPlace,
                                      holder |-> Nobody]]
    /\ enrolled = {}
    /\ job = [r \in Staff |-> NoJob]
    /\ settled = {}
    /\ raced = {}
    /\ budget \in Budgets

Spend(what) ==
    /\ budget[what] > 0
    /\ budget' = [budget EXCEPT ![what] = budget[what] - 1]

-----------------------------------------------------------------------------
(* The rule *)

\* getMatchingSubjectFilter and getMatchingStudentFilter, from either side.
Matches(audience, place) ==
    /\ audience.semester = place.semester
    /\ audience.department \in {Shared, place.department}

Live(x) == subject[x].state = "live"

\* (mutant) A filter that only looks at isActive.
Undisabled(s) == student[s].status \in {"active", "deleted"}

\* user: { isActive: true, deletedAt: null }
Attending(s) == student[s].status = "active"

-----------------------------------------------------------------------------
(* Requests *)

Idle(r) == job[r].op = "none"

\* The pairs a request may insert or delete.
Concern(j) == IF j.op \in Moves \cup {"admit"} THEN Subjects \X {j.student}
              ELSE {j.subject} \X Students

Removes(j) == j.op \in Moves \cup {"revise", "override"}

\* (history) Where request j, beginning, and k disturb each other: either may
\* delete, or k was disturbed before.
Disturbed(j, k) ==
    IF k.op = "none" THEN {}
    ELSE Concern(j) \cap (IF Removes(j) \/ Removes(k) THEN Concern(k)
                                                     ELSE Concern(k) \ k.clean)

\* Request r begins as j, which did its first write.
Begin(r, j) ==
    LET met == UNION {Disturbed(j, job[q]) : q \in Staff}
    IN  /\ Idle(r)
        /\ job' = [q \in Staff |->
             IF q = r
             THEN [j EXCEPT !.clean = IF j.op = "override" THEN {} ELSE Concern(j) \ met]
             ELSE [job[q] EXCEPT !.clean = job[q].clean \ Disturbed(j, job[q])]]
        /\ settled' = settled \ Concern(j)

\* Request r is answered, having left the pairs in step with the rule.
Finish(r, pairs) ==
    /\ job' = [job EXCEPT ![r] = NoJob]
    /\ settled' = settled \cup pairs

\* Request r ends with what it wrote so far.
Abort(r) ==
    /\ job' = [q \in Staff |->
         IF q = r THEN NoJob
         ELSE [job[q] EXCEPT !.clean = job[q].clean \ Concern(job[r])]]
    /\ settled' = settled \ Concern(job[r])
    /\ UNCHANGED <<student, subject, enrolled, raced>>

\* An error of the database or the end of the process.
Fail(r) == Spend("fail") /\ ~Idle(r) /\ Abort(r)

-----------------------------------------------------------------------------
(* Subjects *)

CreateSubject(r, x, a, t) ==
    /\ Spend("subject")
    /\ subject[x].state = "none"
    /\ subject' = [subject EXCEPT ![x] = [state |-> "live", audience |-> a, holder |-> t]]
    /\ Begin(r, [NoJob EXCEPT !.op = "create", !.pc = "read", !.subject = x, !.place = a])
    /\ UNCHANGED <<student, enrolled, raced>>

UpdateSubject(r, x, a) ==
    /\ Spend("revise")
    /\ Live(x)
    /\ subject' = [subject EXCEPT ![x].audience = a]
    /\ Begin(r, [NoJob EXCEPT !.op = "revise", !.pc = "read", !.subject = x, !.place = a])
    /\ UNCHANGED <<student, enrolled, raced>>

\* (mutant) The students are those of the subject's department only.
FittingHome(a) == {s \in Students : Attending(s) /\ student[s].place = a}

Fitting(a) == {s \in Students : Attending(s) /\ Matches(a, student[s].place)}

\* Students who match, read for the audience the request wrote.  When nobody
\* matches the request is over, and an update keeps the old list.  (history) Who
\* would match and is disabled by now is left out, whatever else is under way.
ReadStudents(r) ==
    LET j    == job[r]
        skip == {j.subject} \X {s \in Students : student[s].status = "disabled"
                                                   /\ Matches(j.place, student[s].place)}
        left == [q \in Staff |-> [job[q] EXCEPT !.clean = job[q].clean \ skip]]
    IN  /\ j.op \in {"create", "revise"} /\ j.pc = "read"
        /\ IF Fitting(j.place) = {}
           THEN /\ job' = [left EXCEPT ![r] = NoJob]
                /\ settled' = (IF j.op = "revise" THEN settled ELSE settled \cup j.clean) \ skip
           ELSE /\ job' = [left EXCEPT ![r].pc = "write",
                                       ![r].pairs = {j.subject} \X Fitting(j.place)]
                /\ settled' = settled \ skip
        /\ UNCHANGED <<student, subject, enrolled, raced, budget>>

\* updateSubjectEnrollments: a list by hand, of active students.
UpdateSubjectEnrollments(r, x, list) ==
    /\ Spend("override")
    /\ Live(x) /\ \A s \in list : Attending(s)
    /\ Begin(r, [NoJob EXCEPT !.op = "override", !.pc = "write", !.subject = x,
                              !.pairs = {x} \X list])
    /\ UNCHANGED <<student, subject, enrolled, raced>>

AssignInstructor(x, t) ==
    /\ Spend("assign")
    /\ Live(x)
    /\ subject' = [subject EXCEPT ![x].holder = t]
    /\ UNCHANGED <<student, enrolled, job, settled, raced>>

\* One transaction, with everything that refers to the subject.
DeleteSubject(x) ==
    /\ Spend("drop")
    /\ Live(x)
    /\ subject' = [subject EXCEPT ![x].state = "gone"]
    /\ enrolled' = {p \in enrolled : p[1] # x}
    /\ UNCHANGED <<student, job, settled, raced>>

-----------------------------------------------------------------------------
(* Students *)

\* createStudentAccountRecord
AdmitStudent(r, s, p) ==
    /\ Spend("admit")
    /\ student[s].status = "none"
    /\ student' = [student EXCEPT ![s] = [status |-> "active", place |-> p]]
    /\ Begin(r, [NoJob EXCEPT !.op = "admit", !.pc = "read", !.student = s, !.place = p])
    /\ UNCHANGED <<subject, enrolled, raced>>

Offered(j) == {x \in Subjects : Live(x) /\ Matches(subject[x].audience, j.place)} \X {j.student}

\* enrollStudentInMatchingSubjects
ReadSubjects(r) ==
    LET j == job[r]
    IN  /\ j.op = "admit" /\ j.pc = "read"
        /\ IF Offered(j) = {} THEN Finish(r, j.clean)
           ELSE /\ job' = [job EXCEPT ![r] = [j EXCEPT !.pc = "write", !.pairs = Offered(j)]]
                /\ UNCHANGED settled
        /\ UNCHANGED <<student, subject, enrolled, raced, budget>>

\* promoteStudentSemester, updateUser and bulkAssignStudentSection read the
\* student, who must not be deleted; a promotion takes its semester from there.
MoveStudent(r, s, op, p) ==
    /\ Spend("move")
    /\ student[s].status \in {"active", "disabled"}
    /\ op = "promote" => p.semester = student[s].place.semester + 1
    /\ Begin(r, [NoJob EXCEPT !.op = op, !.pc = "update", !.student = s, !.place = p])
    /\ UNCHANGED <<student, subject, enrolled, raced>>

\* (mutant) The semester a request does not set is written as empty.
UpdatedWhole(op, old, new) ==
    [semester   |-> IF op = "transfer" THEN 0 ELSE new.semester,
     department |-> IF op = "promote" THEN old.department ELSE new.department]

\* The fields a request sets, the others as they are by now.
Updated(op, old, new) ==
    [semester   |-> IF op = "transfer" THEN old.semester ELSE new.semester,
     department |-> IF op = "promote" THEN old.department ELSE new.department]

UpdateStudent(r) ==
    LET j == job[r]
        p == Updated(j.op, student[j.student].place, j.place)
    IN  /\ j.pc = "update"
        /\ student' = [student EXCEPT ![j.student].place = p]
        /\ job' = [job EXCEPT ![r] = [j EXCEPT !.pc = "read", !.place = p]]
        /\ UNCHANGED <<subject, enrolled, settled, raced, budget>>

\* syncStudentEnrollmentForSemester: two reads at once, in either order.
ReadMatching(r) ==
    LET j == job[r]
    IN  /\ j.op \in Moves /\ j.pc \in {"read", "subjects"}
        /\ job' = [job EXCEPT ![r] =
             [j EXCEPT !.pairs = Offered(j),
                       !.pc = IF j.pc = "read" THEN "existing" ELSE "write"]]
        /\ UNCHANGED <<student, subject, enrolled, settled, raced, budget>>

ReadExisting(r) ==
    LET j == job[r]
    IN  /\ j.op \in Moves /\ j.pc \in {"read", "existing"}
        /\ job' = [job EXCEPT ![r] =
             [j EXCEPT !.olds = {p \in enrolled : p[2] = j.student},
                       !.pc = IF j.pc = "read" THEN "subjects" ELSE "write"]]
        /\ UNCHANGED <<student, subject, enrolled, settled, raced, budget>>

ToggleUserStatus(s) ==
    /\ Spend("toggle")
    /\ student[s].status \in {"active", "disabled"}
    /\ student' = [student EXCEPT ![s].status =
                     IF student[s].status = "active" THEN "disabled" ELSE "active"]
    /\ UNCHANGED <<subject, enrolled, job, settled, raced>>

Held(s) == \E r \in Staff : job[r].student = s \/ \E p \in job[r].pairs : p[2] = s

\* deleteUser: the account is marked and its enrollments go, in a transaction.
DeleteUser(s) ==
    /\ Spend("expel")
    /\ student[s].status \in {"active", "disabled"}
    /\ student' = [student EXCEPT ![s].status = "deleted"]
    /\ enrolled' = {p \in enrolled : p[2] # s}
    /\ raced' = IF Held(s) THEN raced \cup {s} ELSE raced
    /\ UNCHANGED <<subject, job, settled>>

-----------------------------------------------------------------------------
(* The last write of a request *)

\* What is deleted: of a subject whatever the list does not name, of a student
\* whatever was found and no longer matches.
Removed(j) ==
    CASE j.op \in {"revise", "override"} -> {p \in enrolled : p[1] = j.subject}
      [] j.op \in Moves                  -> j.olds \ j.pairs
      [] OTHER                           -> {}

\* The foreign key of SubjectEnrollment to Subject.
Referenced(j) == \A p \in j.pairs : Live(p[1])

Write(r) ==
    LET j == job[r]
    IN  /\ j.pc = "write"
        /\ IF Referenced(j)
           THEN /\ enrolled' = (enrolled \ Removed(j)) \cup j.pairs
                /\ Finish(r, j.clean)
                /\ UNCHANGED <<student, subject, raced>>
           ELSE Abort(r)
        /\ UNCHANGED budget

-----------------------------------------------------------------------------

EnrollmentStep ==
    \/ \E r \in Staff :
        \/ Fail(r) \/ ReadStudents(r) \/ ReadSubjects(r) \/ UpdateStudent(r)
        \/ ReadMatching(r) \/ ReadExisting(r) \/ Write(r)
        \/ \E x \in Subjects, a \in Audiences :
            UpdateSubject(r, x, a) \/ \E t \in Teachers \cup {Nobody} : CreateSubject(r, x, a, t)
        \/ \E x \in Subjects, list \in SUBSET Students : UpdateSubjectEnrollments(r, x, list)
        \/ \E s \in Students, p \in Places :
            AdmitStudent(r, s, p) \/ \E op \in Moves : MoveStudent(r, s, op, p)
    \/ \E x \in Subjects, t \in Teachers : AssignInstructor(x, t)
    \/ \E s \in Students : ToggleUserStatus(s) \/ DeleteUser(s)

-----------------------------------------------------------------------------
(* Properties *)

\* A request that ran alone, or only beside requests that create, leaves the
\* pairs it is about as the rule says, whichever side it came from; a subject
\* and a student created at the same time do not miss each other.
InStep ==
    \A x \in Subjects, s \in Students :
        /\ <<x, s>> \in settled
        /\ Live(x) /\ student[s].status \in {"active", "disabled"}
        /\ \A r \in Staff : ~Idle(r) => <<x, s>> \notin Concern(job[r])
        => (<<x, s>> \in enrolled <=> Matches(subject[x].audience, student[s].place))
=============================================================================
