----------------------------- MODULE Coursework -----------------------------
(***************************************************************************)
(* Assignments and tasks of a subject and the answers of its students.     *)
(* An answer is one row, made by one request; requests are not serialized. *)
(* Texts, files, marks and dates are abstracted: whether a deadline has    *)
(* passed when it is looked at is a free choice.                           *)
(***************************************************************************)
EXTENDS Enrollment

CONSTANTS
    Works,          \* assignments and tasks
    Hands           \* requests that hand in an answer, and the rows they make

VARIABLES
    work,           \* Assignment and Task rows
    draft,          \* createAssignment and createTask between read and create
    hand            \* requests, and the Submission and TaskSubmission rows

courseworkVars == <<work, draft, hand>>

NoWork == [state |-> "none", kind |-> "task", subject |-> Nobody, teacher |-> Nobody]
\* missed is a history: answers that were stored since the request looked for one.
NoHand == [pc |-> "idle", work |-> Nobody, student |-> Nobody, status |-> "none",
           missed |-> {}]

CourseworkTypeOK ==
    /\ work \in [Works -> [state : {"none", "open", "gone"},
                           kind : {"assignment", "task"},
                           subject : Subjects \cup {Nobody},
                           teacher : Teachers \cup {Nobody}]]
    /\ draft \subseteq [work : Works, kind : {"assignment", "task"},
                        subject : Subjects, teacher : Teachers]
    /\ hand \in [Hands -> [pc : {"idle", "read", "member", "first", "stored", "refused"},
                           work : Works \cup {Nobody},
                           student : Students \cup {Nobody},
                           status : {"none", "SUBMITTED", "LATE", "EXTENDED", "REVIEWED",
                                     "GRADED"},
                           missed : SUBSET Hands]]

CourseworkInit ==
    /\ work = [w \in Works |-> NoWork]
    /\ draft = {}
    /\ hand = [h \in Hands |-> NoHand]

Open(w) == work[w].state = "open"

-----------------------------------------------------------------------------
(* Works *)

\* resolveAssignmentManager and resolveInstructorTaskSubject: the teacher is
\* the instructor of the subject at this moment; without one it is refused.
DraftWork(w, x, kind) ==
    /\ Spend("work")
    /\ work[w].state = "none" /\ \A d \in draft : d.work # w
    /\ Live(x) /\ subject[x].holder # Nobody
    /\ draft' = draft \cup {[work |-> w, kind |-> kind, subject |-> x,
                             teacher |-> subject[x].holder]}
    /\ UNCHANGED <<work, hand, student, subject, enrolled, job, settled, raced>>

\* The foreign key to Subject.
SubjectKey(x) == Live(x)

CreateWork(d) ==
    /\ d \in draft
    /\ draft' = draft \ {d}
    /\ work' = IF SubjectKey(d.subject)
               THEN [work EXCEPT ![d.work] = [state |-> "open", kind |-> d.kind,
                                              subject |-> d.subject, teacher |-> d.teacher]]
               ELSE work
    /\ UNCHANGED <<hand, enrollmentVars>>

\* Rows of answers that go with works W.
Without(W) == [h \in Hands |->
    IF hand[h].pc = "stored" /\ hand[h].work \in W THEN [hand[h] EXCEPT !.pc = "refused"]
    ELSE hand[h]]

\* A task is deleted by the instructor who holds the subject by now.
DeleteWork(w) ==
    /\ Spend("work")
    /\ Open(w)
    /\ work[w].kind = "task" => subject[work[w].subject].holder # Nobody
    /\ work' = [work EXCEPT ![w].state = "gone"]
    /\ hand' = Without({w})
    /\ UNCHANGED <<draft, student, subject, enrolled, job, settled, raced>>

\* The share of deleteSubject.
WorksOf(x) == {w \in Works : Open(w) /\ work[w].subject = x}
DeleteWorksOf(x) ==
    /\ work' = [w \in Works |->
                  IF w \in WorksOf(x) THEN [work[w] EXCEPT !.state = "gone"] ELSE work[w]]
    /\ hand' = Without(WorksOf(x))
    /\ UNCHANGED draft

-----------------------------------------------------------------------------
(* Answers *)

HandIn(h, w, s) ==
    /\ Spend("hand")
    /\ hand[h].pc = "idle"
    /\ Open(w) /\ Attending(s)
    /\ hand' = [hand EXCEPT ![h] = [NoHand EXCEPT !.pc = "read", !.work = w, !.student = s]]
    /\ UNCHANGED <<work, draft, student, subject, enrolled, job, settled, raced>>

Step(h, pc) == hand' = [hand EXCEPT ![h].pc = pc] /\ UNCHANGED <<work, draft, enrollmentVars>>

CheckEnrolled(h) ==
    /\ hand[h].pc = "read"
    /\ Step(h, IF <<work[hand[h].work].subject, hand[h].student>> \in enrolled
               THEN "member" ELSE "refused")

Answers(w, s) == {h \in Hands : hand[h].pc = "stored" /\ hand[h].work = w
                                  /\ hand[h].student = s}

\* (mutant) An answer that was marked no longer counts.
FoundUnmarked(w, s) == \E h \in Answers(w, s) : hand[h].status \notin {"GRADED", "REVIEWED"}

\* existingSubmission: there is an answer of the student.
Found(w, s) == Answers(w, s) # {}

\* An earlier answer refuses this one; so does the deadline of an assignment.
LookForAnswer(h) ==
    LET w     == hand[h].work
        found == Found(w, hand[h].student)
    IN  /\ hand[h].pc = "member"
        /\ \/ ~found /\ Step(h, "first")
           \/ (found \/ work[w].kind = "assignment") /\ Step(h, "refused")

Statuses(kind) == IF kind = "task" THEN {"SUBMITTED", "LATE"} ELSE {"SUBMITTED", "EXTENDED"}

\* (mutant) TaskSubmission without its unique index.
NoIndex(w, s) == TRUE

\* The unique index of TaskSubmission; Submission has none.
Unique(w, s) == work[w].kind = "task" => Answers(w, s) = {}

\* (mutant) An answer may refer to a work that was deleted.
AnyWork(w) == TRUE

\* The foreign key to Assignment or Task.
WorkKey(w) == Open(w)

StoreAnswer(h) ==
    LET w == hand[h].work
    IN  /\ hand[h].pc = "first"
        /\ IF WorkKey(w) /\ Unique(w, hand[h].student)
           THEN \E status \in Statuses(work[w].kind) :
                  hand' = [i \in Hands |->
                    IF i = h THEN [hand[h] EXCEPT !.pc = "stored", !.status = status]
                    ELSE IF hand[i].pc = "first"
                    THEN [hand[i] EXCEPT !.missed = hand[i].missed \cup {h}]
                    ELSE hand[i]]
           ELSE hand' = [hand EXCEPT ![h].pc = "refused"]
        /\ UNCHANGED <<work, draft, enrollmentVars>>

\* gradeSubmission and reviewTaskSubmission of a row that is there.
Grade(h) ==
    /\ Spend("grade")
    /\ hand[h].pc = "stored"
    /\ hand' = [hand EXCEPT ![h].status =
                  IF work[hand[h].work].kind = "task" THEN "REVIEWED" ELSE "GRADED"]
    /\ UNCHANGED <<work, draft, student, subject, enrolled, job, settled, raced>>

CourseworkStep ==
    \/ \E w \in Works, x \in Subjects, kind \in {"assignment", "task"} : DraftWork(w, x, kind)
    \/ \E d \in draft : CreateWork(d)
    \/ \E w \in Works : DeleteWork(w)
    \/ \E h \in Hands, w \in Works, s \in Students : HandIn(h, w, s)
    \/ \E h \in Hands : CheckEnrolled(h) \/ LookForAnswer(h) \/ StoreAnswer(h) \/ Grade(h)

-----------------------------------------------------------------------------
(* Properties *)

\* "You have already submitted this assignment": a student has two answers to one
\* work only when it is an assignment and the one was stored after the other was
\* looked for; two forms that are not sent at once leave one answer, and a task
\* has one however they are sent.
DuplicatesAreRaces ==
    \A w \in Works, s \in Students : \A h, i \in Answers(w, s) :
        h # i => /\ work[w].kind = "assignment"
                 /\ h \in hand[i].missed \/ i \in hand[h].missed
=============================================================================
