---------------------------- MODULE TeachingProofs ----------------------------
(***************************************************************************)
(* Proofs about Teaching.  Enrollment, coursework and the timetable keep   *)
(* an inductive invariant each; what the three share is that a subject     *)
(* once live is gone only by DropSubject, which all three take together.   *)
(***************************************************************************)
EXTENDS Teaching, TLAPS

-----------------------------------------------------------------------------
(* The inductive invariant of enrollment *)

Present(s) == student[s].status \in {"active", "disabled"}
Created(x) == subject[x].state # "none"
Admitted(s) == student[s].status # "none"
Known(s) == student[s].status = "deleted" => s \in raced

\* Request j may insert or delete the pair of x and s.
About(j, x, s) == IF j.op \in Moves \cup {"admit"} THEN j.student = s ELSE j.subject = x

\* A request in progress is about rows that were made before it began, and one
\* that holds a student who is deleted by now is a race that was recorded.
RequestOK(j) ==
    /\ j.op = "none" => j.student = Nobody /\ j.subject = Nobody /\ j.pairs = {} /\ j.clean = {}
                          /\ j.pc = "idle"
    /\ j.op \in {"create", "revise", "override"} =>
         /\ j.subject \in Subjects /\ Created(j.subject) /\ j.student = Nobody
         /\ j.pc \in {"read", "write"} /\ (j.op = "override" => j.pc = "write")
    /\ j.op \in Moves \cup {"admit"} =>
         /\ j.student \in Students /\ Admitted(j.student) /\ Known(j.student)
         /\ j.place \in Places /\ j.subject = Nobody
         /\ j.pc # "idle" /\ (j.op = "admit" => j.pc \in {"read", "write"})
    /\ \A p \in j.pairs : About(j, p[1], p[2]) /\ Created(p[1]) /\ Admitted(p[2]) /\ Known(p[2])
    /\ \A p \in j.olds : About(j, p[1], p[2])

Requests == \A r \in Staff : RequestOK(job[r])

RowsOK ==
    /\ \A s \in Students : Admitted(s) => student[s].place \in Places
    /\ \A p \in enrolled : Live(p[1]) /\ Admitted(p[2]) /\ Known(p[2])

Clean(r, x, s) == <<x, s>> \in job[r].clean
Holds(r, x, s) == About(job[r], x, s)
Agrees(x, s) == Matches(subject[x].audience, student[s].place)

\* The requests about a pair are all clean or none is; beside a clean one there
\* is none that removes, and none removes a pair that is settled.
Undisturbed(x, s) ==
    /\ \A q \in Staff : Clean(q, x, s) => Holds(q, x, s) /\ job[q].op # "override"
    /\ \A q, r \in Staff :
         Holds(q, x, s) /\ Holds(r, x, s) /\ Clean(r, x, s) =>
            Clean(q, x, s) /\ (q # r => ~Removes(job[q]))
    /\ \A q \in Staff :
         <<x, s>> \in settled /\ Holds(q, x, s) => Clean(q, x, s) /\ ~Removes(job[q])

\* What a clean request read of the pair is still so.
Fresh(r, x, s) ==
    Clean(r, x, s) =>
      /\ job[r].op \in {"create", "revise"} => job[r].place = subject[x].audience
      /\ job[r].op \in Moves \cup {"admit"} /\ job[r].pc # "update"
            => job[r].place = student[s].place
      /\ job[r].op = "revise" /\ job[r].pc = "write" /\ Present(s)
            => (<<x, s>> \in job[r].pairs <=> Agrees(x, s))
      /\ job[r].op \in Moves /\ job[r].pc \in {"existing", "write"} /\ Live(x)
            => (<<x, s>> \in job[r].pairs <=> Agrees(x, s))
      /\ job[r].op \in Moves /\ job[r].pc \in {"subjects", "write"} /\ <<x, s>> \in enrolled
            => <<x, s>> \in job[r].olds

\* The pair is settled, or a clean request that only inserts is about it.
Watched(x, s) ==
    <<x, s>> \in settled \/ \E q \in Staff : Clean(q, x, s) /\ ~Removes(job[q])

\* Request r has yet to read or holds the pair.
Coming(r, x, s) == Holds(r, x, s) /\ (job[r].pc = "read" \/ <<x, s>> \in job[r].pairs)

\* A watched pair is enrolled only if it agrees, nothing will enroll it against
\* the rule, and if it agrees it is enrolled or will be.
Guarded(x, s) ==
    Watched(x, s) /\ Live(x) /\ Present(s) =>
      /\ <<x, s>> \in enrolled => Agrees(x, s)
      /\ \A q \in Staff : <<x, s>> \in job[q].pairs => Agrees(x, s)
      /\ Agrees(x, s) => <<x, s>> \in enrolled \/ \E q \in Staff : Coming(q, x, s)

PairOK(x, s) == Undisturbed(x, s) /\ (\A r \in Staff : Fresh(r, x, s)) /\ Guarded(x, s)

RowInv == EnrollmentTypeOK /\ Requests /\ RowsOK
EnrollmentInv == RowInv /\ \A x \in Subjects, s \in Students : PairOK(x, s)

-----------------------------------------------------------------------------
(* Types of enrollment *)

\* Requests that differ in what they have clean at most.
Kept(k, j) ==
    /\ k.op = j.op /\ k.pc = j.pc /\ k.student = j.student /\ k.subject = j.subject
    /\ k.place = j.place /\ k.pairs = j.pairs /\ k.olds = j.olds

LEMMA NoJobType == NoJob \in Jobs
BY DEF Jobs, NoJob

LEMMA Recleaned ==
  ASSUME NEW j \in Jobs, NEW c \in SUBSET Pairs, NEW k, k = [j EXCEPT !.clean = c]
  PROVE  k \in Jobs /\ Kept(k, j) /\ k.clean = c
BY DEF Jobs, Kept

LEMMA ConcernType ==
  ASSUME NEW j \in Jobs, j.op \in Moves \cup {"admit"} => j.student \in Students,
         j.op \notin Moves \cup {"admit"} => j.subject \in Subjects
  PROVE  Concern(j) \subseteq Pairs
BY DEF Concern, Pairs

\* A request that begins only takes away from what the others have clean.
LEMMA BeginJobs ==
  ASSUME job \in [Staff -> Jobs], settled \subseteq Pairs, NEW r \in Staff, NEW j \in Jobs,
         Concern(j) \subseteq Pairs, Begin(r, j)
  PROVE  /\ job' \in [Staff -> Jobs] /\ settled' \subseteq Pairs
         /\ job[r].op = "none"
         /\ Kept(job'[r], j)
         /\ \A q \in Staff \ {r} : Kept(job'[q], job[q]) /\ job'[q].clean \subseteq job[q].clean
<1>1. job'[r] \in Jobs /\ Kept(job'[r], j)
  <2>1. PICK c \in SUBSET Pairs : job'[r] = [j EXCEPT !.clean = c]
    BY DEF Begin
  <2> QED BY <2>1, Recleaned
<1>2. ASSUME NEW q \in Staff \ {r}
      PROVE  job'[q] \in Jobs /\ Kept(job'[q], job[q]) /\ job'[q].clean \subseteq job[q].clean
  <2> DEFINE c == job[q].clean \ Disturbed(j, job[q])
  <2>1. job'[q] = [job[q] EXCEPT !.clean = c]
    BY DEF Begin
  <2>2. job[q] \in Jobs /\ c \in SUBSET Pairs /\ c \subseteq job[q].clean
    BY DEF Jobs
  <2> HIDE DEF c
  <2>3. job'[q] \in Jobs /\ Kept(job'[q], job[q]) /\ job'[q].clean = c
    BY <2>1, <2>2, Recleaned
  <2> QED BY <2>2, <2>3
<1>3. job' = [q \in Staff |-> job'[q]]
  BY DEF Begin
<1>4. settled' \subseteq Pairs /\ job[r].op = "none"
  BY DEF Begin, Idle
<1> QED BY <1>1, <1>2, <1>3, <1>4

\* So does one that ends with an error.
LEMMA AbortJobs ==
  ASSUME job \in [Staff -> Jobs], settled \subseteq Pairs, NEW r \in Staff, Abort(r)
  PROVE  /\ job' \in [Staff -> Jobs] /\ settled' \subseteq Pairs
         /\ job'[r] = NoJob
         /\ \A q \in Staff \ {r} : Kept(job'[q], job[q]) /\ job'[q].clean \subseteq job[q].clean
<1>1. job'[r] = NoJob /\ NoJob \in Jobs
  BY NoJobType DEF Abort
<1>2. ASSUME NEW q \in Staff \ {r}
      PROVE  job'[q] \in Jobs /\ Kept(job'[q], job[q]) /\ job'[q].clean \subseteq job[q].clean
  <2> DEFINE c == job[q].clean \ Concern(job[r])
  <2>1. job'[q] = [job[q] EXCEPT !.clean = c]
    BY DEF Abort
  <2>2. job[q] \in Jobs /\ c \in SUBSET Pairs /\ c \subseteq job[q].clean
    BY DEF Jobs
  <2> HIDE DEF c
  <2>3. job'[q] \in Jobs /\ Kept(job'[q], job[q]) /\ job'[q].clean = c
    BY <2>1, <2>2, Recleaned
  <2> QED BY <2>2, <2>3
<1>3. job' = [q \in Staff |-> job'[q]]
  BY DEF Abort
<1> QED BY <1>1, <1>2, <1>3 DEF Abort

\* So does the read of the students.
LEMMA ReadStudentsJobs ==
  ASSUME job \in [Staff -> Jobs], settled \subseteq Pairs, NEW r \in Staff, ReadStudents(r),
         job[r].subject \in Subjects
  PROVE  /\ job' \in [Staff -> Jobs] /\ settled' \subseteq Pairs
         /\ Fitting(job[r].place) = {} => job'[r] = NoJob
         /\ Fitting(job[r].place) # {} =>
              /\ job'[r].op = job[r].op /\ job'[r].student = job[r].student
              /\ job'[r].subject = job[r].subject /\ job'[r].place = job[r].place
              /\ job'[r].olds = job[r].olds /\ job'[r].pc = "write"
              /\ job'[r].pairs = {job[r].subject} \X Fitting(job[r].place)
              /\ job'[r].clean \subseteq job[r].clean
         /\ \A q \in Staff \ {r} : Kept(job'[q], job[q]) /\ job'[q].clean \subseteq job[q].clean
<1> DEFINE skip == {job[r].subject} \X {s \in Students : student[s].status = "disabled"
                                                  /\ Matches(job[r].place, student[s].place)}
           left == [q \in Staff |-> [job[q] EXCEPT !.clean = job[q].clean \ skip]]
           new  == {job[r].subject} \X Fitting(job[r].place)
<1>1. ASSUME NEW q \in Staff
      PROVE  /\ left[q] \in Jobs /\ Kept(left[q], job[q]) /\ left[q].clean \subseteq job[q].clean
  <2> DEFINE c == job[q].clean \ skip
  <2>1. left[q] = [job[q] EXCEPT !.clean = c]
    OBVIOUS
  <2>2. job[q] \in Jobs /\ c \in SUBSET Pairs /\ c \subseteq job[q].clean
    BY DEF Jobs
  <2> HIDE DEF c, left
  <2>3. left[q] \in Jobs /\ Kept(left[q], job[q]) /\ left[q].clean = c
    BY <2>1, <2>2, Recleaned
  <2> QED BY <2>2, <2>3
<1>2. settled' \subseteq Pairs
  BY DEF ReadStudents, Jobs
<1>3. IF Fitting(job[r].place) = {} THEN job' = [left EXCEPT ![r] = NoJob]
      ELSE job' = [left EXCEPT ![r].pc = "write", ![r].pairs = new]
  BY DEF ReadStudents
<1>4. new \in SUBSET Pairs
  BY DEF Fitting, Pairs
<1>5. left \in [Staff -> Jobs]
  <2>1. left = [q \in Staff |-> left[q]]
    OBVIOUS
  <2> HIDE DEF left
  <2> QED BY <1>1, <2>1
<1> HIDE DEF left, new, skip
<1>6. CASE Fitting(job[r].place) = {}
  BY <1>1, <1>2, <1>3, <1>5, <1>6, NoJobType
<1>7. CASE Fitting(job[r].place) # {}
  <2>1. /\ job'[r] = [left[r] EXCEPT !.pc = "write", !.pairs = new]
        /\ \A q \in Staff \ {r} : job'[q] = left[q]
        /\ job' = [q \in Staff |-> job'[q]]
    BY <1>3, <1>5, <1>7
  <2>2. /\ job'[r] \in Jobs /\ job'[r].clean = left[r].clean
        /\ job'[r].op = job[r].op /\ job'[r].student = job[r].student
        /\ job'[r].subject = job[r].subject /\ job'[r].place = job[r].place
        /\ job'[r].olds = job[r].olds /\ job'[r].pc = "write" /\ job'[r].pairs = new
    <3>1. left[r] \in Jobs /\ Kept(left[r], job[r])
      BY <1>1
    <3>2. /\ job'[r] \in Jobs /\ job'[r].clean = left[r].clean
          /\ job'[r].op = left[r].op /\ job'[r].student = left[r].student
          /\ job'[r].subject = left[r].subject /\ job'[r].place = left[r].place
          /\ job'[r].olds = left[r].olds /\ job'[r].pc = "write" /\ job'[r].pairs = new
      BY <1>4, <2>1, <3>1 DEF Jobs
    <3> QED BY <3>1, <3>2 DEF Kept
  <2>3. job' \in [Staff -> Jobs]
    BY <1>1, <2>1, <2>2
  <2>4. job'[r].clean \subseteq job[r].clean
    BY <1>1, <2>2
  <2>5. \A q \in Staff \ {r} : Kept(job'[q], job[q]) /\ job'[q].clean \subseteq job[q].clean
    BY <1>1, <2>1
  <2> QED BY <1>2, <1>7, <2>2, <2>3, <2>4, <2>5 DEF new
<1> QED BY <1>6, <1>7

-----------------------------------------------------------------------------
(* Rows and requests *)

\* Rows are not unmade, and no student is deleted unrecorded.
Grown ==
    /\ \A x \in Subjects : Created(x) => Created(x)'
    /\ \A s \in Students : Admitted(s) => Admitted(s)' /\ (Known(s) => Known(s)')

LEMMA KeptRequest ==
  ASSUME NEW q \in Staff, job[q] \in Jobs, RequestOK(job[q]), Grown,
         Kept(job'[q], job[q]), job'[q].clean \subseteq job[q].clean
  PROVE  RequestOK(job[q])'
<1>1. job[q].pairs \subseteq Subjects \X Students
  BY DEF Jobs, Pairs
<1>2. \A p \in job'[q].pairs :
        About(job'[q], p[1], p[2]) /\ Created(p[1])' /\ Admitted(p[2])' /\ Known(p[2])'
  BY <1>1 DEF RequestOK, Kept, About, Grown
<1>3. job'[q].op \in Moves \cup {"admit"} =>
         /\ job'[q].student \in Students /\ Admitted(job[q].student)' /\ Known(job[q].student)'
         /\ job'[q].place \in Places /\ job'[q].subject = Nobody
         /\ job'[q].pc # "idle" /\ (job'[q].op = "admit" => job'[q].pc \in {"read", "write"})
  BY DEF RequestOK, Kept, Grown
<1>4. job'[q].op \in {"create", "revise", "override"} =>
         /\ job'[q].subject \in Subjects /\ Created(job[q].subject)' /\ job'[q].student = Nobody
         /\ job'[q].pc \in {"read", "write"} /\ (job'[q].op = "override" => job'[q].pc = "write")
  BY DEF RequestOK, Kept, Grown
<1>5. job'[q].op = "none" =>
         /\ job'[q].student = Nobody /\ job'[q].subject = Nobody /\ job'[q].pairs = {}
         /\ job'[q].clean = {} /\ job'[q].pc = "idle"
  BY DEF RequestOK, Kept
<1>6. /\ \A p \in job'[q].pairs : About(job[q], p[1], p[2])'
      /\ \A p \in job'[q].olds : About(job[q], p[1], p[2])'
  BY <1>2 DEF About, RequestOK, Kept
<1> QED BY <1>2, <1>3, <1>4, <1>5, <1>6 DEF RequestOK

LEMMA OtherRequests ==
  ASSUME job \in [Staff -> Jobs], Requests, Grown, NEW r \in Staff, RequestOK(job[r])',
         \A q \in Staff \ {r} : Kept(job'[q], job[q]) /\ job'[q].clean \subseteq job[q].clean
  PROVE  Requests'
BY KeptRequest DEF Requests

LEMMA NoRequest == RequestOK(NoJob)
BY DEF RequestOK, NoJob, Moves

LEMMA SameRows ==
  ASSUME UNCHANGED <<student, subject, raced>>
  PROVE  Grown /\ (RowsOK /\ enrolled' = enrolled => RowsOK')
BY DEF Grown, Created, Admitted, Known, RowsOK, Live

LEMMA AbortRows ==
  ASSUME RowInv, NEW r \in Staff, Abort(r), budget' \in [Events -> Nat]
  PROVE  RowInv'
<1>1. UNCHANGED <<student, subject, enrolled, raced>>
  BY DEF Abort
<1>2. Grown /\ RowsOK'
  BY <1>1, SameRows DEF RowInv
<1>3. /\ job' \in [Staff -> Jobs] /\ settled' \subseteq Pairs /\ job'[r] = NoJob
      /\ \A q \in Staff \ {r} : Kept(job'[q], job[q]) /\ job'[q].clean \subseteq job[q].clean
  BY AbortJobs DEF RowInv, EnrollmentTypeOK
<1>4. RequestOK(job[r])'
  BY <1>3 DEF RequestOK, NoJob, Moves
<1>5. Requests'
  BY <1>2, <1>3, <1>4, OtherRequests DEF RowInv, EnrollmentTypeOK
<1>6. EnrollmentTypeOK'
  BY <1>1, <1>3 DEF RowInv, EnrollmentTypeOK
<1> QED BY <1>2, <1>5, <1>6 DEF RowInv

LEMMA SpendType ==
  ASSUME budget \in [Events -> Nat], NEW what \in Events, Spend(what)
  PROVE  budget' \in [Events -> Nat]
BY DEF Spend

\* A request that begins, about rows that were made by then.
LEMMA BeginRows ==
  ASSUME RowInv, NEW r \in Staff, NEW j \in Jobs, j.op # "none", Begin(r, j),
         j.op \in Moves \cup {"admit"} => j.student \in Students,
         j.op \notin Moves \cup {"admit"} => j.subject \in Subjects,
         Grown, RequestOK(j)'
  PROVE  job' \in [Staff -> Jobs] /\ settled' \subseteq Pairs /\ Requests'
<1>1. Concern(j) \subseteq Pairs
  BY ConcernType
<1>2. /\ job' \in [Staff -> Jobs] /\ settled' \subseteq Pairs /\ Kept(job'[r], j)
      /\ \A q \in Staff \ {r} : Kept(job'[q], job[q]) /\ job'[q].clean \subseteq job[q].clean
  BY <1>1, BeginJobs DEF RowInv, EnrollmentTypeOK
<1>3. RequestOK(job[r])'
  BY <1>2 DEF RequestOK, Kept, About
<1> QED BY <1>2, <1>3, OtherRequests DEF RowInv, EnrollmentTypeOK

LEMMA CreateSubjectRows ==
  ASSUME RowInv, NEW r \in Staff, NEW x \in Subjects, NEW a \in Audiences,
         NEW t \in Teachers \cup {Nobody}, CreateSubject(r, x, a, t)
  PROVE  RowInv'
<1> DEFINE j == [NoJob EXCEPT !.op = "create", !.pc = "read", !.subject = x, !.place = a]
<1>1. /\ j \in Jobs /\ j.op = "create" /\ j.pc = "read" /\ j.subject = x /\ j.student = Nobody
      /\ j.pairs = {} /\ j.olds = {}
  BY DEF Jobs, NoJob
<1>2. /\ subject' = [subject EXCEPT ![x] = [state |-> "live", audience |-> a, holder |-> t]]
      /\ subject[x].state = "none" /\ Begin(r, j) /\ UNCHANGED <<student, enrolled, raced>>
      /\ Spend("subject")
  BY DEF CreateSubject
<1>3. budget' \in [Events -> Nat]
  BY <1>2, SpendType DEF RowInv, EnrollmentTypeOK, Events
<1>4. subject' \in [Subjects -> [state : {"none", "live", "gone"},
                                 audience : Audiences \cup {NoPlace},
                                 holder : Teachers \cup {Nobody}]]
  BY <1>2 DEF RowInv, EnrollmentTypeOK
<1>5. Grown /\ \A y \in Subjects : Live(y) => Live(y)'
  BY <1>2 DEF RowInv, EnrollmentTypeOK, Grown, Created, Admitted, Known, Live
<1>6. RowsOK'
  BY <1>2, <1>5 DEF RowInv, EnrollmentTypeOK, RowsOK, Admitted, Known, Pairs
<1>7. RequestOK(j)'
  <2>1. Created(x)'
    BY <1>2 DEF Created, RowInv, EnrollmentTypeOK
  <2> HIDE DEF j
  <2> QED BY <1>1, <2>1 DEF RequestOK, Moves
<1>8. job' \in [Staff -> Jobs] /\ settled' \subseteq Pairs /\ Requests'
  <2> HIDE DEF j
  <2> QED BY <1>1, <1>2, <1>5, <1>7, BeginRows DEF Moves
<1> QED BY <1>2, <1>3, <1>4, <1>6, <1>8 DEF RowInv, EnrollmentTypeOK

LEMMA UpdateSubjectRows ==
  ASSUME RowInv, NEW r \in Staff, NEW x \in Subjects, NEW a \in Audiences, UpdateSubject(r, x, a)
  PROVE  RowInv'
<1> DEFINE j == [NoJob EXCEPT !.op = "revise", !.pc = "read", !.subject = x, !.place = a]
<1>1. /\ j \in Jobs /\ j.op = "revise" /\ j.pc = "read" /\ j.subject = x /\ j.student = Nobody
      /\ j.pairs = {} /\ j.olds = {}
  BY DEF Jobs, NoJob
<1>2. /\ subject' = [subject EXCEPT ![x].audience = a]
      /\ Live(x) /\ Begin(r, j) /\ UNCHANGED <<student, enrolled, raced>>
      /\ Spend("revise")
  BY DEF UpdateSubject
<1>3. budget' \in [Events -> Nat]
  BY <1>2, SpendType DEF RowInv, EnrollmentTypeOK, Events
<1>4. subject' \in [Subjects -> [state : {"none", "live", "gone"},
                                 audience : Audiences \cup {NoPlace},
                                 holder : Teachers \cup {Nobody}]]
  BY <1>2 DEF RowInv, EnrollmentTypeOK
<1>5. Grown /\ \A y \in Subjects : Live(y) => Live(y)'
  BY <1>2 DEF RowInv, EnrollmentTypeOK, Grown, Created, Admitted, Known, Live
<1>6. RowsOK'
  BY <1>2, <1>5 DEF RowInv, EnrollmentTypeOK, RowsOK, Admitted, Known, Pairs
<1>7. RequestOK(j)'
  <2>1. Created(x)'
    BY <1>2, <1>5 DEF Created, Live, Grown
  <2> HIDE DEF j
  <2> QED BY <1>1, <2>1 DEF RequestOK, Moves
<1>8. job' \in [Staff -> Jobs] /\ settled' \subseteq Pairs /\ Requests'
  <2> HIDE DEF j
  <2> QED BY <1>1, <1>2, <1>5, <1>7, BeginRows DEF Moves
<1> QED BY <1>2, <1>3, <1>4, <1>6, <1>8 DEF RowInv, EnrollmentTypeOK

LEMMA OverrideRows ==
  ASSUME RowInv, NEW r \in Staff, NEW x \in Subjects, NEW list \in SUBSET Students,
         UpdateSubjectEnrollments(r, x, list)
  PROVE  RowInv'
<1> DEFINE j == [NoJob EXCEPT !.op = "override", !.pc = "write", !.subject = x,
                              !.pairs = {x} \X list]
<1>1. /\ j \in Jobs /\ j.op = "override" /\ j.pc = "write" /\ j.subject = x /\ j.student = Nobody
      /\ j.pairs = {x} \X list /\ j.olds = {}
  BY DEF Jobs, NoJob, Pairs
<1>2. /\ Live(x) /\ (\A s \in list : Attending(s)) /\ Begin(r, j)
      /\ UNCHANGED <<student, subject, enrolled, raced>> /\ Spend("override")
  BY DEF UpdateSubjectEnrollments
<1>3. budget' \in [Events -> Nat]
  BY <1>2, SpendType DEF RowInv, EnrollmentTypeOK, Events
<1>4. Grown /\ RowsOK'
  BY <1>2, SameRows DEF RowInv
<1>5. RequestOK(j)'
  <2>1. Created(x)' /\ \A s \in list : Admitted(s)' /\ Known(s)'
    BY <1>2 DEF Created, Live, Admitted, Known, Attending
  <2> HIDE DEF j
  <2>2. \A p \in j.pairs : About(j, p[1], p[2]) /\ Created(p[1])' /\ Admitted(p[2])' /\ Known(p[2])'
    BY <1>1, <2>1 DEF About, Moves
  <2> QED BY <1>1, <2>1, <2>2 DEF RequestOK, Moves
<1>6. job' \in [Staff -> Jobs] /\ settled' \subseteq Pairs /\ Requests'
  <2> HIDE DEF j
  <2> QED BY <1>1, <1>2, <1>4, <1>5, BeginRows DEF Moves
<1> QED BY <1>2, <1>3, <1>4, <1>6 DEF RowInv, EnrollmentTypeOK

LEMMA AdmitStudentRows ==
  ASSUME RowInv, NEW r \in Staff, NEW s \in Students, NEW p \in Places, AdmitStudent(r, s, p)
  PROVE  RowInv'
<1> DEFINE j == [NoJob EXCEPT !.op = "admit", !.pc = "read", !.student = s, !.place = p]
<1>1. /\ j \in Jobs /\ j.op = "admit" /\ j.pc = "read" /\ j.student = s /\ j.subject = Nobody
      /\ j.pairs = {} /\ j.olds = {} /\ j.place = p
  BY DEF Jobs, NoJob
<1>2. /\ student' = [student EXCEPT ![s] = [status |-> "active", place |-> p]]
      /\ student[s].status = "none" /\ Begin(r, j) /\ UNCHANGED <<subject, enrolled, raced>>
      /\ Spend("admit")
  BY DEF AdmitStudent
<1>3. budget' \in [Events -> Nat]
  BY <1>2, SpendType DEF RowInv, EnrollmentTypeOK, Events
<1>4. student' \in [Students -> [status : {"none", "active", "disabled", "deleted"},
                                 place : Places \cup {NoPlace}]]
  BY <1>2 DEF RowInv, EnrollmentTypeOK
<1>5. Grown
  BY <1>2 DEF RowInv, EnrollmentTypeOK, Grown, Created, Admitted, Known
<1>6. RowsOK'
  <2>1. \A y \in Students : Admitted(y)' => student'[y].place \in Places
    BY <1>2 DEF RowInv, EnrollmentTypeOK, RowsOK, Admitted
  <2>2. \A y \in Subjects : Live(y) => Live(y)'
    BY <1>2 DEF Live
  <2> QED BY <1>2, <1>5, <2>1, <2>2 DEF RowInv, EnrollmentTypeOK, RowsOK, Pairs, Grown
<1>7. RequestOK(j)'
  <2>1. Admitted(s)' /\ Known(s)'
    BY <1>2 DEF Admitted, Known, RowInv, EnrollmentTypeOK
  <2> HIDE DEF j
  <2> QED BY <1>1, <2>1 DEF RequestOK, Moves
<1>8. job' \in [Staff -> Jobs] /\ settled' \subseteq Pairs /\ Requests'
  <2> HIDE DEF j
  <2> QED BY <1>1, <1>2, <1>5, <1>7, BeginRows DEF Moves
<1> QED BY <1>2, <1>3, <1>4, <1>6, <1>8 DEF RowInv, EnrollmentTypeOK

LEMMA MoveStudentRows ==
  ASSUME RowInv, NEW r \in Staff, NEW s \in Students, NEW op \in Moves, NEW p \in Places,
         MoveStudent(r, s, op, p)
  PROVE  RowInv'
<1> DEFINE j == [NoJob EXCEPT !.op = op, !.pc = "update", !.student = s, !.place = p]
<1>1. /\ j \in Jobs /\ j.op = op /\ j.pc = "update" /\ j.student = s /\ j.subject = Nobody
      /\ j.pairs = {} /\ j.olds = {} /\ j.place = p
  BY DEF Jobs, NoJob
<1>2. /\ student[s].status \in {"active", "disabled"} /\ Begin(r, j)
      /\ UNCHANGED <<student, subject, enrolled, raced>> /\ Spend("move")
  BY DEF MoveStudent
<1>3. budget' \in [Events -> Nat]
  BY <1>2, SpendType DEF RowInv, EnrollmentTypeOK, Events
<1>4. Grown /\ RowsOK'
  BY <1>2, SameRows DEF RowInv
<1>5. RequestOK(j)'
  <2>1. Admitted(s)' /\ Known(s)'
    BY <1>2 DEF Admitted, Known
  <2> HIDE DEF j
  <2> QED BY <1>1, <2>1 DEF RequestOK, Moves
<1>6. job' \in [Staff -> Jobs] /\ settled' \subseteq Pairs /\ Requests'
  <2> HIDE DEF j
  <2> QED BY <1>1, <1>2, <1>4, <1>5, BeginRows DEF Moves
<1> QED BY <1>2, <1>3, <1>4, <1>6 DEF RowInv, EnrollmentTypeOK

LEMMA FailRows ==
  ASSUME RowInv, NEW r \in Staff, Fail(r)
  PROVE  RowInv'
BY AbortRows, SpendType DEF Fail, RowInv, EnrollmentTypeOK, Events

\* One request moves on, and the rows stay.
LEMMA StepRows ==
  ASSUME RowInv, NEW r \in Staff, job' \in [Staff -> Jobs], RequestOK(job[r])',
         \A q \in Staff \ {r} : Kept(job'[q], job[q]) /\ job'[q].clean \subseteq job[q].clean,
         UNCHANGED <<student, subject, enrolled, raced, budget>>, settled' \subseteq Pairs
  PROVE  RowInv'
<1>1. Grown /\ RowsOK'
  BY SameRows DEF RowInv
<1> QED BY <1>1, OtherRequests DEF RowInv, EnrollmentTypeOK

LEMMA ReadStudentsRows ==
  ASSUME RowInv, NEW r \in Staff, ReadStudents(r)
  PROVE  RowInv'
<1>1. job[r].subject \in Subjects /\ job[r].op \in {"create", "revise"} /\ RequestOK(job[r])
      /\ UNCHANGED <<student, subject, enrolled, raced, budget>> /\ job[r] \in Jobs
  BY DEF RowInv, EnrollmentTypeOK, Requests, RequestOK, ReadStudents
<1>2. CASE Fitting(job[r].place) = {}
  <2>1. job'[r] = NoJob
    BY <1>1, <1>2, ReadStudentsJobs DEF RowInv, EnrollmentTypeOK
  <2>2. RequestOK(job[r])'
    BY <2>1 DEF RequestOK, NoJob, Moves
  <2> QED BY <1>1, <2>2, ReadStudentsJobs, StepRows DEF RowInv, EnrollmentTypeOK
<1>3. CASE Fitting(job[r].place) # {}
  <2>1. /\ job'[r].op = job[r].op /\ job'[r].subject = job[r].subject
        /\ job'[r].student = job[r].student /\ job'[r].pc = "write"
        /\ job'[r].olds = job[r].olds
        /\ job'[r].pairs = {job[r].subject} \X Fitting(job[r].place)
    BY <1>1, <1>3, ReadStudentsJobs DEF RowInv, EnrollmentTypeOK
  <2>2. \A s \in Fitting(job[r].place) : Admitted(s)' /\ Known(s)'
    BY <1>1 DEF Fitting, Attending, Admitted, Known
  <2>3. Created(job[r].subject)' /\ job[r].student = Nobody
    BY <1>1, <2>1 DEF RequestOK, Created
  <2>4. \A p \in job'[r].pairs :
           About(job[r], p[1], p[2])' /\ Created(p[1])' /\ Admitted(p[2])' /\ Known(p[2])'
    BY <1>1, <2>1, <2>2, <2>3 DEF About, Moves
  <2>5. \A p \in job'[r].olds : About(job[r], p[1], p[2])'
    BY <1>1, <2>1 DEF RequestOK, About
  <2>6. RequestOK(job[r])'
    BY <1>1, <2>1, <2>3, <2>4, <2>5 DEF RequestOK, Moves
  <2> QED BY <1>1, <2>6, ReadStudentsJobs, StepRows DEF RowInv, EnrollmentTypeOK
<1> QED BY <1>2, <1>3

\* What a request reads of the subjects is about subjects that are there.
LEMMA OfferedRows ==
  ASSUME NEW j \in Jobs, j.student \in Students, Admitted(j.student), Known(j.student)
  PROVE  /\ Offered(j) \in SUBSET Pairs
         /\ \A p \in Offered(j) : p[2] = j.student /\ Created(p[1]) /\ Admitted(p[2]) /\ Known(p[2])
BY DEF Offered, Pairs, Live, Created

LEMMA ReadSubjectsRows ==
  ASSUME RowInv, NEW r \in Staff, ReadSubjects(r)
  PROVE  RowInv'
<1>1. /\ job[r] \in Jobs /\ RequestOK(job[r]) /\ job[r].op = "admit" /\ job[r].clean \subseteq Pairs
      /\ UNCHANGED <<student, subject, enrolled, raced, budget>>
      /\ job[r].student \in Students /\ Admitted(job[r].student) /\ Known(job[r].student)
  BY DEF RowInv, EnrollmentTypeOK, Requests, RequestOK, ReadSubjects, Jobs
<1>2. CASE Offered(job[r]) = {}
  <2>1. Finish(r, job[r].clean)
    BY <1>2 DEF ReadSubjects
  <2>2. job'[r] = NoJob /\ job' \in [Staff -> Jobs] /\ settled' \subseteq Pairs
        /\ \A q \in Staff \ {r} : job'[q] = job[q]
    BY <1>1, <2>1, NoJobType DEF Finish, RowInv, EnrollmentTypeOK
  <2>3. RequestOK(job[r])'
    BY <2>2 DEF RequestOK, NoJob, Moves
  <2> QED BY <1>1, <2>2, <2>3, StepRows DEF Kept
<1>3. CASE Offered(job[r]) # {}
  <2>1. /\ job' = [job EXCEPT ![r] = [job[r] EXCEPT !.pc = "write", !.pairs = Offered(job[r])]]
        /\ settled' = settled
    BY <1>3 DEF ReadSubjects
  <2>2. /\ Offered(job[r]) \in SUBSET Pairs
        /\ \A p \in Offered(job[r]) : p[2] = job[r].student /\ Created(p[1]) /\ Admitted(p[2])
                                        /\ Known(p[2])
    BY <1>1, OfferedRows
  <2>3. /\ job'[r] \in Jobs /\ job'[r].pc = "write" /\ job'[r].pairs = Offered(job[r])
        /\ job'[r].op = "admit" /\ job'[r].student = job[r].student
        /\ job'[r].subject = job[r].subject /\ job'[r].place = job[r].place
        /\ job'[r].olds = job[r].olds
    BY <1>1, <2>1, <2>2 DEF RowInv, EnrollmentTypeOK, Jobs
  <2>4. job' \in [Staff -> Jobs] /\ \A q \in Staff \ {r} : job'[q] = job[q]
    BY <2>1, <2>3 DEF RowInv, EnrollmentTypeOK
  <2>5. RequestOK(job[r])'
    BY <1>1, <2>2, <2>3 DEF RequestOK, About, Created, Admitted, Known, Moves
  <2> QED BY <1>1, <2>1, <2>4, <2>5, StepRows DEF Kept, RowInv, EnrollmentTypeOK
<1> QED BY <1>2, <1>3

LEMMA ReadMatchingRows ==
  ASSUME RowInv, NEW r \in Staff, ReadMatching(r)
  PROVE  RowInv'
<1>1. /\ job[r] \in Jobs /\ RequestOK(job[r]) /\ job[r].op \in Moves
      /\ UNCHANGED <<student, subject, enrolled, raced, budget, settled>>
      /\ job[r].student \in Students /\ Admitted(job[r].student) /\ Known(job[r].student)
  BY DEF RowInv, EnrollmentTypeOK, Requests, RequestOK, ReadMatching, Jobs
<1> DEFINE pc == IF job[r].pc = "read" THEN "existing" ELSE "write"
<1>2. job' = [job EXCEPT ![r] = [job[r] EXCEPT !.pairs = Offered(job[r]), !.pc = pc]]
  BY DEF ReadMatching
<1>3. pc \in {"existing", "write"}
  OBVIOUS
<1> HIDE DEF pc
<1>4. /\ Offered(job[r]) \in SUBSET Pairs
      /\ \A p \in Offered(job[r]) : p[2] = job[r].student /\ Created(p[1]) /\ Admitted(p[2])
                                      /\ Known(p[2])
  BY <1>1, OfferedRows
<1>5. /\ job'[r] \in Jobs /\ job'[r].pc = pc /\ job'[r].pairs = Offered(job[r])
      /\ job'[r].op = job[r].op /\ job'[r].student = job[r].student
      /\ job'[r].subject = job[r].subject /\ job'[r].place = job[r].place
      /\ job'[r].olds = job[r].olds
  BY <1>1, <1>2, <1>3, <1>4 DEF RowInv, EnrollmentTypeOK, Jobs
<1>6. job' \in [Staff -> Jobs] /\ \A q \in Staff \ {r} : job'[q] = job[q]
  BY <1>2, <1>5 DEF RowInv, EnrollmentTypeOK
<1>7. RequestOK(job[r])'
  BY <1>1, <1>3, <1>4, <1>5 DEF RequestOK, About, Created, Admitted, Known, Moves
<1> QED BY <1>1, <1>6, <1>7, StepRows DEF Kept, RowInv, EnrollmentTypeOK

LEMMA ReadExistingRows ==
  ASSUME RowInv, NEW r \in Staff, ReadExisting(r)
  PROVE  RowInv'
<1> DEFINE pc == IF job[r].pc = "read" THEN "subjects" ELSE "write"
           found == {p \in enrolled : p[2] = job[r].student}
<1>1. /\ job[r] \in Jobs /\ RequestOK(job[r]) /\ job[r].op \in Moves
      /\ UNCHANGED <<student, subject, enrolled, raced, budget, settled>>
  BY DEF RowInv, EnrollmentTypeOK, Requests, ReadExisting
<1>2. job' = [job EXCEPT ![r] = [job[r] EXCEPT !.olds = found, !.pc = pc]]
  BY DEF ReadExisting
<1>3. pc \in {"subjects", "write"} /\ found \in SUBSET Pairs
      /\ \A p \in found : p[2] = job[r].student
  BY DEF RowInv, EnrollmentTypeOK
<1> HIDE DEF pc, found
<1>4. /\ job'[r] \in Jobs /\ job'[r].pc = pc /\ job'[r].pairs = job[r].pairs /\ job'[r].olds = found
      /\ job'[r].op = job[r].op /\ job'[r].student = job[r].student
      /\ job'[r].subject = job[r].subject /\ job'[r].place = job[r].place
  BY <1>1, <1>2, <1>3 DEF RowInv, EnrollmentTypeOK, Jobs
<1>5. job' \in [Staff -> Jobs] /\ \A q \in Staff \ {r} : job'[q] = job[q]
  BY <1>2, <1>4 DEF RowInv, EnrollmentTypeOK
<1>6. RequestOK(job[r])'
  BY <1>1, <1>3, <1>4 DEF RequestOK, About, Created, Admitted, Known, Moves
<1> QED BY <1>1, <1>5, <1>6, StepRows DEF Kept, RowInv, EnrollmentTypeOK

LEMMA UpdateStudentRows ==
  ASSUME RowInv, NEW r \in Staff, UpdateStudent(r)
  PROVE  RowInv'
<1> DEFINE s == job[r].student
           p == Updated(job[r].op, student[s].place, job[r].place)
<1>1. /\ job[r] \in Jobs /\ RequestOK(job[r]) /\ job[r].pc = "update"
      /\ student' = [student EXCEPT ![s].place = p]
      /\ job' = [job EXCEPT ![r] = [job[r] EXCEPT !.pc = "read", !.place = p]]
      /\ UNCHANGED <<subject, enrolled, settled, raced, budget>>
  BY DEF RowInv, EnrollmentTypeOK, Requests, UpdateStudent
<1>2. job[r].op \in Moves /\ s \in Students /\ Admitted(s) /\ Known(s) /\ job[r].place \in Places
      /\ job[r].subject = Nobody
  BY <1>1 DEF RequestOK, Moves, Jobs
<1>3. p \in Places
  <2>1. student[s].place \in Places
    BY <1>2 DEF RowInv, RowsOK
  <2> QED BY <1>2, <2>1 DEF Updated, Places
<1> HIDE DEF s, p
<1>4. student' \in [Students -> [status : {"none", "active", "disabled", "deleted"},
                                 place : Places \cup {NoPlace}]]
      /\ student'[s].place = p
      /\ \A t \in Students : /\ student'[t].status = student[t].status
                             /\ t # s => student'[t] = student[t]
  BY <1>1, <1>2, <1>3 DEF RowInv, EnrollmentTypeOK
<1>5. Grown
  BY <1>1, <1>4 DEF Grown, Created, Admitted, Known
<1>6. RowsOK'
  BY <1>1, <1>3, <1>4 DEF RowInv, EnrollmentTypeOK, RowsOK, Admitted, Known, Live, Pairs
<1>7. /\ job'[r] \in Jobs /\ job'[r].pc = "read" /\ job'[r].pairs = job[r].pairs
      /\ job'[r].op = job[r].op /\ job'[r].student = job[r].student
      /\ job'[r].subject = job[r].subject /\ job'[r].place = p
      /\ job'[r].olds = job[r].olds
  BY <1>1, <1>3 DEF RowInv, EnrollmentTypeOK, Jobs
<1>8. job' \in [Staff -> Jobs] /\ \A q \in Staff \ {r} : job'[q] = job[q]
  BY <1>1, <1>7 DEF RowInv, EnrollmentTypeOK
<1>9. RequestOK(job[r])'
  <2>1. \A o \in job[r].pairs : o[1] \in Subjects /\ o[2] \in Students
    BY <1>1 DEF Jobs, Pairs
  <2>2. \A o \in job'[r].pairs :
           About(job[r], o[1], o[2])' /\ Created(o[1])' /\ Admitted(o[2])' /\ Known(o[2])'
    BY <1>1, <1>2, <1>5, <1>7, <2>1 DEF RequestOK, About, Grown
  <2>3. Admitted(job[r].student)' /\ Known(job[r].student)' /\ job'[r].student \in Students
    BY <1>2, <1>5, <1>7 DEF Grown, s
  <2>4. \A o \in job'[r].olds : About(job[r], o[1], o[2])'
    BY <1>1, <1>7 DEF RequestOK, About
  <2> QED BY <1>2, <1>3, <1>7, <2>2, <2>3, <2>4 DEF RequestOK, Moves
<1>10. Requests'
  BY <1>5, <1>8, <1>9, OtherRequests DEF Kept, RowInv, EnrollmentTypeOK
<1> QED BY <1>1, <1>4, <1>6, <1>8, <1>10 DEF RowInv, EnrollmentTypeOK

LEMMA WriteRows ==
  ASSUME RowInv, NEW r \in Staff, Write(r)
  PROVE  RowInv'
<1>1. job[r] \in Jobs /\ RequestOK(job[r]) /\ budget' = budget
  BY DEF RowInv, EnrollmentTypeOK, Requests, Write
<1>2. CASE Referenced(job[r])
  <2>1. /\ enrolled' = (enrolled \ Removed(job[r])) \cup job[r].pairs /\ Finish(r, job[r].clean)
        /\ UNCHANGED <<student, subject, raced>>
    BY <1>2 DEF Write
  <2>2. job'[r] = NoJob /\ job' \in [Staff -> Jobs] /\ settled' \subseteq Pairs
        /\ \A q \in Staff \ {r} : job'[q] = job[q]
    BY <1>1, <2>1, NoJobType DEF Finish, RowInv, EnrollmentTypeOK, Jobs
  <2>3. Grown /\ RequestOK(job[r])'
    BY <2>1, <2>2, SameRows DEF RequestOK, NoJob, Moves
  <2>4. Requests'
    BY <2>2, <2>3, OtherRequests DEF Kept, RowInv, EnrollmentTypeOK
  <2>5. \A p \in job[r].pairs : Live(p[1]) /\ Admitted(p[2]) /\ Known(p[2])
    BY <1>1, <1>2 DEF Referenced, RequestOK
  <2>6. RowsOK'
    BY <2>1, <2>5 DEF RowInv, RowsOK, Live, Admitted, Known
  <2>7. enrolled' \subseteq Pairs
    BY <1>1, <2>1 DEF RowInv, EnrollmentTypeOK, Jobs
  <2> QED BY <1>1, <2>1, <2>2, <2>4, <2>6, <2>7 DEF RowInv, EnrollmentTypeOK
<1>3. CASE ~Referenced(job[r])
  <2>1. Abort(r)
    BY <1>3 DEF Write
  <2> QED BY <1>1, <2>1, AbortRows DEF RowInv, EnrollmentTypeOK
<1> QED BY <1>2, <1>3

LEMMA AssignInstructorRows ==
  ASSUME RowInv, NEW x \in Subjects, NEW t \in Teachers, AssignInstructor(x, t)
  PROVE  RowInv'
<1>1. subject' = [subject EXCEPT ![x].holder = t] /\ UNCHANGED <<student, enrolled, job, settled, raced>>
      /\ Spend("assign")
  BY DEF AssignInstructor
<1>2. budget' \in [Events -> Nat]
  BY <1>1, SpendType DEF RowInv, EnrollmentTypeOK, Events
<1>3. subject' \in [Subjects -> [state : {"none", "live", "gone"},
                                 audience : Audiences \cup {NoPlace},
                                 holder : Teachers \cup {Nobody}]]
      /\ \A y \in Subjects : subject'[y].state = subject[y].state
  BY <1>1 DEF RowInv, EnrollmentTypeOK
<1>4. Grown
  BY <1>1, <1>3 DEF Grown, Created, Admitted, Known
<1>5. RowsOK'
  BY <1>1, <1>3 DEF RowInv, EnrollmentTypeOK, RowsOK, Admitted, Known, Live, Pairs
<1>6. Requests'
  BY <1>1, <1>4, KeptRequest DEF Kept, Requests, RowInv, EnrollmentTypeOK
<1> QED BY <1>1, <1>2, <1>3, <1>5, <1>6 DEF RowInv, EnrollmentTypeOK

LEMMA ToggleRows ==
  ASSUME RowInv, NEW s \in Students, ToggleUserStatus(s)
  PROVE  RowInv'
<1>1. /\ student[s].status \in {"active", "disabled"}
      /\ student' = [student EXCEPT ![s].status =
                       IF student[s].status = "active" THEN "disabled" ELSE "active"]
      /\ UNCHANGED <<subject, enrolled, job, settled, raced>> /\ Spend("toggle")
  BY DEF ToggleUserStatus
<1>2. budget' \in [Events -> Nat]
  BY <1>1, SpendType DEF RowInv, EnrollmentTypeOK, Events
<1>3. student' \in [Students -> [status : {"none", "active", "disabled", "deleted"},
                                 place : Places \cup {NoPlace}]]
      /\ \A t \in Students : student'[t].place = student[t].place
                               /\ (t # s => student'[t].status = student[t].status)
      /\ student'[s].status \in {"active", "disabled"}
  BY <1>1 DEF RowInv, EnrollmentTypeOK
<1>4. Grown
  BY <1>1, <1>3 DEF Grown, Created, Admitted, Known
<1>5. RowsOK'
  BY <1>1, <1>3, <1>4 DEF RowInv, EnrollmentTypeOK, RowsOK, Admitted, Known, Live, Pairs
<1>6. Requests'
  BY <1>1, <1>4, KeptRequest DEF Kept, Requests, RowInv, EnrollmentTypeOK
<1> QED BY <1>1, <1>2, <1>3, <1>5, <1>6 DEF RowInv, EnrollmentTypeOK

\* A student who is deleted while held is recorded; nothing of theirs is left.
LEMMA DeleteUserRows ==
  ASSUME RowInv, NEW s \in Students, DeleteUser(s)
  PROVE  RowInv'
<1>1. /\ student[s].status \in {"active", "disabled"}
      /\ student' = [student EXCEPT ![s].status = "deleted"]
      /\ enrolled' = {p \in enrolled : p[2] # s}
      /\ raced' = IF Held(s) THEN raced \cup {s} ELSE raced
      /\ UNCHANGED <<subject, job, settled>> /\ Spend("expel")
  BY DEF DeleteUser
<1>2. budget' \in [Events -> Nat]
  BY <1>1, SpendType DEF RowInv, EnrollmentTypeOK, Events
<1>3. student' \in [Students -> [status : {"none", "active", "disabled", "deleted"},
                                 place : Places \cup {NoPlace}]]
      /\ \A t \in Students : student'[t].place = student[t].place
                               /\ (t # s => student'[t].status = student[t].status)
      /\ student'[s].status = "deleted" /\ raced \subseteq raced' /\ raced' \subseteq Students
  BY <1>1 DEF RowInv, EnrollmentTypeOK
<1>4. \A t \in Students : /\ Admitted(t) => Admitted(t)'
                          /\ t # s => (Known(t) => Known(t)')
  BY <1>3 DEF Admitted, Known
<1>5. RowsOK'
  BY <1>1, <1>3, <1>4 DEF RowInv, EnrollmentTypeOK, RowsOK, Admitted, Live, Pairs
<1>6. ASSUME NEW q \in Staff
      PROVE  RequestOK(job[q])'
  <2>1. /\ job[q] \in Jobs /\ RequestOK(job[q]) /\ job'[q] = job[q]
        /\ \A o \in job[q].pairs : o[1] \in Subjects /\ o[2] \in Students
    BY <1>1 DEF RowInv, EnrollmentTypeOK, Requests, Jobs, Pairs
  <2>2. \A o \in job[q].pairs : Known(o[2])'
    <3>1. \A o \in job[q].pairs : o[2] = s => Known(s)'
      BY <1>1 DEF Held, Known
    <3> QED BY <1>4, <2>1, <3>1 DEF RequestOK
  <2>3. job[q].op \in Moves \cup {"admit"} => Known(job[q].student)'
    <3>1. job[q].student = s => Known(s)'
      BY <1>1 DEF Held, Known
    <3> QED BY <1>4, <2>1, <3>1 DEF RequestOK
  <2>4. \A o \in job'[q].pairs :
           About(job[q], o[1], o[2])' /\ Created(o[1])' /\ Admitted(o[2])' /\ Known(o[2])'
    BY <1>1, <1>4, <2>1, <2>2 DEF RequestOK, About, Created
  <2>5. job'[q].op \in Moves \cup {"admit"} => Admitted(job[q].student)' /\ Known(job[q].student)'
    BY <1>4, <2>1, <2>3 DEF RequestOK
  <2>6. job'[q].op \in {"create", "revise", "override"} => Created(job[q].subject)'
    BY <1>1, <2>1 DEF RequestOK, Created
  <2>7. \A o \in job'[q].olds : About(job[q], o[1], o[2])'
    BY <2>1 DEF RequestOK, About
  <2> QED BY <2>1, <2>4, <2>5, <2>6, <2>7 DEF RequestOK
<1>7. Requests'
  BY <1>6 DEF Requests
<1> QED BY <1>1, <1>2, <1>3, <1>5, <1>7 DEF RowInv, EnrollmentTypeOK

LEMMA DeleteSubjectRows ==
  ASSUME RowInv, NEW x \in Subjects, DeleteSubject(x)
  PROVE  RowInv'
<1>1. /\ subject' = [subject EXCEPT ![x].state = "gone"] /\ Live(x)
      /\ enrolled' = {p \in enrolled : p[1] # x}
      /\ UNCHANGED <<student, job, settled, raced>> /\ Spend("drop")
  BY DEF DeleteSubject
<1>2. budget' \in [Events -> Nat]
  BY <1>1, SpendType DEF RowInv, EnrollmentTypeOK, Events
<1>3. subject' \in [Subjects -> [state : {"none", "live", "gone"},
                                 audience : Audiences \cup {NoPlace},
                                 holder : Teachers \cup {Nobody}]]
      /\ subject'[x].state = "gone"
      /\ \A y \in Subjects : y # x => subject'[y].state = subject[y].state
  BY <1>1 DEF RowInv, EnrollmentTypeOK
<1>4. Grown
  BY <1>1, <1>3 DEF Grown, Created, Admitted, Known
<1>5. RowsOK'
  BY <1>1, <1>3 DEF RowInv, EnrollmentTypeOK, RowsOK, Admitted, Known, Live, Pairs
<1>6. Requests'
  BY <1>1, <1>4, KeptRequest DEF Kept, Requests, RowInv, EnrollmentTypeOK
<1> QED BY <1>1, <1>2, <1>3, <1>5, <1>6 DEF RowInv, EnrollmentTypeOK

-----------------------------------------------------------------------------
(* One pair of a subject and a student *)

LEMMA AboutConcern ==
  ASSUME NEW j, NEW x \in Subjects, NEW s \in Students
  PROVE  <<x, s>> \in Concern(j) <=> About(j, x, s)
BY DEF Concern, About

\* Who holds a pair or has it among the rows to insert is in progress.
LEMMA HoldsOf ==
  ASSUME RowInv, NEW q \in Staff, NEW x \in Subjects, NEW s \in Students
  PROVE  /\ <<x, s>> \in job[q].pairs => Holds(q, x, s)
         /\ <<x, s>> \in job[q].olds => Holds(q, x, s)
         /\ Holds(q, x, s) => job[q].op # "none"
         /\ job[q].op = "none" => ~Clean(q, x, s)
BY NobodyAssumption DEF RowInv, Requests, RequestOK, Holds, About, Clean, Moves

\* What becomes of a pair when request r begins as j.
LEMMA BeginPair ==
  ASSUME RowInv, NEW r \in Staff, NEW j \in Jobs, j.op # "none", Begin(r, j),
         NEW x \in Subjects, NEW s \in Students
  PROVE  /\ Clean(r, x, s)' <=>
              /\ About(j, x, s) /\ j.op # "override"
              /\ \A q \in Staff : Holds(q, x, s) =>
                    ~Removes(j) /\ ~Removes(job[q]) /\ Clean(q, x, s)
         /\ \A q \in Staff \ {r} :
              Clean(q, x, s)' <=>
                /\ Clean(q, x, s)
                /\ ~(About(j, x, s) /\ Holds(q, x, s) /\ (Removes(j) \/ Removes(job[q])))
         /\ <<x, s>> \in settled' <=> <<x, s>> \in settled /\ ~About(j, x, s)
<1> DEFINE met == UNION {Disturbed(j, job[q]) : q \in Staff}
<1>1. /\ job'[r] = [j EXCEPT !.clean = IF j.op = "override" THEN {} ELSE Concern(j) \ met]
      /\ \A q \in Staff \ {r} :
           job'[q] = [job[q] EXCEPT !.clean = job[q].clean \ Disturbed(j, job[q])]
      /\ settled' = settled \ Concern(j)
  BY DEF Begin
<1>2. job'[r].clean = (IF j.op = "override" THEN {} ELSE Concern(j) \ met)
  BY <1>1 DEF Jobs
<1>3. ASSUME NEW q \in Staff \ {r}
      PROVE  job'[q].clean = job[q].clean \ Disturbed(j, job[q])
  <2>1. job[q] \in Jobs
    BY DEF RowInv, EnrollmentTypeOK
  <2> QED BY ZenonT(60), <1>1, <2>1 DEF Jobs
<1>4. \A q \in Staff :
        <<x, s>> \in Disturbed(j, job[q]) <=>
          /\ About(j, x, s) /\ Holds(q, x, s)
          /\ Removes(j) \/ Removes(job[q]) \/ ~Clean(q, x, s)
  BY AboutConcern, HoldsOf DEF Disturbed, Holds, Clean
<1>5. <<x, s>> \in met <=> \E q \in Staff : <<x, s>> \in Disturbed(j, job[q])
  OBVIOUS
<1> HIDE DEF met
<1>6. Clean(r, x, s)' <=> j.op # "override" /\ About(j, x, s) /\ <<x, s>> \notin met
  BY <1>2, AboutConcern DEF Clean
<1>7. \A q \in Staff \ {r} :
        Clean(q, x, s)' <=> Clean(q, x, s) /\ <<x, s>> \notin Disturbed(j, job[q])
  BY <1>3 DEF Clean
<1>8. <<x, s>> \in settled' <=> <<x, s>> \in settled /\ ~About(j, x, s)
  BY <1>1, AboutConcern
<1> QED BY <1>4, <1>5, <1>6, <1>7, <1>8

LEMMA BeginUndisturbed ==
  ASSUME RowInv, NEW r \in Staff, NEW j \in Jobs, j.op # "none", Begin(r, j),
         Concern(j) \subseteq Pairs,
         NEW x \in Subjects, NEW s \in Students, Undisturbed(x, s)
  PROVE  Undisturbed(x, s)'
<1>1. job[r].op = "none" /\ Kept(job'[r], j) /\ \A q \in Staff \ {r} : Kept(job'[q], job[q])
  BY BeginJobs DEF RowInv, EnrollmentTypeOK
<1>2. /\ Holds(r, x, s)' <=> About(j, x, s)
      /\ Removes(job[r])' <=> Removes(j)
      /\ \A q \in Staff \ {r} : /\ Holds(q, x, s)' <=> Holds(q, x, s)
                                /\ Removes(job[q])' <=> Removes(job[q])
  BY <1>1 DEF Kept, Holds, About, Removes
<1>3. ~Holds(r, x, s)
  BY <1>1, HoldsOf
<1>4. \A q \in Staff : Clean(q, x, s)' => Holds(q, x, s)' /\ job'[q].op # "override"
  BY <1>1, <1>2, BeginPair DEF Undisturbed, Kept
<1>5. ASSUME NEW q \in Staff, NEW t \in Staff,
             Holds(q, x, s)', Holds(t, x, s)', Clean(t, x, s)'
      PROVE  Clean(q, x, s)' /\ (q # t => ~Removes(job[q])')
  <2>1. j.op = "override" => Removes(j)
    BY DEF Removes
  <2>2. CASE t = r
    BY <1>2, <1>5, <2>2, BeginPair
  <2>3. CASE t # r /\ q = r
    BY <1>2, <1>5, <2>1, <2>3, BeginPair DEF Undisturbed
  <2>4. CASE t # r /\ q # r
    BY <1>2, <1>5, <2>4, BeginPair DEF Undisturbed
  <2> QED BY <2>2, <2>3, <2>4
<1>6. \A q \in Staff : <<x, s>> \in settled' /\ Holds(q, x, s)'
                         => Clean(q, x, s)' /\ ~Removes(job[q])'
  BY <1>2, BeginPair DEF Undisturbed
<1> QED BY <1>4, <1>5, <1>6 DEF Undisturbed

\* A pair that no request has clean and that is not settled.
LEMMA Unwatched ==
  ASSUME NEW x \in Subjects, NEW s \in Students, <<x, s>> \notin settled,
         \A q \in Staff : ~Clean(q, x, s)
  PROVE  PairOK(x, s)
BY DEF PairOK, Undisturbed, Fresh, Guarded, Watched

\* Beside a request that removes, none is clean and the pair is not settled.
LEMMA RemoverAlone ==
  ASSUME NEW x \in Subjects, NEW s \in Students, Undisturbed(x, s), NEW r \in Staff,
         Holds(r, x, s), Removes(job[r])
  PROVE  <<x, s>> \notin settled /\ ~Watched(x, s) /\ \A q \in Staff \ {r} : ~Clean(q, x, s)
BY DEF Undisturbed, Watched

\* What leaves request q as it was for the pair.
Alike(q, x, s) ==
    \/ Kept(job'[q], job[q]) /\ (Clean(q, x, s)' <=> Clean(q, x, s))
    \/ /\ ~Holds(q, x, s) /\ ~Clean(q, x, s)
       /\ ~Holds(q, x, s)' /\ ~Clean(q, x, s)' /\ <<x, s>> \notin job'[q].pairs

\* What leaves the rows of the pair as they were, or ends the claim about it.
Quiet(x, s) ==
    /\ subject'[x].audience = subject[x].audience /\ student'[s].place = student[s].place
    /\ Live(x)' => Live(x)
    /\ Present(s)' => Present(s)
    /\ <<x, s>> \in enrolled' => <<x, s>> \in enrolled
    /\ Live(x)' /\ Present(s)' /\ <<x, s>> \in enrolled => <<x, s>> \in enrolled'

LEMMA QuietFresh ==
  ASSUME NEW x \in Subjects, NEW s \in Students, NEW q \in Staff, Fresh(q, x, s), Quiet(x, s),
         Kept(job'[q], job[q]), Clean(q, x, s)' => Clean(q, x, s)
  PROVE  Fresh(q, x, s)'
<1>1. Agrees(x, s)' <=> Agrees(x, s)
  BY DEF Agrees, Matches, Quiet
<1> QED BY <1>1 DEF Fresh, Kept, Quiet

LEMMA QuietPair ==
  ASSUME RowInv, NEW x \in Subjects, NEW s \in Students, PairOK(x, s), Quiet(x, s),
         \A q \in Staff : Alike(q, x, s), <<x, s>> \in settled' <=> <<x, s>> \in settled
  PROVE  PairOK(x, s)'
<1>1. \A q \in Staff : /\ Clean(q, x, s)' <=> Clean(q, x, s)
                       /\ Holds(q, x, s)' <=> Holds(q, x, s)
                       /\ Holds(q, x, s) => Kept(job'[q], job[q])
                       /\ Clean(q, x, s) => Kept(job'[q], job[q])
  BY DEF Alike, Holds, About, Kept
<1>2. Agrees(x, s)' <=> Agrees(x, s)
  BY DEF Agrees, Matches, Quiet
<1>3. Undisturbed(x, s)'
  BY <1>1 DEF PairOK, Undisturbed, Kept, Removes
<1>4. ASSUME NEW q \in Staff
      PROVE  Fresh(q, x, s)'
  <2>1. CASE Clean(q, x, s)
    BY <1>1, <2>1, QuietFresh DEF PairOK
  <2>2. CASE ~Clean(q, x, s)
    BY <1>1, <2>2 DEF Fresh
  <2> QED BY <2>1, <2>2
<1>5. Watched(x, s)' => Watched(x, s)
  BY <1>1 DEF Watched, Kept, Removes
<1>6. \A q \in Staff : Coming(q, x, s) => Coming(q, x, s)'
  BY <1>1 DEF Coming, Kept
<1>7. \A q \in Staff : <<x, s>> \in job'[q].pairs => <<x, s>> \in job[q].pairs
  BY DEF Alike, Kept
<1>8. Guarded(x, s)'
  BY <1>2, <1>5, <1>6, <1>7 DEF PairOK, Guarded, Quiet
<1> QED BY <1>3, <1>4, <1>8 DEF PairOK

\* A request that begins about other pairs.
LEMMA BeginElsewhere ==
  ASSUME RowInv, Requests', NEW r \in Staff, NEW j \in Jobs, j.op # "none", Begin(r, j),
         Concern(j) \subseteq Pairs,
         NEW x \in Subjects, NEW s \in Students, PairOK(x, s), Quiet(x, s), ~About(j, x, s)
  PROVE  PairOK(x, s)'
<1>1. job[r].op = "none" /\ Kept(job'[r], j) /\ \A q \in Staff \ {r} : Kept(job'[q], job[q])
  BY BeginJobs DEF RowInv, EnrollmentTypeOK
<1>2. /\ ~Clean(r, x, s)'
      /\ <<x, s>> \in settled' <=> <<x, s>> \in settled
      /\ \A q \in Staff \ {r} : Clean(q, x, s)' <=> Clean(q, x, s)
  BY BeginPair
<1>3. ~Holds(r, x, s) /\ ~Clean(r, x, s)
  BY <1>1, HoldsOf
<1>4. ~Holds(r, x, s)'
  BY <1>1 DEF Holds, About, Kept
<1>5. <<x, s>> \notin job'[r].pairs
  BY <1>4 DEF Requests, RequestOK, Holds, About
<1>6. \A q \in Staff : Alike(q, x, s)
  BY <1>1, <1>2, <1>3, <1>4, <1>5 DEF Alike
<1> QED BY <1>2, <1>6, QuietPair

-----------------------------------------------------------------------------
(* Every step for one pair *)

\* What a request that ends badly was about is disturbed for all.
LEMMA AbortPair ==
  ASSUME RowInv, NEW r \in Staff, Abort(r),
         NEW x \in Subjects, NEW s \in Students, PairOK(x, s)
  PROVE  PairOK(x, s)'
<1>1. job'[r] = NoJob /\ \A q \in Staff \ {r} : Kept(job'[q], job[q])
  BY AbortJobs DEF RowInv, EnrollmentTypeOK
<1>2. /\ ~Clean(r, x, s)'
      /\ \A q \in Staff \ {r} : Clean(q, x, s)' <=> Clean(q, x, s) /\ ~Holds(r, x, s)
      /\ <<x, s>> \in settled' <=> <<x, s>> \in settled /\ ~Holds(r, x, s)
  <2>1. ~Clean(r, x, s)'
    BY <1>1 DEF Clean, NoJob
  <2>2. ASSUME NEW q \in Staff \ {r}
        PROVE  job'[q].clean = job[q].clean \ Concern(job[r])
    <3>1. job[q] \in Jobs
      BY DEF RowInv, EnrollmentTypeOK
    <3> QED BY <3>1 DEF Abort, Jobs
  <2> QED BY <2>1, <2>2, AboutConcern DEF Abort, Clean, Holds
<1>3. UNCHANGED <<student, subject, enrolled>>
  BY DEF Abort
<1>4. CASE Holds(r, x, s)
  <2>1. <<x, s>> \notin settled' /\ \A q \in Staff : ~Clean(q, x, s)'
    BY <1>2, <1>4 DEF PairOK, Undisturbed
  <2> QED BY <2>1 DEF PairOK, Undisturbed, Fresh, Guarded, Watched
<1>5. CASE ~Holds(r, x, s)
  <2>1. ~Holds(r, x, s)' /\ <<x, s>> \notin job'[r].pairs
    BY <1>1, NobodyAssumption DEF Holds, About, NoJob, Moves
  <2>2. ~Clean(r, x, s)
    BY <1>5 DEF PairOK, Undisturbed
  <2>3. Quiet(x, s)
    BY <1>3 DEF Quiet, Live, Present
  <2>4. \A q \in Staff : Alike(q, x, s)
    BY <1>1, <1>2, <1>5, <2>1, <2>2 DEF Alike
  <2> QED BY <1>2, <1>5, <2>3, <2>4, QuietPair
<1> QED BY <1>4, <1>5

\* A subject that is created takes nothing over, and its request will read.
LEMMA CreateSubjectPair ==
  ASSUME RowInv, RowInv', NEW r \in Staff, NEW y \in Subjects, NEW a \in Audiences,
         NEW t \in Teachers \cup {Nobody}, CreateSubject(r, y, a, t),
         NEW x \in Subjects, NEW s \in Students, PairOK(x, s)
  PROVE  PairOK(x, s)'
<1> DEFINE j == [NoJob EXCEPT !.op = "create", !.pc = "read", !.subject = y, !.place = a]
<1>1. /\ j \in Jobs /\ j.op = "create" /\ j.pc = "read" /\ j.subject = y /\ j.pairs = {}
      /\ j.place = a /\ ~Removes(j)
  BY DEF Jobs, NoJob, Removes, Moves
<1>2. /\ subject' = [subject EXCEPT ![y] = [state |-> "live", audience |-> a, holder |-> t]]
      /\ subject[y].state = "none" /\ Begin(r, j) /\ UNCHANGED <<student, enrolled, raced>>
  BY DEF CreateSubject
<1> HIDE DEF j
<1>3. Concern(j) \subseteq Pairs /\ (About(j, x, s) <=> x = y)
  BY <1>1, ConcernType DEF About, Moves
<1>4. job[r].op = "none" /\ Kept(job'[r], j) /\ \A q \in Staff \ {r} : Kept(job'[q], job[q])
  BY <1>1, <1>2, <1>3, BeginJobs DEF RowInv, EnrollmentTypeOK
<1>5. CASE x # y
  <2>1. Quiet(x, s)
    BY <1>2, <1>5 DEF Quiet, Live, Present
  <2> QED BY <1>1, <1>2, <1>3, <1>5, <2>1, BeginElsewhere DEF RowInv
<1>6. CASE x = y
  <2>1. /\ <<x, s>> \notin enrolled /\ \A q \in Staff : <<x, s>> \notin job[q].pairs
        /\ \A q \in Staff : job[q].op \in {"create", "revise", "override"} => ~Holds(q, x, s)
    BY <1>2, <1>6
       DEF RowInv, RowsOK, Live, Requests, RequestOK, Created, Holds, About, Moves
  <2>2. /\ Undisturbed(x, s)'
        /\ \A q \in Staff \ {r} : Clean(q, x, s)' =>
              Clean(q, x, s) /\ ~(Holds(q, x, s) /\ Removes(job[q]))
    BY <1>1, <1>2, <1>3, <1>6, BeginUndisturbed, BeginPair DEF PairOK
  <2>3. ASSUME NEW q \in Staff
        PROVE  Fresh(q, x, s)'
    <3>1. CASE q = r
      BY <1>1, <1>2, <1>4, <1>6, <3>1 DEF Fresh, Kept, Moves, RowInv, EnrollmentTypeOK
    <3>2. CASE q # r /\ Clean(q, x, s)'
      <4>1. Clean(q, x, s) /\ Holds(q, x, s) /\ job[q].op = "admit"
        <5>1. Clean(q, x, s) /\ Holds(q, x, s) /\ ~Removes(job[q]) /\ job[q].op # "none"
          BY <2>2, <3>2, HoldsOf DEF PairOK, Undisturbed
        <5>2. job[q].op # "create"
          BY <2>1, <5>1
        <5> QED BY <5>1, <5>2 DEF Removes, RowInv, EnrollmentTypeOK, Jobs
      <4>2. job[q].pc # "update" => job[q].place = student[s].place
        BY <4>1 DEF PairOK, Fresh
      <4> QED BY <1>2, <1>4, <3>2, <4>1, <4>2 DEF Fresh, Kept, Moves
    <3>3. CASE ~Clean(q, x, s)'
      BY <3>3 DEF Fresh
    <3> QED BY <3>1, <3>2, <3>3
  <2>4. Guarded(x, s)'
    <3>1. Coming(r, x, s)'
      BY <1>1, <1>3, <1>4, <1>6 DEF Coming, Holds, About, Kept
    <3>2. <<x, s>> \notin enrolled' /\ \A q \in Staff : <<x, s>> \notin job'[q].pairs
      BY <1>1, <1>2, <1>4, <2>1 DEF Kept
    <3> QED BY <3>1, <3>2 DEF Guarded
  <2> QED BY <2>2, <2>3, <2>4 DEF PairOK
<1> QED BY <1>5, <1>6

\* The same for a student who is admitted.
LEMMA AdmitStudentPair ==
  ASSUME RowInv, RowInv', NEW r \in Staff, NEW t \in Students, NEW p \in Places,
         AdmitStudent(r, t, p),
         NEW x \in Subjects, NEW s \in Students, PairOK(x, s)
  PROVE  PairOK(x, s)'
<1> DEFINE j == [NoJob EXCEPT !.op = "admit", !.pc = "read", !.student = t, !.place = p]
<1>1. /\ j \in Jobs /\ j.op = "admit" /\ j.pc = "read" /\ j.student = t /\ j.pairs = {}
      /\ j.place = p /\ ~Removes(j)
  BY DEF Jobs, NoJob, Removes, Moves
<1>2. /\ student' = [student EXCEPT ![t] = [status |-> "active", place |-> p]]
      /\ student[t].status = "none" /\ Begin(r, j) /\ UNCHANGED <<subject, enrolled, raced>>
  BY DEF AdmitStudent
<1> HIDE DEF j
<1>3. Concern(j) \subseteq Pairs /\ (About(j, x, s) <=> s = t)
  BY <1>1, ConcernType DEF About, Moves
<1>4. job[r].op = "none" /\ Kept(job'[r], j) /\ \A q \in Staff \ {r} : Kept(job'[q], job[q])
  BY <1>1, <1>2, <1>3, BeginJobs DEF RowInv, EnrollmentTypeOK
<1>5. CASE s # t
  <2>1. Quiet(x, s)
    BY <1>2, <1>5 DEF Quiet, Live, Present
  <2> QED BY <1>1, <1>2, <1>3, <1>5, <2>1, BeginElsewhere DEF RowInv
<1>6. CASE s = t
  <2>1. /\ <<x, s>> \notin enrolled /\ \A q \in Staff : <<x, s>> \notin job[q].pairs
        /\ \A q \in Staff : job[q].op \in Moves \cup {"admit"} => ~Holds(q, x, s)
    BY <1>2, <1>6
       DEF RowInv, RowsOK, Requests, RequestOK, Admitted, Holds, About
  <2>2. /\ Undisturbed(x, s)'
        /\ \A q \in Staff \ {r} : Clean(q, x, s)' =>
              Clean(q, x, s) /\ ~(Holds(q, x, s) /\ Removes(job[q]))
    BY <1>1, <1>2, <1>3, <1>6, BeginUndisturbed, BeginPair DEF PairOK
  <2>3. ASSUME NEW q \in Staff
        PROVE  Fresh(q, x, s)'
    <3>1. CASE q = r
      BY <1>1, <1>2, <1>4, <1>6, <3>1 DEF Fresh, Kept, Moves, RowInv, EnrollmentTypeOK
    <3>2. CASE q # r /\ Clean(q, x, s)'
      <4>1. Clean(q, x, s) /\ Holds(q, x, s) /\ job[q].op = "create"
        <5>1. Clean(q, x, s) /\ Holds(q, x, s) /\ ~Removes(job[q]) /\ job[q].op # "none"
          BY <2>2, <3>2, HoldsOf DEF PairOK, Undisturbed
        <5>2. job[q].op # "admit"
          BY <2>1, <5>1
        <5> QED BY <5>1, <5>2 DEF Removes, RowInv, EnrollmentTypeOK, Jobs
      <4>2. job[q].place = subject[x].audience
        BY <4>1 DEF PairOK, Fresh
      <4> QED BY <1>2, <1>4, <3>2, <4>1, <4>2 DEF Fresh, Kept, Moves
    <3>3. CASE ~Clean(q, x, s)'
      BY <3>3 DEF Fresh
    <3> QED BY <3>1, <3>2, <3>3
  <2>4. Guarded(x, s)'
    <3>1. Coming(r, x, s)'
      BY <1>1, <1>3, <1>4, <1>6 DEF Coming, Holds, About, Kept
    <3>2. <<x, s>> \notin enrolled' /\ \A q \in Staff : <<x, s>> \notin job'[q].pairs
      BY <1>1, <1>2, <1>4, <2>1 DEF Kept
    <3> QED BY <3>1, <3>2 DEF Guarded
  <2> QED BY <2>2, <2>3, <2>4 DEF PairOK
<1> QED BY <1>5, <1>6

\* A request that removes disturbs all that it meets.
LEMMA BeginRemovalPair ==
  ASSUME RowInv, NEW r \in Staff, NEW j \in Jobs, Removes(j), Begin(r, j),
         Concern(j) \subseteq Pairs,
         NEW x \in Subjects, NEW s \in Students, PairOK(x, s), About(j, x, s),
         j.op = "revise" => j.pc = "read" /\ j.place = subject'[x].audience,
         j.op \in Moves => j.pc = "update"
  PROVE  PairOK(x, s)'
<1>1. j.op # "none" /\ j.op \in Moves \cup {"revise", "override"}
  BY DEF Removes, Moves
<1>2. Kept(job'[r], j)
  BY BeginJobs DEF RowInv, EnrollmentTypeOK
<1>3. Undisturbed(x, s)'
  BY <1>1, BeginUndisturbed DEF PairOK
<1>4. <<x, s>> \notin settled' /\ \A q \in Staff \ {r} : ~Clean(q, x, s)'
  BY <1>1, BeginPair DEF PairOK, Undisturbed
<1>5. ~Watched(x, s)'
  <2>1. Removes(job[r])'
    BY <1>2 DEF Removes, Kept
  <2> QED BY <1>4, <2>1 DEF Watched
<1>6. Fresh(r, x, s)'
  <2>1. job'[r].op # "override" \/ ~Clean(r, x, s)'
    BY <1>3 DEF Undisturbed
  <2>2. job'[r].op = j.op /\ job'[r].pc = j.pc /\ job'[r].place = j.place
    BY <1>2 DEF Kept
  <2> QED BY <1>1, <2>1, <2>2 DEF Fresh, Moves
<1>7. \A q \in Staff : Fresh(q, x, s)'
  BY <1>4, <1>6 DEF Fresh
<1> QED BY <1>3, <1>5, <1>7 DEF PairOK, Guarded

LEMMA UpdateSubjectPair ==
  ASSUME RowInv, RowInv', NEW r \in Staff, NEW y \in Subjects, NEW a \in Audiences,
         UpdateSubject(r, y, a), NEW x \in Subjects, NEW s \in Students, PairOK(x, s)
  PROVE  PairOK(x, s)'
<1> DEFINE j == [NoJob EXCEPT !.op = "revise", !.pc = "read", !.subject = y, !.place = a]
<1>1. /\ j \in Jobs /\ j.op = "revise" /\ j.pc = "read" /\ j.subject = y /\ j.place = a
      /\ Removes(j)
  BY DEF Jobs, NoJob, Removes
<1>2. /\ subject' = [subject EXCEPT ![y].audience = a] /\ Begin(r, j)
      /\ UNCHANGED <<student, enrolled>>
  BY DEF UpdateSubject
<1> HIDE DEF j
<1>3. Concern(j) \subseteq Pairs /\ (About(j, x, s) <=> x = y) /\ j.op \notin Moves
  BY <1>1, ConcernType DEF About, Moves
<1>4. CASE x # y
  <2>1. Quiet(x, s)
    BY <1>2, <1>4 DEF Quiet, Live, Present
  <2> QED BY <1>1, <1>2, <1>3, <1>4, <2>1, BeginElsewhere DEF RowInv
<1>5. CASE x = y
  <2>1. subject'[x].audience = a
    BY <1>2, <1>5 DEF RowInv, EnrollmentTypeOK
  <2> QED BY <1>1, <1>2, <1>3, <1>5, <2>1, BeginRemovalPair
<1> QED BY <1>4, <1>5

LEMMA OverridePair ==
  ASSUME RowInv, RowInv', NEW r \in Staff, NEW y \in Subjects, NEW list \in SUBSET Students,
         UpdateSubjectEnrollments(r, y, list),
         NEW x \in Subjects, NEW s \in Students, PairOK(x, s)
  PROVE  PairOK(x, s)'
<1> DEFINE j == [NoJob EXCEPT !.op = "override", !.pc = "write", !.subject = y,
                              !.pairs = {y} \X list]
<1>1. j \in Jobs /\ j.op = "override" /\ j.subject = y /\ Removes(j)
  BY DEF Jobs, NoJob, Removes, Pairs
<1>2. Begin(r, j) /\ UNCHANGED <<student, subject, enrolled>>
  BY DEF UpdateSubjectEnrollments
<1> HIDE DEF j
<1>3. Concern(j) \subseteq Pairs /\ (About(j, x, s) <=> x = y) /\ j.op \notin Moves
  BY <1>1, ConcernType DEF About, Moves
<1>4. CASE x # y
  <2>1. Quiet(x, s)
    BY <1>2, <1>4 DEF Quiet, Live, Present
  <2> QED BY <1>1, <1>2, <1>3, <1>4, <2>1, BeginElsewhere DEF RowInv
<1>5. CASE x = y
  BY <1>1, <1>2, <1>3, <1>5, BeginRemovalPair
<1> QED BY <1>4, <1>5

LEMMA MoveStudentPair ==
  ASSUME RowInv, RowInv', NEW r \in Staff, NEW t \in Students, NEW op \in Moves,
         NEW p \in Places, MoveStudent(r, t, op, p),
         NEW x \in Subjects, NEW s \in Students, PairOK(x, s)
  PROVE  PairOK(x, s)'
<1> DEFINE j == [NoJob EXCEPT !.op = op, !.pc = "update", !.student = t, !.place = p]
<1>1. j \in Jobs /\ j.op = op /\ j.pc = "update" /\ j.student = t /\ Removes(j)
  BY DEF Jobs, NoJob, Removes
<1>2. Begin(r, j) /\ UNCHANGED <<student, subject, enrolled>>
  BY DEF MoveStudent
<1> HIDE DEF j
<1>3. Concern(j) \subseteq Pairs /\ (About(j, x, s) <=> s = t) /\ j.op # "none" /\ j.op # "revise"
  BY <1>1, ConcernType DEF About, Moves
<1>4. CASE s # t
  <2>1. Quiet(x, s)
    BY <1>2, <1>4 DEF Quiet, Live, Present
  <2> QED BY <1>1, <1>2, <1>3, <1>4, <2>1, BeginElsewhere DEF RowInv
<1>5. CASE s = t
  BY <1>1, <1>2, <1>3, <1>5, BeginRemovalPair
<1> QED BY <1>4, <1>5

\* A step of request r that leaves what requests are about, for a pair that r
\* may remove: only what r read has to be seen to.
LEMMA RemoverSteps ==
  ASSUME RowInv, NEW r \in Staff, NEW x \in Subjects, NEW s \in Students, PairOK(x, s),
         Holds(r, x, s), Removes(job[r]),
         job'[r].op = job[r].op, job'[r].student = job[r].student,
         job'[r].subject = job[r].subject, job'[r].clean = job[r].clean,
         \A q \in Staff \ {r} : job'[q] = job[q], settled' = settled, Fresh(r, x, s)'
  PROVE  PairOK(x, s)'
<1>1. \A q \in Staff : /\ Clean(q, x, s)' <=> Clean(q, x, s)
                       /\ Holds(q, x, s)' <=> Holds(q, x, s)
                       /\ Removes(job[q])' <=> Removes(job[q])
                       /\ job'[q].op = job[q].op
  BY DEF Clean, Holds, About, Removes
<1>2. Undisturbed(x, s)'
  BY <1>1 DEF PairOK, Undisturbed
<1>3. <<x, s>> \notin settled /\ \A q \in Staff \ {r} : ~Clean(q, x, s)
  BY RemoverAlone DEF PairOK
<1>4. \A q \in Staff : Fresh(q, x, s)'
  BY <1>1, <1>3 DEF Fresh
<1>5. ~Watched(x, s)'
  BY <1>1, <1>3 DEF Watched
<1> QED BY <1>2, <1>4, <1>5 DEF PairOK, Guarded

LEMMA UpdateStudentPair ==
  ASSUME RowInv, RowInv', NEW r \in Staff, UpdateStudent(r),
         NEW x \in Subjects, NEW s \in Students, PairOK(x, s)
  PROVE  PairOK(x, s)'
<1> DEFINE t == job[r].student
           p == Updated(job[r].op, student[t].place, job[r].place)
<1>1. /\ job[r] \in Jobs /\ job[r].op \in Moves /\ t \in Students
      /\ student' = [student EXCEPT ![t].place = p]
      /\ job' = [job EXCEPT ![r] = [job[r] EXCEPT !.pc = "read", !.place = p]]
      /\ UNCHANGED <<subject, enrolled, settled>>
  BY DEF RowInv, EnrollmentTypeOK, Requests, RequestOK, UpdateStudent, Moves, Jobs
<1> HIDE DEF p
<1>2. /\ job'[r].pc = "read" /\ job'[r].pairs = job[r].pairs /\ job'[r].clean = job[r].clean
      /\ job'[r].op = job[r].op /\ job'[r].student = job[r].student
      /\ job'[r].subject = job[r].subject /\ job'[r].place = p
      /\ \A q \in Staff \ {r} : job'[q] = job[q]
  BY <1>1 DEF RowInv, EnrollmentTypeOK, Jobs
<1>3. Holds(r, x, s) <=> s = t
  BY <1>1 DEF Holds, About
<1>4. CASE s = t
  <2>1. student'[s].place = p
    BY <1>1, <1>4 DEF RowInv, EnrollmentTypeOK
  <2>2. Fresh(r, x, s)'
    BY <1>1, <1>2, <2>1 DEF Fresh, Moves
  <2> QED BY <1>1, <1>2, <1>3, <1>4, <2>2, RemoverSteps DEF Removes
<1>5. CASE s # t
  <2>1. Quiet(x, s)
    BY <1>1, <1>5 DEF Quiet, Live, Present
  <2>2. ~Clean(r, x, s) /\ <<x, s>> \notin job[r].pairs
    BY <1>3, <1>5, HoldsOf DEF PairOK, Undisturbed
  <2>3. Alike(r, x, s)
    BY <1>1, <1>2, <1>3, <1>5, <2>2 DEF Alike, Clean, Holds, About
  <2>4. \A q \in Staff : Alike(q, x, s)
    BY <1>2, <2>3 DEF Alike, Kept, Clean
  <2> QED BY <1>1, <2>1, <2>4, QuietPair
<1> QED BY <1>4, <1>5

\* A step of a request that is not about the pair.
LEMMA StepElsewhere ==
  ASSUME RowInv, NEW r \in Staff, NEW x \in Subjects, NEW s \in Students, PairOK(x, s),
         ~Holds(r, x, s), ~Holds(r, x, s)', ~Clean(r, x, s)', <<x, s>> \notin job'[r].pairs,
         \A q \in Staff \ {r} : job'[q] = job[q], UNCHANGED <<student, subject>>,
         <<x, s>> \in settled' <=> <<x, s>> \in settled,
         <<x, s>> \in enrolled' <=> <<x, s>> \in enrolled
  PROVE  PairOK(x, s)'
<1>1. Quiet(x, s)
  BY DEF Quiet, Live, Present
<1>2. ~Clean(r, x, s)
  BY DEF PairOK, Undisturbed
<1>3. \A q \in Staff : Alike(q, x, s)
  BY <1>2 DEF Alike, Kept, Clean
<1> QED BY <1>1, <1>3, QuietPair

LEMMA ReadMatchingPair ==
  ASSUME RowInv, RowInv', NEW r \in Staff, ReadMatching(r),
         NEW x \in Subjects, NEW s \in Students, PairOK(x, s)
  PROVE  PairOK(x, s)'
<1> DEFINE pc == IF job[r].pc = "read" THEN "existing" ELSE "write"
<1>1. /\ job[r] \in Jobs /\ job[r].op \in Moves /\ job[r].student \in Students
      /\ job' = [job EXCEPT ![r] = [job[r] EXCEPT !.pairs = Offered(job[r]), !.pc = pc]]
      /\ UNCHANGED <<student, subject, enrolled, settled>> /\ job[r].pc \in {"read", "subjects"}
  BY DEF RowInv, EnrollmentTypeOK, Requests, RequestOK, ReadMatching
<1>2. /\ pc \in {"existing", "write"} /\ pc # "subjects"
      /\ pc = "write" => job[r].pc = "subjects"
  BY <1>1
<1> HIDE DEF pc
<1>3. /\ job'[r].pc = pc /\ job'[r].pairs = Offered(job[r]) /\ job'[r].clean = job[r].clean
      /\ job'[r].op = job[r].op /\ job'[r].student = job[r].student
      /\ job'[r].subject = job[r].subject /\ job'[r].place = job[r].place
      /\ job'[r].olds = job[r].olds /\ \A q \in Staff \ {r} : job'[q] = job[q]
  BY <1>1 DEF RowInv, EnrollmentTypeOK, Jobs
<1>4. Holds(r, x, s) <=> job[r].student = s
  BY <1>1 DEF Holds, About
<1>5. CASE Holds(r, x, s)
  <2>1. Fresh(r, x, s)'
    <3>1. <<x, s>> \in Offered(job[r]) <=> Live(x) /\ Matches(subject[x].audience, job[r].place)
      BY <1>4, <1>5 DEF Offered
    <3>2. Clean(r, x, s) => job[r].place = student[s].place
      BY <1>1 DEF PairOK, Fresh
    <3>3. Clean(r, x, s) /\ pc = "write" /\ <<x, s>> \in enrolled => <<x, s>> \in job[r].olds
      BY <1>1, <1>2 DEF PairOK, Fresh
    <3>4. job'[r].op \in Moves /\ job'[r].op # "revise" /\ job'[r].op # "create"
      BY <1>1, <1>3 DEF Moves
    <3>5. (Clean(r, x, s)' <=> Clean(r, x, s)) /\ (Agrees(x, s)' <=> Agrees(x, s))
          /\ (Live(x)' <=> Live(x))
      BY <1>1, <1>3 DEF Clean, Agrees, Live
    <3> QED BY <1>1, <1>2, <1>3, <3>1, <3>2, <3>3, <3>4, <3>5 DEF Fresh, Agrees
  <2> QED BY <1>1, <1>3, <1>5, <2>1, RemoverSteps DEF Removes
<1>6. CASE ~Holds(r, x, s)
  <2>1. <<x, s>> \notin Offered(job[r])
    BY <1>4, <1>6 DEF Offered
  <2>2. ~Holds(r, x, s)' /\ ~Clean(r, x, s)'
    BY <1>3, <1>6 DEF Holds, About, Clean, PairOK, Undisturbed
  <2> QED BY <1>1, <1>3, <1>6, <2>1, <2>2, StepElsewhere
<1> QED BY <1>5, <1>6

LEMMA ReadExistingPair ==
  ASSUME RowInv, RowInv', NEW r \in Staff, ReadExisting(r),
         NEW x \in Subjects, NEW s \in Students, PairOK(x, s)
  PROVE  PairOK(x, s)'
<1> DEFINE pc == IF job[r].pc = "read" THEN "subjects" ELSE "write"
           found == {p \in enrolled : p[2] = job[r].student}
<1>1. /\ job[r] \in Jobs /\ job[r].op \in Moves
      /\ job' = [job EXCEPT ![r] = [job[r] EXCEPT !.olds = found, !.pc = pc]]
      /\ UNCHANGED <<student, subject, enrolled, settled>> /\ job[r].pc \in {"read", "existing"}
  BY DEF RowInv, EnrollmentTypeOK, ReadExisting
<1>2. /\ pc \in {"subjects", "write"} /\ pc # "existing"
      /\ pc = "write" => job[r].pc = "existing"
  BY <1>1
<1>3. <<x, s>> \in found <=> <<x, s>> \in enrolled /\ job[r].student = s
  OBVIOUS
<1> HIDE DEF pc, found
<1>4. /\ job'[r].pc = pc /\ job'[r].pairs = job[r].pairs /\ job'[r].clean = job[r].clean
      /\ job'[r].op = job[r].op /\ job'[r].student = job[r].student
      /\ job'[r].subject = job[r].subject /\ job'[r].place = job[r].place
      /\ job'[r].olds = found /\ \A q \in Staff \ {r} : job'[q] = job[q]
  BY <1>1 DEF RowInv, EnrollmentTypeOK, Jobs
<1>5. Holds(r, x, s) <=> job[r].student = s
  BY <1>1 DEF Holds, About
<1>6. CASE Holds(r, x, s)
  <2>1. Fresh(r, x, s)'
    <3>1. Clean(r, x, s) => job[r].place = student[s].place
      BY <1>1 DEF PairOK, Fresh
    <3>2. Clean(r, x, s) /\ pc = "write" /\ Live(x) => (<<x, s>> \in job[r].pairs <=> Agrees(x, s))
      BY <1>1, <1>2 DEF PairOK, Fresh
    <3>3. job'[r].op \in Moves /\ job'[r].op # "revise" /\ job'[r].op # "create"
      BY <1>1, <1>4 DEF Moves
    <3>4. (Clean(r, x, s)' <=> Clean(r, x, s)) /\ (Agrees(x, s)' <=> Agrees(x, s))
          /\ (Live(x)' <=> Live(x))
      BY <1>1, <1>4 DEF Clean, Agrees, Live
    <3> QED BY <1>1, <1>2, <1>3, <1>4, <1>5, <1>6, <3>1, <3>2, <3>3, <3>4 DEF Fresh
  <2> QED BY <1>1, <1>4, <1>6, <2>1, RemoverSteps DEF Removes
<1>7. CASE ~Holds(r, x, s)
  <2>1. <<x, s>> \notin job[r].pairs
    BY <1>7, HoldsOf
  <2>2. ~Holds(r, x, s)' /\ ~Clean(r, x, s)'
    BY <1>4, <1>7 DEF Holds, About, Clean, PairOK, Undisturbed
  <2> QED BY <1>1, <1>4, <1>7, <2>1, <2>2, StepElsewhere
<1> QED BY <1>6, <1>7

\* A request that only inserts is answered: the pair was watched, and it was
\* not this request that was still to insert it.
LEMMA InserterEnds ==
  ASSUME RowInv, NEW r \in Staff, NEW x \in Subjects, NEW s \in Students, PairOK(x, s),
         Holds(r, x, s), ~Removes(job[r]), job'[r] = NoJob,
         \A q \in Staff \ {r} : Kept(job'[q], job[q]) /\ (Clean(q, x, s)' <=> Clean(q, x, s)),
         <<x, s>> \in settled' <=> <<x, s>> \in settled \/ Clean(r, x, s),
         UNCHANGED <<student, subject>>,
         <<x, s>> \in enrolled => <<x, s>> \in enrolled',
         <<x, s>> \in enrolled' => <<x, s>> \in enrolled \/ <<x, s>> \in job[r].pairs,
         Clean(r, x, s) /\ Live(x) /\ Present(s) /\ Agrees(x, s) /\ Coming(r, x, s)
            => <<x, s>> \in enrolled'
  PROVE  PairOK(x, s)'
<1>1. ~Holds(r, x, s)' /\ ~Clean(r, x, s)' /\ <<x, s>> \notin job'[r].pairs
  BY NobodyAssumption DEF Holds, About, Clean, NoJob, Moves
<1>2. \A q \in Staff \ {r} : /\ Holds(q, x, s)' <=> Holds(q, x, s)
                             /\ Removes(job[q])' <=> Removes(job[q])
                             /\ job'[q].op = job[q].op
                             /\ Coming(q, x, s)' <=> Coming(q, x, s)
                             /\ job'[q].pairs = job[q].pairs
  BY DEF Holds, About, Removes, Kept, Coming
<1>3. Undisturbed(x, s)'
  BY <1>1, <1>2 DEF PairOK, Undisturbed
<1>4. Watched(x, s)' => Clean(r, x, s)
  BY <1>1, <1>2 DEF Watched, PairOK, Undisturbed
<1>5. Clean(r, x, s) => Watched(x, s)
  BY DEF Watched
<1>6. (Agrees(x, s)' <=> Agrees(x, s)) /\ (Live(x)' <=> Live(x)) /\ (Present(s)' <=> Present(s))
  BY DEF Agrees, Live, Present
<1>7. ASSUME NEW q \in Staff
      PROVE  Fresh(q, x, s)'
  <2>1. CASE q = r
    BY <1>1, <2>1 DEF Fresh
  <2>2. CASE q # r /\ ~Clean(q, x, s)
    BY <2>2 DEF Fresh
  <2>3. CASE q # r /\ Clean(q, x, s)
    <3>1. ~Removes(job[q])
      BY <2>3 DEF PairOK, Undisturbed
    <3>2. job[q].op \notin Moves /\ job[q].op # "revise"
      BY <3>1 DEF Removes
    <3>3. Fresh(q, x, s) /\ job'[q].op = job[q].op /\ job'[q].pc = job[q].pc
          /\ job'[q].place = job[q].place
      BY <2>3 DEF PairOK, Kept
    <3> QED BY <2>3, <3>2, <3>3 DEF Fresh
  <2> QED BY <2>1, <2>2, <2>3
<1>8. Guarded(x, s)'
  BY <1>1, <1>2, <1>4, <1>5, <1>6 DEF PairOK, Guarded
<1> QED BY <1>3, <1>7, <1>8 DEF PairOK

\* A request that only inserts has read the other side.
LEMMA InserterReads ==
  ASSUME RowInv, NEW r \in Staff, NEW x \in Subjects, NEW s \in Students, PairOK(x, s),
         Holds(r, x, s), ~Removes(job[r]),
         job'[r].op = job[r].op, job'[r].student = job[r].student,
         job'[r].subject = job[r].subject, job'[r].place = job[r].place,
         \A q \in Staff : Clean(q, x, s)' <=> Clean(q, x, s),
         \A q \in Staff \ {r} : Kept(job'[q], job[q]),
         <<x, s>> \in settled' <=> <<x, s>> \in settled,
         UNCHANGED <<student, subject, enrolled>>, job[r].pc # "update",
         Clean(r, x, s) /\ Live(x) /\ Present(s) => (<<x, s>> \in job'[r].pairs <=> Agrees(x, s))
  PROVE  PairOK(x, s)'
<1>1. \A q \in Staff : /\ Holds(q, x, s)' <=> Holds(q, x, s)
                       /\ Removes(job[q])' <=> Removes(job[q])
                       /\ job'[q].op = job[q].op
  BY DEF Holds, About, Removes, Kept
<1>2. Undisturbed(x, s)'
  BY <1>1 DEF PairOK, Undisturbed
<1>3. Watched(x, s) => Clean(r, x, s)
  BY DEF Watched, PairOK, Undisturbed
<1>4. Watched(x, s)' => Watched(x, s)
  BY <1>1 DEF Watched
<1>5. (Agrees(x, s)' <=> Agrees(x, s)) /\ (Live(x)' <=> Live(x)) /\ (Present(s)' <=> Present(s))
  BY DEF Agrees, Live, Present
<1>6. ASSUME NEW q \in Staff \ {r}
      PROVE  Fresh(q, x, s)'
  <2>1. Fresh(q, x, s) /\ Quiet(x, s)
    BY DEF PairOK, Quiet, Live, Present
  <2> QED BY <2>1, QuietFresh
<1>7. Fresh(r, x, s)'
  <2>1. job[r].op \notin Moves /\ job[r].op # "revise"
    BY DEF Removes
  <2>2. Fresh(r, x, s)
    BY DEF PairOK
  <2> QED BY <2>1, <2>2 DEF Fresh
<1>8. ASSUME Watched(x, s), Live(x), Present(s)
      PROVE  /\ <<x, s>> \in enrolled => Agrees(x, s)
             /\ \A q \in Staff : <<x, s>> \in job'[q].pairs => Agrees(x, s)
             /\ Agrees(x, s) => <<x, s>> \in job'[r].pairs
  BY <1>3, <1>8 DEF PairOK, Guarded, Kept
<1>9. <<x, s>> \in job'[r].pairs => Coming(r, x, s)'
  BY <1>1 DEF Coming
<1>10. Watched(x, s)' /\ Live(x)' /\ Present(s)' =>
         /\ <<x, s>> \in enrolled' => Agrees(x, s)'
         /\ \A q \in Staff : <<x, s>> \in job'[q].pairs => Agrees(x, s)'
         /\ Agrees(x, s)' => Coming(r, x, s)'
  BY <1>4, <1>5, <1>8, <1>9
<1>11. Guarded(x, s)'
  BY <1>10 DEF Guarded
<1> QED BY <1>2, <1>6, <1>7, <1>11 DEF PairOK

LEMMA ReadSubjectsPair ==
  ASSUME RowInv, RowInv', NEW r \in Staff, ReadSubjects(r),
         NEW x \in Subjects, NEW s \in Students, PairOK(x, s)
  PROVE  PairOK(x, s)'
<1>1. /\ job[r] \in Jobs /\ job[r].op = "admit" /\ job[r].pc = "read"
      /\ UNCHANGED <<student, subject, enrolled>> /\ ~Removes(job[r])
  BY DEF RowInv, EnrollmentTypeOK, ReadSubjects, Removes, Moves
<1>2. Holds(r, x, s) <=> job[r].student = s
  BY <1>1 DEF Holds, About
<1>3. Holds(r, x, s) /\ Clean(r, x, s) /\ Live(x)
        => (<<x, s>> \in Offered(job[r]) <=> Agrees(x, s))
  <2>1. Clean(r, x, s) => job[r].place = student[s].place
    BY <1>1 DEF PairOK, Fresh
  <2> QED BY <1>2, <2>1 DEF Offered, Agrees
<1>4. CASE Offered(job[r]) = {}
  <2>1. job' = [job EXCEPT ![r] = NoJob] /\ settled' = settled \cup job[r].clean
    BY <1>4 DEF ReadSubjects, Finish
  <2>2. job'[r] = NoJob /\ \A q \in Staff \ {r} : job'[q] = job[q]
    BY <2>1 DEF RowInv, EnrollmentTypeOK
  <2>3. <<x, s>> \in settled' <=> <<x, s>> \in settled \/ Clean(r, x, s)
    BY <2>1 DEF Clean
  <2>4. CASE Holds(r, x, s)
    <3>1. \A q \in Staff \ {r} : Kept(job'[q], job[q]) /\ (Clean(q, x, s)' <=> Clean(q, x, s))
      BY <2>2 DEF Kept, Clean
    <3> QED BY <1>1, <1>3, <1>4, <2>2, <2>3, <2>4, <3>1, InserterEnds
  <2>5. CASE ~Holds(r, x, s)
    <3>1. ~Clean(r, x, s) /\ ~Clean(r, x, s)' /\ ~Holds(r, x, s)' /\ <<x, s>> \notin job'[r].pairs
      BY <2>2, <2>5, NobodyAssumption
         DEF PairOK, Undisturbed, Clean, Holds, About, NoJob, Moves
    <3> QED BY <1>1, <2>2, <2>3, <2>5, <3>1, StepElsewhere
  <2> QED BY <2>4, <2>5
<1>5. CASE Offered(job[r]) # {}
  <2>1. /\ job' = [job EXCEPT ![r] = [job[r] EXCEPT !.pc = "write", !.pairs = Offered(job[r])]]
        /\ settled' = settled
    BY <1>5 DEF ReadSubjects
  <2>2. /\ job'[r].pairs = Offered(job[r]) /\ job'[r].clean = job[r].clean
        /\ job'[r].op = job[r].op /\ job'[r].student = job[r].student
        /\ job'[r].subject = job[r].subject /\ job'[r].place = job[r].place
        /\ \A q \in Staff \ {r} : job'[q] = job[q]
    BY <1>1, <2>1 DEF RowInv, EnrollmentTypeOK, Jobs
  <2>3. \A q \in Staff : Clean(q, x, s)' <=> Clean(q, x, s)
    BY <2>2 DEF Clean
  <2>4. CASE Holds(r, x, s)
    <3>1. \A q \in Staff \ {r} : Kept(job'[q], job[q])
      BY <2>2 DEF Kept
    <3> QED BY <1>1, <1>3, <2>1, <2>2, <2>3, <2>4, <3>1, InserterReads
  <2>5. CASE ~Holds(r, x, s)
    <3>1. ~Clean(r, x, s)' /\ ~Holds(r, x, s)'
      BY <2>2, <2>3, <2>5 DEF PairOK, Undisturbed, Holds, About
    <3>2. <<x, s>> \notin job'[r].pairs
      BY <1>2, <2>2, <2>5 DEF Offered
    <3> QED BY <1>1, <2>1, <2>2, <2>5, <3>1, <3>2, StepElsewhere
  <2> QED BY <2>4, <2>5
<1> QED BY <1>4, <1>5

\* What becomes of a pair when the students are read: one who would match and
\* is disabled is disturbed for all.
LEMMA ReadStudentsClean ==
  ASSUME RowInv, NEW r \in Staff, ReadStudents(r), NEW x \in Subjects, NEW s \in Students,
         NEW skip, skip <=> /\ job[r].subject = x /\ student[s].status = "disabled"
                            /\ Matches(job[r].place, student[s].place)
  PROVE  /\ \A q \in Staff \ {r} : Clean(q, x, s)' <=> Clean(q, x, s) /\ ~skip
         /\ Fitting(job[r].place) # {} => (Clean(r, x, s)' <=> Clean(r, x, s) /\ ~skip)
         /\ <<x, s>> \in settled' <=>
              /\ ~skip
              /\ \/ <<x, s>> \in settled
                 \/ /\ Fitting(job[r].place) = {} /\ job[r].op = "create" /\ Clean(r, x, s)
<1> DEFINE out  == {job[r].subject} \X {t \in Students : student[t].status = "disabled"
                                                  /\ Matches(job[r].place, student[t].place)}
           left == [q \in Staff |-> [job[q] EXCEPT !.clean = job[q].clean \ out]]
           new  == {job[r].subject} \X Fitting(job[r].place)
<1>1. <<x, s>> \in out <=> skip
  OBVIOUS
<1>2. /\ IF Fitting(job[r].place) = {} THEN job' = [left EXCEPT ![r] = NoJob]
         ELSE job' = [left EXCEPT ![r].pc = "write", ![r].pairs = new]
      /\ settled' = (IF Fitting(job[r].place) = {} /\ job[r].op # "revise"
                     THEN settled \cup job[r].clean ELSE settled) \ out
      /\ job[r].op \in {"create", "revise"}
  BY DEF ReadStudents
<1> HIDE DEF out, new
<1>3. ASSUME NEW q \in Staff
      PROVE  left[q].clean = job[q].clean \ out
  <2>1. job[q] \in Jobs
    BY DEF RowInv, EnrollmentTypeOK
  <2> QED BY <2>1 DEF Jobs
<1>4. DOMAIN left = Staff /\ left = [q \in Staff |-> left[q]]
  OBVIOUS
<1> HIDE DEF left
<1>5. \A q \in Staff \ {r} : job'[q] = left[q]
  BY <1>2, <1>4
<1>6. ASSUME Fitting(job[r].place) # {}
      PROVE  job'[r].clean = job[r].clean \ out
  <2>1. job'[r] = [left[r] EXCEPT !.pc = "write", !.pairs = new]
    BY <1>2, <1>4, <1>6
  <2>2. job'[r].clean = left[r].clean
    <3>1. left[r] \in Jobs
      <4>1. job[r] \in Jobs
        BY DEF RowInv, EnrollmentTypeOK
      <4> QED BY <4>1 DEF left, Jobs
    <3> QED BY <2>1, <3>1 DEF Jobs
  <2> QED BY <1>3, <2>2
<1>7. <<x, s>> \in settled' <=>
        /\ <<x, s>> \notin out
        /\ \/ <<x, s>> \in settled
           \/ /\ Fitting(job[r].place) = {} /\ job[r].op = "create" /\ Clean(r, x, s)
  BY <1>2 DEF Clean
<1> QED BY <1>1, <1>3, <1>5, <1>6, <1>7 DEF Clean

LEMMA ReadStudentsPair ==
  ASSUME RowInv, RowInv', NEW r \in Staff, ReadStudents(r),
         NEW x \in Subjects, NEW s \in Students, PairOK(x, s)
  PROVE  PairOK(x, s)'
<1> DEFINE skip == /\ job[r].subject = x /\ student[s].status = "disabled"
                   /\ Matches(job[r].place, student[s].place)
<1>1. /\ job[r] \in Jobs /\ job[r].op \in {"create", "revise"} /\ job[r].pc = "read"
      /\ UNCHANGED <<student, subject, enrolled>> /\ job[r].subject \in Subjects
  BY DEF RowInv, EnrollmentTypeOK, Requests, RequestOK, ReadStudents
<1>2. /\ \A q \in Staff \ {r} : Clean(q, x, s)' <=> Clean(q, x, s) /\ ~skip
      /\ Fitting(job[r].place) # {} => (Clean(r, x, s)' <=> Clean(r, x, s) /\ ~skip)
      /\ <<x, s>> \in settled' <=>
           /\ ~skip
           /\ \/ <<x, s>> \in settled
              \/ /\ Fitting(job[r].place) = {} /\ job[r].op = "create" /\ Clean(r, x, s)
  BY ReadStudentsClean
<1>3. /\ Fitting(job[r].place) = {} => job'[r] = NoJob
      /\ Fitting(job[r].place) # {} =>
           /\ job'[r].op = job[r].op /\ job'[r].student = job[r].student
           /\ job'[r].subject = job[r].subject /\ job'[r].place = job[r].place
           /\ job'[r].olds = job[r].olds /\ job'[r].pc = "write"
           /\ job'[r].pairs = {job[r].subject} \X Fitting(job[r].place)
      /\ \A q \in Staff \ {r} : Kept(job'[q], job[q])
  BY <1>1, ReadStudentsJobs DEF RowInv, EnrollmentTypeOK
<1>4. Holds(r, x, s) <=> job[r].subject = x
  BY <1>1 DEF Holds, About, Moves
<1>5. Clean(r, x, s) => job[r].place = subject[x].audience
  BY <1>1 DEF PairOK, Fresh
<1>6. Clean(r, x, s) /\ Present(s) /\ Holds(r, x, s) /\ ~skip
        => (s \in Fitting(job[r].place) <=> Agrees(x, s))
  BY <1>4, <1>5 DEF Fitting, Attending, Present, Agrees
<1>7. Fitting(job[r].place) = {} => ~Clean(r, x, s)' /\ ~Holds(r, x, s)'
                                      /\ <<x, s>> \notin job'[r].pairs
  BY <1>3, NobodyAssumption DEF Clean, Holds, About, NoJob, Moves
<1>8. skip => Holds(r, x, s)
  BY <1>4
<1> HIDE DEF skip
<1>9. CASE ~Holds(r, x, s)
  <2>1. ~skip /\ ~Clean(r, x, s)
    BY <1>8, <1>9 DEF PairOK, Undisturbed
  <2>2. ~Clean(r, x, s)' /\ ~Holds(r, x, s)' /\ <<x, s>> \notin job'[r].pairs
    BY <1>1, <1>2, <1>3, <1>4, <1>7, <1>9, <2>1 DEF Holds, About, Moves
  <2>3. Quiet(x, s)
    BY <1>1 DEF Quiet, Live, Present
  <2>4. \A q \in Staff : Alike(q, x, s)
    BY <1>2, <1>3, <1>9, <2>1, <2>2 DEF Alike
  <2> QED BY <1>2, <2>1, <2>3, <2>4, QuietPair
<1>10. CASE skip
  <2>1. <<x, s>> \notin settled' /\ \A q \in Staff : ~Clean(q, x, s)'
    BY <1>2, <1>7, <1>10
  <2> QED BY <2>1 DEF PairOK, Undisturbed, Fresh, Guarded, Watched
<1>11. CASE Holds(r, x, s) /\ ~skip /\ job[r].op = "create"
  <2>1. ~Removes(job[r])
    BY <1>11 DEF Removes, Moves
  <2>2. CASE Fitting(job[r].place) = {}
    BY <1>1, <1>2, <1>3, <1>6, <1>11, <2>1, <2>2, InserterEnds
  <2>3. CASE Fitting(job[r].place) # {}
    <3>1. <<x, s>> \in job'[r].pairs <=> s \in Fitting(job[r].place)
      BY <1>3, <1>4, <1>11, <2>3 DEF Fitting
    <3>2. (\A q \in Staff : Clean(q, x, s)' <=> Clean(q, x, s))
          /\ (<<x, s>> \in settled' <=> <<x, s>> \in settled)
      BY <1>2, <1>11, <2>3
    <3> QED BY <1>1, <1>3, <1>6, <1>11, <2>1, <2>3, <3>1, <3>2, InserterReads
  <2> QED BY <2>2, <2>3
<1>12. CASE Holds(r, x, s) /\ ~skip /\ job[r].op = "revise"
  <2>1. Removes(job[r])
    BY <1>12 DEF Removes
  <2>2. <<x, s>> \notin settled /\ \A q \in Staff \ {r} : ~Clean(q, x, s)
    BY <1>12, <2>1, RemoverAlone DEF PairOK
  <2>3. CASE Fitting(job[r].place) = {}
    <3>1. <<x, s>> \notin settled' /\ \A q \in Staff : ~Clean(q, x, s)'
      BY <1>2, <1>7, <1>12, <2>2, <2>3
    <3> QED BY <3>1 DEF PairOK, Undisturbed, Fresh, Guarded, Watched
  <2>4. CASE Fitting(job[r].place) # {}
    <3>1. <<x, s>> \in job'[r].pairs <=> s \in Fitting(job[r].place)
      BY <1>3, <1>4, <1>12, <2>4 DEF Fitting
    <3>2. /\ \A q \in Staff : Clean(q, x, s)' <=> Clean(q, x, s)
          /\ <<x, s>> \notin settled'
      BY <1>2, <1>12, <2>2, <2>4
    <3>3. \A q \in Staff : /\ Holds(q, x, s)' <=> Holds(q, x, s)
                           /\ Removes(job[q])' <=> Removes(job[q])
                           /\ job'[q].op = job[q].op
      BY <1>3, <2>4 DEF Holds, About, Removes, Kept
    <3>4. Undisturbed(x, s)'
      BY <2>2, <3>2, <3>3 DEF PairOK, Undisturbed
    <3>5. Fresh(r, x, s)'
      <4>1. job'[r].op = "revise" /\ job'[r].place = job[r].place
        BY <1>3, <1>12, <2>4
      <4>2. Agrees(x, s)' <=> Agrees(x, s)
        BY <1>1 DEF Agrees
      <4> QED BY <1>1, <1>5, <1>6, <1>12, <3>1, <3>2, <4>1, <4>2 DEF Fresh, Moves, Present
    <3>6. \A q \in Staff : Fresh(q, x, s)'
      BY <2>2, <3>2, <3>5 DEF Fresh
    <3>7. ~Watched(x, s)'
      BY <2>1, <2>2, <3>2, <3>3 DEF Watched
    <3> QED BY <3>4, <3>6, <3>7 DEF PairOK, Guarded
  <2> QED BY <2>3, <2>4
<1> QED BY <1>1, <1>9, <1>10, <1>11, <1>12

LEMMA WritePair ==
  ASSUME RowInv, RowInv', NEW r \in Staff, Write(r),
         NEW x \in Subjects, NEW s \in Students, PairOK(x, s)
  PROVE  PairOK(x, s)'
<1>1. job[r] \in Jobs /\ RequestOK(job[r]) /\ job[r].pc = "write"
  BY DEF RowInv, EnrollmentTypeOK, Requests, Write
<1>2. CASE ~Referenced(job[r])
  <2>1. Abort(r)
    BY <1>2 DEF Write
  <2> QED BY <2>1, AbortPair
<1>3. CASE Referenced(job[r])
  <2>1. /\ enrolled' = (enrolled \ Removed(job[r])) \cup job[r].pairs
        /\ job' = [job EXCEPT ![r] = NoJob] /\ settled' = settled \cup job[r].clean
        /\ UNCHANGED <<student, subject>>
    BY <1>3 DEF Write, Finish
  <2>2. /\ job'[r] = NoJob /\ \A q \in Staff \ {r} : job'[q] = job[q]
        /\ <<x, s>> \in settled' <=> <<x, s>> \in settled \/ Clean(r, x, s)
    BY <2>1 DEF RowInv, EnrollmentTypeOK, Clean
  <2>3. ~Holds(r, x, s)' /\ ~Clean(r, x, s)' /\ <<x, s>> \notin job'[r].pairs
    BY <2>2, NobodyAssumption DEF Clean, Holds, About, NoJob, Moves
  <2>4. /\ <<x, s>> \in job[r].pairs => Holds(r, x, s)
        /\ <<x, s>> \in Removed(job[r]) => Holds(r, x, s)
    BY <1>1, HoldsOf DEF Removed, Holds, About, Moves
  <2>5. CASE ~Holds(r, x, s)
    <3>1. /\ <<x, s>> \in enrolled' <=> <<x, s>> \in enrolled
          /\ ~Clean(r, x, s)
      BY <2>1, <2>4, <2>5 DEF PairOK, Undisturbed
    <3> QED BY <2>1, <2>2, <2>3, <2>5, <3>1, StepElsewhere
  <2>6. CASE Holds(r, x, s) /\ ~Removes(job[r])
    <3>1. Removed(job[r]) = {}
      BY <2>6 DEF Removed, Removes
    <3>2. \A q \in Staff \ {r} : Kept(job'[q], job[q]) /\ (Clean(q, x, s)' <=> Clean(q, x, s))
      BY <2>2 DEF Kept, Clean
    <3>3. Coming(r, x, s) => <<x, s>> \in enrolled'
      BY <1>1, <2>1 DEF Coming
    <3> QED BY <2>1, <2>2, <2>6, <3>1, <3>2, <3>3, InserterEnds
  <2>7. CASE Holds(r, x, s) /\ Removes(job[r])
    <3>1. <<x, s>> \notin settled /\ \A q \in Staff \ {r} : ~Clean(q, x, s)
      BY <2>7, RemoverAlone DEF PairOK
    <3>2. \A q \in Staff \ {r} : /\ Clean(q, x, s)' <=> Clean(q, x, s)
                                 /\ Holds(q, x, s)' <=> Holds(q, x, s)
      BY <2>2 DEF Clean, Holds
    <3>3. CASE ~Clean(r, x, s)
      <4>1. <<x, s>> \notin settled' /\ \A q \in Staff : ~Clean(q, x, s)'
        BY <2>2, <2>3, <3>1, <3>2, <3>3
      <4> QED BY <4>1 DEF PairOK, Undisturbed, Fresh, Guarded, Watched
    <3>4. CASE Clean(r, x, s)
      <4>1. \A q \in Staff \ {r} : ~Holds(q, x, s)
        BY <2>7, <3>1, <3>4 DEF PairOK, Undisturbed
      <4>2. \A q \in Staff : ~Holds(q, x, s)' /\ ~Clean(q, x, s)'
        BY <2>3, <3>1, <3>2, <4>1
      <4>3. \A q \in Staff : <<x, s>> \notin job'[q].pairs
        BY <2>2, <2>3, <4>1, HoldsOf
      <4>4. Live(x) /\ Present(s) => (<<x, s>> \in enrolled' <=> Agrees(x, s))
        <5>1. CASE job[r].op = "revise"
          <6>1. <<x, s>> \in enrolled => <<x, s>> \in Removed(job[r])
            BY <2>7, <5>1 DEF Removed, Holds, About, Moves
          <6>2. Present(s) => (<<x, s>> \in job[r].pairs <=> Agrees(x, s))
            BY <1>1, <3>4, <5>1 DEF PairOK, Fresh
          <6> QED BY <2>1, <6>1, <6>2
        <5>2. CASE job[r].op \in Moves
          <6>1. Removed(job[r]) = job[r].olds \ job[r].pairs
            BY <5>2 DEF Removed, Moves
          <6>2. /\ Live(x) => (<<x, s>> \in job[r].pairs <=> Agrees(x, s))
                /\ <<x, s>> \in enrolled => <<x, s>> \in job[r].olds
            BY <1>1, <3>4, <5>2 DEF PairOK, Fresh
          <6> QED BY <2>1, <6>1, <6>2
        <5> QED BY <2>7, <3>4, <5>1, <5>2 DEF Removes, PairOK, Undisturbed
      <4>5. (Agrees(x, s)' <=> Agrees(x, s)) /\ (Live(x)' <=> Live(x))
            /\ (Present(s)' <=> Present(s))
        BY <2>1 DEF Agrees, Live, Present
      <4>6. Undisturbed(x, s)' /\ \A q \in Staff : Fresh(q, x, s)'
        BY <4>2 DEF Undisturbed, Fresh
      <4>7. Guarded(x, s)'
        BY <4>3, <4>4, <4>5 DEF Guarded
      <4> QED BY <4>6, <4>7 DEF PairOK
    <3> QED BY <3>3, <3>4
  <2> QED BY <2>5, <2>6, <2>7
<1> QED BY <1>2, <1>3

\* No request moves, and the rows of the pair keep what the claim is about.
LEMMA RowStepPair ==
  ASSUME RowInv, NEW x \in Subjects, NEW s \in Students, PairOK(x, s), Quiet(x, s),
         UNCHANGED <<job, settled>>
  PROVE  PairOK(x, s)'
<1>1. \A q \in Staff : Alike(q, x, s)
  BY DEF Alike, Kept, Clean
<1> QED BY <1>1, QuietPair

LEMMA AssignInstructorPair ==
  ASSUME RowInv, NEW y \in Subjects, NEW t \in Teachers, AssignInstructor(y, t),
         NEW x \in Subjects, NEW s \in Students, PairOK(x, s)
  PROVE  PairOK(x, s)'
<1>1. subject'[x].audience = subject[x].audience /\ subject'[x].state = subject[x].state
  BY DEF AssignInstructor, RowInv, EnrollmentTypeOK
<1>2. Quiet(x, s)
  BY <1>1 DEF AssignInstructor, Quiet, Live, Present
<1> QED BY <1>2, RowStepPair DEF AssignInstructor

LEMMA TogglePair ==
  ASSUME RowInv, NEW t \in Students, ToggleUserStatus(t),
         NEW x \in Subjects, NEW s \in Students, PairOK(x, s)
  PROVE  PairOK(x, s)'
<1>1. student'[s].place = student[s].place /\ (Present(s)' => Present(s))
  BY DEF ToggleUserStatus, Present, RowInv, EnrollmentTypeOK
<1>2. Quiet(x, s)
  BY <1>1 DEF ToggleUserStatus, Quiet, Live
<1> QED BY <1>2, RowStepPair DEF ToggleUserStatus

LEMMA DeleteUserPair ==
  ASSUME RowInv, NEW t \in Students, DeleteUser(t),
         NEW x \in Subjects, NEW s \in Students, PairOK(x, s)
  PROVE  PairOK(x, s)'
<1>1. student'[s].place = student[s].place /\ (Present(s)' => Present(s) /\ s # t)
  BY DEF DeleteUser, Present, RowInv, EnrollmentTypeOK
<1>2. Quiet(x, s)
  BY <1>1 DEF DeleteUser, Quiet, Live
<1> QED BY <1>2, RowStepPair DEF DeleteUser

LEMMA DeleteSubjectPair ==
  ASSUME RowInv, NEW y \in Subjects, DeleteSubject(y),
         NEW x \in Subjects, NEW s \in Students, PairOK(x, s)
  PROVE  PairOK(x, s)'
<1>1. subject'[x].audience = subject[x].audience /\ (Live(x)' => Live(x) /\ x # y)
  BY DEF DeleteSubject, Live, RowInv, EnrollmentTypeOK
<1>2. Quiet(x, s)
  BY <1>1 DEF DeleteSubject, Quiet, Present
<1> QED BY <1>2, RowStepPair DEF DeleteSubject

-----------------------------------------------------------------------------
(* The invariant of enrollment *)

LEMMA EnrollmentInitInv == EnrollmentInit => EnrollmentInv
<1> SUFFICES ASSUME EnrollmentInit
             PROVE  EnrollmentInv
  OBVIOUS
<1>1. EnrollmentTypeOK
  BY NoJobType, BudgetAssumption DEF EnrollmentInit, EnrollmentTypeOK
<1>2. Requests /\ RowsOK
  BY NoRequest DEF EnrollmentInit, Requests, RowsOK, Admitted
<1>3. \A x \in Subjects, s \in Students : PairOK(x, s)
  BY Unwatched DEF EnrollmentInit, Clean, NoJob
<1> QED BY <1>1, <1>2, <1>3 DEF EnrollmentInv, RowInv

LEMMA EnrollmentStepInv == EnrollmentInv /\ EnrollmentStep => EnrollmentInv'
<1> SUFFICES ASSUME EnrollmentInv, EnrollmentStep
             PROVE  EnrollmentInv'
  OBVIOUS
<1>1. RowInv /\ \A x \in Subjects, s \in Students : PairOK(x, s)
  BY DEF EnrollmentInv
<1>2. ASSUME NEW r \in Staff, Fail(r)
      PROVE  EnrollmentInv'
  BY <1>1, <1>2, FailRows, AbortPair DEF Fail, EnrollmentInv
<1>3. ASSUME NEW r \in Staff, ReadStudents(r)
      PROVE  EnrollmentInv'
  BY <1>1, <1>3, ReadStudentsRows, ReadStudentsPair DEF EnrollmentInv
<1>4. ASSUME NEW r \in Staff, ReadSubjects(r)
      PROVE  EnrollmentInv'
  BY <1>1, <1>4, ReadSubjectsRows, ReadSubjectsPair DEF EnrollmentInv
<1>5. ASSUME NEW r \in Staff, UpdateStudent(r)
      PROVE  EnrollmentInv'
  BY <1>1, <1>5, UpdateStudentRows, UpdateStudentPair DEF EnrollmentInv
<1>6. ASSUME NEW r \in Staff, ReadMatching(r)
      PROVE  EnrollmentInv'
  BY <1>1, <1>6, ReadMatchingRows, ReadMatchingPair DEF EnrollmentInv
<1>7. ASSUME NEW r \in Staff, ReadExisting(r)
      PROVE  EnrollmentInv'
  BY <1>1, <1>7, ReadExistingRows, ReadExistingPair DEF EnrollmentInv
<1>8. ASSUME NEW r \in Staff, Write(r)
      PROVE  EnrollmentInv'
  BY <1>1, <1>8, WriteRows, WritePair DEF EnrollmentInv
<1>9. ASSUME NEW r \in Staff, NEW x \in Subjects, NEW a \in Audiences, UpdateSubject(r, x, a)
      PROVE  EnrollmentInv'
  BY <1>1, <1>9, UpdateSubjectRows, UpdateSubjectPair DEF EnrollmentInv
<1>10. ASSUME NEW r \in Staff, NEW x \in Subjects, NEW a \in Audiences,
              NEW t \in Teachers \cup {Nobody}, CreateSubject(r, x, a, t)
       PROVE  EnrollmentInv'
  BY <1>1, <1>10, CreateSubjectRows, CreateSubjectPair DEF EnrollmentInv
<1>11. ASSUME NEW r \in Staff, NEW x \in Subjects, NEW list \in SUBSET Students,
              UpdateSubjectEnrollments(r, x, list)
       PROVE  EnrollmentInv'
  BY <1>1, <1>11, OverrideRows, OverridePair DEF EnrollmentInv
<1>12. ASSUME NEW r \in Staff, NEW s \in Students, NEW p \in Places, AdmitStudent(r, s, p)
       PROVE  EnrollmentInv'
  BY <1>1, <1>12, AdmitStudentRows, AdmitStudentPair DEF EnrollmentInv
<1>13. ASSUME NEW r \in Staff, NEW s \in Students, NEW op \in Moves, NEW p \in Places,
              MoveStudent(r, s, op, p)
       PROVE  EnrollmentInv'
  BY <1>1, <1>13, MoveStudentRows, MoveStudentPair DEF EnrollmentInv
<1>14. ASSUME NEW x \in Subjects, NEW t \in Teachers, AssignInstructor(x, t)
       PROVE  EnrollmentInv'
  BY <1>1, <1>14, AssignInstructorRows, AssignInstructorPair DEF EnrollmentInv
<1>15. ASSUME NEW s \in Students, ToggleUserStatus(s)
       PROVE  EnrollmentInv'
  BY <1>1, <1>15, ToggleRows, TogglePair DEF EnrollmentInv
<1>16. ASSUME NEW s \in Students, DeleteUser(s)
       PROVE  EnrollmentInv'
  BY <1>1, <1>16, DeleteUserRows, DeleteUserPair DEF EnrollmentInv
<1> QED BY <1>2, <1>3, <1>4, <1>5, <1>6, <1>7, <1>8, <1>9, <1>10, <1>11, <1>12, <1>13, <1>14,
           <1>15, <1>16 DEF EnrollmentStep

LEMMA DropSubjectInv ==
  ASSUME EnrollmentInv, NEW x \in Subjects, DeleteSubject(x)
  PROVE  EnrollmentInv'
BY DeleteSubjectRows, DeleteSubjectPair DEF EnrollmentInv

\* The other components leave enrollment alone but for what they spend.
LEMMA EnrollmentStays ==
  ASSUME EnrollmentInv, UNCHANGED <<student, subject, enrolled, job, settled, raced>>,
         budget' \in [Events -> Nat]
  PROVE  EnrollmentInv'
<1>1. RowInv'
  <2>1. Grown /\ RowsOK'
    BY SameRows DEF EnrollmentInv, RowInv
  <2>2. Requests'
    BY <2>1, KeptRequest DEF Kept, Requests, EnrollmentInv, RowInv, EnrollmentTypeOK
  <2> QED BY <2>1, <2>2 DEF EnrollmentInv, RowInv, EnrollmentTypeOK
<1>2. ASSUME NEW x \in Subjects, NEW s \in Students
      PROVE  PairOK(x, s)'
  <2>1. Quiet(x, s)
    BY DEF Quiet, Live, Present
  <2> QED BY <2>1, RowStepPair DEF EnrollmentInv
<1> QED BY <1>1, <1>2 DEF EnrollmentInv

LEMMA EnrollmentInStep == EnrollmentInv => InStep
<1> SUFFICES ASSUME EnrollmentInv, NEW x \in Subjects, NEW s \in Students,
                    <<x, s>> \in settled, Live(x), Present(s),
                    \A r \in Staff : ~Idle(r) => <<x, s>> \notin Concern(job[r])
             PROVE  <<x, s>> \in enrolled <=> Matches(subject[x].audience, student[s].place)
  BY DEF InStep, Present
<1>1. \A r \in Staff : ~Coming(r, x, s)
  BY AboutConcern, HoldsOf DEF EnrollmentInv, Idle, Coming, Holds
<1>2. Guarded(x, s) /\ Watched(x, s)
  BY DEF EnrollmentInv, PairOK, Watched
<1> QED BY <1>1, <1>2 DEF Guarded, Agrees

-----------------------------------------------------------------------------
(* Coursework *)

HandRows == [pc : {"idle", "read", "member", "first", "stored", "refused"},
             work : Works \cup {Nobody}, student : Students \cup {Nobody},
             status : {"none", "SUBMITTED", "LATE", "EXTENDED", "REVIEWED", "GRADED"},
             missed : SUBSET Hands]

\* Who found no answer has missed those that are there by now.
LookedWell == \A h \in Hands : hand[h].pc = "first" =>
                Answers(hand[h].work, hand[h].student) \subseteq hand[h].missed

\* A work is drafted once and before it is there, an answer that is stored is of
\* a work that is open, and an open work is of a live subject.
CourseworkInv ==
    /\ CourseworkTypeOK
    /\ \A d \in draft : work[d.work].state = "none" /\ \A e \in draft : e.work = d.work => e = d
    /\ \A w \in Works : Open(w) => work[w].subject \in Subjects /\ Live(work[w].subject)
    /\ \A h \in Hands : /\ hand[h].pc # "idle" => hand[h].work \in Works
                                                    /\ hand[h].student \in Students
                        /\ hand[h].pc = "stored" => Open(hand[h].work)
    /\ LookedWell
    /\ DuplicatesAreRaces

\* Subjects that are live stay so.
Lasting == \A x \in Subjects : Live(x) => Live(x)'

LEMMA CourseworkInitInv == CourseworkInit => CourseworkInv
BY DEF CourseworkInit, CourseworkInv, CourseworkTypeOK, NoWork, NoHand, Open, LookedWell,
       DuplicatesAreRaces, Answers

LEMMA CourseworkStays ==
  ASSUME CourseworkInv, UNCHANGED courseworkVars, Lasting
  PROVE  CourseworkInv'
BY DEF CourseworkInv, courseworkVars, CourseworkTypeOK, Open, Lasting, LookedWell,
       DuplicatesAreRaces, Answers

\* Answers that are taken away, or marked, add no duplicate.
LEMMA AnswersFewer ==
  ASSUME CourseworkInv,
         \A w \in Works, s \in Students : Answers(w, s)' \subseteq Answers(w, s),
         \A w \in Works : Open(w) => work'[w].kind = work[w].kind,
         \A h \in Hands : /\ hand'[h].pc = "first" \/ hand'[h].pc = "stored" =>
                               hand'[h].work \in Works /\ hand'[h].student \in Students
                          /\ hand'[h].pc = "stored" => hand'[h].missed = hand[h].missed
                          /\ hand'[h].pc = "first" =>
                               Answers(hand'[h].work, hand'[h].student) \subseteq hand'[h].missed
  PROVE  LookedWell' /\ DuplicatesAreRaces'
<1>1. ASSUME NEW h \in Hands, hand'[h].pc = "first", NEW i \in Answers(hand[h].work, hand[h].student)'
      PROVE  i \in hand'[h].missed
  <2>1. PICK w \in Works, s \in Students : w = hand'[h].work /\ s = hand'[h].student
    BY <1>1
  <2>2. i \in Answers(w, s)
    BY <1>1, <2>1 DEF Answers
  <2> QED BY <1>1, <2>1, <2>2
<1>2. ASSUME NEW w \in Works, NEW s \in Students, NEW h \in Answers(w, s)',
             NEW i \in Answers(w, s)', h # i
      PROVE  work'[w].kind = "assignment" /\ (h \in hand'[i].missed \/ i \in hand'[h].missed)
  <2>1. h \in Answers(w, s) /\ i \in Answers(w, s)
    BY <1>2
  <2>2. h \in Hands /\ i \in Hands /\ hand'[h].missed = hand[h].missed
        /\ hand'[i].missed = hand[i].missed
    BY <1>2 DEF Answers
  <2>3. Open(w)
    BY <2>1 DEF Answers, CourseworkInv
  <2> QED BY <1>2, <2>1, <2>2, <2>3 DEF CourseworkInv, DuplicatesAreRaces
<1> QED BY <1>1, <1>2 DEF LookedWell, DuplicatesAreRaces

\* What a step of an answer may do but store it: one row changes.
LEMMA HandStep ==
  ASSUME CourseworkInv, NEW h \in Hands, NEW new, hand' = [hand EXCEPT ![h] = new],
         UNCHANGED <<work, draft, subject>>, new \in HandRows,
         new.pc # "idle" => new.work \in Works /\ new.student \in Students,
         new.pc = "first" => Answers(new.work, new.student) \subseteq new.missed,
         new.pc = "stored" => /\ hand[h].pc = "stored" /\ new.work = hand[h].work
                              /\ new.student = hand[h].student /\ new.missed = hand[h].missed
  PROVE  CourseworkInv'
<1>1. CourseworkTypeOK' /\ hand'[h] = new /\ \A i \in Hands \ {h} : hand'[i] = hand[i]
  BY DEF CourseworkInv, CourseworkTypeOK, HandRows
<1>2. /\ \A d \in draft' : work'[d.work].state = "none" /\ \A e \in draft' : e.work = d.work => e = d
      /\ \A w \in Works : Open(w)' => work'[w].subject \in Subjects /\ Live(work[w].subject)'
  BY DEF CourseworkInv, Open, Live
<1>3. \A i \in Hands : /\ hand'[i].pc # "idle" => hand'[i].work \in Works
                                                    /\ hand'[i].student \in Students
                       /\ hand'[i].pc = "stored" => Open(hand[i].work)'
  BY <1>1 DEF CourseworkInv, Open
<1>4. \A w \in Works, s \in Students : Answers(w, s)' \subseteq Answers(w, s)
  BY <1>1 DEF Answers
<1>5. \A i \in Hands : /\ hand'[i].pc = "stored" => hand'[i].missed = hand[i].missed
                       /\ hand'[i].pc = "first" =>
                            Answers(hand'[i].work, hand'[i].student) \subseteq hand'[i].missed
  BY <1>1 DEF CourseworkInv, LookedWell
<1>6. LookedWell' /\ DuplicatesAreRaces'
  BY <1>3, <1>4, <1>5, AnswersFewer
<1> QED BY <1>1, <1>2, <1>3, <1>6 DEF CourseworkInv

LEMMA DraftWorkInv ==
  ASSUME CourseworkInv, NEW w \in Works, NEW x \in Subjects, NEW kind \in {"assignment", "task"},
         DraftWork(w, x, kind), EnrollmentTypeOK
  PROVE  CourseworkInv'
<1>1. /\ draft' = draft \cup {[work |-> w, kind |-> kind, subject |-> x,
                               teacher |-> subject[x].holder]}
      /\ work[w].state = "none" /\ (\A d \in draft : d.work # w)
      /\ subject[x].holder \in Teachers /\ UNCHANGED <<work, hand, subject>>
  BY DEF DraftWork, EnrollmentTypeOK
<1>2. CourseworkTypeOK'
  BY <1>1 DEF CourseworkInv, CourseworkTypeOK
<1>3. \A d \in draft' : work'[d.work].state = "none" /\ \A e \in draft' : e.work = d.work => e = d
  BY <1>1 DEF CourseworkInv
<1>4. LookedWell' /\ DuplicatesAreRaces'
  BY <1>1 DEF CourseworkInv, LookedWell, DuplicatesAreRaces, Answers
<1> QED BY <1>1, <1>2, <1>3, <1>4 DEF CourseworkInv, Open, Live

LEMMA CreateWorkInv ==
  ASSUME CourseworkInv, NEW d \in draft, CreateWork(d)
  PROVE  CourseworkInv'
<1>1. /\ d \in [work : Works, kind : {"assignment", "task"}, subject : Subjects,
                teacher : Teachers]
      /\ draft' = draft \ {d} /\ UNCHANGED <<hand, subject>> /\ work[d.work].state = "none"
  BY DEF CreateWork, CourseworkInv, CourseworkTypeOK, enrollmentVars
<1> DEFINE new == [state |-> "open", kind |-> d.kind, subject |-> d.subject, teacher |-> d.teacher]
<1>2. \/ work' = work
      \/ Live(d.subject) /\ work' = [work EXCEPT ![d.work] = new]
  BY DEF CreateWork, SubjectKey
<1>3. CASE work' = work
  <2>1. LookedWell' /\ DuplicatesAreRaces'
    BY <1>1, <1>3 DEF CourseworkInv, LookedWell, DuplicatesAreRaces, Answers
  <2>2. CourseworkTypeOK'
    BY <1>1, <1>3 DEF CourseworkInv, CourseworkTypeOK
  <2> QED BY <1>1, <1>3, <2>1, <2>2 DEF CourseworkInv, Open, Live
<1>4. CASE Live(d.subject) /\ work' = [work EXCEPT ![d.work] = new]
  <2>1. CourseworkTypeOK'
    BY <1>1, <1>4 DEF CourseworkInv, CourseworkTypeOK
  <2>2. work'[d.work] = new /\ \A w \in Works \ {d.work} : work'[w] = work[w]
    BY <1>1, <1>4 DEF CourseworkInv, CourseworkTypeOK
  <2>3. \A c \in draft' : c \in draft /\ c.work \in Works /\ c.work # d.work
    BY <1>1 DEF CourseworkInv, CourseworkTypeOK
  <2>4. \A c \in draft' : work'[c.work].state = "none"
                            /\ \A e \in draft' : e.work = c.work => e = c
    BY <2>2, <2>3 DEF CourseworkInv
  <2>5. \A w \in Works : Open(w)' => work'[w].subject \in Subjects /\ Live(work[w].subject)'
    BY <1>1, <1>4, <2>2 DEF CourseworkInv, Open, Live
  <2>6. \A h \in Hands : /\ hand'[h].pc # "idle" => hand'[h].work \in Works
                                                      /\ hand'[h].student \in Students
                         /\ hand'[h].pc = "stored" => Open(hand[h].work)' /\ hand[h].work # d.work
    BY <1>1, <2>2 DEF CourseworkInv, Open
  <2>7. \A w \in Works, s \in Students : Answers(w, s)' = Answers(w, s)
    BY <1>1 DEF Answers
  <2>8. LookedWell' /\ DuplicatesAreRaces'
    <3>1. \A w \in Works : Open(w) => work'[w].kind = work[w].kind
      BY <1>1, <2>2 DEF Open
    <3>2. \A h \in Hands : hand[h].pc = "first" =>
             Answers(hand[h].work, hand[h].student) \subseteq hand[h].missed
      BY DEF CourseworkInv, LookedWell
    <3> QED BY <1>1, <2>6, <2>7, <3>1, <3>2, AnswersFewer
  <2> QED BY <2>1, <2>4, <2>5, <2>6, <2>8 DEF CourseworkInv
<1> QED BY <1>2, <1>3, <1>4

\* Works W, and their answers, are deleted.
LEMMA WorksGone ==
  ASSUME CourseworkInv, NEW W \in SUBSET Works, hand' = Without(W), draft' = draft,
         \A w \in W : Open(w),
         work' = [w \in Works |-> IF w \in W THEN [work[w] EXCEPT !.state = "gone"] ELSE work[w]],
         \A w \in Works \ W : Open(w) => Live(work[w].subject)'
  PROVE  CourseworkInv'
<1>1. /\ work' \in [Works -> [state : {"none", "open", "gone"}, kind : {"assignment", "task"},
                              subject : Subjects \cup {Nobody},
                              teacher : Teachers \cup {Nobody}]]
      /\ \A w \in Works : /\ work'[w].kind = work[w].kind /\ work'[w].subject = work[w].subject
                          /\ Open(w)' <=> Open(w) /\ w \notin W
                          /\ work[w].state = "none" => work'[w].state = "none"
  BY DEF CourseworkInv, CourseworkTypeOK, Open
<1>2. /\ hand' \in [Hands -> [pc : {"idle", "read", "member", "first", "stored", "refused"},
                              work : Works \cup {Nobody}, student : Students \cup {Nobody},
                              status : {"none", "SUBMITTED", "LATE", "EXTENDED", "REVIEWED",
                                        "GRADED"},
                              missed : SUBSET Hands]]
      /\ \A h \in Hands :
           /\ hand'[h].work = hand[h].work /\ hand'[h].student = hand[h].student
           /\ hand'[h].missed = hand[h].missed
           /\ hand'[h].pc = "first" => hand[h].pc = "first"
           /\ hand[h].pc = "idle" => hand'[h].pc = "idle"
           /\ hand'[h].pc = "stored" => hand[h].pc = "stored" /\ hand[h].work \notin W
  BY SMTT(60) DEF Without, CourseworkInv, CourseworkTypeOK
<1>3. CourseworkTypeOK'
  BY <1>1, <1>2 DEF CourseworkInv, CourseworkTypeOK
<1>4. \A d \in draft' : work'[d.work].state = "none" /\ \A e \in draft' : e.work = d.work => e = d
  BY <1>1 DEF CourseworkInv, CourseworkTypeOK
<1>5. \A w \in Works : Open(w)' => work'[w].subject \in Subjects /\ Live(work[w].subject)'
  <2> SUFFICES ASSUME NEW w \in Works, Open(w)'
               PROVE  work'[w].subject \in Subjects /\ Live(work[w].subject)'
    OBVIOUS
  <2>1. Open(w) /\ w \notin W /\ work'[w].subject = work[w].subject
    BY <1>1
  <2>2. Live(work[w].subject)' <=> subject'[work[w].subject].state = "live"
    BY <2>1 DEF Live
  <2> QED BY <2>1, <2>2 DEF CourseworkInv
<1>6. \A h \in Hands : /\ hand'[h].pc # "idle" => hand'[h].work \in Works
                                                    /\ hand'[h].student \in Students
                       /\ hand'[h].pc = "stored" => Open(hand[h].work)'
  <2> SUFFICES ASSUME NEW h \in Hands
               PROVE  /\ hand'[h].pc # "idle" => hand'[h].work \in Works
                                                   /\ hand'[h].student \in Students
                      /\ hand'[h].pc = "stored" => Open(hand[h].work)'
    OBVIOUS
  <2>1. hand'[h].pc # "idle" => hand[h].work \in Works /\ hand[h].student \in Students
    BY <1>2 DEF CourseworkInv
  <2>2. hand'[h].pc = "stored" => work'[hand[h].work].state = "open"
    <3>1. hand'[h].pc = "stored" => hand[h].work \in Works /\ hand[h].work \notin W
                                      /\ Open(hand[h].work)
      BY <1>2, <2>1 DEF CourseworkInv
    <3> QED BY <1>1, <3>1 DEF Open
  <2> QED BY <1>2, <2>1, <2>2 DEF Open
<1>7. LookedWell' /\ DuplicatesAreRaces'
  <2>1. \A w \in Works, s \in Students : Answers(w, s)' \subseteq Answers(w, s)
    BY <1>2 DEF Answers
  <2>2. \A h \in Hands : hand'[h].pc = "first" =>
          Answers(hand'[h].work, hand'[h].student) \subseteq hand'[h].missed
    BY <1>2 DEF CourseworkInv, LookedWell
  <2> QED BY <1>1, <1>2, <1>6, <2>1, <2>2, AnswersFewer
<1> QED BY <1>3, <1>4, <1>5, <1>6, <1>7 DEF CourseworkInv

LEMMA DeleteWorkInv ==
  ASSUME CourseworkInv, NEW w \in Works, DeleteWork(w)
  PROVE  CourseworkInv'
<1>1. /\ work' = [work EXCEPT ![w].state = "gone"] /\ Open(w) /\ hand' = Without({w})
      /\ UNCHANGED <<draft, subject>>
  BY DEF DeleteWork
<1>2. work' = [v \in Works |-> IF v \in {w} THEN [work[v] EXCEPT !.state = "gone"] ELSE work[v]]
  BY <1>1 DEF CourseworkInv, CourseworkTypeOK
<1>3. \A v \in Works \ {w} : Open(v) => Live(work[v].subject)'
  <2> SUFFICES ASSUME NEW v \in Works \ {w}, Open(v)
               PROVE  Live(work[v].subject)'
    OBVIOUS
  <2>1. work'[v] = work[v]
    BY <1>2
  <2> QED BY <1>1, <2>1 DEF CourseworkInv, Live
<1> QED BY <1>1, <1>2, <1>3, WorksGone

\* With a subject go the works that are of it.
LEMMA DropWorksInv ==
  ASSUME CourseworkInv, EnrollmentTypeOK, NEW x \in Subjects, DeleteSubject(x), DeleteWorksOf(x)
  PROVE  CourseworkInv'
<1>1. /\ hand' = Without(WorksOf(x)) /\ draft' = draft
      /\ work' = [w \in Works |->
                    IF w \in WorksOf(x) THEN [work[w] EXCEPT !.state = "gone"] ELSE work[w]]
  BY DEF DeleteWorksOf
<1>2. WorksOf(x) \in SUBSET Works /\ \A w \in WorksOf(x) : Open(w)
  BY DEF WorksOf
<1>3. \A w \in Works \ WorksOf(x) : Open(w) => Live(work[w].subject)'
  <2> SUFFICES ASSUME NEW w \in Works \ WorksOf(x), Open(w)
               PROVE  Live(work[w].subject)'
    OBVIOUS
  <2>1. work'[w] = work[w]
    BY <1>1
  <2>2. work[w].subject \in Subjects \ {x} /\ Live(work[w].subject)
    BY DEF WorksOf, CourseworkInv
  <2>3. \A y \in Subjects \ {x} : subject'[y] = subject[y]
    BY DEF DeleteSubject, EnrollmentTypeOK
  <2> QED BY <2>1, <2>2, <2>3 DEF Live
<1> QED BY <1>1, <1>2, <1>3, WorksGone

\* An answer in progress moves on, or is refused.
LEMMA HandMoves ==
  ASSUME CourseworkInv, NEW h \in Hands, NEW pc \in {"member", "first", "refused"},
         hand[h].pc # "idle", hand' = [hand EXCEPT ![h].pc = pc],
         pc = "first" => Answers(hand[h].work, hand[h].student) = {},
         UNCHANGED <<work, draft, subject>>
  PROVE  CourseworkInv'
<1> DEFINE new == [hand[h] EXCEPT !.pc = pc]
<1>1. hand[h] \in HandRows /\ hand' = [hand EXCEPT ![h] = new]
  BY DEF CourseworkInv, CourseworkTypeOK, HandRows
<1>2. new \in HandRows /\ new.work = hand[h].work /\ new.student = hand[h].student /\ new.pc = pc
  BY <1>1 DEF HandRows
<1> HIDE DEF new
<1> QED BY <1>1, <1>2, HandStep DEF HandRows, CourseworkInv

LEMMA HandInInv ==
  ASSUME CourseworkInv, NEW h \in Hands, NEW w \in Works, NEW s \in Students, HandIn(h, w, s)
  PROVE  CourseworkInv'
<1> DEFINE new == [NoHand EXCEPT !.pc = "read", !.work = w, !.student = s]
<1>1. new \in HandRows /\ new.work = w /\ new.student = s /\ new.pc = "read"
  BY DEF NoHand, HandRows
<1>2. hand' = [hand EXCEPT ![h] = new] /\ UNCHANGED <<work, draft, subject>>
  BY DEF HandIn
<1> HIDE DEF new
<1> QED BY <1>1, <1>2, HandStep DEF HandRows

LEMMA StoreAnswerInv ==
  ASSUME CourseworkInv, NEW h \in Hands, StoreAnswer(h)
  PROVE  CourseworkInv'
<1> DEFINE w == hand[h].work
<1>1. /\ hand[h].pc = "first" /\ UNCHANGED <<work, draft, subject>> /\ hand[h] \in HandRows
      /\ w \in Works /\ hand[h].student \in Students
  BY DEF StoreAnswer, enrollmentVars, CourseworkInv, CourseworkTypeOK, HandRows
<1>2. CASE WorkKey(w) /\ Unique(w, hand[h].student)
  <2>1. PICK status \in Statuses(work[w].kind) :
           hand' = [i \in Hands |->
                    IF i = h THEN [hand[h] EXCEPT !.pc = "stored", !.status = status]
                    ELSE IF hand[i].pc = "first"
                    THEN [hand[i] EXCEPT !.missed = hand[i].missed \cup {h}]
                    ELSE hand[i]]
    BY <1>2 DEF StoreAnswer
  <2>2. /\ hand'[h] \in HandRows /\ hand'[h].pc = "stored" /\ hand'[h].work = w
        /\ hand'[h].student = hand[h].student /\ hand'[h].missed = hand[h].missed
    BY <1>1, <2>1 DEF HandRows, Statuses
  <2>3. \A i \in Hands \ {h} :
          /\ hand'[i] \in HandRows /\ hand'[i].pc = hand[i].pc /\ hand'[i].work = hand[i].work
          /\ hand'[i].student = hand[i].student
          /\ hand'[i].missed = IF hand[i].pc = "first" THEN hand[i].missed \cup {h}
                               ELSE hand[i].missed
    BY <2>1 DEF CourseworkInv, CourseworkTypeOK, HandRows
  <2>4. CourseworkTypeOK'
    BY ZenonT(60), <1>1, <2>1, <2>2, <2>3 DEF CourseworkInv, CourseworkTypeOK, HandRows
  <2>5. /\ \A d \in draft' : work'[d.work].state = "none" /\ \A e \in draft' : e.work = d.work => e = d
        /\ \A v \in Works : Open(v)' => work'[v].subject \in Subjects /\ Live(work[v].subject)'
    BY <1>1 DEF CourseworkInv, Open, Live
  <2>6. \A i \in Hands : /\ hand'[i].pc # "idle" => hand'[i].work \in Works
                                                      /\ hand'[i].student \in Students
                         /\ hand'[i].pc = "stored" => Open(hand[i].work)'
    BY ZenonT(60), <1>1, <1>2, <2>2, <2>3 DEF CourseworkInv, Open, WorkKey
  <2>7. \A v \in Works, s \in Students : Answers(v, s)' \subseteq Answers(v, s) \cup {h}
    BY <2>3 DEF Answers
  <2>8. LookedWell'
    <3> SUFFICES ASSUME NEW i \in Hands, hand'[i].pc = "first",
                        NEW k \in Answers(hand[i].work, hand[i].student)'
                 PROVE  k \in hand'[i].missed
      BY DEF LookedWell
    <3>1. i # h /\ hand[i].pc = "first" /\ hand[i].work \in Works /\ hand[i].student \in Students
      BY <2>2, <2>3 DEF CourseworkInv
    <3>2. k \in Answers(hand[i].work, hand[i].student) \cup {h}
      BY <2>3, <2>7, <3>1 DEF Answers
    <3> QED BY <2>3, <3>1, <3>2 DEF CourseworkInv, LookedWell
  <2>9. DuplicatesAreRaces'
    <3> SUFFICES ASSUME NEW v \in Works, NEW s \in Students, NEW i \in Answers(v, s)',
                        NEW k \in Answers(v, s)', i # k
                 PROVE  work[v].kind = "assignment" /\ (i \in hand'[k].missed \/ k \in hand'[i].missed)
      BY <1>1 DEF DuplicatesAreRaces
    <3>1. i \in Hands /\ k \in Hands
      BY DEF Answers
    <3>2. ASSUME NEW o \in Answers(v, s), h \in Answers(v, s)', o # h
          PROVE  work[v].kind = "assignment" /\ o \in hand'[h].missed
      <4>1. v = w /\ s = hand[h].student
        BY <2>2, <3>2 DEF Answers
      <4>2. work[v].kind = "assignment"
        BY <1>1, <1>2, <3>2, <4>1 DEF Unique, CourseworkInv, CourseworkTypeOK
      <4>3. o \in hand[h].missed
        BY <1>1, <3>2, <4>1 DEF CourseworkInv, LookedWell
      <4> QED BY <2>2, <4>2, <4>3
    <3>3. CASE i # h /\ k # h
      <4>1. i \in Answers(v, s) /\ k \in Answers(v, s)
        BY <2>7, <3>3
      <4>2. hand'[i].missed = hand[i].missed /\ hand'[k].missed = hand[k].missed
        BY <2>3, <3>1, <3>3, <4>1 DEF Answers
      <4> QED BY <4>1, <4>2 DEF CourseworkInv, DuplicatesAreRaces
    <3>4. CASE i = h
      BY <2>7, <3>2, <3>4
    <3>5. CASE k = h
      BY <2>7, <3>2, <3>5
    <3> QED BY <3>3, <3>4, <3>5
  <2> QED BY <2>4, <2>5, <2>6, <2>8, <2>9 DEF CourseworkInv
<1>3. CASE ~(WorkKey(w) /\ Unique(w, hand[h].student))
  <2>1. hand' = [hand EXCEPT ![h].pc = "refused"]
    BY <1>3 DEF StoreAnswer
  <2> QED BY <1>1, <2>1, HandMoves
<1> QED BY <1>2, <1>3

LEMMA GradeInv ==
  ASSUME CourseworkInv, NEW h \in Hands, Grade(h)
  PROVE  CourseworkInv'
<1> DEFINE status == IF work[hand[h].work].kind = "task" THEN "REVIEWED" ELSE "GRADED"
           new == [hand[h] EXCEPT !.status = status]
<1>1. /\ hand[h].pc = "stored" /\ UNCHANGED <<work, draft, subject>> /\ hand[h] \in HandRows
      /\ hand' = [hand EXCEPT ![h] = new]
  BY DEF Grade, CourseworkInv, CourseworkTypeOK, HandRows
<1>2. new \in HandRows /\ new.work = hand[h].work /\ new.student = hand[h].student
      /\ new.pc = hand[h].pc /\ new.missed = hand[h].missed
  BY <1>1 DEF HandRows
<1> HIDE DEF new
<1> QED BY <1>1, <1>2, HandStep DEF HandRows, CourseworkInv

LEMMA CourseworkStepInv ==
  ASSUME CourseworkInv, EnrollmentTypeOK, CourseworkStep
  PROVE  /\ CourseworkInv'
         /\ UNCHANGED <<student, subject, enrolled, job, settled, raced>>
         /\ budget' \in [Events -> Nat]
<1>1. ASSUME NEW w \in Works, NEW x \in Subjects, NEW kind \in {"assignment", "task"},
             DraftWork(w, x, kind)
      PROVE  CourseworkInv'
  BY <1>1, DraftWorkInv
<1>2. ASSUME NEW d \in draft, CreateWork(d)
      PROVE  CourseworkInv'
  BY <1>2, CreateWorkInv
<1>3. ASSUME NEW w \in Works, DeleteWork(w)
      PROVE  CourseworkInv'
  BY <1>3, DeleteWorkInv
<1>4. ASSUME NEW h \in Hands, NEW w \in Works, NEW s \in Students, HandIn(h, w, s)
      PROVE  CourseworkInv'
  BY <1>4, HandInInv
<1>5. ASSUME NEW h \in Hands, CheckEnrolled(h) \/ LookForAnswer(h)
      PROVE  CourseworkInv'
  <2>1. hand[h].pc # "idle" /\ UNCHANGED <<work, draft, subject>>
        /\ \E pc \in {"member", "first", "refused"} :
              /\ hand' = [hand EXCEPT ![h].pc = pc]
              /\ pc = "first" => Answers(hand[h].work, hand[h].student) = {}
    BY <1>5 DEF CheckEnrolled, LookForAnswer, Found, Step, enrollmentVars
  <2> QED BY <2>1, HandMoves
<1>6. ASSUME NEW h \in Hands, StoreAnswer(h)
      PROVE  CourseworkInv'
  BY <1>6, StoreAnswerInv
<1>7. ASSUME NEW h \in Hands, Grade(h)
      PROVE  CourseworkInv'
  BY <1>7, GradeInv
<1>8. CourseworkInv'
  BY <1>1, <1>2, <1>3, <1>4, <1>5, <1>6, <1>7 DEF CourseworkStep
<1>9. /\ UNCHANGED <<student, subject, enrolled, job, settled, raced>>
      /\ budget' = budget \/ Spend("work") \/ Spend("hand") \/ Spend("grade")
  BY DEF CourseworkStep, DraftWork, CreateWork, DeleteWork, HandIn, CheckEnrolled, LookForAnswer,
         Step, StoreAnswer, Grade, enrollmentVars
<1> QED BY <1>8, <1>9, SpendType DEF EnrollmentTypeOK, Events

-----------------------------------------------------------------------------
(* The timetable *)

\* A planner whose look-up found nothing is in no stored class's way but those
\* that were written since.
TimetableInv ==
    /\ TimetableTypeOK
    /\ \A c \in Stored : Entry(c) \in Entries /\ Live(Entry(c).subject)
    /\ \A p \in Planners :
         planner[p].pc # "idle" => planner[p].class \in Classes /\ planner[p].entry \in Entries
    /\ \A p \in Planners : planner[p].pc = "clear" =>
         \A d \in Stored : d # planner[p].class /\ d \notin planner[p].missed
             => ~InTheWay(Entry(d), planner[p].entry)
    /\ ClashesAreRaces

Plans == [pc : {"idle", "asked", "scoped", "clear"}, class : Classes \cup {Nobody},
          entry : Entries \cup {NoEntry}, update : BOOLEAN, missed : SUBSET Classes]

\* Whichever of two classes that clash was stored first, the look-up of the
\* other sees it in the way.
LEMMA ClashInTheWay ==
  ASSUME NEW a \in Entries, NEW b \in Entries, Proper(a), Proper(b), Clash(a, b)
  PROVE  InTheWay(a, b) /\ InTheWay(b, a)
<1>1. a.start \in Nat /\ a.end \in Nat /\ b.start \in Nat /\ b.end \in Nat
  BY EntryAssumption
<1>2. Meet(a, b)
  BY DEF Clash
<1>3. Overlaps(a, b) /\ Overlaps(b, a)
  BY <1>1, <1>2 DEF Meet, Overlaps, Proper
<1>4. \/ /\ (a.room = b.room /\ a.room # None) \/ a.teacher = b.teacher
         /\ OtherGroup(a, b) /\ OtherGroup(b, a)
      \/ a.department = b.department /\ a.semester = b.semester /\ a.section = b.section
  BY DEF Clash, OtherGroup
<1> QED BY <1>3, <1>4 DEF InTheWay

LEMMA TimetableInitInv == TimetableInit => TimetableInv
BY DEF TimetableInit, TimetableInv, TimetableTypeOK, NoPlan, Stored, ClashesAreRaces

LEMMA TimetableStays ==
  ASSUME TimetableInv, UNCHANGED timetableVars, Lasting
  PROVE  TimetableInv'
<1>1. \A c \in Stored : Live(Entry(c).subject) => Live(Entry(c).subject)'
  BY EntryAssumption DEF TimetableInv, Lasting, timetableVars, Live, Entry
<1> QED BY <1>1 DEF TimetableInv, timetableVars, TimetableTypeOK, Stored, Entry, ClashesAreRaces

\* One planner moves, and the classes stay.
LEMMA PlannerMoves ==
  ASSUME TimetableInv, NEW p \in Planners, NEW new \in Plans, planner' = [planner EXCEPT ![p] = new],
         UNCHANGED <<routine, unseen, subject>>,
         new.pc # "idle" => new.class \in Classes /\ new.entry \in Entries,
         new.pc = "clear" =>
           \A d \in Stored : d # new.class /\ d \notin new.missed => ~InTheWay(Entry(d), new.entry)
  PROVE  TimetableInv'
<1>1. planner'[p] = new /\ \A q \in Planners \ {p} : planner'[q] = planner[q]
  BY DEF TimetableInv, TimetableTypeOK
<1>2. TimetableTypeOK'
  BY DEF TimetableInv, TimetableTypeOK, Plans
<1>3. Stored' = Stored /\ Stored \subseteq Classes /\ \A c \in Classes : Entry(c)' = Entry(c)
  BY DEF Stored, Entry
<1>4. ClashesAreRaces'
  BY <1>3 DEF TimetableInv, ClashesAreRaces, Entry
<1>5. \A q \in Planners : planner'[q].pc # "idle" => planner'[q].class \in Classes
                                                      /\ planner'[q].entry \in Entries
  BY <1>1 DEF TimetableInv
<1>6. \A c \in Stored : Entry(c)' \in Entries /\ Live(Entry(c).subject)'
  BY DEF TimetableInv, Live, Entry
<1>7. ASSUME NEW q \in Planners, planner'[q].pc = "clear", NEW d \in Stored,
             d # planner'[q].class, d \notin planner'[q].missed
      PROVE  ~InTheWay(Entry(d), planner'[q].entry)
  BY <1>1, <1>7 DEF TimetableInv
<1>8. \A q \in Planners : planner'[q].pc = "clear" =>
         \A d \in Stored' : d # planner'[q].class /\ d \notin planner'[q].missed
             => ~InTheWay(Entry(d), planner[q].entry)'
  BY <1>3, <1>7 DEF InTheWay, Overlaps, OtherGroup
<1> QED BY <1>2, <1>3, <1>4, <1>5, <1>6, <1>8 DEF TimetableInv

\* A request is refused or put off.
LEMMA AnswerInv ==
  ASSUME TimetableInv, NEW p \in Planners, Answer(p), UNCHANGED <<routine, unseen, subject>>
  PROVE  TimetableInv'
<1>1. NoPlan \in Plans /\ NoPlan.pc = "idle" /\ planner' = [planner EXCEPT ![p] = NoPlan]
  BY DEF NoPlan, Plans, Answer
<1> HIDE DEF NoPlan
<1> QED BY <1>1, PlannerMoves

LEMMA PlanBegins ==
  ASSUME TimetableInv, NEW p \in Planners, NEW c \in Classes, NEW e \in Entries,
         CreateRoutine(p, c, e) \/ UpdateRoutine(p, c, e)
  PROVE  TimetableInv'
<1>1. PICK u \in BOOLEAN : planner' = [planner EXCEPT ![p] =
          [pc |-> "asked", class |-> c, entry |-> e, update |-> u, missed |-> {}]]
  BY DEF CreateRoutine, UpdateRoutine, NoPlan
<1> DEFINE new == [pc |-> "asked", class |-> c, entry |-> e, update |-> u, missed |-> {}]
<1>2. new \in Plans /\ new.pc = "asked" /\ new.class = c /\ new.entry = e
  BY DEF Plans
<1>3. UNCHANGED <<routine, unseen, subject>> /\ planner' = [planner EXCEPT ![p] = new]
  BY <1>1 DEF CreateRoutine, UpdateRoutine
<1> HIDE DEF new
<1> QED BY <1>2, <1>3, PlannerMoves

LEMMA CheckScopeInv ==
  ASSUME TimetableInv, NEW p \in Planners, CheckScope(p)
  PROVE  TimetableInv'
<1> DEFINE new == [planner[p] EXCEPT !.pc = "scoped"]
<1>1. /\ UNCHANGED <<routine, unseen, subject>> /\ planner[p] \in Plans /\ planner[p].pc = "asked"
      /\ Answer(p) \/ planner' = [planner EXCEPT ![p] = new]
  BY DEF CheckScope, enrollmentVars, TimetableInv, TimetableTypeOK, Plans
<1>2. new \in Plans /\ new.pc = "scoped" /\ new.class = planner[p].class
      /\ new.entry = planner[p].entry
  BY <1>1 DEF Plans
<1> HIDE DEF new
<1>3. planner[p].class \in Classes /\ planner[p].entry \in Entries
  BY <1>1 DEF TimetableInv
<1>4. CASE Answer(p)
  BY <1>1, <1>4, AnswerInv
<1>5. CASE planner' = [planner EXCEPT ![p] = new]
  BY <1>1, <1>2, <1>3, <1>5, PlannerMoves
<1> QED BY <1>1, <1>4, <1>5

LEMMA LookForConflictInv ==
  ASSUME TimetableInv, NEW p \in Planners, LookForConflict(p)
  PROVE  TimetableInv'
<1> DEFINE e    == planner[p].entry
           rows == Stored \ (IF planner[p].update THEN {planner[p].class} ELSE {})
           new  == [planner[p] EXCEPT !.pc = "clear"]
<1>1. /\ UNCHANGED <<routine, unseen, subject>> /\ planner[p] \in Plans /\ planner[p].pc = "scoped"
      /\ \/ Answer(p)
         \/ (\A c \in rows : ~InTheWay(Entry(c), e)) /\ planner' = [planner EXCEPT ![p] = new]
  BY DEF LookForConflict, enrollmentVars, TimetableInv, TimetableTypeOK, Plans
<1>2. \A d \in Stored : d # planner[p].class => d \in rows
  OBVIOUS
<1>3. new \in Plans /\ new.pc = "clear" /\ new.class = planner[p].class /\ new.entry = e
  BY <1>1 DEF Plans
<1>4. planner[p].class \in Classes /\ planner[p].entry \in Entries
  BY <1>1 DEF TimetableInv
<1> HIDE DEF new, rows
<1>5. CASE Answer(p)
  BY <1>1, <1>5, AnswerInv
<1>6. CASE (\A c \in rows : ~InTheWay(Entry(c), e)) /\ planner' = [planner EXCEPT ![p] = new]
  BY <1>1, <1>2, <1>3, <1>4, <1>6, PlannerMoves
<1> QED BY <1>1, <1>5, <1>6

\* A class is written: who looked before will not have seen it, and what its
\* own look-up did not see is remembered.
LEMMA StoreRoutineInv ==
  ASSUME TimetableInv, NEW p \in Planners, StoreRoutine(p)
  PROVE  TimetableInv'
<1> SUFFICES ASSUME NEW c, NEW e, c = planner[p].class, e = planner[p].entry
             PROVE  TimetableInv'
  OBVIOUS
<1>1. /\ planner[p].pc = "clear" /\ c \in Classes /\ e \in Entries /\ UNCHANGED subject
      /\ planner[p] \in Plans
  BY DEF StoreRoutine, enrollmentVars, TimetableInv, TimetableTypeOK, Plans
<1>2. CASE Answer(p) /\ UNCHANGED <<routine, unseen>>
  BY <1>1, <1>2, AnswerInv
<1>3. CASE ~(Answer(p) /\ UNCHANGED <<routine, unseen>>)
  <2>1. /\ EntryKey(e)
        /\ routine' = [routine EXCEPT ![c] = [there |-> TRUE, entry |-> e]]
        /\ unseen' = [d \in Classes |-> IF d = c THEN planner[p].missed ELSE unseen[d] \ {c}]
        /\ planner' = [q \in Planners |->
             IF q = p THEN NoPlan
             ELSE IF planner[q].pc = "clear"
             THEN [planner[q] EXCEPT !.missed = planner[q].missed \cup {c}]
             ELSE planner[q]]
    BY <1>3 DEF StoreRoutine
  <2>2. /\ routine' \in [Classes -> [there : BOOLEAN, entry : Entries \cup {NoEntry}]]
        /\ Entry(c)' = e /\ c \in Stored'
        /\ \A d \in Classes \ {c} : Entry(d)' = Entry(d) /\ (d \in Stored' <=> d \in Stored)
    BY <1>1, <2>1 DEF TimetableInv, TimetableTypeOK, Entry, Stored
  <2>3. unseen' \in [Classes -> SUBSET Classes]
    BY <1>1, <2>1 DEF TimetableInv, TimetableTypeOK, Plans
  <2>4. planner'[p] = NoPlan /\ NoPlan \in Plans
    BY <2>1 DEF NoPlan, Plans
  <2>5. ASSUME NEW q \in Planners \ {p}
        PROVE  /\ planner'[q] \in Plans
               /\ planner'[q].pc = planner[q].pc /\ planner'[q].class = planner[q].class
               /\ planner'[q].entry = planner[q].entry
               /\ planner[q].pc = "clear" => planner'[q].missed = planner[q].missed \cup {c}
    <3>1. planner[q] \in Plans
      BY DEF TimetableInv, TimetableTypeOK, Plans
    <3>2. CASE planner[q].pc = "clear"
      <4>1. planner'[q] = [planner[q] EXCEPT !.missed = planner[q].missed \cup {c}]
        BY <2>1, <3>2
      <4> QED BY <1>1, <3>1, <4>1 DEF Plans
    <3>3. CASE planner[q].pc # "clear"
      BY <2>1, <3>1, <3>3
    <3> QED BY <3>2, <3>3
  <2>6. TimetableTypeOK'
    <3>1. planner' = [q \in Planners |-> planner'[q]]
      BY <2>1
    <3>2. planner' \in [Planners -> Plans]
      BY <2>4, <2>5, <3>1
    <3> QED BY <2>2, <2>3, <3>2 DEF TimetableTypeOK, Plans
  <2>7. \A d \in Stored' : Entry(d)' \in Entries /\ Live(Entry(d).subject)'
    <3> SUFFICES ASSUME NEW d \in Stored'
                 PROVE  Entry(d)' \in Entries /\ subject'[Entry(d)'.subject].state = "live"
      BY DEF Live
    <3>1. d \in Classes
      BY DEF Stored
    <3>2. CASE d = c
      BY <1>1, <2>1, <2>2, <3>2 DEF EntryKey, Live
    <3>3. CASE d # c
      BY <1>1, <2>2, <3>1, <3>3 DEF TimetableInv, Live
    <3> QED BY <3>2, <3>3
  <2>8. \A q \in Planners : planner'[q].pc # "idle" => planner'[q].class \in Classes
                                                        /\ planner'[q].entry \in Entries
    BY <2>4, <2>5 DEF NoPlan, TimetableInv
  <2>9. ASSUME NEW q \in Planners, planner'[q].pc = "clear", NEW d \in Stored',
               d # planner'[q].class, d \notin planner'[q].missed
        PROVE  ~InTheWay(Entry(d)', planner'[q].entry)
    <3>1. q # p /\ d \in Classes
      BY <2>4, <2>9 DEF NoPlan, Stored
    <3>2. d # c /\ d \notin planner[q].missed /\ planner[q].pc = "clear"
      BY <2>5, <2>9, <3>1
    <3>3. d \in Stored /\ Entry(d)' = Entry(d)
      BY <2>2, <2>9, <3>1, <3>2
    <3> QED BY <2>5, <2>9, <3>1, <3>2, <3>3 DEF TimetableInv
  <2>10. ASSUME NEW a \in Stored', NEW b \in Stored', a # b,
                Proper(Entry(a)'), Proper(Entry(b)'), Clash(Entry(a)', Entry(b)')
         PROVE  a \in unseen'[b] \/ b \in unseen'[a]
    <3>1. a \in Classes /\ b \in Classes
      BY DEF Stored
    <3>2. InTheWay(Entry(a)', Entry(b)') /\ InTheWay(Entry(b)', Entry(a)')
      BY <2>7, <2>10, ClashInTheWay
    <3>3. ASSUME NEW d \in Classes \ {c}, d \in Stored, InTheWay(Entry(d), e)
          PROVE  d \in unseen'[c]
      BY <1>1, <2>1, <3>3 DEF TimetableInv
    <3>4. CASE a = c
      BY <2>2, <2>10, <3>1, <3>2, <3>3, <3>4
    <3>5. CASE b = c
      BY <2>2, <2>10, <3>1, <3>2, <3>3, <3>5
    <3>6. CASE a # c /\ b # c
      <4>1. a \in Stored /\ b \in Stored /\ Entry(a)' = Entry(a) /\ Entry(b)' = Entry(b)
        BY <2>2, <2>10, <3>1, <3>6
      <4>2. a \in unseen[b] \/ b \in unseen[a]
        BY <2>10, <4>1 DEF TimetableInv, ClashesAreRaces
      <4> QED BY <2>1, <3>1, <3>6, <4>2
    <3> QED BY <3>4, <3>5, <3>6
  <2>11. ClashesAreRaces'
    BY <2>10 DEF ClashesAreRaces
  <2>12. \A q \in Planners : planner'[q].pc = "clear" =>
           \A d \in Stored' : d # planner'[q].class /\ d \notin planner'[q].missed
             => ~InTheWay(Entry(d), planner[q].entry)'
    BY <2>9 DEF InTheWay, Overlaps, OtherGroup
  <2> QED BY <2>6, <2>7, <2>8, <2>11, <2>12 DEF TimetableInv
<1> QED BY <1>2, <1>3

\* Classes are deleted.
LEMMA ClassesGone ==
  ASSUME TimetableInv, UNCHANGED <<planner, unseen>>,
         routine' \in [Classes -> [there : BOOLEAN, entry : Entries \cup {NoEntry}]],
         \A c \in Stored' : c \in Stored /\ Entry(c)' = Entry(c) /\ Live(Entry(c).subject)'
  PROVE  TimetableInv'
<1>1. TimetableTypeOK'
  BY DEF TimetableInv, TimetableTypeOK
<1>2. \A c \in Stored' : Entry(c)' \in Entries /\ Live(Entry(c).subject)'
  BY DEF TimetableInv
<1>3. \A q \in Planners : planner'[q].pc = "clear" =>
         \A d \in Stored' : d # planner'[q].class /\ d \notin planner'[q].missed
           => ~InTheWay(Entry(d)', planner'[q].entry)
  BY DEF TimetableInv
<1>4. \A q \in Planners : planner'[q].pc = "clear" =>
         \A d \in Stored' : d # planner'[q].class /\ d \notin planner'[q].missed
           => ~InTheWay(Entry(d), planner[q].entry)'
  BY <1>3 DEF InTheWay, Overlaps, OtherGroup
<1>5. ASSUME NEW a \in Stored', NEW b \in Stored', a # b,
             Proper(Entry(a)'), Proper(Entry(b)'), Clash(Entry(a)', Entry(b)')
      PROVE  a \in unseen'[b] \/ b \in unseen'[a]
  BY <1>5 DEF TimetableInv, ClashesAreRaces
<1>6. ClashesAreRaces'
  BY <1>5 DEF ClashesAreRaces
<1> QED BY <1>1, <1>2, <1>4, <1>6 DEF TimetableInv

LEMMA DeleteRoutineInv ==
  ASSUME TimetableInv, NEW c \in Classes, DeleteRoutine(c)
  PROVE  TimetableInv'
<1>1. UNCHANGED <<planner, unseen, subject>> /\ routine' = [routine EXCEPT ![c].there = FALSE]
  BY DEF DeleteRoutine
<1>2. routine' \in [Classes -> [there : BOOLEAN, entry : Entries \cup {NoEntry}]]
  BY <1>1 DEF TimetableInv, TimetableTypeOK
<1>3. \A d \in Stored' : d \in Stored /\ Entry(d)' = Entry(d)
  BY <1>1 DEF TimetableInv, TimetableTypeOK, Stored, Entry
<1>4. \A d \in Stored' : Live(Entry(d).subject)'
  BY <1>1, <1>3 DEF TimetableInv, Live
<1> QED BY <1>1, <1>2, <1>3, <1>4, ClassesGone

LEMMA DropRoutinesInv ==
  ASSUME TimetableInv, EnrollmentTypeOK, NEW x \in Subjects, DeleteSubject(x),
         DeleteRoutinesOf(x)
  PROVE  TimetableInv'
<1>1. UNCHANGED <<planner, unseen>> /\ routine' = [c \in Classes |->
         IF Entry(c).subject = x THEN [routine[c] EXCEPT !.there = FALSE] ELSE routine[c]]
  BY DEF DeleteRoutinesOf
<1>2. routine' \in [Classes -> [there : BOOLEAN, entry : Entries \cup {NoEntry}]]
  BY <1>1 DEF TimetableInv, TimetableTypeOK
<1>3. \A d \in Stored' : d \in Stored /\ Entry(d)' = Entry(d) /\ Entry(d).subject # x
  BY <1>1 DEF TimetableInv, TimetableTypeOK, Stored, Entry
<1>4. \A d \in Stored' : Live(Entry(d).subject)'
  <2>1. \A y \in Subjects \ {x} : subject'[y] = subject[y]
    BY DEF DeleteSubject, EnrollmentTypeOK
  <2> QED BY <1>3, <2>1, EntryAssumption DEF TimetableInv, Live
<1> QED BY <1>1, <1>2, <1>3, <1>4, ClassesGone

LEMMA TimetableStepInv ==
  ASSUME TimetableInv, EnrollmentTypeOK, TimetableStep
  PROVE  /\ TimetableInv'
         /\ UNCHANGED <<student, subject, enrolled, job, settled, raced>>
         /\ budget' \in [Events -> Nat]
<1>1. TimetableInv'
  BY PlanBegins, CheckScopeInv, LookForConflictInv, StoreRoutineInv, DeleteRoutineInv
     DEF TimetableStep
<1>2. /\ UNCHANGED <<student, subject, enrolled, job, settled, raced>>
      /\ budget' = budget \/ Spend("plan")
  BY DEF TimetableStep, CreateRoutine, UpdateRoutine, CheckScope, LookForConflict, StoreRoutine,
         DeleteRoutine, enrollmentVars
<1> QED BY <1>1, <1>2, SpendType DEF EnrollmentTypeOK, Events

-----------------------------------------------------------------------------
(* The three together *)

TeachingInv == EnrollmentInv /\ CourseworkInv /\ TimetableInv

\* Only DropSubject ends a subject.
LEMMA EnrollmentLasting ==
  ASSUME EnrollmentTypeOK, EnrollmentStep
  PROVE  Lasting
<1>1. CASE subject' = subject
  BY <1>1 DEF Lasting, Live
<1>2. ASSUME NEW r \in Staff, NEW x \in Subjects, NEW a \in Audiences, UpdateSubject(r, x, a)
      PROVE  Lasting
  BY <1>2 DEF UpdateSubject, Lasting, Live, EnrollmentTypeOK
<1>3. ASSUME NEW r \in Staff, NEW x \in Subjects, NEW a \in Audiences,
             NEW t \in Teachers \cup {Nobody}, CreateSubject(r, x, a, t)
      PROVE  Lasting
  BY <1>3 DEF CreateSubject, Lasting, Live, EnrollmentTypeOK
<1>4. ASSUME NEW x \in Subjects, NEW t \in Teachers, AssignInstructor(x, t)
      PROVE  Lasting
  BY <1>4 DEF AssignInstructor, Lasting, Live, EnrollmentTypeOK
<1>5. \/ subject' = subject
      \/ \E r \in Staff, x \in Subjects, a \in Audiences :
           UpdateSubject(r, x, a) \/ \E t \in Teachers \cup {Nobody} : CreateSubject(r, x, a, t)
      \/ \E x \in Subjects, t \in Teachers : AssignInstructor(x, t)
  BY DEF EnrollmentStep, Fail, Abort, ReadStudents, ReadSubjects, UpdateStudent, ReadMatching,
         ReadExisting, Write, UpdateSubjectEnrollments, AdmitStudent, MoveStudent,
         ToggleUserStatus, DeleteUser
<1> QED BY <1>1, <1>2, <1>3, <1>4, <1>5

LEMMA TeachingInitInv == Init => TeachingInv
BY EnrollmentInitInv, CourseworkInitInv, TimetableInitInv DEF Init, TeachingInv

LEMMA TeachingStep == TeachingInv /\ [Next]_vars => TeachingInv'
<1> SUFFICES ASSUME TeachingInv, [Next]_vars
             PROVE  TeachingInv'
  OBVIOUS
<1>1. EnrollmentInv /\ CourseworkInv /\ TimetableInv /\ EnrollmentTypeOK
  BY DEF TeachingInv, EnrollmentInv, RowInv
<1>2. subject' = subject => Lasting
  BY DEF Lasting, Live
<1>3. CASE EnrollmentStep /\ UNCHANGED <<courseworkVars, timetableVars>>
  BY <1>1, <1>3, EnrollmentStepInv, EnrollmentLasting, CourseworkStays, TimetableStays
     DEF TeachingInv
<1>4. CASE CourseworkStep /\ UNCHANGED timetableVars
  BY <1>1, <1>2, <1>4, CourseworkStepInv, EnrollmentStays, TimetableStays DEF TeachingInv
<1>5. CASE TimetableStep /\ UNCHANGED courseworkVars
  BY <1>1, <1>2, <1>5, TimetableStepInv, EnrollmentStays, CourseworkStays DEF TeachingInv
<1>6. ASSUME NEW x \in Subjects, DropSubject(x)
      PROVE  TeachingInv'
  BY <1>1, <1>6, DropSubjectInv, DropWorksInv, DropRoutinesInv DEF DropSubject, TeachingInv
<1>7. CASE UNCHANGED vars
  <2>1. /\ UNCHANGED <<student, subject, enrolled, job, settled, raced, budget>>
        /\ UNCHANGED courseworkVars /\ UNCHANGED timetableVars
    BY <1>7 DEF vars, enrollmentVars
  <2> QED BY <1>1, <1>2, <2>1, EnrollmentStays, CourseworkStays, TimetableStays
          DEF TeachingInv, EnrollmentTypeOK
<1> QED BY <1>3, <1>4, <1>5, <1>6, <1>7 DEF Next

LEMMA Invariance == Spec => []TeachingInv
BY TeachingInitInv, TeachingStep, PTL DEF Spec

\* Every reachable state has the declared types: a promotion, a transfer and a
\* section assignment that overlap never leave a student without a place.
THEOREM TypeCorrect == Spec => []TypeOK
<1>1. TeachingInv => TypeOK
  BY DEF TeachingInv, EnrollmentInv, RowInv, CourseworkInv, TimetableInv, TypeOK
<1> QED BY <1>1, Invariance, PTL

\* A request that ran alone, or only beside requests that create, leaves the
\* enrollment of its pairs as the rule says, for any number of requests.
THEOREM EnrolledByRule == Spec => []InStep
<1>1. TeachingInv => InStep
  BY EnrollmentInStep DEF TeachingInv
<1> QED BY <1>1, Invariance, PTL

\* Two answers of a student to one work are answers to an assignment, and the
\* form was sent again before the first was stored; a task has one answer,
\* however many requests hand one in.
THEOREM OnlyRacesDuplicate == Spec => []DuplicatesAreRaces
<1>1. TeachingInv => DuplicatesAreRaces
  BY DEF TeachingInv, CourseworkInv
<1> QED BY <1>1, Invariance, PTL

\* Nothing outlives the subject, work or account it belongs to.
THEOREM NoOrphans == Spec => []NothingOrphaned
<1>1. TeachingInv => NothingOrphaned
  BY DEF TeachingInv, EnrollmentInv, RowInv, RowsOK, Known, CourseworkInv, TimetableInv,
         NothingOrphaned
<1> QED BY <1>1, Invariance, PTL

\* Two classes clash only when one was written after the look-up of the other.
THEOREM OnlyRacesClash == Spec => []ClashesAreRaces
<1>1. TeachingInv => ClashesAreRaces
  BY DEF TeachingInv, TimetableInv
<1> QED BY <1>1, Invariance, PTL
=============================================================================
