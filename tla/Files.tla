-------------------------------- MODULE Files --------------------------------
(***************************************************************************)
(* Uploaded files: what the disk or the bucket holds, the UploadedFile rows *)
(* that say whose a file is, and the rows that show it.  No transaction     *)
(* spans two of the three.  Contents are abstracted: a file that is not     *)
(* what it says it is, or too large, never gets here.                       *)
(***************************************************************************)
EXTENDS Naturals, FiniteSets

CONSTANTS
    Users,
    Role,           \* [Users -> Roles]
    Subjects,
    Departments,
    Items,          \* rows with a file: assignments, tasks, materials and answers
    Names,          \* file names, each generated once
    Requests,       \* requests in progress
    Nobody,         \* no user, subject, department, item or file
    Budgets         \* bound: how often each event happens, by scenario

Roles == {"ADMIN", "COORDINATOR", "INSTRUCTOR", "STUDENT"}
Events == {"picture", "sheet", "work", "answer", "edit", "ask", "delete", "assign", "join",
           "fault", "crash"}

ASSUME RoleAssumption == Role \in [Users -> Roles]
ASSUME NobodyAssumption == Nobody \notin Users \cup Subjects \cup Departments \cup Items \cup Names
ASSUME RowsAssumption == Users \cap (Items \cup Subjects) = {}
ASSUME BudgetAssumption == Budgets \subseteq [Events -> Nat]

VARIABLES
    stored,         \* the files that are there
    record,         \* UploadedFile rows by name, with their stamp
    item,           \* Assignment, Task, StudyMaterial, Submission, TaskSubmission rows
    avatar,         \* User.avatar
    enrolled,       \* SubjectEnrollment rows
    department,     \* Coordinator.department and Subject.department
    holder,         \* Subject.instructorId
    request,        \* requests that upload or read a file
    held,           \* (history) which row has ever shown which file
    entitled,       \* (history) readers with a right to the file since they asked
    budget          \* events left in the scenario

rows == <<item, avatar, held>>
vars == <<stored, record, item, avatar, enrolled, department, holder, request, held, entitled,
          budget>>

Kinds == {"assignment", "task", "material", "answer"}
Optional(S) == S \cup {Nobody}
Instructors == {u \in Users : Role[u] = "INSTRUCTOR"}
Coordinators == {u \in Users : Role[u] = "COORDINATOR"}
Students == {u \in Users : Role[u] = "STUDENT"}

NoRecord == [state |-> "none", by |-> Nobody, entity |-> Nobody]
NoItem == [state |-> "none", kind |-> "task", subject |-> Nobody, teacher |-> Nobody,
           student |-> Nobody, of |-> Nobody, file |-> Nobody]
NoRequest == [op |-> "none", pc |-> "idle", user |-> Nobody, department |-> Nobody, kind |-> "task",
              subject |-> Nobody, item |-> Nobody, teacher |-> Nobody, file |-> Nobody,
              old |-> Nobody, by |-> Nobody, entity |-> Nobody]

Records == [state : {"none", "named", "kept", "gone"}, by : Optional(Users),
            entity : Optional(Items \cup Users)]
Rows == [state : {"none", "live", "gone"}, kind : Kinds, subject : Optional(Subjects),
         teacher : Optional(Users), student : Optional(Users), of : Optional(Items),
         file : Optional(Names)]
Calls == [op : {"none", "avatar", "sheet", "create", "update", "read"},
          pc : {"idle", "store", "register", "look", "write", "attach", "unlink", "forget",
                "asked", "row", "member", "send", "sent"},
          user : Optional(Users), department : Optional(Departments), kind : Kinds,
          subject : Optional(Subjects),
          item : Optional(Items), teacher : Optional(Users), file : Optional(Names),
          old : Optional(Names), by : Optional(Users), entity : Optional(Items \cup Users)]

Init ==
    /\ stored = {}
    /\ record = [f \in Names |-> NoRecord]
    /\ item = [i \in Items |-> NoItem]
    /\ avatar = [u \in Users |-> Nobody]
    /\ enrolled \in SUBSET (Students \X Subjects)
    /\ department \in [Coordinators \cup Subjects -> Optional(Departments)]
    /\ holder \in [Subjects -> Instructors]
    /\ request = [q \in Requests |-> NoRequest]
    /\ held = {}
    /\ entitled = [q \in Requests |-> FALSE]
    /\ budget \in Budgets

Spend(what) ==
    /\ budget[what] > 0
    /\ budget' = [budget EXCEPT ![what] = budget[what] - 1]

Live(i) == item[i].state = "live"

Become(q, r) == request' = [request EXCEPT ![q] = r]
Goto(q, pc) == Become(q, [request[q] EXCEPT !.pc = pc])
Done(q) == Become(q, NoRequest)
At(q, pc) == request[q].pc = pc

-----------------------------------------------------------------------------
(* Uploads *)

\* Which role may do what, by the routes.
May == {<<"ADMIN", "create", "assignment">>, <<"ADMIN", "update", "assignment">>,
        <<"INSTRUCTOR", "create", "task">>, <<"INSTRUCTOR", "update", "task">>,
        <<"INSTRUCTOR", "create", "material">>, <<"COORDINATOR", "create", "material">>,
        <<"STUDENT", "create", "answer">>}

\* protect loads the user once, a coordinator with the department: that is the
\* one every later check of the request compares.
DepartmentOf(u) == IF u \in Coordinators THEN department[u] ELSE Nobody
Call(u, op, kind, x, i) ==
    [NoRequest EXCEPT !.op = op, !.user = u, !.department = DepartmentOf(u), !.kind = kind,
                      !.subject = x, !.item = i]

\* What a request of user u is about: a new work of a subject, an answer to a
\* work, or a row that is there.
Asked(u) ==
    {Call(u, "create", kind, x, Nobody) : kind \in Kinds \ {"answer"}, x \in Subjects}
    \cup {Call(u, "create", "answer", Nobody, i) : i \in Items}
    \cup {Call(u, "update", item[i].kind, Nobody, i) : i \in {j \in Items : Live(j)}}
Allowed(r) == <<Role[r.user], r.op, r.kind>> \in May

Event(r) == CASE r.op = "avatar" -> "picture"
              [] r.op = "sheet" -> "sheet"
              [] r.kind = "answer" /\ r.op = "create" -> "answer"
              [] OTHER -> "work"

Upload(q, r) ==
    /\ Spend(Event(r))
    /\ At(q, "idle")
    /\ Become(q, [r EXCEPT !.pc = "store"])
    /\ UNCHANGED <<stored, record, rows, enrolled, department, holder>>

\* A task needs no file, and a change needs no new one.
Edit(q, r) ==
    /\ Spend("edit")
    /\ At(q, "idle")
    /\ r.kind = "task" \/ r.op = "update"
    /\ Become(q, [r EXCEPT !.pc = "look"])
    /\ UNCHANGED <<stored, record, rows, enrolled, department, holder>>

\* storeValidatedUpload, under a name of its own.
Store(q, f) ==
    /\ At(q, "store")
    /\ record[f].state = "none"
    /\ stored' = stored \cup {f}
    /\ record' = [record EXCEPT ![f].state = "named"]
    /\ Become(q, [request[q] EXCEPT !.pc = "register", !.file = f])
    /\ UNCHANGED <<rows, enrolled, department, holder, budget>>

\* registerUploadedFile
Register(q) ==
    /\ At(q, "register")
    /\ record' = [record EXCEPT ![request[q].file] =
                    [state |-> "kept", by |-> request[q].user, entity |-> Nobody]]
    /\ Goto(q, "look")
    /\ UNCHANGED <<stored, rows, enrolled, department, holder, budget>>

\* It is not registered: an image and a spreadsheet are deleted again, if that
\* succeeds; a PDF stays.
NotRegistered(q) ==
    /\ Spend("fault")
    /\ At(q, "register")
    /\ Done(q)
    /\ \/ stored' = stored
       \/ /\ request[q].op \in {"avatar", "sheet"}
          /\ stored' = stored \ {request[q].file}
    /\ UNCHANGED <<record, rows, enrolled, department, holder>>

-----------------------------------------------------------------------------
(* Handlers *)

\* The answers of student u to work i.
Answers(i, u) == {j \in Items : Live(j) /\ item[j].of = i /\ item[j].student = u}

\* (mutant) No department is the department of every subject that has none.
AnyDepartment(d, x) == department[x] = d

\* Subject x is of department d, and d is one.
InDepartment(d, x) == d # Nobody /\ department[x] = d

\* resolveAssignmentManager, resolveInstructorTaskSubject, resolveMaterialManager
Manages(r) ==
    /\ holder[r.subject] # Nobody
    /\ Role[r.user] = "INSTRUCTOR" => holder[r.subject] = r.user
    /\ Role[r.user] = "COORDINATOR" => InDepartment(r.department, r.subject)

LookUp(q) ==
    LET r == request[q]
    IN  /\ At(q, "look")
        /\ \/ /\ r.op = "avatar"
              /\ Become(q, [r EXCEPT !.pc = "write", !.old = avatar[r.user]])
           \/ /\ r.op = "sheet"
              /\ Become(q, [r EXCEPT !.pc = "unlink", !.old = r.file])
           \/ /\ r.op = "create" /\ r.kind # "answer"
              /\ Manages(r)
              /\ Become(q, [r EXCEPT !.pc = "write", !.teacher = holder[r.subject]])
           \/ /\ r.op = "update"
              /\ Live(r.item)
              /\ r.kind = "task" => holder[item[r.item].subject] = r.user
              /\ Become(q, [r EXCEPT !.pc = "write", !.old = item[r.item].file])
           \/ /\ r.kind = "answer"
              /\ Live(r.item) /\ item[r.item].kind \in {"assignment", "task"}
              /\ <<r.user, item[r.item].subject>> \in enrolled
              /\ Answers(r.item, r.user) = {}
              /\ Goto(q, "write")
        /\ UNCHANGED <<stored, record, rows, enrolled, department, holder, budget>>

\* validate(schema) or a look-up refuses, or the sheet was one of new student
\* ids, which bulkUpdateStudentIds keeps: the file stays.
Refuse(q) ==
    /\ At(q, "look")
    /\ request[q].op # "avatar"
    /\ Done(q)
    /\ UNCHANGED <<stored, record, rows, enrolled, department, holder, budget>>

Attaches(q, r) == IF r.file = Nobody THEN Done(q) ELSE Become(q, [r EXCEPT !.pc = "attach"])

\* user.update of uploadAvatar
SetAvatar(q) ==
    LET r == request[q]
    IN  /\ At(q, "write") /\ r.op = "avatar"
        /\ avatar' = [avatar EXCEPT ![r.user] = r.file]
        /\ held' = held \cup {<<r.file, r.user>>}
        /\ Attaches(q, r)
        /\ UNCHANGED <<stored, record, item, enrolled, department, holder, budget>>

\* createAssignment, createTask, createMaterial
CreateItem(q, i) ==
    LET r == request[q]
    IN  /\ At(q, "write") /\ r.op = "create" /\ r.kind # "answer"
        /\ item[i].state = "none"
        /\ item' = [item EXCEPT ![i] =
             [state |-> "live", kind |-> r.kind, subject |-> r.subject, teacher |-> r.teacher,
              student |-> Nobody, of |-> Nobody, file |-> r.file]]
        /\ held' = held \cup {<<r.file, i>>}
        /\ Attaches(q, [r EXCEPT !.item = i])
        /\ UNCHANGED <<stored, record, avatar, enrolled, department, holder, budget>>

\* submitAssignment, submitTask: a work that is still there; one answer to a task.
CreateAnswer(q, i) ==
    LET r == request[q]
    IN  /\ At(q, "write") /\ r.kind = "answer" /\ r.op = "create"
        /\ item[i].state = "none"
        /\ Live(r.item)
        /\ item[r.item].kind = "task" => Answers(r.item, r.user) = {}
        /\ item' = [item EXCEPT ![i] =
             [state |-> "live", kind |-> "answer", subject |-> item[r.item].subject,
              teacher |-> item[r.item].teacher, student |-> r.user, of |-> r.item,
              file |-> r.file]]
        /\ held' = held \cup {<<r.file, i>>}
        /\ Attaches(q, [r EXCEPT !.item = i])
        /\ UNCHANGED <<stored, record, avatar, enrolled, department, holder, budget>>

\* updateAssignment, updateTask: without a new file the one it read is written.
UpdateItem(q) ==
    LET r == request[q]
        f == IF r.file # Nobody THEN r.file ELSE r.old
    IN  /\ At(q, "write") /\ r.op = "update"
        /\ Live(r.item)
        /\ item' = [item EXCEPT ![r.item].file = f]
        /\ held' = held \cup {<<f, r.item>>}
        /\ Attaches(q, r)
        /\ UNCHANGED <<stored, record, avatar, enrolled, department, holder, budget>>

\* The work is gone, or the index refuses the answer.
Rejected(q) ==
    LET r == request[q]
    IN  /\ At(q, "write")
        /\ \/ r.op = "update" /\ ~Live(r.item)
           \/ /\ r.kind = "answer" /\ r.op = "create"
              /\ \/ ~Live(r.item)
                 \/ item[r.item].kind = "task" /\ Answers(r.item, r.user) # {}
        /\ Done(q)
        /\ UNCHANGED <<stored, record, rows, enrolled, department, holder, budget>>

\* (mutant) The kind of the row and its id are swapped.
EntityType(r) == r.kind

\* The row a file is stamped with: the avatar's user or the item.
Entity(r) == IF r.op = "avatar" THEN r.user ELSE r.item

\* attachUploadedFileToEntity; then uploadAvatar removes the picture it read.
Attach(q) ==
    LET r == request[q]
    IN  /\ At(q, "attach")
        /\ record' = [record EXCEPT ![r.file].entity = Entity(r)]
        /\ IF r.op = "avatar" /\ r.old # Nobody THEN Goto(q, "unlink") ELSE Done(q)
        /\ UNCHANGED <<stored, rows, enrolled, department, holder, budget>>

\* (mutant) Every handler removes its upload when it fails.
CleansAlways(r) == r.file # Nobody

\* The catch block of uploadAvatar; no other handler has one.
CleansUp(r) == r.op = "avatar"

\* A statement of the database fails: uploadAvatar removes the new picture,
\* whether or not the user has it by now; the others leave everything.
DatabaseFails(q) ==
    LET r == request[q]
    IN  /\ Spend("fault")
        /\ request[q].pc \in {"look", "write", "attach"}
        /\ IF CleansUp(r) THEN Become(q, [r EXCEPT !.pc = "unlink", !.old = r.file])
                          ELSE Done(q)
        /\ UNCHANGED <<stored, record, rows, enrolled, department, holder>>

\* removeUploadedFile: first the file, then its row; what fails is only logged.
Unlink(q) ==
    /\ At(q, "unlink")
    /\ stored' = stored \ {request[q].old}
    /\ Goto(q, "forget")
    /\ UNCHANGED <<record, rows, enrolled, department, holder, budget>>

Forget(q) ==
    /\ At(q, "forget")
    /\ record' = [record EXCEPT ![request[q].old].state = "gone"]
    /\ Done(q)
    /\ UNCHANGED <<stored, rows, enrolled, department, holder, budget>>

NotRemoved(q) ==
    /\ Spend("fault")
    /\ request[q].pc \in {"unlink", "forget"}
    /\ Done(q)
    /\ UNCHANGED <<stored, record, rows, enrolled, department, holder>>

\* deleteAssignment, deleteTask, deleteMaterial: the answers go with the work,
\* the files stay.  One step: what a coordinator may delete, the administrator may.
DeleteItem(i, u) ==
    /\ Spend("delete")
    /\ Live(i)
    /\ \/ item[i].kind = "assignment" /\ Role[u] = "ADMIN"
       \/ item[i].kind = "task" /\ Role[u] = "INSTRUCTOR" /\ holder[item[i].subject] = u
       \/ /\ item[i].kind = "material"
          /\ \/ Role[u] = "INSTRUCTOR" /\ item[i].teacher = u
             \/ Role[u] = "COORDINATOR" /\ InDepartment(department[u], item[i].subject)
             \/ Role[u] = "ADMIN"
    /\ item' = [j \in Items |-> IF Live(j) /\ (j = i \/ item[j].of = i)
                                THEN [item[j] EXCEPT !.state = "gone"] ELSE item[j]]
    /\ UNCHANGED <<stored, record, avatar, held, enrolled, department, holder, request>>

-----------------------------------------------------------------------------
(* Reading a file *)

\* A request passes protect.
Ask(q, u, f) ==
    /\ Spend("ask")
    /\ At(q, "idle")
    /\ Become(q, [NoRequest EXCEPT !.op = "read", !.pc = "asked", !.user = u,
                                   !.department = DepartmentOf(u), !.file = f])
    /\ UNCHANGED <<stored, record, rows, enrolled, department, holder>>

\* serveUploadedFile reads the file's row; without one there is nothing to read.
ReadRecord(q) ==
    LET r == request[q]
    IN  /\ At(q, "asked")
        /\ IF record[r.file].state = "kept"
           THEN Become(q, [r EXCEPT !.pc = "row", !.by = record[r.file].by,
                                    !.entity = record[r.file].entity])
           ELSE Done(q)
        /\ UNCHANGED <<stored, record, rows, enrolled, department, holder, budget>>

\* canAccessUploadedFileRecord
OwnRecord(r) ==
    \/ r.by = r.user /\ (Role[r.user] # "COORDINATOR" \/ r.entity \notin Items)
    \/ r.entity = r.user
    \/ Role[r.user] = "ADMIN"

\* (mutant) The submission's student is not compared.
AnyAnswer(r) ==
    \/ Role[r.user] = "INSTRUCTOR" /\ item[r.entity].teacher = r.user
    \/ Role[r.user] = "STUDENT" /\ item[r.entity].kind = "answer"

\* canAccessAssignmentFile and the four others, of a row that is there.
RowAllows(r) ==
    \/ Role[r.user] = "INSTRUCTOR" /\ item[r.entity].teacher = r.user
    \/ /\ Role[r.user] = "STUDENT"
       /\ item[r.entity].kind = "answer" /\ item[r.entity].student = r.user

\* A student of a work and a coordinator depend on a second look-up.
AsksMember(r) ==
    \/ Role[r.user] = "COORDINATOR"
    \/ Role[r.user] = "STUDENT" /\ item[r.entity].kind # "answer"

\* canAccessUploadedFileEntity
CheckRow(q) ==
    LET r == request[q]
        there == r.entity \in Items /\ Live(r.entity)
    IN  /\ At(q, "row")
        /\ \/ OwnRecord(r) /\ Goto(q, "send")
           \/ ~OwnRecord(r) /\ there /\ RowAllows(r) /\ Goto(q, "send")
           \/ ~OwnRecord(r) /\ there /\ AsksMember(r) /\ Goto(q, "member")
           \/ ~OwnRecord(r) /\ ~(there /\ (RowAllows(r) \/ AsksMember(r))) /\ Done(q)
        /\ UNCHANGED <<stored, record, rows, enrolled, department, holder, budget>>

\* isStudentEnrolledInSubject reads the enrollment; canCoordinatorAccessSubject
\* reads the subject's department, and has the coordinator's from protect.
CheckMember(q) ==
    LET r == request[q]
        x == item[r.entity].subject
    IN  /\ At(q, "member")
        /\ IF \/ Role[r.user] = "STUDENT" /\ <<r.user, x>> \in enrolled
              \/ Role[r.user] = "COORDINATOR" /\ InDepartment(r.department, x)
           THEN Goto(q, "send") ELSE Done(q)
        /\ UNCHANGED <<stored, record, rows, enrolled, department, holder, budget>>

\* sendUploadFile
Send(q) ==
    /\ At(q, "send")
    /\ IF request[q].file \in stored THEN Goto(q, "sent") ELSE Done(q)
    /\ UNCHANGED <<stored, record, rows, enrolled, department, holder, budget>>

Finish(q) ==
    /\ At(q, "sent")
    /\ Done(q)
    /\ UNCHANGED <<stored, record, rows, enrolled, department, holder, budget>>

-----------------------------------------------------------------------------
(* Around them *)

\* assignInstructor
AssignInstructor(x, u) ==
    /\ Spend("assign")
    /\ holder' = [holder EXCEPT ![x] = u]
    /\ UNCHANGED <<stored, record, rows, enrolled, department, request>>

\* A student is enrolled, or no more.
ChangeEnrollment(u, x) ==
    /\ Spend("join")
    /\ enrolled' = IF <<u, x>> \in enrolled THEN enrolled \ {<<u, x>>} ELSE enrolled \cup {<<u, x>>}
    /\ UNCHANGED <<stored, record, rows, department, holder, request>>

\* A coordinator or a subject gets another department, or none: updateUser,
\* updateSubject, and onDelete SetNull when the department is deleted.
ChangeDepartment(e, d) ==
    /\ Spend("join")
    /\ department' = [department EXCEPT ![e] = d]
    /\ UNCHANGED <<stored, record, rows, enrolled, holder, request>>

\* The process is killed; files and rows stay as they are.
Crash ==
    /\ Spend("crash")
    /\ request' = [q \in Requests |-> NoRequest]
    /\ UNCHANGED <<stored, record, rows, enrolled, department, holder>>

\* (history) Who has a right to the file asked for: an administrator, who
\* uploaded it, whom it shows, and those who may see a row that shows or once
\* showed it; a coordinator counts as of the department they had when they asked.
Entitled(r) ==
    \/ Role[r.user] = "ADMIN"
    \/ /\ record[r.file].by = r.user
       /\ Role[r.user] = "COORDINATOR" => record[r.file].entity \notin Items
    \/ <<r.file, r.user>> \in held
    \/ \E i \in Items :
          /\ <<r.file, i>> \in held
          /\ \/ Role[r.user] = "INSTRUCTOR" /\ item[i].teacher = r.user
             \/ /\ Role[r.user] = "COORDINATOR"
                /\ r.department \in Departments /\ r.department = department[item[i].subject]
             \/ /\ Role[r.user] = "STUDENT"
                /\ IF item[i].kind = "answer" THEN item[i].student = r.user
                   ELSE <<r.user, item[i].subject>> \in enrolled

UploadStep ==
    \/ \E q \in Requests, u \in Users, op \in {"avatar", "sheet"} :
          /\ op = "sheet" => Role[u] \in {"ADMIN", "COORDINATOR"}
          /\ Upload(q, Call(u, op, "task", Nobody, Nobody))
    \/ \E q \in Requests, u \in Users : \E r \in Asked(u) :
          Allowed(r) /\ (Upload(q, r) \/ Edit(q, r))
    \/ \E q \in Requests, f \in Names : Store(q, f)
    \/ \E q \in Requests : Register(q) \/ NotRegistered(q)

HandlerStep ==
    \/ \E q \in Requests :
          \/ LookUp(q) \/ Refuse(q)
          \/ SetAvatar(q) \/ UpdateItem(q) \/ Rejected(q)
          \/ Attach(q) \/ DatabaseFails(q)
          \/ Unlink(q) \/ Forget(q) \/ NotRemoved(q)
    \/ \E q \in Requests, i \in Items : CreateItem(q, i) \/ CreateAnswer(q, i)
    \/ \E i \in Items, u \in Users : DeleteItem(i, u)

ReadStep ==
    \/ \E q \in Requests, u \in Users, f \in Names : Ask(q, u, f)
    \/ \E q \in Requests : ReadRecord(q) \/ CheckRow(q) \/ CheckMember(q) \/ Send(q) \/ Finish(q)

OtherStep ==
    \/ \E x \in Subjects, u \in Optional(Instructors) : AssignInstructor(x, u)
    \/ \E u \in Students, x \in Subjects : ChangeEnrollment(u, x)
    \/ \E e \in Coordinators \cup Subjects, d \in Optional(Departments) : ChangeDepartment(e, d)
    \/ Crash

Next ==
    /\ UploadStep \/ HandlerStep \/ ReadStep \/ OtherStep
    /\ entitled' = [q \in Requests |->
          request[q].op = "read" /\ (entitled[q] \/ Entitled(request[q]))]

Spec == Init /\ [][Next]_vars

-----------------------------------------------------------------------------
(* Properties *)

TypeOK ==
    /\ stored \subseteq Names
    /\ record \in [Names -> Records]
    /\ item \in [Items -> Rows]
    /\ avatar \in [Users -> Optional(Names)]
    /\ enrolled \subseteq Users \X Subjects
    /\ department \in [Coordinators \cup Subjects -> Optional(Departments)]
    /\ holder \in [Subjects -> Optional(Users)]
    /\ request \in [Requests -> Calls]
    /\ held \subseteq Optional(Names) \X (Items \cup Users)
    /\ entitled \in [Requests -> BOOLEAN]
    /\ budget \in [Events -> Nat]

\* A file is sent only to someone who had a right to it at some moment since
\* they asked, though serveUploadedFile reads the file's row, the row it is
\* stamped with and the enrollment or the subject's department one after the
\* other.  The department of a coordinator is the one protect loaded: who leaves
\* it while the file is being stamped is still sent the file.
SentToEntitled == \A q \in Requests : request[q].pc = "sent" => entitled[q]

\* What an assignment, task, material or answer shows is stored and has its
\* row, whatever failed and whoever uploads, replaces or deletes meanwhile; so
\* is an avatar, unless its upload failed after the user had it.
NothingDangling ==
    /\ \A i \in Items : Live(i) /\ item[i].file # Nobody =>
          item[i].file \in stored /\ record[item[i].file].state = "kept"
    /\ \A u \in Users : avatar[u] # Nobody /\ record[avatar[u]].entity = u =>
          avatar[u] \in stored /\ record[avatar[u]].state = "kept"

InFlight(f) == \E q \in Requests : request[q].op \notin {"none", "read"} /\ request[q].file = f

\* upload.service.js:395: "Every uploaded file is tracked in UploadedFile (created
\* on upload and stamped with entityType/entityId when attached to its owning
\* entity)": once its request is over, the file of a row is stamped with it.
EveryFileStamped ==
    \A i \in Items : Live(i) /\ item[i].file # Nobody /\ ~InFlight(item[i].file) =>
        record[item[i].file].entity = i
=============================================================================
