----------------------------- MODULE Admissions -----------------------------
(***************************************************************************)
(* The doors to an account: a person applies and staff convert the         *)
(* application, or staff enter a student by hand.  A deleted account gives *)
(* up its e-mail address and keeps its roll number until somebody needs    *)
(* the number.  Look-ups and writes of a request are apart; what settles a *)
(* race is the unique index on the e-mail and on the roll number.          *)
(***************************************************************************)
EXTENDS Naturals, FiniteSets

CONSTANTS
    Accounts,       \* bound: rows of User, in the order of their creation
    Founders,       \* accounts of administrators that exist at the start
    Emails,         \* addresses people apply with
    Nobody,         \* no account or address
    Rolls,          \* roll numbers
    MaxForms,       \* bound: applications by one address
    Staff,          \* requests in progress
    Budgets         \* bound: how often each event happens, by scenario

ASSUME AccountAssumption == Founders \subseteq Accounts /\ IsFiniteSet(Accounts)
ASSUME NobodyAssumption == Nobody \notin Accounts \cup Emails
ASSUME BoundAssumption == MaxForms \in Nat /\ Rolls \subseteq Nat \ {0} /\ IsFiniteSet(Rolls)

Events == {"intake", "review", "discard", "admit", "convert", "expel", "renumber",
           "file", "fault", "crash", "guess"}
ASSUME BudgetAssumption == Budgets \subseteq [Events -> Nat]

VARIABLES
    account,        \* User and Student rows
    form,           \* StudentApplication by address
    request,
    budget          \* events left in the scenario

admissionVars == <<account, form, request, budget>>

NoAccount == [status |-> "none", role |-> "student", email |-> Nobody, roll |-> 0]
NoForm == [id |-> 0, status |-> "none", linked |-> Nobody]
NoRequest == [op |-> "none", pc |-> "idle", email |-> Nobody, account |-> Nobody,
              roll |-> 0, new |-> 0, form |-> 0]

AdmissionsTypeOK ==
    /\ account \in [Accounts -> [status : {"none", "live", "deleted", "purged"},
                                 role : {"admin", "student"},
                                 email : Emails \cup {Nobody}, roll : Rolls \cup {0}]]
    /\ form \in [Emails -> [id : 0..MaxForms,
                            status : {"none", "PENDING", "REVIEWED", "CONVERTED"},
                            linked : Accounts \cup {Nobody}]]
    /\ request \in [Staff -> [op : {"none", "intake", "admit", "convert", "expel", "renumber"},
                              pc : {"idle", "look", "number", "write", "mark"},
                              email : Emails \cup {Nobody},
                              account : Accounts \cup {Nobody},
                              roll : Rolls \cup {0}, new : Rolls \cup {0},
                              form : 0..MaxForms]]
    /\ budget \in [Events -> Nat]

AdmissionsInit ==
    /\ account = [a \in Accounts |->
         IF a \in Founders THEN [NoAccount EXCEPT !.status = "live", !.role = "admin"]
                           ELSE NoAccount]
    /\ form = [e \in Emails |-> NoForm]
    /\ request = [r \in Staff |-> NoRequest]
    /\ budget \in Budgets

Spend(what) ==
    /\ budget[what] > 0
    /\ budget' = [budget EXCEPT ![what] = budget[what] - 1]

-----------------------------------------------------------------------------
(* Rows and their unique indexes *)

Live(a) == account[a].status = "live"
Stored(a) == account[a].status \in {"live", "deleted"}
Holder(n) == {a \in Accounts : Stored(a) /\ account[a].roll = n}
Known(e) == \E a \in Accounts : Stored(a) /\ account[a].email = e

\* (mutant) A check of the address alone.
AddressTaken(e, n) == Known(e)

\* User.email and Student.rollNumber are unique.
Taken(e, n) == Known(e) \/ Holder(n) # {}

Unborn == {a \in Accounts : account[a].status = "none"}

\* deleteStaleDeletedStudentAccounts: deleted accounts leave for good when
\* their roll number is needed.
Stale(numbers) == {a \in Accounts : account[a].status = "deleted" /\ account[a].roll \in numbers}
Purged(A) == [a \in Accounts |->
                IF a \in A THEN [NoAccount EXCEPT !.status = "purged"] ELSE account[a]]

Student(e, n) == [status |-> "live", role |-> "student", email |-> e, roll |-> n]

-----------------------------------------------------------------------------
(* Requests *)

Start(r, R) ==
    /\ request[r].op = "none"
    /\ request' = [request EXCEPT ![r] = R]

Goto(r, pc) == request' = [request EXCEPT ![r].pc = pc]
Done(r) == request' = [request EXCEPT ![r] = NoRequest]
At(r, op, pc) == request[r].op = op /\ request[r].pc = pc

\* submitStudentIntake: only a decided application may be replaced.
SubmitStudentIntake(r, e) ==
    /\ Spend("intake")
    /\ form[e].status \in {"none", "REVIEWED", "CONVERTED"}
    /\ Start(r, [NoRequest EXCEPT !.op = "intake", !.pc = "look", !.email = e])
    /\ UNCHANGED <<account, form>>

IntakeLook(r) ==
    /\ At(r, "intake", "look")
    /\ IF Known(request[r].email) THEN Done(r) ELSE Goto(r, "write")
    /\ UNCHANGED <<account, form, budget>>

\* The upsert keeps the row that is there and forgets its account.
IntakeWrite(r) ==
    LET e == request[r].email
    IN  /\ At(r, "intake", "write")
        /\ form[e].status = "none" => form[e].id < MaxForms
        /\ form' = [form EXCEPT ![e] =
             [id     |-> IF form[e].status = "none" THEN form[e].id + 1 ELSE form[e].id,
              status |-> "PENDING", linked |-> Nobody]]
        /\ Done(r)
        /\ UNCHANGED <<account, budget>>

\* updateStudentApplicationStatus, whatever the status is by now.
UpdateStudentApplicationStatus(e, status) ==
    /\ Spend("review")
    /\ form[e].status # "none"
    /\ form' = [form EXCEPT ![e].status = status]
    /\ UNCHANGED <<account, request>>

DeleteStudentApplication(e) ==
    /\ Spend("discard")
    /\ form[e].status # "none"
    /\ form' = [form EXCEPT ![e] = [NoForm EXCEPT !.id = form[e].id]]
    /\ UNCHANGED <<account, request>>

\* createStudentFromApplication is refused while the linked account lives.
CreateStudentFromApplication(r, e) ==
    /\ Spend("convert")
    /\ form[e].status # "none"
    /\ form[e].linked # Nobody => ~Live(form[e].linked)
    /\ Start(r, [NoRequest EXCEPT !.op = "convert", !.pc = "look", !.email = e,
                                  !.form = form[e].id])
    /\ UNCHANGED <<account, form>>

ConvertLook(r) ==
    /\ At(r, "convert", "look")
    /\ IF Known(request[r].email) THEN Done(r) ELSE Goto(r, "number")
    /\ UNCHANGED <<account, form, budget>>

\* generateStudentId: one more than the highest number of a stored account.
NextRoll(n) ==
    /\ \A a \in Accounts : Stored(a) => account[a].roll < n
    /\ n = 1 \/ Holder(n - 1) # {}

ConvertNumber(r) ==
    /\ At(r, "convert", "number")
    /\ \E n \in Rolls : /\ NextRoll(n)
                        /\ request' = [request EXCEPT ![r].pc = "write", ![r].roll = n]
    /\ UNCHANGED <<account, form, budget>>

\* createStudent purges, then looks both keys up at once, then writes.
CreateStudent(r, e, n) ==
    /\ Spend("admit")
    /\ account' = Purged(Stale({n}))
    /\ Start(r, [NoRequest EXCEPT !.op = "admit", !.pc = "look", !.email = e, !.roll = n])
    /\ UNCHANGED form

AdmitLook(r) ==
    /\ At(r, "admit", "look")
    /\ IF Taken(request[r].email, request[r].roll) THEN Done(r) ELSE Goto(r, "write")
    /\ UNCHANGED <<account, form, budget>>

\* The account is created or the index refuses it and the request fails.
CreateAccount(r) ==
    LET R == request[r]
    IN  /\ R.op \in {"admit", "convert"} /\ R.pc = "write"
        /\ IF Taken(R.email, R.roll) THEN Done(r) /\ UNCHANGED account
           ELSE \E a \in Unborn :
                  /\ account' = [account EXCEPT ![a] = Student(R.email, R.roll)]
                  /\ IF R.op = "admit" THEN Done(r)
                     ELSE request' = [request EXCEPT ![r].pc = "mark", ![r].account = a]
        /\ UNCHANGED <<form, budget>>

\* The application is updated by its id, which may be gone.
ConvertMark(r) ==
    LET R == request[r]
    IN  /\ At(r, "convert", "mark")
        /\ form' = [form EXCEPT ![R.email] =
             IF form[R.email].status # "none" /\ form[R.email].id = R.form
             THEN [id |-> R.form, status |-> "CONVERTED", linked |-> R.account]
             ELSE form[R.email]]
        /\ Done(r)
        /\ UNCHANGED <<account, budget>>

\* deleteUser: somebody else's account, and not the last administrator's by
\* the count of the request.
DeleteUser(r, a) ==
    /\ Spend("expel")
    /\ Live(a)
    /\ account[a].role = "admin" =>
         \E b \in Accounts : b # a /\ Live(b) /\ account[b].role = "admin"
    /\ Start(r, [NoRequest EXCEPT !.op = "expel", !.pc = "write", !.account = a])
    /\ UNCHANGED <<account, form>>

\* The address is rewritten with a prefix, so it is free.
Deleted(a) == [account[a] EXCEPT !.status = "deleted", !.email = Nobody]

DeleteWrite(r) ==
    LET a == request[r].account
    IN  /\ At(r, "expel", "write")
        /\ account' = IF Stored(a) THEN [account EXCEPT ![a] = Deleted(a)] ELSE account
        /\ Done(r)
        /\ UNCHANGED <<form, budget>>

\* bulkUpdateStudentIds, a file of one row: the account that has the number
\* is looked up, and then the account that has the number is updated.
BulkUpdateStudentIds(r, n, m) ==
    /\ Spend("renumber")
    /\ \E a \in Holder(n) : Live(a)
    /\ Holder(m) = {}
    /\ Start(r, [NoRequest EXCEPT !.op = "renumber", !.pc = "write", !.roll = n, !.new = m])
    /\ UNCHANGED <<account, form>>

RenumberWrite(r) ==
    LET R == request[r]
    IN  /\ At(r, "renumber", "write")
        /\ account' = [a \in Accounts |->
             IF a \in Holder(R.roll) /\ Holder(R.new) = {}
             THEN [account[a] EXCEPT !.roll = R.new] ELSE account[a]]
        /\ Done(r)
        /\ UNCHANGED <<form, budget>>

AdmissionsStep ==
    \/ \E r \in Staff :
        \/ IntakeLook(r) \/ IntakeWrite(r) \/ ConvertLook(r) \/ ConvertNumber(r)
        \/ AdmitLook(r) \/ CreateAccount(r) \/ ConvertMark(r) \/ DeleteWrite(r)
        \/ RenumberWrite(r)
        \/ \E e \in Emails : \/ SubmitStudentIntake(r, e)
                             \/ CreateStudentFromApplication(r, e)
                             \/ \E n \in Rolls : CreateStudent(r, e, n)
        \/ \E a \in Accounts : DeleteUser(r, a)
        \/ \E n, m \in Rolls : BulkUpdateStudentIds(r, n, m)
    \/ \E e \in Emails : \/ DeleteStudentApplication(e)
                         \/ \E status \in {"PENDING", "REVIEWED"} :
                              UpdateStudentApplicationStatus(e, status)

-----------------------------------------------------------------------------
(* Properties *)

\* Whatever doors are open at once, an address opens one account, a roll number
\* is on one stored account, a deleted one included, and a converted
\* application names an account that was made and is, while it lives, the
\* holder of the address.
OneHolder ==
    /\ \A a, b \in Accounts : a # b /\ Stored(a) /\ Stored(b) =>
         /\ account[a].email = account[b].email => account[a].email = Nobody
         /\ account[a].roll = account[b].roll => account[a].roll = 0
    /\ \A e \in Emails : form[e].status = "CONVERTED" =>
         LET a == form[e].linked
         IN  a # Nobody /\ account[a].status # "none" /\ (Live(a) => account[a].email = e)
=============================================================================
