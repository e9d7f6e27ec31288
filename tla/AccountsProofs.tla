--------------------------- MODULE AccountsProofs ---------------------------
(* Type correctness of Accounts, that an address and a number have one       *)
(* holder, that the rows of an import land, and that a captcha buys one guess. *)
EXTENDS Accounts, TLAPS

Requests == [op : {"none", "intake", "admit", "convert", "expel", "renumber"},
             pc : {"idle", "look", "number", "write", "mark"},
             email : Emails \cup {Nobody},
             account : Accounts \cup {Nobody},
             roll : Rolls \cup {0}, new : Rolls \cup {0},
             form : 0..MaxForms]

\* What a request knows by the step it is at.
Knows(R) ==
    /\ R.op \in {"intake", "convert"} => R.email \in Emails
    /\ R.op = "expel" => R.account \in Accounts
    /\ R.op = "renumber" => R.roll \in Rolls
    /\ R.pc = "mark" =>
         /\ R.account \in Accounts /\ account[R.account].status # "none"
         /\ account[R.account].status = "live" => account[R.account].email = R.email

RequestsOK == \A r \in Staff : Knows(request[r])

HoldersOK ==
    \A a, b \in Accounts : a # b /\ Stored(a) /\ Stored(b) =>
         /\ account[a].email = account[b].email => account[a].email = Nobody
         /\ account[a].roll = account[b].roll => account[a].roll = 0

FormsOK ==
    \A e \in Emails : form[e].status = "CONVERTED" =>
         LET a == form[e].linked
         IN  a # Nobody /\ account[a].status # "none" /\ (Live(a) => account[a].email = e)

AdmissionsInv == AdmissionsTypeOK /\ RequestsOK /\ HoldersOK /\ FormsOK

\* A row that exists is not made anew, and one that lives keeps its address.
Ages ==
    \A a \in Accounts : account[a].status # "none" =>
        /\ account'[a].status # "none"
        /\ Live(a)' => Live(a) /\ account'[a].email = account[a].email

\* Rows that stay keep their keys, or are freed of the address.
Thins ==
    \A a \in Accounts : Stored(a)' =>
        /\ Stored(a)
        /\ account'[a].email \in {account[a].email, Nobody}
        /\ account'[a].roll = account[a].roll

-----------------------------------------------------------------------------
(* Admissions *)

LEMMA SpendOK ==
  ASSUME budget \in [Events -> Nat], NEW what \in Events, Spend(what)
  PROVE  budget' \in [Events -> Nat]
<1>1. budget[what] - 1 \in Nat
  BY DEF Spend
<1> QED
  BY <1>1 DEF Spend

\* The fields of rows and requests that no account, address or number has.
LEMMA Blanks ==
  /\ NoForm.status = "none" /\ NoForm.linked = Nobody
  /\ NoRequest.op = "none" /\ NoRequest.pc = "idle"
  /\ 0 \in 0..MaxForms
  /\ \A n \in Rolls : n \in Nat /\ n # 0
BY BoundAssumption DEF NoForm, NoRequest

\* Accounts and applications stay as they are.
LEMMA Quiet ==
  ASSUME AdmissionsInv, UNCHANGED <<account, form>>
  PROVE  HoldersOK' /\ FormsOK' /\ Ages
BY DEF AdmissionsInv, HoldersOK, FormsOK, Ages, Stored, Live

\* Applications keep naming their accounts while rows age.
LEMMA FormsAge ==
  ASSUME AdmissionsInv, Ages, UNCHANGED form
  PROVE  FormsOK'
<1> SUFFICES ASSUME NEW e \in Emails, form[e].status = "CONVERTED"
             PROVE  LET a == form[e].linked
                    IN  a # Nobody /\ account'[a].status # "none"
                        /\ (Live(a)' => account'[a].email = e)
  BY DEF FormsOK, Live
<1>1. form[e].linked \in Accounts
  BY DEF AdmissionsInv, AdmissionsTypeOK, FormsOK
<1> QED
  BY <1>1 DEF AdmissionsInv, FormsOK, Ages, Live

\* So do requests that wait, or end.
LEMMA RequestsAge ==
  ASSUME AdmissionsInv, Ages,
         NEW r \in Staff,
         \/ UNCHANGED request
         \/ Done(r)
         \/ \E pc \in {"write", "number"} : Goto(r, pc)
  PROVE  RequestsOK'
<1> SUFFICES ASSUME NEW s \in Staff
             PROVE  Knows(request[s])'
  BY DEF RequestsOK
<1>1. CASE request'[s] = request[s]
  BY <1>1 DEF AdmissionsInv, RequestsOK, Knows, Ages, Live
<1>2. CASE request'[s] = NoRequest
  BY <1>2, Blanks DEF Knows
<1>3. CASE \E pc \in {"write", "number"} : request'[s] = [request[s] EXCEPT !.pc = pc]
  <2>1. request[s] \in Requests /\ Knows(request[s])
    BY DEF AdmissionsInv, AdmissionsTypeOK, RequestsOK, Requests
  <2> QED
    BY <1>3, <2>1 DEF Requests, Knows
<1>4. \/ request'[s] = request[s] \/ request'[s] = NoRequest
      \/ \E pc \in {"write", "number"} : request'[s] = [request[s] EXCEPT !.pc = pc]
  <2>1. request \in [Staff -> Requests]
    BY DEF AdmissionsInv, AdmissionsTypeOK, Requests
  <2> QED
    BY <2>1 DEF Done, Goto
<1> QED
  BY <1>1, <1>2, <1>3, <1>4

LEMMA RequestsKeep ==
  ASSUME AdmissionsInv, Ages, UNCHANGED request
  PROVE  RequestsOK'
BY DEF AdmissionsInv, RequestsOK, Knows, Ages, Live

\* A request that ends or moves stays in its type.
LEMMA RequestTypes ==
  ASSUME AdmissionsInv, NEW r \in Staff,
         Done(r) \/ \E pc \in {"write", "number"} : Goto(r, pc)
  PROVE  request' \in [Staff -> Requests]
<1> USE DEF Requests
<1>1. CASE Done(r)
  BY <1>1, Blanks DEF Done, NoRequest, AdmissionsInv, AdmissionsTypeOK
<1>2. CASE \E pc \in {"write", "number"} : Goto(r, pc)
  <2>1. request \in [Staff -> Requests]
    BY DEF AdmissionsInv, AdmissionsTypeOK
  <2>2. PICK pc \in {"write", "number"} : request' = [request EXCEPT ![r].pc = pc]
    BY <1>2 DEF Goto
  <2>3. [request[r] EXCEPT !.pc = pc] \in Requests
    BY <2>1, SMTT(30)
  <2> HIDE DEF Requests
  <2> QED
    BY <2>1, <2>2, <2>3
<1> QED
  BY <1>1, <1>2

\* The first step of a request.
LEMMA Begins ==
  ASSUME AdmissionsInv, Ages, NEW r \in Staff, NEW R \in Requests, Start(r, R),
         R.pc # "mark", Knows(R)
  PROVE  request' \in [Staff -> Requests] /\ RequestsOK'
<1>1. request \in [Staff -> Requests]
  BY DEF AdmissionsInv, AdmissionsTypeOK, Requests
<1>2. request' \in [Staff -> Requests]
  BY <1>1 DEF Start
<1>3. RequestsOK'
  <2> SUFFICES ASSUME NEW s \in Staff PROVE Knows(request[s])'
    BY DEF RequestsOK
  <2>1. request'[s] = request[s] \/ request'[s] = R
    BY <1>1 DEF Start
  <2> QED
    BY <2>1 DEF Knows, RequestsOK, AdmissionsInv, Ages, Live
<1> QED
  BY <1>2, <1>3

LEMMA Asks ==
  ASSUME AdmissionsInv, NEW r \in Staff,
         \/ \E e \in Emails : SubmitStudentIntake(r, e) \/ CreateStudentFromApplication(r, e)
         \/ \E a \in Accounts : DeleteUser(r, a)
         \/ \E n, m \in Rolls : BulkUpdateStudentIds(r, n, m)
  PROVE  AdmissionsInv'
<1> DEFINE Moved == request' \in [Staff -> Requests] /\ RequestsOK'
<1>1. UNCHANGED <<account, form>> /\ budget' \in [Events -> Nat]
  BY SpendOK DEF SubmitStudentIntake, CreateStudentFromApplication, DeleteUser,
                 BulkUpdateStudentIds, AdmissionsInv, AdmissionsTypeOK, Events
<1>2. HoldersOK' /\ FormsOK' /\ Ages
  BY <1>1, Quiet
<1> USE DEF Requests, Knows, NoRequest
<1>3. ASSUME NEW e \in Emails, SubmitStudentIntake(r, e) PROVE Moved
  <2> DEFINE R == [NoRequest EXCEPT !.op = "intake", !.pc = "look", !.email = e]
  <2>1. R \in Requests /\ R.pc # "mark" /\ Knows(R)
    BY Blanks
  <2> QED
    BY <1>3, <1>2, <2>1, Begins DEF SubmitStudentIntake
<1>4. ASSUME NEW e \in Emails, CreateStudentFromApplication(r, e) PROVE Moved
  <2> DEFINE R == [NoRequest EXCEPT !.op = "convert", !.pc = "look", !.email = e,
                                    !.form = form[e].id]
  <2>1. R \in Requests /\ R.pc # "mark" /\ Knows(R)
    <3>1. form[e].id \in 0..MaxForms
      BY DEF AdmissionsInv, AdmissionsTypeOK
    <3> QED
      BY Blanks, <3>1
  <2> QED
    BY <1>4, <1>2, <2>1, Begins DEF CreateStudentFromApplication
<1>5. ASSUME NEW a \in Accounts, DeleteUser(r, a) PROVE Moved
  <2> DEFINE R == [NoRequest EXCEPT !.op = "expel", !.pc = "write", !.account = a]
  <2>1. R \in Requests /\ R.pc # "mark" /\ Knows(R)
    BY Blanks
  <2> QED
    BY <1>5, <1>2, <2>1, Begins DEF DeleteUser
<1>6. ASSUME NEW n \in Rolls, NEW m \in Rolls, BulkUpdateStudentIds(r, n, m) PROVE Moved
  <2> DEFINE R == [NoRequest EXCEPT !.op = "renumber", !.pc = "write", !.roll = n, !.new = m]
  <2>1. R \in Requests /\ R.pc # "mark" /\ Knows(R)
    BY Blanks
  <2> QED
    BY <1>6, <1>2, <2>1, Begins DEF BulkUpdateStudentIds
<1>7. Moved
  BY <1>3, <1>4, <1>5, <1>6
<1> QED
  BY <1>1, <1>2, <1>7 DEF AdmissionsInv, AdmissionsTypeOK

\* Look-ups move the request.
LEMMA Looks ==
  ASSUME AdmissionsInv, NEW r \in Staff, IntakeLook(r) \/ ConvertLook(r) \/ AdmitLook(r)
  PROVE  AdmissionsInv'
<1>1. /\ UNCHANGED <<account, form, budget>>
      /\ Done(r) \/ \E pc \in {"write", "number"} : Goto(r, pc)
  BY DEF IntakeLook, ConvertLook, AdmitLook
<1> QED
  BY <1>1, Quiet, RequestsAge, RequestTypes DEF AdmissionsInv, AdmissionsTypeOK, Requests

LEMMA Numbers ==
  ASSUME AdmissionsInv, NEW r \in Staff, ConvertNumber(r)
  PROVE  AdmissionsInv'
<1>1. PICK n \in Rolls : request' = [request EXCEPT ![r].pc = "write", ![r].roll = n]
  BY DEF ConvertNumber
<1>2. request \in [Staff -> Requests]
  BY DEF AdmissionsInv, AdmissionsTypeOK, Requests
<1>3. request' = [request EXCEPT ![r] = [request[r] EXCEPT !.pc = "write", !.roll = n]]
  BY <1>1, <1>2
<1>4. request' \in [Staff -> Requests]
  BY ZenonT(60), <1>2, <1>3 DEF Requests
<1>5. RequestsOK'
  <2> SUFFICES ASSUME NEW s \in Staff PROVE Knows(request[s])'
    BY DEF RequestsOK
  <2>1. CASE s # r
    BY <1>2, <1>3, <2>1 DEF ConvertNumber, Knows, RequestsOK, AdmissionsInv
  <2>2. CASE s = r
    <3>1. request[r] \in Requests /\ request[r].op = "convert" /\ Knows(request[r])
      BY <1>2 DEF ConvertNumber, At, RequestsOK, AdmissionsInv
    <3>2. request'[r] = [request[r] EXCEPT !.pc = "write", !.roll = n]
      BY <1>2, <1>3
    <3> QED
      BY <2>2, <3>1, <3>2 DEF Knows, Requests
  <2> QED
    BY <2>1, <2>2
<1> QED
  BY <1>4, <1>5, Quiet DEF ConvertNumber, AdmissionsInv, AdmissionsTypeOK, Requests

\* Applications are written, judged and removed.
LEMMA Forms ==
  ASSUME AdmissionsInv,
         \/ \E r \in Staff : IntakeWrite(r)
         \/ \E e \in Emails : \/ \E status \in {"PENDING", "REVIEWED"} :
                                   UpdateStudentApplicationStatus(e, status)
                              \/ DeleteStudentApplication(e)
  PROVE  AdmissionsInv'
<1>1. UNCHANGED account /\ HoldersOK' /\ Ages
  BY ZenonT(60) DEF AdmissionsInv, HoldersOK, Ages, Live, Stored, IntakeWrite,
         UpdateStudentApplicationStatus, DeleteStudentApplication
<1>2. ASSUME NEW r \in Staff, IntakeWrite(r) PROVE AdmissionsInv'
  <2> DEFINE d == request[r].email
  <2>1. d \in Emails
    BY <1>2 DEF IntakeWrite, At, AdmissionsInv, RequestsOK, Knows
  <2>2. /\ form[d].id \in 0..MaxForms
        /\ form[d].status = "none" => form[d].id + 1 \in 0..MaxForms
    BY <1>2, <2>1, BoundAssumption DEF IntakeWrite, AdmissionsInv, AdmissionsTypeOK
  <2>3. AdmissionsTypeOK'
    BY <1>1, <1>2, <2>1, <2>2, RequestTypes
       DEF IntakeWrite, AdmissionsInv, AdmissionsTypeOK, Requests
  <2>4. FormsOK'
    BY <1>1, <1>2, <2>1 DEF IntakeWrite, FormsOK, Live, AdmissionsInv, AdmissionsTypeOK
  <2> QED
    BY <1>1, <1>2, <2>3, <2>4, RequestsAge DEF IntakeWrite, AdmissionsInv
<1>3. ASSUME NEW e \in Emails, NEW status \in {"PENDING", "REVIEWED"},
             UpdateStudentApplicationStatus(e, status)
      PROVE  AdmissionsInv'
  <2>1. AdmissionsTypeOK'
    BY <1>1, <1>3, SpendOK
       DEF UpdateStudentApplicationStatus, AdmissionsInv, AdmissionsTypeOK, Events
  <2>2. FormsOK'
    BY <1>1, <1>3 DEF UpdateStudentApplicationStatus, FormsOK, Live, AdmissionsInv, AdmissionsTypeOK
  <2> QED
    BY <1>1, <1>3, <2>1, <2>2, RequestsKeep DEF UpdateStudentApplicationStatus, AdmissionsInv
<1>4. ASSUME NEW e \in Emails, DeleteStudentApplication(e) PROVE AdmissionsInv'
  <2>1. AdmissionsTypeOK'
    BY <1>1, <1>4, SpendOK
       DEF DeleteStudentApplication, NoForm, AdmissionsInv, AdmissionsTypeOK, Events
  <2>2. FormsOK'
    BY <1>1, <1>4
       DEF DeleteStudentApplication, NoForm, FormsOK, Live, AdmissionsInv, AdmissionsTypeOK
  <2> QED
    BY <1>1, <1>4, <2>1, <2>2, RequestsKeep DEF DeleteStudentApplication, AdmissionsInv
<1> QED
  BY <1>2, <1>3, <1>4

-----------------------------------------------------------------------------
(* Rows *)

Rows == [status : {"none", "live", "deleted", "purged"}, role : {"admin", "student"},
         email : Emails \cup {Nobody}, roll : Rolls \cup {0}]

\* Rows that leave or are freed of an address make no conflict.
LEMMA ThinHolders ==
  ASSUME AdmissionsInv, Thins
  PROVE  HoldersOK'
BY DEF AdmissionsInv, HoldersOK, Thins, Stored

\* Deleted rows may leave for good at any moment.
LEMMA Purging ==
  ASSUME AdmissionsInv, NEW A \in SUBSET Accounts,
         \A a \in A : account[a].status # "live" /\ account[a].status # "none",
         account' = Purged(A)
  PROVE  account' \in [Accounts -> Rows] /\ Ages /\ Thins
<1>1. account \in [Accounts -> Rows]
  BY DEF AdmissionsInv, AdmissionsTypeOK, Rows
<1>2. \A a \in Accounts :
        IF a \in A THEN account'[a] = [NoAccount EXCEPT !.status = "purged"]
                  ELSE account'[a] = account[a]
  BY DEF Purged
<1>3. [NoAccount EXCEPT !.status = "purged"] \in Rows
  BY DEF NoAccount, Rows
<1>4. [NoAccount EXCEPT !.status = "purged"].status = "purged"
  BY DEF NoAccount
<1>5. account' \in [Accounts -> Rows]
  BY <1>1, <1>2, <1>3 DEF Purged
<1> QED
  BY <1>2, <1>4, <1>5 DEF Ages, Thins, Stored, Live

LEMMA CreateStudentInv ==
  ASSUME AdmissionsInv, NEW r \in Staff, NEW e \in Emails, NEW n \in Rolls,
         CreateStudent(r, e, n)
  PROVE  AdmissionsInv' /\ Ages
<1>1. account' \in [Accounts -> Rows] /\ Ages /\ Thins
  BY Purging DEF CreateStudent, Stale
<1>2. request' \in [Staff -> Requests] /\ RequestsOK'
  <2> DEFINE R == [NoRequest EXCEPT !.op = "admit", !.pc = "look", !.email = e, !.roll = n]
  <2>1. R \in Requests /\ R.pc # "mark" /\ Knows(R)
    BY Blanks DEF NoRequest, Requests, Knows
  <2> QED
    BY <1>1, <2>1, Begins DEF CreateStudent
<1>3. UNCHANGED form /\ budget' \in [Events -> Nat]
  BY SpendOK DEF CreateStudent, AdmissionsInv, AdmissionsTypeOK, Events
<1> QED
  BY <1>1, <1>2, <1>3, ThinHolders, FormsAge DEF AdmissionsInv, AdmissionsTypeOK, Rows, Requests

LEMMA DeleteWriteInv ==
  ASSUME AdmissionsInv, NEW r \in Staff, DeleteWrite(r)
  PROVE  AdmissionsInv' /\ Ages
<1> DEFINE a == request[r].account
<1>1. account \in [Accounts -> Rows] /\ a \in Accounts
  BY DEF AdmissionsInv, AdmissionsTypeOK, Rows, RequestsOK, Knows, DeleteWrite, At
<1>2. account' \in [Accounts -> Rows] /\ Ages /\ Thins
  <2>1. CASE Stored(a)
    <3>1. account' = [account EXCEPT ![a] = [account[a] EXCEPT !.status = "deleted", !.email = Nobody]]
      BY <2>1 DEF DeleteWrite, Deleted
    <3>2. account' \in [Accounts -> Rows]
      BY <1>1, <3>1 DEF Rows
    <3>3. /\ account'[a].status = "deleted" /\ account'[a].email = Nobody
          /\ account'[a].roll = account[a].roll
      BY <1>1, <3>1 DEF Rows
    <3>4. \A b \in Accounts : b # a => account'[b] = account[b]
      BY <1>1, <3>1
    <3> HIDE DEF a
    <3> QED
      BY <1>1, <2>1, <3>2, <3>3, <3>4 DEF Ages, Thins, Stored, Live
  <2>2. CASE ~Stored(a)
    BY <1>1, <2>2 DEF DeleteWrite, Ages, Thins, Stored, Live
  <2> QED
    BY <2>1, <2>2
<1>3. UNCHANGED <<form, budget>> /\ Done(r)
  BY DEF DeleteWrite
<1> QED
  BY <1>2, <1>3, ThinHolders, FormsAge, RequestsAge, RequestTypes
     DEF AdmissionsInv, AdmissionsTypeOK, Rows, Requests

LEMMA RenumberWriteInv ==
  ASSUME AdmissionsInv, NEW r \in Staff, RenumberWrite(r)
  PROVE  AdmissionsInv' /\ Ages
<1> DEFINE n == request[r].roll
           m == request[r].new
<1>1. account \in [Accounts -> Rows] /\ n \in Rolls /\ m \in Rolls \cup {0}
  BY DEF AdmissionsInv, AdmissionsTypeOK, Rows, RequestsOK, Knows, RenumberWrite, At
<1>2. \A a \in Accounts :
        account'[a] = IF a \in Holder(n) /\ Holder(m) = {} THEN [account[a] EXCEPT !.roll = m]
                                                        ELSE account[a]
  BY DEF RenumberWrite
<1>3. /\ account' \in [Accounts -> Rows]
      /\ \A a \in Accounts :
           /\ account'[a].status = account[a].status
           /\ account'[a].email = account[a].email
           /\ account'[a].roll = IF a \in Holder(n) /\ Holder(m) = {} THEN m
                                                                   ELSE account[a].roll
  <2>1. \A a \in Accounts :
          /\ account'[a] \in Rows
          /\ account'[a].status = account[a].status
          /\ account'[a].email = account[a].email
          /\ account'[a].roll = IF a \in Holder(n) /\ Holder(m) = {} THEN m
                                                                  ELSE account[a].roll
    BY ZenonT(60), <1>1, <1>2 DEF Rows
  <2>2. account' = [a \in Accounts |-> account'[a]]
    BY DEF RenumberWrite
  <2> QED
    BY <2>1, <2>2
<1>4. Ages
  BY <1>3 DEF Ages, Live
<1>5. HoldersOK'
  <2> SUFFICES ASSUME NEW a \in Accounts, NEW b \in Accounts, a # b, Stored(a)', Stored(b)'
               PROVE  /\ account'[a].email = account'[b].email => account'[a].email = Nobody
                      /\ account'[a].roll = account'[b].roll => account'[a].roll = 0
    BY DEF HoldersOK
  <2>1. Stored(a) /\ Stored(b)
    BY <1>3 DEF Stored
  <2>2. /\ account[a].email = account[b].email => account[a].email = Nobody
        /\ account[a].roll = account[b].roll => account[a].roll = 0
    BY <2>1 DEF AdmissionsInv, HoldersOK
  <2>3. n # 0
    BY <1>1, Blanks
  <2>4. Holder(m) = {} => account[a].roll # m /\ account[b].roll # m
    BY <2>1 DEF Holder
  <2>5. ~(a \in Holder(n) /\ b \in Holder(n))
    BY <2>2, <2>3 DEF Holder
  <2> QED
    BY <1>3, <2>2, <2>4, <2>5
<1>6. UNCHANGED <<form, budget>> /\ Done(r)
  BY DEF RenumberWrite
<1> QED
  BY <1>3, <1>4, <1>5, <1>6, FormsAge, RequestsAge, RequestTypes
     DEF AdmissionsInv, AdmissionsTypeOK, Rows, Requests

LEMMA CreateAccountInv ==
  ASSUME AdmissionsInv, NEW r \in Staff, CreateAccount(r)
  PROVE  AdmissionsInv' /\ Ages
<1> DEFINE R == request[r]
<1>1. /\ account \in [Accounts -> Rows] /\ request \in [Staff -> Requests]
      /\ R \in Requests /\ Knows(R)
  BY DEF AdmissionsInv, AdmissionsTypeOK, Rows, Requests, RequestsOK
<1>2. CASE Taken(R.email, R.roll)
  <2>1. UNCHANGED <<account, form, budget>> /\ Done(r)
    BY <1>2 DEF CreateAccount
  <2> QED
    BY <2>1, Quiet, RequestsAge, RequestTypes DEF AdmissionsInv, AdmissionsTypeOK, Requests
<1>3. CASE ~Taken(R.email, R.roll)
  <2>1. PICK a \in Unborn :
          /\ account' = [account EXCEPT ![a] = Student(R.email, R.roll)]
          /\ IF R.op = "admit" THEN Done(r)
             ELSE request' = [request EXCEPT ![r].pc = "mark", ![r].account = a]
    BY <1>3 DEF CreateAccount
  <2>2. Student(R.email, R.roll) \in Rows
    BY <1>1 DEF Student, Rows, Requests
  <2>3. /\ a \in Accounts /\ account[a].status = "none"
        /\ account'[a] = Student(R.email, R.roll)
        /\ \A b \in Accounts : b # a => account'[b] = account[b]
    BY <1>1, <2>1 DEF Unborn
  <2>4. account' \in [Accounts -> Rows] /\ Ages
    BY <1>1, <2>1, <2>2, <2>3 DEF Ages, Live
  <2>5. HoldersOK'
    <3>1. account'[a].email = R.email /\ account'[a].roll = R.roll
      BY <2>3 DEF Student
    <3>2. \A b \in Accounts : b # a /\ Stored(b)' =>
            Stored(b) /\ account'[b] = account[b]
            /\ account[b].email # R.email /\ account[b].roll # R.roll
      BY <1>3, <2>3 DEF Taken, Known, Holder, Stored
    <3> HIDE DEF R
    <3> QED
      BY <3>1, <3>2 DEF HoldersOK, AdmissionsInv
  <2>6. UNCHANGED <<form, budget>>
    BY DEF CreateAccount
  <2>7. CASE R.op = "admit"
    BY <2>1, <2>4, <2>5, <2>6, <2>7, FormsAge, RequestsAge, RequestTypes
       DEF AdmissionsInv, AdmissionsTypeOK, Rows, Requests
  <2>8. CASE R.op # "admit"
    <3> DEFINE Q == [R EXCEPT !.pc = "mark", !.account = a]
    <3>1. request' = [request EXCEPT ![r] = Q]
      BY <1>1, <2>1, <2>8
    <3>2. R.op = "convert"
      BY <2>8 DEF CreateAccount
    <3>3. /\ Q \in Requests /\ Q.op = "convert" /\ Q.email = R.email /\ Q.account = a
          /\ Q.pc = "mark"
      BY <1>1, <2>3, <3>2 DEF Requests
    <3>4. request' \in [Staff -> Requests]
      BY <1>1, <3>1, <3>3
    <3>5. RequestsOK'
      <4> SUFFICES ASSUME NEW s \in Staff PROVE Knows(request[s])'
        BY DEF RequestsOK
      <4>1. CASE s # r
        <5>1. request'[s] = request[s] /\ Knows(request[s])
          BY <1>1, <3>1, <4>1 DEF AdmissionsInv, RequestsOK
        <5> QED
          BY <5>1, <2>4 DEF Knows, Ages, Live
      <4>2. CASE s = r
        <5>1. request'[s] = Q
          BY <1>1, <3>1, <4>2
        <5>2. account'[a].status = "live" /\ account'[a].email = R.email
          BY <2>3 DEF Student
        <5>3. R.email \in Emails
          BY <1>1, <3>2 DEF Knows
        <5> HIDE DEF Q, R
        <5> QED
          BY <5>1, <5>2, <5>3, <2>3, <3>3 DEF Knows
      <4> QED
        BY <4>1, <4>2
    <3> QED
      BY <2>4, <2>5, <2>6, <3>4, <3>5, FormsAge
         DEF AdmissionsInv, AdmissionsTypeOK, Rows, Requests
  <2> QED
    BY <2>7, <2>8
<1> QED
  BY <1>2, <1>3

LEMMA ConvertMarkInv ==
  ASSUME AdmissionsInv, NEW r \in Staff, ConvertMark(r)
  PROVE  AdmissionsInv'
<1> DEFINE R == request[r]
           F == [id |-> R.form, status |-> "CONVERTED", linked |-> R.account]
<1>1. /\ R \in Requests /\ Knows(R) /\ R.op = "convert" /\ R.pc = "mark"
  BY DEF ConvertMark, At, AdmissionsInv, AdmissionsTypeOK, Requests, RequestsOK
<1>2. UNCHANGED <<account, budget>> /\ Done(r)
  BY DEF ConvertMark
<1>3. /\ R.email \in Emails /\ R.account \in Accounts /\ R.account # Nobody
      /\ account[R.account].status # "none" /\ R.form \in 0..MaxForms
      /\ account[R.account].status = "live" => account[R.account].email = R.email
  BY <1>1, NobodyAssumption DEF Knows, Requests
<1>4. form' = form \/ form' = [form EXCEPT ![R.email] = F]
  BY DEF ConvertMark, AdmissionsInv, AdmissionsTypeOK
<1>5. CASE form' = form
  BY <1>2, <1>5, Quiet, RequestsAge, RequestTypes DEF AdmissionsInv, AdmissionsTypeOK, Requests
<1>6. CASE form' = [form EXCEPT ![R.email] = F]
  <2>1. AdmissionsTypeOK'
    BY <1>2, <1>3, <1>6, RequestTypes DEF AdmissionsInv, AdmissionsTypeOK, Requests
  <2>2. HoldersOK' /\ Ages
    BY <1>2 DEF AdmissionsInv, HoldersOK, Stored, Ages, Live
  <2>3. FormsOK'
    <3> SUFFICES ASSUME NEW e \in Emails, form'[e].status = "CONVERTED"
                 PROVE  /\ form'[e].linked # Nobody
                        /\ account[form'[e].linked].status # "none"
                        /\ account[form'[e].linked].status = "live"
                             => account[form'[e].linked].email = e
      BY <1>2 DEF FormsOK, Live
    <3>1. form'[e] = IF e = R.email THEN F ELSE form[e]
      BY <1>6 DEF AdmissionsInv, AdmissionsTypeOK
    <3> HIDE DEF R
    <3> QED
      BY <1>3, <3>1 DEF AdmissionsInv, FormsOK, Live
  <2> QED
    BY <1>2, <2>1, <2>2, <2>3, RequestsAge DEF AdmissionsInv
<1> QED
  BY <1>4, <1>5, <1>6

LEMMA AdmissionsStepInv ==
  ASSUME AdmissionsInv, AdmissionsStep
  PROVE  AdmissionsInv' /\ Ages
<1>1. \/ \E r \in Staff :
          \/ DeleteWrite(r) \/ RenumberWrite(r) \/ CreateAccount(r)
          \/ \E e \in Emails, n \in Rolls : CreateStudent(r, e, n)
      \/ UNCHANGED account
  BY DEF AdmissionsStep, IntakeLook, IntakeWrite, ConvertLook, ConvertNumber, AdmitLook,
         ConvertMark, SubmitStudentIntake, CreateStudentFromApplication, DeleteUser,
         BulkUpdateStudentIds, DeleteStudentApplication, UpdateStudentApplicationStatus
<1>2. Ages
  BY <1>1, CreateStudentInv, DeleteWriteInv, RenumberWriteInv, CreateAccountInv DEF Ages, Live
<1> QED
  BY <1>2, Asks, Looks, Numbers, Forms, CreateStudentInv, DeleteWriteInv, RenumberWriteInv,
     CreateAccountInv, ConvertMarkInv DEF AdmissionsStep

-----------------------------------------------------------------------------
(* The import *)

\* What is left of the job as it goes.
JobOK ==
    /\ job.pc = "none" => job.made = 0 /\ job.stalled = 0 /\ undone = 0
    /\ job.pc \in {"waiting", "active", "found", "mailing"} => job.file
    /\ job.pc \notin Over =>
         /\ job.stalled <= 1
         /\ undone <= job.made
         /\ landed # Sheet => job.made = undone
    /\ job.pc = "found" => Sheet \ job.rows \subseteq landed
    /\ job.pc = "mailing" => landed = Sheet
    /\ EveryRowLands

\* The accounts the transaction found deleted stay so.
StaleOK == \A a \in job.stale : account[a].status # "live" /\ account[a].status # "none"

ImportsInv == ImportsTypeOK /\ JobOK /\ StaleOK

Jobs == [pc : {"none", "waiting", "active", "found", "mailing"} \cup Over,
         made : 0..Attempts - 1, stalled : 0..2, file : BOOLEAN,
         rows : SUBSET Sheet, stale : SUBSET Accounts]

LEMMA Failing ==
  ASSUME job \in Jobs, AttemptFails
  PROVE  /\ job' \in Jobs /\ job'.stalled = job.stalled
         /\ \/ /\ job.made = Attempts - 1 /\ job'.pc = "failed" /\ job'.made = job.made
               /\ job'.stale = job.stale
            \/ /\ job'.made = job.made + 1 /\ job'.pc = "waiting" /\ job'.file = job.file
               /\ job'.stale = {}
<1>1. job.made \in 0..Attempts - 1 /\ Attempts \in Nat
  BY AttemptsAssumption DEF Jobs
<1>2. CASE Exhausted(job.made)
  <2>1. job.made = Attempts - 1
    BY <1>1, <1>2 DEF Exhausted
  <2>2. job' = [job EXCEPT !.pc = "failed", !.file = FALSE]
    BY <1>2 DEF AttemptFails, Ended
  <2> QED
    BY <2>1, <2>2 DEF Jobs, Over
<1>3. CASE ~Exhausted(job.made)
  <2>1. job.made + 1 \in 0..Attempts - 1
    BY <1>1, <1>3 DEF Exhausted
  <2>2. job' = [[job EXCEPT !.pc = "waiting", !.made = job.made + 1]
                 EXCEPT !.rows = {}, !.stale = {}]
    BY <1>3 DEF AttemptFails, Retried
  <2> QED
    BY <2>1, <2>2 DEF Jobs, Over
<1> QED
  BY <1>2, <1>3

\* An attempt that fails has met conflicts in all rows, or is undone.
LEMMA FailingOK ==
  ASSUME ImportsInv, AttemptFails, UNCHANGED <<landed, born>>,
         job.pc \in {"waiting", "active", "found"},
         \/ landed = Sheet /\ undone' = undone
         \/ undone' = undone + 1
  PROVE  ImportsTypeOK' /\ JobOK'
<1>1. job \in Jobs /\ undone \in 0..Attempts /\ Attempts \in Nat
  BY AttemptsAssumption DEF ImportsInv, ImportsTypeOK, Jobs
<1>2. /\ job' \in Jobs /\ job'.stalled = job.stalled
      /\ \/ job.made = Attempts - 1 /\ job'.pc = "failed" /\ job'.made = job.made
         \/ job'.made = job.made + 1 /\ job'.pc = "waiting" /\ job'.file = job.file
  BY <1>1, Failing
<1>3. /\ job.stalled <= 1 /\ undone <= job.made /\ job.file
      /\ landed # Sheet => job.made = undone
      /\ job.made \in 0..Attempts - 1
  BY <1>1 DEF ImportsInv, JobOK, Over, Jobs
<1>4. undone' \in 0..Attempts
  BY <1>1, <1>3
<1>5. ImportsTypeOK'
  BY <1>2, <1>4 DEF ImportsInv, ImportsTypeOK, Jobs
<1>6. CASE job.made = Attempts - 1 /\ job'.pc = "failed" /\ job'.made = job.made
  <2>1. landed # Sheet => undone' = Attempts
    BY <1>1, <1>3, <1>6
  <2> QED
    BY <1>5, <1>6, <2>1 DEF JobOK, EveryRowLands, Over
<1>7. CASE job'.made = job.made + 1 /\ job'.pc = "waiting" /\ job'.file = job.file
  <2>1. undone' <= job'.made /\ (landed # Sheet => job'.made = undone')
    BY <1>1, <1>3, <1>7
  <2> QED
    BY <1>2, <1>3, <1>5, <1>7, <2>1 DEF JobOK, EveryRowLands, Over
<1> QED
  BY <1>2, <1>6, <1>7

\* The job does not see rows age.
LEMMA StaleAges ==
  ASSUME ImportsInv, Ages, job'.stale \in {job.stale, {}}
  PROVE  StaleOK'
BY DEF ImportsInv, ImportsTypeOK, StaleOK, Ages, Live

LEMMA ImportsQuiet ==
  ASSUME ImportsInv, Ages, UNCHANGED importVars
  PROVE  ImportsInv'
<1>1. StaleOK'
  BY StaleAges DEF importVars
<1> QED
  BY <1>1 DEF ImportsInv, ImportsTypeOK, JobOK, EveryRowLands, importVars

\* Steps of the job that leave accounts alone.
LEMMA JobSteps ==
  ASSUME AdmissionsInv, ImportsInv,
         ImportStudents \/ LoadRows \/ FindConflicts \/ AttemptErrs \/ Complete
         \/ WorkerDies
  PROVE  AdmissionsInv' /\ ImportsInv'
<1>1. UNCHANGED <<account, form, request>> /\ budget' \in [Events -> Nat]
  BY SpendOK DEF ImportStudents, LoadRows, FindConflicts, AttemptErrs, Complete, WorkerDies,
                 admissionVars, AdmissionsInv, AdmissionsTypeOK, Events
<1>2. Ages
  BY <1>1 DEF Ages, Live
<1>3. AdmissionsInv'
  BY <1>1, <1>2, Quiet, RequestsKeep DEF AdmissionsInv, AdmissionsTypeOK
<1>4. job \in Jobs /\ undone \in 0..Attempts /\ Attempts \in Nat \ {0}
  BY AttemptsAssumption DEF ImportsInv, ImportsTypeOK, Jobs
<1>5. CASE ImportStudents
  <2>1. /\ job' \in Jobs /\ job'.pc = "waiting" /\ job'.file /\ job'.made = 0
        /\ job'.stalled = 0 /\ job'.stale = {}
    <3>1. 0 \in 0..Attempts - 1 /\ 0 \in 0..2
      BY <1>4
    <3>2. job' = [pc |-> "waiting", made |-> 0, stalled |-> 0, file |-> TRUE,
                  rows |-> {}, stale |-> {}]
      BY <1>5 DEF ImportStudents, NoJob
    <3> QED
      BY <3>1, <3>2 DEF Jobs
  <2>2. UNCHANGED <<landed, born, undone>> /\ undone = 0
    BY <1>5 DEF ImportStudents, ImportsInv, JobOK
  <2> QED
    BY <1>2, <1>3, <1>4, <2>1, <2>2, StaleAges
       DEF ImportsInv, ImportsTypeOK, JobOK, EveryRowLands, Over, Jobs
<1>6. CASE LoadRows
  <2>1. job' = [job EXCEPT !.pc = "active"] /\ job.pc = "waiting"
    BY <1>6 DEF LoadRows, ImportsInv, JobOK
  <2>2. UNCHANGED <<landed, born, undone>>
    BY <1>6 DEF LoadRows
  <2>3. /\ job' \in Jobs /\ job'.pc = "active" /\ job'.file = job.file /\ job'.made = job.made
        /\ job'.stalled = job.stalled /\ job'.stale = job.stale
    BY <1>4, <2>1 DEF Jobs
  <2> QED
    BY <1>2, <1>3, <1>4, <2>1, <2>2, <2>3, StaleAges
       DEF ImportsInv, ImportsTypeOK, JobOK, EveryRowLands, Over, Jobs
<1>7. CASE FindConflicts
  <2> DEFINE stale == Stale(SheetRolls)
             known == {row \in Sheet : \/ Known(row.email)
                                       \/ ~(Holder(row.roll) \subseteq stale)}
  <2>1. /\ job' = [job EXCEPT !.pc = "found", !.rows = Sheet \ known, !.stale = stale]
        /\ job.pc = "active" /\ landed' = landed \cup known
        /\ UNCHANGED <<born, undone>>
    BY <1>7 DEF FindConflicts
  <2>2. /\ known \subseteq Sheet /\ stale \subseteq Accounts
        /\ \A a \in stale : account[a].status = "deleted"
    BY DEF Stale
  <2> HIDE DEF known, stale
  <2>3. /\ job' \in Jobs /\ job'.pc = "found" /\ job'.file = job.file /\ job'.made = job.made
        /\ job'.stalled = job.stalled /\ job'.stale = stale /\ job'.rows = Sheet \ known
    BY <1>4, <2>1, <2>2 DEF Jobs
  <2>4. StaleOK'
    BY <1>1, <2>2, <2>3 DEF StaleOK
  <2>5. landed' \subseteq Sheet /\ Sheet \ job'.rows \subseteq landed'
        /\ (landed' # Sheet => landed # Sheet)
    BY <2>1, <2>2, <2>3 DEF ImportsInv, ImportsTypeOK
  <2> QED
    BY <1>3, <2>1, <2>3, <2>4, <2>5
       DEF ImportsInv, ImportsTypeOK, JobOK, EveryRowLands, Over, Jobs
<1>8. CASE Complete
  <2>1. /\ job' = [job EXCEPT !.pc = "completed", !.file = FALSE] /\ job.pc = "mailing"
        /\ UNCHANGED <<landed, born, undone>>
    BY <1>8 DEF Complete, Ended
  <2>2. job' \in Jobs /\ job'.pc = "completed" /\ job'.stale = job.stale
    BY <1>4, <2>1 DEF Jobs, Over
  <2> QED
    BY <1>2, <1>3, <1>4, <2>1, <2>2, StaleAges
       DEF ImportsInv, ImportsTypeOK, JobOK, EveryRowLands, Over, Jobs
<1>9. CASE WorkerDies
  <2> DEFINE j == [job EXCEPT !.stalled = job.stalled + 1, !.rows = {}, !.stale = {}]
  <2>1. /\ job' = IF job.stalled = 1 THEN [j EXCEPT !.pc = "failed", !.file = FALSE]
                                     ELSE [j EXCEPT !.pc = "waiting"]
        /\ job.pc \in {"active", "found", "mailing"}
        /\ UNCHANGED <<landed, born, undone>>
    BY <1>9 DEF WorkerDies, Ended
  <2>2. job.stalled \in 0..1 /\ job.file
    BY <1>4, <2>1 DEF ImportsInv, JobOK, Jobs, Over
  <2>3. /\ j \in Jobs /\ j.stalled = job.stalled + 1 /\ j.stale = {} /\ j.made = job.made
        /\ j.file = job.file
    <3>1. job.stalled + 1 \in 0..2
      BY <2>2
    <3> QED
      BY <1>4, <3>1 DEF Jobs
  <2> HIDE DEF j
  <2>4. CASE job.stalled = 1
    <3>1. job' \in Jobs /\ job'.pc = "failed" /\ job'.stalled = 2 /\ job'.stale = {}
      <4>1. job' = [j EXCEPT !.pc = "failed", !.file = FALSE] /\ j.stalled = 2
        BY <2>1, <2>3, <2>4
      <4> QED
        BY <2>3, <4>1 DEF Jobs, Over
    <3> QED
      BY <1>2, <1>3, <1>4, <2>1, <3>1, StaleAges
         DEF ImportsInv, ImportsTypeOK, JobOK, EveryRowLands, Over, Jobs
  <2>5. CASE job.stalled # 1
    <3>1. /\ job' \in Jobs /\ job'.pc = "waiting" /\ job'.stalled = 1 /\ job'.stale = {}
          /\ job'.made = job.made /\ job'.file
      <4>1. job' = [j EXCEPT !.pc = "waiting"] /\ j.stalled = 1
        BY <2>1, <2>2, <2>3, <2>5
      <4> QED
        BY <2>2, <2>3, <4>1 DEF Jobs, Over
    <3> QED
      BY <1>2, <1>3, <1>4, <2>1, <3>1, StaleAges
         DEF ImportsInv, ImportsTypeOK, JobOK, EveryRowLands, Over, Jobs
  <2> QED
    BY <2>4, <2>5
<1>10. CASE AttemptErrs
  <2>1. /\ AttemptFails /\ undone' = undone + 1 /\ UNCHANGED <<landed, born>>
        /\ job.pc \in {"waiting", "active", "found"}
    BY <1>10 DEF AttemptErrs
  <2>2. job'.stale \in {job.stale, {}}
    BY <1>4, <2>1, Failing
  <2> QED
    BY <1>2, <1>3, <2>1, <2>2, FailingOK, StaleAges DEF ImportsInv
<1> QED
  BY <1>5, <1>6, <1>7, <1>8, <1>9, <1>10

\* Accounts with the keys of a file's rows, which nobody else has.
LEMMA CreatedRows ==
  ASSUME AdmissionsInv, ImportsInv,
         \A row \in job.rows : ~Clash(row),
         NEW made \in [job.rows -> Unborn],
         \A p, q \in job.rows : p # q => made[p] # made[q],
         account' = [a \in Accounts |->
                       IF \E row \in job.rows : made[row] = a
                       THEN LET row == CHOOSE row \in job.rows : made[row] = a
                            IN  Student(row.email, row.roll)
                       ELSE Purged(job.stale)[a]]
  PROVE  account' \in [Accounts -> Rows] /\ Ages /\ HoldersOK'
<1> DEFINE New(a) == \E row \in job.rows : made[row] = a
           Of(a) == CHOOSE row \in job.rows : made[row] = a
<1>1. account \in [Accounts -> Rows] /\ job.rows \subseteq Sheet
  BY DEF AdmissionsInv, AdmissionsTypeOK, Rows, ImportsInv, ImportsTypeOK
<1>2. \A a \in Accounts : New(a) =>
        /\ Of(a) \in job.rows /\ made[Of(a)] = a
        /\ account[a].status = "none"
        /\ account'[a] = Student(Of(a).email, Of(a).roll)
  BY DEF Unborn
<1>3. \A a \in Accounts : ~New(a) =>
        account'[a] = IF a \in job.stale THEN [NoAccount EXCEPT !.status = "purged"]
                                         ELSE account[a]
  BY DEF Purged
<1> HIDE DEF New, Of
<1>4. [NoAccount EXCEPT !.status = "purged"] \in Rows
      /\ [NoAccount EXCEPT !.status = "purged"].status = "purged"
  BY DEF NoAccount, Rows
<1>5. \A row \in job.rows : Student(row.email, row.roll) \in Rows
  BY <1>1, SheetAssumption DEF Student, Rows
<1>6. account' \in [Accounts -> Rows]
  <2>1. \A a \in Accounts : account'[a] \in Rows
    BY <1>1, <1>2, <1>3, <1>4, <1>5
  <2>2. account' = [a \in Accounts |-> account'[a]]
    OBVIOUS
  <2> QED
    BY <2>1, <2>2
<1>7. Ages
  <2> SUFFICES ASSUME NEW a \in Accounts, account[a].status # "none"
               PROVE  /\ account'[a].status # "none"
                      /\ account'[a].status = "live" =>
                           account[a].status = "live" /\ account'[a].email = account[a].email
    BY DEF Ages, Live
  <2> QED
    BY <1>2, <1>3, <1>4
<1>8. \A a \in Accounts : ~New(a) /\ Stored(a)' =>
        account'[a] = account[a] /\ Stored(a) /\ a \notin job.stale
  BY <1>3, <1>4 DEF Stored
<1>9. HoldersOK'
  <2> SUFFICES ASSUME NEW a \in Accounts, NEW b \in Accounts, a # b, Stored(a)', Stored(b)'
               PROVE  /\ account'[a].email = account'[b].email => account'[a].email = Nobody
                      /\ account'[a].roll = account'[b].roll => account'[a].roll = 0
    BY DEF HoldersOK
  <2>1. CASE New(a) /\ New(b)
    <3>1. /\ Of(a) \in Sheet /\ Of(b) \in Sheet /\ Of(a) # Of(b)
      <4>1. Of(a) \in job.rows /\ made[Of(a)] = a
        BY <1>2, <2>1, ZenonT(30)
      <4>2. Of(b) \in job.rows /\ made[Of(b)] = b
        BY <1>2, <2>1, ZenonT(30)
      <4> QED
        BY <1>1, <4>1, <4>2
    <3>2. ASSUME NEW p \in Sheet, NEW q \in Sheet, p # q
          PROVE  p.email # q.email /\ p.roll # q.roll
      BY <3>2, SheetAssumption
    <3>3. Of(a).email # Of(b).email /\ Of(a).roll # Of(b).roll
      BY <3>1, <3>2
    <3> QED
      BY <1>2, <2>1, <3>3 DEF Student
  <2>2. ASSUME NEW c \in Accounts, NEW d \in Accounts, New(c), ~New(d), Stored(d)'
        PROVE  account'[c].email # account'[d].email /\ account'[c].roll # account'[d].roll
    <3>1. /\ Of(c) \in job.rows
          /\ account'[c].email = Of(c).email /\ account'[c].roll = Of(c).roll
      <4>1. Of(c) \in job.rows /\ account'[c] = Student(Of(c).email, Of(c).roll)
        BY <1>2, <2>2
      <4> QED
        BY <4>1 DEF Student
    <3>2. ~Known(Of(c).email) /\ Holder(Of(c).roll) \subseteq job.stale
      BY <3>1 DEF Clash
    <3>3. account'[d] = account[d] /\ Stored(d) /\ d \notin job.stale
      BY <1>8, <2>2
    <3>4. account[d].email # Of(c).email
      BY <3>2, <3>3 DEF Known
    <3>5. account[d].roll # Of(c).roll
      BY <3>2, <3>3 DEF Holder
    <3> QED
      BY <3>1, <3>3, <3>4, <3>5
  <2>3. CASE ~New(a) /\ ~New(b)
    BY <1>8, <2>3 DEF AdmissionsInv, HoldersOK
  <2> QED
    BY <2>1, <2>2, <2>3
<1> QED
  BY <1>6, <1>7, <1>9

LEMMA CreateAccountsInv ==
  ASSUME AdmissionsInv, ImportsInv, CreateAccounts
  PROVE  AdmissionsInv' /\ ImportsInv'
<1>1. job \in Jobs /\ job.pc = "found" /\ UNCHANGED <<form, request, budget>>
  BY DEF ImportsInv, ImportsTypeOK, Jobs, CreateAccounts
<1>2. job.stale \in SUBSET Accounts
      /\ \A a \in job.stale : account[a].status # "live" /\ account[a].status # "none"
  BY <1>1 DEF ImportsInv, StaleOK, Jobs
<1>3. ASSUME account' \in [Accounts -> Rows], Ages, HoldersOK'
      PROVE  AdmissionsInv'
  BY <1>1, <1>3, FormsAge, RequestsKeep DEF AdmissionsInv, AdmissionsTypeOK, Rows
<1>4. ASSUME AttemptFails, Ages PROVE StaleOK'
  BY <1>1, <1>4, Failing, StaleAges
<1>5. CASE job.rows = {}
  <2>1. account' = Purged(job.stale) /\ AttemptFails /\ UNCHANGED <<landed, born, undone>>
    BY <1>5 DEF CreateAccounts
  <2>2. account' \in [Accounts -> Rows] /\ Ages /\ Thins
    BY <1>2, <2>1, Purging
  <2>3. landed = Sheet
    BY <1>1, <1>5 DEF ImportsInv, JobOK, ImportsTypeOK
  <2> QED
    BY <1>1, <1>3, <1>4, <2>1, <2>2, <2>3, ThinHolders, FailingOK DEF ImportsInv
<1>6. CASE job.rows # {} /\ \E row \in job.rows : Clash(row)
  <2>1. AttemptFails /\ undone' = undone + 1 /\ UNCHANGED <<account, landed, born>>
    BY <1>6 DEF CreateAccounts
  <2>2. account' \in [Accounts -> Rows] /\ Ages /\ HoldersOK'
    BY <2>1 DEF AdmissionsInv, AdmissionsTypeOK, Rows, Ages, Live, HoldersOK, Stored
  <2> QED
    BY <1>1, <1>3, <1>4, <2>1, <2>2, FailingOK DEF ImportsInv
<1>7. CASE job.rows # {} /\ ~\E row \in job.rows : Clash(row)
  <2>1. PICK made \in [job.rows -> Unborn] :
          /\ \A p, q \in job.rows : p # q => made[p] # made[q]
          /\ account' = [a \in Accounts |->
                          IF \E row \in job.rows : made[row] = a
                          THEN LET row == CHOOSE row \in job.rows : made[row] = a
                               IN  Student(row.email, row.roll)
                          ELSE Purged(job.stale)[a]]
          /\ job' = [job EXCEPT !.pc = "mailing"]
          /\ landed' = landed \cup job.rows
          /\ born' = born \cup {made[row] : row \in job.rows}
          /\ UNCHANGED undone
    BY <1>7 DEF CreateAccounts
  <2>2. account' \in [Accounts -> Rows] /\ Ages /\ HoldersOK'
    BY <1>7, <2>1, CreatedRows
  <2>3. /\ job' \in Jobs /\ job'.pc = "mailing" /\ job'.stale = job.stale
        /\ job'.made = job.made /\ job'.file = job.file /\ job'.stalled = job.stalled
    BY <1>1, <2>1 DEF Jobs
  <2>4. landed' = Sheet
    BY <1>1, <2>1 DEF ImportsInv, JobOK, ImportsTypeOK, Jobs
  <2>5. born' \subseteq Accounts
    BY <2>1 DEF ImportsInv, ImportsTypeOK, Unborn
  <2>6. StaleOK'
    BY <2>2, <2>3, StaleAges
  <2>7. ImportsTypeOK'
    BY <2>1, <2>3, <2>4, <2>5 DEF ImportsInv, ImportsTypeOK, Jobs
  <2>8. JobOK'
    BY <1>1, <2>1, <2>3, <2>4 DEF ImportsInv, JobOK, EveryRowLands, Over
  <2> QED
    BY <1>3, <2>2, <2>6, <2>7, <2>8 DEF ImportsInv
<1> QED
  BY <1>5, <1>6, <1>7

-----------------------------------------------------------------------------
(* Logins *)

Answering(g) == guest[g].pc = "answer" /\ guest[g].seen >= CaptchaAt

\* Past the threshold a request that answers has noted its captcha, alone.
GuessesOK ==
    /\ \A g \in Guests : guest[g].pc # "idle" => guest[g].account \in Accounts
    /\ \A g \in Guests : guest[g].pc = "note" => guest[g].captcha \in Captchas
    /\ \A g \in Guests : Answering(g) =>
         guest[g].captcha \in noted /\ answered[guest[g].captcha] = 0
    /\ \A g, h \in Guests : g # h /\ Answering(g) /\ Answering(h) =>
         guest[g].captcha # guest[h].captcha
    /\ \A c \in Captchas : answered[c] <= 1 /\ (answered[c] = 1 => c \in noted)

ThrottleInv == ThrottleTypeOK /\ GuessesOK

GuestsType == [pc : {"idle", "captcha", "note", "answer"},
               account : Accounts \cup {Nobody}, right : BOOLEAN,
               seen : Nat, captcha : Captchas \cup {Nobody}]

LEMMA ChallengedOK ==
  ASSUME ThrottleTypeOK, NEW a \in Accounts \cup {Nobody}, Challenged(a)
  PROVE  captcha' \in [Captchas -> Accounts \cup {Nobody}]
BY DEF ThrottleTypeOK, Challenged

LEMMA ThrottleQuiet ==
  ASSUME ThrottleInv, UNCHANGED throttleVars
  PROVE  ThrottleInv'
BY DEF ThrottleInv, ThrottleTypeOK, GuessesOK, Answering, throttleVars

\* A request that leaves, or moves to a step before its answer.
LEMMA GuestMoves ==
  ASSUME ThrottleInv, NEW g \in Guests, NEW G \in GuestsType,
         guest' = [guest EXCEPT ![g] = G],
         ~(G.pc = "answer" /\ G.seen >= CaptchaAt),
         G.pc # "idle" => G.account \in Accounts,
         G.pc = "note" => G.captcha \in Captchas,
         noted \subseteq noted', noted' \subseteq Captchas, UNCHANGED answered,
         captcha' \in [Captchas -> Accounts \cup {Nobody}], UNCHANGED <<failed, locked, expired>>
  PROVE  ThrottleInv'
<1>1. guest \in [Guests -> GuestsType]
  BY DEF ThrottleInv, ThrottleTypeOK, GuestsType
<1>2. guest' \in [Guests -> GuestsType]
  BY <1>1
<1>3. \A h \in Guests : guest'[h] = IF h = g THEN G ELSE guest[h]
  BY <1>1
<1>4. ThrottleTypeOK'
  BY <1>2 DEF ThrottleInv, ThrottleTypeOK, GuestsType
<1>5. GuessesOK'
  BY <1>3 DEF ThrottleInv, GuessesOK, Answering
<1> QED
  BY <1>4, <1>5 DEF ThrottleInv

LEMMA NoGuestOK ==
  /\ NoGuest \in GuestsType /\ NoGuest.pc = "idle"
BY DEF NoGuest, GuestsType

LEMMA LoginInv ==
  ASSUME ThrottleInv, NEW g \in Guests, NEW a \in Accounts, NEW right \in BOOLEAN,
         NEW c \in Captchas \cup {Nobody}, Login(g, a, right, c)
  PROVE  ThrottleInv'
<1> DEFINE G == [pc |-> IF failed[a] >= CaptchaAt THEN "captcha" ELSE "answer",
                 account |-> a, right |-> right, seen |-> failed[a], captcha |-> c]
<1>1. failed[a] \in Nat
  BY DEF ThrottleInv, ThrottleTypeOK
<1>2. /\ G \in GuestsType /\ G.account \in Accounts
      /\ ~(G.pc = "answer" /\ G.seen >= CaptchaAt) /\ G.pc # "note"
  BY <1>1 DEF GuestsType
<1>3. UNCHANGED <<failed, locked, captcha, expired, noted, answered>>
      /\ guest' = [guest EXCEPT ![g] = G]
  BY DEF Login
<1> HIDE DEF G
<1> QED
  BY <1>2, <1>3, GuestMoves DEF ThrottleInv, ThrottleTypeOK

LEMMA CheckCaptchaInv ==
  ASSUME ThrottleInv, NEW g \in Guests, CheckCaptcha(g)
  PROVE  ThrottleInv'
<1> DEFINE G == guest[g]
<1>1. /\ guest \in [Guests -> GuestsType] /\ G \in GuestsType /\ G.account \in Accounts
      /\ noted \subseteq Captchas
  BY DEF ThrottleInv, ThrottleTypeOK, GuestsType, GuessesOK, CheckCaptcha
<1>2. UNCHANGED <<failed, locked, expired, noted, answered>>
  BY DEF CheckCaptcha
<1>3. \/ /\ G.captcha \in Captchas /\ UNCHANGED captcha
         /\ guest' = [guest EXCEPT ![g] = [G EXCEPT !.pc = "note"]]
      \/ guest' = [guest EXCEPT ![g] = NoGuest] /\ Challenged(G.account)
  BY <1>1 DEF CheckCaptcha, Leave
<1>4. captcha' \in [Captchas -> Accounts \cup {Nobody}]
  BY <1>1, <1>3, ChallengedOK DEF ThrottleInv, ThrottleTypeOK
<1>5. CASE /\ G.captcha \in Captchas
           /\ guest' = [guest EXCEPT ![g] = [G EXCEPT !.pc = "note"]]
  <2> DEFINE H == [G EXCEPT !.pc = "note"]
  <2>1. /\ H \in GuestsType /\ H.pc = "note" /\ H.account \in Accounts
        /\ H.captcha \in Captchas
    BY <1>1, <1>5 DEF GuestsType
  <2> HIDE DEF G
  <2> QED
    BY <1>1, <1>2, <1>4, <1>5, <2>1, GuestMoves
<1>6. CASE guest' = [guest EXCEPT ![g] = NoGuest]
  BY <1>1, <1>2, <1>4, <1>6, NoGuestOK, GuestMoves
<1> QED
  BY <1>3, <1>5, <1>6

LEMMA NoteNonceInv ==
  ASSUME ThrottleInv, NEW g \in Guests, NoteNonce(g)
  PROVE  ThrottleInv'
<1> DEFINE G == guest[g]
<1>1. /\ guest \in [Guests -> GuestsType] /\ G \in GuestsType /\ G.account \in Accounts
      /\ G.captcha \in Captchas /\ noted \subseteq Captchas
  BY DEF ThrottleInv, ThrottleTypeOK, GuestsType, GuessesOK, NoteNonce
<1>2. UNCHANGED <<failed, locked, expired, answered>>
  BY DEF NoteNonce
<1>3. CASE /\ Fresh(G.captcha)
           /\ noted' = noted \cup {G.captcha}
           /\ guest' = [guest EXCEPT ![g].pc = "answer"]
           /\ UNCHANGED captcha
  <2> DEFINE H == [G EXCEPT !.pc = "answer"]
  <2>1. /\ H \in GuestsType /\ H.account \in Accounts /\ H.captcha = G.captcha
        /\ H.pc = "answer" /\ H.seen = G.seen
    BY <1>1 DEF GuestsType
  <2>2. guest' = [guest EXCEPT ![g] = H]
    BY <1>1, <1>3
  <2> HIDE DEF H, G
  <2>3. /\ guest' \in [Guests -> GuestsType]
        /\ \A h \in Guests : guest'[h] = IF h = g THEN H ELSE guest[h]
    BY <1>1, <2>1, <2>2
  <2>4. ThrottleTypeOK'
    BY <1>1, <1>2, <1>3, <2>3 DEF ThrottleInv, ThrottleTypeOK, GuestsType
  <2>5. G.captcha \notin noted /\ answered[G.captcha] \in Nat
    BY <1>1, <1>3 DEF Fresh, ThrottleInv, ThrottleTypeOK
  <2>6. answered[G.captcha] = 0
    BY <1>1, <2>5 DEF ThrottleInv, GuessesOK
  <2>7. \A h \in Guests : h # g /\ Answering(h) => guest[h].captcha # G.captcha
    BY <2>5 DEF ThrottleInv, GuessesOK
  <2>8. GuessesOK'
    <3>1. \A h \in Guests : Answering(h)' => h = g \/ (Answering(h) /\ guest'[h] = guest[h])
      BY <2>3 DEF Answering
    <3>2. guest'[g] = H
      BY <2>3
    <3>3. \A h \in Guests : Answering(h)' =>
            guest'[h].captcha \in noted' /\ answered'[guest'[h].captcha] = 0
      <4> SUFFICES ASSUME NEW h \in Guests, Answering(h)'
                   PROVE  guest'[h].captcha \in noted' /\ answered'[guest'[h].captcha] = 0
        OBVIOUS
      <4>1. CASE h = g
        <5>1. guest'[h].captcha = G.captcha
          BY <2>1, <3>2, <4>1
        <5>2. G.captcha \in noted' /\ answered'[G.captcha] = 0
          BY <1>2, <1>3, <2>6
        <5> QED
          BY <5>1, <5>2
      <4>2. CASE h # g
        <5>1. guest'[h] = guest[h] /\ Answering(h)
          BY <3>1, <4>2
        <5>2. guest[h].captcha \in noted /\ answered[guest[h].captcha] = 0
          BY <5>1 DEF ThrottleInv, GuessesOK
        <5> QED
          BY <1>2, <1>3, <5>1, <5>2
      <4> QED
        BY <4>1, <4>2
    <3>4. \A h, i \in Guests : h # i /\ Answering(h)' /\ Answering(i)' =>
            guest'[h].captcha # guest'[i].captcha
      BY <2>1, <2>7, <3>1, <3>2 DEF ThrottleInv, GuessesOK
    <3>5. \A c \in Captchas : answered'[c] <= 1 /\ (answered'[c] = 1 => c \in noted')
      BY <1>2, <1>3 DEF ThrottleInv, GuessesOK
    <3>6. \A h \in Guests : /\ guest'[h].pc # "idle" => guest'[h].account \in Accounts
                            /\ guest'[h].pc = "note" => guest'[h].captcha \in Captchas
      BY <2>1, <2>3 DEF ThrottleInv, GuessesOK
    <3> QED
      BY <3>3, <3>4, <3>5, <3>6 DEF GuessesOK
  <2> QED
    BY <2>4, <2>8 DEF ThrottleInv
<1>4. CASE /\ noted' \in {noted, noted \cup {G.captcha}}
           /\ guest' = [guest EXCEPT ![g] = NoGuest] /\ Challenged(G.account)
  <2>1. captcha' \in [Captchas -> Accounts \cup {Nobody}]
    BY <1>1, <1>4, ChallengedOK DEF ThrottleInv
  <2>2. noted \subseteq noted' /\ noted' \subseteq Captchas
    BY <1>1, <1>4
  <2> QED
    BY <1>2, <1>4, <2>1, <2>2, NoGuestOK, GuestMoves
<1> QED
  BY <1>3, <1>4 DEF NoteNonce, Leave

LEMMA AnswerLoginInv ==
  ASSUME ThrottleInv, NEW g \in Guests, AnswerLogin(g)
  PROVE  ThrottleInv'
<1> DEFINE G     == guest[g]
           count == IF G.right THEN 0 ELSE G.seen + 1
           keep  == G.right /\ G.seen = 0
<1>1. /\ guest \in [Guests -> GuestsType] /\ G \in GuestsType /\ G.account \in Accounts
      /\ G.pc = "answer" /\ answered \in [Captchas -> Nat]
  BY DEF ThrottleInv, ThrottleTypeOK, GuestsType, GuessesOK, AnswerLogin
<1>2. count \in Nat
  BY <1>1 DEF GuestsType
<1>3. /\ failed' = [failed EXCEPT ![G.account] = IF keep THEN failed[G.account] ELSE count]
      /\ locked' = [locked EXCEPT ![G.account] = IF keep THEN locked[G.account]
                                                  ELSE count >= LockAt]
      /\ answered' = [c \in Captchas |-> IF c = G.captcha /\ G.seen >= CaptchaAt
                                         THEN answered[c] + 1 ELSE answered[c]]
      /\ Challenged(G.account) \/ UNCHANGED captcha
      /\ guest' = [guest EXCEPT ![g] = NoGuest]
      /\ UNCHANGED <<expired, noted>>
  BY DEF AnswerLogin, Leave
<1>4. captcha' \in [Captchas -> Accounts \cup {Nobody}]
  BY <1>1, <1>3, ChallengedOK DEF ThrottleInv, ThrottleTypeOK
<1>5. failed' \in [Accounts -> Nat] /\ locked' \in [Accounts -> BOOLEAN]
  <2>1. (IF keep THEN failed[G.account] ELSE count) \in Nat
    BY <1>1, <1>2 DEF ThrottleInv, ThrottleTypeOK
  <2>2. (IF keep THEN locked[G.account] ELSE count >= LockAt) \in BOOLEAN
    <3>1. locked[G.account] \in BOOLEAN /\ (count >= LockAt) \in BOOLEAN
      BY <1>1 DEF ThrottleInv, ThrottleTypeOK
    <3> QED
      BY <3>1
  <2> DEFINE f == IF keep THEN failed[G.account] ELSE count
             l == IF keep THEN locked[G.account] ELSE count >= LockAt
  <2>3. failed' = [failed EXCEPT ![G.account] = f] /\ locked' = [locked EXCEPT ![G.account] = l]
    BY <1>3
  <2>4. f \in Nat /\ l \in BOOLEAN
    BY <2>1, <2>2
  <2> HIDE DEF f, l
  <2>5. failed' \in [Accounts -> Nat]
    BY <2>3, <2>4 DEF ThrottleInv, ThrottleTypeOK
  <2>6. locked' \in [Accounts -> BOOLEAN]
    BY <2>3, <2>4 DEF ThrottleInv, ThrottleTypeOK
  <2> QED
    BY <2>5, <2>6
<1>6. answered' \in [Captchas -> Nat]
  BY <1>1, <1>3
<1>7. /\ guest' \in [Guests -> GuestsType]
      /\ \A h \in Guests : guest'[h] = IF h = g THEN NoGuest ELSE guest[h]
  BY <1>1, <1>3, NoGuestOK
<1>8. ThrottleTypeOK'
  BY <1>3, <1>4, <1>5, <1>6, <1>7 DEF ThrottleInv, ThrottleTypeOK, GuestsType
<1>9. GuessesOK'
  <2>1. CASE Answering(g)
    <3>1. /\ G.captcha \in noted /\ answered[G.captcha] = 0 /\ G.captcha \in Captchas
          /\ G.seen >= CaptchaAt
      BY <2>1 DEF ThrottleInv, ThrottleTypeOK, GuessesOK, Answering
    <3>2. \A c \in Captchas : answered'[c] = IF c = G.captcha THEN 1 ELSE answered[c]
      BY <1>3, <3>1
    <3>3. \A h \in Guests : Answering(h)' =>
            h # g /\ Answering(h) /\ guest'[h] = guest[h] /\ guest[h].captcha # G.captcha
      BY <1>7, <2>1, NoGuestOK DEF ThrottleInv, GuessesOK, Answering
    <3>4. \A c \in Captchas : answered'[c] <= 1 /\ (answered'[c] = 1 => c \in noted)
      BY <3>1, <3>2 DEF ThrottleInv, GuessesOK
    <3>5. \A h \in Guests : Answering(h)' =>
            guest'[h].captcha \in noted /\ answered'[guest'[h].captcha] = 0
      <4> SUFFICES ASSUME NEW h \in Guests, Answering(h)'
                   PROVE  guest'[h].captcha \in noted /\ answered'[guest'[h].captcha] = 0
        OBVIOUS
      <4>1. /\ guest'[h] = guest[h] /\ guest[h].captcha # G.captcha
            /\ guest[h].captcha \in noted /\ answered[guest[h].captcha] = 0
        BY <3>3 DEF ThrottleInv, GuessesOK
      <4> QED
        BY <3>2, <4>1 DEF ThrottleInv, ThrottleTypeOK
    <3> QED
      BY <1>3, <1>7, <3>3, <3>4, <3>5, NoGuestOK DEF ThrottleInv, GuessesOK
  <2>2. CASE ~Answering(g)
    <3>1. ~(G.seen >= CaptchaAt)
      BY <1>1, <2>2 DEF Answering
    <3>2. answered' = answered
      BY <1>1, <1>3, <3>1
    <3> QED
      BY <1>3, <1>7, <3>2, NoGuestOK DEF ThrottleInv, GuessesOK, Answering
  <2> QED
    BY <2>1, <2>2
<1> QED
  BY <1>8, <1>9 DEF ThrottleInv

LEMMA ThrottleStepInv ==
  ASSUME AdmissionsInv, ThrottleInv, ThrottleStep
  PROVE  ThrottleInv' /\ AdmissionsInv' /\ Ages
<1>1. UNCHANGED <<account, form, request>> /\ budget' \in [Events -> Nat]
  <2>1. CASE \E g \in Guests, a \in Accounts, right \in BOOLEAN, c \in Captchas \cup {Nobody} :
               Login(g, a, right, c)
    BY <2>1, SpendOK DEF Login, AdmissionsInv, AdmissionsTypeOK, Events
  <2>2. CASE UNCHANGED admissionVars
    BY <2>2 DEF admissionVars, AdmissionsInv, AdmissionsTypeOK
  <2> QED
    BY <2>1, <2>2 DEF ThrottleStep, CheckCaptcha, NoteNonce, AnswerLogin, LockEnds, CaptchaExpires
<1>2. AdmissionsInv' /\ Ages
  BY <1>1, Quiet, RequestsKeep DEF AdmissionsInv, AdmissionsTypeOK
<1>3. ASSUME NEW a \in Accounts, LockEnds(a) PROVE ThrottleInv'
  BY <1>3 DEF LockEnds, ThrottleInv, ThrottleTypeOK, GuessesOK, Answering
<1>4. ASSUME NEW c \in Captchas, CaptchaExpires(c) PROVE ThrottleInv'
  BY <1>4 DEF CaptchaExpires, ThrottleInv, ThrottleTypeOK, GuessesOK, Answering
<1> QED
  BY <1>2, <1>3, <1>4, LoginInv, CheckCaptchaInv, NoteNonceInv, AnswerLoginInv DEF ThrottleStep

-----------------------------------------------------------------------------
(* All of it *)

Inv == AdmissionsInv /\ ImportsInv /\ ThrottleInv

LEMMA InitInv ==
  ASSUME Init
  PROVE  Inv
<1> USE DEF Init
<1>1. AdmissionsTypeOK
  <2>1. account \in [Accounts -> Rows]
    BY DEF AdmissionsInit, NoAccount, Rows
  <2>2. budget \in [Events -> Nat]
    BY BudgetAssumption DEF AdmissionsInit
  <2>3. form \in [Emails -> [id : 0..MaxForms,
                            status : {"none", "PENDING", "REVIEWED", "CONVERTED"},
                            linked : Accounts \cup {Nobody}]]
    BY Blanks DEF AdmissionsInit, NoForm
  <2>4. request \in [Staff -> Requests]
    BY Blanks DEF AdmissionsInit, NoRequest, Requests
  <2> QED
    BY <2>1, <2>2, <2>3, <2>4 DEF AdmissionsTypeOK, Rows, Requests
<1>2. RequestsOK /\ FormsOK
  BY Blanks DEF AdmissionsInit, RequestsOK, Knows, FormsOK
<1>3. HoldersOK
  BY DEF AdmissionsInit, HoldersOK, NoAccount, Stored
<1>4. ImportsInv
  <2>1. /\ job.pc = "none" /\ job.made = 0 /\ job.stalled = 0 /\ job.rows = {}
        /\ job.stale = {} /\ job = NoJob
    BY DEF ImportsInit, NoJob
  <2>2. 0 \in 0..Attempts - 1 /\ 0 \in 0..Attempts /\ 0 \in 0..2
    BY AttemptsAssumption
  <2>3. job \in Jobs
    BY <2>1, <2>2 DEF NoJob, Jobs
  <2> QED
    BY <2>1, <2>2, <2>3
       DEF ImportsInit, ImportsInv, ImportsTypeOK, JobOK, StaleOK, EveryRowLands, Over, Jobs
<1>5. ThrottleInv
  <2>1. guest \in [Guests -> GuestsType]
    BY NoGuestOK DEF ThrottleInit
  <2>2. ThrottleTypeOK
    BY <2>1 DEF ThrottleInit, ThrottleTypeOK, GuestsType
  <2>3. GuessesOK
    BY NoGuestOK DEF ThrottleInit, GuessesOK, Answering
  <2> QED
    BY <2>2, <2>3 DEF ThrottleInv
<1> QED
  BY <1>1, <1>2, <1>3, <1>4, <1>5 DEF Inv, AdmissionsInv

LEMMA NextInv ==
  ASSUME Inv, [Next]_vars
  PROVE  Inv'
<1> USE DEF Inv
<1>1. CASE AdmissionsStep /\ UNCHANGED <<importVars, throttleVars>>
  BY <1>1, AdmissionsStepInv, ImportsQuiet, ThrottleQuiet
<1>2. CASE ImportsStep /\ UNCHANGED throttleVars
  BY <1>2, JobSteps, CreateAccountsInv, ThrottleQuiet DEF ImportsStep, AttemptStep
<1>3. CASE ThrottleStep /\ UNCHANGED importVars
  BY <1>3, ThrottleStepInv, ImportsQuiet
<1>4. CASE UNCHANGED vars
  <2>1. UNCHANGED <<admissionVars, importVars, throttleVars>>
    BY <1>4 DEF vars
  <2>2. AdmissionsInv' /\ Ages
    BY <2>1, Quiet, RequestsKeep DEF admissionVars, AdmissionsInv, AdmissionsTypeOK
  <2> QED
    BY <2>1, <2>2, ImportsQuiet, ThrottleQuiet
<1> QED
  BY <1>1, <1>2, <1>3, <1>4 DEF Next

LEMMA Invariance == Spec => []Inv
<1>1. Init => Inv
  BY InitInv
<1>2. Inv /\ [Next]_vars => Inv'
  BY NextInv
<1> QED
  BY <1>1, <1>2, PTL DEF Spec

\* Every step of staff, of the import and of logins keeps rows, applications,
\* requests and the job within their types.
THEOREM TypeCorrect == Spec => []TypeOK
<1>1. Inv => TypeOK
  BY DEF Inv, AdmissionsInv, ImportsInv, ThrottleInv, TypeOK
<1> QED
  BY <1>1, Invariance, PTL

\* However many conversions, entries, imports, deletions and renumberings meet,
\* an address and a roll number have one holder.
THEOREM Holders == Spec => []OneHolder
<1>1. Inv => OneHolder
  BY DEF Inv, AdmissionsInv, HoldersOK, FormsOK, OneHolder
<1> QED
  BY <1>1, Invariance, PTL

\* A job that is over has found an account or a conflict for every row of its
\* file, for any number of attempts and errors, unless each single attempt was
\* undone or the worker died twice.
THEOREM RowsLand == Spec => []EveryRowLands
<1>1. Inv => EveryRowLands
  BY DEF Inv, ImportsInv, JobOK
<1> QED
  BY <1>1, Invariance, PTL

\* A captcha is good for one guess, for any number of requests and thresholds.
THEOREM GuessesBounded == Spec => []OneGuessPerCaptcha
<1>1. Inv => OneGuessPerCaptcha
  BY DEF Inv, ThrottleInv, GuessesOK, OneGuessPerCaptcha
<1> QED
  BY <1>1, Invariance, PTL
=============================================================================
