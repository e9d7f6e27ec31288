-------------------------- MODULE AttendanceProofs --------------------------
(***************************************************************************)
(* Proofs, for any number of requests, students, classes, codes and        *)
(* windows, of the safety properties of Attendance.                        *)
(***************************************************************************)
EXTENDS Attendance, TLAPS

\* The list of the staff is only ever applied with a status of an attendance,
\* and a review with a status of a ticket.
HandlerState(q) == /\ q.pc = "manual" => q.status \in Statuses
                   /\ q.pc = "review" => q.status \in Reviews

HandlersOK == \A r \in Requests : HandlerState(req[r])

LEMMA IdleRequest == Idle \in Request /\ HandlerState(Idle)
BY DEF Idle, Request, Steps, Marks, HandlerState

\* A handler that enters a step with the cells it found.
LEMMA NewRequest ==
  ASSUME NEW s \in Steps \ {"manual", "review"}, NEW C \in SUBSET Cells
  PROVE  /\ [Idle EXCEPT !.pc = s, !.cells = C] \in Request
         /\ HandlerState([Idle EXCEPT !.pc = s, !.cells = C])
BY DEF Idle, Request, Marks, HandlerState

\* A step that gives one request a well-formed state keeps all of them so.
LEMMA OneRequest ==
  ASSUME req \in [Requests -> Request], HandlersOK,
         NEW r \in Requests, NEW q \in Request, HandlerState(q),
         req' = [req EXCEPT ![r] = q]
  PROVE  req' \in [Requests -> Request] /\ HandlersOK'
BY DEF HandlersOK

LEMMA FinishTyped ==
  ASSUME req \in [Requests -> Request], HandlersOK, NEW r \in Requests, Finish(r)
  PROVE  req' \in [Requests -> Request] /\ HandlersOK'
BY IdleRequest, OneRequest DEF Finish

LEMMA UpsertTyped ==
  ASSUME record \in [Cells -> Marks], NEW C, NEW m \in Statuses, Upsert(C, m)
  PROVE  record' \in [Cells -> Marks]
BY DEF Upsert, Marks

\* A review that is written leaves the other handlers as they are, but for the
\* note that they are late.
LEMMA OthersReviewed ==
  ASSUME req \in [Requests -> Request], NEW r \in Requests, ReviewWrite(r),
         NEW p \in Requests, p # r
  PROVE  /\ req'[p] \in Request
         /\ req'[p].pc = req[p].pc /\ req'[p].cells = req[p].cells
         /\ req'[p].status = req[p].status
         /\ req[p].late => req'[p].late
BY DEF ReviewWrite, Request

LEMMA TypeInit == Init => TypeOK /\ HandlersOK
<1> SUFFICES ASSUME Init PROVE TypeOK /\ HandlersOK
  OBVIOUS
<1>1. req \in [Requests -> Request] /\ HandlersOK
  BY IdleRequest DEF Init, HandlersOK
<1> QED BY <1>1 DEF Init, TypeOK, Marks

LEMMA TypeStep == TypeOK /\ HandlersOK /\ [Next]_vars => TypeOK' /\ HandlersOK'
<1> SUFFICES ASSUME TypeOK, HandlersOK, [Next]_vars
             PROVE  TypeOK' /\ HandlersOK'
  OBVIOUS
<1> USE DEF TypeOK, world, history
<1>1. ASSUME NEW r \in Requests, RequestStep(r) PROVE TypeOK' /\ HandlersOK'
  <2>0. req[r] \in Request /\ HandlerState(req[r]) /\ req[r].cells \in SUBSET Cells
    BY DEF HandlersOK, Request
  <2>1. ASSUME NEW s \in Students, NEW q \in Codes, ScanReserve(r, s, q)
        PROVE  TypeOK' /\ HandlersOK'
    <3>1. <<s, CodeSubject[q]>> \in Cells
      BY ScheduleAssumption DEF Cells
    <3>2. "check" \in Steps \ {"manual", "review"}
      BY DEF Steps
    <3>3. req' \in [Requests -> Request] /\ HandlersOK'
      <4>1. CASE <<s, CodeSubject[q]>> \in Enrolled
        BY <2>1, <3>1, <3>2, <4>1, NewRequest, OneRequest DEF ScanReserve
      <4>2. CASE <<s, CodeSubject[q]>> \notin Enrolled
        BY <2>1, <4>2 DEF ScanReserve, HandlersOK
      <4> QED BY <4>1, <4>2
    <3> QED BY <2>1, <3>3 DEF ScanReserve
  <2>2. ASSUME NEW s \in Students, GateRead(r, s) PROVE TypeOK' /\ HandlersOK'
    <3>1. {s} \X Scheduled(s) \in SUBSET Cells
      BY DEF Scheduled, Cells
    <3>2. "find" \in Steps \ {"manual", "review"}
      BY DEF Steps
    <3>3. req' \in [Requests -> Request] /\ HandlersOK'
      BY <2>2, <3>1, <3>2, NewRequest, OneRequest DEF GateRead
    <3> QED BY <2>2, <3>3 DEF GateRead
  <2>3. CASE ScanCheck(r)
    <3> DEFINE q0 == [req[r] EXCEPT !.pc = "create"]
    <3>1. q0 \in Request /\ HandlerState(q0)
      BY <2>0 DEF Request, Steps, HandlerState
    <3>2. req' = [req EXCEPT ![r] = q0]
      BY <2>3 DEF ScanCheck
    <3> QED BY <2>3, <3>1, <3>2, OneRequest DEF ScanCheck
  <2>4. CASE ScanCreate(r)
    <3>1. record' \in [Cells -> Marks]
      BY <2>4, UpsertTyped DEF ScanCreate, Statuses
    <3>2. selfScans' \in [Cells -> Nat]
      BY <2>4 DEF ScanCreate
    <3> QED BY <2>0, <2>4, <3>1, <3>2, FinishTyped DEF ScanCreate
  <2>5. CASE GateFind(r)
    <3> DEFINE missing == {c \in req[r].cells : record[c] = "none"}
               q0 == [req[r] EXCEPT !.pc = "apply", !.cells = missing]
    <3>1. q0 \in Request /\ HandlerState(q0)
      BY <2>0 DEF Request, Steps, HandlerState
    <3>2. req' = [req EXCEPT ![r] = q0]
      BY <2>5 DEF GateFind
    <3> QED BY <2>5, <3>1, <3>2, OneRequest DEF GateFind
  <2>6. CASE GateApply(r)
    <3>1. record' \in [Cells -> Marks]
      BY <2>6, UpsertTyped DEF GateApply, Statuses
    <3> QED BY <2>0, <2>6, <3>1, FinishTyped DEF GateApply
  <2>7. ASSUME NEW C \in SUBSET Cells, NEW m \in Statuses, ManualRead(r, C, m)
        PROVE  TypeOK' /\ HandlersOK'
    <3> DEFINE q0 == [Idle EXCEPT !.pc = "manual", !.cells = C, !.status = m]
    <3>1. q0 \in Request /\ HandlerState(q0)
      BY <2>7 DEF Idle, Request, Steps, Marks, HandlerState
    <3> QED BY <2>7, <3>1, OneRequest DEF ManualRead
  <2>8. CASE ManualApply(r)
    <3>1. req[r].status \in Statuses
      BY <2>0, <2>8 DEF ManualApply, HandlerState
    <3>2. record' \in [Cells -> Marks]
      BY <2>8, <3>1, UpsertTyped DEF ManualApply
    <3> QED BY <2>0, <2>8, <3>2, FinishTyped DEF ManualApply
  <2>9. CASE SyncRead(r)
    <3>1. Missed \in SUBSET Cells
      BY DEF Missed
    <3>2. "sync" \in Steps \ {"manual", "review"}
      BY DEF Steps
    <3> QED BY <2>9, <3>1, <3>2, NewRequest, OneRequest DEF SyncRead
  <2>10. CASE SyncApply(r)
    <3>1. record' \in [Cells -> Marks]
      BY <2>10, UpsertTyped DEF SyncApply, Statuses
    <3> QED BY <2>10, <3>1, FinishTyped DEF SyncApply
  <2>11. ASSUME NEW c \in Cells, TicketRead(r, c) PROVE TypeOK' /\ HandlersOK'
    <3>1. "ticket" \in Steps \ {"manual", "review"}
      BY DEF Steps
    <3> QED BY <2>11, <3>1, NewRequest, OneRequest DEF TicketRead
  <2>12. ASSUME NEW c \in Cells, NEW m \in Reviews, ReviewRead(r, c, m)
         PROVE  TypeOK' /\ HandlersOK'
    <3> DEFINE q0 == [Idle EXCEPT !.pc = "review", !.cells = {c}, !.status = m]
    <3>1. q0 \in Request /\ HandlerState(q0)
      BY <2>12 DEF Idle, Request, Steps, HandlerState
    <3> QED BY <2>12, <3>1, OneRequest DEF ReviewRead
  <2>13. CASE TicketCreate(r)
    <3>1. ticket' \in [Cells -> Reviews \cup {"none"}]
      BY <2>13 DEF TicketCreate, Reviews
    <3> QED BY <2>13, <3>1, FinishTyped DEF TicketCreate
  <2>14. CASE ReviewWrite(r)
    <3>1. req[r].status \in Reviews
      BY <2>0, <2>14 DEF ReviewWrite, HandlerState
    <3>2. ticket' \in [Cells -> Reviews \cup {"none"}]
      BY <2>14, <3>1 DEF ReviewWrite
    <3>3. ASSUME NEW p \in Requests
          PROVE  req'[p] \in Request /\ HandlerState(req'[p])
      <4>1. CASE p = r
        BY <2>14, <4>1, IdleRequest DEF ReviewWrite
      <4>2. CASE p # r
        BY <2>14, <4>2, OthersReviewed DEF HandlersOK, HandlerState
      <4> QED BY <4>1, <4>2
    <3>4. req' \in [Requests -> Request] /\ HandlersOK'
      BY <2>14, <3>3 DEF ReviewWrite, HandlersOK
    <3> QED BY <2>14, <3>2, <3>4 DEF ReviewWrite
  <2>15. CASE Fail(r)
    BY <2>15, FinishTyped DEF Fail
  <2> QED BY <1>1, <2>1, <2>2, <2>3, <2>4, <2>5, <2>6, <2>7, <2>8, <2>9, <2>10,
             <2>11, <2>12, <2>13, <2>14, <2>15 DEF RequestStep, Sync
<1>2. ASSUME NEW q \in Codes, GenerateQR(q) PROVE TypeOK' /\ HandlersOK'
  <2>1. Expiry \in Nat
    BY TimeAssumption DEF Expiry
  <2> QED BY <1>2, <2>1 DEF GenerateQR, HandlersOK
<1>3. ASSUME NEW c \in Cells, StaffScan(c) PROVE TypeOK' /\ HandlersOK'
  <2>1. record' \in [Cells -> Marks]
    BY <1>3, UpsertTyped DEF StaffScan, Statuses
  <2> QED BY <1>3, <2>1 DEF StaffScan, HandlersOK
<1>4. CASE ToggleHoliday
  BY <1>4 DEF ToggleHoliday, HandlersOK
<1>5. CASE Tick
  BY <1>5 DEF Tick, HandlersOK
<1>6. CASE UNCHANGED vars
  BY <1>6 DEF vars, HandlersOK
<1> QED BY <1>1, <1>2, <1>3, <1>4, <1>5, <1>6 DEF Next

\* Every variable keeps its type, and every handler holds a status that its
\* next step may write.
THEOREM TypeCorrect == Spec => [](TypeOK /\ HandlersOK)
BY TypeInit, TypeStep, PTL DEF Spec

-----------------------------------------------------------------------------
(* What is on record *)

\* A class that was credited to its student has a record, and was credited once.
Credited(c) == selfScans[c] = 0 \/ (selfScans[c] = 1 /\ record[c] # "none")

RecordInv == GrantedPresent /\ \A c \in Cells : Credited(c)

\* Writing statuses keeps every record a record.
LEMMA UpsertKeeps ==
  ASSUME record \in [Cells -> Marks], NEW C, NEW m \in Statuses, Upsert(C, m),
         NEW c \in Cells, record[c] # "none"
  PROVE  record'[c] # "none"
BY DEF Upsert, Statuses

LEMMA RecordStep ==
  TypeOK /\ HandlersOK /\ RecordInv /\ [Next]_vars => RecordInv'
<1> SUFFICES ASSUME TypeOK, HandlersOK, RecordInv, [Next]_vars PROVE RecordInv'
  OBVIOUS
<1> USE DEF RecordInv, TypeOK, world, history
<1>0. ASSUME UNCHANGED <<record, granted, selfScans, corrected>> PROVE RecordInv'
  BY <1>0 DEF GrantedPresent, Credited
<1>1. ASSUME NEW r \in Requests, RequestStep(r) PROVE RecordInv'
  <2>0. req[r] \in Request /\ HandlerState(req[r]) /\ req[r].cells \in SUBSET Cells
    BY DEF HandlersOK, Request
  <2>1. CASE ScanCreate(r)
    <3>1. GrantedPresent'
      BY <2>0, <2>1 DEF ScanCreate, Upsert, GrantedPresent
    <3>2. ASSUME NEW c \in Cells PROVE Credited(c)'
      <4>1. CASE c \in req[r].cells
        <5>1. record[c] = "none" /\ record'[c] = "PRESENT"
          BY <2>1, <4>1 DEF ScanCreate, Creatable, Upsert
        <5>2. selfScans[c] = 0 /\ selfScans'[c] = selfScans[c] + 1
          BY <2>1, <4>1, <5>1 DEF ScanCreate, Credited
        <5> QED BY <5>1, <5>2 DEF Credited
      <4>2. CASE c \notin req[r].cells
        BY <2>1, <4>2 DEF ScanCreate, Upsert, Credited
      <4> QED BY <4>1, <4>2
    <3> QED BY <3>1, <3>2
  <2>2. CASE GateApply(r)
    <3>1. GrantedPresent'
      BY <2>0, <2>2 DEF GateApply, Upsert, GrantedPresent
    <3>2. \A c \in Cells : record[c] # "none" => record'[c] # "none"
      BY <2>2, UpsertKeeps DEF GateApply, Statuses
    <3> QED BY <2>2, <3>1, <3>2 DEF GateApply, Credited
  <2>3. CASE ManualApply(r)
    <3>1. GrantedPresent'
      BY <2>3 DEF ManualApply, Upsert, GrantedPresent
    <3>2. \A c \in Cells : record[c] # "none" => record'[c] # "none"
      BY <2>0, <2>3, UpsertKeeps DEF ManualApply, HandlerState
    <3> QED BY <2>3, <3>1, <3>2 DEF ManualApply, Credited
  <2>4. CASE SyncApply(r)
    <3>1. \A c \in Cells : record[c] # "none" => record'[c] = record[c]
      BY <2>4 DEF SyncApply, Upsert, Inserted
    <3>2. GrantedPresent'
      BY <2>4, <3>1 DEF SyncApply, GrantedPresent
    <3> QED BY <2>4, <3>1, <3>2 DEF SyncApply, Credited
  <2>5. CASE ~(ScanCreate(r) \/ GateApply(r) \/ ManualApply(r) \/ SyncApply(r))
    BY <1>0, <1>1, <2>5 DEF RequestStep, Sync, ScanReserve, GateRead, ScanCheck,
       GateFind, ManualRead, SyncRead, TicketRead, ReviewRead, TicketCreate,
       ReviewWrite, Fail
  <2> QED BY <2>1, <2>2, <2>3, <2>4, <2>5
<1>2. ASSUME NEW c \in Cells, StaffScan(c) PROVE RecordInv'
  <2>1. GrantedPresent'
    BY <1>2 DEF StaffScan, Upsert, GrantedPresent
  <2>2. \A d \in Cells : record[d] # "none" => record'[d] # "none"
    BY <1>2, UpsertKeeps DEF StaffScan, Statuses
  <2> QED BY <1>2, <2>1, <2>2 DEF StaffScan, Credited
<1>3. CASE \/ \E q \in Codes : GenerateQR(q)
           \/ ToggleHoliday \/ Tick \/ UNCHANGED vars
  BY <1>0, <1>3 DEF GenerateQR, ToggleHoliday, Tick, vars
<1> QED BY <1>1, <1>2, <1>3 DEF Next

\* Whatever the interleaving of scans, the staff and the timer: an answered scan
\* stays PRESENT unless the staff corrects it, and a class is credited once.
THEOREM RecordsSafe == Spec => [](GrantedPresent /\ OneSelfScan)
<1>1. Init => RecordInv
  BY DEF Init, RecordInv, GrantedPresent, Credited
<1>2. RecordInv => GrantedPresent /\ OneSelfScan
  BY DEF RecordInv, Credited, OneSelfScan
<1> QED BY <1>1, <1>2, RecordStep, TypeCorrect, PTL DEF Spec

\* No two scans of one student are credited to one class, whichever of its
\* codes they read.
THEOREM OneScan == Spec => []OneSelfScan
BY RecordsSafe, PTL

-----------------------------------------------------------------------------
(* Tickets *)

\* Only one cell is under review, and a review that is under way while the
\* ticket is approved had read the ticket before.
ReviewInv == \A r \in Requests : req[r].pc = "review" =>
               \E c \in Cells : /\ req[r].cells = {c}
                                /\ ticket[c] = "APPROVED" => req[r].late

\* A step that leaves the tickets alone and starts no review.
LEMMA ReviewKept ==
  ASSUME ReviewInv, NEW p \in Requests, req'[p].pc = "review",
         req'[p] = req[p], UNCHANGED ticket
  PROVE  \E c \in Cells : /\ req'[p].cells = {c}
                          /\ ticket'[c] = "APPROVED" => req'[p].late
BY DEF ReviewInv

LEMMA ReviewStep == TypeOK /\ HandlersOK /\ ReviewInv /\ [Next]_vars => ReviewInv'
<1> SUFFICES ASSUME TypeOK, HandlersOK, ReviewInv, [Next]_vars,
                    NEW p \in Requests, req'[p].pc = "review"
             PROVE  \E c \in Cells : /\ req'[p].cells = {c}
                                     /\ ticket'[c] = "APPROVED" => req'[p].late
  BY DEF ReviewInv
<1> USE DEF TypeOK, world, history
<1>1. ASSUME NEW r \in Requests, ReviewWrite(r)
      PROVE  \E c \in Cells : /\ req'[p].cells = {c}
                              /\ ticket'[c] = "APPROVED" => req'[p].late
  <2>1. p # r
    BY <1>1 DEF ReviewWrite, Idle
  <2>2. req[p].pc = "review" /\ req'[p].cells = req[p].cells
        /\ (req[p].late => req'[p].late)
    BY <1>1, <2>1, OthersReviewed
  <2>3. PICK c \in Cells : /\ req[p].cells = {c}
                           /\ ticket[c] = "APPROVED" => req[p].late
    BY <2>2 DEF ReviewInv
  <2>4. PICK d \in Cells : req[r].cells = {d}
    BY <1>1 DEF ReviewInv, ReviewWrite
  <2>5. CASE c = d
    <3>1. ticket'[c] = req[r].status /\ req[p].cells = req[r].cells
      BY <1>1, <2>3, <2>4, <2>5 DEF ReviewWrite
    <3>2. ticket'[c] = "APPROVED" => req'[p].late
      BY <1>1, <2>1, <2>2, <3>1 DEF ReviewWrite, Request
    <3> QED BY <2>2, <2>3, <3>2
  <2>6. CASE c # d
    <3>1. ticket'[c] = ticket[c]
      BY <1>1, <2>4, <2>6 DEF ReviewWrite
    <3> QED BY <2>2, <2>3, <3>1
  <2> QED BY <2>5, <2>6
<1>2. ASSUME NEW r \in Requests, TicketCreate(r)
      PROVE  \E c \in Cells : /\ req'[p].cells = {c}
                              /\ ticket'[c] = "APPROVED" => req'[p].late
  <2>1. req'[p] = req[p]
    BY <1>2 DEF TicketCreate, Finish, Idle
  <2>2. PICK c \in Cells : /\ req[p].cells = {c}
                           /\ ticket[c] = "APPROVED" => req[p].late
    BY <2>1 DEF ReviewInv
  <2>3. ticket'[c] = "APPROVED" => ticket[c] = "APPROVED"
    BY <1>2 DEF TicketCreate
  <2> QED BY <2>1, <2>2, <2>3
<1>3. ASSUME NEW r \in Requests, NEW d \in Cells, NEW m \in Reviews,
             ReviewRead(r, d, m)
      PROVE  \E c \in Cells : /\ req'[p].cells = {c}
                              /\ ticket'[c] = "APPROVED" => req'[p].late
  <2>1. CASE p = r
    <3>1. req'[p].cells = {d} /\ ticket'[d] # "APPROVED"
      BY <1>3, <2>1 DEF ReviewRead, Reviewable, Idle
    <3> QED BY <3>1
  <2>2. CASE p # r
    BY <1>3, <2>2, ReviewKept DEF ReviewRead
  <2> QED BY <2>1, <2>2
<1>4. ASSUME NEW r \in Requests, RequestStep(r), ~ReviewWrite(r), ~TicketCreate(r),
             \A d \in Cells, m \in Reviews : ~ReviewRead(r, d, m)
      PROVE  UNCHANGED ticket /\ req'[p] = req[p]
  <2>1. UNCHANGED ticket /\ (p # r => req'[p] = req[p])
    BY <1>4 DEF RequestStep, Sync, ScanReserve, GateRead, ScanCheck, ScanCreate,
       GateFind, GateApply, ManualRead, ManualApply, SyncRead, SyncApply, TicketRead,
       Fail, Finish
  <2>2. p # r
    <3>1. Finish(r) => p # r
      BY DEF Finish, Idle
    <3>2. ScanCheck(r) \/ GateFind(r) => p # r
      BY DEF ScanCheck, GateFind, Request
    <3>3. (\E s \in Students, k \in Codes : ScanReserve(r, s, k)) => p # r
      BY DEF ScanReserve, Start, Idle
    <3>4. (\E s \in Students : GateRead(r, s)) \/ SyncRead(r)
          \/ (\E d \in Cells : TicketRead(r, d)) => p # r
      BY DEF GateRead, SyncRead, TicketRead, Idle
    <3>5. (\E C \in SUBSET Cells, m \in Statuses : ManualRead(r, C, m)) => p # r
      BY DEF ManualRead, Idle
    <3> QED
      BY <1>4, <3>1, <3>2, <3>3, <3>4, <3>5 DEF RequestStep, Sync, ScanCreate,
         GateApply, ManualApply, SyncApply, Fail
  <2> QED BY <2>1, <2>2
<1>5. CASE \/ \E q \in Codes : GenerateQR(q)
           \/ \E c \in Cells : StaffScan(c)
           \/ ToggleHoliday \/ Tick \/ UNCHANGED vars
  BY <1>5, ReviewKept DEF GenerateQR, StaffScan, ToggleHoliday, Tick, vars
<1> QED BY <1>1, <1>2, <1>3, <1>4, <1>5, ReviewKept DEF Next

\* An approval is taken back by nobody but a reviewer who had read the ticket
\* before it was approved, however many reviews and submissions are under way.
THEOREM ApprovalsKept == Spec => ApprovalsLostOnlyToRaces
<1> DEFINE Excused(c) ==
      ticket[c] = "APPROVED" /\ ticket'[c] # "APPROVED" =>
        \E r \in Requests : /\ ReviewWrite(r)
                            /\ c \in req[r].cells /\ req[r].late
<1>1. Init => ReviewInv
  BY DEF Init, ReviewInv, Idle
<1>2. TypeOK /\ ReviewInv /\ [Next]_vars => [\A c \in Cells : Excused(c)]_vars
  <2> SUFFICES ASSUME TypeOK, ReviewInv, Next, NEW c \in Cells,
                      ticket[c] = "APPROVED", ticket'[c] # "APPROVED"
               PROVE  \E r \in Requests : /\ ReviewWrite(r)
                                          /\ c \in req[r].cells /\ req[r].late
    BY DEF vars
  <2>1. PICK r \in Requests : RequestStep(r)
    BY DEF Next, GenerateQR, StaffScan, ToggleHoliday, Tick, world, history
  <2>2. ~TicketCreate(r)
    BY DEF TicketCreate, Ticketable, TypeOK
  <2>3. ReviewWrite(r)
    BY <2>1, <2>2 DEF RequestStep, Sync, ScanReserve, GateRead, ScanCheck, ScanCreate,
       GateFind, GateApply, ManualRead, ManualApply, SyncRead, SyncApply, TicketRead,
       ReviewRead, Fail
  <2>4. c \in req[r].cells
    BY <2>3 DEF ReviewWrite, TypeOK
  <2> QED BY <2>3, <2>4 DEF ReviewInv, ReviewWrite
<1> QED
  BY <1>1, <1>2, ReviewStep, TypeCorrect, PTL DEF Spec, ApprovalsLostOnlyToRaces

-----------------------------------------------------------------------------
(* What the timer writes *)

\* The timer may record an absence of c: the class is scheduled for the student
\* and a window of the student has closed.
Sweepable(c) ==
    /\ c[2] \in Scheduled(c[1])
    /\ \E w \in Windows : now > Closes[w] /\ c[1] \in Admits[w]

\* What a timer run has found is still so when it writes.
SweepInv == \A r \in Requests : req[r].pc = "sync" =>
              \A c \in req[r].cells : Sweepable(c)

LEMMA MissedSweepable == TypeOK => \A c \in Missed : c \in Cells /\ Sweepable(c)
<1> SUFFICES ASSUME TypeOK, NEW c \in Missed PROVE c \in Cells /\ Sweepable(c)
  OBVIOUS
<1>1. PICK s \in Students, j \in Subjects : c = <<s, j>>
  BY DEF Missed, Cells
<1>2. c \in Enrolled /\ c[1] = s /\ c[2] = j
  BY <1>1 DEF Missed
<1>3. \E t \in Routines : SubjectOf[t] = j /\ s \in GroupOf[t]
  BY <1>2 DEF Missed, Deduped
<1> QED BY <1>1, <1>2, <1>3 DEF Missed, Sweepable, Scheduled

LEMMA SweepStep == TypeOK /\ SweepInv /\ [Next]_vars => SweepInv'
<1> SUFFICES ASSUME TypeOK, SweepInv, [Next]_vars PROVE SweepInv'
  OBVIOUS
<1> USE DEF TypeOK, world, history
<1>1. now' = now \/ (now' = now + 1 /\ UNCHANGED req)
  BY DEF Next, vars, RequestStep, Sync, ScanReserve, ScanCheck, ScanCreate, GateRead,
     GateFind, GateApply, ManualRead, ManualApply, SyncRead, SyncApply, TicketRead,
     TicketCreate, ReviewRead, ReviewWrite, Fail, GenerateQR, StaffScan,
     ToggleHoliday, Tick
<1>2. \A c \in Cells : Sweepable(c) => Sweepable(c)'
  BY <1>1, TimeAssumption DEF Sweepable, Scheduled
<1>3. SUFFICES ASSUME NEW q \in Requests, req'[q].pc = "sync", NEW c \in req'[q].cells
               PROVE  Sweepable(c)'
  BY DEF SweepInv
<1>4. CASE req'[q].pc = req[q].pc /\ req'[q].cells = req[q].cells
  <2>1. c \in Cells /\ Sweepable(c)
    BY <1>3, <1>4 DEF SweepInv, Request
  <2> QED BY <1>2, <2>1
<1>5. CASE ~(req'[q].pc = req[q].pc /\ req'[q].cells = req[q].cells)
  <2>1. PICK r \in Requests : RequestStep(r)
    BY <1>5 DEF Next, vars, GenerateQR, StaffScan, ToggleHoliday, Tick
  <2>2. ~Finish(r)
    BY <1>3, <1>5 DEF Finish, Idle
  <2>3. SyncRead(r) /\ q = r
    <3>1. ~(ScanCreate(r) \/ GateApply(r) \/ ManualApply(r) \/ SyncApply(r)
            \/ TicketCreate(r) \/ Fail(r))
      BY <2>2 DEF ScanCreate, GateApply, ManualApply, SyncApply, TicketCreate, Fail
    <3>9. ~ReviewWrite(r)
      BY <1>3, <1>5, OthersReviewed DEF ReviewWrite, Idle
    <3>2. ASSUME NEW s \in Students, NEW k \in Codes, ScanReserve(r, s, k) PROVE FALSE
      BY <1>3, <1>5, <3>2 DEF ScanReserve, Idle
    <3>3. ASSUME NEW s \in Students, GateRead(r, s) PROVE FALSE
      BY <1>3, <1>5, <3>3 DEF GateRead, Idle
    <3>4. ~ScanCheck(r) /\ ~GateFind(r)
      BY <1>3, <1>5 DEF ScanCheck, GateFind, Request
    <3>5. ASSUME NEW C \in SUBSET Cells, NEW m \in Statuses, ManualRead(r, C, m)
          PROVE  FALSE
      BY <1>3, <1>5, <3>5 DEF ManualRead, Idle
    <3>6. ASSUME NEW d \in Cells, TicketRead(r, d) PROVE FALSE
      BY <1>3, <1>5, <3>6 DEF TicketRead, Idle
    <3>7. ASSUME NEW d \in Cells, NEW m \in Reviews, ReviewRead(r, d, m) PROVE FALSE
      BY <1>3, <1>5, <3>7 DEF ReviewRead, Idle
    <3>8. SyncRead(r)
      BY <2>1, <3>1, <3>2, <3>3, <3>4, <3>5, <3>6, <3>7, <3>9 DEF RequestStep, Sync
    <3> QED BY <1>5, <3>8 DEF SyncRead
  <2>4. c \in Missed
    BY <1>3, <2>3 DEF SyncRead, Idle
  <2> QED BY <1>2, <2>4, MissedSweepable
<1> QED BY <1>4, <1>5

\* However late a timer run writes, it writes only absences without a record,
\* of classes scheduled for the student, after one of the student's windows.
THEOREM SweepSafe == Spec => SweepOnlyFillsGaps
<1> DEFINE Gap(r, c) ==
      SyncApply(r) /\ record'[c] # record[c] =>
        /\ record[c] = "none" /\ c[2] \in Scheduled(c[1])
        /\ \E w \in Windows : now > Closes[w] /\ c[1] \in Admits[w]
<1>1. Init => SweepInv
  BY DEF Init, SweepInv, Idle
<1>2. TypeOK /\ SweepInv /\ [Next]_vars => [\A r \in Requests, c \in Cells : Gap(r, c)]_vars
  <2> SUFFICES ASSUME TypeOK, SweepInv, NEW r \in Requests, NEW c \in Cells,
                      SyncApply(r), record'[c] # record[c]
               PROVE  record[c] = "none" /\ Sweepable(c)
    BY DEF Sweepable
  <2>1. c \in Inserted(req[r].cells)
    BY DEF SyncApply, Upsert, TypeOK
  <2> QED BY <2>1 DEF Inserted, SweepInv, SyncApply
<1> QED BY <1>1, <1>2, SweepStep, TypeCorrect, PTL DEF Spec, SweepOnlyFillsGaps
=============================================================================
