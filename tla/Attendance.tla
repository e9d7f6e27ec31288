----------------------------- MODULE Attendance -----------------------------
(***************************************************************************)
(* One day of attendance: the rotating code of a class that students scan, *)
(* the gate scan that marks every class of the day, the scan and the list  *)
(* of the teaching staff, the timer that records absences once a gate      *)
(* window has closed, and the tickets students raise for absences.         *)
(*                                                                         *)
(* A handler reads, awaits, and writes; requests and the timers of several *)
(* API processes interleave between the two.  A record is identified by    *)
(* student, subject and date, which the database keeps unique.             *)
(***************************************************************************)
EXTENDS Naturals

CONSTANTS
    Requests,       \* requests and timer runs in flight
    Students,
    Routines,       \* the classes scheduled on this day of the week
    Codes,          \* the QR codes generated for classes
    Windows,        \* gate scan windows of the day
    SubjectOf,      \* subject of a routine
    StartOf,        \* start time of a routine
    GroupOf,        \* students of a routine's semester, department and section
    Enrolled,       \* pairs of a student and a subject
    CodeSubject,    \* the subject a code is generated for
    Opens, Closes,  \* times of a window
    Admits,         \* students whose semester a window allows
    Validity,       \* minutes a code is valid
    MaxNow,         \* bound on the clock
    Workload        \* bound: the operations that are started

Subjects == {SubjectOf[r] : r \in Routines}
Cells == Students \X Subjects

ASSUME TimeAssumption == /\ MaxNow \in Nat /\ Validity \in Nat
                         /\ Opens \in [Windows -> Nat]
                         /\ Closes \in [Windows -> Nat]
ASSUME ScheduleAssumption == /\ StartOf \in [Routines -> Nat]
                             /\ GroupOf \in [Routines -> SUBSET Students]
                             /\ CodeSubject \in [Codes -> Subjects]

Statuses == {"PRESENT", "ABSENT", "LATE"}
Marks == Statuses \cup {"none"}
Reviews == {"PENDING", "APPROVED", "REJECTED"}
Ops == {"scan", "gate", "staff", "manual", "sync", "ticket", "review", "holiday"}

VARIABLES
    now,            \* minutes of the day
    holiday,        \* an active AttendanceHoliday for the day
    expires,        \* when each code expires; 0 while it is not generated
    used,           \* Redis keys qr-used:<student>:<hash of the code>
    record,         \* Attendance.status by student and subject
    granted,        \* (history) cells a scan was answered 201 for
    selfScans,      \* (history) number of class scans answered 201
    corrected,      \* (history) cells set by the list of the staff
    ticket,         \* AbsenceTicket.status of the record
    req             \* what each handler in flight has read

vars == <<now, holiday, expires, used, record, granted, selfScans, corrected,
          ticket, req>>
world == <<now, holiday, expires>>
history == <<granted, selfScans, corrected>>

Steps == {"idle", "check", "create", "find", "apply", "sync", "manual",
          "ticket", "review"}
\* late is a history: the ticket was approved after the review had read it.
Request == [pc: Steps, cells: SUBSET Cells, status: Marks \cup Reviews,
            late: BOOLEAN]
Idle == [pc |-> "idle", cells |-> {}, status |-> "none", late |-> FALSE]

TypeOK ==
    /\ now \in Nat
    /\ holiday \in BOOLEAN
    /\ expires \in [Codes -> Nat]
    /\ used \in SUBSET (Students \X Codes)
    /\ record \in [Cells -> Marks]
    /\ granted \in SUBSET Cells
    /\ selfScans \in [Cells -> Nat]
    /\ corrected \in SUBSET Cells
    /\ ticket \in [Cells -> Reviews \cup {"none"}]
    /\ req \in [Requests -> Request]

Init ==
    /\ now = 0
    /\ holiday = FALSE
    /\ expires = [q \in Codes |-> 0]
    /\ used = {}
    /\ record = [c \in Cells |-> "none"]
    /\ granted = {}
    /\ selfScans = [c \in Cells |-> 0]
    /\ corrected = {}
    /\ ticket = [c \in Cells |-> "none"]
    /\ req = [r \in Requests |-> Idle]

Start(r, op) == req[r].pc = "idle" /\ op \in Workload

Finish(r) == req' = [req EXCEPT ![r] = Idle]

\* upsert: the cells of C get the status whatever they hold.
Upsert(C, status) ==
    record' = [c \in Cells |-> IF c \in C THEN status ELSE record[c]]

-----------------------------------------------------------------------------
(* The code of a class, scanned by a student *)

\* (mutant) The validity is subtracted.
ExpiryBehind == now - Validity

\* expiresAt of the signed payload of a code generated now.
Expiry == now + Validity

GenerateQR(q) ==
    /\ "scan" \in Workload
    /\ expires[q] = 0
    /\ expires' = [expires EXCEPT ![q] = Expiry]
    /\ UNCHANGED <<now, holiday, used, record, history, ticket, req>>

\* markAttendanceQR: a code that has not expired is reserved in Redis with NX;
\* a student who is not enrolled is refused after the reservation.
ScanReserve(r, s, q) ==
    /\ Start(r, "scan")
    /\ expires[q] # 0 /\ now <= expires[q]
    /\ <<s, q>> \notin used
    /\ used' = used \cup {<<s, q>>}
    /\ req' = IF <<s, CodeSubject[q]>> \in Enrolled
              THEN [req EXCEPT ![r] = [Idle EXCEPT !.pc = "check",
                                         !.cells = {<<s, CodeSubject[q]>>}]]
              ELSE req
    /\ UNCHANGED <<world, record, history, ticket>>

\* The record of today is looked up: 409 when there is one.
ScanCheck(r) ==
    /\ req[r].pc = "check"
    /\ \A c \in req[r].cells : record[c] = "none"
    /\ req' = [req EXCEPT ![r].pc = "create"]
    /\ UNCHANGED <<world, used, record, history, ticket>>

\* (mutant) The record is upserted instead of created.
CreatableAlways(C) == TRUE

\* create fails when the unique index has the record already.
Creatable(C) == \A c \in C : record[c] = "none"

ScanCreate(r) ==
    /\ req[r].pc = "create"
    /\ Creatable(req[r].cells)
    /\ Upsert(req[r].cells, "PRESENT")
    /\ granted' = granted \cup req[r].cells
    /\ selfScans' = [c \in Cells |-> IF c \in req[r].cells THEN selfScans[c] + 1
                                     ELSE selfScans[c]]
    /\ Finish(r)
    /\ UNCHANGED <<world, used, corrected, ticket>>

-----------------------------------------------------------------------------
(* The gate *)

Open(w) == Opens[w] <= now /\ now <= Closes[w]

\* The subjects of the routines of the student's group that the student is
\* enrolled in.
Scheduled(s) == {j \in Subjects : /\ <<s, j>> \in Enrolled
                                  /\ \E t \in Routines : SubjectOf[t] = j
                                                         /\ s \in GroupOf[t]}

\* getEligibleGateAttendanceForStudent: any window of the semester opens every
\* class of the day.  Students scan the gate's code; the gatekeeper scans their
\* card, which reserves it in Redis, or types the roll number, which does not.
GateRead(r, s) ==
    /\ Start(r, "gate")
    /\ ~holiday
    /\ \E w \in Windows : Open(w) /\ s \in Admits[w]
    /\ Scheduled(s) # {}
    /\ req' = [req EXCEPT ![r] = [Idle EXCEPT !.pc = "find",
                                    !.cells = {s} \X Scheduled(s)]]
    /\ UNCHANGED <<world, used, record, history, ticket>>

\* upsertPresentAttendanceForRoutines: the cells that have no record yet.
GateFind(r) ==
    LET missing == {c \in req[r].cells : record[c] = "none"}
    IN  /\ req[r].pc = "find"
        /\ missing # {}
        /\ req' = [req EXCEPT ![r].pc = "apply", ![r].cells = missing]
        /\ UNCHANGED <<world, used, record, history, ticket>>

GateApply(r) ==
    /\ req[r].pc = "apply"
    /\ Upsert(req[r].cells, "PRESENT")
    /\ granted' = granted \cup req[r].cells
    /\ Finish(r)
    /\ UNCHANGED <<world, used, selfScans, corrected, ticket>>

-----------------------------------------------------------------------------
(* Staff and the timer *)

\* scanStudentIdAttendance for instructors and coordinators.
StaffScan(c) ==
    /\ "staff" \in Workload
    /\ c \in Enrolled
    /\ Upsert({c}, "PRESENT")
    /\ granted' = granted \cup {c}
    /\ UNCHANGED <<world, used, selfScans, corrected, ticket, req>>

\* markAttendanceManual: students of one subject, validated and looked up for
\* the audit log, then written in one transaction.
ManualRead(r, C, status) ==
    /\ Start(r, "manual")
    /\ C # {} /\ C \subseteq Enrolled
    /\ \A c, d \in C : c[2] = d[2]
    /\ req' = [req EXCEPT ![r] = [Idle EXCEPT !.pc = "manual", !.cells = C,
                                              !.status = status]]
    /\ UNCHANGED <<world, used, record, history, ticket>>

ManualApply(r) ==
    /\ req[r].pc = "manual"
    /\ Upsert(req[r].cells, req[r].status)
    /\ corrected' = corrected \cup req[r].cells
    /\ Finish(r)
    /\ UNCHANGED <<world, used, granted, selfScans, ticket>>

\* (mutant) A class has to start before every class of its subject.
FirstOnly == {t \in Routines : \A u \in Routines :
                SubjectOf[u] = SubjectOf[t] => StartOf[t] < StartOf[u]}

\* dedupeRoutinesBySubject over the routines of the day, of every group: the
\* one that starts first stands for its subject.
Deduped == {t \in Routines : \A u \in Routines :
              SubjectOf[u] = SubjectOf[t] => StartOf[t] <= StartOf[u]}

\* syncClosedRoutineAbsences: the cells without a record whose semester has a
\* window that closed.
Missed == {c \in Cells \cap Enrolled :
             /\ record[c] = "none"
             /\ \E w \in Windows : now > Closes[w] /\ c[1] \in Admits[w]
             /\ \E t \in Deduped : SubjectOf[t] = c[2] /\ c[1] \in GroupOf[t]}

SyncRead(r) ==
    /\ Start(r, "sync")
    /\ ~holiday
    /\ Missed # {}
    /\ req' = [req EXCEPT ![r] = [Idle EXCEPT !.pc = "sync", !.cells = Missed]]
    /\ UNCHANGED <<world, used, record, history, ticket>>

\* (mutant) Without skipDuplicates an upsert replaces what it finds.
InsertedAll(C) == C

\* createMany with skipDuplicates inserts only what has no record.
Inserted(C) == {c \in C : record[c] = "none"}

SyncApply(r) ==
    /\ req[r].pc = "sync"
    /\ Upsert(Inserted(req[r].cells), "ABSENT")
    /\ Finish(r)
    /\ UNCHANGED <<world, used, history, ticket>>

-----------------------------------------------------------------------------
(* Absence tickets *)

\* createAbsenceTicket: an absence without a ticket.
TicketRead(r, c) ==
    /\ Start(r, "ticket")
    /\ record[c] = "ABSENT"
    /\ ticket[c] = "none"
    /\ req' = [req EXCEPT ![r] = [Idle EXCEPT !.pc = "ticket", !.cells = {c}]]
    /\ UNCHANGED <<world, used, record, history, ticket>>

\* (mutant) The ticket is upserted instead of created.
TicketableAlways(C) == TRUE

\* create fails when attendanceId, which is unique, has a ticket already.
Ticketable(C) == \A c \in C : ticket[c] = "none"

TicketCreate(r) ==
    /\ req[r].pc = "ticket"
    /\ Ticketable(req[r].cells)
    /\ ticket' = [c \in Cells |-> IF c \in req[r].cells THEN "PENDING" ELSE ticket[c]]
    /\ Finish(r)
    /\ UNCHANGED <<world, used, record, history>>

\* (mutant) Only the existence of the ticket is looked at.
ReviewableAny(c) == ticket[c] # "none"

\* reviewAbsenceTicket: the ticket exists, and it is not approved.
Reviewable(c) == ticket[c] \in {"PENDING", "REJECTED"}

\* The decision is any status, PENDING too.
ReviewRead(r, c, status) ==
    /\ Start(r, "review")
    /\ Reviewable(c)
    /\ req' = [req EXCEPT ![r] = [Idle EXCEPT !.pc = "review", !.cells = {c},
                                              !.status = status]]
    /\ UNCHANGED <<world, used, record, history, ticket>>

ReviewWrite(r) ==
    /\ req[r].pc = "review"
    /\ ticket' = [c \in Cells |-> IF c \in req[r].cells THEN req[r].status
                                  ELSE ticket[c]]
    /\ req' = [p \in Requests |->
                 IF p = r THEN Idle
                 ELSE [req[p] EXCEPT !.late = \/ @
                         \/ /\ req[p].pc = "review" /\ req[p].cells = req[r].cells
                            /\ req[r].status = "APPROVED"]]
    /\ UNCHANGED <<world, used, record, history>>

-----------------------------------------------------------------------------
(* Calendar, time, failures *)

ToggleHoliday ==
    /\ "holiday" \in Workload
    /\ holiday' = ~holiday
    /\ UNCHANGED <<now, expires, used, record, history, ticket, req>>

Tick ==
    /\ now < MaxNow
    /\ now' = now + 1
    /\ UNCHANGED <<holiday, expires, used, record, history, ticket, req>>

\* A refusal, an error or a crash: what was not written is never written.
Fail(r) ==
    /\ req[r].pc # "idle"
    /\ Finish(r)
    /\ UNCHANGED <<world, used, record, history, ticket>>

Sync(r) == SyncRead(r) \/ SyncApply(r)

RequestStep(r) ==
    \/ \E s \in Students : (\E q \in Codes : ScanReserve(r, s, q)) \/ GateRead(r, s)
    \/ ScanCheck(r) \/ ScanCreate(r)
    \/ GateFind(r) \/ GateApply(r)
    \/ \E C \in SUBSET Cells, status \in Statuses : ManualRead(r, C, status)
    \/ ManualApply(r)
    \/ Sync(r)
    \/ \E c \in Cells : \/ TicketRead(r, c)
                        \/ \E status \in Reviews : ReviewRead(r, c, status)
    \/ TicketCreate(r) \/ ReviewWrite(r)
    \/ Fail(r)

Next ==
    \/ \E r \in Requests : RequestStep(r)
    \/ \E q \in Codes : GenerateQR(q)
    \/ \E c \in Cells : StaffScan(c)
    \/ ToggleHoliday
    \/ Tick

Spec == Init /\ [][Next]_vars

\* The clock runs, handlers end, and the timer of maintenance.js, which fires
\* every five minutes, is not kept from a run by failures for ever.  The day of
\* the model does not end before a run of the timer has succeeded.
FairSpec == /\ Spec
            /\ WF_vars(Tick)
            /\ \A r \in Requests : /\ WF_vars(req[r].pc # "idle" /\ RequestStep(r))
                                  /\ SF_vars(SyncRead(r)) /\ SF_vars(SyncApply(r))

-----------------------------------------------------------------------------
(* Properties *)

\* A scan that was answered with success stays on record as PRESENT, whatever
\* timer run was under way, unless the staff corrects it.
GrantedPresent == \A c \in granted \ corrected : record[c] = "PRESENT"

\* A student is answered "Attendance marked" for a class once a day, with any
\* number of codes, retries and concurrent scans.
OneSelfScan == \A c \in Cells : selfScans[c] <= 1

\* The timer never changes a record, nor does it touch a class the student is
\* not scheduled for or whose windows have not closed for the student.
SweepOnlyFillsGaps ==
    [][\A r \in Requests, c \in Cells :
         SyncApply(r) /\ record'[c] # record[c] =>
           /\ record[c] = "none" /\ c[2] \in Scheduled(c[1])
           /\ \E w \in Windows : now > Closes[w] /\ c[1] \in Admits[w]]_vars

\* The approval of an absence is lost only to a reviewer who had read the ticket
\* before it was approved: neither a later review nor a second submission of the
\* student, however long they are under way, takes it back.
ApprovalsLostOnlyToRaces ==
    [][\A c \in Cells :
         ticket[c] = "APPROVED" /\ ticket'[c] # "APPROVED" =>
           \E r \in Requests : /\ ReviewWrite(r)
                               /\ c \in req[r].cells /\ req[r].late]_vars

\* "closed gate window absence sync creates absences for all scheduled
\* routines that day": a class of a student whose windows are over does not
\* stay without a record, unless the day becomes a holiday.
EveryClassRecorded ==
    \A c \in Cells :
      (c[2] \in Scheduled(c[1]) /\ \E w \in Windows : c[1] \in Admits[w])
        => <>(record[c] # "none" \/ holiday)

\* "Approved requests are locked and cannot be edited."
ApprovedLocked ==
    [][\A c \in Cells : ticket[c] = "APPROVED" => ticket'[c] = "APPROVED"]_vars

=============================================================================
