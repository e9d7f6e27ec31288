------------------------------ MODULE Timetable ------------------------------
(***************************************************************************)
(* The weekly routine, on one day of the week: a class is looked up        *)
(* against the stored ones and then written, and nothing keeps two writers *)
(* apart.                                                                  *)
(***************************************************************************)
EXTENDS Enrollment

CONSTANTS
    Classes,        \* Routine rows
    Planners,       \* requests of createRoutine and updateRoutine
    Entries,        \* bound: what a planner may ask for
    None            \* no room, no section, no combined group: null

ASSUME EntryAssumption ==
    \A e \in Entries : e.subject \in Subjects /\ e.start \in Nat /\ e.end \in Nat

VARIABLES
    routine,        \* Routine rows
    planner,        \* requests in progress
    unseen          \* (history) of each row, rows written between the look-up
                    \* and the write that put it there

timetableVars == <<routine, planner, unseen>>

NoEntry == [subject |-> Nobody, teacher |-> Nobody, department |-> Shared, semester |-> 0,
            section |-> None, start |-> 0, end |-> 0, room |-> None, group |-> None]
NoPlan == [pc |-> "idle", class |-> Nobody, entry |-> NoEntry, update |-> FALSE, missed |-> {}]

TimetableTypeOK ==
    /\ routine \in [Classes -> [there : BOOLEAN, entry : Entries \cup {NoEntry}]]
    /\ planner \in [Planners -> [pc : {"idle", "asked", "scoped", "clear"},
                                 class : Classes \cup {Nobody},
                                 entry : Entries \cup {NoEntry},
                                 update : BOOLEAN, missed : SUBSET Classes]]
    /\ unseen \in [Classes -> SUBSET Classes]

TimetableInit ==
    /\ routine = [c \in Classes |-> [there |-> FALSE, entry |-> NoEntry]]
    /\ planner = [p \in Planners |-> NoPlan]
    /\ unseen = [c \in Classes |-> {}]

Stored == {c \in Classes : routine[c].there}
Entry(c) == routine[c].entry

-----------------------------------------------------------------------------
(* getOverlapFilter *)

\* (mutant) Only a class that runs when the new one starts is in its way.
AtStart(old, new) == old.start <= new.start /\ old.end > new.start

\* overlapConditions: the stored class covers the start of the new one, covers
\* its end, or lies within it.
Overlaps(old, new) ==
    \/ old.start <= new.start /\ old.end > new.start
    \/ old.start < new.end /\ old.end >= new.end
    \/ old.start >= new.start /\ old.end <= new.end

\* combinedGroupId: { not: ... } of Prisma leaves out the rows without a group.
OtherGroup(old, new) ==
    new.group # None => old.group # None /\ old.group # new.group

InTheWay(old, new) ==
    /\ Overlaps(old, new)
    /\ \/ new.room # None /\ old.room = new.room /\ OtherGroup(old, new)
       \/ /\ old.department = new.department /\ old.semester = new.semester
          /\ old.section = new.section
       \/ old.teacher = new.teacher /\ OtherGroup(old, new)

-----------------------------------------------------------------------------
(* Requests *)

CreateRoutine(p, c, e) ==
    /\ Spend("plan")
    /\ planner[p].pc = "idle"
    /\ c \notin Stored /\ \A q \in Planners : planner[q].class # c
    /\ planner' = [planner EXCEPT ![p] = [NoPlan EXCEPT !.pc = "asked", !.class = c,
                                                        !.entry = e]]
    /\ UNCHANGED <<routine, unseen, student, subject, enrolled, job, settled, raced>>

UpdateRoutine(p, c, e) ==
    /\ Spend("plan")
    /\ planner[p].pc = "idle"
    /\ c \in Stored
    /\ planner' = [planner EXCEPT ![p] = [NoPlan EXCEPT !.pc = "asked", !.class = c,
                                                        !.entry = e, !.update = TRUE]]
    /\ UNCHANGED <<routine, unseen, student, subject, enrolled, job, settled, raced>>

Answer(p) == planner' = [planner EXCEPT ![p] = NoPlan]

\* validateRoutineAcademicScope: semester and department are the subject's.
CheckScope(p) ==
    LET e == planner[p].entry
    IN  /\ planner[p].pc = "asked"
        /\ IF /\ Live(e.subject)
              /\ subject[e.subject].audience = [semester |-> e.semester,
                                                department |-> e.department]
           THEN planner' = [planner EXCEPT ![p].pc = "scoped"]
           ELSE Answer(p)
        /\ UNCHANGED <<routine, unseen, enrollmentVars>>

\* findFirst over the other rows.
LookForConflict(p) ==
    LET e    == planner[p].entry
        rows == Stored \ (IF planner[p].update THEN {planner[p].class} ELSE {})
    IN  /\ planner[p].pc = "scoped"
        /\ IF \E c \in rows : InTheWay(Entry(c), e) THEN Answer(p)
           ELSE planner' = [planner EXCEPT ![p].pc = "clear"]
        /\ UNCHANGED <<routine, unseen, enrollmentVars>>

\* The foreign key to Subject.
EntryKey(e) == Live(e.subject)

\* create, or update of a row that is still there.
StoreRoutine(p) ==
    LET c == planner[p].class
        e == planner[p].entry
    IN  /\ planner[p].pc = "clear"
        /\ IF EntryKey(e) /\ (planner[p].update => c \in Stored)
           THEN /\ routine' = [routine EXCEPT ![c] = [there |-> TRUE, entry |-> e]]
                /\ unseen' = [d \in Classes |-> IF d = c THEN planner[p].missed
                                                ELSE unseen[d] \ {c}]
                /\ planner' = [q \in Planners |->
                     IF q = p THEN NoPlan
                     ELSE IF planner[q].pc = "clear"
                     THEN [planner[q] EXCEPT !.missed = planner[q].missed \cup {c}]
                     ELSE planner[q]]
           ELSE Answer(p) /\ UNCHANGED <<routine, unseen>>
        /\ UNCHANGED enrollmentVars

DeleteRoutine(c) ==
    /\ Spend("plan")
    /\ c \in Stored
    /\ routine' = [routine EXCEPT ![c].there = FALSE]
    /\ UNCHANGED <<planner, unseen, student, subject, enrolled, job, settled, raced>>

\* The share of deleteSubject.
DeleteRoutinesOf(x) ==
    /\ routine' = [c \in Classes |->
         IF Entry(c).subject = x THEN [routine[c] EXCEPT !.there = FALSE] ELSE routine[c]]
    /\ UNCHANGED <<planner, unseen>>

TimetableStep ==
    \/ \E p \in Planners, c \in Classes, e \in Entries :
        CreateRoutine(p, c, e) \/ UpdateRoutine(p, c, e)
    \/ \E p \in Planners : CheckScope(p) \/ LookForConflict(p) \/ StoreRoutine(p)
    \/ \E c \in Classes : DeleteRoutine(c)

-----------------------------------------------------------------------------
(* Properties *)

\* Two classes share a moment.
Meet(a, b) == a.start < b.end /\ b.start < a.end

\* Two classes cannot both be held: one room or one teacher for two groups of
\* students, or one group of students twice.  A class with a combined group and
\* one without are left to RoomsBookedOnce.
Clash(a, b) ==
    /\ Meet(a, b)
    /\ \/ /\ (a.room = b.room /\ a.room # None) \/ a.teacher = b.teacher
          /\ IF a.group = None THEN b.group = None ELSE b.group \notin {None, a.group}
       \/ /\ a.department = b.department /\ a.semester = b.semester
          /\ a.section = b.section

Proper(e) == e.start < e.end

\* "TriLearn checks for conflicts that would make the schedule impossible to
\* run": two classes clash only if one was written after the look-up of the
\* other, however often they are moved.
ClashesAreRaces ==
    \A c, d \in Stored :
        c # d /\ Proper(Entry(c)) /\ Proper(Entry(d)) /\ Clash(Entry(c), Entry(d))
            => c \in unseen[d] \/ d \in unseen[c]

\* "Room ... is already booked at this time."
RoomsBookedOnce ==
    \A c, d \in Stored :
        c # d /\ Meet(Entry(c), Entry(d)) /\ Entry(c).room = Entry(d).room
            => Entry(c).room = None \/ (Entry(c).group = Entry(d).group /\ Entry(c).group # None)
=============================================================================
