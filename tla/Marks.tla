------------------------------- MODULE Marks -------------------------------
(***************************************************************************)
(* Marks of one exam that students may see.  Staff add, edit and delete    *)
(* marks, alone or for a class; an admin publishes those of a subject or   *)
(* of all subjects and the students concerned are notified through         *)
(* Notifications, whose topics are the scopes of a publication.            *)
(***************************************************************************)
EXTENDS Notifications

CONSTANTS
    Subjects,
    EnrolledIn,     \* students of a subject
    Scores,         \* obtained marks
    Publishers,     \* publications in flight
    Everything,     \* the scope without a subject
    Scopes          \* the scopes that are published

Cells == {c \in Users \X Subjects : c[1] \in EnrolledIn[c[2]]}
NoMark == [score |-> 0, published |-> FALSE]

ASSUME ScopeAssumption == /\ Scopes \subseteq Subjects \cup {Everything}
                          /\ Scopes \subseteq Topics \ FanOut /\ Scopes # {}
                          /\ Scores \subseteq Nat \ {0}

VARIABLES
    mark,       \* Mark by student and subject
    pub,        \* what each publication in flight has done
    released,   \* (history) the score at the last publication of a mark
    news        \* (history) marks that a publication has put into view and whose
                \* student has got no new notification since, except those of
                \* a publication that failed

markVars == <<mark, pub, released, news>>
vars == <<markVars, noticeVars>>

IdlePub == [pc |-> "idle", scope |-> CHOOSE s \in Scopes : TRUE, users |-> {}, fresh |-> {}]
InScope(s) == {c \in Cells : mark[c].score # 0 /\ (s = Everything \/ c[2] = s)}

Init ==
    /\ NoticesInit
    /\ mark = [c \in Cells |-> NoMark]
    /\ pub = [p \in Publishers |-> IdlePub]
    /\ released = [c \in Cells |-> 0]
    /\ news = {}

-----------------------------------------------------------------------------
(* Staff *)

Spend(what) ==
    /\ budget[what] > 0
    /\ budget' = [budget EXCEPT ![what] = @ - 1]
    /\ UNCHANGED <<server, live, client>>

EditFrame == Spend("edits") /\ UNCHANGED <<pub, released, news>>

Draft(n) == [score |-> n, published |-> FALSE]
EditedInPlace(m, n) == [m EXCEPT !.score = n]
Edited(m, n) == Draft(n)

\* The unique index on student, subject and exam refuses a second mark.
AddMarks(c, n) ==
    /\ mark[c].score = 0
    /\ mark' = [mark EXCEPT ![c] = Draft(n)]
    /\ EditFrame

\* One transaction for the class: a mark that exists by then undoes all.
AddMarksBulk(C, n) ==
    /\ \A c \in C : mark[c].score = 0
    /\ mark' = [c \in Cells |-> IF c \in C THEN Draft(n) ELSE mark[c]]
    /\ EditFrame

UpdateMarks(c, n) ==
    /\ mark[c].score # 0
    /\ mark' = [mark EXCEPT ![c] = Edited(@, n)]
    /\ EditFrame

DeleteMarks(c) ==
    /\ mark[c].score # 0
    /\ mark' = [mark EXCEPT ![c] = NoMark]
    /\ EditFrame

-----------------------------------------------------------------------------
(* Publication *)

\* The count of the marks in scope is not zero.
PublishCount(p, s) ==
    /\ pub[p].pc = "idle" /\ InScope(s) # {}
    /\ pub' = [pub EXCEPT ![p] = [IdlePub EXCEPT !.pc = "counted", !.scope = s]]
    /\ Spend("publications")
    /\ UNCHANGED <<mark, released, news>>

\* updateMany over the scope as it is now.
PublishRelease(p) ==
    LET C == InScope(pub[p].scope)
        fresh == {c \in C : ~mark[c].published}
    IN /\ pub[p].pc = "counted"
       /\ mark' = [c \in Cells |-> IF c \in C THEN [mark[c] EXCEPT !.published = TRUE]
                                   ELSE mark[c]]
       /\ released' = [c \in Cells |-> IF c \in C THEN mark[c].score ELSE released[c]]
       /\ pub' = [pub EXCEPT ![p].pc = "released",
                             ![p].fresh = fresh]
       /\ news' = news \cup fresh
       /\ UNCHANGED noticeVars

\* The students are those with a mark in scope by now, published or not.
PublishCollect(p) ==
    /\ pub[p].pc = "released"
    /\ pub' = [pub EXCEPT ![p].pc = "collected",
                          ![p].users = {c[1] : c \in InScope(pub[p].scope)}]
    /\ UNCHANGED <<mark, released, news, noticeVars>>

PublishNotify(p) ==
    /\ pub[p].pc = "collected"
    /\ IF pub[p].users = {} THEN UNCHANGED noticeVars
                            ELSE Submit(pub[p].scope, pub[p].users)
    /\ pub' = [pub EXCEPT ![p] = IdlePub]
    /\ UNCHANGED <<mark, released, news>>

\* A query or the queue fails, or the process dies: the admin gets no answer.
PublishFail(p) ==
    /\ pub[p].pc # "idle"
    /\ pub' = [pub EXCEPT ![p] = IdlePub]
    /\ news' = news \ pub[p].fresh
    /\ UNCHANGED <<mark, released, noticeVars>>

PublishStep(p) == PublishRelease(p) \/ PublishCollect(p) \/ PublishNotify(p)

-----------------------------------------------------------------------------

StaffNext ==
    \/ \E c \in Cells : \/ \E n \in Scores : AddMarks(c, n) \/ UpdateMarks(c, n)
                        \/ DeleteMarks(c)
    \/ \E s \in Subjects, n \in Scores :
         \E C \in SUBSET {c \in Cells : c[2] = s} : C # {} /\ AddMarksBulk(C, n)

\* Marks whose students get no new row about results.
Untold == {c \in news : \A k \in Keys :
             k[1] \in Scopes /\ k[2] = c[1] => (rows[k] = "none") = (rows'[k] = "none")}

Next ==
    \/ StaffNext
    \/ \E p \in Publishers : \/ \E s \in Scopes : PublishCount(p, s)
                             \/ PublishStep(p) \/ PublishFail(p)
    \/ NoticeNext /\ news' = Untold /\ UNCHANGED <<mark, pub, released>>

Spec == Init /\ [][Next]_vars

FairSpec == Spec /\ NoticeFairness
                 /\ \A p \in Publishers : WF_vars(PublishStep(p))

-----------------------------------------------------------------------------
(* Properties *)

\* The types of all variables.
TypeOK ==
    /\ NoticesTypeOK
    /\ mark \in [Cells -> [score : Scores \cup {0}, published : BOOLEAN]]
    /\ pub \in [Publishers -> [pc : {"idle", "counted", "released", "collected"},
                               scope : Scopes, users : SUBSET Users, fresh : SUBSET Cells]]
    /\ released \in [Cells -> Scores \cup {0}]
    /\ news \subseteq Cells

\* A score that students can see is the one a publication found: no edit,
\* deletion and new entry or concurrent publication shows a draft.
DraftsStayHidden == \A c \in Cells : mark[c].published => mark[c].score = released[c]

\* "Students and staff receive real-time notifications for ... published
\* marks": when all is quiet every result that an answered publication has put
\* into view has been followed by a new notification.
ReleaseAnnounced ==
    (\A p \in Publishers : pub[p].pc = "idle") /\ Free = Jobs
      => \A c \in news : ~mark[c].published
=============================================================================
