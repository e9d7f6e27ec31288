---------------------------- MODULE MarksProofs ----------------------------
(* Type correctness of Marks with Notifications, and what holds of the marks *)
(* students see and of the notifications they have read.                     *)
EXTENDS Marks, FiniteSetTheorems, TLAPS

Job == [pc : {"free", "waiting", "inserted", "emitted"}, made : 0..Attempts - 1,
        keys : SUBSET Keys, topic : FanOut \cup {"-"}, groups : SUBSET SUBSET Users]
Click == [pc : {"idle", "one", "updated", "counted", "all", "cleared"},
          keys : SUBSET Keys, fresh : 0..1]
Poll == [has : SUBSET {"list", "count"}, shown : SUBSET Keys, count : Nat]

\* Of the queue: a job that still has groups to serve is a fan-out.
ServerOK == /\ rows \in [Keys -> {"none", "unread", "read"}]
            /\ promised \in [Topics -> SUBSET Users]
            /\ job \in [Jobs -> Job]
            /\ \A j \in Jobs : job[j].groups # {} => job[j].topic \in FanOut

ClientOK == /\ list \in [Users -> SUBSET (Keys \X BOOLEAN)]
            /\ badge \in [Users -> Nat]
            /\ poll \in [Users -> Poll]
            /\ click \in [Users -> Click]

NoticeInv == ServerOK /\ budget \in Budget /\ live \subseteq Events /\ ClientOK

-----------------------------------------------------------------------------
(* Notifications *)

LEMMA KeysFinite == IsFiniteSet(Keys)
<1> DEFINE D == (Topics \X Users) \X (0..Attempts - 1)
           f == [d \in D |-> <<d[1][1], d[1][2], d[2]>>]
<1>1. IsFiniteSet(D)
  <2>1. IsFiniteSet(0..Attempts - 1)
    BY QueueAssumption, FS_Interval
  <2> QED
    BY <2>1, FiniteAssumption, FS_Product
<1>2. f \in Surjection(D, Keys)
  <2>1. f \in [D -> Keys]
    BY DEF Keys
  <2>2. ASSUME NEW k \in Keys PROVE \E d \in D : f[d] = k
    <3>1. <<<<k[1], k[2]>>, k[3]>> \in D /\ k = <<k[1], k[2], k[3]>>
      BY DEF Keys
    <3> QED
      BY <3>1
  <2> QED
    BY <2>1, <2>2 DEF Surjection
<1> QED
  BY <1>1, <1>2, FS_Surjection

LEMMA UnreadOK == ASSUME NEW u PROVE /\ Unread(u) \subseteq Keys
                                     /\ Cardinality(Unread(u)) \in Nat
<1>1. Unread(u) \subseteq Keys
  BY DEF Unread
<1> QED
  BY <1>1, KeysFinite, FS_Subset, FS_CardinalityType

LEMMA FreeJobOK == FreeJob \in Job
  BY QueueAssumption DEF FreeJob, Job

LEMMA RecordsJobOK ==
  ASSUME NEW t \in Topics, NEW U \in SUBSET Users, NEW a \in 0..Attempts - 1
  PROVE  RecordsJob(t, U, a) \in Job /\ RecordsJob(t, U, a).groups = {}
<1>1. ASSUME NEW u \in U PROVE Key(t, u, a) \in Keys
  BY QueueAssumption DEF Key, Keys
<1>2. {Key(t, u, a) : u \in U} \in SUBSET Keys
  BY <1>1
<1> HIDE DEF Key, Keys
<1> QED
  BY <1>2, FreeJobOK DEF RecordsJob, FreeJob, Job

\* Every step of the queue keeps what the queue and the table are made of.
LEMMA SubmitOK ==
  ASSUME ServerOK, NEW t \in Topics, NEW U \in SUBSET Users, Submit(t, U)
  PROVE  ServerOK'
<1>1. 0 \in 0..Attempts - 1
  BY QueueAssumption
<1>2. RecordsJob(t, U, 0) \in Job /\ RecordsJob(t, U, 0).groups = {}
  BY <1>1, RecordsJobOK
<1> QED
  BY <1>2 DEF ServerOK, Submit

LEMMA QueueOK ==
  ASSUME NoticeInv, NEW j \in Jobs, JobStep(j) \/ JobFail(j)
  PROVE  ServerOK' /\ budget' \in Budget /\ live' \subseteq Events /\ UNCHANGED client
<1> USE DEF NoticeInv
<1>a. job[j] \in Job
  BY DEF ServerOK
<1>1. ASSUME NEW G \in job[j].groups, FanOutGroup(j, G)
      PROVE  ServerOK' /\ UNCHANGED <<budget, live, client>>
  <2>1. job[j].topic \in Topics /\ G \in SUBSET Users /\ job[j].made \in 0..Attempts - 1
    BY <1>a, TopicAssumption DEF ServerOK, Job
  <2> DEFINE R == RecordsJob(job[j].topic, G, job[j].made)
  <2>2. R \in Job /\ R.groups = {}
    BY <2>1, RecordsJobOK
  <2> DEFINE J == [job[j] EXCEPT !.groups = @ \ {G}]
  <2>3. J \in Job /\ (J.groups # {} => J.topic \in FanOut)
    BY <1>1, <1>a DEF Job, ServerOK
  <2>4. /\ job' = [[job EXCEPT ![j] = J] EXCEPT ![Place] = R]
        /\ UNCHANGED <<rows, promised, budget, live, client>>
    BY <1>1 DEF FanOutGroup
  <2> HIDE DEF R, J, Job
  <2>5. /\ job' \in [Jobs -> Job]
        /\ \A i \in Jobs : job'[i] = job[i] \/ job'[i] = J \/ job'[i] = R
    BY <2>2, <2>3, <2>4 DEF ServerOK
  <2>6. ServerOK'
    BY <2>2, <2>3, <2>4, <2>5 DEF ServerOK
  <2> QED
    BY <2>4, <2>6
<1>2. ASSUME FanOutDone(j) \/ JobDone(j)
      PROVE  ServerOK' /\ UNCHANGED <<budget, live, client>>
  <2>1. FreeJob \in Job /\ FreeJob.groups = {}
    BY FreeJobOK DEF FreeJob
  <2>2. /\ job' = [job EXCEPT ![j] = FreeJob]
        /\ UNCHANGED <<rows, promised, budget, live, client>>
    BY <1>2 DEF FanOutDone, JobDone
  <2>3. job' \in [Jobs -> Job]
    BY <2>1, <2>2 DEF ServerOK
  <2>4. \A i \in Jobs : job'[i] = job[i] \/ job'[i].groups = {}
    BY <2>1, <2>2 DEF ServerOK
  <2> HIDE DEF Job, FreeJob
  <2>5. ServerOK'
    BY <2>2, <2>3, <2>4 DEF ServerOK
  <2> QED
    BY <2>2, <2>5
<1>3. ASSUME JobInsert(j)
      PROVE  ServerOK' /\ UNCHANGED <<budget, live, client>>
  <2>1. Inserted(job[j].keys) \in [Keys -> {"none", "unread", "read"}]
    BY DEF ServerOK, Inserted
  <2>2. [job[j] EXCEPT !.pc = "inserted"] \in Job
    BY <1>a DEF Job
  <2> QED
    BY <1>3, <1>a, <2>1, <2>2 DEF ServerOK, JobInsert, Job
<1>4. ASSUME JobEmit(j)
      PROVE  ServerOK' /\ live' \subseteq Events /\ UNCHANGED <<budget, client>>
  <2>1. [job[j] EXCEPT !.pc = "emitted"] \in Job
    BY <1>a DEF Job
  <2>2. ASSUME NEW k \in Keys
        PROVE  [user |-> k[2], add |-> TRUE, keys |-> {k},
                count |-> IF rows[k] = "unread" THEN 1 ELSE 0] \in Events
    <3>1. k[2] \in Users
      BY DEF Keys
    <3> HIDE DEF Keys
    <3> QED
      BY <3>1 DEF Events
  <2>3. job[j].keys \subseteq Keys
    BY <1>a DEF Job
  <2>4. live' \subseteq Events
    BY <1>4, <2>2, <2>3 DEF JobEmit
  <2> QED
    BY <1>4, <1>a, <2>1, <2>4 DEF ServerOK, JobEmit, Job
<1>5. ASSUME JobFail(j)
      PROVE  ServerOK' /\ budget' \in Budget /\ UNCHANGED <<live, client>>
  <2> DEFINE again == Again(job[j])
             next == IF Exhausted(job[j].made) THEN FreeJob ELSE again
  <2>1. ASSUME ~Exhausted(job[j].made) PROVE again \in Job
    <3>1. job[j].made + 1 \in 0..Attempts - 1
      BY <1>a, <2>1, QueueAssumption DEF Job, Exhausted
    <3>2. (IF job[j].topic = "-" THEN {} ELSE Groups[job[j].topic]) \in SUBSET SUBSET Users
      BY <1>a, TopicAssumption DEF Job
    <3> QED
      BY <1>a, <3>1, <3>2 DEF Job, Again
  <2>2. next \in Job /\ (next.groups # {} => next.topic \in FanOut)
    BY <1>a, <2>1, FreeJobOK DEF FreeJob, Job, Again
  <2>3. job' = [job EXCEPT ![j] = next]
    BY <1>5 DEF JobFail
  <2> HIDE DEF next
  <2>4. ServerOK'
    BY <1>5, <2>2, <2>3 DEF JobFail, ServerOK
  <2>5. budget' \in Budget
    BY <1>5 DEF JobFail, Budget
  <2> QED
    BY <1>5, <2>4, <2>5 DEF JobFail
<1> QED
  BY <1>1, <1>2, <1>3, <1>4, <1>5 DEF JobStep

LEMMA AnnounceOK ==
  ASSUME NoticeInv, NEW t \in FanOut, Announce(t)
  PROVE  ServerOK' /\ budget' \in Budget /\ UNCHANGED <<live, client>>
<1> USE DEF NoticeInv
<1> DEFINE J == [FreeJob EXCEPT !.pc = "waiting", !.topic = t, !.groups = Groups[t]]
<1>1. Groups[t] \in SUBSET SUBSET Users /\ t \in Topics
  BY TopicAssumption
<1>2. J \in Job /\ J.topic = t
  BY <1>1, FreeJobOK DEF FreeJob, Job
<1> HIDE DEF J
<1>3. job' = [job EXCEPT ![Place] = J]
  BY DEF Announce, J
<1>4. ServerOK'
  BY <1>1, <1>2, <1>3 DEF Announce, ServerOK
<1>5. budget' \in Budget
  BY DEF Announce, Budget
<1> QED
  BY <1>4, <1>5 DEF Announce


LEMMA ShownOK ==
  ASSUME NEW K \in SUBSET Keys, NEW fresh \in BOOLEAN
  PROVE  Shown(K, fresh) \in SUBSET (Keys \X BOOLEAN)
<1> HIDE DEF Keys
<1>1. ASSUME NEW k \in K PROVE <<k, fresh>> \in Keys \X BOOLEAN
  OBVIOUS
<1> QED
  BY <1>1 DEF Shown

\* What the client does, by the part of it that changes.
LEMMA EventOK ==
  ASSUME NoticeInv, NEW e \in live, Deliver(e) \/ Lose(e)
  PROVE  NoticeInv'
<1> USE DEF NoticeInv
<1> HIDE DEF Keys
<1>1. e \in Events /\ live' \subseteq Events
  BY DEF Deliver, Lose
<1>2. ASSUME Deliver(e) PROVE ClientOK'
  <2>1. /\ Shown(e.keys, e.count = 1) \in SUBSET (Keys \X BOOLEAN)
        /\ Without(e.user, e.keys) \in SUBSET (Keys \X BOOLEAN)
    <3>1. e.keys \in SUBSET Keys /\ (e.count = 1) \in BOOLEAN
      BY <1>1 DEF Events
    <3>2. Shown(e.keys, e.count = 1) \in SUBSET (Keys \X BOOLEAN)
      BY <3>1, ShownOK
    <3>3. Without(e.user, e.keys) \in SUBSET (Keys \X BOOLEAN)
      BY <1>1 DEF Events, Without, ClientOK
    <3> QED
      BY <3>2, <3>3
  <2> DEFINE L == Without(e.user, e.keys) \cup
                    (IF e.add THEN Shown(e.keys, e.count = 1) ELSE {})
             n == IF e.add THEN badge[e.user] + e.count ELSE e.count
  <2>2. L \in SUBSET (Keys \X BOOLEAN)
    BY <2>1
  <2>3. n \in Nat
    BY <1>1 DEF Events, ClientOK
  <2>4. /\ list' = [list EXCEPT ![e.user] = L]
        /\ badge' = [badge EXCEPT ![e.user] = n]
        /\ UNCHANGED <<poll, click>>
    BY <1>2 DEF Deliver
  <2> HIDE DEF L, n
  <2> QED
    BY <2>2, <2>3, <2>4 DEF ClientOK
<1> QED
  BY <1>1, <1>2 DEF Deliver, Lose, ServerOK, ClientOK, server, client

LEMMA PollOK ==
  ASSUME NoticeInv, NEW u \in Users, PollStep(u) \/ PollError(u)
  PROVE  NoticeInv'
<1> USE DEF NoticeInv
<1> HIDE DEF Keys
<1>a. poll[u] \in Poll
  BY DEF ClientOK
<1>1. NoPoll \in Poll
  BY DEF NoPoll, Poll
<1>2. ASSUME PollList(u) \/ PollCount(u)
      PROVE  poll' \in [Users -> Poll] /\ UNCHANGED <<server, budget, live, list, badge, click>>
  <2>1. /\ [poll[u] EXCEPT !.has = @ \cup {"list"}, !.shown = Unread(u)] \in Poll
        /\ [poll[u] EXCEPT !.has = @ \cup {"count"},
                          !.count = Cardinality(Unread(u))] \in Poll
    BY <1>a, UnreadOK DEF Poll
  <2> QED
    BY <1>2, <2>1 DEF PollList, PollCount, ClientOK
<1>3. ASSUME PollAnswer(u)
      PROVE  ClientOK' /\ UNCHANGED <<server, budget, live>>
  <2>1. /\ Shown(poll[u].shown, TRUE) \in SUBSET (Keys \X BOOLEAN)
        /\ Polled(u) \in Nat
    BY <1>a, ShownOK DEF Poll, Polled
  <2> QED
    BY <1>1, <1>3, <2>1 DEF PollAnswer, ClientOK
<1>4. ASSUME PollError(u)
      PROVE  ClientOK' /\ budget' \in Budget /\ UNCHANGED <<server, live>>
  <2>1. budget' \in Budget
    BY <1>4 DEF PollError, Budget
  <2> QED
    BY <1>1, <1>4, <2>1 DEF PollError, ClientOK
<1> QED
  BY <1>2, <1>3, <1>4 DEF PollStep, server, ServerOK, ClientOK

LEMMA ClickOK ==
  ASSUME NoticeInv, NEW u \in Users, ClickRead(u) \/ ClickStep(u)
  PROVE  NoticeInv'
<1> USE DEF NoticeInv
<1> HIDE DEF Keys
<1>a. click[u] \in Click
  BY DEF ClientOK
<1>1. NoClick \in Click
  BY DEF NoClick, Click
<1>2. ASSUME ClickRead(u) PROVE NoticeInv'
  <2>1. budget' \in Budget
    BY <1>2 DEF ClickRead, Budget
  <2>2. [NoClick EXCEPT !.pc = "all"] \in Click
    BY <1>1 DEF Click
  <2>3. ASSUME NEW n \in list[u]
        PROVE  [pc |-> "one", keys |-> {n[1]}, fresh |-> IF n[2] THEN 1 ELSE 0] \in Click
    <3>1. n[1] \in Keys
      BY DEF ClientOK
    <3> QED
      BY <3>1 DEF Click
  <2>4. click' \in [Users -> Click]
    BY <1>2, <2>2, <2>3 DEF ClickRead, ClientOK
  <2> QED
    BY <1>2, <2>1, <2>4 DEF ClickRead, server, ServerOK, ClientOK
<1>3. ASSUME NEW K, MarkRead(K) = rows' PROVE rows' \in [Keys -> {"none", "unread", "read"}]
  BY <1>3 DEF MarkRead, ServerOK
<1>4. ASSUME ReadUpdate(u) \/ ReadAll(u)
      PROVE  /\ ServerOK' /\ live' \subseteq Events
             /\ click' \in [Users -> Click] /\ UNCHANGED <<budget, list, badge, poll>>
  <2>1. rows' \in [Keys -> {"none", "unread", "read"}]
    BY <1>3, <1>4 DEF ReadUpdate, ReadAll
  <2>2. [click[u] EXCEPT !.pc = "updated"] \in Click /\ [click[u] EXCEPT !.pc = "cleared"] \in Click
    BY <1>a DEF Click
  <2>3. [user |-> u, add |-> FALSE, keys |-> Keys, count |-> 0] \in Events
    BY DEF Events
  <2> QED
    BY <1>4, <2>1, <2>2, <2>3 DEF ReadUpdate, ReadAll, ServerOK, ClientOK
<1>5. ASSUME ReadCount(u)
      PROVE  /\ live' \subseteq Events /\ click' \in [Users -> Click]
             /\ UNCHANGED <<server, budget, list, badge, poll>>
  <2>1. [user |-> u, add |-> FALSE, keys |-> click[u].keys,
         count |-> Cardinality(Unread(u))] \in Events
    BY <1>a, UnreadOK DEF Events, Click
  <2>2. [click[u] EXCEPT !.pc = "counted"] \in Click
    BY <1>a DEF Click
  <2> QED
    BY <1>5, <2>1, <2>2 DEF ReadCount, ClientOK
<1>6. ASSUME ReadAnswer(u) \/ ReadAllAnswer(u)
      PROVE  ClientOK' /\ UNCHANGED <<server, budget, live>>
  <2>1. Without(u, click[u].keys) \in SUBSET (Keys \X BOOLEAN)
    BY DEF Without, ClientOK
  <2>2. Decremented(badge[u], click[u].fresh) \in Nat
    BY <1>a DEF Decremented, Click, ClientOK
  <2> QED
    BY <1>1, <1>6, <2>1, <2>2 DEF ReadAnswer, ReadAllAnswer, ClientOK
<1> QED
  BY <1>2, <1>4, <1>5, <1>6 DEF ClickStep, server, ServerOK, ClientOK

-----------------------------------------------------------------------------
(* Marks *)

Mark == [score : Scores \cup {0}, published : BOOLEAN]
Pub == [pc : {"idle", "counted", "released", "collected"},
        scope : Scopes, users : SUBSET Users, fresh : SUBSET Cells]

\* Of the marks: their types, and that what is published is what was released.
MarkInv == /\ mark \in [Cells -> Mark]
           /\ pub \in [Publishers -> Pub]
           /\ released \in [Cells -> Scores \cup {0}]
           /\ news \subseteq Cells
           /\ DraftsStayHidden

Inv == NoticeInv /\ MarkInv

LEMMA IdlePubOK == IdlePub \in Pub
<1> DEFINE s == CHOOSE x \in Scopes : TRUE
<1>1. s \in Scopes
  BY ScopeAssumption
<1> HIDE DEF s
<1> QED
  BY <1>1 DEF IdlePub, Pub, s

LEMMA InitOK == Init => Inv
<1> SUFFICES ASSUME Init PROVE Inv
  OBVIOUS
<1> HIDE DEF Keys, Cells
<1>1. NoticeInv
  <2>1. ServerOK
    BY FreeJobOK DEF Init, NoticesInit, ServerOK, FreeJob
  <2>2. NoPoll \in Poll /\ NoClick \in Click
    BY DEF NoPoll, NoClick, Poll, Click
  <2>3. ClientOK
    BY <2>2 DEF Init, NoticesInit, ClientOK
  <2>4. budget \in Budget /\ live \subseteq Events
    BY BudgetAssumption DEF Init, NoticesInit
  <2> QED
    BY <2>1, <2>3, <2>4 DEF NoticeInv
<1>2. NoMark \in Mark
  BY DEF NoMark, Mark
<1>3. \A c \in Cells : ~mark[c].published
  BY DEF Init, NoMark
<1>4. MarkInv
  BY <1>2, <1>3, IdlePubOK DEF Init, MarkInv, DraftsStayHidden
<1> QED
  BY <1>1, <1>4 DEF Inv

LEMMA SpendOK ==
  ASSUME NoticeInv, NEW what \in {"edits", "publications"}, Spend(what)
  PROVE  NoticeInv'
<1>1. budget' \in Budget
  BY DEF NoticeInv, Spend, Budget
<1> QED
  BY <1>1 DEF NoticeInv, Spend, server, client, ServerOK, ClientOK

\* An edit leaves what it touches a draft, and the rest alone.
LEMMA StaffOK ==
  ASSUME Inv, StaffNext
  PROVE  Inv'
<1> USE DEF Inv
<1> HIDE DEF Cells
<1>1. \A n \in Scores : Draft(n) \in Mark /\ ~Draft(n).published
  BY DEF Draft, Mark
<1>2. NoMark \in Mark /\ ~NoMark.published
  BY DEF NoMark, Mark
<1>3. EditFrame
  BY DEF StaffNext, AddMarks, AddMarksBulk, UpdateMarks, DeleteMarks
<1>4. \A c \in Cells, n \in Scores : Edited(mark[c], n) = Draft(n)
  BY DEF Edited
<1>5. /\ mark' \in [Cells -> Mark]
      /\ \A c \in Cells : mark'[c] = mark[c] \/ ~mark'[c].published
  <2> HIDE DEF Mark, Draft, NoMark, Edited
  <2>1. CASE \E c \in Cells, n \in Scores : AddMarks(c, n) \/ UpdateMarks(c, n)
    BY <2>1, <1>1, <1>4 DEF AddMarks, UpdateMarks, MarkInv
  <2>2. CASE \E c \in Cells : DeleteMarks(c)
    BY <2>2, <1>2 DEF DeleteMarks, MarkInv
  <2>3. CASE \E C \in SUBSET Cells, n \in Scores : AddMarksBulk(C, n)
    BY <2>3, <1>1 DEF AddMarksBulk, MarkInv
  <2> QED
    BY <2>1, <2>2, <2>3 DEF StaffNext
<1>6. NoticeInv'
  BY <1>3, SpendOK DEF EditFrame
<1>7. MarkInv'
  BY <1>3, <1>5 DEF EditFrame, MarkInv, DraftsStayHidden
<1> QED
  BY <1>6, <1>7

LEMMA PublishOK ==
  ASSUME Inv, NEW p \in Publishers,
         (\E s \in Scopes : PublishCount(p, s)) \/ PublishStep(p) \/ PublishFail(p)
  PROVE  Inv'
<1> USE DEF Inv
<1> HIDE DEF Cells
<1>a. pub[p] \in Pub
  BY DEF MarkInv
<1>1. ASSUME NEW s \in Scopes, PublishCount(p, s) PROVE Inv'
  <2>1. [IdlePub EXCEPT !.pc = "counted", !.scope = s] \in Pub
    BY IdlePubOK DEF Pub
  <2>2. MarkInv'
    BY <1>1, <2>1 DEF PublishCount, MarkInv, DraftsStayHidden
  <2> QED
    BY <1>1, <2>2, SpendOK DEF PublishCount
<1>2. ASSUME PublishRelease(p) PROVE Inv'
  <2> DEFINE C == InScope(pub[p].scope)
             F == {c \in C : ~mark[c].published}
  <2>1. C \subseteq Cells /\ F \subseteq Cells
    BY DEF InScope
  <2>2. /\ mark' = [c \in Cells |-> IF c \in C THEN [mark[c] EXCEPT !.published = TRUE]
                                    ELSE mark[c]]
        /\ released' = [c \in Cells |-> IF c \in C THEN mark[c].score ELSE released[c]]
        /\ pub' = [pub EXCEPT ![p].pc = "released", ![p].fresh = F]
        /\ news' = news \cup F
        /\ UNCHANGED noticeVars
    BY <1>2 DEF PublishRelease
  <2> HIDE DEF C, F
  <2>3. [pub[p] EXCEPT !.pc = "released", !.fresh = F] \in Pub
    BY <1>a, <2>1 DEF Pub
  <2>4. pub' \in [Publishers -> Pub] /\ news' \subseteq Cells
    BY <2>1, <2>2, <2>3 DEF MarkInv
  <2>5. \A c \in Cells : mark[c] \in Mark /\ mark[c].score \in Scores \cup {0}
    BY DEF MarkInv, Mark
  <2>6. \A c \in Cells : /\ [mark[c] EXCEPT !.published = TRUE] \in Mark
                         /\ [mark[c] EXCEPT !.published = TRUE].score = mark[c].score
    BY <2>5 DEF Mark
  <2>7. mark' \in [Cells -> Mark] /\ released' \in [Cells -> Scores \cup {0}]
    BY <2>2, <2>5, <2>6 DEF MarkInv
  <2>8. DraftsStayHidden'
    BY <2>2, <2>6 DEF MarkInv, DraftsStayHidden
  <2>9. NoticeInv'
    BY <2>2 DEF noticeVars, server, client, NoticeInv, ServerOK, ClientOK
  <2> QED
    BY <2>4, <2>7, <2>8, <2>9 DEF MarkInv
<1>3. ASSUME PublishCollect(p) PROVE Inv'
  <2> DEFINE U == {c[1] : c \in InScope(pub[p].scope)}
  <2>1. U \in SUBSET Users
    BY DEF InScope, Cells
  <2>2. [pub[p] EXCEPT !.pc = "collected", !.users = U] \in Pub
    BY <1>a, <2>1 DEF Pub
  <2>3. /\ pub' = [pub EXCEPT ![p].pc = "collected", ![p].users = U]
        /\ UNCHANGED <<mark, released, news, noticeVars>>
    BY <1>3 DEF PublishCollect
  <2> HIDE DEF U
  <2> QED
    BY <2>2, <2>3 DEF MarkInv, DraftsStayHidden, noticeVars, server, client,
                      NoticeInv, ServerOK, ClientOK
<1>4. ASSUME PublishNotify(p) PROVE Inv'
  <2>1. MarkInv'
    BY <1>4, IdlePubOK DEF PublishNotify, MarkInv, DraftsStayHidden
  <2>2. CASE pub[p].users = {}
    BY <1>4, <2>1, <2>2 DEF PublishNotify, noticeVars, server, client,
                            NoticeInv, ServerOK, ClientOK
  <2>3. CASE Submit(pub[p].scope, pub[p].users)
    <3>1. pub[p].scope \in Topics /\ pub[p].users \in SUBSET Users
      BY <1>a, ScopeAssumption DEF Pub
    <3>2. ServerOK'
      BY <2>3, <3>1, SubmitOK DEF NoticeInv
    <3> QED
      BY <2>1, <2>3, <3>2 DEF Submit, client, NoticeInv, ClientOK
  <2> QED
    BY <1>4, <2>2, <2>3 DEF PublishNotify
<1>5. ASSUME PublishFail(p) PROVE Inv'
  BY <1>5, IdlePubOK DEF PublishFail, MarkInv, DraftsStayHidden, noticeVars,
                         server, client, NoticeInv, ServerOK, ClientOK
<1> QED
  BY <1>1, <1>2, <1>3, <1>4, <1>5 DEF PublishStep

LEMMA NoticeOK ==
  ASSUME NoticeInv, NoticeNext
  PROVE  NoticeInv'
<1>1. ASSUME NEW t \in FanOut, Announce(t) PROVE NoticeInv'
  BY <1>1, AnnounceOK DEF NoticeInv, client, ClientOK
<1>2. ASSUME NEW j \in Jobs, JobStep(j) \/ JobFail(j) PROVE NoticeInv'
  BY <1>2, QueueOK DEF NoticeInv, client, ClientOK
<1> QED
  BY <1>1, <1>2, EventOK, PollOK, ClickOK DEF NoticeNext

LEMMA InvHolds == Spec => []Inv
<1>1. Inv /\ [Next]_vars => Inv'
  <2> SUFFICES ASSUME Inv, [Next]_vars PROVE Inv'
    OBVIOUS
  <2>1. CASE NoticeNext /\ news' = Untold /\ UNCHANGED <<mark, pub, released>>
    <3>1. NoticeInv'
      BY <2>1, NoticeOK DEF Inv
    <3> QED
      BY <2>1, <3>1 DEF Inv, MarkInv, DraftsStayHidden, Untold
  <2>2. CASE UNCHANGED vars
    BY <2>2 DEF vars, markVars, noticeVars, server, client, Inv, NoticeInv, ServerOK,
                ClientOK, MarkInv, DraftsStayHidden
  <2> QED
    BY <2>1, <2>2, StaffOK, PublishOK DEF Next
<1> QED
  BY <1>1, InitOK, PTL DEF Spec

\* The variables of Marks and Notifications have their types in every state.
THEOREM TypeCorrect == Spec => []TypeOK
<1>1. Inv => TypeOK
  BY DEF Inv, NoticeInv, ServerOK, ClientOK, MarkInv, TypeOK, NoticesTypeOK,
         Job, Poll, Click, Mark, Pub
<1> QED
  BY <1>1, InvHolds, PTL

\* However many staff edit marks and admins publish them, a student sees only
\* the scores a publication found.
THEOREM DraftsHidden == Spec => []DraftsStayHidden
<1>1. Inv => DraftsStayHidden
  BY DEF Inv, MarkInv
<1> QED
  BY <1>1, InvHolds, PTL

\* No job, retry or publication makes a read notification unread again.
THEOREM ReadRowsStay == Spec => ReadStaysRead
<1>1. [Next]_vars => [\A k \in Keys : rows[k] = "read" => rows'[k] = "read"]_rows
  <2> SUFFICES ASSUME [Next]_vars, rows' # rows, NEW k \in Keys, rows[k] = "read"
               PROVE  rows'[k] = "read"
    OBVIOUS
  <2> HIDE DEF Keys
  <2>1. (\E K : rows' = Inserted(K)) \/ (\E K : rows' = MarkRead(K))
    <3>1. ASSUME NEW j \in Jobs, JobStep(j) \/ JobFail(j)
          PROVE  \E K : rows' = Inserted(K)
      BY <3>1 DEF JobStep, FanOutGroup, FanOutDone, JobInsert, JobEmit, JobDone, JobFail
    <3>2. ASSUME NEW u \in Users, ClickStep(u)
          PROVE  \E K : rows' = MarkRead(K)
      BY <3>2 DEF ClickStep, ReadUpdate, ReadCount, ReadAnswer, ReadAll, ReadAllAnswer, server
    <3>3. ASSUME NoticeNext
          PROVE  (\E K : rows' = Inserted(K)) \/ (\E K : rows' = MarkRead(K))
      BY <3>1, <3>2, <3>3 DEF NoticeNext, Announce, Deliver, Lose, PollStep, PollList, PollCount,
                              PollAnswer, PollError, ClickRead, server
    <3>4. ASSUME StaffNext PROVE UNCHANGED rows
      BY <3>4 DEF StaffNext, AddMarks, AddMarksBulk, UpdateMarks, DeleteMarks,
                  EditFrame, Spend, server
    <3>5. ASSUME NEW p \in Publishers,
                 (\E s \in Scopes : PublishCount(p, s)) \/ PublishStep(p) \/ PublishFail(p)
          PROVE  UNCHANGED rows
      BY <3>5 DEF PublishCount, PublishStep, PublishRelease, PublishCollect, PublishNotify,
                  PublishFail, Submit, Spend, noticeVars, server
    <3> QED
      BY <3>3, <3>4, <3>5 DEF Next, vars, noticeVars, server
  <2> QED
    BY <2>1 DEF Inserted, MarkRead
<1> QED
  BY <1>1, PTL DEF Spec, ReadStaysRead

=============================================================================
