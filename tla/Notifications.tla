--------------------------- MODULE Notifications ---------------------------
(***************************************************************************)
(* Delivery of notifications.  A producer adds a job to the BullMQ queue;  *)
(* the worker inserts a row for every recipient, skipping those whose      *)
(* dedupe key exists, and emits what it finds under the keys to the open   *)
(* web clients.  Attempts fail and are retried.  A client keeps a list and *)
(* a badge from events, its own clicks and a poll of the server.           *)
(*                                                                         *)
(* The deployment has Redis; a socket may lose or reorder events.          *)
(***************************************************************************)
EXTENDS Naturals, FiniteSets

CONSTANTS
    Users,          \* recipients
    Topics,         \* what can be announced
    FanOut,         \* topics announced by a job that looks up its recipients
    Stamped,        \* fan-out topics whose dedupe key contains Date.now()
    Groups,         \* recipients of a fan-out topic, by the link they open
    Jobs,           \* bound: places of the queue, numbered
    Attempts,       \* attempts of a job
    Budgets         \* bounds: what may happen in a behaviour, see Budget

\* The users with an open web client, the fan-out topics that are announced,
\* and how many marks are edited, publications are started, attempts of jobs
\* fail, notifications are clicked and polls stay without an answer.
Budget == [online : SUBSET Users, topics : SUBSET FanOut, edits : Nat,
           publications : Nat, failures : Nat, clicks : Nat, errors : Nat]

ASSUME QueueAssumption == Attempts \in Nat \ {0} /\ Jobs \subseteq Nat
ASSUME FiniteAssumption == IsFiniteSet(Users) /\ IsFiniteSet(Topics)
ASSUME TopicAssumption == /\ Stamped \subseteq FanOut /\ FanOut \subseteq Topics
                          /\ Groups \in [FanOut -> SUBSET SUBSET Users]
ASSUME BudgetAssumption == Budgets \subseteq Budget

\* A dedupe key: topic, user and, where the key is stamped, the attempt whose
\* clock it contains.
Keys == Topics \X Users \X (0..Attempts - 1)
Key(t, u, attempt) == <<t, u, IF t \in Stamped THEN attempt ELSE 0>>

VARIABLES
    rows,       \* Notification by dedupe key: "none", "unread" or "read"
    promised,   \* (history) users a topic was accepted by the queue for
    job,        \* BullMQ jobs that are waiting or active
    budget,     \* what is left of the bounds
    live,       \* events on their way to the web clients
    list,       \* notifications a client shows: key, and whether unread
    badge,      \* unread count a client shows
    poll,       \* answer of GET /notifications that is being gathered
    click       \* PATCH of a client that is in flight

server == <<rows, promised, job>>
client == <<list, badge, poll, click>>
noticeVars == <<server, budget, live, client>>

Online == budget.online

Unread(u) == {k \in Keys : k[2] = u /\ rows[k] = "unread"}

FreeJob == [pc |-> "free", made |-> 0, keys |-> {}, topic |-> "-", groups |-> {}]
NoPoll == [has |-> {}, shown |-> {}, count |-> 0]
NoClick == [pc |-> "idle", keys |-> {}, fresh |-> 0]

NoticesInit ==
    /\ rows = [k \in Keys |-> "none"]
    /\ promised = [t \in Topics |-> {}]
    /\ job = [j \in Jobs |-> FreeJob]
    /\ budget \in Budgets
    /\ live = {}
    /\ list = [u \in Users |-> {}]
    /\ badge = [u \in Users |-> 0]
    /\ poll = [u \in Users |-> NoPoll]
    /\ click = [u \in Users |-> NoClick]

-----------------------------------------------------------------------------
(* Queue and worker *)

Free == {j \in Jobs : job[j].pc = "free"}
Place == CHOOSE j \in Free : \A i \in Free : j <= i

\* createNotifications: one job for all recipients, each with its dedupe key.
RecordsJob(t, U, attempt) ==
    [FreeJob EXCEPT !.pc = "waiting", !.keys = {Key(t, u, attempt) : u \in U}]

Submit(t, U) ==
    /\ Free # {}
    /\ job' = [job EXCEPT ![Place] = RecordsJob(t, U, 0)]
    /\ promised' = [promised EXCEPT ![t] = @ \cup U]
    /\ UNCHANGED <<rows, budget, live, client>>

\* A notice is posted or a routine updated: the job looks up its recipients.
Announce(t) ==
    /\ t \in budget.topics /\ Free # {}
    /\ budget' = [budget EXCEPT !.topics = @ \ {t}]
    /\ job' = [job EXCEPT ![Place] =
                 [FreeJob EXCEPT !.pc = "waiting", !.topic = t, !.groups = Groups[t]]]
    /\ promised' = [promised EXCEPT ![t] = UNION Groups[t]]
    /\ UNCHANGED <<rows, live, client>>

\* The job of a fan-out calls createNotifications for each link; the calls run
\* at once and each adds a job of its own.
FanOutGroup(j, G) ==
    /\ job[j].pc = "waiting" /\ Free # {}
    /\ job' = [job EXCEPT ![j].groups = @ \ {G},
                          ![Place] = RecordsJob(job[j].topic, G, job[j].made)]
    /\ UNCHANGED <<rows, promised, budget, live, client>>

FanOutDone(j) ==
    /\ job[j].pc = "waiting" /\ job[j].topic # "-" /\ job[j].groups = {}
    /\ job' = [job EXCEPT ![j] = FreeJob]
    /\ UNCHANGED <<rows, promised, budget, live, client>>

\* createMany with skipDuplicates, and as an upsert.
InsertedAfresh(K) == [k \in Keys |-> IF k \in K THEN "unread" ELSE rows[k]]
Inserted(K) == [k \in Keys |-> IF k \in K /\ rows[k] = "none" THEN "unread" ELSE rows[k]]

JobInsert(j) ==
    /\ job[j].pc = "waiting" /\ job[j].keys # {}
    /\ rows' = Inserted(job[j].keys)
    /\ job' = [job EXCEPT ![j].pc = "inserted"]
    /\ UNCHANGED <<promised, budget, live, client>>

\* emitCreatedNotifications: all rows under the keys of the job, those of an
\* earlier attempt or an earlier job included.
JobEmit(j) ==
    /\ job[j].pc = "inserted"
    /\ live' = live \cup {[user |-> k[2], add |-> TRUE, keys |-> {k},
                           count |-> IF rows[k] = "unread" THEN 1 ELSE 0] :
                             k \in {key \in job[j].keys : key[2] \in Online}}
    /\ job' = [job EXCEPT ![j].pc = "emitted"]
    /\ UNCHANGED <<rows, promised, budget, client>>

JobDone(j) ==
    /\ job[j].pc = "emitted"
    /\ job' = [job EXCEPT ![j] = FreeJob]
    /\ UNCHANGED <<rows, promised, budget, live, client>>

\* An attempt fails, or its worker dies and the job is taken for stalled; the
\* next attempt runs the handler from its start.
ExhaustedAtOnce(made) == TRUE
Exhausted(made) == made + 1 >= Attempts

\* The next attempt of a job.
Again(J) == [J EXCEPT !.pc = "waiting", !.made = J.made + 1,
                      !.groups = IF J.topic = "-" THEN {} ELSE Groups[J.topic]]

JobFail(j) ==
    /\ job[j].pc # "free" /\ budget.failures > 0
    /\ budget' = [budget EXCEPT !.failures = @ - 1]
    /\ job' = [job EXCEPT ![j] = IF Exhausted(job[j].made) THEN FreeJob ELSE Again(job[j])]
    /\ UNCHANGED <<rows, promised, live, client>>

JobStep(j) == \/ \E G \in job[j].groups : FanOutGroup(j, G)
              \/ FanOutDone(j) \/ JobInsert(j) \/ JobEmit(j) \/ JobDone(j)

-----------------------------------------------------------------------------
(* Web client *)

Without(u, K) == {n \in list[u] : n[1] \notin K}
Shown(K, fresh) == {<<k, fresh>> : k \in K}

\* notification:new adds to the badge; notification:read and read-all carry
\* the count of the server.
Deliver(e) ==
    /\ live' = live \ {e}
    /\ list' = [list EXCEPT ![e.user] = Without(e.user, e.keys) \cup
                  (IF e.add THEN Shown(e.keys, e.count = 1) ELSE {})]
    /\ badge' = [badge EXCEPT ![e.user] = IF e.add THEN @ + e.count ELSE e.count]
    /\ UNCHANGED <<server, budget, poll, click>>

\* No socket is connected, or it is rebound while the event is being checked.
Lose(e) ==
    /\ live' = live \ {e}
    /\ UNCHANGED <<server, budget, client>>

\* listNotifications runs its queries at the same time, in either order.
PollList(u) ==
    /\ u \in Online /\ "list" \notin poll[u].has
    /\ poll' = [poll EXCEPT ![u].has = @ \cup {"list"}, ![u].shown = Unread(u)]
    /\ UNCHANGED <<server, budget, live, list, badge, click>>

PollCount(u) ==
    /\ u \in Online /\ "count" \notin poll[u].has
    /\ poll' = [poll EXCEPT ![u].has = @ \cup {"count"},
                            ![u].count = Cardinality(Unread(u))]
    /\ UNCHANGED <<server, budget, live, list, badge, click>>

PolledListOnly(u) == badge[u]
Polled(u) == poll[u].count

PollAnswer(u) ==
    /\ poll[u].has = {"list", "count"}
    /\ list' = [list EXCEPT ![u] = Shown(poll[u].shown, TRUE)]
    /\ badge' = [badge EXCEPT ![u] = Polled(u)]
    /\ poll' = [poll EXCEPT ![u] = NoPoll]
    /\ UNCHANGED <<server, budget, live, click>>

\* A failed poll empties what the client shows.
PollError(u) ==
    /\ u \in Online /\ budget.errors > 0
    /\ budget' = [budget EXCEPT !.errors = @ - 1]
    /\ list' = [list EXCEPT ![u] = {}]
    /\ badge' = [badge EXCEPT ![u] = 0]
    /\ poll' = [poll EXCEPT ![u] = NoPoll]
    /\ UNCHANGED <<server, live, click>>

\* The user opens one notification, or marks all of them as read.
ClickRead(u) ==
    /\ u \in Online /\ click[u].pc = "idle" /\ budget.clicks > 0
    /\ budget' = [budget EXCEPT !.clicks = @ - 1]
    /\ \/ \E n \in list[u] :
            click' = [click EXCEPT ![u] = [pc |-> "one", keys |-> {n[1]},
                                           fresh |-> IF n[2] THEN 1 ELSE 0]]
       \/ click' = [click EXCEPT ![u] = [NoClick EXCEPT !.pc = "all"]]
    /\ UNCHANGED <<server, live, list, badge, poll>>

MarkRead(K) == [k \in Keys |-> IF k \in K /\ rows[k] = "unread" THEN "read" ELSE rows[k]]

\* markNotificationRead updates the row, then counts and emits.
ReadUpdate(u) ==
    /\ click[u].pc = "one"
    /\ rows' = MarkRead(click[u].keys)
    /\ click' = [click EXCEPT ![u].pc = "updated"]
    /\ UNCHANGED <<promised, job, budget, live, list, badge, poll>>

ReadCount(u) ==
    /\ click[u].pc = "updated"
    /\ live' = live \cup {[user |-> u, add |-> FALSE, keys |-> click[u].keys,
                           count |-> Cardinality(Unread(u))]}
    /\ click' = [click EXCEPT ![u].pc = "counted"]
    /\ UNCHANGED <<server, budget, list, badge, poll>>

DecrementedBare(n, d) == n - d
Decremented(n, d) == IF n > d THEN n - d ELSE 0

ReadAnswer(u) ==
    /\ click[u].pc = "counted"
    /\ list' = [list EXCEPT ![u] = Without(u, click[u].keys)]
    /\ badge' = [badge EXCEPT ![u] = Decremented(@, click[u].fresh)]
    /\ click' = [click EXCEPT ![u] = NoClick]
    /\ UNCHANGED <<server, budget, live, poll>>

\* markAllNotificationsRead: one updateMany, an event with count 0, an answer.
ReadAll(u) ==
    /\ click[u].pc = "all"
    /\ rows' = MarkRead(Unread(u))
    /\ live' = live \cup {[user |-> u, add |-> FALSE, keys |-> Keys, count |-> 0]}
    /\ click' = [click EXCEPT ![u].pc = "cleared"]
    /\ UNCHANGED <<promised, job, budget, list, badge, poll>>

ReadAllAnswer(u) ==
    /\ click[u].pc = "cleared"
    /\ list' = [list EXCEPT ![u] = {}]
    /\ badge' = [badge EXCEPT ![u] = 0]
    /\ click' = [click EXCEPT ![u] = NoClick]
    /\ UNCHANGED <<server, budget, live, poll>>

PollStep(u) == PollList(u) \/ PollCount(u) \/ PollAnswer(u)
ClickStep(u) == \/ ReadUpdate(u) \/ ReadCount(u) \/ ReadAnswer(u)
                \/ ReadAll(u) \/ ReadAllAnswer(u)

NoticeNext ==
    \/ \E t \in FanOut : Announce(t)
    \/ \E j \in Jobs : JobStep(j) \/ JobFail(j)
    \/ \E e \in live : Deliver(e) \/ Lose(e)
    \/ \E u \in Users : PollStep(u) \/ PollError(u) \/ ClickRead(u) \/ ClickStep(u)

\* Workers take the jobs of the queue, requests end, and the client polls every
\* 30 seconds.
NoticeFairness ==
    /\ \A j \in Jobs : WF_noticeVars(JobStep(j))
    /\ \A u \in Users : WF_noticeVars(PollStep(u)) /\ WF_noticeVars(ClickStep(u))
    /\ WF_noticeVars(\E e \in live : Deliver(e) \/ Lose(e))

-----------------------------------------------------------------------------
(* Properties *)

Events == [user : Users, add : BOOLEAN, keys : SUBSET Keys, count : Nat]

NoticesTypeOK ==
    /\ rows \in [Keys -> {"none", "unread", "read"}]
    /\ promised \in [Topics -> SUBSET Users]
    /\ job \in [Jobs -> [pc : {"free", "waiting", "inserted", "emitted"},
                         made : 0..Attempts - 1, keys : SUBSET Keys,
                         topic : FanOut \cup {"-"}, groups : SUBSET SUBSET Users]]
    /\ budget \in Budget
    /\ live \subseteq Events
    /\ list \in [Users -> SUBSET (Keys \X BOOLEAN)]
    /\ badge \in [Users -> Nat]
    /\ poll \in [Users -> [has : SUBSET {"list", "count"}, shown : SUBSET Keys,
                            count : Nat]]
    /\ click \in [Users -> [pc : {"idle", "one", "updated", "counted", "all", "cleared"},
                             keys : SUBSET Keys, fresh : 0..1]]

\* No retry, repeated publication or late job brings a notification back that
\* its user has read.
ReadStaysRead == [][\A k \in Keys : rows[k] = "read" => rows'[k] = "read"]_rows

\* Once the queue has accepted an announcement, every recipient gets a row of
\* it, though attempts fail before, between and after the steps of a job: again
\* and again nothing that was promised is missing.
PromisesKept ==
    []<>(\A t \in Topics : \A u \in promised[t] :
           \E a \in 0..Attempts - 1 : rows[<<t, u, a>>] # "none")

\* When nothing new happens the client comes to show the unread notifications
\* of the server and their number, whatever events were lost, doubled by a
\* retry or delivered late.
BadgeConverges ==
    <>[](\A u \in Online : /\ badge[u] = Cardinality(Unread(u))
                           /\ {n[1] : n \in list[u]} = Unread(u))

\* "Jobs must still tolerate retries": a user is told of one thing once.
RetryNotifiesOnce ==
    \A t \in Topics, u \in Users :
      Cardinality({a \in 0..Attempts - 1 : rows[<<t, u, a>>] # "none"}) <= 1

=============================================================================
