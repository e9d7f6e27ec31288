# TriLearn in TLA+

TriLearn (`armancore/TriLearn`) runs a college department: intake, accounts, attendance, marks, assignments,
routines, files and notices. An Express API (`backend/src`, CommonJS) keeps its state in PostgreSQL through Prisma, in
Redis and in a store of files; a BullMQ worker, in the API process or on its own, sends notifications and imports
students; a React app (`frontend`) and an Expo app (`mobile`) are its clients. Several API processes, workers, tabs and
phones run at once.

What is hard about it is not one algorithm but that every operation is an `async` function that reads, awaits and
writes, while others do the same. There are few transactions, most of them at PostgreSQL's default level, and what
keeps the system right is a handful of unique indexes, conditional updates, two serializable transactions and Redis
keys. The modules here follow the code from await to await, so that every interleaving of those steps is checked, and
prove the properties that matter most for any number of requests, users, sockets and records.

Contents: 1 the system, 2 the modules, 3 how they follow the code, 4 runs, bounds and fairness, 5 theorems, 6 what the
models show beyond the properties, 7 limits, 8 not modelled.

## 1. The system

For each part: state, operations, what is hard, what makes it right, and the module. `PROJECT.json` lists the sources
of each part, and the hazards with their lines.

**Sessions and tokens** (`auth.session.service`, `session.service`, `accessTokenRevocation`, `auth.middleware`,
`cleanupTokens`; `AuthSessions`). State: `RefreshToken` rows, `User.passwordChangedAt/isActive/deletedAt`, Redis keys of
revoked jtis and a set of each user's live jtis. Operations: login, refresh (rotation and reuse detection), logout,
logout of all devices, the check of every request (`protect`), hourly purge. Hard: two tabs refresh at once; a password
change, deletion or logout commits while a rotation is in flight; Redis fails between two steps. Right when a refresh
token works once, when a password change ends every login that proved the old one, and a deleted account has no session.

**Password change and reset** (`auth.account.service`, `auth.email.service`; `AuthSessions`). State: the hash, its
change time, the hash of the reset link. Operations: change, forgot, reset. Hard: a link used twice at once; sessions
issued across the change.

**Login throttle and captcha** (`auth.session.service.js:116-171`, `captcha.service`; `LoginThrottle`). State: failed
attempts and lock in the user row, nonces in Redis. Hard: counts are read and written back without a condition. Right
when past the threshold a solved captcha buys one guess.

**Users, applications, bulk import** (`users.service`, `studentApplications.service`, `bulkImport.service`; `Admissions`,
`Imports`, `Accounts`). State: `User` with its role's row, unique by address and roll number; one application for each
address; the import job with its uploaded sheet. Operations: intake, review, conversion, entry by hand, deletion,
renumbering, import with attempts. Hard: all of them look up first and write later, deletion frees an address but not a
number, an attempt of an import fails for reasons that have nothing to do with its rows, and a worker dies between a
commit and the end of its job. Right when an address and a number have one holder, and one attempt that runs to its end
is enough for an import to deal with every row.

**Enrollment and subjects** (`utils/enrollment.js`, `subject.service`, promotion and transfer in `users.service`;
`Enrollment`). State: subjects, students and the pairs of them. Hard: each side is written, then the other side read,
then the pairs written, without a transaction. Right when pairs that no two requests disturbed match both sides.

**Assignments, tasks and submissions** (`assignment.service`, `task.service`; `Coursework`). Right when a task has one
answer of a student, an assignment has two only when its form is sent twice at once, and nothing outlives its subject.
Hard: only tasks have a unique index; the other look-ups are unprotected.

**Routines** (`routine.service`; `Timetable`). Rooms, teachers and sections are looked up before a class is stored,
with no index behind it. Right when classes clash only if they were planned at the same time.

**Attendance** (`services/attendance/*`, `maintenance.js`; `Attendance`). State: `Attendance` (unique per student,
subject, date), `AbsenceTicket` (unique per record), gate windows, holidays, codes that rotate, Redis keys of used
codes. Operations: code generation and scan, gate scan, staff scan, manual list, the timer that records absences after
the gate has closed, tickets and their review. Hard: the timer of every process against scans; two scans of one class;
a second ticket, or a second reviewer, while the first is reviewed. Right when a scan that was answered counts, an
approval stands unless a reviewer was already at the ticket, and in the end each class has a record.

**Marks** (`marks.service`; `Marks`). State: `Mark` (unique per student, subject, exam) with `isPublished`. Operations:
add, add for a class, edit, delete, publish. Hard: an edit or a second publication between the steps of a publication,
and a failure between release and notification. Right when students see only what was published, and hear of it.

**Notifications** (`notificationQueue`, `notificationWorker`, `notifications`, `notification.service`, `AppShell.jsx`;
`Notifications`). State: BullMQ jobs, `Notification` rows with a unique `dedupeKey`, events, the list and badge of an
open client. Producers are routines, notices, marks, assignments, tickets and applications. Hard: jobs are retried from
their start, events are lost or late, and the client merges events, its own clicks and a poll. Right when nobody is
missed, a read row stays read, and the badge comes to agree with the server.

**Realtime sockets** (`realtime.js`, `socket.service.ts`, `useSocket.ts`; `Gateway`, `Sockets`). A token per socket,
verified again for every delivery, a timer at its expiry, `auth:refresh`, a relay between processes. Hard: a binding
changes while the check of a delivery is under way. Right when events go to whom they are for, the phone shows them to
their owner only, a good binding is not closed by a check or timer of an older one, and a phone that the server cut off
comes back.

**Uploads and storage** (`upload.service`, `objectStorage`, the controllers that clean up; `Files`). State: the store, a
row for each file with its owner and the entity it was stamped with, and the rows that show it. Hard: three stores, no
transaction across them, clean-ups after failures, access decided by look-ups that are apart. Right when a file goes
only to who had a right to it and no row shows a file that was removed (with two exceptions the code makes, section 6).

**Web and mobile clients** (`utils/api.js`, `AuthContext.jsx`, `api.ts`, `auth.store.ts`, `restoreSession`; `Browser`,
`Phone`, `SessionServer`, `Clients`). State: the session in memory and its copy on the device or in cookies, one refresh
that requests share, a lock across tabs. Hard: answers of an earlier session, restarts, lost answers, two tabs. Right
when late answers neither restore nor clear another session, and a client whose messages arrive presents no token a
second time after it was rotated.

How they interact: every request passes the session check; `SessionServer` is what `AuthSessions` looks like from a
client, one step for each request. Deleting a user ends sessions (`AuthSessions`), frees keys (`Admissions`), leaves
enrollments (`Enrollment`). Deleting a subject takes its works, answers, classes and enrollments in one transaction
(`Teaching!DropSubject`). A publication of marks is a producer of the queue (`Marks` extends `Notifications`). The
import and the doors for single students share rows and indexes (`Accounts`). Events of the queue reach a socket
(`Notifications` sees a channel that may lose them, `Sockets` says to whom they go).

## 2. Modules

| module | what it is | extends or uses |
|---|---|---|
| `SessionFamilies` | abstract: logins open and end, a password change ends all of them | |
| `AuthSessions` | the session store of one account, its handlers step by step | implements `SessionFamilies` |
| `Attendance` | one day of attendance | |
| `Notifications` | queue, worker, rows and the bell of the web client | |
| `Marks` | marks of one exam | `Notifications` |
| `SessionServer` | the session API as clients see it | |
| `Phone`, `Browser` | the clients' sessions | `SessionServer` |
| `Clients` | both against one server | `Phone`, `Browser` |
| `Enrollment` | subjects, students, who attends what | |
| `Coursework`, `Timetable` | works and answers; the weekly plan | `Enrollment` |
| `Teaching` | the three over one set of subjects | `Coursework`, `Timetable` |
| `Gateway` | the socket server | |
| `Sockets` | the phone at its other end | `Gateway` |
| `Admissions` | applications, creation, deletion, renumbering | |
| `Imports`, `LoginThrottle` | the import job; guesses of a password | `Admissions` |
| `Accounts` | everything that touches rows of accounts | `Imports`, `LoginThrottle` |
| `Files` | uploaded files and the rows that show them | |
| `MC...` | instances and scenarios for the model checker | their component |
| `AuthSessionsProofs`, `AttendanceProofs`, `MarksProofs`, `ClientsProofs`, `TeachingProofs`, `SocketsProofs`, `AccountsProofs`, `FilesProofs` | theorems | their component |

The abstract specification is `SessionFamilies`; the other promises are stated as invariants and action properties over
history variables, because what the code promises there relates single events (a scan that was answered, a file that
was sent), not a second state machine. No module uses a recursive operator.

Not composed: `AuthSessions` with `Clients` (the product of the two is too large; `SessionServer` takes each request as
one step), and parts that share nothing but the user.

## 3. How the modules follow the code

A handler is a record in `req`, `request`, `job`, `checks` or the like: what its local variables hold, and a `pc` naming
the await it waits at. Each action is the code from one await to the next; where the handler returns early the action
is not enabled, or an action named for the refusal ends it. `Fail`, `Crash` or `fault` is enabled at every await of the
modules where a failure leaves something behind: an error, an aborted transaction or a crash of the process, after which
nothing more is written. History variables (marked in the modules) only serve properties. Events that users and the
world cause are counted in a `budget`; a behaviour picks one scenario of `Budgets` and spends it.

**AuthSessions.** A token value stands for the refresh token, access token and jti signed together. `LoginRead` /
`RefreshRead` are `login` and `refreshSession` up to `issueAuthSession`; `IssueBegin` takes the snapshot of its
serializable transaction, `IssueCommit` commits it, `IssueTrack` is the Redis set and the response. A serializable
transaction is refused when a transaction it conflicts with commits first (`Abort`); an ordinary `updateMany` changes
only the rows that were visible when it began (`seen`). `Members` and `Erase` are the two Redis steps of
`revokeAllAccessTokensForUser`, called by three handlers. Time is in whole seconds because `iat` is.

**Attendance.** A cell is a student and a subject of the day. `ScanReserve`, `ScanCheck`, `ScanCreate` are the awaits
of `markAttendanceQR`; `GateRead`, `GateFind`, `GateApply` those of the gate; `SyncRead`, `SyncApply` those of
`syncClosedRoutineAbsences`, run by each process's timer. `Deduped` keeps the code's reading of the day's routines.
The code's look-up, upsert, create and `skipDuplicates` differ in what they do to a record that has appeared meanwhile,
and so do the actions.

**Notifications.** A place of `job` is a BullMQ job that waits or runs. `RecordsJob` carries rows to insert
(`createNotifications`); an announcement carries the groups of recipients, one for each link, that its handler passes
to `createNotifications` in parallel (`FanOutGroup`). `JobInsert` is `createMany` with `skipDuplicates`, `JobEmit` the
look-up by key and the emission to whoever is online. `JobFail` ends an attempt anywhere; the next starts the handler
again. A key is topic, user and, for routine updates, the attempt whose clock it contains. The client's actions are the
handlers of `AppShell.jsx`: events (`Deliver`), the poll with its two queries, the clicks with their requests.

**Marks.** A publication is count, `updateMany`, look-up and `createNotifications`; each is a statement of its own, so
edits and other publications fall between. `AddMarksBulk` is one transaction. The topics of `Notifications` that are not
announcements are the scopes of a publication: a subject, or everything.

**SessionServer, Phone, Browser, Clients.** A call has a request, an effect on the server and an answer, as steps of
their own, so answers are late or lost (`loss`). The phone stamps requests with `sessionVersion` (`Current`), shares one
refresh for a session (`Joins`), repeats a request once (`retried`), saves its session after the store changed
(`Persist`) and may be killed before (`Restart`). Tabs share cookies, whose new value takes effect when the answer
arrives, and the Web Lock (`LockFree`); each has its own `refreshPromise`. `EndElsewhere` is another device that ends
all sessions.

**Enrollment, Coursework, Timetable, Teaching.** A request of staff is one of a few shapes: write a side, read the other
side (`ReadStudents`, `ReadSubjects`, `ReadMatching`, `ReadExisting`), `Write` the pairs. `syncStudent` reads in
parallel, so its two reads are two steps. `settled` marks the pairs no two requests disturbed. `HandIn` checks
enrollment, looks for an answer and stores it; `StoreAnswer` is guarded by the unique index of tasks (`Unique`) and by
the foreign key. A planner checks its scope, looks for a conflict and stores; `InTheWay` is the query of
`routine.service.js` with its three interval conditions and its treatment of null. Foreign keys are guards of the
writes: a row that refers to what is gone is refused.

**Gateway, Sockets.** A check (`CheckJti`, then `CheckUser`) runs for a handshake, a refresh and every delivery and
takes effect if the socket still has the token it was started for (`SameSession`). `Timer` is the timeout of a binding.
The phone's effect runs after the session changed (`Effect`), so events of the old session can still arrive.
`Disconnected` is the phone hearing that the server closed its socket and asking for `/auth/me`; `Reconnect` is the
answer, `NotAnswered` its failure, after which `handleDisconnect` gives up; `Drop` is the network's doing, where the
client library dials by itself. `Relay` reaches the sockets of all processes or is lost.

**Admissions, Imports, LoginThrottle, Accounts.** Look-up, number, creation and marking of a conversion are steps; the
unique indexes are the guards of the writes (`Taken`). Stale rows are purged when somebody needs their keys.
An import's attempt loads, finds conflicts, creates all accounts in one transaction, mails and completes; any error until
the transaction has committed fails it (`AttemptErrs`: a sheet that cannot be read, a look-up or a transaction that is
given up); BullMQ repeats failed attempts and takes over a stalled job once. A login reads the row, checks and notes the captcha, compares and
writes the count it read plus one.

**Files.** A request stores the file, registers it, looks up what its handler needs, writes the row, stamps the file
with it; a failure starts the handler's own clean-up (`CleansUp`), which unlinks and then forgets. A read is `protect`
(`Ask`), the file's row (`ReadRecord`), the row it is stamped with (`CheckRow`, which is `canAccessUploadedFileEntity` and
the five functions it calls), the enrollment or the subject's department (`CheckMember`) and the stream (`Send`).
`protect` loads a coordinator's department once, so a request keeps it (`request[q].department`) while `department` may
change; subjects' departments and enrollments are read when `CheckMember` needs them. `entitled` remembers who had a right
to a file at any time since they asked, a coordinator by the department of the request.

Abstractions common to all: names, texts, links, grades and payloads are left out; roles and ownership checks are
taken as passed unless they depend on state that changes, since a refused request changes nothing; audit entries and
logs are not state.

## 4. Runs

| run | what it asks | result |
|---|---|---|
| `sessions_core` | two requests among login, refresh and change over three sessions: single use, no gap at a password change, refinement of `SessionFamilies` | holds |
| `sessions_endings` | all session operations together: a deleted account has nothing to refresh | holds |
| `attendance_scan` | everything that touches one student's class, in two windows and with two codes: one credit, no absence over a scan, approvals lost only to a reviewer already at the ticket, every class recorded in the end | holds |
| `attendance_sections` | is every class recorded when a subject is taught to two sections (test, `attendance-shared.test.js`) | violated |
| `marks_release` | marks, publication, announcements, retries, an open client: drafts hidden, read stays read, promises kept, badge converges | holds |
| `clients_devices` | two accounts on a phone and in two tabs: no answer crosses sessions, what comes late is revoked, a rotated token is presented again only after a lost answer, requests end | holds |
| `teaching_term` | enrollment, hand-in and planning interleaved: pairs in step, two answers only to an assignment sent twice at once, nothing orphaned, clashes only from races | holds |
| `teaching_rooms` | can one planner book a room twice (answer, `routine.service.js:207`) | violated |
| `sockets_shift` | deliveries, renewals, ends of tokens: entitled recipients, owner's screen, good bindings stay, a phone cut off comes back | holds |
| `accounts_admission` | every door to an account, an import, logins: one holder, an attempt that ends lands all rows whatever befell the others, one guess per captcha, the import ends | holds |
| `accounts_import` | does a failed import leave no account (answer, `bulkImport.service.js:629`) | violated |
| `files_shared` | uploads, changes, deletions and readers with failures and crashes: files go to those entitled since they asked, nothing dangles | holds |

The violated ones, in a sentence each. *Sections*: the day's routines are reduced to one for each subject before they
are matched with a student's section, so only the section whose class starts first is ever marked absent. *Rooms*: the
look-up of a class with a combined group asks for `combinedGroupId { not: group }`, which leaves out the rows where it
is null, so ordinary classes are not seen. *Import*: a worker that dies after the transaction leaves the next attempt
only conflicts, and the job is reported as failed although its accounts exist.

Statements that TLC also refutes, kept with their configurations to be run by hand (`tlc -config X.cfg MCX`):

| configuration | property | why it fails |
|---|---|---|
| `AuthSessions_link_reused` | `ConsumedLinkIsDead` (comment, `auth.email.service.js:244`) | two resets both pass the look-up of the link before either clears it |
| `AuthSessions_logout_all_race` | `SweepEndsSessions` (response, `auth.session.service.js:449`) | a rotation commits while the `updateMany` runs, whose snapshot lacks the new row |
| `Attendance_reviewers` | `ApprovedLocked` (message, `tickets.service.js:171`) | the status is read, and the update is by id alone |
| `Marks_republished` | `ReleaseAnnounced` (`README.md:68`) | editing unpublishes; publishing again uses the key of the first publication, so the insert is skipped |
| `Marks_retried` | `RetryNotifiesOnce` (`docs/DEPLOYMENT.md:88`) | keys of a routine update contain the clock of the attempt |
| `Files_stamps` | `EveryFileStamped` (comment, `upload.service.js:395`) | a failure between the row and its stamp leaves a file that only its uploader and administrators may read |

**Bounds.** Requests in flight: two of each kind, since each race is one handler against another; the theorems remove
the bound where there is one. The rest, by module:

* *Sessions*: three tokens give a login, its rotation and a second login or rotation. `MaxNow` and the lifetimes let a
  token expire before, at and after a step (`sessions_core`), or time stand still where no property of the run depends
  on it (`sessions_endings`, where every operation is started). `Workload` names the operations a run starts.
* *Attendance*: one student and one subject, with two codes and two windows, concentrate every writer on one record;
  `MaxNow` is past both windows. `attendance_sections` has a student in each of two sections.
* *Marks*: two students, two subjects and scopes, two edits, two publications, one after the other (the theorem about
  drafts covers concurrent ones); jobs have two attempts of which one may fail, standing for three of which two may,
  since every attempt starts the handler afresh. Three places for jobs: a fan-out and the two jobs it adds.
* *Clients*: five token pairs, two requests and two calls of the phone, two tabs; five scenarios (switching accounts,
  restart and loss, two tabs with a logout, a failed sign-in, one account on both devices and signed out elsewhere).
* *Teaching*: two subjects, two students and two of each kind of request; nine scenarios, each of the size at which the
  race it is about appears (in `Passing` an account is disabled between the creation of two subjects); the offered
  classes share a room, a teacher, a section or a group, and one contains another.
* *Sockets*: two accounts, three sockets, and three tokens for sign-ins and renewals; seven scenarios. With two sockets
  `Effect` would find none to make, since one that is replaced while it opens stays connected (section 6), and that would
  be the bound's doing.
* *Accounts*: four accounts besides the administrator for two addresses and four numbers, so that a deleted row and two
  new ones compete; an import of two rows with three attempts, which race, meet up to three errors (`Failing`: all
  attempts undone, or all but one beside a dead worker) and whose worker dies twice; two logins up to the lock.
* *Files*: a user of each role and a second student, three names, two rows, one department that the coordinator and the
  subject may each be without; six scenarios with one failure or one crash each.

Scenarios keep a run within minutes: a behaviour picks one and interleaves its events freely. Which race needs which
events is stated beside each scenario in its `MC` module. `CHECK_DEADLOCK FALSE` everywhere, because bounded behaviours
end: time, tokens or budgets are used up. Symmetry is used only in runs without liveness (the refinement of `sessions_core` is safety), over what is interchangeable.

**Fairness.**
* *Attendance* (`FairSpec`): time passes; a handler that has begun ends, with an error if need be; the timer, which
  fires every five minutes (`maintenance.js`) and does not give up after an error, succeeds in the end if it is enabled
  again and again. A class whose window closes within the last five minutes of the day lies outside.
* *Marks*: workers take waiting jobs and requests end (`JobStep`, `ClickStep`, `PublishStep`); events are delivered or
  lost; an open client polls every 30 seconds (`AppShell.jsx:97`), so `PollStep` is fair.
* *Clients*: servers answer and answers are handled; a lock is granted to a tab that keeps asking, which Web Locks do
  in order. A lost answer is an error to its caller, so it too is an answer.
* *Sockets* (`FairSpec`): React runs the effect of a changed session; `/auth/me` is answered, if only with an error; the
  checks of a handshake end, each being one query or one Redis call; the client library reports a socket the server
  closed. Timers, deliveries, renewals and the network owe nothing.
* *Accounts*: a worker goes on with the job it has (`AttemptStep`): BullMQ gives a waiting job to a worker, and a
  stalled one to another.

Nothing makes a user click, an admin publish, an attempt fail, a message get lost or a socket deliver.

Each property was also checked against a plausible slip in the code it depends on (a lost condition, an insert that
overwrites, an attempt that is not retried); `PROJECT.json` lists the pairs under "mutants". The mutated forms stand
before the definitions they replace, and are used nowhere else.

## 5. Theorems

All are checked by TLAPS from the named assumptions of the modules on their constants, for any number of requests,
tokens, students, staff, subjects, works, planners, users, jobs, calls, tabs, sockets, accounts and files. `Users` and
`Topics` are finite in `Notifications`, for the unread count to be a number. Each component has one inductive
invariant, most of it about what a handler in flight knows that is still true when it writes. Every invariant and
every safety action property of the passing runs is the statement of a theorem.

**Sessions.** `AuthSessionsProofs!TypeCorrect`: types, strengthened by `HandlersOK`: a handler past its first await holds
the token its next step uses, and no two hold the same new one. Without it `IssueCommit` might store `NoToken`.
`SessionsSafe` (`OneActivePerFamily`) and `ChangeEnds` (`ChangeEndsSessions`): `SessionInv` adds what is known of a
rotation in flight: it holds a token of a family that no committed change has ended, since the change aborted the
others. `StepKinds` sorts all steps into those that only end rows and the four others. `CurrentPassword`
(`CurrentPasswordOnly` when resets are disabled): `PasswordInv` adds that an issuing transaction in flight proved the
password stored. `Refinement`: the initial state and every step of `AuthSessions` are one of `SessionFamilies`, under the
mapping of `Store`; rotation is a stutter. `DeletionEndsSessions` (`DeletedHasNoSession`):
`DeletionInv` says what the lock on the user row gives: while a deletion is under way no row becomes active, so what its
`updateMany` saw is all there is.

**Attendance.** `TypeCorrect`; `RecordsSafe` (`GrantedPresent`) and `OneScan` (`OneSelfScan`): `RecordInv` relates
`granted` and `selfScans` to the record. `ApprovalsKept` (`ApprovalsLostOnlyToRaces`): `ReviewInv` says of every review
under way that it is about one ticket, and that if this ticket is approved by now it was approved after the review had
read it (`late`), whichever reviews and submissions were stored in between. `SweepSafe`: a step of the timer only adds absences where there is no
record and the window has closed; `SweepInv` says that what a run of the timer has read stays absent-worthy, since
windows that have closed stay closed. No run checks it.

**Marks.** `TypeCorrect`, `DraftsHidden`, `ReadRowsStay`. `NoticeInv` adds to the types that a job with groups left is a
fan-out; `Decremented` is what keeps a badge from being negative. `DraftsStayHidden` is inductive with the types.

**Clients.** `TypeCorrect`, `TokensBelong` (`TokensOfTheUser`), `NothingLeft` (`NothingLeftBehind`), `NeverTwice`
(`NeverPresentedTwice`), `AnswersStay` (`AnswersStayInSession`), from one invariant, `ClientsInv`. Of the server it says
that what was rotated is revoked (`Lineage`). Of the phone: whose each token is (`Ownership`); that a refresh call for
the session's token is waited for by somebody of the session (`Waiting`); that a pair on its way is held by nobody else
(`Exclusive`); that a rotated token is not on its way, and is kept only until its call is answered (`Unspent`); that
every open session is known to someone (`Covered`). Of the browser: a pair on its way is not yet in the cookies, and at
most one tab holds the lock. Without `Waiting` a token could be renewed by a call that no one hears of, and presented
again by the next. The clients meet only in the server, where each touches the rows of its own device (`Foreign`), so a
step of one leaves the invariant of the other alone (`PhoneUndisturbed`, `WebUndisturbed`). `AnswersStay` needs besides
that an answer let through was asked for with a token (`Answered`), which is then one of the user of its session.

**Teaching.** `TypeCorrect`, `EnrolledByRule` (`InStep`), `OnlyRacesDuplicate` (`DuplicatesAreRaces`), `NoOrphans`
(`NothingOrphaned`), `OnlyRacesClash` (`ClashesAreRaces`). `DuplicatesAreRaces` needs `LookedWell`: a hand-in that found no
answer, and waits to store its own, has noted every answer that was stored since. Enrollment, coursework and timetable have an invariant each;
what they share is that a subject once live is gone only by `DropSubject`, which all three take together. `InStep` is the
hard one, since enrollments are written from what was read two awaits before. Its invariant is stated for each pair of a
subject and a student (`PairOK`): the requests about the pair are all clean or none is, and beside a clean one none
removes (`Undisturbed`); what a clean request read of the pair is still so (`Fresh`); a watched pair that agrees is
enrolled, or some request is on its way to enroll it (`Guarded`).

**Sockets.** `TypeCorrect`, `Entitled` (`SentToEntitled`), `OwnersList` (`ShownToOwner`). The invariant is that everything
about a socket (its binding, its checks, packets and refreshes on the way) belongs to the owner of the token it first
dialled with (`OfOwner`). It is needed because an address of a packet and the socket's present token are read at
different times; it holds because a refresh for another user is refused and a new session dials a new socket. `PhoneOK`
adds that handlers attached for this session listen to this session's socket. `Ages` and `Owners` are what any step may
do to tokens and to sockets in use. `GoodStays` (`GoodStaysOpen`) adds `OneAtATime`: a socket is dialled only when nothing
of an earlier connection is left, so an open one has no handshake or refusal under way, and a check that closes it was
begun for the token it is bound to.

**Accounts.** `TypeCorrect`, `Holders` (`OneHolder`), `RowsLand` (`EveryRowLands`), `GuessesBounded`
(`OneGuessPerCaptcha`). The invariant is one part for each module. `AdmissionsInv`: what a request in flight knows
(`Knows`) stays true though rows grow old (`Ages`) and are removed (`Thins`), with `FormsOK` for converted applications.
`JobOK` says how much of the sheet has landed at each step of an attempt, and that while some of it has not, every attempt
made so far was undone by an error or a conflict (`job.made = undone`);
`StaleOK` that the rows the transaction means to purge are still deleted ones. `GuessesOK`: past the threshold a request
that compares a password has noted its captcha, and alone.

**Files.** `TypeCorrect`, `Entitlement` (`SentToEntitled`), `NoDangling` (`NothingDangling`). A name belongs to one request
until it is written (`OwnOK`, `PrivateOK`), it is stamped once, with a row that has shown it (`AttachOK`, `StampOK`), works
and avatars show files that are kept (`WorkOK`, `PictureOK`, `AvatarOK`), and what a reader holds of a row is backed by
a right held since the request came, by the department that came with it (`ReadersOK`). The difficulty is that a clean-up decides by what its handler read:
`PictureOK` says that it only ever removes pictures that have been replaced or were never stamped.

Only model-checked: liveness (`EveryClassRecorded`, `PromisesKept`, `BadgeConverges`, `RequestsSettle`,
`ComesBack`, `ImportEnds`), which is beyond TLAPS because it rests on fairness; and the violations, which are
facts about an instance.

## 6. What the models show beyond the properties

Behaviours of the code that are in the models and that no document contradicts.

* Sessions: a rotation or login in flight survives a reset by link; a rotation between the steps of a logout survives
  it; the purge forgets the rows that reuse detection compares with; an access token minted while a logout of all
  devices clears Redis lives to its expiry.
* Sign-out beside a refresh: `refreshSession` raises the reuse alarm for any revoked row (`auth.session.service.js:227`),
  and a logout revokes the row that was sent with it. A refresh under way that the logout overtakes is thus taken for
  reuse, with no message lost, and ends the user's sessions on every device (`RevocationServe` or `LeaveServe`, then
  `Reuse`). `NeverPresentedTwice` is about rotated tokens and does not speak of it.
* Attendance: a code stays reserved when a scan fails after the reservation; the gate overwrites a record the staff set
  between its look-up and its upsert. (Two reviewers of one ticket are in the table of section 4.)
* Marks: a mark added between release and look-up is announced though it is not in view; a publication that fails after
  the release leaves marks in view that nobody is told of until it is repeated.
* Enrollment: a promotion beside a change of the subject leaves pairs out of step, and so does a subject created
  between the two reads of a student's synchronisation; one foreign key that fails drops all enrollments of a student
  being admitted; a change of a subject drops disabled students, and one that matches nobody keeps the old list. A
  student whose account is disabled or enabled again while a request runs may or may not be among those it read. `InStep`
  is about the pairs none of this disturbed; a toggle, or a read that skips a disabled student, disturbs the pair for
  every request about it, which the proof of `InStep` showed to be necessary.
* Enrollment: a student deleted while a request that had read him is about to insert is enrolled again; `NothingOrphaned`
  exempts the students a request held when they were deleted.
* Coursework: two hand-ins of one assignment (not of a task), sent at once, are both stored.
* Import: three attempts that each meet an error, of whatever kind, end the job with rows that nobody looked at
  (`EveryRowLands` names the case, `undone`).
* Accounts: a conversion that fails after the account was created leaves its application open; logins that overlap write
  one count; two administrators can delete each other.
* Sockets: a renewal that is refused, as while Redis is down, makes the phone close the socket itself; its handler ignores
  that reason, so it stays offline until the session next changes. So it does when `/auth/me` fails once after the server
  closed the socket. A socket that is replaced while it is still opening is not closed by `connectSocket`, and stays
  connected with nobody listening.
* Phone: killed between a rotation and the write to SecureStore it comes back with a rotated token, which is a reuse
  alarm; `NeverPresentedTwice` exempts it as a lost answer.
* Files: a coordinator who left the department while a request is under way is still sent its files; a picture whose
  stamp fails is removed though the user may show it by then (`NothingDangling` exempts it), and a work whose stamp fails
  has a file only its uploader and administrators read. A PDF that is refused or fails after it was stored stays;
  replaced question files stay readable; a change without a new file writes back the file it read, and undoes one that
  came between.

In the pages, outside the models: `Attendance.jsx` reloads after a save or a scan without the abort signal of its effect,
so the answer for one day can replace the list of another, under "Showing records for ..."; `Users.jsx` rolls a failed
toggle back to the whole list it saw before; a request of `ReferenceDataContext` begun by one user fills the next user's
cache.

## 7. Limits

* *AuthSessions* is one account: accounts share no session state. Listing of sessions and the activity list are left out.
* *Attendance* is one day and a record's identity its cell; the reservation of a student card until the end of the day
  is not there (a second card scan is only refused earlier).
* *Notifications* assumes Redis, as the deployment requires (without it rows are inserted inline); `createNotification`
  for one user, push tokens and e-mail are left out, the client's list has no limit of eight, and a poll does not
  overtake the one before it. *Marks* has one exam that may be published; users are not deleted.
* *Clients*: a saved session is read only at a restart, so the delay of its writing matters only there; calls on the
  wire when the app is killed are dropped. Push tokens, CSRF and its retry, network retries and the cooldown after a failed
  refresh are left out. Browsers without Web Locks, for which `api.js` keeps a best-effort entry in localStorage, are
  left out too: there two tabs may present one token, and the server's reuse detection is what is left (`api.js:359`).
* *Teaching*: one day of the week; whether a deadline has passed is a free choice; graduation, roll numbers, the scope of
  coordinators, changes of a work's texts and hard deletion are left out. The optional instructor of a subject's change
  is `AssignInstructor`.
* *Sockets*: the limits of event rate and packet size, CORS, re-enabling of users and the list loaded over HTTP are left
  out; the account look-up of a check is the set `cut`; one relay for a post.
* *Accounts*: the purge of stale rows is in the step that looks them up or creates; the addresses of deleted rows are
  rewritten; a captcha's note outlasts the captcha; the removal of the sheet is in the step that ends the job (a crash
  before it leaks the sheet); `queue.add` failing after it was stored, disabled accounts and creation of staff are left
  out. Rows of a sheet differ in address and number, as the code's validation requires.
* *Files*: contents, sizes, types and the sanitising of PDFs are abstracted (a file that is refused for them never
  arrives); deletion of subjects, hard deletion of users (which cascades) and external addresses of material are left
  out; the look-ups of a hand-in are one step here and taken apart in `Coursework`; a bulk renumbering keeps its sheet.

## 8. Not modelled

The models cover about a tenth of the repository's lines. The rest is mostly React pages and screens, validation
schemas, shaping of responses, reports, PDF layout and mails: views and pure functions of one request without state of
their own. By component: QR payload signing (pure encoding; a code that verifies is a model value); attendance settings
and reports (single upserts and reads); notices and disciplinary records, profiles, e-mail verification, creation,
renaming and deletion of departments and sections, statistics (single-row writes or reads behind role checks); rate
limits, CSRF, HTTPS, validation (checks of one request, counted by a library); start-up, health, caches, logging and
audit entries (wiring and I/O; crashes are modelled where they cut a handler short); the scanner and push registration
of the phone; pages of the web app, with the three remarks of section 6.
