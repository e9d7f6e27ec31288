------------------------------ MODULE Imports ------------------------------
(***************************************************************************)
(* A file of students is imported by a job of the queue.  An attempt reads *)
(* the file, creates the accounts of all rows without a conflict in one    *)
(* transaction, and then sends the welcome mails; an attempt that created  *)
(* nothing fails, and so does one that meets an error of the file or of    *)
(* the database.  The queue repeats failed attempts, and takes a job       *)
(* again, once, whose worker died.  The file has to stay for the next      *)
(* attempt and goes when the job is over.                                  *)
(***************************************************************************)
EXTENDS Admissions

CONSTANTS
    Sheet,          \* rows of the file: address and roll number
    Attempts        \* attempts of a job

\* The rows that are left once repeated addresses and numbers are refused.
ASSUME SheetAssumption ==
    /\ Sheet \subseteq [email : Emails, roll : Rolls]
    /\ \A p, q \in Sheet : p # q => p.email # q.email /\ p.roll # q.roll
ASSUME AttemptsAssumption == Attempts \in Nat \ {0}

VARIABLES
    job,            \* the import job and its file
    landed,         \* (history) rows an attempt found a conflict for or created
    born,           \* (history) accounts the job created
    undone          \* (history) attempts undone by an error or by a conflict that
                    \* the transaction met only when it wrote

importVars == <<job, landed, born, undone>>

NoJob == [pc |-> "none", made |-> 0, stalled |-> 0, file |-> FALSE,
          rows |-> {}, stale |-> {}]
Over == {"completed", "failed"}

ImportsTypeOK ==
    /\ job \in [pc : {"none", "waiting", "active", "found", "mailing"} \cup Over,
                made : 0..Attempts - 1, stalled : 0..2, file : BOOLEAN,
                rows : SUBSET Sheet, stale : SUBSET Accounts]
    /\ landed \subseteq Sheet
    /\ born \subseteq Accounts
    /\ undone \in 0..Attempts

ImportsInit ==
    /\ job = NoJob
    /\ landed = {} /\ born = {} /\ undone = 0

\* importStudents stores the file and queues the job.
ImportStudents ==
    /\ Spend("file")
    /\ job.pc = "none"
    /\ job' = [NoJob EXCEPT !.pc = "waiting", !.file = TRUE]
    /\ UNCHANGED <<account, form, request, landed, born, undone>>

\* (mutant) One attempt too many.
ExhaustedLate(made) == made >= Attempts

Exhausted(made) == made + 1 >= Attempts

\* (mutant) The handler's own clean-up runs after every attempt.
Discarded(j) == [j EXCEPT !.pc = "waiting", !.made = j.made + 1, !.file = FALSE]

\* (mutant) The attempt is not counted.
Uncounted(j) == [j EXCEPT !.pc = "waiting"]

\* keepUploadForRetry: the next attempt finds the file.
Retried(j) == [j EXCEPT !.pc = "waiting", !.made = j.made + 1]

Ended(j, pc) == [j EXCEPT !.pc = pc, !.file = FALSE]

\* The attempt throws; the 'failed' handler cleans up after the last one.
AttemptFails ==
    job' = IF Exhausted(job.made) THEN Ended(job, "failed")
           ELSE [Retried(job) EXCEPT !.rows = {}, !.stale = {}]

\* An attempt loads the rows, or finds no file; other errors are AttemptErrs.
LoadRows ==
    /\ job.pc = "waiting"
    /\ IF job.file THEN job' = [job EXCEPT !.pc = "active"] ELSE AttemptFails
    /\ UNCHANGED <<admissionVars, landed, born, undone>>

SheetRolls == {row.roll : row \in Sheet}

\* The transaction purges and looks for conflicts ...
FindConflicts ==
    LET stale == Stale(SheetRolls)
        known == {row \in Sheet : \/ Known(row.email)
                                  \/ ~(Holder(row.roll) \subseteq stale)}
    IN  /\ job.pc = "active"
        /\ job' = [job EXCEPT !.pc = "found", !.rows = Sheet \ known, !.stale = stale]
        /\ landed' = landed \cup known
        /\ UNCHANGED <<admissionVars, born, undone>>

Clash(row) == Known(row.email) \/ ~(Holder(row.roll) \subseteq job.stale)

\* ... and creates the other rows, all or, when an index refuses one, none;
\* other errors of the transaction are AttemptErrs.
CreateAccounts ==
    /\ job.pc = "found"
    /\ CASE job.rows = {} ->
              /\ account' = Purged(job.stale)
              /\ AttemptFails
              /\ UNCHANGED <<landed, born, undone>>
         [] \E row \in job.rows : Clash(row) ->
              /\ AttemptFails
              /\ undone' = undone + 1
              /\ UNCHANGED <<account, landed, born>>
         [] OTHER ->
              \E made \in [job.rows -> Unborn] :
                /\ \A p, q \in job.rows : p # q => made[p] # made[q]
                /\ account' = [a \in Accounts |->
                     IF \E row \in job.rows : made[row] = a
                     THEN LET row == CHOOSE row \in job.rows : made[row] = a
                          IN  Student(row.email, row.roll)
                     ELSE Purged(job.stale)[a]]
                /\ job' = [job EXCEPT !.pc = "mailing"]
                /\ landed' = landed \cup job.rows
                /\ born' = born \cup {made[row] : row \in job.rows}
                /\ UNCHANGED undone
    /\ UNCHANGED <<form, request, budget>>

\* The sheet cannot be read or parsed, the departments or sections cannot be
\* looked up, or the transaction is given up with nothing written: the attempt
\* created no account, so it fails.
AttemptErrs ==
    /\ Spend("fault")
    /\ job.pc \in {"waiting", "active", "found"}
    /\ AttemptFails
    /\ undone' = undone + 1
    /\ UNCHANGED <<account, form, request, landed, born>>

\* The mails are out or given up; the 'completed' handler cleans up.
Complete ==
    /\ job.pc = "mailing"
    /\ job' = Ended(job, "completed")
    /\ UNCHANGED <<admissionVars, landed, born, undone>>

\* The worker dies.  A job found stalled a second time is failed for good.
WorkerDies ==
    /\ Spend("crash")
    /\ job.pc \in {"active", "found", "mailing"}
    /\ LET j == [job EXCEPT !.stalled = job.stalled + 1, !.rows = {}, !.stale = {}]
       IN  job' = IF job.stalled = 1 THEN Ended(j, "failed") ELSE [j EXCEPT !.pc = "waiting"]
    /\ UNCHANGED <<account, form, request, landed, born, undone>>

AttemptStep == LoadRows \/ FindConflicts \/ CreateAccounts \/ Complete
ImportsStep == ImportStudents \/ AttemptStep \/ AttemptErrs \/ WorkerDies

-----------------------------------------------------------------------------
(* Properties *)

\* When the job is over each row of the file has an account or a conflict that
\* was there before it, unless every single attempt was undone, by an error or
\* by somebody who took a key during it, or the worker died twice: one attempt
\* that runs to its end is enough, whatever befell the others.
EveryRowLands ==
    job.pc \in Over => \/ landed = Sheet
                       \/ undone = Attempts
                       \/ job.stalled = 2

\* The worker's attempts come to an end, though a file full of conflicts fails
\* each of them.
ImportEnds == job.pc # "none" ~> job.pc \in Over

\* "No student accounts were created from the uploaded file": what a failed job
\* reports is so.
FailureCreatesNothing == job.pc = "failed" => born = {}
=============================================================================
