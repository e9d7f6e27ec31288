------------------------------ MODULE Accounts ------------------------------
(***************************************************************************)
(* All that makes, changes or removes rows of accounts, at the same time:  *)
(* requests of staff and applicants, the import job and logins.            *)
(***************************************************************************)
EXTENDS Imports, LoginThrottle

vars == <<admissionVars, importVars, throttleVars>>

Init == AdmissionsInit /\ ImportsInit /\ ThrottleInit

Next ==
    \/ AdmissionsStep /\ UNCHANGED <<importVars, throttleVars>>
    \/ ImportsStep /\ UNCHANGED throttleVars
    \/ ThrottleStep /\ UNCHANGED importVars

Spec == Init /\ [][Next]_vars

\* A worker takes the jobs of the queue.
FairSpec == Spec /\ WF_vars(AttemptStep /\ UNCHANGED throttleVars)

-----------------------------------------------------------------------------
(* Properties *)

TypeOK == AdmissionsTypeOK /\ ImportsTypeOK /\ ThrottleTypeOK
=============================================================================
