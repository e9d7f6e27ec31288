--------------------------- MODULE SessionFamilies ---------------------------
(***************************************************************************)
(* What the session store of an account promises, without tokens, rows,    *)
(* transactions or clocks.  A login opens a session; rotation of its       *)
(* tokens does not show; a session that ended never comes back; a password *)
(* change ends every session, and each live session proved the password    *)
(* that is current.                                                        *)
(***************************************************************************)
EXTENDS Naturals

CONSTANT Families           \* identities of logins

VARIABLES pwd,              \* the current password
          proved,           \* the password each login proved
          live,             \* sessions that can be continued
          closed            \* sessions that ended

vars == <<pwd, proved, live, closed>>

Init ==
    /\ pwd = 0
    /\ proved = [f \in Families |-> 0]
    /\ live = {}
    /\ closed = {}

Open(f) ==
    /\ f \notin live \cup closed
    /\ live' = live \cup {f}
    /\ proved' = [proved EXCEPT ![f] = pwd]
    /\ UNCHANGED <<pwd, closed>>

Close(S) ==
    /\ S # {}
    /\ live' = live \ S
    /\ closed' = closed \cup S
    /\ UNCHANGED <<pwd, proved>>

ChangePassword ==
    /\ pwd' = pwd + 1
    /\ live' = {}
    /\ closed' = closed \cup live
    /\ UNCHANGED proved

Next ==
    \/ \E f \in Families : Open(f)
    \/ \E S \in SUBSET live : Close(S)
    \/ ChangePassword

Spec == Init /\ [][Next]_vars
=============================================================================
