------------------------- MODULE AuthSessionsProofs -------------------------
(***************************************************************************)
(* Proofs, for any number of requests and tokens and any bounds, of the    *)
(* safety properties of AuthSessions and of its refinement of              *)
(* SessionFamilies.                                                        *)
(***************************************************************************)
EXTENDS AuthSessions, TLAPS

\* What a handler holds at the steps that use it: the pair it signed, or the
\* token its request carried.
HandlerState(q) ==
    /\ q.pc \in {"commit", "track"} => q.tok \in Tokens
    /\ q.pc \in {"change", "changed"} => q.prev \in Tokens

HandlersOK == \A r \in Requests : HandlerState(req[r])

LEMMA IdleRequest == Idle \in Request /\ HandlerState(Idle)
BY DEF Idle, Request, Ops, Steps, HandlerState

\* A step that gives one request a well-formed state keeps all of them so.
LEMMA OneRequest ==
  ASSUME req \in [Requests -> Request], HandlersOK,
         NEW r \in Requests, NEW q \in Request, HandlerState(q),
         req' = [req EXCEPT ![r] = q]
  PROVE  req' \in [Requests -> Request] /\ HandlersOK'
BY DEF HandlersOK, HandlerState

\* So does a commit that aborts the transactions it overlaps.
LEMMA AbortTyped ==
  ASSUME req \in [Requests -> Request], HandlersOK,
         NEW r \in Requests, NEW q \in Request, HandlerState(q),
         req' = Abort(r, q)
  PROVE  req' \in [Requests -> Request] /\ HandlersOK'
BY IdleRequest DEF HandlersOK, Abort

\* The handler moves on without changing what it holds.
LEMMA NextStep ==
  ASSUME NEW q \in Request, HandlerState(q), NEW s \in Steps,
         s \in {"commit", "track"} => q.tok \in Tokens,
         s \in {"change", "changed"} => q.prev \in Tokens
  PROVE  /\ [q EXCEPT !.pc = s] \in Request
         /\ HandlerState([q EXCEPT !.pc = s])
BY DEF Request, HandlerState

\* A new request takes its first step.
LEMMA NewRequest ==
  ASSUME NEW o \in Ops, NEW s \in Steps \ {"commit", "track", "change", "changed"},
         NEW t \in Tokens
  PROVE  /\ [Idle EXCEPT !.op = o, !.pc = s] \in Request
         /\ HandlerState([Idle EXCEPT !.op = o, !.pc = s])
         /\ [Idle EXCEPT !.op = o, !.pc = s, !.prev = t] \in Request
         /\ HandlerState([Idle EXCEPT !.op = o, !.pc = s, !.prev = t])
BY DEF Idle, Request, HandlerState

LEMMA TypeStep == TypeOK /\ HandlersOK /\ [Next]_vars => TypeOK' /\ HandlersOK'
<1> USE TokenAssumption, BoundAssumption, FlagAssumption
<1> SUFFICES ASSUME TypeOK, HandlersOK, [Next]_vars
             PROVE  TypeOK' /\ HandlersOK'
  OBVIOUS
<1> USE DEF TypeOK
<1>1. ASSUME NEW r \in Requests, RequestStep(r) PROVE TypeOK' /\ HandlersOK'
  <2>0. req[r] \in Request /\ HandlerState(req[r])
    BY DEF HandlersOK
  <2> USE DEF Finish, Advance, user, rows, redis, ActiveRows, Start
  <2>1. CASE LoginRead(r)
    <3> DEFINE q == [Idle EXCEPT !.op = "login", !.pc = "begin", !.pw = password]
    <3>1. q \in Request /\ HandlerState(q)
      BY DEF Idle, Request, Ops, Steps, HandlerState
    <3> QED BY <2>1, <3>1, OneRequest DEF LoginRead
  <2>2. ASSUME NEW t \in Tokens, RefreshRead(r, t) PROVE TypeOK' /\ HandlersOK'
    <3>1. "reuse" \in Ops /\ "refresh" \in Ops /\ {"sweep", "begin"} \subseteq Steps
      BY DEF Ops, Steps
    <3>2. \E q \in Request : HandlerState(q) /\ req' = [req EXCEPT ![r] = q]
      BY <2>2, <3>1, NewRequest DEF RefreshRead
    <3>3. req' \in [Requests -> Request] /\ HandlersOK'
      BY <3>2, OneRequest
    <3> QED BY <2>2, <3>3 DEF RefreshRead
  <2>3. ASSUME NEW t \in Tokens, IssueBegin(r, t) PROVE TypeOK' /\ HandlersOK'
    <3> DEFINE q == [req[r] EXCEPT !.pc = "commit", !.tok = t, !.at = now]
    <3>1. q \in Request /\ HandlerState(q)
      BY <2>0 DEF Request, Steps, HandlerState
    <3>2. req' = [req EXCEPT ![r] = q]
      BY <2>3 DEF IssueBegin
    <3> QED BY <2>3, <3>1, <3>2, OneRequest DEF IssueBegin
  <2>4. ASSUME NEW t \in Tokens, LogoutAccess(r, t) PROVE TypeOK' /\ HandlersOK'
    <3>1. "logout" \in Ops /\ "logout" \in Steps
      BY DEF Ops, Steps
    <3> QED BY <2>4, <3>1, NewRequest, OneRequest DEF LogoutAccess
  <2>5. ASSUME NEW t \in Tokens, LogoutAllStart(r, t) PROVE TypeOK' /\ HandlersOK'
    <3>1. "logoutAll" \in Ops /\ "members" \in Steps
      BY DEF Ops, Steps
    <3> QED BY <2>5, <3>1, NewRequest, OneRequest DEF LogoutAllStart
  <2>6. ASSUME NEW t \in Tokens, ChangeRead(r, t) PROVE TypeOK' /\ HandlersOK'
    <3> DEFINE q == [Idle EXCEPT !.op = "change", !.pc = "change", !.prev = t,
                                 !.pw = password, !.at = now]
    <3>1. q \in Request /\ HandlerState(q)
      BY DEF Idle, Request, Ops, Steps, HandlerState
    <3> QED BY <2>6, <3>1, OneRequest DEF ChangeRead
  <2>7. CASE IssueCommit(r)
    <3>1. req' = [req EXCEPT ![r] = [req[r] EXCEPT !.pc = "track"]]
      BY <2>7 DEF IssueCommit
    <3>2. req[r].tok \in Tokens /\ "track" \in Steps
      BY <2>0, <2>7 DEF IssueCommit, HandlerState, Steps
    <3>3. req' \in [Requests -> Request] /\ HandlersOK'
      BY <2>0, <3>1, <3>2, NextStep, OneRequest
    <3>4. req[r].at \in Nat /\ req[r].pw \in Nat
      BY <2>0 DEF Request
    <3>5. req[r].prev # NoToken => req[r].prev \in Tokens
      BY <2>0 DEF Request
    <3> QED BY <2>7, <3>2, <3>3, <3>4, <3>5 DEF IssueCommit
  <2>8. CASE IssueTrack(r)
    <3>1. req[r].tok \in Tokens
      BY <2>0, <2>8 DEF IssueTrack, HandlerState
    <3>2. req' \in [Requests -> Request] /\ HandlersOK'
      BY <2>8, IdleRequest, OneRequest DEF IssueTrack
    <3>3. req[r].at + AccessTtl \in Nat
      BY <2>0 DEF Request
    <3>4. trackedUntil' \in Nat
      BY <2>8, <3>3 DEF IssueTrack
    <3>5. tracked' \in SUBSET Tokens /\ held' \in SUBSET Tokens
      BY <2>8, <3>1 DEF IssueTrack, IssuedToken
    <3> QED BY <2>8, <3>2, <3>4, <3>5 DEF IssueTrack
  <2>9. CASE LogoutRow(r)
    BY <2>9, IdleRequest, OneRequest DEF LogoutRow, Revoke
  <2>10. CASE Members(r)
    <3> DEFINE q == [req[r] EXCEPT !.pc = "erase",
                        !.jtis = IF now < trackedUntil THEN tracked ELSE {}]
    <3>1. q \in Request /\ HandlerState(q)
      BY <2>0 DEF Request, Steps, HandlerState
    <3>2. req' = [req EXCEPT ![r] = q]
      BY <2>10 DEF Members
    <3> QED BY <2>10, <3>1, <3>2, OneRequest DEF Members
  <2>11. CASE Erase(r)
    <3>1. {"sweep", "delete"} \subseteq Steps
      BY DEF Steps
    <3>2. \E q \in Request : HandlerState(q) /\ req' = [req EXCEPT ![r] = q]
      BY <2>0, <2>11, <3>1, NextStep, IdleRequest DEF Erase
    <3>3. req' \in [Requests -> Request] /\ HandlersOK'
      BY <3>2, OneRequest
    <3>4. req[r].jtis \subseteq Tokens
      BY <2>0 DEF Request
    <3> QED BY <2>11, <3>3, <3>4 DEF Erase
  <2>12. CASE SweepSnapshot(r)
    <3> DEFINE q == [req[r] EXCEPT !.pc = "swept", !.seen = ActiveRows]
    <3>1. q \in Request /\ HandlerState(q)
      BY <2>0 DEF Request, Steps, HandlerState
    <3>2. req' = [req EXCEPT ![r] = q]
      BY <2>12 DEF SweepSnapshot
    <3> QED BY <2>12, <3>1, <3>2, OneRequest DEF SweepSnapshot
  <2>13. CASE SweepApply(r)
    BY <2>13, IdleRequest, OneRequest DEF SweepApply, Revoke
  <2>14. CASE ChangeCommit(r)
    <3> DEFINE q == [req[r] EXCEPT !.pc = "changed"]
    <3>1. q \in Request /\ HandlerState(q)
      BY <2>0, <2>14 DEF ChangeCommit, Request, Steps, HandlerState
    <3>2a. req' \in [Requests -> Request] /\ HandlersOK'
      BY <2>14, <3>1, AbortTyped DEF ChangeCommit
    <3>3. changedAt' \in Nat /\ password' \in Nat
      BY <2>0, <2>14 DEF ChangeCommit, Request
    <3>4. ended' \in SUBSET (Tokens \cup {NoToken})
      BY <2>14 DEF ChangeCommit, KnownFamilies
    <3> QED BY <2>14, <3>2a, <3>3, <3>4 DEF ChangeCommit, Revoke
  <2>15. CASE ChangeRevoke(r)
    <3>1. req[r].prev \in Tokens
      BY <2>0, <2>15 DEF ChangeRevoke, HandlerState
    <3> QED BY <2>15, <3>1, IdleRequest, OneRequest DEF ChangeRevoke
  <2>16. CASE ResetRead(r)
    <3>1. [Idle EXCEPT !.op = "reset", !.pc = "reset"] \in Request
          /\ HandlerState([Idle EXCEPT !.op = "reset", !.pc = "reset"])
      BY DEF Idle, Request, Ops, Steps, HandlerState
    <3> QED BY <2>16, <3>1, OneRequest DEF ResetRead
  <2>17. CASE ResetSnapshot(r)
    <3> DEFINE q == [req[r] EXCEPT !.pc = "resetting", !.at = now,
                                   !.seen = ActiveRows]
    <3>1. q \in Request /\ HandlerState(q)
      BY <2>0 DEF Request, Steps, HandlerState
    <3>2. req' = [req EXCEPT ![r] = q]
      BY <2>17 DEF ResetSnapshot
    <3> QED BY <2>17, <3>1, <3>2, OneRequest DEF ResetSnapshot
  <2>18. CASE ResetCommit(r)
    <3>1. req[r].at \in Nat
      BY <2>0 DEF Request
    <3>2. req' \in [Requests -> Request] /\ HandlersOK'
      BY <2>18, IdleRequest, OneRequest DEF ResetCommit
    <3> QED BY <2>18, <3>1, <3>2 DEF ResetCommit, Revoke
  <2>19. CASE ToggleStatus(r)
    <3> DEFINE q == [Idle EXCEPT !.op = "toggle", !.pc = "toggled"]
    <3>1. q \in Request /\ HandlerState(q)
      BY DEF Idle, Request, Ops, Steps, HandlerState
    <3> QED BY <2>19, <3>1, OneRequest DEF ToggleStatus
  <2>19a. CASE ToggleConfirm(r)
    <3>1. "members" \in Steps
      BY DEF Steps
    <3>2. \E q \in Request : HandlerState(q) /\ req' = [req EXCEPT ![r] = q]
      BY <2>0, <2>19a, <3>1, NextStep, IdleRequest DEF ToggleConfirm
    <3>3. req' \in [Requests -> Request] /\ HandlersOK'
      BY <3>2, OneRequest
    <3> QED BY <2>19a, <3>3 DEF ToggleConfirm
  <2>20. CASE DeleteStart(r)
    <3> DEFINE q == [Idle EXCEPT !.op = "delete", !.pc = "members",
                                 !.seen = ActiveRows]
    <3>1. q \in Request /\ HandlerState(q)
      BY DEF Idle, Request, Ops, Steps, HandlerState
    <3> QED BY <2>20, <3>1, OneRequest DEF DeleteStart
  <2>21. CASE DeleteCommit(r)
    BY <2>21, IdleRequest, AbortTyped DEF DeleteCommit, Revoke
  <2>22. CASE Fail(r)
    BY <2>22, IdleRequest, OneRequest DEF Fail
  <2> QED
    BY <1>1, <2>1, <2>2, <2>3, <2>4, <2>5, <2>6, <2>7, <2>8, <2>9, <2>10, <2>11,
       <2>12, <2>13, <2>14, <2>15, <2>16, <2>17, <2>18, <2>19, <2>19a, <2>20,
       <2>21, <2>22 DEF RequestStep
<1>2. CASE ForgotPassword
  BY <1>2 DEF ForgotPassword, rows, redis, HandlersOK
<1>3. CASE LinkExpires
  BY <1>3 DEF LinkExpires, rows, redis, HandlersOK
<1>4. CASE Purge
  BY <1>4 DEF Purge, user, redis, HandlersOK
<1>5. CASE Tick
  BY <1>5 DEF Tick, user, rows, redis, HandlersOK
<1>6. CASE UNCHANGED vars
  BY <1>6 DEF vars, user, rows, redis, HandlersOK
<1> QED
  BY <1>1, <1>2, <1>3, <1>4, <1>5, <1>6 DEF Next

\* Every variable keeps its type: no handler reaches a step without the token
\* that step uses.
THEOREM TypeCorrect == Spec => [](TypeOK /\ HandlersOK)
<1>1. Init => TypeOK /\ HandlersOK
  <2> SUFFICES ASSUME Init PROVE TypeOK /\ HandlersOK
    OBVIOUS
  <2>1. HandlersOK
    BY IdleRequest DEF Init, HandlersOK
  <2>2. req \in [Requests -> Request]
    BY IdleRequest DEF Init
  <2>3. /\ row \in [Tokens -> {"none", "active", "revoked", "purged"}]
        /\ iat \in [Tokens -> Nat]
        /\ origin \in [Tokens -> Nat]
        /\ family \in [Tokens -> Tokens \cup {NoToken}]
    BY DEF Init
  <2>3a. /\ now \in Nat \ {0} /\ password \in Nat /\ changedAt \in Nat
         /\ trackedUntil \in Nat
         /\ link \in {"none", "set", "consumed"}
         /\ ended \in SUBSET (Tokens \cup {NoToken})
         /\ revoked \in SUBSET Tokens /\ tracked \in SUBSET Tokens
         /\ held \in SUBSET Tokens
    BY DEF Init
  <2>3b. isActive \in BOOLEAN /\ deleted \in BOOLEAN
    BY DEF Init
  <2>4. TypeOK
    BY <2>2, <2>3, <2>3a, <2>3b DEF TypeOK
  <2> QED BY <2>1, <2>4
<1> QED
  BY <1>1, TypeStep, PTL DEF Spec

-----------------------------------------------------------------------------
\* A transaction that is about to store a row holds a token of its own that
\* nobody has stored.
FreshCommits ==
    /\ \A r \in Requests : req[r].pc = "commit" => row[req[r].tok] = "none"
    /\ \A r, q \in Requests :
         /\ req[r].pc = "commit" /\ req[q].pc = "commit"
         /\ req[r].tok = req[q].tok
         => r = q

\* A stored token belongs to a family whose first token was stored.
StoredFamilies ==
    \A t \in Tokens :
       IF row[t] = "none" THEN family[t] = NoToken
       ELSE family[t] \in Tokens /\ row[family[t]] # "none"

StoredEnded == \A f \in ended : f \in Tokens /\ row[f] # "none"

SessionInv == /\ FreshCommits
              /\ StoredFamilies
              /\ StoredEnded
              /\ OneActivePerFamily
              /\ ChangeEndsSessions

\* Without resets, a login about to commit proved the password now stored.
NoReset == \A r \in Requests : req[r].pc \notin {"reset", "resetting"}

FreshLogins ==
    \A r \in Requests : req[r].pc = "commit" /\ req[r].prev = NoToken
                          => req[r].pw = password

PasswordInv == NoReset /\ FreshLogins /\ CurrentPasswordOnly

-----------------------------------------------------------------------------
(* What the steps other than an issuing transaction and a password change  *)
(* do to the rows: some end, none starts or comes back.                     *)

RowsOnlyEnd ==
    /\ \A t \in Tokens : row'[t] = "active" => row[t] = "active"
    /\ \A t \in Tokens : row'[t] = "none" <=> row[t] = "none"
    /\ family' = family /\ origin' = origin /\ ended' = ended

\* A request that moves on to q neither begins to store a row nor, where
\* resets are disabled, starts one.
Harmless(r, q) ==
    /\ q.pc # "commit"
    /\ q.pc \in {"reset", "resetting"} => PasswordReset \/ req[r].pc = "reset"

NoNewCommit == \A r \in Requests : req'[r] = req[r] \/ Harmless(r, req'[r])

QuietStep == RowsOnlyEnd /\ NoNewCommit /\ password' = password

LEMMA RevokeEnds ==
  ASSUME TypeOK, NEW S, Revoke(S), UNCHANGED <<family, origin, ended>>
  PROVE  RowsOnlyEnd
BY DEF RowsOnlyEnd, Revoke, TypeOK

LEMMA OneRequestQuiet ==
  ASSUME TypeOK, NEW r \in Requests, NEW q, Harmless(r, q),
         req' = [req EXCEPT ![r] = q]
  PROVE  NoNewCommit
BY DEF NoNewCommit, TypeOK

\* Every step is quiet, resets the password, or is one of the three that
\* matter to the sessions.
LEMMA StepKinds ==
  TypeOK /\ HandlersOK /\ [Next]_vars =>
    \/ QuietStep
    \/ \E r \in Requests : ResetCommit(r) /\ RowsOnlyEnd /\ NoNewCommit
    \/ \E r \in Requests, t \in Tokens : IssueBegin(r, t)
    \/ \E r \in Requests : IssueCommit(r)
    \/ \E r \in Requests : ChangeCommit(r)
<1> SUFFICES ASSUME TypeOK, HandlersOK, [Next]_vars,
                    \A r \in Requests : ~IssueCommit(r) /\ ~ChangeCommit(r),
                    \A r \in Requests, t \in Tokens : ~IssueBegin(r, t)
             PROVE  \/ QuietStep
                    \/ \E r \in Requests : /\ ResetCommit(r)
                                           /\ RowsOnlyEnd /\ NoNewCommit
  OBVIOUS
<1> USE DEF QuietStep, rows, user
<1>0. row' = row /\ family' = family /\ origin' = origin /\ ended' = ended
      => RowsOnlyEnd
  BY DEF RowsOnlyEnd
<1>0a. req' = req => NoNewCommit
  BY DEF NoNewCommit
<1>1. ASSUME NEW r \in Requests, RequestStep(r)
      PROVE  \/ QuietStep
             \/ ResetCommit(r) /\ RowsOnlyEnd /\ NoNewCommit
  <2>0. Harmless(r, Idle)
    BY DEF Harmless, Idle
  <2>1. CASE LoginRead(r)
    <3>1. \E q : Harmless(r, q) /\ req' = [req EXCEPT ![r] = q]
      BY <2>1 DEF Harmless, LoginRead, Idle
    <3> QED BY <2>1, <3>1, <1>0, OneRequestQuiet DEF LoginRead
  <2>2. ASSUME NEW t \in Tokens, RefreshRead(r, t) PROVE QuietStep
    <3>1. \E q : Harmless(r, q) /\ req' = [req EXCEPT ![r] = q]
      BY <2>2 DEF Harmless, RefreshRead, Idle
    <3> QED BY <2>2, <3>1, <1>0, OneRequestQuiet DEF RefreshRead
  <2>3. ASSUME NEW t \in Tokens, LogoutAccess(r, t) PROVE QuietStep
    <3>1. \E q : Harmless(r, q) /\ req' = [req EXCEPT ![r] = q]
      BY <2>3 DEF Harmless, LogoutAccess, Idle
    <3> QED BY <2>3, <3>1, <1>0, OneRequestQuiet DEF LogoutAccess
  <2>4. ASSUME NEW t \in Tokens, LogoutAllStart(r, t) PROVE QuietStep
    <3>1. \E q : Harmless(r, q) /\ req' = [req EXCEPT ![r] = q]
      BY <2>4 DEF Harmless, LogoutAllStart, Idle
    <3> QED BY <2>4, <3>1, <1>0, OneRequestQuiet DEF LogoutAllStart
  <2>5. ASSUME NEW t \in Tokens, ChangeRead(r, t) PROVE QuietStep
    <3>1. \E q : Harmless(r, q) /\ req' = [req EXCEPT ![r] = q]
      BY <2>5 DEF Harmless, ChangeRead, Idle
    <3> QED BY <2>5, <3>1, <1>0, OneRequestQuiet DEF ChangeRead
  <2>6. CASE IssueTrack(r)
    BY <2>6, <2>0, <1>0, OneRequestQuiet DEF IssueTrack, Finish
  <2>7. CASE LogoutRow(r)
    BY <2>7, <2>0, RevokeEnds, OneRequestQuiet DEF LogoutRow, Finish
  <2>8. CASE Members(r)
    <3>1. \E q : Harmless(r, q) /\ req' = [req EXCEPT ![r] = q]
      BY <2>8 DEF Harmless, Members, TypeOK, Request
    <3> QED BY <2>8, <3>1, <1>0, OneRequestQuiet DEF Members
  <2>9. CASE Erase(r)
    <3>1. \E q : Harmless(r, q) /\ req' = [req EXCEPT ![r] = q]
      BY <2>9, <2>0 DEF Harmless, Erase, Advance, Finish, TypeOK, Request
    <3> QED BY <2>9, <3>1, <1>0, OneRequestQuiet DEF Erase
  <2>10. CASE SweepSnapshot(r)
    <3>1. \E q : Harmless(r, q) /\ req' = [req EXCEPT ![r] = q]
      BY <2>10 DEF Harmless, SweepSnapshot, TypeOK, Request
    <3> QED BY <2>10, <3>1, <1>0, OneRequestQuiet DEF SweepSnapshot
  <2>11. CASE SweepApply(r)
    BY <2>11, <2>0, RevokeEnds, OneRequestQuiet DEF SweepApply, Finish
  <2>12. CASE ChangeRevoke(r)
    BY <2>12, <2>0, <1>0, OneRequestQuiet DEF ChangeRevoke, Finish
  <2>13. CASE ResetRead(r)
    <3>1. \E q : Harmless(r, q) /\ req' = [req EXCEPT ![r] = q]
      BY <2>13 DEF Harmless, ResetRead, Idle
    <3> QED BY <2>13, <3>1, <1>0, OneRequestQuiet DEF ResetRead
  <2>14. CASE ResetSnapshot(r)
    <3>1. \E q : Harmless(r, q) /\ req' = [req EXCEPT ![r] = q]
      BY <2>14 DEF Harmless, ResetSnapshot, TypeOK, Request
    <3> QED BY <2>14, <3>1, <1>0, OneRequestQuiet DEF ResetSnapshot
  <2>15. CASE ResetCommit(r)
    BY <2>15, <2>0, RevokeEnds, OneRequestQuiet DEF ResetCommit, Finish
  <2>16. CASE ToggleStatus(r)
    <3>1. \E q : Harmless(r, q) /\ req' = [req EXCEPT ![r] = q]
      BY <2>16 DEF Harmless, ToggleStatus, Idle
    <3> QED BY <2>16, <3>1, <1>0, OneRequestQuiet DEF ToggleStatus
  <2>16a. CASE ToggleConfirm(r)
    <3>1. \E q : Harmless(r, q) /\ req' = [req EXCEPT ![r] = q]
      BY <2>16a, <2>0 DEF Harmless, ToggleConfirm, Advance, Finish, TypeOK, Request
    <3> QED BY <2>16a, <3>1, <1>0, OneRequestQuiet DEF ToggleConfirm
  <2>17. CASE DeleteStart(r)
    <3>1. \E q : Harmless(r, q) /\ req' = [req EXCEPT ![r] = q]
      BY <2>17 DEF Harmless, DeleteStart, Idle
    <3> QED BY <2>17, <3>1, <1>0, OneRequestQuiet DEF DeleteStart
  <2>18. CASE DeleteCommit(r)
    <3>1. NoNewCommit
      BY <2>18, <2>0 DEF DeleteCommit, NoNewCommit, Abort, Harmless, Idle
    <3> QED BY <2>18, <3>1, RevokeEnds DEF DeleteCommit
  <2>19. CASE Fail(r)
    BY <2>19, <2>0, <1>0, OneRequestQuiet DEF Fail, Finish
  <2> QED
    BY <1>1, <2>1, <2>2, <2>3, <2>4, <2>5, <2>6, <2>7, <2>8, <2>9, <2>10, <2>11,
       <2>12, <2>13, <2>14, <2>15, <2>16, <2>16a, <2>17, <2>18, <2>19 DEF RequestStep
<1>2. CASE ForgotPassword
  BY <1>2, <1>0, <1>0a DEF ForgotPassword
<1>3. CASE LinkExpires
  BY <1>3, <1>0, <1>0a DEF LinkExpires
<1>4. CASE Purge
  <2>1. RowsOnlyEnd
    BY <1>4 DEF Purge, RowsOnlyEnd, TypeOK
  <2> QED BY <1>4, <2>1, <1>0a DEF Purge
<1>5. CASE Tick
  BY <1>5, <1>0, <1>0a DEF Tick
<1>6. CASE UNCHANGED vars
  BY <1>6, <1>0, <1>0a DEF vars
<1> QED
  BY <1>1, <1>2, <1>3, <1>4, <1>5, <1>6 DEF Next

-----------------------------------------------------------------------------
(* The invariants *)

LEMMA SessionInvInit == Init => SessionInv
BY DEF Init, Idle, SessionInv, FreshCommits, StoredFamilies, StoredEnded,
       OneActivePerFamily, ChangeEndsSessions, ActiveRows

LEMMA RowsOnlyEndKeepsSessions ==
  ASSUME TypeOK, HandlersOK, SessionInv, RowsOnlyEnd, NoNewCommit
  PROVE  SessionInv'
<1> USE DEF RowsOnlyEnd, SessionInv
<1>1. FreshCommits'
  <2>1. \A r \in Requests : req[r].pc = "commit" => req[r].tok \in Tokens
    BY DEF HandlersOK, HandlerState
  <2> QED BY <2>1 DEF FreshCommits, NoNewCommit, Harmless
<1>2. StoredFamilies'
  BY DEF StoredFamilies
<1>3. StoredEnded'
  BY DEF StoredEnded
<1>4. OneActivePerFamily' /\ ChangeEndsSessions'
  BY DEF OneActivePerFamily, ChangeEndsSessions, ActiveRows
<1> QED BY <1>1, <1>2, <1>3, <1>4

LEMMA SessionInvStep ==
  TypeOK /\ HandlersOK /\ SessionInv /\ [Next]_vars => SessionInv'
<1> SUFFICES ASSUME TypeOK, HandlersOK, SessionInv, [Next]_vars
             PROVE  SessionInv'
  OBVIOUS
<1> USE TokenAssumption DEF SessionInv
<1>0. \A r \in Requests : /\ req[r].pc = "commit" => req[r].tok \in Tokens
                          /\ req[r].prev \in Tokens \cup {NoToken}
  BY DEF HandlersOK, HandlerState, TypeOK, Request
<1>1. CASE QuietStep
  BY <1>1, RowsOnlyEndKeepsSessions DEF QuietStep
<1>2. CASE \E r \in Requests : ResetCommit(r) /\ RowsOnlyEnd /\ NoNewCommit
  BY <1>2, RowsOnlyEndKeepsSessions
<1>3. ASSUME NEW r \in Requests, NEW t \in Tokens, IssueBegin(r, t)
      PROVE  SessionInv'
  <2>0. /\ row[t] = "none" /\ \A q \in Requests : req[q].tok # t
        /\ row' = row /\ family' = family /\ ended' = ended
    BY <1>3 DEF IssueBegin, rows
  <2>1. /\ req'[r].pc = "commit" /\ req'[r].tok = t
        /\ \A q \in Requests : q # r => req'[q] = req[q]
    <3> DEFINE q0 == [req[r] EXCEPT !.pc = "commit", !.tok = t, !.at = now]
    <3>1. req' = [req EXCEPT ![r] = q0]
      BY <1>3 DEF IssueBegin
    <3>2. req \in [Requests -> Request] /\ req[r] \in Request
      BY DEF TypeOK
    <3>3. q0.pc = "commit" /\ q0.tok = t
      BY <3>2 DEF Request
    <3> QED BY <3>1, <3>2, <3>3
  <2>2. FreshCommits'
    BY <2>0, <2>1 DEF FreshCommits
  <2> QED
    BY <2>0, <2>2 DEF StoredFamilies, StoredEnded, OneActivePerFamily,
                ChangeEndsSessions, ActiveRows
<1>4. ASSUME NEW r \in Requests, IssueCommit(r) PROVE SessionInv'
  <2> DEFINE prev == req[r].prev
             new  == req[r].tok
  <2>1. /\ req'[r].pc = "track"
        /\ \A q \in Requests : q # r => req'[q] = req[q]
    BY <1>4 DEF IssueCommit, Advance, TypeOK, Request
  <2>2. /\ new \in Tokens /\ row[new] = "none" /\ family[new] = NoToken
        /\ prev # NoToken => prev \in Tokens /\ row[prev] = "active"
    BY <1>0, <1>4 DEF IssueCommit, Consumable, FreshCommits, StoredFamilies
  <2> DEFINE fam == IF prev = NoToken THEN new ELSE family[prev]
  <2>3. /\ row'[new] = "active" /\ family'[new] = fam
        /\ \A t \in Tokens \ {new} :
             /\ family'[t] = family[t]
             /\ row'[t] = IF t = prev THEN "revoked" ELSE row[t]
        /\ ended' = ended
    BY <1>4, <2>2 DEF IssueCommit, TypeOK
  <2>4. fam \in Tokens /\ (fam = new \/ row[fam] # "none")
    BY <2>2 DEF StoredFamilies
  <2>5. FreshCommits'
    BY <1>0, <1>4, <2>1, <2>3, <2>2 DEF FreshCommits, IssueCommit
  <2>6. StoredFamilies'
    BY <2>2, <2>3, <2>4 DEF StoredFamilies
  <2>7. StoredEnded'
    BY <2>2, <2>3 DEF StoredEnded
  <2>8. \A t \in Tokens \ {new} : row'[t] = "active" => row[t] = "active" /\ t # prev
    BY <2>3
  <2>9. \A t \in Tokens \ {new} : row'[t] = "active" => family[t] # fam
    BY <2>2, <2>4, <2>8 DEF OneActivePerFamily, ActiveRows, StoredFamilies
  <2>10. fam \notin ended
    BY <2>2 DEF ChangeEndsSessions, ActiveRows, StoredEnded
  <2>11. OneActivePerFamily'
    BY <2>3, <2>8, <2>9 DEF OneActivePerFamily, ActiveRows
  <2>12. ChangeEndsSessions'
    BY <2>3, <2>8, <2>10 DEF ChangeEndsSessions, ActiveRows
  <2> QED BY <2>5, <2>6, <2>7, <2>11, <2>12
<1>5. ASSUME NEW r \in Requests, ChangeCommit(r) PROVE SessionInv'
  <2>1. \A t \in Tokens : /\ row'[t] # "active"
                          /\ row'[t] = "none" <=> row[t] = "none"
    BY <1>5 DEF ChangeCommit, Revoke, TypeOK
  <2>2. \A q \in Requests : req'[q].pc # "commit"
    BY <1>5 DEF ChangeCommit, Abort, Overlaps, Idle, TypeOK, Request
  <2>3. family' = family /\ ended' = ended \cup KnownFamilies
    BY <1>5 DEF ChangeCommit
  <2>4. FreshCommits' /\ StoredFamilies'
    BY <2>1, <2>2, <2>3 DEF FreshCommits, StoredFamilies
  <2>5. StoredEnded'
    BY <2>1, <2>3 DEF StoredEnded, KnownFamilies, StoredFamilies
  <2>6. \A t \in Tokens : t \notin ActiveRows'
    BY <2>1 DEF ActiveRows
  <2>7. OneActivePerFamily' /\ ChangeEndsSessions'
    BY <2>6 DEF OneActivePerFamily, ChangeEndsSessions, ActiveRows
  <2> QED BY <2>4, <2>5, <2>7
<1> QED
  BY <1>1, <1>2, <1>3, <1>4, <1>5, StepKinds

\* Rotation is single use and a password change ends every session, for any
\* number of concurrent requests: no two requests that present one refresh
\* token both get a replacement, and no rotation outlives a change.
THEOREM SessionsSafe == Spec => [](OneActivePerFamily /\ ChangeEndsSessions)
<1>1. Spec => [](TypeOK /\ HandlersOK)
  BY TypeCorrect
<1>2. SessionInv => OneActivePerFamily /\ ChangeEndsSessions
  BY DEF SessionInv
<1> QED
  BY <1>1, <1>2, SessionInvInit, SessionInvStep, PTL DEF Spec

\* No login outlives a password change, whatever was in flight when it
\* committed.
THEOREM ChangeEnds == Spec => []ChangeEndsSessions
BY SessionsSafe, PTL

LEMMA PasswordInvInit == Init => PasswordInv
BY DEF Init, Idle, PasswordInv, NoReset, FreshLogins, CurrentPasswordOnly,
       ActiveRows

LEMMA PasswordInvStep ==
  ASSUME PasswordReset = FALSE
  PROVE  TypeOK /\ HandlersOK /\ SessionInv /\ PasswordInv /\ [Next]_vars
           => PasswordInv'
<1> SUFFICES ASSUME TypeOK, HandlersOK, SessionInv, PasswordInv, [Next]_vars
             PROVE  PasswordInv'
  OBVIOUS
<1> USE DEF PasswordInv
<1>1. CASE QuietStep
  <2>1. /\ NoReset'
        /\ FreshLogins'
    BY <1>1 DEF QuietStep, NoNewCommit, Harmless, NoReset, FreshLogins
  <2>2. CurrentPasswordOnly'
    BY <1>1 DEF QuietStep, RowsOnlyEnd, CurrentPasswordOnly, ActiveRows
  <2> QED BY <2>1, <2>2
<1>2. CASE \E r \in Requests : ResetCommit(r) /\ RowsOnlyEnd /\ NoNewCommit
  BY <1>2 DEF ResetCommit, NoReset
<1>3. ASSUME NEW r \in Requests, NEW t \in Tokens, IssueBegin(r, t)
      PROVE  PasswordInv'
  <2> DEFINE q0 == [req[r] EXCEPT !.pc = "commit", !.tok = t, !.at = now]
  <2>1. req' = [req EXCEPT ![r] = q0]
    BY <1>3 DEF IssueBegin
  <2>2. req \in [Requests -> Request] /\ req[r] \in Request
    BY DEF TypeOK
  <2>3. q0.pc = "commit" /\ q0.pw = req[r].pw /\ q0.prev = req[r].prev
    BY <2>2 DEF Request
  <2>4. /\ row' = row /\ origin' = origin /\ password' = password
        /\ req[r].prev = NoToken => req[r].pw = password
    BY <1>3 DEF IssueBegin, rows, user
  <2> QED
    BY <2>1, <2>2, <2>3, <2>4
       DEF NoReset, FreshLogins, CurrentPasswordOnly, ActiveRows
<1>4. ASSUME NEW r \in Requests, IssueCommit(r) PROVE PasswordInv'
  <2>1. /\ req'[r].pc = "track"
        /\ \A q \in Requests : q # r => req'[q] = req[q]
        /\ password' = password
    BY <1>4 DEF IssueCommit, Advance, TypeOK, Request, user
  <2>2. NoReset' /\ FreshLogins'
    BY <2>1 DEF NoReset, FreshLogins
  <2>3. req[r].pc = "commit" /\ Consumable(req[r].prev)
    BY <1>4 DEF IssueCommit
  <2>4. req[r].tok \in Tokens /\ req[r].prev \in Tokens \cup {NoToken}
    BY <2>3 DEF HandlersOK, HandlerState, TypeOK, Request
  <2>5. \A t \in Tokens : t # req[r].tok =>
           /\ origin'[t] = origin[t]
           /\ row'[t] = "active" => row[t] = "active"
    BY <1>4 DEF IssueCommit, TypeOK
  <2>6. origin'[req[r].tok] = password
    <3>1. CASE req[r].prev = NoToken
      BY <1>4, <2>3, <2>4, <3>1 DEF IssueCommit, TypeOK, FreshLogins
    <3>2. CASE req[r].prev # NoToken
      BY <1>4, <2>3, <2>4, <3>2
         DEF IssueCommit, TypeOK, Consumable, CurrentPasswordOnly, ActiveRows
    <3> QED BY <3>1, <3>2
  <2>7. CurrentPasswordOnly'
    BY <2>1, <2>5, <2>6 DEF CurrentPasswordOnly, ActiveRows
  <2> QED BY <2>2, <2>7
<1>5. ASSUME NEW r \in Requests, ChangeCommit(r) PROVE PasswordInv'
  <2>1. /\ \A q \in Requests : req'[q].pc # "commit"
        /\ \A q \in Requests : req'[q].pc \in {req[q].pc, "idle", "changed"}
    BY <1>5 DEF ChangeCommit, Abort, Overlaps, Idle, TypeOK, Request
  <2>2. \A t \in Tokens : row'[t] # "active"
    BY <1>5 DEF ChangeCommit, Revoke, TypeOK
  <2>3. CurrentPasswordOnly'
    BY <2>2 DEF CurrentPasswordOnly, ActiveRows
  <2>4. NoReset' /\ FreshLogins'
    BY <2>1 DEF NoReset, FreshLogins
  <2> QED BY <2>3, <2>4
<1> QED
  BY <1>1, <1>2, <1>3, <1>4, <1>5, StepKinds

\* Where password resets are disabled, every session that can be refreshed
\* proved the password now stored, however logins, rotations and changes
\* interleave.
THEOREM CurrentPassword ==
  ASSUME PasswordReset = FALSE
  PROVE  Spec => []CurrentPasswordOnly
<1>1. Spec => [](TypeOK /\ HandlersOK)
  BY TypeCorrect
<1>2. PasswordInv => CurrentPasswordOnly
  BY DEF PasswordInv
<1> QED
  BY <1>1, <1>2, SessionInvInit, SessionInvStep, PasswordInvInit,
     PasswordInvStep, PTL DEF Spec

-----------------------------------------------------------------------------
(* Refinement *)

LEMMA StoreInit == Init => Store!Init
<1> SUFFICES ASSUME Init PROVE Store!Init
  OBVIOUS
<1> USE TokenAssumption DEF Init
<1>1. LoginPasswords = [t \in Tokens |-> 0]
  BY DEF LoginPasswords
<1>2. LiveFamilies = {} /\ KnownFamilies = {}
  BY DEF LiveFamilies, KnownFamilies, ActiveRows
<1> QED BY <1>1, <1>2 DEF Store!Init

\* Where no row starts, the live families can only become fewer.
LEMMA FamiliesOnlyEnd ==
  ASSUME TypeOK, RowsOnlyEnd
  PROVE  /\ LiveFamilies' \subseteq LiveFamilies
         /\ KnownFamilies' = KnownFamilies
         /\ LoginPasswords' = LoginPasswords
BY DEF RowsOnlyEnd, LiveFamilies, KnownFamilies, ActiveRows, LoginPasswords

LEMMA LiveKnown == LiveFamilies \subseteq KnownFamilies
BY DEF LiveFamilies, KnownFamilies, ActiveRows

LEMMA StoreStep ==
  ASSUME PasswordReset = FALSE
  PROVE  TypeOK /\ HandlersOK /\ SessionInv /\ PasswordInv /\ [Next]_vars
           => [Store!Next]_(Store!vars)
<1> SUFFICES ASSUME TypeOK, HandlersOK, SessionInv, PasswordInv, [Next]_vars
             PROVE  Store!Next \/ UNCHANGED Store!vars
  BY DEF Store!vars
<1>1. CASE QuietStep
  <2>1. /\ LiveFamilies' \subseteq LiveFamilies
        /\ KnownFamilies' = KnownFamilies
        /\ LoginPasswords' = LoginPasswords
        /\ password' = password
    BY <1>1, FamiliesOnlyEnd DEF QuietStep
  <2>2. CASE LiveFamilies' = LiveFamilies
    BY <2>1, <2>2 DEF Store!vars
  <2>3. CASE LiveFamilies' # LiveFamilies
    <3> DEFINE S == LiveFamilies \ LiveFamilies'
    <3>1. S \in SUBSET LiveFamilies /\ S # {}
      BY <2>1, <2>3
    <3>2. /\ LiveFamilies' = LiveFamilies \ S
          /\ (KnownFamilies \ LiveFamilies)' = (KnownFamilies \ LiveFamilies) \cup S
      BY <2>1, LiveKnown
    <3>3. Store!Close(S)
      BY <2>1, <3>1, <3>2 DEF Store!Close
    <3> QED BY <3>1, <3>3 DEF Store!Next
  <2> QED BY <2>2, <2>3
<1>2. CASE \E r \in Requests : ResetCommit(r) /\ RowsOnlyEnd /\ NoNewCommit
  BY <1>2 DEF ResetCommit, PasswordInv, NoReset
<1>3. ASSUME NEW r \in Requests, NEW t \in Tokens, IssueBegin(r, t)
      PROVE  UNCHANGED Store!vars
  BY <1>3 DEF IssueBegin, rows, user, Store!vars, LiveFamilies, KnownFamilies,
              ActiveRows, LoginPasswords
<1>4. ASSUME NEW r \in Requests, IssueCommit(r)
      PROVE  Store!Next \/ UNCHANGED Store!vars
  <2> DEFINE prev == req[r].prev
             new  == req[r].tok
  <2>1. /\ new \in Tokens /\ row[new] = "none" /\ family[new] = NoToken
        /\ prev # NoToken => prev \in Tokens /\ row[prev] = "active"
    <3>1. req[r].pc = "commit" /\ Consumable(prev)
      BY <1>4 DEF IssueCommit
    <3>2. new \in Tokens /\ prev \in Tokens \cup {NoToken}
      BY <3>1 DEF HandlersOK, HandlerState, TypeOK, Request
    <3> QED
      BY <3>1, <3>2 DEF Consumable, SessionInv, FreshCommits, StoredFamilies
  <2>2. /\ row' = [t \in Tokens |-> IF t = new THEN "active"
                                   ELSE IF t = prev THEN "revoked" ELSE row[t]]
        /\ password' = password
    BY <1>4 DEF IssueCommit, user
  <2>3. CASE prev = NoToken
    <3>1. /\ row' = [row EXCEPT ![new] = "active"]
          /\ family' = [family EXCEPT ![new] = new]
          /\ origin' = [origin EXCEPT ![new] = req[r].pw]
          /\ req[r].pw = password
      <4>1. req[r].pw = password
        BY <1>4, <2>3 DEF IssueCommit, PasswordInv, FreshLogins
      <4>2. row' = [row EXCEPT ![new] = "active"]
        BY <2>2, <2>3, TokenAssumption DEF TypeOK
      <4> QED
        BY <1>4, <2>3, <4>1, <4>2 DEF IssueCommit
    <3>2. new \notin KnownFamilies
      BY <2>1, <3>1 DEF KnownFamilies, SessionInv, StoredFamilies
    <3>3. LiveFamilies' = LiveFamilies \cup {new}
      BY <2>1, <3>1 DEF LiveFamilies, ActiveRows, TypeOK
    <3>4. KnownFamilies' = KnownFamilies \cup {new}
      BY <2>1, <3>1 DEF KnownFamilies, TypeOK
    <3>5. LoginPasswords' = [LoginPasswords EXCEPT ![new] = password]
      BY <2>1, <3>1 DEF LoginPasswords, TypeOK
    <3>6. Store!Open(new)
      BY <2>2, <3>2, <3>3, <3>4, <3>5, LiveKnown DEF Store!Open
    <3> QED BY <2>1, <3>6 DEF Store!Next
  <2>4. CASE prev # NoToken
    <3>1. /\ row' = [row EXCEPT ![new] = "active", ![prev] = "revoked"]
          /\ family' = [family EXCEPT ![new] = family[prev]]
          /\ origin' = [origin EXCEPT ![new] = origin[prev]]
      BY <1>4, <2>1, <2>2, <2>4 DEF IssueCommit, TypeOK
    <3>2. prev # new /\ family[prev] # new /\ family[prev] \in Tokens
      BY <2>1, <2>4 DEF SessionInv, StoredFamilies
    <3>3. LiveFamilies' = LiveFamilies
      BY <2>1, <2>4, <3>1, <3>2 DEF LiveFamilies, ActiveRows, TypeOK
    <3>4. KnownFamilies' = KnownFamilies
      BY <2>1, <2>4, <3>1, <3>2 DEF KnownFamilies, TypeOK
    <3>5. LoginPasswords' = LoginPasswords
      BY <2>1, <3>1, <3>2, TokenAssumption DEF LoginPasswords, TypeOK
    <3> QED BY <2>2, <3>3, <3>4, <3>5 DEF Store!vars
  <2> QED BY <2>3, <2>4
<1>5. ASSUME NEW r \in Requests, ChangeCommit(r) PROVE Store!ChangePassword
  <2>1. /\ \A t \in Tokens : row'[t] # "active"
        /\ \A t \in Tokens : row'[t] = "none" <=> row[t] = "none"
        /\ family' = family /\ origin' = origin /\ password' = password + 1
    BY <1>5 DEF ChangeCommit, Revoke, TypeOK
  <2>2. LiveFamilies' = {}
    BY <2>1 DEF LiveFamilies, ActiveRows
  <2>3. KnownFamilies' = KnownFamilies /\ LoginPasswords' = LoginPasswords
    BY <2>1 DEF KnownFamilies, LoginPasswords
  <2>4. (KnownFamilies \ LiveFamilies)' = (KnownFamilies \ LiveFamilies) \cup LiveFamilies
    BY <2>2, <2>3, LiveKnown
  <2> QED BY <2>1, <2>2, <2>3, <2>4 DEF Store!ChangePassword
<1> QED
  BY <1>1, <1>2, <1>3, <1>4, <1>5, StepKinds DEF Store!Next

\* Where password resets are disabled, the token rows, transactions and
\* handlers implement the sessions of SessionFamilies.
THEOREM Refinement ==
  ASSUME PasswordReset = FALSE
  PROVE  Spec => KeepsPromise
<1>1. Spec => [](TypeOK /\ HandlersOK)
  BY TypeCorrect
<1> QED
  BY <1>1, SessionInvInit, SessionInvStep, PasswordInvInit, PasswordInvStep,
     StoreInit, StoreStep, PTL DEF Spec, KeepsPromise, Store!Spec

-----------------------------------------------------------------------------
(* Deletion of the account.  Its updateMany runs at the default isolation  *)
(* level: the transaction holds the user row from its snapshot on, and an   *)
(* issuing transaction that overlaps its commit fails.                      *)

\* A deletion under way has seen every row that is active.
DeletionState(q) ==
    /\ q.op = "delete" => /\ q.pc \in {"members", "erase", "delete"}
                          /\ ActiveRows \subseteq q.seen
    /\ q.pc = "delete" => q.op = "delete"

DeletionsOK == \A r \in Requests : DeletionState(req[r])

\* Nothing is stored for a deleted account any more.
NothingStored == deleted => \A r \in Requests : req[r].pc # "commit"

DeletionInv == DeletionsOK /\ NothingStored /\ DeletedHasNoSession

NoRowStarts == \A t \in Tokens : row'[t] = "active" => row[t] = "active"

LEMMA RevokeStartsNone ==
  ASSUME TypeOK, NEW S, Revoke(S) PROVE NoRowStarts
BY DEF NoRowStarts, Revoke, TypeOK

\* One request moves on, no row becomes active, the account is not deleted.
LEMMA OneRequestMoves ==
  ASSUME TypeOK, DeletionInv, NEW r \in Requests, NEW q,
         DeletionState(q), q.pc # "commit",
         req' = [req EXCEPT ![r] = q], NoRowStarts, deleted' = deleted
  PROVE  DeletionInv'
<1>1. ActiveRows' \subseteq ActiveRows
  BY DEF ActiveRows, NoRowStarts
<1>2. DeletionsOK'
  BY <1>1 DEF DeletionInv, DeletionsOK, DeletionState, TypeOK
<1>3. NothingStored'
  BY DEF DeletionInv, NothingStored, TypeOK
<1>4. DeletedHasNoSession'
  BY <1>1 DEF DeletionInv, DeletedHasNoSession
<1> QED BY <1>2, <1>3, <1>4 DEF DeletionInv

\* No request moves, no row becomes active.
LEMMA NoRequestMoves ==
  ASSUME TypeOK, DeletionInv, req' = req, NoRowStarts, deleted' = deleted
  PROVE  DeletionInv'
<1>1. ActiveRows' \subseteq ActiveRows
  BY DEF ActiveRows, NoRowStarts
<1> QED
  BY <1>1 DEF DeletionInv, DeletionsOK, DeletionState, NothingStored,
     DeletedHasNoSession

LEMMA DeletionStep ==
  TypeOK /\ HandlersOK /\ DeletionInv /\ [Next]_vars => DeletionInv'
<1> SUFFICES ASSUME TypeOK, HandlersOK, DeletionInv, [Next]_vars PROVE DeletionInv'
  OBVIOUS
<1> USE DEF rows, user
<1>0. row' = row => NoRowStarts
  BY DEF NoRowStarts
<1>1. ASSUME NEW r \in Requests, RequestStep(r) PROVE DeletionInv'
  <2>0. /\ req[r] \in Request /\ DeletionState(req[r])
        /\ DeletionState(Idle) /\ Idle.pc # "commit"
    BY DEF TypeOK, DeletionInv, DeletionsOK, DeletionState, Idle
  <2>1. ASSUME \E q : /\ q.op # "delete" /\ q.pc \notin {"commit", "delete"}
                      /\ req' = [req EXCEPT ![r] = q],
               NoRowStarts, deleted' = deleted
        PROVE  DeletionInv'
    BY <2>1, OneRequestMoves DEF DeletionState
  <2>2. CASE Finish(r) /\ NoRowStarts /\ deleted' = deleted
    BY <2>0, <2>2, OneRequestMoves DEF Finish
  <2>3. CASE LoginRead(r)
    <3>1. \E q : /\ q.op # "delete" /\ q.pc \notin {"commit", "delete"}
                 /\ req' = [req EXCEPT ![r] = q]
      BY <2>3 DEF LoginRead, Idle
    <3> QED BY <2>1, <2>3, <3>1, <1>0 DEF LoginRead
  <2>4. ASSUME NEW t \in Tokens, RefreshRead(r, t) PROVE DeletionInv'
    <3>1. \E q : /\ q.op # "delete" /\ q.pc \notin {"commit", "delete"}
                 /\ req' = [req EXCEPT ![r] = q]
      BY <2>4 DEF RefreshRead, Idle
    <3> QED BY <2>1, <2>4, <3>1, <1>0 DEF RefreshRead
  <2>5. ASSUME NEW t \in Tokens, IssueBegin(r, t) PROVE DeletionInv'
    <3> DEFINE q == [req[r] EXCEPT !.pc = "commit", !.tok = t, !.at = now]
    <3>1. ~deleted /\ deleted' = deleted /\ row' = row /\ req[r].pc = "begin"
      BY <2>5 DEF IssueBegin
    <3>2. DeletionState(q)
      BY <2>0, <3>1 DEF DeletionState, Request
    <3>3. req' = [req EXCEPT ![r] = q]
      BY <2>5 DEF IssueBegin
    <3>4. DeletionsOK'
      BY <3>1, <3>2, <3>3 DEF DeletionInv, DeletionsOK, DeletionState, ActiveRows, TypeOK
    <3> QED BY <3>1, <3>4 DEF DeletionInv, NothingStored, DeletedHasNoSession
  <2>6. CASE IssueCommit(r)
    <3> DEFINE q == [req[r] EXCEPT !.pc = "track"]
    <3>1. /\ ~deleted /\ deleted' = deleted
          /\ \A p \in Requests : req[p].op # "delete"
          /\ req' = [req EXCEPT ![r] = q]
      BY <2>6 DEF IssueCommit, Deleting, Advance, DeletionInv, NothingStored
    <3>2. q.op # "delete" /\ q.pc # "delete"
      BY <2>0, <3>1 DEF Request
    <3>3. DeletionsOK'
      BY <3>1, <3>2 DEF DeletionInv, DeletionsOK, DeletionState, TypeOK
    <3> QED BY <3>1, <3>3 DEF DeletionInv, NothingStored, DeletedHasNoSession
  <2>7. CASE IssueTrack(r)
    BY <2>2, <2>7, <1>0 DEF IssueTrack
  <2>8. ASSUME NEW t \in Tokens, LogoutAccess(r, t) PROVE DeletionInv'
    <3>1. \E q : /\ q.op # "delete" /\ q.pc \notin {"commit", "delete"}
                 /\ req' = [req EXCEPT ![r] = q]
      BY <2>8 DEF LogoutAccess, Idle
    <3> QED BY <2>1, <2>8, <3>1, <1>0 DEF LogoutAccess
  <2>9. CASE LogoutRow(r)
    BY <2>2, <2>9, RevokeStartsNone DEF LogoutRow
  <2>10. ASSUME NEW t \in Tokens, LogoutAllStart(r, t) PROVE DeletionInv'
    <3>1. \E q : /\ q.op # "delete" /\ q.pc \notin {"commit", "delete"}
                 /\ req' = [req EXCEPT ![r] = q]
      BY <2>10 DEF LogoutAllStart, Idle
    <3> QED BY <2>1, <2>10, <3>1, <1>0 DEF LogoutAllStart
  <2>11. CASE Members(r)
    <3> DEFINE q == [req[r] EXCEPT !.pc = "erase",
                        !.jtis = IF now < trackedUntil THEN tracked ELSE {}]
    <3>1. DeletionState(q) /\ q.pc # "commit"
      BY <2>0 DEF DeletionState, Request
    <3>2. req' = [req EXCEPT ![r] = q]
      BY <2>11 DEF Members
    <3> HIDE DEF q
    <3> QED BY <2>11, <3>1, <3>2, <1>0, OneRequestMoves DEF Members
  <2>12. CASE Erase(r)
    <3>1. CASE Finish(r)
      BY <2>2, <2>12, <3>1, <1>0 DEF Erase
    <3>2. ASSUME NEW s \in {"sweep", "delete"}, Advance(r, s),
                 s = "delete" <=> req[r].op = "delete"
          PROVE  DeletionInv'
      <4> DEFINE q == [req[r] EXCEPT !.pc = s]
      <4>1. DeletionState(q) /\ q.pc # "commit"
        BY <2>0, <3>2 DEF DeletionState, Request
      <4>2. req' = [req EXCEPT ![r] = q]
        BY <3>2 DEF Advance
      <4> HIDE DEF q
      <4> QED BY <2>12, <4>1, <4>2, <1>0, OneRequestMoves DEF Erase
    <3> QED BY <2>12, <3>1, <3>2 DEF Erase
  <2>13. CASE SweepSnapshot(r)
    <3> DEFINE q == [req[r] EXCEPT !.pc = "swept", !.seen = ActiveRows]
    <3>1. DeletionState(q) /\ q.pc # "commit"
      BY <2>0, <2>13 DEF SweepSnapshot, DeletionState, Request
    <3>2. req' = [req EXCEPT ![r] = q]
      BY <2>13 DEF SweepSnapshot
    <3> HIDE DEF q
    <3> QED BY <2>13, <3>1, <3>2, <1>0, OneRequestMoves DEF SweepSnapshot
  <2>14. CASE SweepApply(r)
    BY <2>2, <2>14, RevokeStartsNone DEF SweepApply
  <2>15. ASSUME NEW t \in Tokens, ChangeRead(r, t) PROVE DeletionInv'
    <3>1. \E q : /\ q.op # "delete" /\ q.pc \notin {"commit", "delete"}
                 /\ req' = [req EXCEPT ![r] = q]
      BY <2>15 DEF ChangeRead, Idle
    <3> QED BY <2>1, <2>15, <3>1, <1>0 DEF ChangeRead
  <2>16. CASE ChangeCommit(r)
    <3> DEFINE q == [req[r] EXCEPT !.pc = "changed"]
    <3>1. /\ NoRowStarts /\ deleted' = deleted
          /\ req' = Abort(r, q)
      BY <2>16, RevokeStartsNone DEF ChangeCommit
    <3>2. DeletionState(q) /\ q.pc # "commit"
      BY <2>0, <2>16 DEF ChangeCommit, DeletionState, Request
    <3>3. \A p \in Requests : req'[p] \in {req[p], q, Idle} /\ req'[p].pc # "commit"
      BY <2>0, <3>1, <3>2 DEF Abort, Overlaps
    <3>4. ActiveRows' \subseteq ActiveRows
      BY <3>1 DEF ActiveRows, NoRowStarts
    <3> HIDE DEF q
    <3>5. DeletionsOK'
      BY <2>0, <3>2, <3>3, <3>4 DEF DeletionInv, DeletionsOK, DeletionState
    <3> QED
      BY <3>1, <3>3, <3>4, <3>5 DEF DeletionInv, NothingStored, DeletedHasNoSession
  <2>17. CASE ChangeRevoke(r)
    BY <2>2, <2>17, <1>0 DEF ChangeRevoke
  <2>18. CASE ResetRead(r)
    <3>1. \E q : /\ q.op # "delete" /\ q.pc \notin {"commit", "delete"}
                 /\ req' = [req EXCEPT ![r] = q]
      BY <2>18 DEF ResetRead, Idle
    <3> QED BY <2>1, <2>18, <3>1, <1>0 DEF ResetRead
  <2>19. CASE ResetSnapshot(r)
    <3> DEFINE q == [req[r] EXCEPT !.pc = "resetting", !.at = now, !.seen = ActiveRows]
    <3>1. DeletionState(q) /\ q.pc # "commit"
      BY <2>0, <2>19 DEF ResetSnapshot, DeletionState, Request
    <3>2. req' = [req EXCEPT ![r] = q]
      BY <2>19 DEF ResetSnapshot
    <3> HIDE DEF q
    <3> QED BY <2>19, <3>1, <3>2, <1>0, OneRequestMoves DEF ResetSnapshot
  <2>20. CASE ResetCommit(r)
    BY <2>2, <2>20, RevokeStartsNone DEF ResetCommit
  <2>21. CASE ToggleStatus(r)
    <3>1. \E q : /\ q.op # "delete" /\ q.pc \notin {"commit", "delete"}
                 /\ req' = [req EXCEPT ![r] = q]
      BY <2>21 DEF ToggleStatus, Idle
    <3> QED BY <2>1, <2>21, <3>1, <1>0 DEF ToggleStatus
  <2>22. CASE ToggleConfirm(r)
    <3>1. CASE Finish(r)
      BY <2>2, <2>22, <3>1, <1>0 DEF ToggleConfirm
    <3>2. CASE Advance(r, "members")
      <4> DEFINE q == [req[r] EXCEPT !.pc = "members"]
      <4>1. DeletionState(q) /\ q.pc # "commit"
        BY <2>0, <2>22 DEF ToggleConfirm, DeletionState, Request
      <4>2. req' = [req EXCEPT ![r] = q]
        BY <3>2 DEF Advance
      <4> HIDE DEF q
      <4> QED BY <2>22, <4>1, <4>2, <1>0, OneRequestMoves DEF ToggleConfirm
    <3> QED BY <2>22, <3>1, <3>2 DEF ToggleConfirm
  <2>23. CASE DeleteStart(r)
    <3> DEFINE q == [Idle EXCEPT !.op = "delete", !.pc = "members", !.seen = ActiveRows]
    <3>1. DeletionState(q) /\ q.pc # "commit"
      BY DEF DeletionState, Idle
    <3>2. req' = [req EXCEPT ![r] = q]
      BY <2>23 DEF DeleteStart
    <3> HIDE DEF q
    <3> QED BY <2>23, <3>1, <3>2, <1>0, OneRequestMoves DEF DeleteStart
  <2>24. CASE DeleteCommit(r)
    <3>1. ActiveRows \subseteq req[r].seen
      BY <2>0, <2>24 DEF DeleteCommit, DeletionState
    <3>2. ActiveRows' = {}
      BY <2>24, <3>1 DEF DeleteCommit, Revoke, ActiveRows, TypeOK
    <3>3. \A p \in Requests : req'[p] \in {req[p], Idle} /\ req'[p].pc # "commit"
      BY <2>0, <2>24 DEF DeleteCommit, Abort, Overlaps
    <3>4. DeletionsOK'
      BY <2>0, <3>2, <3>3 DEF DeletionInv, DeletionsOK, DeletionState
    <3> QED BY <3>2, <3>3, <3>4 DEF DeletionInv, NothingStored, DeletedHasNoSession
  <2>25. CASE Fail(r)
    BY <2>2, <2>25, <1>0 DEF Fail
  <2> QED
    BY <1>1, <2>3, <2>4, <2>5, <2>6, <2>7, <2>8, <2>9, <2>10, <2>11, <2>12, <2>13,
       <2>14, <2>15, <2>16, <2>17, <2>18, <2>19, <2>20, <2>21, <2>22, <2>23, <2>24,
       <2>25 DEF RequestStep
<1>2. CASE ForgotPassword \/ LinkExpires \/ Tick \/ UNCHANGED vars
  BY <1>0, <1>2, NoRequestMoves DEF ForgotPassword, LinkExpires, Tick, vars
<1>3. CASE Purge
  <2>1. NoRowStarts
    BY <1>3 DEF Purge, NoRowStarts, TypeOK
  <2> QED BY <1>3, <2>1, NoRequestMoves DEF Purge
<1> QED BY <1>1, <1>2, <1>3 DEF Next

\* A deleted account has no active row, whatever rotations, logins, logouts,
\* resets and other deletions were in flight.
THEOREM DeletionEndsSessions == Spec => []DeletedHasNoSession
<1>1. Init => DeletionInv
  BY DEF Init, DeletionInv, DeletionsOK, DeletionState, NothingStored,
     DeletedHasNoSession, Idle
<1>2. DeletionInv => DeletedHasNoSession
  BY DEF DeletionInv
<1> QED BY <1>1, <1>2, DeletionStep, TypeCorrect, PTL DEF Spec

=============================================================================
