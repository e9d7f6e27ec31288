--------------------------- MODULE ClientsProofs ---------------------------
(***************************************************************************)
(* Proofs about Clients, for any number of accounts, tokens, requests,     *)
(* calls, tabs and events: types, whose tokens the phone holds, which      *)
(* answers reach its screens, that it leaves no session behind, and that   *)
(* no client presents a token again that it rotated and was answered for.  *)
(***************************************************************************)
EXTENDS Clients, TLAPS

(***************************************************************************)
(* The server's rows: what is not issued was not rotated from anything,    *)
(* and what was rotated is revoked.                                        *)
(***************************************************************************)
StoreType ==
    /\ row \in [Tokens -> {"none", "active", "revoked"}]
    /\ owner \in [Tokens -> Accounts \cup {NoOne}]
    /\ device \in [Tokens -> Devices]
    /\ parent \in [Tokens -> Tokens \cup {NoToken}]
    /\ usable \subseteq Tokens

Lineage ==
    \A t \in Tokens :
        /\ row[t] = "none" => parent[t] = NoToken
        /\ parent[t] # NoToken => row[parent[t]] = "revoked"

StoreInv == StoreType /\ Lineage

\* The tokens that were rotated.
Spent == {t \in Tokens : \E u \in Tokens : parent[u] = t}

\* An issued token stays issued, to the same account and device.
Grown ==
    \A t \in Tokens :
        /\ row[t] # "none" => /\ row'[t] # "none"
                              /\ owner'[t] = owner[t] /\ device'[t] = device[t]
        /\ row[t] = "revoked" => row'[t] = "revoked"

\* A step of another device: no token of d is issued, rotated or revived.
Foreign(d) ==
    /\ \A t \in Tokens : row'[t] = "active" /\ device'[t] = d
                            => row[t] = "active" /\ device[t] = d
    /\ \A t \in Spent' : t \in Spent \/ device[t] # d

\* The token was issued to a login of that device.
Of(t, d) == t # NoToken => row[t] # "none" /\ device[t] = d
OwnedBy(t, a) == t # NoToken => owner[t] = a
Retired(t) == t \in Spent => t \in lost

(***************************************************************************)
(* The phone.                                                              *)
(***************************************************************************)
PhoneTokens ==
    /\ Of(session.refresh, "phone") /\ Of(session.access, "phone")
    /\ Of(saved.refresh, "phone") /\ Of(login.token, "phone")
    /\ \A c \in Calls : Of(call[c].token, "phone") /\ Of(call[c].new, "phone")
    /\ \A q \in Requests : Of(request[q].token, "phone")
    /\ \A x \in revocations : Of(x.refresh, "phone")

\* Requests of the present session.
OfSession(q) == request[q].pc # "idle" /\ request[q].version = session.version

Ownership ==
    /\ OwnedBy(session.refresh, session.user) /\ OwnedBy(session.access, session.user)
    /\ session.user # NoOne => session.refresh # NoToken
    /\ OwnedBy(saved.refresh, saved.user)
    /\ saved.user # NoOne => saved.refresh # NoToken
    /\ OwnedBy(login.token, login.account)
    /\ \A c \in Calls :
          call[c].new # NoToken => owner[call[c].new] = owner[call[c].token]
    /\ \A q \in Requests :
          /\ request[q].version <= session.version
          /\ OfSession(q) => session.user # NoOne /\ OwnedBy(request[q].token, session.user)

Shapes ==
    /\ login.pc # "idle" => login.account \in Accounts
    /\ login.pc = "issued" <=> login.token # NoToken
    /\ \A c \in Calls :
          /\ call[c].pc # "idle" <=> call[c].token # NoToken
          /\ call[c].pc = "rotated" <=> call[c].new # NoToken
          /\ call[c].pc \in {"rotated", "refused"} => row[call[c].token] = "revoked"
    /\ \A c, d \in Calls : call[c].pc # "idle" /\ call[c].token = call[d].token => c = d
    /\ \A q \in Requests : request[q].pc = "waiting"
                              => request[q].call \in Calls /\ call[request[q].call].pc # "idle"

\* Somebody of this session waits for the call.
Wanted(c) == \E q \in Requests : /\ request[q].pc = "waiting" /\ request[q].call = c
                                 /\ request[q].version = session.version
Awaited(c) == \E q \in Requests : request[q].pc = "waiting" /\ request[q].call = c

\* Every call is waited for; one for the session's token by somebody of this
\* session, and nobody of this session waits for another.
Waiting ==
    /\ shared.version <= session.version
    /\ shared.call # NoCall /\ shared.version = session.version => Wanted(shared.call)
    /\ \A c \in Calls : call[c].pc # "idle" =>
          /\ Awaited(c) \/ restoring.call = c
          /\ Wanted(c) => call[c].token = session.refresh
          /\ call[c].token = session.refresh
               => Wanted(c) \/ (restoring.call = c /\ restoring.version = session.version)

\* A pair on its way to the phone was never presented, and nobody has it yet.
Unseen(t) ==
    /\ t # session.refresh /\ t \notin Spent
    /\ \A c \in Calls : t # call[c].token
Exclusive ==
    /\ login.token # NoToken => Unseen(login.token) /\ \A c \in Calls : call[c].new # login.token
    /\ \A c \in Calls : call[c].new # NoToken => Unseen(call[c].new)
    /\ \A c, d \in Calls : call[c].new # NoToken /\ call[c].new = call[d].new => c = d

\* A token that was rotated is not on its way to the server, and the session
\* keeps it only until the call that rotated it is answered.
Unspent ==
    /\ \A c \in Calls : call[c].pc = "sent" => Retired(call[c].token)
    /\ Retired(session.refresh) \/ \E c \in Calls : /\ call[c].pc = "rotated"
                                                    /\ call[c].token = session.refresh

\* Every open session of the phone is known to somebody who keeps, replaces or
\* revokes it, or was lost.
Known(t) ==
    \/ t \in lost \/ t = session.refresh \/ t = login.token
    \/ \E c \in Calls : t = call[c].token \/ t = call[c].new
    \/ \E x \in revocations : t = x.refresh
Covered == \A t \in Tokens : row[t] = "active" /\ device[t] = "phone" => Known(t)

PhoneInv ==
    /\ PhoneTypeOK /\ PhoneTokens /\ Ownership /\ Shapes
    /\ Waiting /\ Exclusive /\ Unspent /\ Covered

(***************************************************************************)
(* The browser.                                                            *)
(***************************************************************************)
WebTokens ==
    /\ Of(jar, "web")
    /\ \A b \in Tabs : /\ Of(renew[b].token, "web") /\ Of(renew[b].new, "web")
                       /\ Of(form[b].token, "web")

WebShapes ==
    /\ \A b \in Tabs :
          /\ form[b].pc = "issued" <=> form[b].token # NoToken
          /\ form[b].pc # "idle" => form[b].account \in Accounts
          /\ renew[b].token # NoToken => Holding(b)
          /\ renew[b].pc = "rotated" <=> renew[b].new # NoToken
          /\ renew[b].pc = "rotated" => renew[b].token # NoToken
          /\ ~tab[b].open => ask[b].pc = "idle" /\ renew[b].pc = "idle"
    /\ \A b, d \in Tabs : Holding(b) /\ Holding(d) => b = d

WebUnseen(t) ==
    /\ t # jar /\ t \notin Spent
    /\ \A b \in Tabs : t # renew[b].token
WebExclusive ==
    /\ \A b \in Tabs : /\ form[b].token # NoToken => WebUnseen(form[b].token)
                       /\ renew[b].new # NoToken => WebUnseen(renew[b].new)
    /\ \A b, d \in Tabs : form[b].token # NoToken =>
          /\ form[b].token # renew[d].new
          /\ form[b].token = form[d].token => b = d

WebUnspent ==
    /\ \A b \in Tabs : renew[b].pc = "sent" => Retired(renew[b].token)
    /\ Retired(jar) \/ \E b \in Tabs : renew[b].pc = "rotated" /\ renew[b].token = jar

WebInv == WebTypeOK /\ WebTokens /\ WebShapes /\ WebExclusive /\ WebUnspent

ClientsInv == ServerTypeOK /\ Lineage /\ PhoneInv /\ WebInv

-----------------------------------------------------------------------------
(* What the server's operations do to its rows *)

\* Nothing is stored: nothing is rotated, issued or revived.
LEMMA StoreKept ==
    ASSUME StoreInv, UNCHANGED store
    PROVE  StoreInv' /\ Grown /\ Spent' = Spent /\ Foreign("phone") /\ Foreign("web")
BY DEF StoreInv, StoreType, Lineage, store, Grown, Spent, Foreign

\* What a login issues is new.
LEMMA IssueKeeps ==
    ASSUME StoreInv, NEW t \in Tokens, NEW a \in Accounts, NEW d \in Devices, Issue(t, a, d)
    PROVE  /\ StoreInv' /\ Grown /\ Spent' = Spent
           /\ row[t] = "none" /\ row' = [row EXCEPT ![t] = "active"] /\ row'[t] = "active"
           /\ owner'[t] = a /\ device'[t] = d /\ t \notin Spent
           /\ \A e \in Devices : e # d => Foreign(e)
<1>1. /\ t \in Tokens /\ row[t] = "none" /\ parent[t] = NoToken
      /\ row' = [row EXCEPT ![t] = "active"] /\ owner' = [owner EXCEPT ![t] = a]
      /\ device' = [device EXCEPT ![t] = d] /\ parent' = [parent EXCEPT ![t] = NoToken]
      /\ usable' = usable \cup {t}
  BY DEF Issue, IsNew, Unused, Stored, StoreInv, Lineage
<1>2. parent' = parent
  BY <1>1 DEF StoreInv, StoreType
<1>3. Spent' = Spent
  BY <1>2 DEF Spent
<1>4. t \notin Spent
  BY <1>1, TokenAssumption DEF Spent, StoreInv, StoreType, Lineage
<1>5. StoreType'
  BY <1>1 DEF StoreInv, StoreType
<1>6. Lineage'
  BY <1>1, <1>2, TokenAssumption DEF StoreInv, StoreType, Lineage
<1>7. Grown
  BY <1>1 DEF Grown, StoreInv, StoreType
<1>8. ASSUME NEW e \in Devices, e # d PROVE Foreign(e)
  BY <1>1, <1>3, <1>8 DEF Foreign, StoreInv, StoreType
<1> QED BY <1>1, <1>3, <1>4, <1>5, <1>6, <1>7, <1>8 DEF StoreInv, StoreType

\* A rotation spends the token presented and no other.
LEMMA RotateKeeps ==
    ASSUME StoreInv, NEW p \in Tokens, NEW t \in Tokens, Rotate(p, t)
    PROVE  /\ StoreInv' /\ Grown /\ Spent' = Spent \cup {p}
           /\ row[t] = "none" /\ p # t /\ t \notin Spent' /\ p \notin Spent
           /\ row' = [row EXCEPT ![p] = "revoked", ![t] = "active"]
           /\ row'[p] = "revoked" /\ row'[t] = "active"
           /\ owner'[t] = owner[p] /\ device'[t] = device[p]
           /\ \A e \in Devices : e # device[p] => Foreign(e)
<1>1. /\ row[t] = "none" /\ row[p] = "active" /\ parent[t] = NoToken
      /\ row' = [row EXCEPT ![p] = "revoked", ![t] = "active"]
      /\ owner' = [owner EXCEPT ![t] = owner[p]]
      /\ device' = [device EXCEPT ![t] = device[p]] /\ parent' = [parent EXCEPT ![t] = p]
      /\ usable' = usable \cup {t}
  BY DEF Rotate, IsNew, Unused, Stored, StoreInv, Lineage
<1>2. p # t /\ p # NoToken
  BY <1>1, TokenAssumption
<1>3. Spent' = Spent \cup {p}
  BY <1>1, <1>2, TokenAssumption DEF Spent, StoreInv, StoreType
<1>4. t \notin Spent' /\ p \notin Spent
  BY <1>1, <1>2, <1>3, TokenAssumption DEF Spent, StoreInv, StoreType, Lineage
<1>5. StoreType'
  BY <1>1 DEF StoreInv, StoreType
<1>6. Lineage'
  BY <1>1, <1>2, TokenAssumption DEF StoreInv, StoreType, Lineage
<1>7. Grown
  BY <1>1, <1>2 DEF Grown, StoreInv, StoreType
<1>8. ASSUME NEW e \in Devices, e # device[p] PROVE Foreign(e)
  BY <1>1, <1>2, <1>3, <1>8 DEF Foreign, StoreInv, StoreType
<1> QED BY <1>1, <1>2, <1>3, <1>4, <1>5, <1>6, <1>7, <1>8 DEF StoreInv, StoreType

\* Revocations end sessions and start none.
LEMMA RevokeKeeps ==
    ASSUME StoreInv, NEW S, RevokeRows(S), UNCHANGED <<owner, device, parent>>,
           usable' \subseteq usable
    PROVE  /\ StoreInv' /\ Grown /\ Spent' = Spent /\ Foreign("phone") /\ Foreign("web")
           /\ \A t \in S \cap Tokens : row'[t] # "active"
<1>1. \A t \in Tokens : row'[t] = IF t \in S /\ row[t] = "active" THEN "revoked" ELSE row[t]
  BY DEF RevokeRows
<1>2. StoreType'
  BY DEF RevokeRows, StoreInv, StoreType
<1>3. Spent' = Spent
  BY DEF Spent
<1>4. Lineage'
  BY <1>1, TokenAssumption DEF Lineage, StoreInv, StoreType
<1> QED BY <1>1, <1>2, <1>3, <1>4 DEF StoreInv, Grown, Foreign, StoreType

\* What is lost stays lost, and is a token.
LEMMA LoseKeeps ==
    ASSUME lost \subseteq Tokens, NEW S \in SUBSET (Tokens \cup {NoToken}), Lose(S)
    PROVE  lost \subseteq lost' /\ lost' \subseteq Tokens /\ S \ {NoToken} \subseteq lost'
BY TokenAssumption DEF Lose

\* A step that spends an event leaves a budget.
LEMMA SpendKeeps ==
    ASSUME budget \in [Events -> Nat], NEW e \in Events, Spend(e)
    PROVE  budget' \in [Events -> Nat]
BY DEF Spend

-----------------------------------------------------------------------------
(* Steps of the others *)

\* What another device does to the server leaves the phone's invariant alone.
LEMMA PhoneUndisturbed ==
    ASSUME StoreInv, StoreInv', PhoneInv, UNCHANGED phoneVars,
           Grown, Foreign("phone"), lost \subseteq lost'
    PROVE  PhoneInv'
<1> USE TokenAssumption
<1>1. /\ session' = session /\ saved' = saved /\ shared' = shared /\ call' = call
      /\ request' = request /\ restoring' = restoring /\ login' = login
      /\ revocations' = revocations
  BY DEF phoneVars
<1>2. PhoneTypeOK'
  BY <1>1 DEF PhoneInv, PhoneTypeOK, MaybeToken
<1>3. \A t \in MaybeToken : Of(t, "phone") =>
         /\ t # NoToken => row'[t] # "none" /\ device'[t] = "phone" /\ owner'[t] = owner[t]
         /\ t # NoToken /\ row[t] = "revoked" => row'[t] = "revoked"
         /\ t \in Spent' => t \in Spent
  BY DEF Of, Grown, Foreign, MaybeToken, StoreInv, StoreType, Spent
<1>4. /\ session.refresh \in MaybeToken /\ session.access \in MaybeToken
      /\ saved.refresh \in MaybeToken /\ login.token \in MaybeToken
      /\ \A c \in Calls : call[c].token \in MaybeToken /\ call[c].new \in MaybeToken
      /\ \A q \in Requests : request[q].token \in MaybeToken
      /\ \A x \in revocations : x.refresh \in MaybeToken
  BY DEF PhoneInv, PhoneTypeOK
<1>5. PhoneTokens'
  BY <1>1, <1>3, <1>4 DEF PhoneInv, PhoneTokens, Of
<1>6. Ownership'
  <2>1. \A t \in MaybeToken : \A a :
          Of(t, "phone") /\ OwnedBy(t, a) => (t # NoToken => owner'[t] = a)
    BY <1>3 DEF OwnedBy
  <2>2. /\ OwnedBy(session.refresh, session.user)' /\ OwnedBy(session.access, session.user)'
        /\ OwnedBy(saved.refresh, saved.user)' /\ OwnedBy(login.token, login.account)'
    BY <1>1, <1>4, <2>1 DEF PhoneInv, Ownership, PhoneTokens, OwnedBy
  <2>3. \A c \in Calls :
          call[c].new # NoToken => owner'[call[c].new] = owner'[call[c].token]
    BY <1>3, <1>4 DEF PhoneInv, Ownership, PhoneTokens, Shapes
  <2>4. \A q \in Requests : OfSession(q) =>
           (request[q].token # NoToken => owner'[request[q].token] = session.user)
    BY <1>4, <2>1 DEF PhoneInv, Ownership, PhoneTokens
  <2> QED BY <1>1, <2>2, <2>3, <2>4 DEF PhoneInv, Ownership, OwnedBy, OfSession
<1>7. Shapes'
  BY <1>1, <1>3, <1>4 DEF PhoneInv, Shapes, PhoneTokens
<1>8. Waiting'
  BY <1>1 DEF PhoneInv, Waiting, Wanted, Awaited
<1>9. Exclusive'
  BY <1>1, <1>3, <1>4 DEF PhoneInv, Exclusive, Unseen, PhoneTokens
<1>10. Unspent'
  BY <1>1, <1>3, <1>4 DEF PhoneInv, Unspent, Retired, PhoneTokens
<1>11. Covered'
  BY <1>1 DEF PhoneInv, Covered, Known, Foreign
<1> QED BY <1>2, <1>5, <1>6, <1>7, <1>8, <1>9, <1>10, <1>11 DEF PhoneInv

\* Nor does it, or a step that moves no token in the browser, disturb the
\* browser's.
LEMMA WebUndisturbed ==
    ASSUME StoreInv, StoreInv', WebInv, UNCHANGED <<jar, renew, form>>, WebTypeOK',
           \A b \in Tabs : ~tab'[b].open => ask'[b].pc = "idle" /\ renew[b].pc = "idle",
           Grown, Foreign("web"), lost \subseteq lost'
    PROVE  WebInv'
<1> USE TokenAssumption
<1>1. \A t \in Pair : Of(t, "web") =>
         /\ t # NoToken => row'[t] # "none" /\ device'[t] = "web"
         /\ t \in Spent' => t \in Spent
  BY DEF Of, Grown, Foreign, Pair, StoreInv, StoreType, Spent
<1>2. /\ jar \in Pair
      /\ \A b \in Tabs : /\ renew[b].token \in Pair /\ renew[b].new \in Pair
                         /\ form[b].token \in Pair
  BY DEF WebInv, WebTypeOK
<1>3. WebTokens'
  BY <1>1, <1>2 DEF WebInv, WebTokens, Of
<1>4. WebShapes'
  BY DEF WebInv, WebShapes, Holding
<1>5. WebExclusive'
  BY <1>1, <1>2 DEF WebInv, WebExclusive, WebUnseen, WebTokens
<1>6. WebUnspent'
  BY <1>1, <1>2 DEF WebInv, WebUnspent, Retired, WebTokens
<1> QED BY <1>3, <1>4, <1>5, <1>6 DEF WebInv

\* What the other client may rely on in a step.
Apart(d) ==
    /\ StoreInv' /\ ServerTypeOK' /\ Grown /\ Foreign(d) /\ lost \subseteq lost'

\* The server's part of a step that stores nothing.
LEMMA NothingStored ==
    ASSUME ServerTypeOK, Lineage, UNCHANGED store,
           lost \subseteq lost', lost' \subseteq Tokens, budget' \in [Events -> Nat]
    PROVE  Apart("phone") /\ Apart("web") /\ Spent' = Spent /\ StoreInv
<1>1. StoreInv
  BY DEF StoreInv, StoreType, ServerTypeOK
<1> QED BY <1>1, StoreKept DEF Apart, StoreInv, StoreType, ServerTypeOK

-----------------------------------------------------------------------------
(* The phone's steps: requests *)

\* A request that is not waiting before or after a step moves no token.
LEMMA RequestMoves ==
    ASSUME PhoneInv, ServerTypeOK, Lineage, UNCHANGED <<store, lost>>,
           UNCHANGED <<session, saved, shared, call, restoring, login, revocations>>,
           NEW q \in Requests, request[q].pc # "waiting",
           \A p \in Requests \ {q} : request'[p] = request[p],
           PhoneTypeOK', request'[q].pc # "waiting", Of(request'[q].token, "phone"),
           request'[q].version <= session.version,
           request'[q].pc # "idle" /\ request'[q].version = session.version
             => session.user # NoOne /\ OwnedBy(request'[q].token, session.user)
    PROVE  PhoneInv'
<1>1. row' = row /\ owner' = owner /\ device' = device /\ Spent' = Spent
  BY DEF store, Spent
<1>2. PhoneTokens'
  BY <1>1 DEF PhoneInv, PhoneTokens, Of
<1>3. Ownership'
  BY <1>1 DEF PhoneInv, Ownership, OwnedBy, OfSession
<1>4. Shapes'
  BY <1>1 DEF PhoneInv, Shapes
<1>5. \A c : Wanted(c)' = Wanted(c) /\ Awaited(c)' = Awaited(c)
  BY DEF Wanted, Awaited
<1>6. Waiting'
  BY <1>5 DEF PhoneInv, Waiting
<1>7. Exclusive' /\ Unspent' /\ Covered'
  BY <1>1 DEF PhoneInv, Exclusive, Unseen, Unspent, Retired, Covered, Known
<1> QED BY <1>2, <1>3, <1>4, <1>6, <1>7 DEF PhoneInv

LEMMA RequestSteps ==
    ASSUME PhoneInv, ServerTypeOK, Lineage, NEW q \in Requests,
           RequestSend(q) \/ RequestServe(q) \/ RequestLost(q) \/ Deliver(q) \/ Reject(q)
    PROVE  PhoneInv' /\ Apart("web")
<1>1. /\ UNCHANGED <<store, lost>> /\ budget' \in [Events -> Nat]
      /\ UNCHANGED <<session, saved, shared, call, restoring, login, revocations>>
  BY SpendKeeps DEF RequestSend, RequestServe, RequestLost, Deliver, Reject, serverVars,
                    ServerTypeOK, Events
<1>2. Apart("web")
  BY <1>1, NothingStored DEF ServerTypeOK
<1>3. CASE request' = [request EXCEPT ![q] = IdleRequest] /\ request[q].pc # "waiting"
  <2>1. PhoneTypeOK'
    BY <1>1, <1>3 DEF PhoneInv, PhoneTypeOK, MaybeToken, IdleRequest
  <2>2. /\ \A p \in Requests \ {q} : request'[p] = request[p]
        /\ request'[q].pc = "idle" /\ Of(request'[q].token, "phone")
        /\ request'[q].version <= session.version
    BY <1>3 DEF PhoneInv, PhoneTypeOK, IdleRequest, Of
  <2> QED BY <1>1, <1>3, <2>1, <2>2, <1>2, RequestMoves
<1>4. CASE RequestSend(q)
  <2>1. /\ request' = [request EXCEPT ![q] = [pc |-> "sent", token |-> session.access,
                         version |-> session.version, retried |-> FALSE, call |-> NoCall]]
        /\ request[q].pc = "idle" /\ session.user # NoOne
    BY <1>4 DEF RequestSend, Stamped
  <2>2. PhoneTypeOK'
    BY <1>1, <2>1 DEF PhoneInv, PhoneTypeOK, MaybeToken
  <2>3. /\ \A p \in Requests \ {q} : request'[p] = request[p]
        /\ request'[q].pc = "sent" /\ request'[q].token = session.access
        /\ request'[q].version = session.version /\ session.version \in Nat
    BY <2>1 DEF PhoneInv, PhoneTypeOK
  <2>4. Of(session.access, "phone") /\ OwnedBy(session.access, session.user)
    BY DEF PhoneInv, PhoneTokens, Ownership
  <2> QED BY <1>1, <2>1, <2>2, <2>3, <2>4, <1>2, RequestMoves
<1>5. CASE RequestServe(q)
  <2>1. /\ request' = [request EXCEPT ![q].pc =
                         IF request[q].token \in usable THEN "ok" ELSE "denied"]
        /\ request[q].pc = "sent"
    BY <1>5 DEF RequestServe
  <2>2. PhoneTypeOK'
    BY <1>1, <2>1 DEF PhoneInv, PhoneTypeOK, MaybeToken
  <2>3. /\ \A p \in Requests \ {q} : request'[p] = request[p]
        /\ request'[q].pc # "waiting" /\ request'[q].token = request[q].token
        /\ request'[q].version = request[q].version
    BY <2>1 DEF PhoneInv, PhoneTypeOK
  <2>4. /\ Of(request[q].token, "phone") /\ request[q].version <= session.version
        /\ request[q].version = session.version
             => session.user # NoOne /\ OwnedBy(request[q].token, session.user)
    BY <2>1 DEF PhoneInv, PhoneTokens, Ownership, OfSession
  <2> QED BY <1>1, <2>1, <2>2, <2>3, <2>4, <1>2, RequestMoves
<1>6. CASE RequestLost(q)
  BY <1>3, <1>6 DEF RequestLost, RequestDone
<1>7. CASE Deliver(q)
  BY <1>3, <1>7 DEF Deliver, RequestDone
<1>8. CASE Reject(q)
  BY <1>3, <1>8 DEF Reject, RequestDone
<1> QED BY <1>2, <1>4, <1>5, <1>6, <1>7, <1>8

-----------------------------------------------------------------------------
(* The phone's steps: store, login and logout *)

LEMMA PersistKeeps ==
    ASSUME PhoneInv, ServerTypeOK, Lineage, Persist
    PROVE  PhoneInv' /\ Apart("web")
<1>1. /\ saved' = [user |-> session.user, refresh |-> session.refresh]
      /\ UNCHANGED <<session, shared, call, request, restoring, login, revocations>>
      /\ UNCHANGED <<store, lost, budget>>
  BY DEF Persist, Persistent, serverVars
<1>2. Apart("web") /\ Spent' = Spent
  BY <1>1, NothingStored DEF ServerTypeOK
<1>3. PhoneTypeOK' /\ PhoneTokens' /\ Ownership' /\ Shapes'
  BY <1>1 DEF PhoneInv, PhoneTypeOK, MaybeToken, PhoneTokens, Of, Ownership, OwnedBy,
              OfSession, Shapes, store
<1>4. Waiting'
  BY <1>1 DEF PhoneInv, Waiting, Wanted, Awaited
<1>5. Exclusive' /\ Unspent' /\ Covered'
  BY <1>1, <1>2 DEF PhoneInv, Exclusive, Unseen, Unspent, Retired, Covered, Known, store
<1> QED BY <1>2, <1>3, <1>4, <1>5 DEF PhoneInv

LEMMA LoginSendKeeps ==
    ASSUME PhoneInv, ServerTypeOK, Lineage, NEW a \in Accounts, LoginSend(a)
    PROVE  PhoneInv' /\ Apart("web")
<1>1. /\ login' = [pc |-> "sent", account |-> a, token |-> NoToken] /\ shared' = NoShared
      /\ UNCHANGED <<session, saved, call, request, restoring, revocations, store, lost>>
      /\ budget' \in [Events -> Nat] /\ login.pc = "idle"
  BY SpendKeeps DEF LoginSend, ServerTypeOK, Events
<1>2. Apart("web") /\ Spent' = Spent
  BY <1>1, NothingStored DEF ServerTypeOK
<1>3. login.token = NoToken
  BY <1>1 DEF PhoneInv, Shapes
<1>4. PhoneTypeOK' /\ PhoneTokens' /\ Ownership' /\ Shapes'
  BY <1>1 DEF PhoneInv, PhoneTypeOK, MaybeToken, PhoneTokens, Of, Ownership, OwnedBy,
              OfSession, Shapes, store, NoShared
<1>5. Waiting'
  BY <1>1 DEF PhoneInv, PhoneTypeOK, Waiting, Wanted, Awaited, NoShared
<1>6. Exclusive' /\ Unspent'
  BY <1>1, <1>2 DEF PhoneInv, Exclusive, Unseen, Unspent, Retired, store
<1>7. Covered'
  BY <1>1, <1>3, TokenAssumption DEF PhoneInv, Covered, Known, store
<1> QED BY <1>2, <1>4, <1>5, <1>6, <1>7 DEF PhoneInv

LEMMA LoginServeKeeps ==
    ASSUME PhoneInv, ServerTypeOK, Lineage, NEW t \in Tokens, LoginServe(t)
    PROVE  PhoneInv' /\ Apart("web")
<1> USE TokenAssumption
<1>1. /\ login.pc = "sent" /\ Issue(t, login.account, "phone")
      /\ login' = [login EXCEPT !.pc = "issued", !.token = t]
      /\ UNCHANGED <<session, saved, shared, call, request, restoring, revocations>>
      /\ UNCHANGED <<lost, budget>>
  BY DEF LoginServe
<1>2. StoreInv /\ login.account \in Accounts /\ "phone" \in Devices /\ "web" \in Devices
  BY <1>1 DEF ServerTypeOK, StoreInv, StoreType, PhoneInv, Shapes, Devices
<1>3. /\ StoreInv' /\ Grown /\ Spent' = Spent
      /\ row[t] = "none" /\ row' = [row EXCEPT ![t] = "active"] /\ row'[t] = "active"
      /\ owner'[t] = login.account /\ device'[t] = "phone" /\ t \notin Spent
      /\ Foreign("web")
  BY <1>1, <1>2, IssueKeeps
<1>4. Apart("web")
  BY <1>1, <1>3 DEF Apart, ServerTypeOK, StoreInv, StoreType
<1>5. \A u \in MaybeToken : Of(u, "phone") => Of(u, "phone")' /\ u # t
                                              /\ (u # NoToken => owner'[u] = owner[u])
  BY <1>3 DEF Of, Grown, MaybeToken
<1>6. /\ session.refresh \in MaybeToken /\ session.access \in MaybeToken
      /\ saved.refresh \in MaybeToken
      /\ \A c \in Calls : call[c].token \in MaybeToken /\ call[c].new \in MaybeToken
      /\ \A q \in Requests : request[q].token \in MaybeToken
      /\ \A x \in revocations : x.refresh \in MaybeToken
      /\ login' = [pc |-> "issued", account |-> login.account, token |-> t]
      /\ t # NoToken
  BY <1>1 DEF PhoneInv, PhoneTypeOK
<1>7. PhoneTypeOK'
  BY <1>1, <1>6 DEF PhoneInv, PhoneTypeOK, MaybeToken
<1>8. PhoneTokens'
  BY <1>1, <1>3, <1>5, <1>6 DEF PhoneInv, PhoneTokens, Of
<1>9. Ownership'
  BY <1>1, <1>3, <1>5, <1>6 DEF PhoneInv, PhoneTokens, Ownership, OwnedBy, OfSession, Shapes
<1>10. Shapes'
  BY <1>1, <1>2, <1>3, <1>5, <1>6 DEF PhoneInv, PhoneTokens, Shapes, Grown, MaybeToken
<1>11. Waiting'
  BY <1>1 DEF PhoneInv, Waiting, Wanted, Awaited
<1>12. Exclusive' /\ Unspent'
  BY <1>1, <1>3, <1>5, <1>6 DEF PhoneInv, PhoneTokens, Exclusive, Unseen, Unspent, Retired
<1>13. Covered'
  <2>1. \A u \in Tokens : row'[u] = "active" /\ u # t => row[u] = "active"
    BY <1>3 DEF StoreInv, StoreType
  <2>2. login.token = NoToken
    BY <1>1 DEF PhoneInv, Shapes
  <2>3. ASSUME NEW u \in Tokens, row'[u] = "active", device'[u] = "phone" PROVE Known(u)'
    <3>1. CASE u = t
      BY <1>6, <3>1 DEF Known
    <3>2. CASE u # t
      <4>1. row[u] = "active" /\ device[u] = "phone"
        BY <1>3, <2>1, <2>3, <3>2 DEF Grown
      <4> QED BY <1>1, <2>2, <4>1 DEF PhoneInv, Covered, Known
    <3> QED BY <3>1, <3>2
  <2> QED BY <2>3 DEF Covered
<1> QED BY <1>4, <1>7, <1>8, <1>9, <1>10, <1>11, <1>12, <1>13 DEF PhoneInv

LEMMA LoginReceiveKeeps ==
    ASSUME PhoneInv, ServerTypeOK, Lineage, LoginReceive
    PROVE  PhoneInv' /\ Apart("web")
<1> USE TokenAssumption
<1>1. /\ login.pc = "issued" /\ login' = NoLogin /\ shared' = NoShared
      /\ session' = [user |-> login.account, refresh |-> login.token,
                     access |-> login.token, version |-> session.version + 1]
      /\ Lose({session.refresh})
      /\ UNCHANGED <<saved, call, request, restoring, revocations, store, budget>>
  BY DEF LoginReceive, SetSession
<1>2. /\ session.refresh \in MaybeToken /\ login.token \in MaybeToken
      /\ login.account \in Accounts /\ login.token # NoToken /\ session.version \in Nat
  BY <1>1 DEF PhoneInv, PhoneTypeOK, Shapes
<1>3. lost \subseteq lost' /\ lost' \subseteq Tokens
      /\ (session.refresh # NoToken => session.refresh \in lost')
  <2>1. {session.refresh} \in SUBSET (Tokens \cup {NoToken})
    BY <1>2 DEF MaybeToken
  <2> QED BY <1>1, <2>1, LoseKeeps DEF ServerTypeOK
<1>4. Apart("web") /\ Spent' = Spent
  BY <1>1, <1>3, NothingStored DEF ServerTypeOK
<1>5. PhoneTypeOK'
  BY <1>1, <1>2 DEF PhoneInv, PhoneTypeOK, MaybeToken, NoLogin, NoShared
<1>6. PhoneTokens'
  BY <1>1 DEF PhoneInv, PhoneTokens, Of, store, NoLogin
<1>7. \A q \in Requests : /\ request'[q].version # session'.version
                          /\ request'[q].version <= session'.version
  BY <1>1, <1>2 DEF PhoneInv, PhoneTypeOK, Ownership
<1>8. Ownership'
  BY <1>1, <1>2, <1>7 DEF PhoneInv, PhoneTypeOK, Ownership, OwnedBy, OfSession, store, NoLogin
<1>9. Shapes'
  BY <1>1 DEF PhoneInv, Shapes, store, NoLogin
<1>10. Waiting'
  <2>1. \A c : ~Wanted(c)' /\ Awaited(c)' = Awaited(c)
    BY <1>1, <1>7 DEF Wanted, Awaited
  <2>2. \A c \in Calls : call[c].token # login.token
    BY <1>2 DEF PhoneInv, Exclusive, Unseen
  <2> QED BY <1>1, <1>2, <2>1, <2>2 DEF PhoneInv, Waiting, NoShared
<1>11. Exclusive' /\ Unspent'
  BY <1>1, <1>2, <1>3, <1>4 DEF PhoneInv, Exclusive, Unseen, Unspent, Retired, NoLogin
<1>12. Covered'
  BY <1>1, <1>3 DEF PhoneInv, Covered, Known, store
<1> QED BY <1>4, <1>5, <1>6, <1>8, <1>9, <1>10, <1>11, <1>12 DEF PhoneInv

LEMMA LoginLostKeeps ==
    ASSUME PhoneInv, ServerTypeOK, Lineage, LoginLost
    PROVE  PhoneInv' /\ Apart("web")
<1> USE TokenAssumption
<1>1. /\ login' = NoLogin /\ Lose({login.token}) /\ budget' \in [Events -> Nat]
      /\ UNCHANGED <<session, saved, shared, call, request, restoring, revocations, store>>
  BY SpendKeeps DEF LoginLost, ServerTypeOK, Events
<1>2. login.token \in MaybeToken
  BY DEF PhoneInv, PhoneTypeOK
<1>3. lost \subseteq lost' /\ lost' \subseteq Tokens
      /\ (login.token # NoToken => login.token \in lost')
  <2>1. {login.token} \in SUBSET (Tokens \cup {NoToken})
    BY <1>2 DEF MaybeToken
  <2> QED BY <1>1, <2>1, LoseKeeps DEF ServerTypeOK
<1>4. Apart("web") /\ Spent' = Spent
  BY <1>1, <1>3, NothingStored DEF ServerTypeOK
<1>5. PhoneTypeOK' /\ PhoneTokens' /\ Ownership' /\ Shapes'
  BY <1>1 DEF PhoneInv, PhoneTypeOK, MaybeToken, PhoneTokens, Of, Ownership, OwnedBy,
              OfSession, Shapes, store, NoLogin
<1>6. Waiting'
  BY <1>1 DEF PhoneInv, Waiting, Wanted, Awaited
<1>7. Exclusive' /\ Unspent' /\ Covered'
  BY <1>1, <1>3, <1>4 DEF PhoneInv, Exclusive, Unseen, Unspent, Retired, Covered, Known,
                          store, NoLogin
<1> QED BY <1>4, <1>5, <1>6, <1>7 DEF PhoneInv

\* A session that ends, its token taken over by the set of revocations or by
\* the set of what is lost.
LEMMA SessionEnds ==
    ASSUME PhoneInv, ServerTypeOK, Lineage, UNCHANGED store, lost \subseteq lost',
           session' = SignedOut(session.version + 1),
           UNCHANGED <<saved, call, restoring, login>>,
           revocations \subseteq revocations', PhoneTypeOK',
           \A x \in revocations' : x \in revocations \/ x.refresh = session.refresh,
           session.refresh # NoToken
             => session.refresh \in lost' \/ \E x \in revocations' : x.refresh = session.refresh,
           \A q \in Requests : request'[q] = request[q]
                                 \/ (request[q].pc # "waiting" /\ request'[q] = IdleRequest),
           shared'.version <= session.version \/ shared'.version = 0
    PROVE  PhoneInv'
<1> USE TokenAssumption
<1>1. /\ session'.user = NoOne /\ session'.refresh = NoToken /\ session'.access = NoToken
      /\ session'.version = session.version + 1 /\ session.version \in Nat
      /\ shared'.version \in Nat /\ Spent' = Spent
  BY DEF SignedOut, PhoneInv, PhoneTypeOK, store, Spent
<1>2. \A q \in Requests : /\ request'[q].version # session'.version
                          /\ request'[q].version <= session'.version
  BY <1>1 DEF PhoneInv, PhoneTypeOK, Ownership, IdleRequest
<1>3. PhoneTokens'
  BY <1>1 DEF PhoneInv, PhoneTokens, Of, store, IdleRequest
<1>4. Ownership'
  BY <1>1, <1>2 DEF PhoneInv, PhoneTypeOK, Ownership, OwnedBy, OfSession, store
<1>5. Shapes'
  BY DEF PhoneInv, Shapes, store, IdleRequest
<1>6. Waiting'
  <2>1. \A c : ~Wanted(c)' /\ Awaited(c)' = Awaited(c)
    BY <1>2 DEF Wanted, Awaited, IdleRequest
  <2>2. shared'.version < session'.version
    BY <1>1
  <2>3. \A c \in Calls : call[c].pc # "idle" => call[c].token # NoToken
    BY DEF PhoneInv, Shapes
  <2> QED BY <1>1, <2>1, <2>2, <2>3 DEF PhoneInv, PhoneTypeOK, Waiting
<1>7. Exclusive' /\ Unspent'
  BY <1>1 DEF PhoneInv, Exclusive, Unseen, Unspent, Retired, Spent
<1>8. Covered'
  BY <1>1 DEF PhoneInv, Covered, Known, store
<1> QED BY <1>3, <1>4, <1>5, <1>6, <1>7, <1>8 DEF PhoneInv

LEMMA SignOutKeeps ==
    ASSUME PhoneInv, ServerTypeOK, Lineage, SignOut
    PROVE  PhoneInv' /\ Apart("web")
<1>1. /\ session' = SignedOut(session.version + 1) /\ shared' = NoShared
      /\ revocations' = revocations \cup
           {[access |-> session.access, refresh |-> session.refresh]}
      /\ UNCHANGED <<saved, call, request, restoring, login, store, lost>>
      /\ budget' \in [Events -> Nat]
  BY SpendKeeps DEF SignOut, ClearSession, ServerTypeOK, Events
<1>2. Apart("web")
  BY <1>1, NothingStored DEF ServerTypeOK
<1>3. PhoneTypeOK'
  BY <1>1 DEF PhoneInv, PhoneTypeOK, MaybeToken, SignedOut, NoShared
<1> DEFINE taken == [access |-> session.access, refresh |-> session.refresh]
<1>4. shared'.version = 0 /\ taken.refresh = session.refresh
  BY <1>1 DEF NoShared
<1>5. taken \in revocations' /\ revocations' = revocations \cup {taken}
  BY <1>1
<1> HIDE DEF taken
<1>6. /\ \E x \in revocations' : x.refresh = session.refresh
      /\ \A x \in revocations' : x \in revocations \/ x.refresh = session.refresh
  BY <1>4, <1>5
<1>7. \A q \in Requests : request'[q] = request[q]
  BY <1>1
<1> QED BY <1>1, <1>2, <1>3, <1>4, <1>5, <1>6, <1>7, SessionEnds

LEMMA OutdatedKeeps ==
    ASSUME PhoneInv, ServerTypeOK, Lineage, NEW q \in Requests, Outdated(q)
    PROVE  PhoneInv' /\ Apart("web")
<1> USE TokenAssumption
<1>1. /\ session' = SignedOut(session.version + 1) /\ Lose({session.refresh})
      /\ shared' = [shared EXCEPT !.call = NoCall] /\ request[q].pc = "sent"
      /\ request' = [request EXCEPT ![q] = IdleRequest]
      /\ UNCHANGED <<saved, call, restoring, login, revocations, store>>
      /\ budget' \in [Events -> Nat]
  BY SpendKeeps DEF Outdated, ClearSession, RequestDone, ServerTypeOK, Events
<1>2. session.refresh \in MaybeToken
  BY DEF PhoneInv, PhoneTypeOK
<1>3. lost \subseteq lost' /\ lost' \subseteq Tokens
      /\ (session.refresh # NoToken => session.refresh \in lost')
  <2>1. {session.refresh} \in SUBSET (Tokens \cup {NoToken})
    BY <1>2 DEF MaybeToken
  <2> QED BY <1>1, <2>1, LoseKeeps DEF ServerTypeOK
<1>4. Apart("web")
  BY <1>1, <1>3, NothingStored DEF ServerTypeOK
<1>5. PhoneTypeOK'
  BY <1>1 DEF PhoneInv, PhoneTypeOK, MaybeToken, SignedOut, IdleRequest
<1>6. \A p \in Requests : request'[p] = request[p]
                            \/ (request[p].pc # "waiting" /\ request'[p] = IdleRequest)
  <2>1. DOMAIN request = Requests
    BY DEF PhoneInv, PhoneTypeOK
  <2>2. request'[q] = IdleRequest /\ \A p \in Requests \ {q} : request'[p] = request[p]
    BY <1>1, <2>1
  <2> QED BY <1>1, <2>2
<1>7. shared'.version <= session.version
  BY <1>1 DEF PhoneInv, PhoneTypeOK, Waiting
<1> QED BY <1>1, <1>3, <1>4, <1>5, <1>6, <1>7, SessionEnds

LEMMA RevocationServeKeeps ==
    ASSUME PhoneInv, ServerTypeOK, Lineage, NEW x \in revocations, RevocationServe(x)
    PROVE  PhoneInv' /\ Apart("web")
<1> USE TokenAssumption
<1>1. /\ RevokeRows({x.refresh}) /\ usable' = usable \ {x.access}
      /\ UNCHANGED <<owner, device, parent>> /\ revocations' = revocations \ {x}
      /\ UNCHANGED <<session, saved, shared, call, request, restoring, login, lost, budget>>
  BY DEF RevocationServe, Logout
<1>2. StoreInv
  BY DEF StoreInv, StoreType, ServerTypeOK
<1>3. /\ StoreInv' /\ Grown /\ Spent' = Spent /\ Foreign("phone") /\ Foreign("web")
      /\ \A t \in {x.refresh} \cap Tokens : row'[t] # "active"
  BY <1>1, <1>2, RevokeKeeps
<1>4. Apart("web")
  BY <1>1, <1>3 DEF Apart, ServerTypeOK, StoreInv, StoreType
<1>5. \A t \in MaybeToken : Of(t, "phone") =>
         /\ t # NoToken => row'[t] # "none" /\ device'[t] = "phone"
         /\ t # NoToken /\ row[t] = "revoked" => row'[t] = "revoked"
  BY <1>1, <1>3 DEF Of, Grown, MaybeToken
<1>6. PhoneTypeOK'
  BY <1>1 DEF PhoneInv, PhoneTypeOK, MaybeToken
<1>7. PhoneTokens'
  <2>1. /\ session.refresh \in MaybeToken /\ session.access \in MaybeToken
        /\ saved.refresh \in MaybeToken /\ login.token \in MaybeToken
        /\ \A c \in Calls : call[c].token \in MaybeToken /\ call[c].new \in MaybeToken
        /\ \A q \in Requests : request[q].token \in MaybeToken
        /\ \A y \in revocations : y.refresh \in MaybeToken
    BY DEF PhoneInv, PhoneTypeOK
  <2> QED BY <1>1, <1>5, <2>1 DEF PhoneInv, PhoneTokens, Of
<1>8. Ownership'
  BY <1>1 DEF PhoneInv, Ownership, OwnedBy, OfSession
<1>9. Shapes'
  <2>1. \A c \in Calls : call[c].token \in MaybeToken /\ Of(call[c].token, "phone")
    BY DEF PhoneInv, PhoneTypeOK, PhoneTokens
  <2> QED BY <1>1, <1>5, <2>1 DEF PhoneInv, Shapes
<1>10. Waiting'
  BY <1>1 DEF PhoneInv, Waiting, Wanted, Awaited
<1>11. Exclusive' /\ Unspent'
  BY <1>1, <1>3 DEF PhoneInv, Exclusive, Unseen, Unspent, Retired
<1>12. Covered'
  BY <1>1, <1>3 DEF PhoneInv, Covered, Known, Foreign
<1> QED BY <1>4, <1>6, <1>7, <1>8, <1>9, <1>10, <1>11, <1>12 DEF PhoneInv

LEMMA RevocationLostKeeps ==
    ASSUME PhoneInv, ServerTypeOK, Lineage, NEW x \in revocations, RevocationLost(x)
    PROVE  PhoneInv' /\ Apart("web")
<1> USE TokenAssumption
<1>1. /\ Lose({x.refresh}) /\ budget' \in [Events -> Nat] /\ revocations' = revocations \ {x}
      /\ UNCHANGED <<session, saved, shared, call, request, restoring, login, store>>
  BY SpendKeeps DEF RevocationLost, ServerTypeOK, Events
<1>2. x.refresh \in MaybeToken
  BY DEF PhoneInv, PhoneTypeOK
<1>3. lost \subseteq lost' /\ lost' \subseteq Tokens
      /\ (x.refresh # NoToken => x.refresh \in lost')
  <2>1. {x.refresh} \in SUBSET (Tokens \cup {NoToken})
    BY <1>2 DEF MaybeToken
  <2> QED BY <1>1, <2>1, LoseKeeps DEF ServerTypeOK
<1>4. Apart("web") /\ Spent' = Spent
  BY <1>1, <1>3, NothingStored DEF ServerTypeOK
<1>5. PhoneTypeOK' /\ PhoneTokens' /\ Ownership' /\ Shapes'
  BY <1>1 DEF PhoneInv, PhoneTypeOK, MaybeToken, PhoneTokens, Of, Ownership, OwnedBy,
              OfSession, Shapes, store
<1>6. Waiting'
  BY <1>1 DEF PhoneInv, Waiting, Wanted, Awaited
<1>7. Exclusive' /\ Unspent' /\ Covered'
  BY <1>1, <1>3, <1>4 DEF PhoneInv, Exclusive, Unseen, Unspent, Retired, Covered, Known, store
<1> QED BY <1>4, <1>5, <1>6, <1>7 DEF PhoneInv

-----------------------------------------------------------------------------
(* The phone's steps: refreshing *)

\* The token of each record of the phone is a token of the model.
LEMMA PhoneTyped ==
    ASSUME PhoneInv
    PROVE  /\ session.refresh \in MaybeToken /\ session.access \in MaybeToken
           /\ saved.refresh \in MaybeToken /\ login.token \in MaybeToken
           /\ \A c \in Calls : call[c].token \in MaybeToken /\ call[c].new \in MaybeToken
           /\ \A q \in Requests : request[q].token \in MaybeToken
           /\ \A x \in revocations : x.refresh \in MaybeToken
           /\ session.version \in Nat /\ NoToken \notin Tokens
BY TokenAssumption DEF PhoneInv, PhoneTypeOK

\* A refused request waits for a call that carries the session's token.
LEMMA UnauthorizedKeeps ==
    ASSUME PhoneInv, ServerTypeOK, Lineage, NEW q \in Requests, NEW c \in Calls,
           Unauthorized(q, c)
    PROVE  PhoneInv' /\ Apart("web")
<1> DEFINE T == session.refresh
<1>1. /\ request[q].pc = "denied" /\ request[q].version = session.version
      /\ shared' = [call |-> c, version |-> session.version]
      /\ request' = [request EXCEPT ![q].pc = "waiting", ![q].call = c]
      /\ UNCHANGED <<session, saved, restoring, login, revocations>>
      /\ UNCHANGED <<store, lost, budget>>
  BY DEF Unauthorized, Current, serverVars
<1>2. Apart("web") /\ Spent' = Spent
  BY <1>1, NothingStored DEF ServerTypeOK
<1>3. T # NoToken /\ T \in MaybeToken /\ Of(T, "phone") /\ session.user # NoOne
  BY <1>1, PhoneTyped DEF PhoneInv, Ownership, OfSession, PhoneTokens
<1>4. \/ call' = call /\ call[c].pc # "idle" /\ call[c].token = T
      \/ /\ call' = [call EXCEPT ![c] = [pc |-> "sent", token |-> T, new |-> NoToken]]
         /\ call[c].pc = "idle"
         /\ \A d \in Calls : call[d].pc # "idle" => call[d].token # T
  <2>1. CASE Joins # {}
    <3>1. call' = call /\ c \in Joins
      BY <2>1 DEF Unauthorized
    <3>2. CASE shared.call # NoCall /\ shared.version = session.version
      <4>1. c = shared.call
        BY <3>1, <3>2 DEF Joins
      <4>2. Wanted(c)
        BY <3>2, <4>1 DEF PhoneInv, Waiting
      <4>3. call[c].pc # "idle"
        BY <4>2 DEF Wanted, PhoneInv, Shapes
      <4> QED BY <3>1, <4>2, <4>3 DEF PhoneInv, Waiting
    <3>3. CASE ~(shared.call # NoCall /\ shared.version = session.version)
      BY <3>1, <3>3 DEF Joins
    <3> QED BY <3>2, <3>3
  <2>2. CASE Joins = {}
    <3>1. call' = Started(c, T) /\ call[c].pc = "idle"
      BY <2>2 DEF Unauthorized, IsFree
    <3>2. \A d \in Calls : call[d].pc # "idle" => call[d].token # T
      BY <2>2 DEF Joins
    <3> QED BY <3>1, <3>2 DEF Started
  <2> QED BY <2>1, <2>2
<1>5. /\ \A d \in Calls : d # c => call'[d] = call[d]
      /\ call'[c].pc # "idle" /\ call'[c].token = T
      /\ call'[c].pc = "rotated" <=> call'[c].new # NoToken
      /\ \A d \in Calls : call'[d].new = call[d].new
  BY SMTT(20), <1>4 DEF PhoneInv, PhoneTypeOK, Shapes
<1>6. /\ \A p \in Requests : p # q => request'[p] = request[p]
      /\ request'[q].pc = "waiting" /\ request'[q].call = c
      /\ request'[q].token = request[q].token /\ request'[q].version = session.version
  BY <1>1 DEF PhoneInv, PhoneTypeOK
<1>7. PhoneTypeOK'
  <2>1. call' \in [Calls -> [pc : {"idle", "sent", "rotated", "refused"},
                             token : MaybeToken, new : MaybeToken]]
    BY <1>3, <1>4 DEF PhoneInv, PhoneTypeOK, MaybeToken
  <2>2. request' \in [Requests -> [pc : {"idle", "sent", "ok", "denied", "waiting"},
                                   token : MaybeToken, version : Nat,
                                   retried : BOOLEAN, call : Calls \cup {NoCall}]]
    <3>1. request \in [Requests -> [pc : {"idle", "sent", "ok", "denied", "waiting"},
                                    token : MaybeToken, version : Nat,
                                    retried : BOOLEAN, call : Calls \cup {NoCall}]]
      BY DEF PhoneInv, PhoneTypeOK
    <3> QED BY <1>1, <3>1
  <2> QED BY <1>1, <2>1, <2>2 DEF PhoneInv, PhoneTypeOK, MaybeToken
<1>8. PhoneTokens'
  <2>1. \A d \in Calls : Of(call'[d].token, "phone") /\ Of(call'[d].new, "phone")
    BY <1>3, <1>5 DEF PhoneInv, PhoneTokens
  <2>2. \A p \in Requests : request'[p].token = request[p].token
    BY <1>6
  <2> QED BY ZenonT(60), <1>1, <2>1, <2>2 DEF PhoneInv, PhoneTokens, Of, store
<1>9. Ownership'
  <2>1. \A d \in Calls : call'[d].new # NoToken => call'[d].token = call[d].token
    BY <1>4, <1>5 DEF PhoneInv, Shapes
  <2>2. \A p \in Requests : /\ request'[p].version = request[p].version
                            /\ request'[p].token = request[p].token
                            /\ request'[p].pc # "idle" => request[p].pc # "idle"
    BY <1>1, <1>6
  <2> QED BY ZenonT(60), <1>1, <1>5, <2>1, <2>2 DEF PhoneInv, Ownership, OwnedBy, OfSession, store
<1>10. Shapes'
  <2>1. \A d \in Calls : /\ call'[d].pc # "idle" <=> call'[d].token # NoToken
                         /\ call'[d].pc = "rotated" <=> call'[d].new # NoToken
                         /\ call'[d].pc \in {"rotated", "refused"} => row[call'[d].token] = "revoked"
    BY <1>3, <1>4, <1>5 DEF PhoneInv, PhoneTypeOK, Shapes
  <2>2. \A d, e \in Calls : call'[d].pc # "idle" /\ call'[d].token = call'[e].token => d = e
    BY <1>3, <1>4, <1>5 DEF PhoneInv, PhoneTypeOK, Shapes
  <2>3. \A p \in Requests : request'[p].pc = "waiting"
                              => request'[p].call \in Calls /\ call'[request'[p].call].pc # "idle"
    BY <1>5, <1>6 DEF PhoneInv, Shapes
  <2> QED BY <1>1, <2>1, <2>2, <2>3 DEF PhoneInv, Shapes, store
<1>11. Waiting'
  <2>1. \A d \in Calls : /\ Wanted(d)' <=> Wanted(d) \/ d = c
                         /\ Awaited(d)' <=> Awaited(d) \/ d = c
    BY <1>1, <1>6 DEF Wanted, Awaited
  <2>2. shared'.version <= session.version /\ shared'.call = c
    BY <1>1, PhoneTyped
  <2>3. ASSUME NEW d \in Calls, call'[d].pc # "idle"
        PROVE  /\ Awaited(d)' \/ restoring'.call = d
               /\ Wanted(d)' => call'[d].token = session'.refresh
               /\ call'[d].token = session'.refresh => Wanted(d)'
                    \/ (restoring'.call = d /\ restoring'.version = session'.version)
    <3>1. CASE d = c
      BY <1>1, <1>5, <2>1, <3>1
    <3>2. CASE d # c
      BY <1>1, <1>5, <2>1, <2>3, <3>2 DEF PhoneInv, Waiting
    <3> QED BY <3>1, <3>2
  <2>4. Wanted(c)'
    BY <2>1
  <2> QED BY <1>1, <2>2, <2>3, <2>4 DEF Waiting
<1>12. Exclusive'
  <2>1. /\ login.token # NoToken => login.token \in Tokens
        /\ \A d \in Calls : call[d].new # NoToken => call[d].new \in Tokens
    BY PhoneTyped DEF MaybeToken
  <2>2. /\ login'.token = login.token
        /\ login.token # NoToken => Unseen(login.token)
        /\ \A d \in Calls : call[d].new # NoToken => Unseen(call[d].new)
    BY <1>1 DEF PhoneInv, Exclusive
  <2>3. \A t \in Tokens : Unseen(t) => /\ t # T /\ t \notin Spent'
                                       /\ \A d \in Calls : t # call'[d].token
    BY <1>2, <1>5 DEF Unseen
  <2> QED BY <1>1, <1>5, <2>1, <2>2, <2>3 DEF PhoneInv, Exclusive, Unseen
<1>13. Unspent'
  <2>1. CASE call' = call
    BY <1>1, <1>2, <2>1 DEF PhoneInv, Unspent, Retired
  <2>2. CASE \A d \in Calls : call[d].pc # "idle" => call[d].token # T
    <3>1. Retired(T)
      BY <2>2 DEF PhoneInv, Unspent
    <3>2. \A d \in Calls : call'[d].pc = "sent" => Retired(call'[d].token)
      BY <1>5, <3>1 DEF PhoneInv, Unspent
    <3> QED BY <1>1, <1>2, <3>1, <3>2 DEF Unspent, Retired
  <2> QED BY <1>4, <2>1, <2>2
<1>14. Covered'
  <2>1. \A d \in Calls : call[d].token # NoToken => call'[d].token = call[d].token
    BY <1>4, <1>5 DEF PhoneInv, Shapes
  <2> QED BY <1>1, <1>5, <2>1, TokenAssumption DEF PhoneInv, Covered, Known, store
<1> QED BY <1>2, <1>7, <1>8, <1>9, <1>10, <1>11, <1>12, <1>13, <1>14 DEF PhoneInv

\* The server spends the token of the call, or finds it spent.
LEMMA RefreshServeKeeps ==
    ASSUME PhoneInv, ServerTypeOK, Lineage, NEW c \in Calls, RefreshServe(c)
    PROVE  PhoneInv' /\ Apart("web")
<1> DEFINE p == call[c].token
<1>1. /\ call[c].pc = "sent"
      /\ UNCHANGED <<session, saved, shared, request, restoring, login, revocations>>
      /\ UNCHANGED <<lost, budget>>
  BY DEF RefreshServe
<1>2. /\ p \in Tokens /\ row[p] # "none" /\ device[p] = "phone" /\ call[c].new = NoToken
      /\ StoreInv /\ "phone" \in Devices /\ "web" \in Devices
  BY <1>1, PhoneTyped DEF PhoneInv, Shapes, PhoneTokens, Of, MaybeToken, Devices,
                          StoreInv, StoreType, ServerTypeOK
<1>3. \A d \in Calls : d # c => call[d].token # p
  BY <1>1 DEF PhoneInv, Shapes
<1>4. ASSUME StoreInv', Grown, Foreign("web") PROVE Apart("web")
  BY <1>1, <1>4 DEF Apart, ServerTypeOK, StoreInv, StoreType
<1>5. CASE \E t \in Tokens : Rotate(p, t)
                             /\ call' = [call EXCEPT ![c].pc = "rotated", ![c].new = t]
  <2>1. PICK t \in Tokens : /\ Rotate(p, t)
                            /\ call' = [call EXCEPT ![c].pc = "rotated", ![c].new = t]
    BY <1>5
  <2>2. /\ StoreInv' /\ Grown /\ Spent' = Spent \cup {p}
        /\ row[t] = "none" /\ p # t /\ t \notin Spent'
        /\ row' = [row EXCEPT ![p] = "revoked", ![t] = "active"]
        /\ row'[p] = "revoked" /\ row'[t] = "active"
        /\ owner'[t] = owner[p] /\ device'[t] = device[p] /\ Foreign("web")
    BY <1>2, <2>1, RotateKeeps
  <2>3. /\ \A d \in Calls : /\ d # c => call'[d] = call[d]
                            /\ call'[d].token = call[d].token
                            /\ call'[d].pc # "idle" <=> call[d].pc # "idle"
        /\ call'[c].pc = "rotated" /\ call'[c].new = t
    BY <1>1, <2>1 DEF PhoneInv, PhoneTypeOK
  <2>4. \A u \in MaybeToken : Of(u, "phone") =>
           /\ u # t
           /\ u # NoToken => row'[u] # "none" /\ device'[u] = "phone" /\ owner'[u] = owner[u]
           /\ u # NoToken /\ row[u] = "revoked" => row'[u] = "revoked"
    BY <2>2, TokenAssumption DEF Of, Grown, MaybeToken
  <2>5. PhoneTypeOK'
    <3>1. call \in [Calls -> [pc : {"idle", "sent", "rotated", "refused"},
                              token : MaybeToken, new : MaybeToken]]
      BY DEF PhoneInv, PhoneTypeOK
    <3>2. call' \in [Calls -> [pc : {"idle", "sent", "rotated", "refused"},
                               token : MaybeToken, new : MaybeToken]]
      BY <2>1, <3>1 DEF MaybeToken
    <3> QED BY <1>1, <3>2 DEF PhoneInv, PhoneTypeOK, MaybeToken
  <2>6. PhoneTokens'
    <3>1. \A u \in MaybeToken : Of(u, "phone") =>
             (u # NoToken => row'[u] # "none" /\ device'[u] = "phone")
      BY <2>4
    <3>2. \A d \in Calls : call'[d].new = call[d].new \/ call'[d].new = t
      BY <2>3
    <3>3. row'[t] # "none" /\ device'[t] = "phone"
      BY <1>2, <2>2
    <3>4. \A u \in MaybeToken : Of(u, "phone") \/ u = t =>
             (u # NoToken => row'[u] # "none" /\ device'[u] = "phone")
      BY <3>1, <3>3
    <3>5. \A d \in Calls : /\ call'[d].new \in MaybeToken
                           /\ (Of(call'[d].new, "phone") \/ call'[d].new = t)
      BY <3>2, PhoneTyped DEF PhoneInv, PhoneTokens, MaybeToken
    <3>6. \A d \in Calls :
             /\ Of(call[d].token, "phone") /\ call[d].token \in MaybeToken
             /\ call'[d].token = call[d].token
      BY <2>3, PhoneTyped DEF PhoneInv, PhoneTokens
    <3>7. \A d \in Calls : Of(call[d].token, "phone")' /\ Of(call[d].new, "phone")'
      <4>1. ASSUME NEW d \in Calls
            PROVE  \A u \in {call'[d].token, call'[d].new} :
                      u # NoToken => row'[u] # "none" /\ device'[u] = "phone"
        BY <3>4, <3>5, <3>6
      <4> QED BY <4>1 DEF Of
    <3>8. \A q \in Requests : Of(request[q].token, "phone")'
      BY <1>1, <3>4, PhoneTyped DEF PhoneInv, PhoneTokens, Of
    <3>9. \A x \in revocations : Of(x.refresh, "phone")'
      BY <1>1, <3>4, PhoneTyped DEF PhoneInv, PhoneTokens, Of
    <3>10. /\ Of(session.refresh, "phone")' /\ Of(session.access, "phone")'
           /\ Of(saved.refresh, "phone")' /\ Of(login.token, "phone")'
      BY <1>1, <3>4, PhoneTyped DEF PhoneInv, PhoneTokens, Of
    <3> QED BY <1>1, <3>7, <3>8, <3>9, <3>10 DEF PhoneTokens
  <2>7. Ownership'
    <3>1. /\ OwnedBy(session.refresh, session.user)' /\ OwnedBy(session.access, session.user)'
          /\ OwnedBy(saved.refresh, saved.user)' /\ OwnedBy(login.token, login.account)'
      BY <1>1, <2>4, PhoneTyped DEF PhoneInv, PhoneTokens, Ownership, OwnedBy
    <3>2. \A d \in Calls : call'[d].new # NoToken =>
             owner'[call'[d].new] = owner'[call'[d].token]
      <4>1. owner'[p] = owner[p]
        BY <1>2, <2>2 DEF Grown
      <4>2. ASSUME NEW d \in Calls, d # c, call[d].new # NoToken
            PROVE  owner'[call[d].new] = owner'[call[d].token]
        <5>1. call[d].token # NoToken /\ owner[call[d].new] = owner[call[d].token]
          BY <4>2 DEF PhoneInv, Shapes, Ownership
        <5> QED BY <2>4, <4>2, <5>1, PhoneTyped DEF PhoneInv, PhoneTokens
      <4> QED BY <2>2, <2>3, <4>1, <4>2
    <3>3. \A q \in Requests : OfSession(q) =>
             (request[q].token # NoToken => owner'[request[q].token] = session.user)
      BY <2>4, PhoneTyped DEF PhoneInv, PhoneTokens, Ownership, OwnedBy
    <3> QED BY <1>1, <3>1, <3>2, <3>3 DEF PhoneInv, Ownership, OwnedBy, OfSession
  <2>8. Shapes'
    <3>1. \A d \in Calls : /\ call'[d].pc # "idle" <=> call'[d].token # NoToken
                           /\ call'[d].pc = "rotated" <=> call'[d].new # NoToken
                           /\ call'[d].pc \in {"rotated", "refused"}
                                => row'[call'[d].token] = "revoked"
      <4>1. ASSUME NEW d \in Calls, d # c, call[d].pc \in {"rotated", "refused"}
            PROVE  row'[call[d].token] = "revoked"
        <5>1. call[d].token # NoToken /\ row[call[d].token] = "revoked"
          BY <4>1 DEF PhoneInv, Shapes
        <5>2. Of(call[d].token, "phone") /\ call[d].token \in MaybeToken
          BY PhoneTyped DEF PhoneInv, PhoneTokens
        <5> QED BY <2>4, <5>1, <5>2
      <4>2. t # NoToken /\ p # NoToken
        BY <1>2, TokenAssumption
      <4>3. \A d \in Calls : d # c => /\ call[d].pc # "idle" <=> call[d].token # NoToken
                                      /\ call[d].pc = "rotated" <=> call[d].new # NoToken
        BY DEF PhoneInv, Shapes
      <4> QED BY ZenonT(60), <2>2, <2>3, <4>1, <4>2, <4>3
    <3>2. \A d, e \in Calls : call'[d].pc # "idle" /\ call'[d].token = call'[e].token => d = e
      BY <2>3 DEF PhoneInv, Shapes
    <3> QED BY <1>1, <2>3, <3>1, <3>2 DEF PhoneInv, Shapes
  <2>9. Waiting'
    <3>1. \A d \in Calls : Wanted(d)' = Wanted(d) /\ Awaited(d)' = Awaited(d)
      BY <1>1 DEF Wanted, Awaited
    <3>2. shared.call # NoCall => shared.call \in Calls
      BY DEF PhoneInv, PhoneTypeOK
    <3> QED BY <1>1, <2>3, <3>1, <3>2 DEF PhoneInv, Waiting
  <2>10. Exclusive'
    <3>1. \A u \in Tokens : Unseen(u) => /\ u # session'.refresh /\ u \notin Spent'
                                         /\ \A d \in Calls : u # call'[d].token
      BY <1>1, <2>2, <2>3 DEF Unseen
    <3>2. /\ t # session.refresh /\ t # login.token
          /\ \A d \in Calls : t # call[d].token /\ t # call[d].new
      BY <2>4, PhoneTyped DEF PhoneInv, PhoneTokens
    <3>3. /\ t # session'.refresh /\ t \notin Spent' /\ \A d \in Calls : t # call'[d].token
      BY <1>1, <2>2, <2>3, <3>2
    <3>4. /\ login.token # NoToken => login.token \in Tokens /\ Unseen(login.token)
          /\ \A d \in Calls : call[d].new # NoToken => call[d].new \in Tokens /\ Unseen(call[d].new)
      BY PhoneTyped DEF PhoneInv, Exclusive, MaybeToken
    <3>5. (login.token # NoToken => Unseen(login.token))'
      BY <1>1, <3>1, <3>4 DEF Unseen
    <3>6. ASSUME NEW d \in Calls, call'[d].new # NoToken
          PROVE  /\ call'[d].new # session'.refresh /\ call'[d].new \notin Spent'
                 /\ \A e \in Calls : call'[d].new # call'[e].token
                 /\ call'[d].new # login.token
                 /\ \A e \in Calls : call'[d].new = call'[e].new => d = e
      <4>1. CASE d = c
        BY <2>3, <3>2, <3>3, <4>1
      <4>2. CASE d # c
        <5>1. call'[d].new = call[d].new /\ call[d].new # NoToken
          BY <2>3, <3>6, <4>2
        <5>2. /\ call[d].new # login.token
              /\ \A e \in Calls : call[d].new = call[e].new => d = e
          BY <5>1, TokenAssumption DEF PhoneInv, Exclusive
        <5> QED BY <2>3, <3>1, <3>2, <3>4, <4>2, <5>1, <5>2
      <4> QED BY <4>1, <4>2
    <3> QED BY <1>1, <3>5, <3>6 DEF Exclusive, Unseen
  <2>11. Unspent'
    BY <1>1, <1>3, <2>2, <2>3 DEF PhoneInv, Unspent, Retired
  <2>12. Covered'
    <3>1. ASSUME NEW u \in Tokens, row'[u] = "active", device'[u] = "phone" PROVE Known(u)'
      <4>1. CASE u = t
        BY <2>3, <4>1 DEF Known
      <4>2. CASE u # t
        <5>1. row[u] = "active" /\ device[u] = "phone"
          BY <2>2, <3>1, <4>2 DEF Grown, StoreInv, StoreType, ServerTypeOK
        <5>2. Known(u)
          BY <5>1 DEF PhoneInv, Covered
        <5> QED BY <1>1, <1>2, <2>3, <5>2, TokenAssumption DEF Known
      <4> QED BY <4>1, <4>2
    <3> QED BY <3>1 DEF Covered
  <2> QED BY <1>4, <2>2, <2>5, <2>6, <2>7, <2>8, <2>9, <2>10, <2>11, <2>12 DEF PhoneInv
<1>6. CASE Reuse(p) /\ call' = [call EXCEPT ![c].pc = "refused"]
  <2>1. /\ row[p] = "revoked" /\ RevokeRows(RowsOf(owner[p]))
        /\ UNCHANGED <<owner, device, parent, usable>>
    BY <1>6 DEF Reuse
  <2>2. StoreInv' /\ Grown /\ Spent' = Spent /\ Foreign("phone") /\ Foreign("web")
    BY <1>2, <2>1, RevokeKeeps
  <2>3. /\ \A d \in Calls : /\ d # c => call'[d] = call[d]
                            /\ call'[d].token = call[d].token /\ call'[d].new = call[d].new
                            /\ call'[d].pc # "idle" <=> call[d].pc # "idle"
        /\ call'[c].pc = "refused"
    BY <1>1, <1>6 DEF PhoneInv, PhoneTypeOK
  <2>4. \A u \in MaybeToken : Of(u, "phone") =>
           /\ u # NoToken => row'[u] # "none" /\ device'[u] = "phone"
           /\ u # NoToken /\ row[u] = "revoked" => row'[u] = "revoked"
    BY <2>2 DEF Of, Grown, MaybeToken
  <2>5. PhoneTypeOK'
    <3>1. call \in [Calls -> [pc : {"idle", "sent", "rotated", "refused"},
                              token : MaybeToken, new : MaybeToken]]
      BY DEF PhoneInv, PhoneTypeOK
    <3>2. call' \in [Calls -> [pc : {"idle", "sent", "rotated", "refused"},
                               token : MaybeToken, new : MaybeToken]]
      BY <1>6, <3>1 DEF MaybeToken
    <3> QED BY <1>1, <3>2 DEF PhoneInv, PhoneTypeOK, MaybeToken
  <2>6. PhoneTokens'
    BY <1>1, <2>3, <2>4, PhoneTyped DEF PhoneInv, PhoneTokens, Of
  <2>7. Ownership'
    BY <1>1, <2>1, <2>3 DEF PhoneInv, Ownership, OwnedBy, OfSession
  <2>8. Shapes'
    <3>1. \A d \in Calls : /\ call'[d].pc # "idle" <=> call'[d].token # NoToken
                           /\ call'[d].pc = "rotated" <=> call'[d].new # NoToken
                           /\ call'[d].pc \in {"rotated", "refused"}
                                => row'[call'[d].token] = "revoked"
      <4>1. ASSUME NEW d \in Calls, d # c, call[d].pc \in {"rotated", "refused"}
            PROVE  row'[call[d].token] = "revoked"
        <5>1. call[d].token # NoToken /\ row[call[d].token] = "revoked"
          BY <4>1 DEF PhoneInv, Shapes
        <5> QED BY <2>4, <5>1, PhoneTyped DEF PhoneInv, PhoneTokens
      <4>2. row'[p] = "revoked"
        BY <1>2, <2>1, <2>2 DEF Grown
      <4> QED BY <1>2, <2>3, <4>1, <4>2 DEF PhoneInv, Shapes
    <3>2. \A d, e \in Calls : call'[d].pc # "idle" /\ call'[d].token = call'[e].token => d = e
      BY <2>3 DEF PhoneInv, Shapes
    <3> QED BY <1>1, <2>3, <3>1, <3>2 DEF PhoneInv, Shapes
  <2>9. Waiting'
    <3>1. \A d \in Calls : Wanted(d)' = Wanted(d) /\ Awaited(d)' = Awaited(d)
      BY <1>1 DEF Wanted, Awaited
    <3>2. shared.call # NoCall => shared.call \in Calls
      BY DEF PhoneInv, PhoneTypeOK
    <3> QED BY <1>1, <2>3, <3>1, <3>2 DEF PhoneInv, Waiting
  <2>10. Exclusive'
    BY <1>1, <2>2, <2>3 DEF PhoneInv, Exclusive, Unseen
  <2>11. Unspent'
    BY <1>1, <2>2, <2>3 DEF PhoneInv, Unspent, Retired
  <2>12. Covered'
    BY <1>1, <2>2, <2>3 DEF PhoneInv, Covered, Known, Foreign
  <2> QED BY <1>4, <2>2, <2>5, <2>6, <2>7, <2>8, <2>9, <2>10, <2>11, <2>12 DEF PhoneInv
<1> QED BY <1>5, <1>6 DEF RefreshServe

\* Who waits for a call, in the words of the invariant.
LEMMA WaitersAre ==
    ASSUME NEW c \in Calls
    PROVE  /\ FreshWaiters(c) # {} <=> Wanted(c)
           /\ Waiters(c) # {} <=> Awaited(c)
           /\ \A q \in Requests : /\ q \in Waiters(c) <=> request[q].pc = "waiting"
                                                          /\ request[q].call = c
                                  /\ q \in FreshWaiters(c) <=> /\ request[q].pc = "waiting"
                                                               /\ request[q].call = c
                                                               /\ request[q].version = session.version
BY DEF FreshWaiters, Waiters, Current, Wanted, Awaited

\* The session takes the new pair if it still has the old one, and otherwise
\* the pair is revoked.
LEMMA RefreshSucceedKeeps ==
    ASSUME PhoneInv, ServerTypeOK, Lineage, NEW c \in Calls, RefreshSucceed(c)
    PROVE  PhoneInv' /\ Apart("web")
<1> DEFINE T == call[c].token
           N == call[c].new
           kept == Wanted(c) \/ RestoreFresh(c, {T, N})
<1>1. /\ call[c].pc = "rotated"
      /\ (kept => session' = [session EXCEPT !.refresh = N, !.access = N])
      /\ (~kept => session' = session)
      /\ (Wanted(c) => shared' = [shared EXCEPT !.call = NoCall])
      /\ (~Wanted(c) => shared' = shared)
      /\ restoring' = IF restoring.call = c THEN NoRestore ELSE restoring
      /\ call' = [call EXCEPT ![c] = IdleCall]
      /\ UNCHANGED <<saved, login, store, lost, budget>>
  BY WaitersAre DEF RefreshSucceed, SetTokens, RestoreDone, CallDone, serverVars
<1>2. /\ T # NoToken /\ N # NoToken /\ T \in Tokens /\ N \in Tokens /\ row[T] = "revoked"
      /\ owner[N] = owner[T] /\ Of(N, "phone") /\ Unseen(N)
  BY <1>1, PhoneTyped DEF PhoneInv, Shapes, Ownership, Exclusive, PhoneTokens, MaybeToken
<1>3. kept => session.refresh = T
  <2>1. Wanted(c) => session.refresh = T
    BY <1>1 DEF PhoneInv, Waiting
  <2>2. RestoreFresh(c, {T, N}) => session.refresh = T
    BY <1>2 DEF RestoreFresh, Unseen
  <2> QED BY <2>1, <2>2
<1>4. ~kept => session.refresh # T
  BY <1>1 DEF PhoneInv, Waiting, RestoreFresh, Current
<1>5. /\ revocations \subseteq revocations'
      /\ \A x \in revocations' : x \in revocations \/ x = [access |-> N, refresh |-> N]
      /\ ~kept => \E x \in revocations' : x.refresh = N
  <2> DEFINE late == [access |-> N, refresh |-> N]
             stale == \/ Waiters(c) # FreshWaiters(c)
                      \/ restoring.call = c /\ ~RestoreFresh(c, {T, N})
  <2>1. revocations' = revocations \cup IF stale THEN {late} ELSE {}
    BY DEF RefreshSucceed, RevokeLate
  <2>2. ~kept => stale
    <3>1. Awaited(c) \/ restoring.call = c
      BY <1>1 DEF PhoneInv, Waiting
    <3> QED BY <3>1, WaitersAre
  <2>3. late.refresh = N
    OBVIOUS
  <2> HIDE DEF late, stale
  <2>4. stale => late \in revocations'
    BY <2>1
  <2> QED BY <2>1, <2>2, <2>3, <2>4 DEF late
<1>6. \A q \in Requests :
        /\ q \in FreshWaiters(c) => request'[q] =
             [pc |-> "sent", token |-> N, version |-> session.version, retried |-> TRUE,
              call |-> NoCall]
        /\ q \in Waiters(c) /\ q \notin FreshWaiters(c) => request'[q] = IdleRequest
        /\ q \notin Waiters(c) => request'[q] = request[q]
  <2>1. \A q \in Requests : request'[q] =
          IF q \in FreshWaiters(c) THEN Stamped(TRUE, [session EXCEPT !.access = N])
          ELSE IF q \in Waiters(c) THEN IdleRequest ELSE request[q]
    BY DEF RefreshSucceed
  <2>2. Stamped(TRUE, [session EXCEPT !.access = N]) =
          [pc |-> "sent", token |-> N, version |-> session.version, retried |-> TRUE,
           call |-> NoCall]
    BY DEF Stamped, PhoneInv, PhoneTypeOK
  <2>3. FreshWaiters(c) \subseteq Waiters(c)
    BY DEF FreshWaiters
  <2> QED BY <2>1, <2>2, <2>3
<1>7. /\ session'.version = session.version /\ session'.user = session.user
      /\ session'.refresh = IF kept THEN N ELSE session.refresh
      /\ session'.access = IF kept THEN N ELSE session.access
  BY <1>1 DEF PhoneInv, PhoneTypeOK
<1>8. /\ \A d \in Calls : d # c => call'[d] = call[d]
      /\ call'[c].pc = "idle" /\ call'[c].token = NoToken /\ call'[c].new = NoToken
  BY <1>1 DEF PhoneInv, PhoneTypeOK, IdleCall
<1>9. \A q \in Requests : q \in Waiters(c) <=> request[q].pc = "waiting" /\ request[q].call = c
  BY WaitersAre
<1> HIDE DEF T, N, kept
<1>10. Apart("web") /\ Spent' = Spent
  BY <1>1, NothingStored DEF ServerTypeOK
<1>11. PhoneTypeOK'
  <2>1. session' \in [user : Accounts \cup {NoOne}, refresh : MaybeToken,
                      access : MaybeToken, version : Nat]
    BY <1>1, <1>2 DEF PhoneInv, PhoneTypeOK, MaybeToken
  <2>2. shared' \in [call : Calls \cup {NoCall}, version : Nat]
    BY <1>1 DEF PhoneInv, PhoneTypeOK
  <2>3. call' \in [Calls -> [pc : {"idle", "sent", "rotated", "refused"},
                             token : MaybeToken, new : MaybeToken]]
    BY <1>1 DEF PhoneInv, PhoneTypeOK, MaybeToken, IdleCall
  <2>4. request' \in [Requests -> [pc : {"idle", "sent", "ok", "denied", "waiting"},
                                   token : MaybeToken, version : Nat,
                                   retried : BOOLEAN, call : Calls \cup {NoCall}]]
    <3>1. \A q \in Requests : request'[q] \in
             [pc : {"idle", "sent", "ok", "denied", "waiting"}, token : MaybeToken,
              version : Nat, retried : BOOLEAN, call : Calls \cup {NoCall}]
      <4>1. request \in [Requests -> [pc : {"idle", "sent", "ok", "denied", "waiting"},
                                      token : MaybeToken, version : Nat,
                                      retried : BOOLEAN, call : Calls \cup {NoCall}]]
        BY DEF PhoneInv, PhoneTypeOK
      <4>2. N \in MaybeToken /\ NoToken \in MaybeToken /\ session.version \in Nat
        BY <1>2, PhoneTyped DEF MaybeToken
      <4> DEFINE R == [pc : {"idle", "sent", "ok", "denied", "waiting"}, token : MaybeToken,
                       version : Nat, retried : BOOLEAN, call : Calls \cup {NoCall}]
      <4>3. IdleRequest \in R
        BY <4>2 DEF IdleRequest
      <4>4. [pc |-> "sent", token |-> N, version |-> session.version, retried |-> TRUE,
             call |-> NoCall] \in R
        BY <4>2
      <4>5. \A q \in Requests : request[q] \in R
        BY <4>1
      <4> HIDE DEF R
      <4>6. \A q \in Requests : request'[q] \in R
        BY <1>6, <4>3, <4>4, <4>5
      <4> QED BY <4>6 DEF R
    <3>2. request' = [q \in Requests |-> request'[q]]
      BY DEF RefreshSucceed
    <3> QED BY <3>1, <3>2
  <2>5. restoring' \in [call : Calls \cup {NoCall}, version : Nat, token : MaybeToken]
    BY <1>1 DEF PhoneInv, PhoneTypeOK, MaybeToken, NoRestore
  <2>6. revocations' \subseteq [access : MaybeToken, refresh : MaybeToken]
    BY <1>2, <1>5 DEF PhoneInv, PhoneTypeOK, MaybeToken
  <2> QED BY <1>1, <2>1, <2>2, <2>3, <2>4, <2>5, <2>6 DEF PhoneInv, PhoneTypeOK, MaybeToken
<1>12. PhoneTokens'
  <2>1. \A t : Of(t, "phone")' <=> (t # NoToken => row[t] # "none" /\ device[t] = "phone")
    BY <1>1 DEF Of, store
  <2>2. \A t : Of(t, "phone") <=> (t # NoToken => row[t] # "none" /\ device[t] = "phone")
    BY DEF Of
  <2>3. /\ Of(session'.refresh, "phone") /\ Of(session'.access, "phone")
        /\ Of(saved'.refresh, "phone") /\ Of(login'.token, "phone")
    BY <1>1, <1>2, <1>7 DEF PhoneInv, PhoneTokens
  <2>4. \A d \in Calls : Of(call'[d].token, "phone") /\ Of(call'[d].new, "phone")
    BY <1>8, <2>2 DEF PhoneInv, PhoneTokens
  <2>5. \A q \in Requests : Of(request'[q].token, "phone")
    BY <1>2, <1>6, <2>2 DEF PhoneInv, PhoneTokens, IdleRequest
  <2>6. \A x \in revocations' : Of(x.refresh, "phone")
    BY <1>2, <1>5 DEF PhoneInv, PhoneTokens
  <2> QED BY <1>1, <2>3, <2>4, <2>5, <2>6 DEF PhoneTokens, Of, store
<1>13. Ownership'
  <2>1. kept => owner[N] = session.user
    BY <1>2, <1>3 DEF PhoneInv, Ownership, OwnedBy
  <2>2. /\ OwnedBy(session'.refresh, session'.user) /\ OwnedBy(session'.access, session'.user)
        /\ session'.user # NoOne => session'.refresh # NoToken
    BY <1>2, <1>7, <2>1 DEF PhoneInv, Ownership, OwnedBy
  <2>3. \A d \in Calls :
          call'[d].new # NoToken => owner[call'[d].new] = owner[call'[d].token]
    BY <1>8 DEF PhoneInv, Ownership
  <2>4. ASSUME NEW q \in Requests
        PROVE  /\ request'[q].version <= session'.version
               /\ request'[q].pc # "idle" /\ request'[q].version = session'.version
                    => session'.user # NoOne /\ OwnedBy(request'[q].token, session'.user)
    <3>1. CASE q \in FreshWaiters(c)
      <4>1. kept /\ OfSession(q)
        BY <3>1, WaitersAre DEF kept, OfSession
      <4>2. session.user # NoOne
        BY <4>1 DEF PhoneInv, Ownership
      <4> QED BY <1>6, <1>7, <2>1, <3>1, <4>1, <4>2, PhoneTyped DEF OwnedBy
    <3>2. CASE q \in Waiters(c) /\ q \notin FreshWaiters(c)
      BY <1>6, <1>7, <3>2, PhoneTyped DEF IdleRequest
    <3>3. CASE q \notin Waiters(c)
      <4>1. request'[q] = request[q]
        BY <1>6, <3>3
      <4> QED BY <1>7, <4>1 DEF PhoneInv, Ownership, OfSession
    <3> QED BY <3>1, <3>2, <3>3
  <2> QED BY <1>1, <2>2, <2>3, <2>4 DEF PhoneInv, Ownership, OwnedBy, OfSession, store
<1>14. Shapes'
  <2>1. \A d \in Calls : /\ call'[d].pc # "idle" <=> call'[d].token # NoToken
                         /\ call'[d].pc = "rotated" <=> call'[d].new # NoToken
                         /\ call'[d].pc \in {"rotated", "refused"}
                              => row[call'[d].token] = "revoked"
    BY <1>8 DEF PhoneInv, Shapes
  <2>2. \A d, e \in Calls : call'[d].pc # "idle" /\ call'[d].token = call'[e].token => d = e
    BY <1>8 DEF PhoneInv, Shapes
  <2>3. \A q \in Requests : request'[q].pc = "waiting"
           => request'[q].call \in Calls /\ call'[request'[q].call].pc # "idle"
    BY <1>6, <1>8, <1>9 DEF PhoneInv, Shapes, IdleRequest
  <2> QED BY <1>1, <2>1, <2>2, <2>3 DEF PhoneInv, Shapes, store
<1>15. Waiting'
  <2>1. \A q \in Requests :
           request'[q].pc = "waiting" => request'[q] = request[q] /\ request[q].call # c
    BY <1>6, <1>9 DEF IdleRequest
  <2>2. \A q \in Requests :
           request[q].pc = "waiting" /\ request[q].call # c => request'[q] = request[q]
    BY <1>6, <1>9
  <2>3. \A d \in Calls : d # c => Wanted(d)' = Wanted(d) /\ Awaited(d)' = Awaited(d)
    BY <1>7, <2>1, <2>2 DEF Wanted, Awaited
  <2>4. ASSUME NEW d \in Calls, d # c, call[d].pc # "idle"
        PROVE  /\ Awaited(d) \/ restoring'.call = d
               /\ Wanted(d) => call[d].token = session'.refresh
               /\ call[d].token = session'.refresh => Wanted(d)
                    \/ (restoring'.call = d /\ restoring'.version = session'.version)
    <3>1. restoring.call = d => restoring' = restoring
      BY <1>1, <2>4
    <3>2. CASE kept
      <4>1. call[d].token # N /\ call[d].token # T
        BY <1>2, <2>4 DEF Unseen, PhoneInv, Shapes, T
      <4>2. ~Wanted(d)
        BY <1>3, <2>4, <3>2, <4>1 DEF PhoneInv, Waiting
      <4> QED BY <1>7, <2>4, <3>1, <3>2, <4>1, <4>2 DEF PhoneInv, Waiting
    <3>3. CASE ~kept
      BY <1>7, <2>4, <3>1, <3>3 DEF PhoneInv, Waiting
    <3> QED BY <3>2, <3>3
  <2>5. shared'.version <= session'.version
    BY <1>1, <1>7 DEF PhoneInv, PhoneTypeOK, Waiting
  <2>6. ASSUME shared'.call # NoCall, shared'.version = session'.version
        PROVE  Wanted(shared'.call) /\ shared'.call # c /\ shared'.call \in Calls
    <3>1. ~Wanted(c) /\ shared' = shared
      BY <1>1, <2>6 DEF PhoneInv, PhoneTypeOK
    <3> QED BY <1>7, <2>6, <3>1 DEF PhoneInv, PhoneTypeOK, Waiting
  <2>7. ASSUME shared'.call # NoCall, shared'.version = session'.version
        PROVE  Wanted(shared.call)'
    BY <1>7, <2>1, <2>2, <2>6, <2>7 DEF Wanted
  <2> QED BY <1>8, <2>3, <2>4, <2>5, <2>7 DEF Waiting
<1>16. Exclusive'
  <2>1. ASSUME NEW t \in Tokens, Unseen(t), t # N
        PROVE  t # session'.refresh /\ t \notin Spent' /\ \A d \in Calls : t # call'[d].token
    BY <1>7, <1>8, <1>10, <2>1, PhoneTyped DEF Unseen
  <2>2. /\ login.token # NoToken => /\ login.token \in Tokens /\ login.token # N
                                    /\ Unseen(login.token)
        /\ \A d \in Calls : d # c /\ call[d].new # NoToken =>
             call[d].new \in Tokens /\ call[d].new # N /\ Unseen(call[d].new)
    BY <1>2, PhoneTyped DEF PhoneInv, Exclusive, MaybeToken, N
  <2>3. \A d \in Calls : call'[d].new # NoToken => d # c /\ call'[d].new = call[d].new
    BY <1>8
  <2>4. (login.token # NoToken => Unseen(login.token))'
    BY <1>1, <2>1, <2>2 DEF Unseen
  <2>5. \A d \in Calls : call'[d].new # NoToken =>
           /\ call'[d].new # session'.refresh /\ call'[d].new \notin Spent'
           /\ \A e \in Calls : call'[d].new # call'[e].token
    BY <2>1, <2>2, <2>3
  <2>6. /\ login'.token # NoToken => \A d \in Calls : call'[d].new # login'.token
        /\ \A d, e \in Calls : call'[d].new # NoToken /\ call'[d].new = call'[e].new => d = e
    BY <1>1, <2>3 DEF PhoneInv, Exclusive
  <2> QED BY <2>4, <2>5, <2>6 DEF Exclusive, Unseen
<1>17. Unspent'
  <2>1. \A d \in Calls : call'[d].pc = "sent" => Retired(call'[d].token)
    BY <1>8 DEF PhoneInv, Unspent
  <2>2. CASE kept
    BY <1>1, <1>2, <1>7, <1>10, <2>1, <2>2 DEF Unspent, Retired, Unseen
  <2>3. CASE ~kept
    <3>1. session'.refresh = session.refresh
      BY <1>7, <2>3
    <3>2. \A d \in Calls : call[d].pc = "rotated" /\ call[d].token = session.refresh
                             => call'[d].pc = "rotated" /\ call'[d].token = session.refresh
      BY <1>4, <1>8, <2>3 DEF T
    <3> QED BY <1>1, <1>10, <2>1, <3>1, <3>2 DEF PhoneInv, Unspent, Retired
  <2> QED BY <2>2, <2>3
<1>18. Covered'
  <2>1. ASSUME NEW t \in Tokens, row[t] = "active", device[t] = "phone" PROVE Known(t)'
    <3>1. Known(t) /\ t # T /\ t # NoToken
      BY <1>2, <2>1, TokenAssumption DEF PhoneInv, Covered
    <3>2. CASE t = N
      BY <1>5, <1>7, <3>2 DEF Known
    <3>3. CASE t # N
      <4>1. \A d \in Calls : t = call[d].token \/ t = call[d].new
                               => t = call'[d].token \/ t = call'[d].new
        BY <1>8, <3>1, <3>3 DEF T, N
      <4>2. t = session.refresh => t = session'.refresh
        BY <1>3, <1>7, <3>1
      <4> QED BY <1>1, <1>5, <3>1, <4>1, <4>2 DEF Known
    <3> QED BY <3>2, <3>3
  <2> QED BY <1>1, <2>1 DEF Covered, store
<1> QED BY <1>10, <1>11, <1>12, <1>13, <1>14, <1>15, <1>16, <1>17, <1>18 DEF PhoneInv

\* A refusal ends the session whose token was refused; without an answer the
\* tokens of the call are lost.
LEMMA RefreshFailKeeps ==
    ASSUME PhoneInv, ServerTypeOK, Lineage, NEW c \in Calls, NEW refused \in BOOLEAN,
           call[c].pc # "idle", refused => call[c].pc = "refused",
           RefreshFail(c, refused), budget' \in [Events -> Nat]
    PROVE  PhoneInv' /\ Apart("web")
<1> DEFINE T == call[c].token
           N == call[c].new
           clear == Wanted(c) \/ (refused /\ RestoreFresh(c, {T}))
<1>1. /\ (clear => session' = SignedOut(session.version + 1))
      /\ (~clear => session' = session)
      /\ Lose(IF refused THEN {} ELSE {T, N})
      /\ (Wanted(c) => shared' = [shared EXCEPT !.call = NoCall])
      /\ (~Wanted(c) => shared' = shared)
      /\ restoring' = IF restoring.call = c THEN NoRestore ELSE restoring
      /\ call' = [call EXCEPT ![c] = IdleCall]
      /\ \A q \in Requests : request'[q] =
           IF q \in Waiters(c) THEN IdleRequest ELSE request[q]
      /\ request' = [q \in Requests |-> request'[q]]
      /\ UNCHANGED <<saved, login, revocations, store>>
  BY WaitersAre DEF RefreshFail, ClearSession, RestoreDone, CallDone
<1>2. /\ T # NoToken /\ T \in Tokens /\ N \in MaybeToken /\ NoToken \notin Tokens
      /\ (refused => row[T] = "revoked" /\ N = NoToken)
  BY PhoneTyped DEF PhoneInv, Shapes, MaybeToken
<1>3. clear => session.refresh = T
  BY DEF PhoneInv, Waiting, RestoreFresh
<1>4. ~clear /\ refused => session.refresh # T
  BY DEF PhoneInv, Waiting, RestoreFresh, Current
<1>5. /\ lost \subseteq lost' /\ lost' \subseteq Tokens
      /\ ~refused => T \in lost' /\ (N # NoToken => N \in lost')
  <2>1. (IF refused THEN {} ELSE {T, N}) \in SUBSET (Tokens \cup {NoToken})
    BY <1>2 DEF MaybeToken
  <2> QED BY <1>1, <1>2, <2>1, LoseKeeps DEF ServerTypeOK
<1>6. /\ \A d \in Calls : d # c => call'[d] = call[d]
      /\ call'[c].pc = "idle" /\ call'[c].token = NoToken /\ call'[c].new = NoToken
  BY <1>1 DEF PhoneInv, PhoneTypeOK, IdleCall
<1>7. \A q \in Requests : q \in Waiters(c) <=> request[q].pc = "waiting" /\ request[q].call = c
  BY WaitersAre
<1>8. IF clear THEN /\ session'.user = NoOne /\ session'.refresh = NoToken
                    /\ session'.access = NoToken /\ session'.version = session.version + 1
               ELSE session' = session
  BY <1>1 DEF SignedOut
<1> HIDE DEF T, N, clear
<1>9. Apart("web") /\ Spent' = Spent
  BY <1>1, <1>5, NothingStored DEF ServerTypeOK
<1>10. PhoneTypeOK'
  <2>1. session' \in [user : Accounts \cup {NoOne}, refresh : MaybeToken,
                      access : MaybeToken, version : Nat]
    BY <1>1 DEF PhoneInv, PhoneTypeOK, MaybeToken, SignedOut
  <2>2. shared' \in [call : Calls \cup {NoCall}, version : Nat]
    BY <1>1 DEF PhoneInv, PhoneTypeOK
  <2>3. call' \in [Calls -> [pc : {"idle", "sent", "rotated", "refused"},
                             token : MaybeToken, new : MaybeToken]]
    BY <1>1 DEF PhoneInv, PhoneTypeOK, MaybeToken, IdleCall
  <2>4. request' \in [Requests -> [pc : {"idle", "sent", "ok", "denied", "waiting"},
                                   token : MaybeToken, version : Nat,
                                   retried : BOOLEAN, call : Calls \cup {NoCall}]]
    <3> DEFINE R == [pc : {"idle", "sent", "ok", "denied", "waiting"}, token : MaybeToken,
                     version : Nat, retried : BOOLEAN, call : Calls \cup {NoCall}]
    <3>1. IdleRequest \in R
      BY DEF IdleRequest, MaybeToken
    <3>2. \A q \in Requests : request[q] \in R
      BY DEF PhoneInv, PhoneTypeOK
    <3> HIDE DEF R
    <3>3. \A q \in Requests : request'[q] \in R
      BY <1>1, <3>1, <3>2
    <3> QED BY <1>1, <3>3 DEF R
  <2>5. restoring' \in [call : Calls \cup {NoCall}, version : Nat, token : MaybeToken]
    BY <1>1 DEF PhoneInv, PhoneTypeOK, MaybeToken, NoRestore
  <2> QED BY <1>1, <2>1, <2>2, <2>3, <2>4, <2>5 DEF PhoneInv, PhoneTypeOK, MaybeToken
<1>11. PhoneTokens'
  BY <1>1, <1>6, <1>8 DEF PhoneInv, PhoneTokens, Of, store, IdleRequest
<1>12. Ownership'
  <2>1. ASSUME NEW q \in Requests
        PROVE  /\ request'[q].version <= session'.version
               /\ request'[q].pc # "idle" /\ request'[q].version = session'.version
                    => session'.user # NoOne /\ OwnedBy(request'[q].token, session'.user)
    <3>1. CASE q \in Waiters(c)
      BY <1>1, <1>8, <3>1, PhoneTyped DEF IdleRequest
    <3>2. CASE q \notin Waiters(c)
      <4>1. request'[q] = request[q] /\ request[q].version \in Nat /\ session.version \in Nat
        BY <1>1, <3>2 DEF PhoneInv, PhoneTypeOK
      <4> QED BY <1>8, <4>1 DEF PhoneInv, Ownership, OfSession
    <3> QED BY <3>1, <3>2
  <2>2. /\ OwnedBy(session'.refresh, session'.user) /\ OwnedBy(session'.access, session'.user)
        /\ session'.user # NoOne => session'.refresh # NoToken
    BY <1>8 DEF PhoneInv, Ownership, OwnedBy
  <2>3. \A d \in Calls :
          call'[d].new # NoToken => owner[call'[d].new] = owner[call'[d].token]
    BY <1>6 DEF PhoneInv, Ownership
  <2> QED BY <1>1, <2>1, <2>2, <2>3 DEF PhoneInv, Ownership, OwnedBy, OfSession, store
<1>13. Shapes'
  <2>1. \A d \in Calls : /\ call'[d].pc # "idle" <=> call'[d].token # NoToken
                         /\ call'[d].pc = "rotated" <=> call'[d].new # NoToken
                         /\ call'[d].pc \in {"rotated", "refused"}
                              => row[call'[d].token] = "revoked"
    BY <1>6 DEF PhoneInv, Shapes
  <2>2. \A d, e \in Calls : call'[d].pc # "idle" /\ call'[d].token = call'[e].token => d = e
    BY <1>6 DEF PhoneInv, Shapes
  <2>3. \A q \in Requests : request'[q].pc = "waiting"
           => request'[q].call \in Calls /\ call'[request'[q].call].pc # "idle"
    BY <1>1, <1>6, <1>7 DEF PhoneInv, Shapes, IdleRequest
  <2> QED BY <1>1, <2>1, <2>2, <2>3 DEF PhoneInv, Shapes, store
<1>14. Waiting'
  <2>1. \A q \in Requests :
           request'[q].pc = "waiting" => request'[q] = request[q] /\ request[q].call # c
    BY <1>1, <1>7 DEF IdleRequest
  <2>2. \A q \in Requests :
           request[q].pc = "waiting" /\ request[q].call # c => request'[q] = request[q]
    BY <1>1, <1>7
  <2>3. \A d \in Calls : d # c => Awaited(d)' = Awaited(d)
    BY <2>1, <2>2 DEF Awaited
  <2>4. shared'.version \in Nat /\ shared'.version <= session.version
    BY <1>1 DEF PhoneInv, PhoneTypeOK, Waiting
  <2>5. CASE clear
    <3>1. \A q \in Requests : request'[q].version # session'.version
      BY <1>1, <1>8, <2>5, PhoneTyped DEF PhoneInv, PhoneTypeOK, Ownership, IdleRequest
    <3>2. \A d : ~Wanted(d)'
      BY <3>1 DEF Wanted
    <3>3. shared'.version <= session'.version /\ shared'.version # session'.version
      BY <1>8, <2>4, <2>5, PhoneTyped
    <3>4. \A d \in Calls : d # c /\ call[d].pc # "idle" =>
             call[d].token # NoToken /\ (Awaited(d) \/ restoring'.call = d)
      BY <1>1 DEF PhoneInv, Shapes, Waiting
    <3> QED BY <1>6, <1>8, <2>3, <2>5, <3>2, <3>3, <3>4 DEF Waiting
  <2>6. CASE ~clear
    <3>1. session' = session /\ shared' = shared /\ ~Wanted(c)
      BY <1>1, <2>6 DEF clear
    <3>2. \A d \in Calls : d # c => Wanted(d)' = Wanted(d)
      BY <2>1, <2>2, <3>1 DEF Wanted
    <3>3. \A d \in Calls : d # c /\ restoring.call = d => restoring' = restoring
      BY <1>1
    <3>4. shared.call # NoCall /\ shared.version = session.version =>
             shared.call # c /\ shared.call \in Calls /\ Wanted(shared.call)
      BY <3>1 DEF PhoneInv, PhoneTypeOK, Waiting
    <3>5. shared.call # NoCall /\ shared.version = session.version => Wanted(shared.call)'
      BY <2>2, <3>1, <3>4 DEF Wanted
    <3>6. \A d \in Calls : d # c /\ call[d].pc # "idle" =>
            /\ Awaited(d) \/ restoring'.call = d
            /\ Wanted(d) => call[d].token = session.refresh
            /\ call[d].token = session.refresh
                 => Wanted(d) \/ (restoring'.call = d /\ restoring'.version = session.version)
      BY <3>3 DEF PhoneInv, Waiting
    <3> QED BY <1>6, <2>3, <2>4, <3>1, <3>2, <3>5, <3>6 DEF Waiting
  <2> QED BY <2>5, <2>6
<1>15. Exclusive'
  <2>1. ASSUME NEW t \in Tokens, Unseen(t)
        PROVE  t # session'.refresh /\ t \notin Spent' /\ \A d \in Calls : t # call'[d].token
    BY <1>2, <1>6, <1>8, <1>9, <2>1 DEF Unseen
  <2>2. /\ login.token # NoToken => login.token \in Tokens /\ Unseen(login.token)
        /\ \A d \in Calls : call[d].new # NoToken => call[d].new \in Tokens /\ Unseen(call[d].new)
    BY PhoneTyped DEF PhoneInv, Exclusive, MaybeToken
  <2>3. \A d \in Calls : call'[d].new # NoToken => d # c /\ call'[d].new = call[d].new
    BY <1>6
  <2>4. (login.token # NoToken => Unseen(login.token))'
    BY <1>1, <2>1, <2>2 DEF Unseen
  <2>5. \A d \in Calls : call'[d].new # NoToken =>
           /\ call'[d].new # session'.refresh /\ call'[d].new \notin Spent'
           /\ \A e \in Calls : call'[d].new # call'[e].token
    BY <2>1, <2>2, <2>3
  <2>6. /\ login'.token # NoToken => \A d \in Calls : call'[d].new # login'.token
        /\ \A d, e \in Calls : call'[d].new # NoToken /\ call'[d].new = call'[e].new => d = e
    BY <1>1, <2>3 DEF PhoneInv, Exclusive
  <2> QED BY <2>4, <2>5, <2>6 DEF Exclusive, Unseen
<1>16. Unspent'
  <2>1. \A d \in Calls : call'[d].pc = "sent" => (call'[d].token \in Spent => call'[d].token \in lost')
    BY <1>5, <1>6 DEF PhoneInv, Unspent, Retired
  <2>2. CASE clear
    BY <1>2, <1>8, <1>9, <2>1, <2>2 DEF Unspent, Retired, Spent
  <2>3. CASE ~clear /\ session.refresh = T
    BY <1>4, <1>5, <1>8, <1>9, <2>1, <2>3 DEF Unspent, Retired
  <2>4. CASE ~clear /\ session.refresh # T
    <3>1. \A d \in Calls : call[d].pc = "rotated" /\ call[d].token = session.refresh
                             => call'[d].pc = "rotated" /\ call'[d].token = session.refresh
      BY <1>6, <2>4 DEF T
    <3> QED BY <1>5, <1>8, <1>9, <2>1, <2>4, <3>1 DEF PhoneInv, Unspent, Retired
  <2> QED BY <2>2, <2>3, <2>4
<1>17. Covered'
  <2>1. ASSUME NEW t \in Tokens, row[t] = "active", device[t] = "phone" PROVE Known(t)'
    <3>1. Known(t) /\ t # NoToken
      BY <1>2, <2>1 DEF PhoneInv, Covered
    <3>2. CASE t = T \/ t = N
      <4>1. ~refused
        BY <1>2, <2>1, <3>1, <3>2
      <4> QED BY <1>5, <3>1, <3>2, <4>1 DEF Known
    <3>3. CASE t # T /\ t # N
      <4>1. \A d \in Calls : t = call[d].token \/ t = call[d].new
                               => t = call'[d].token \/ t = call'[d].new
        BY <1>6, <3>3 DEF T, N
      <4>2. t = session.refresh => t = session'.refresh
        BY <1>3, <1>8, <3>3
      <4> QED BY <1>1, <1>5, <3>1, <4>1, <4>2 DEF Known
    <3> QED BY <3>2, <3>3
  <2> QED BY <1>1, <2>1 DEF Covered, store
<1> QED BY <1>9, <1>10, <1>11, <1>12, <1>13, <1>14, <1>15, <1>16, <1>17 DEF PhoneInv

LEMMA RefreshEnds ==
    ASSUME PhoneInv, ServerTypeOK, Lineage, NEW c \in Calls,
           RefreshRefused(c) \/ RefreshLost(c)
    PROVE  PhoneInv' /\ Apart("web")
<1>1. CASE RefreshRefused(c)
  <2>1. call[c].pc = "refused" /\ RefreshFail(c, TRUE) /\ budget' \in [Events -> Nat]
    BY <1>1 DEF RefreshRefused, ServerTypeOK
  <2> QED BY <2>1, RefreshFailKeeps
<1>2. CASE RefreshLost(c)
  <2>1. call[c].pc # "idle" /\ RefreshFail(c, FALSE) /\ budget' \in [Events -> Nat]
    BY <1>2, SpendKeeps DEF RefreshLost, ServerTypeOK, Events
  <2> QED BY <2>1, RefreshFailKeeps
<1> QED BY <1>1, <1>2

\* At launch the app has what SecureStore held; whatever was on its way is
\* lost.
LEMMA RestartKeeps ==
    ASSUME PhoneInv, ServerTypeOK, Lineage, Restart
    PROVE  PhoneInv' /\ Apart("web")
<1> DEFINE T == saved.refresh
           old == IF saved # Persistent(session) THEN {session.refresh, saved.refresh} ELSE {}
           called == UNION {{call[c].token, call[c].new} : c \in Calls}
<1>1. /\ session' = [user |-> saved.user, refresh |-> T, access |-> NoToken, version |-> 0]
      /\ Lose({login.token} \cup old \cup called)
      /\ shared' = NoShared /\ login' = NoLogin
      /\ request' = [q \in Requests |-> IdleRequest]
      /\ UNCHANGED <<saved, revocations, store>> /\ budget' \in [Events -> Nat]
  BY SpendKeeps DEF Restart, SignedOut, ServerTypeOK, Events
<1>2. \/ /\ T = NoToken /\ restoring' = NoRestore /\ call' = [c \in Calls |-> IdleCall]
      \/ /\ T # NoToken
         /\ \E c \in Calls :
              /\ restoring' = [call |-> c, version |-> 0, token |-> T]
              /\ call' = [d \in Calls |-> IF d = c
                            THEN [IdleCall EXCEPT !.pc = "sent", !.token = T] ELSE IdleCall]
  BY DEF Restart
<1>3. /\ T \in MaybeToken /\ Of(T, "phone") /\ OwnedBy(T, saved.user)
      /\ saved.user # NoOne => T # NoToken
  BY PhoneTyped DEF PhoneInv, PhoneTokens, Ownership
<1>4. /\ lost \subseteq lost' /\ lost' \subseteq Tokens
      /\ \A t \in {login.token} \cup old \cup called : t # NoToken => t \in lost'
  <2>1. ({login.token} \cup old \cup called) \in SUBSET (Tokens \cup {NoToken})
    BY PhoneTyped DEF MaybeToken
  <2> QED BY <1>1, <2>1, LoseKeeps DEF ServerTypeOK
<1>5. /\ T # session.refresh => session.refresh \in old /\ T \in old
      /\ \A c \in Calls : call[c].token \in called /\ call[c].new \in called
  BY DEF Persistent
<1> HIDE DEF T, old, called
<1>6. Apart("web") /\ Spent' = Spent
  BY <1>1, <1>4, NothingStored DEF ServerTypeOK
<1>7. /\ \A c \in Calls :
            /\ call'[c].new = NoToken
            /\ \/ call'[c].pc = "idle" /\ call'[c].token = NoToken
               \/ /\ call'[c].pc = "sent" /\ call'[c].token = T /\ T # NoToken
                  /\ restoring'.call = c /\ restoring'.version = 0
      /\ restoring' \in [call : Calls \cup {NoCall}, version : Nat, token : MaybeToken]
      /\ call' \in [Calls -> [pc : {"idle", "sent", "rotated", "refused"},
                              token : MaybeToken, new : MaybeToken]]
  <2>1. CASE T = NoToken
    BY <1>2, <2>1 DEF IdleCall, NoRestore, MaybeToken
  <2>2. CASE T # NoToken
    <3>1. PICK c \in Calls :
            /\ restoring' = [call |-> c, version |-> 0, token |-> T]
            /\ call' = [d \in Calls |-> IF d = c
                            THEN [IdleCall EXCEPT !.pc = "sent", !.token = T] ELSE IdleCall]
      BY <1>2, <2>2
    <3> DEFINE r == [IdleCall EXCEPT !.pc = "sent", !.token = T]
               R == [pc : {"idle", "sent", "rotated", "refused"},
                     token : MaybeToken, new : MaybeToken]
    <3>2. /\ r.pc = "sent" /\ r.token = T /\ r.new = NoToken /\ r \in R
          /\ IdleCall \in R
      BY <1>3 DEF IdleCall, MaybeToken
    <3> HIDE DEF r, R
    <3>3. call' \in [Calls -> R]
      BY <3>1, <3>2 DEF r
    <3>4. restoring' \in [call : Calls \cup {NoCall}, version : Nat, token : MaybeToken]
      BY <1>3, <3>1
    <3>5. \A d \in Calls : call'[d] = IF d = c THEN r ELSE IdleCall
      BY <3>1 DEF r
    <3> QED BY <2>2, <3>1, <3>2, <3>3, <3>4, <3>5 DEF IdleCall, R
  <2> QED BY <2>1, <2>2
<1>8. PhoneTypeOK'
  BY <1>1, <1>3, <1>7 DEF PhoneInv, PhoneTypeOK, MaybeToken, NoShared, NoLogin, IdleRequest
<1>9. PhoneTokens'
  BY <1>1, <1>3, <1>7 DEF PhoneInv, PhoneTokens, Of, store, NoLogin, IdleRequest
<1>10. Ownership'
  BY <1>1, <1>3, <1>7 DEF PhoneInv, PhoneTypeOK, Ownership, OwnedBy, OfSession, store, NoLogin,
                          IdleRequest
<1>11. Shapes'
  BY <1>1, <1>7 DEF Shapes, NoLogin, IdleRequest
<1>12. Waiting'
  <2>1. \A c : ~Wanted(c)'
    BY <1>1 DEF Wanted, IdleRequest
  <2> QED BY <1>1, <1>7, <2>1 DEF Waiting, NoShared
<1>13. Exclusive'
  BY <1>1, <1>7 DEF Exclusive, NoLogin
<1>14. Unspent'
  <2>1. T \in Spent => T \in lost'
    <3>1. CASE T = session.refresh
      <4>1. ASSUME NEW c \in Calls, call[c].token = T, T # NoToken PROVE T \in lost'
        BY <1>4, <1>5, <4>1
      <4>2. T # NoToken \/ T \notin Spent
        BY PhoneTyped DEF Spent
      <4> QED BY <1>4, <3>1, <4>1, <4>2 DEF PhoneInv, Unspent, Retired
    <3>2. CASE T # session.refresh
      BY <1>4, <1>5, <3>2, PhoneTyped DEF Spent
    <3> QED BY <3>1, <3>2
  <2> QED BY <1>1, <1>6, <1>7, <2>1 DEF Unspent, Retired
<1>15. Covered'
  <2>1. ASSUME NEW t \in Tokens, row[t] = "active", device[t] = "phone" PROVE Known(t)'
    <3>1. Known(t) /\ t # NoToken
      BY <2>1, PhoneTyped DEF PhoneInv, Covered
    <3> QED BY <1>1, <1>4, <1>5, <3>1 DEF Known
  <2> QED BY <1>1, <2>1 DEF Covered, store
<1> QED BY <1>6, <1>8, <1>9, <1>10, <1>11, <1>12, <1>13, <1>14, <1>15 DEF PhoneInv

-----------------------------------------------------------------------------
(* The browser's steps *)

TabState == [open : BOOLEAN, user : Accounts \cup {NoOne}, hint : BOOLEAN]
AskState == [pc : {"idle", "sent", "ok", "denied", "waiting"}, token : Pair, retried : BOOLEAN]
RenewState == [pc : {"idle", "queued", "sent", "rotated", "refused", "reused"},
               token : Pair, new : Pair]
FormState == [pc : {"idle", "sent", "issued"}, account : Accounts \cup {NoOne}, token : Pair]
LeaveState == [pc : {"idle", "sent", "done"}, token : Pair]

\* The type invariant, record by record.
LEMMA WebTypes ==
    /\ WebTypeOK <=> /\ jar \in Pair /\ hint \in BOOLEAN
                     /\ tab \in [Tabs -> TabState] /\ ask \in [Tabs -> AskState]
                     /\ renew \in [Tabs -> RenewState] /\ form \in [Tabs -> FormState]
                     /\ leave \in [Tabs -> LeaveState]
    /\ WebTypeOK' <=> /\ jar' \in Pair /\ hint' \in BOOLEAN
                      /\ tab' \in [Tabs -> TabState] /\ ask' \in [Tabs -> AskState]
                      /\ renew' \in [Tabs -> RenewState] /\ form' \in [Tabs -> FormState]
                      /\ leave' \in [Tabs -> LeaveState]
BY DEF WebTypeOK, TabState, AskState, RenewState, FormState, LeaveState, Pair

LEMMA WebTyped ==
    ASSUME WebInv
    PROVE  /\ jar \in Pair /\ NoToken \in Pair /\ NoToken \notin Tokens
           /\ \A b \in Tabs : /\ renew[b].token \in Pair /\ renew[b].new \in Pair
                              /\ form[b].token \in Pair /\ leave[b].token \in Pair
           /\ \A t \in Pair : t # NoToken => t \in Tokens
BY TokenAssumption DEF WebInv, WebTypeOK, Pair

\* Steps that concern what a tab shows and asks, or end its logout.
LEMMA AskSteps ==
    ASSUME WebInv, ServerTypeOK, Lineage, NEW b \in Tabs,
           \/ AskSend(b) \/ AskServe(b) \/ AskDeliver(b) \/ AskDenied(b)
           \/ LeaveSend(b) \/ LeaveServe(b)
    PROVE  WebInv' /\ Apart("phone")
<1>1. CASE AskSend(b) \/ AskServe(b) \/ AskDeliver(b) \/ AskDenied(b) \/ LeaveSend(b)
  <2>1. /\ UNCHANGED <<jar, renew, form, store, lost>> /\ budget' \in [Events -> Nat]
    BY <1>1, SpendKeeps DEF AskSend, AskServe, AskDeliver, AskDenied, LeaveSend, serverVars,
                            ServerTypeOK, Events
  <2>2. Apart("phone") /\ Apart("web") /\ StoreInv
    BY <2>1, NothingStored DEF ServerTypeOK
  <2>3. WebTypeOK' /\ \A d \in Tabs : ~tab'[d].open => ask'[d].pc = "idle" /\ renew[d].pc = "idle"
    <3>0. /\ WebTypeOK /\ jar \in Pair /\ NoToken \in Pair
          /\ \A d \in Tabs : ~tab[d].open => ask[d].pc = "idle" /\ renew[d].pc = "idle"
      BY WebTyped DEF WebInv, WebShapes
    <3>1. CASE AskSend(b)
      <4>1. ask' \in [Tabs -> AskState] /\ UNCHANGED <<jar, hint, tab, renew, form, leave>>
        BY <3>0, <3>1, WebTypes DEF AskSend, Asked, AskState
      <4> QED BY <3>0, <3>1, <4>1, WebTypes DEF AskSend
    <3>2. CASE AskServe(b)
      <4>1. ask' \in [Tabs -> AskState] /\ UNCHANGED <<jar, hint, tab, renew, form, leave>>
        BY <3>0, <3>2, WebTypes DEF AskServe, AskState
      <4>2. ask[b].pc = "sent" /\ \A d \in Tabs : d # b => ask'[d] = ask[d]
        BY <3>0, <3>2, WebTypes DEF AskServe
      <4> QED BY <3>0, <4>1, <4>2, WebTypes
    <3>3. CASE AskDeliver(b)
      <4>1. ask' \in [Tabs -> AskState] /\ UNCHANGED <<jar, hint, tab, renew, form, leave>>
        BY <3>0, <3>3, WebTypes DEF AskDeliver, NoAsk, AskState
      <4> QED BY <3>0, <3>3, <4>1, WebTypes DEF AskDeliver, NoAsk
    <3>4. CASE AskDenied(b)
      <4>1. /\ ask' \in [Tabs -> AskState] /\ UNCHANGED <<jar, renew, form, leave>>
            /\ \A d \in Tabs : d # b => ask'[d] = ask[d]
            /\ ask'[b].pc = "idle"
        BY <3>0, <3>4, WebTypes DEF AskDenied, NoAsk, AskState
      <4>2. /\ tab' \in [Tabs -> TabState] /\ hint' \in BOOLEAN
            /\ \A d \in Tabs : tab'[d].open = tab[d].open
        BY <3>0, <3>4, WebTypes DEF AskDenied, SetUser, TabState
      <4> QED BY <3>0, <4>1, <4>2, WebTypes
    <3>5. CASE LeaveSend(b)
      <4>1. leave' \in [Tabs -> LeaveState] /\ UNCHANGED <<jar, ask, renew, form>>
        BY <3>0, <3>5, WebTypes DEF LeaveSend, LeaveState
      <4>2. /\ tab' \in [Tabs -> TabState] /\ hint' \in BOOLEAN
            /\ \A d \in Tabs : tab'[d].open = tab[d].open
        BY <3>0, <3>5, WebTypes DEF LeaveSend, SetUser, TabState
      <4> QED BY <3>0, <4>1, <4>2, WebTypes
    <3> QED BY <1>1, <3>1, <3>2, <3>3, <3>4, <3>5
  <2> QED BY <2>1, <2>2, <2>3, WebUndisturbed DEF Apart
<1>2. CASE LeaveServe(b)
  <2>1. /\ RevokeRows({leave[b].token}) /\ usable' = usable \ {leave[b].token}
        /\ UNCHANGED <<owner, device, parent>> /\ leave' = [leave EXCEPT ![b].pc = "done"]
        /\ UNCHANGED <<jar, hint, tab, ask, renew, form, lost, budget>>
    BY <1>2 DEF LeaveServe, Logout
  <2>2. StoreInv
    BY DEF StoreInv, StoreType, ServerTypeOK
  <2>3. StoreInv' /\ Grown /\ Foreign("phone") /\ Foreign("web")
    BY <2>1, <2>2, RevokeKeeps
  <2>4. Apart("phone")
    BY <2>1, <2>3 DEF Apart, ServerTypeOK, StoreInv, StoreType
  <2>5. leave' \in [Tabs -> LeaveState]
    BY <2>1, WebTypes DEF WebInv, LeaveState
  <2>6. WebTypeOK'
    BY <2>1, <2>5, WebTypes DEF WebInv
  <2>7. \A d \in Tabs : ~tab'[d].open => ask'[d].pc = "idle" /\ renew[d].pc = "idle"
    BY <2>1 DEF WebInv, WebShapes
  <2> QED BY <2>1, <2>2, <2>3, <2>4, <2>6, <2>7, WebUndisturbed
<1> QED BY <1>1, <1>2

LEMMA TabOpenKeeps ==
    ASSUME WebInv, ServerTypeOK, Lineage, NEW b \in Tabs, TabOpen(b)
    PROVE  WebInv' /\ Apart("phone")
<1>1. /\ tab' = [tab EXCEPT ![b] = [open |-> TRUE, user |-> NoOne, hint |-> hint]]
      /\ renew' = [renew EXCEPT ![b].pc = IF hint THEN "queued" ELSE "idle"]
      /\ renew[b].pc = "idle"
      /\ UNCHANGED <<jar, hint, ask, form, leave, store, lost>> /\ budget' \in [Events -> Nat]
  BY SpendKeeps DEF TabOpen, ServerTypeOK, Events, WebInv, WebShapes
<1>2. Apart("phone") /\ Spent' = Spent
  BY <1>1, NothingStored DEF ServerTypeOK
<1>3. WebTypeOK'
  <2>1. tab' \in [Tabs -> TabState]
    BY <1>1, WebTypes DEF WebInv, TabState
  <2>2. renew' \in [Tabs -> RenewState]
    BY <1>1, WebTypes DEF WebInv, RenewState
  <2> QED BY <1>1, <2>1, <2>2, WebTypes DEF WebInv
<1>4. /\ \A d \in Tabs : /\ d # b => renew'[d] = renew[d]
                         /\ renew'[d].token = renew[d].token /\ renew'[d].new = renew[d].new
      /\ renew'[b].pc \in {"idle", "queued"}
      /\ \A d \in Tabs : d # b => tab'[d] = tab[d]
      /\ tab'[b].open
  BY <1>1 DEF WebInv, WebTypeOK
<1>5. WebTokens'
  BY <1>1, <1>4 DEF WebInv, WebTokens, Of, store
<1>6. WebShapes'
  BY <1>1, <1>4 DEF WebInv, WebShapes, Holding
<1>7. WebExclusive'
  BY <1>1, <1>2, <1>4 DEF WebInv, WebExclusive, WebUnseen
<1>8. WebUnspent'
  BY <1>1, <1>2, <1>4 DEF WebInv, WebUnspent, Retired
<1> QED BY <1>2, <1>3, <1>5, <1>6, <1>7, <1>8 DEF WebInv

LEMMA TabCloseKeeps ==
    ASSUME WebInv, ServerTypeOK, Lineage, NEW b \in Tabs, TabClose(b)
    PROVE  WebInv' /\ Apart("phone")
<1>1. /\ tab' = [tab EXCEPT ![b] = Closed] /\ ask' = [ask EXCEPT ![b] = NoAsk]
      /\ renew' = [renew EXCEPT ![b] = NoRenew] /\ form' = [form EXCEPT ![b] = NoForm]
      /\ leave' = [leave EXCEPT ![b] = NoLeave]
      /\ Lose({renew[b].token, renew[b].new, form[b].token, leave[b].token})
      /\ UNCHANGED <<jar, hint, store>> /\ budget' \in [Events -> Nat]
  BY SpendKeeps DEF TabClose, ServerTypeOK, Events
<1>2. /\ lost \subseteq lost' /\ lost' \subseteq Tokens
      /\ renew[b].token # NoToken => renew[b].token \in lost'
  <2>1. {renew[b].token, renew[b].new, form[b].token, leave[b].token}
          \in SUBSET (Tokens \cup {NoToken})
    BY WebTyped DEF Pair
  <2> QED BY <1>1, <2>1, LoseKeeps DEF ServerTypeOK
<1>3. Apart("phone") /\ Spent' = Spent
  BY <1>1, <1>2, NothingStored DEF ServerTypeOK
<1>4. WebTypeOK'
  BY <1>1 DEF WebInv, WebTypeOK, Pair, Closed, NoAsk, NoRenew, NoForm, NoLeave
<1>5. /\ \A d \in Tabs : d # b => /\ renew'[d] = renew[d] /\ form'[d] = form[d]
                                  /\ tab'[d] = tab[d] /\ ask'[d] = ask[d]
      /\ renew'[b].pc = "idle" /\ renew'[b].token = NoToken /\ renew'[b].new = NoToken
      /\ form'[b].pc = "idle" /\ form'[b].token = NoToken /\ ask'[b].pc = "idle"
  BY <1>1 DEF WebInv, WebTypeOK, NoAsk, NoRenew, NoForm
<1>6. WebTokens'
  BY <1>1, <1>5 DEF WebInv, WebTokens, Of, store
<1>7. WebShapes'
  BY <1>1, <1>5 DEF WebInv, WebShapes, Holding
<1>8. WebExclusive'
  BY <1>1, <1>3, <1>5, WebTyped DEF WebInv, WebExclusive, WebUnseen, Spent
<1>9. WebUnspent'
  <2>1. \A d \in Tabs : renew'[d].pc = "sent" => Retired(renew[d].token) /\ renew'[d] = renew[d]
    BY <1>5 DEF WebInv, WebUnspent
  <2>2. Retired(jar)' \/ \E d \in Tabs : renew'[d].pc = "rotated" /\ renew'[d].token = jar
    <3>1. CASE \E d \in Tabs \ {b} : renew[d].pc = "rotated" /\ renew[d].token = jar
      BY <1>5, <3>1
    <3>2. CASE renew[b].pc = "rotated" /\ renew[b].token = jar
      BY <1>1, <1>2, <3>2 DEF Retired, WebInv, WebShapes
    <3>3. CASE Retired(jar)
      BY <1>1, <1>2, <1>3, <3>3 DEF Retired
    <3> QED BY <3>1, <3>2, <3>3 DEF WebInv, WebUnspent
  <2> QED BY <1>1, <1>2, <1>3, <2>1, <2>2 DEF WebUnspent, Retired
<1> QED BY <1>3, <1>4, <1>6, <1>7, <1>8, <1>9 DEF WebInv

LEMMA FormSendKeeps ==
    ASSUME WebInv, ServerTypeOK, Lineage, NEW b \in Tabs, NEW a \in Accounts, FormSend(b, a)
    PROVE  WebInv' /\ Apart("phone")
<1>1. /\ form' = [form EXCEPT ![b] = [NoForm EXCEPT !.pc = "sent", !.account = a]]
      /\ UNCHANGED <<jar, hint, tab, ask, renew, leave, store, lost>>
      /\ budget' \in [Events -> Nat]
  BY SpendKeeps DEF FormSend, ServerTypeOK, Events
<1>2. Apart("phone") /\ Spent' = Spent
  BY <1>1, NothingStored DEF ServerTypeOK
<1>3. WebTypeOK'
  <2>1. [NoForm EXCEPT !.pc = "sent", !.account = a] \in FormState
    BY WebTyped DEF NoForm, FormState
  <2>2. form' \in [Tabs -> FormState]
    BY <1>1, <2>1, WebTypes DEF WebInv
  <2> QED BY <1>1, <2>2, WebTypes DEF WebInv
<1>4. /\ \A d \in Tabs : d # b => form'[d] = form[d]
      /\ form'[b].pc = "sent" /\ form'[b].account = a /\ form'[b].token = NoToken
  BY <1>1, WebTypes DEF WebInv, NoForm
<1>5. WebTokens'
  BY <1>1, <1>4 DEF WebInv, WebTokens, Of, store
<1>6. WebShapes'
  BY <1>1, <1>4 DEF WebInv, WebShapes, Holding
<1>7. WebExclusive' /\ WebUnspent'
  BY <1>1, <1>2, <1>4 DEF WebInv, WebExclusive, WebUnseen, WebUnspent, Retired
<1> QED BY <1>2, <1>3, <1>5, <1>6, <1>7 DEF WebInv

LEMMA FormServeKeeps ==
    ASSUME WebInv, ServerTypeOK, Lineage, NEW b \in Tabs, NEW t \in Tokens, FormServe(b, t)
    PROVE  WebInv' /\ Apart("phone")
<1>1. /\ form[b].pc = "sent" /\ Issue(t, form[b].account, "web")
      /\ form' = [form EXCEPT ![b].pc = "issued", ![b].token = t]
      /\ UNCHANGED <<jar, hint, tab, ask, renew, leave, lost, budget>>
  BY DEF FormServe
<1>2. /\ StoreInv /\ form[b].account \in Accounts
      /\ "phone" \in Devices /\ "web" \in Devices /\ t # NoToken
  BY <1>1, TokenAssumption DEF ServerTypeOK, StoreInv, StoreType, WebInv, WebShapes, Devices
<1>3. /\ StoreInv' /\ Grown /\ Spent' = Spent
      /\ row[t] = "none" /\ row'[t] = "active" /\ device'[t] = "web" /\ t \notin Spent
      /\ Foreign("phone")
  BY <1>1, <1>2, IssueKeeps
<1>4. Apart("phone")
  BY <1>1, <1>3 DEF Apart, ServerTypeOK, StoreInv, StoreType
<1>5. \A u \in Pair : Of(u, "web") =>
         u # t /\ (u # NoToken => row'[u] # "none" /\ device'[u] = "web")
  BY <1>2, <1>3 DEF Of, Grown, Pair
<1>6. WebTypeOK'
  <2>1. form' \in [Tabs -> FormState]
    BY <1>1, WebTypes DEF WebInv, FormState, Pair
  <2> QED BY <1>1, <2>1, WebTypes DEF WebInv
<1>7. /\ \A d \in Tabs : d # b => form'[d] = form[d]
      /\ form'[b].pc = "issued" /\ form'[b].account = form[b].account /\ form'[b].token = t
  BY <1>1 DEF WebInv, WebTypeOK
<1>8. WebTokens'
  <2>1. \A u \in Pair : Of(u, "web") => (u # NoToken => row'[u] # "none" /\ device'[u] = "web")
    BY <1>5
  <2>2. (Of(jar, "web") /\ \A d \in Tabs : Of(renew[d].token, "web") /\ Of(renew[d].new, "web"))'
    BY <1>1, <2>1, WebTyped DEF WebInv, WebTokens, Of
  <2>3. \A d \in Tabs : d # b =>
           (form[d].token # NoToken => row'[form[d].token] # "none"
                                       /\ device'[form[d].token] = "web")
    BY <2>1, WebTyped DEF WebInv, WebTokens
  <2>4. \A d \in Tabs :
           (form'[d].token # NoToken => row'[form'[d].token] # "none"
                                        /\ device'[form'[d].token] = "web")
    BY <1>3, <1>7, <2>3
  <2> QED BY <2>2, <2>4 DEF WebTokens, Of
<1>9. WebShapes'
  <2>1. \A d \in Tabs : /\ form'[d].pc = "issued" <=> form'[d].token # NoToken
                        /\ form'[d].pc # "idle" => form'[d].account \in Accounts
    BY <1>2, <1>7 DEF WebInv, WebShapes
  <2>2. renew' = renew /\ ask' = ask /\ tab' = tab
    BY <1>1
  <2> QED BY <2>1, <2>2 DEF WebInv, WebShapes, Holding
<1>10. WebExclusive'
  <2>1. /\ t # jar /\ \A d \in Tabs : /\ t # renew[d].token /\ t # renew[d].new
                                      /\ t # form[d].token
    BY <1>5, WebTyped DEF WebInv, WebTokens
  <2>2. ASSUME NEW d \in Tabs, form'[d].token # NoToken
        PROVE  /\ form'[d].token # jar /\ form'[d].token \notin Spent
               /\ \A e \in Tabs : /\ form'[d].token # renew[e].token
                                  /\ form'[d].token # renew[e].new
                                  /\ form'[d].token = form'[e].token => d = e
    <3>1. CASE d = b
      BY <1>3, <1>7, <2>1, <3>1
    <3>2. CASE d # b
      <4>1. form'[d] = form[d] /\ form[d].token # NoToken
        BY <1>7, <2>2, <3>2
      <4>2. /\ WebUnseen(form[d].token)
            /\ \A e \in Tabs : /\ form[d].token # renew[e].new
                               /\ form[d].token = form[e].token => d = e
        BY <4>1 DEF WebInv, WebExclusive
      <4> QED BY <1>7, <2>1, <4>1, <4>2 DEF WebUnseen
    <3> QED BY <3>1, <3>2
  <2>3. \A d \in Tabs : renew[d].new # NoToken =>
           /\ renew[d].new # jar /\ renew[d].new \notin Spent
           /\ \A e \in Tabs : renew[d].new # renew[e].token
    BY DEF WebInv, WebExclusive, WebUnseen
  <2>4. jar' = jar /\ renew' = renew
    BY <1>1
  <2> QED BY <1>3, <2>2, <2>3, <2>4 DEF WebExclusive, WebUnseen
<1>11. WebUnspent'
  BY <1>1, <1>3 DEF WebInv, WebUnspent, Retired
<1> QED BY <1>4, <1>6, <1>8, <1>9, <1>10, <1>11 DEF WebInv

LEMMA FormReceiveKeeps ==
    ASSUME WebInv, ServerTypeOK, Lineage, NEW b \in Tabs, FormReceive(b)
    PROVE  WebInv' /\ Apart("phone")
<1>1. /\ form[b].pc = "issued" /\ jar' = form[b].token
      /\ tab' = [tab EXCEPT ![b].user = form[b].account,
                            ![b].hint = form[b].account # NoOne]
      /\ hint' = (form[b].account # NoOne) /\ form' = [form EXCEPT ![b] = NoForm]
      /\ UNCHANGED <<ask, renew, leave, store, lost, budget>>
  BY DEF FormReceive, SetUser, serverVars
<1>2. Apart("phone") /\ Spent' = Spent
  BY <1>1, NothingStored DEF ServerTypeOK
<1>3. WebTypeOK'
  <2>1. form' \in [Tabs -> FormState] /\ jar' \in Pair
    BY <1>1, WebTypes, WebTyped DEF WebInv, FormState, NoForm
  <2>2. tab' \in [Tabs -> TabState] /\ hint' \in BOOLEAN
    BY ZenonT(60), <1>1, WebTypes DEF WebInv, TabState, FormState
  <2> QED BY <1>1, <2>1, <2>2, WebTypes DEF WebInv
<1>4. /\ \A d \in Tabs : d # b => form'[d] = form[d]
      /\ form'[b].pc = "idle" /\ form'[b].token = NoToken
      /\ \A d \in Tabs : tab'[d].open = tab[d].open
      /\ form[b].token # NoToken
  BY <1>1 DEF WebInv, WebTypeOK, NoForm, WebShapes
<1>5. WebTokens'
  BY <1>1, <1>4 DEF WebInv, WebTokens, Of, store
<1>6. WebShapes'
  <2>1. \A d \in Tabs : /\ form'[d].pc = "issued" <=> form'[d].token # NoToken
                        /\ form'[d].pc # "idle" => form'[d].account \in Accounts
    BY <1>4 DEF WebInv, WebShapes
  <2>2. renew' = renew /\ ask' = ask /\ \A d \in Tabs : tab'[d].open = tab[d].open
    BY <1>1, <1>4
  <2> QED BY <2>1, <2>2 DEF WebInv, WebShapes, Holding
<1>7. WebExclusive'
  BY <1>1, <1>2, <1>4 DEF WebInv, WebExclusive, WebUnseen
<1>8. WebUnspent'
  BY <1>1, <1>2, <1>4 DEF WebInv, WebUnspent, WebExclusive, WebUnseen, Retired
<1> QED BY <1>2, <1>3, <1>5, <1>6, <1>7, <1>8 DEF WebInv

LEMMA LeaveReceiveKeeps ==
    ASSUME WebInv, ServerTypeOK, Lineage, NEW b \in Tabs, LeaveReceive(b)
    PROVE  WebInv' /\ Apart("phone")
<1>1. /\ jar' = NoToken /\ leave' = [leave EXCEPT ![b] = NoLeave]
      /\ UNCHANGED <<hint, tab, ask, renew, form, store, lost, budget>>
  BY DEF LeaveReceive, serverVars
<1>2. Apart("phone") /\ Spent' = Spent
  BY <1>1, NothingStored DEF ServerTypeOK
<1>3. WebTypeOK' /\ WebTokens' /\ WebShapes'
  BY <1>1 DEF WebInv, WebTypeOK, Pair, NoLeave, WebTokens, Of, store, WebShapes, Holding
<1>4. WebExclusive' /\ WebUnspent'
  BY <1>1, <1>2, WebTyped DEF WebInv, WebExclusive, WebUnseen, WebUnspent, Retired, Spent
<1> QED BY <1>2, <1>3, <1>4 DEF WebInv

-----------------------------------------------------------------------------
(* The browser's steps: refreshes *)

LEMMA AskRefreshKeeps ==
    ASSUME WebInv, ServerTypeOK, Lineage, NEW b \in Tabs, AskRefresh(b)
    PROVE  WebInv' /\ Apart("phone")
<1>1. /\ ask[b].pc = "denied" /\ ask' = [ask EXCEPT ![b].pc = "waiting"]
      /\ renew' = IF renew[b].pc = "idle" THEN [renew EXCEPT ![b].pc = "queued"] ELSE renew
      /\ UNCHANGED <<jar, hint, tab, form, leave, store, lost, budget>>
  BY DEF AskRefresh, serverVars
<1>2. Apart("phone") /\ Spent' = Spent
  BY <1>1, NothingStored DEF ServerTypeOK
<1>3. WebTypeOK'
  <2>1. ask' \in [Tabs -> AskState]
    BY <1>1, WebTypes DEF WebInv, AskState
  <2>2. renew' \in [Tabs -> RenewState]
    BY <1>1, WebTypes DEF WebInv, RenewState
  <2> QED BY <1>1, <2>1, <2>2, WebTypes DEF WebInv
<1>4. /\ \A d \in Tabs : /\ d # b => renew'[d] = renew[d] /\ ask'[d] = ask[d]
                         /\ renew'[d].token = renew[d].token /\ renew'[d].new = renew[d].new
                         /\ renew'[d].pc # renew[d].pc
                              => renew'[d].pc = "queued" /\ renew[d].pc = "idle"
      /\ tab[b].open
  BY <1>1 DEF WebInv, WebTypeOK, WebShapes
<1>5. WebTokens'
  BY <1>1, <1>4 DEF WebInv, WebTokens, Of, store
<1>6. WebShapes'
  <2>1. \A d \in Tabs : Holding(d)' <=> Holding(d)
    BY <1>4 DEF Holding
  <2> QED BY <1>1, <1>4, <2>1 DEF WebInv, WebShapes
<1>7. WebExclusive'
  BY <1>1, <1>2, <1>4 DEF WebInv, WebExclusive, WebUnseen
<1>8. WebUnspent'
  BY <1>1, <1>2, <1>4 DEF WebInv, WebUnspent, Retired
<1> QED BY <1>2, <1>3, <1>5, <1>6, <1>7, <1>8 DEF WebInv

LEMMA RenewSendKeeps ==
    ASSUME WebInv, ServerTypeOK, Lineage, NEW b \in Tabs, RenewSend(b)
    PROVE  WebInv' /\ Apart("phone")
<1>1. /\ renew[b].pc = "queued" /\ \A d \in Tabs : ~Holding(d)
      /\ renew' = [renew EXCEPT ![b].pc = "sent", ![b].token = jar]
      /\ UNCHANGED <<jar, hint, tab, ask, form, leave, store, lost, budget>>
  BY DEF RenewSend, LockFree, serverVars
<1>2. Apart("phone") /\ Spent' = Spent
  BY <1>1, NothingStored DEF ServerTypeOK
<1>3. WebTypeOK'
  <2>1. renew' \in [Tabs -> RenewState]
    BY <1>1, WebTypes DEF WebInv, RenewState
  <2> QED BY <1>1, <2>1, WebTypes DEF WebInv
<1>4. /\ \A d \in Tabs : d # b => renew'[d] = renew[d] /\ renew[d].token = NoToken
      /\ \A d \in Tabs : renew[d].new = NoToken /\ renew'[d].new = NoToken
      /\ renew'[b].pc = "sent" /\ renew'[b].token = jar
      /\ tab[b].open
      /\ \A d \in Tabs : form[d].token # NoToken => form[d].token # jar
  BY <1>1 DEF WebInv, WebTypeOK, WebShapes, Holding, WebExclusive, WebUnseen
<1>5. WebTokens'
  BY ZenonT(60), <1>1, <1>4 DEF WebInv, WebTokens, Of, store
<1>6. WebShapes'
  <2>1. \A d \in Tabs : Holding(d)' <=> d = b
    BY <1>1, <1>4 DEF Holding
  <2>2. \A d \in Tabs : renew'[d].pc # "rotated" /\ (~tab[d].open => renew'[d].pc = "idle")
    <3>1. \A d \in Tabs : renew[d].pc # "rotated" /\ (~tab[d].open => renew[d].pc = "idle")
      BY <1>1 DEF Holding, WebInv, WebShapes
    <3> QED BY <1>4, <3>1
  <2>3. UNCHANGED <<tab, ask, form>>
    BY <1>1
  <2> QED BY <1>4, <2>1, <2>2, <2>3 DEF WebInv, WebShapes
<1>7. WebExclusive'
  <2>1. \A d \in Tabs : form[d].token # NoToken =>
           /\ WebUnseen(form[d].token)
           /\ \A e \in Tabs : form[d].token = form[e].token => d = e
    BY DEF WebInv, WebExclusive
  <2>2. \A d \in Tabs : form[d].token # NoToken =>
           \A e \in Tabs : form[d].token # renew'[e].token
    BY <1>4, <2>1 DEF WebUnseen
  <2> QED BY <1>1, <1>2, <1>4, <2>1, <2>2 DEF WebExclusive, WebUnseen
<1>8. WebUnspent'
  <2>1. Retired(jar)
    BY <1>1 DEF WebInv, WebUnspent, Holding
  <2>2. \A d \in Tabs : d # b => renew'[d].pc # "sent"
    BY <1>1, <1>4 DEF Holding
  <2>3. \A d \in Tabs : renew'[d].pc = "sent" => renew'[d].token = jar
    BY <1>4, <2>2
  <2>4. (jar \in Spent => jar \in lost)'
    BY <1>1, <1>2, <2>1 DEF Retired
  <2> QED BY <1>1, <2>3, <2>4 DEF WebUnspent, Retired
<1> QED BY <1>2, <1>3, <1>5, <1>6, <1>7, <1>8 DEF WebInv

\* A tab leaves the critical section: with the new pair, or without it.
LEMMA RenewEnds ==
    ASSUME WebInv, UNCHANGED <<store, form>>, lost \subseteq lost', NEW b \in Tabs,
           Holding(b), RenewDone(b), WebTypeOK', Spent' = Spent,
           jar' \in {jar, NoToken} \/ (renew[b].pc = "rotated" /\ jar' = renew[b].new),
           renew[b].pc = "rotated" => jar' = renew[b].new \/ renew[b].token \in lost',
           \A d \in Tabs : tab'[d].open = tab[d].open /\ (d # b => ask'[d] = ask[d])
    PROVE  WebInv'
<1>1. /\ \A d \in Tabs : d # b => renew'[d] = renew[d] /\ ~Holding(d)
      /\ renew'[b].pc = "idle" /\ renew'[b].token = NoToken /\ renew'[b].new = NoToken
      /\ tab[b].open
  BY DEF RenewDone, NoRenew, WebInv, WebTypeOK, WebShapes, Holding
<1>2. \A d \in Tabs : renew'[d].token = NoToken /\ renew'[d].new = NoToken
  BY <1>1 DEF WebInv, WebShapes, Holding
<1>3. WebTokens'
  BY <1>2 DEF WebInv, WebTokens, Of, store
<1>4. WebShapes'
  <2>1. \A d \in Tabs : ~Holding(d)' /\ renew'[d].pc # "rotated"
    BY <1>1 DEF Holding
  <2>2. \A d \in Tabs : ~tab'[d].open => ask'[d].pc = "idle" /\ renew'[d].pc = "idle"
    BY <1>1 DEF WebInv, WebShapes
  <2> QED BY <1>2, <2>1, <2>2 DEF WebInv, WebShapes
<1>5. WebExclusive'
  BY <1>2 DEF WebInv, WebExclusive, WebUnseen
<1>6. WebUnspent'
  <2>1. \A d \in Tabs : renew'[d].pc # "sent"
    BY <1>1 DEF Holding
  <2>2. CASE renew[b].pc = "rotated" /\ jar' = renew[b].new
    BY <2>1, <2>2 DEF WebUnspent, Retired, WebInv, WebShapes, WebExclusive, WebUnseen
  <2>3. CASE jar' = NoToken
    BY <2>1, <2>3, TokenAssumption DEF WebUnspent, Retired, Spent
  <2>4. CASE jar' = jar /\ ~(renew[b].pc = "rotated" /\ jar' = renew[b].new)
    <3>1. Retired(jar) \/ (renew[b].pc = "rotated" /\ renew[b].token = jar)
      BY <1>1 DEF WebInv, WebUnspent, Holding
    <3> QED BY <2>1, <2>4, <3>1 DEF WebUnspent, Retired
  <2> QED BY <2>2, <2>3, <2>4
<1> QED BY <1>3, <1>4, <1>5, <1>6 DEF WebInv

LEMMA RenewSucceedKeeps ==
    ASSUME WebInv, ServerTypeOK, Lineage, NEW b \in Tabs, RenewSucceed(b)
    PROVE  WebInv' /\ Apart("phone")
<1>1. /\ renew[b].pc = "rotated" /\ jar' = renew[b].new
      /\ tab' = [tab EXCEPT ![b].user = owner[renew[b].new],
                            ![b].hint = owner[renew[b].new] # NoOne]
      /\ hint' = (owner[renew[b].new] # NoOne)
      /\ ask' = IF ask[b].pc = "waiting"
                THEN [ask EXCEPT ![b] = [Asked(TRUE) EXCEPT !.token = renew[b].new]] ELSE ask
      /\ RenewDone(b) /\ UNCHANGED <<form, leave, store, lost, budget>>
  BY DEF RenewSucceed, SetUser, serverVars
<1>2. Apart("phone") /\ Spent' = Spent
  BY <1>1, NothingStored DEF ServerTypeOK
<1>3. renew[b].new \in Tokens /\ renew[b].new \in Pair /\ jar \in Pair
  BY <1>1, WebTyped DEF WebInv, WebShapes
<1>4. WebTypeOK'
  <2>1. tab' \in [Tabs -> TabState] /\ hint' \in BOOLEAN
    BY ZenonT(60), <1>1, <1>3, WebTypes DEF WebInv, TabState, ServerTypeOK
  <2>2. ask' \in [Tabs -> AskState]
    <3>1. [Asked(TRUE) EXCEPT !.token = renew[b].new] \in AskState
      BY <1>3 DEF Asked, AskState
    <3> QED BY <1>1, <3>1, WebTypes DEF WebInv
  <2>3. renew' \in [Tabs -> RenewState]
    BY <1>1, WebTypes, WebTyped DEF WebInv, RenewDone, NoRenew, RenewState
  <2> QED BY <1>1, <1>3, <2>1, <2>2, <2>3, WebTypes DEF WebInv
<1>5. \A d \in Tabs : tab'[d].open = tab[d].open /\ (d # b => ask'[d] = ask[d])
  <2>1. \A d \in Tabs : tab'[d].open = tab[d].open
    BY <1>1, WebTypes DEF WebInv, TabState
  <2>2. \A d \in Tabs : d # b => ask'[d] = ask[d]
    BY <1>1, WebTypes DEF WebInv
  <2> QED BY <2>1, <2>2
<1>6. Holding(b)
  BY <1>1 DEF Holding
<1>7. WebInv'
  BY <1>1, <1>2, <1>4, <1>5, <1>6, RenewEnds
<1> QED BY <1>2, <1>7

LEMMA RenewFailedKeeps ==
    ASSUME WebInv, ServerTypeOK, Lineage, NEW b \in Tabs, RenewRefused(b) \/ RenewLost(b)
    PROVE  WebInv' /\ Apart("phone")
<1>1. /\ tab' = [tab EXCEPT ![b].user = NoOne, ![b].hint = NoOne # NoOne]
      /\ hint' = (NoOne # NoOne)
      /\ ask' = IF ask[b].pc = "waiting" THEN [ask EXCEPT ![b] = NoAsk] ELSE ask
      /\ RenewDone(b) /\ UNCHANGED <<form, leave, store>>
      /\ Holding(b) /\ jar' \in {jar, NoToken}
  BY DEF RenewRefused, RenewLost, RenewFailed, SetUser, Holding
<1>2. /\ lost \subseteq lost' /\ lost' \subseteq Tokens /\ budget' \in [Events -> Nat]
      /\ renew[b].pc = "rotated" => renew[b].token \in lost'
  <2>1. CASE RenewRefused(b)
    BY <2>1 DEF RenewRefused, ServerTypeOK
  <2>2. CASE RenewLost(b)
    <3>1. /\ {renew[b].token, renew[b].new} \in SUBSET (Tokens \cup {NoToken})
          /\ Lose({renew[b].token, renew[b].new}) /\ budget' \in [Events -> Nat]
      BY <2>2, WebTyped, SpendKeeps DEF RenewLost, Pair, ServerTypeOK, Events
    <3>2. /\ lost \subseteq lost' /\ lost' \subseteq Tokens
          /\ {renew[b].token, renew[b].new} \ {NoToken} \subseteq lost'
      BY <3>1, LoseKeeps DEF ServerTypeOK
    <3> QED BY <3>1, <3>2 DEF WebInv, WebShapes
  <2> QED BY <2>1, <2>2
<1>3. Apart("phone") /\ Spent' = Spent
  BY <1>1, <1>2, NothingStored
<1>4. WebTypeOK'
  <2>1. tab' \in [Tabs -> TabState] /\ hint' \in BOOLEAN
    BY <1>1, WebTypes DEF WebInv, TabState
  <2>2. ask' \in [Tabs -> AskState]
    BY <1>1, WebTypes, WebTyped DEF WebInv, NoAsk, AskState
  <2>3. renew' \in [Tabs -> RenewState]
    BY <1>1, WebTypes, WebTyped DEF WebInv, RenewDone, NoRenew, RenewState
  <2> QED BY <1>1, <2>1, <2>2, <2>3, WebTypes, WebTyped DEF WebInv
<1>5. \A d \in Tabs : tab'[d].open = tab[d].open /\ (d # b => ask'[d] = ask[d])
  BY <1>1 DEF WebInv, WebTypeOK
<1>6. WebInv'
  BY <1>1, <1>2, <1>3, <1>4, <1>5, RenewEnds
<1> QED BY <1>3, <1>6

LEMMA RenewServeKeeps ==
    ASSUME WebInv, ServerTypeOK, Lineage, NEW b \in Tabs, RenewServe(b)
    PROVE  WebInv' /\ Apart("phone")
<1> DEFINE p == renew[b].token
<1>1. /\ renew[b].pc = "sent"
      /\ UNCHANGED <<jar, hint, tab, ask, form, leave, lost, budget>>
  BY DEF RenewServe
<1>2. StoreInv /\ p \in Pair /\ "phone" \in Devices /\ "web" \in Devices /\ Holding(b)
  BY <1>1, WebTyped DEF ServerTypeOK, StoreInv, StoreType, Devices, Holding
<1>3. \A d \in Tabs : d # b => ~Holding(d) /\ renew[d].token = NoToken /\ renew[d].new = NoToken
  BY <1>2 DEF WebInv, WebShapes, Holding
<1>4. renew[b].new = NoToken /\ tab[b].open
  BY <1>1 DEF WebInv, WebShapes
\* Whatever the answer, the other tabs and the token of this one stay.
<1>5. ASSUME NEW answer \in {"rotated", "refused", "reused"}, NEW n \in Pair,
             renew' \in [Tabs -> RenewState],
             \A d \in Tabs : d # b => renew'[d] = renew[d],
             renew'[b].pc = answer, renew'[b].token = p, renew'[b].new = n,
             answer = "rotated" <=> n # NoToken, answer = "rotated" => p # NoToken
      PROVE  WebTypeOK' /\ WebShapes'
  <2>1. WebTypeOK'
    BY <1>1, <1>5, WebTypes DEF WebInv
  <2>2. \A d \in Tabs : Holding(d)' <=> d = b
    BY <1>3, <1>5 DEF Holding
  <2>3. ASSUME NEW d \in Tabs
        PROVE  /\ renew'[d].pc = "rotated" <=> renew'[d].new # NoToken
               /\ renew'[d].pc = "rotated" => renew'[d].token # NoToken
               /\ renew'[d].token # NoToken => d = b
               /\ ~tab[d].open => ask[d].pc = "idle" /\ renew'[d].pc = "idle"
    <3>1. CASE d = b
      BY <1>4, <1>5, <3>1
    <3>2. CASE d # b
      BY <1>3, <1>5, <3>2 DEF WebInv, WebShapes
    <3> QED BY <3>1, <3>2
  <2>4. WebShapes'
    BY <1>1, <2>2, <2>3 DEF WebInv, WebShapes
  <2> QED BY <2>1, <2>4
<1>6. CASE \E t \in Tokens : /\ p # NoToken /\ Rotate(p, t)
                             /\ renew' = [renew EXCEPT ![b].pc = "rotated", ![b].new = t]
  <2>1. PICK t \in Tokens : /\ p # NoToken /\ Rotate(p, t)
                            /\ renew' = [renew EXCEPT ![b].pc = "rotated", ![b].new = t]
    BY <1>6
  <2>2. p \in Tokens /\ device[p] = "web" /\ row[p] # "none"
    BY <1>2, <2>1 DEF Pair, WebInv, WebTokens, Of
  <2>3. /\ StoreInv' /\ Grown /\ Spent' = Spent \cup {p} /\ row[t] = "none" /\ t \notin Spent'
        /\ p # t /\ row'[t] = "active" /\ device'[t] = "web" /\ Foreign("phone")
    BY <1>2, <2>1, <2>2, RotateKeeps
  <2>4. Apart("phone")
    BY <1>1, <2>3 DEF Apart, ServerTypeOK, StoreInv, StoreType
  <2>5. t \in Pair /\ t # NoToken
    BY TokenAssumption DEF Pair
  <2>6. /\ WebTypeOK' /\ WebShapes'
        /\ \A d \in Tabs : d # b => renew'[d] = renew[d]
        /\ renew'[b].pc = "rotated" /\ renew'[b].token = p /\ renew'[b].new = t
    <3>1. renew' \in [Tabs -> RenewState]
      BY <2>1, <2>5, WebTypes DEF WebInv, RenewState
    <3>2. /\ \A d \in Tabs : d # b => renew'[d] = renew[d]
          /\ renew'[b].pc = "rotated" /\ renew'[b].token = p /\ renew'[b].new = t
      BY <2>1, WebTypes DEF WebInv, RenewState
    <3> QED BY <1>5, <2>1, <2>5, <3>1, <3>2
  <2>7. \A u \in Pair : Of(u, "web") =>
           u # t /\ (u # NoToken => row'[u] # "none" /\ device'[u] = "web")
    BY <2>3, <2>5 DEF Of, Grown, Pair
  <2>8. WebTokens'
    <3>1. \A d \in Tabs : /\ form[d].token \in Pair /\ Of(form[d].token, "web")
                          /\ renew[d].token \in Pair /\ Of(renew[d].token, "web")
      BY WebTyped DEF WebInv, WebTokens
    <3>2. jar \in Pair /\ Of(jar, "web")
      BY WebTyped DEF WebInv, WebTokens
    <3>3. \A d \in Tabs : renew'[d].token = renew[d].token /\ renew'[d].new \in {NoToken, t}
      BY <1>3, <2>6
    <3>4. Of(jar, "web")' /\ \A d \in Tabs : (Of(form[d].token, "web"))'
      BY <1>1, <2>7, <3>1, <3>2 DEF Of
    <3>5. \A d \in Tabs : renew[d].token # NoToken =>
             row'[renew[d].token] # "none" /\ device'[renew[d].token] = "web"
      BY <2>7, <3>1
    <3> QED BY <2>3, <3>3, <3>4, <3>5 DEF WebTokens, Of
  <2>9. WebExclusive'
    <3>1. /\ t # jar
          /\ \A d \in Tabs : t # renew[d].token /\ t # form[d].token
      BY <2>7, WebTyped DEF WebInv, WebTokens
    <3>2. \A d \in Tabs : renew'[d].token = renew[d].token
                          /\ renew'[d].new \in {NoToken, t}
                          /\ (renew'[d].new # NoToken => renew'[d].new = t)
      BY <1>3, <2>6
    <3>3. \A d \in Tabs : form[d].token # NoToken =>
             /\ form[d].token # jar /\ form[d].token \notin Spent'
             /\ \A e \in Tabs : /\ form[d].token # renew[e].token
                                /\ form[d].token = form[e].token => d = e
      BY <2>3 DEF WebInv, WebExclusive, WebUnseen
    <3> QED BY <1>1, <2>3, <3>1, <3>2, <3>3 DEF WebExclusive, WebUnseen
  <2>10. WebUnspent'
    <3>1. \A d \in Tabs : renew'[d].pc # "sent"
      BY <1>3, <2>6 DEF Holding
    <3>2. CASE jar = p
      BY <1>1, <2>6, <3>1, <3>2 DEF WebUnspent
    <3>3. CASE jar # p
      <4>1. Retired(jar)
        BY <1>1, <1>3 DEF WebInv, WebUnspent, Holding
      <4> QED BY <1>1, <2>3, <3>1, <3>3, <4>1 DEF WebUnspent, Retired
    <3> QED BY <3>2, <3>3
  <2> QED BY <2>4, <2>6, <2>8, <2>9, <2>10 DEF WebInv
<1>7. CASE \/ /\ p # NoToken /\ Reuse(p)
              /\ renew' = [renew EXCEPT ![b].pc = "reused"]
           \/ /\ p = NoToken /\ UNCHANGED store
              /\ renew' = [renew EXCEPT ![b].pc = "refused"]
  <2>1. /\ StoreInv' /\ Grown /\ Spent' = Spent /\ Foreign("phone") /\ Foreign("web")
    <3>1. CASE Reuse(p)
      BY <1>2, <3>1, RevokeKeeps DEF Reuse
    <3>2. CASE UNCHANGED store
      BY <1>2, <3>2, StoreKept
    <3> QED BY <1>7, <3>1, <3>2
  <2>2. Apart("phone")
    BY <1>1, <2>1 DEF Apart, ServerTypeOK, StoreInv, StoreType
  <2>3. PICK answer \in {"refused", "reused"} : renew' = [renew EXCEPT ![b].pc = answer]
    BY <1>7
  <2>4. renew' \in [Tabs -> RenewState]
    BY <2>3, WebTypes DEF WebInv, RenewState
  <2>5. /\ WebTypeOK' /\ WebShapes'
        /\ \A d \in Tabs : d # b => renew'[d] = renew[d]
        /\ renew'[b].pc = answer /\ renew'[b].token = p /\ renew'[b].new = NoToken
    <3>1. /\ \A d \in Tabs : d # b => renew'[d] = renew[d]
          /\ renew'[b].pc = answer /\ renew'[b].token = p /\ renew'[b].new = NoToken
      BY <1>4, <2>3, WebTypes DEF WebInv, RenewState
    <3> QED BY <1>5, <2>3, <2>4, <3>1, WebTyped
  <2>6. \A d \in Tabs : renew'[d].token = renew[d].token /\ renew'[d].new = NoToken
    BY <1>3, <2>5
  <2>7. WebTokens'
    <3>1. \A u \in Pair : Of(u, "web") => (u # NoToken => row'[u] # "none" /\ device'[u] = "web")
      BY <2>1, WebTyped DEF Of, Grown
    <3> QED BY <1>1, <2>6, <3>1, WebTyped DEF WebInv, WebTokens, Of
  <2>8. WebExclusive'
    BY <1>1, <2>1, <2>6 DEF WebInv, WebExclusive, WebUnseen
  <2>9. WebUnspent'
    <3>1. \A d \in Tabs : renew'[d].pc # "sent"
      BY <1>3, <2>3, <2>5 DEF Holding
    <3>2. Retired(jar)
      BY <1>1, <1>3 DEF WebInv, WebUnspent, Holding
    <3> QED BY <1>1, <2>1, <3>1, <3>2 DEF WebUnspent, Retired
  <2> QED BY <2>2, <2>5, <2>7, <2>8, <2>9 DEF WebInv
<1> QED BY <1>6, <1>7 DEF RenewServe

-----------------------------------------------------------------------------
(* Every step of either client, of another device and of time *)

LEMMA PhoneStep ==
    ASSUME PhoneInv, ServerTypeOK, Lineage, PhoneNext
    PROVE  PhoneInv' /\ Apart("web")
<1>1. CASE LoginReceive \/ Persist \/ SignOut \/ LoginLost \/ Restart
  BY <1>1, LoginReceiveKeeps, PersistKeeps, SignOutKeeps, LoginLostKeeps, RestartKeeps
<1>2. CASE (\E t \in Tokens : LoginServe(t)) \/ (\E a \in Accounts : LoginSend(a))
  BY <1>2, LoginServeKeeps, LoginSendKeeps
<1>3. CASE \E q \in Requests : \/ RequestSend(q) \/ RequestServe(q) \/ RequestLost(q)
                               \/ Deliver(q) \/ Reject(q) \/ Outdated(q)
  BY <1>3, RequestSteps, OutdatedKeeps
<1>4. CASE \E q \in Requests, c \in Calls : Unauthorized(q, c)
  BY <1>4, UnauthorizedKeeps
<1>5. CASE \E c \in Calls : RefreshServe(c) \/ RefreshSucceed(c)
  BY <1>5, RefreshServeKeeps, RefreshSucceedKeeps
<1>6. CASE \E c \in Calls : RefreshRefused(c)
  <2>1. PICK c \in Calls : RefreshRefused(c)
    BY <1>6
  <2>2. /\ call[c].pc = "refused" /\ call[c].pc # "idle" /\ RefreshFail(c, TRUE)
        /\ budget' \in [Events -> Nat]
    BY <2>1 DEF RefreshRefused, ServerTypeOK
  <2> QED BY <2>2, RefreshFailKeeps
<1>7. CASE \E c \in Calls : RefreshLost(c)
  <2>1. PICK c \in Calls : RefreshLost(c)
    BY <1>7
  <2>2. /\ call[c].pc # "idle" /\ RefreshFail(c, FALSE) /\ budget' \in [Events -> Nat]
    BY <2>1, SpendKeeps DEF RefreshLost, ServerTypeOK, Events
  <2> QED BY <2>2, RefreshFailKeeps
<1>8. CASE \E x \in revocations : RevocationServe(x) \/ RevocationLost(x)
  BY <1>8, RevocationServeKeeps, RevocationLostKeeps
<1> QED
  BY <1>1, <1>2, <1>3, <1>4, <1>5, <1>6, <1>7, <1>8 DEF PhoneNext, PhoneAnswers

LEMMA WebStep ==
    ASSUME WebInv, ServerTypeOK, Lineage, WebNext
    PROVE  WebInv' /\ Apart("phone")
<1>1. PICK b \in Tabs :
        \/ \E t \in Tokens : FormServe(b, t)
        \/ FormReceive(b) \/ LeaveServe(b) \/ LeaveReceive(b)
        \/ AskServe(b) \/ AskDeliver(b) \/ AskRefresh(b) \/ AskDenied(b)
        \/ RenewSend(b) \/ RenewServe(b) \/ RenewSucceed(b) \/ RenewRefused(b)
        \/ TabOpen(b) \/ TabClose(b) \/ LeaveSend(b) \/ AskSend(b) \/ RenewLost(b)
        \/ \E a \in Accounts : FormSend(b, a)
  BY DEF WebNext, WebAnswers
<1>2. CASE \/ AskSend(b) \/ AskServe(b) \/ AskDeliver(b) \/ AskDenied(b)
           \/ LeaveSend(b) \/ LeaveServe(b)
  BY <1>2, AskSteps
<1>3. CASE TabOpen(b) \/ TabClose(b) \/ LeaveReceive(b) \/ AskRefresh(b)
  BY <1>3, TabOpenKeeps, TabCloseKeeps, LeaveReceiveKeeps, AskRefreshKeeps
<1>4. CASE \/ \E t \in Tokens : FormServe(b, t)
           \/ FormReceive(b)
           \/ \E a \in Accounts : FormSend(b, a)
  BY <1>4, FormServeKeeps, FormReceiveKeeps, FormSendKeeps
<1>5. CASE \/ RenewSend(b) \/ RenewServe(b) \/ RenewSucceed(b) \/ RenewRefused(b)
           \/ RenewLost(b)
  BY <1>5, RenewSendKeeps, RenewServeKeeps, RenewSucceedKeeps, RenewFailedKeeps
<1> QED BY <1>1, <1>2, <1>3, <1>4, <1>5

\* Sessions ended elsewhere, and access tokens that expire.
LEMMA OthersStep ==
    ASSUME ServerTypeOK, Lineage,
           \/ \E a \in Accounts : EndElsewhere(a)
           \/ \E t \in Tokens : ExpireAccess(t)
    PROVE  Apart("phone") /\ Apart("web")
<1>1. StoreInv
  BY DEF StoreInv, StoreType, ServerTypeOK
<1>2. lost' = lost /\ budget' \in [Events -> Nat]
  BY SpendKeeps DEF EndElsewhere, ExpireAccess, ServerTypeOK, Events
<1>3. StoreInv' /\ Grown /\ Foreign("phone") /\ Foreign("web")
  <2>1. CASE \E a \in Accounts : EndElsewhere(a)
    <3>1. PICK a \in Accounts : EndElsewhere(a)
      BY <2>1
    <3>2. /\ RevokeRows(RowsOf(a)) /\ UNCHANGED <<owner, device, parent>>
          /\ usable' \subseteq usable
      BY <3>1 DEF EndElsewhere
    <3> QED BY <1>1, <3>2, RevokeKeeps
  <2>2. CASE \E t \in Tokens : ExpireAccess(t)
    BY <1>1, <2>2 DEF ExpireAccess, StoreInv, StoreType, Lineage, Grown, Foreign, Spent
  <2> QED BY <2>1, <2>2
<1> QED BY <1>2, <1>3 DEF Apart, ServerTypeOK, StoreInv, StoreType

LEMMA InitHolds ==
    ASSUME Init
    PROVE  ClientsInv
<1> USE TokenAssumption
<1>1. ServerTypeOK /\ Lineage
  BY BudgetAssumption DEF Init, ServerInit, ServerTypeOK, Lineage, Devices
<1>2. PhoneInv
  <2>1. PhoneTypeOK
    BY DEF Init, PhoneInit, PhoneTypeOK, SignedOut, Nobody, NoShared, IdleCall, IdleRequest,
           NoRestore, NoLogin, MaybeToken
  <2>2. PhoneTokens /\ Ownership /\ Shapes
    BY DEF Init, PhoneInit, PhoneTokens, Ownership, Shapes, Of, OwnedBy, OfSession, SignedOut,
           Nobody, IdleCall, IdleRequest, NoLogin
  <2>3. Waiting /\ Exclusive
    BY DEF Init, PhoneInit, Waiting, Exclusive, SignedOut, NoShared, IdleCall, NoLogin
  <2>4. Unspent /\ Covered
    BY DEF Init, PhoneInit, ServerInit, Unspent, Covered, Retired, Spent, SignedOut, IdleCall
  <2> QED BY <2>1, <2>2, <2>3, <2>4 DEF PhoneInv
<1>3. WebInv
  <2>1. WebTypeOK
    BY DEF Init, WebInit, WebTypeOK, Closed, NoAsk, NoRenew, NoForm, NoLeave, Pair
  <2>2. WebTokens /\ WebShapes /\ WebExclusive /\ WebUnspent
    BY DEF Init, WebInit, WebTokens, WebShapes, WebExclusive, WebUnspent, Of, Holding, Retired,
           Spent, Closed, NoAsk, NoRenew, NoForm
  <2> QED BY <2>1, <2>2 DEF WebInv
<1> QED BY <1>1, <1>2, <1>3 DEF ClientsInv

\* Each client keeps its own invariant, and leaves the other's alone.
LEMMA StepKeeps ==
    ASSUME ClientsInv, [Next]_vars
    PROVE  ClientsInv'
<1>1. StoreInv /\ PhoneInv /\ WebInv /\ ServerTypeOK /\ Lineage
  BY DEF ClientsInv, StoreInv, StoreType, ServerTypeOK
<1>2. UNCHANGED webVars => /\ UNCHANGED <<jar, renew, form>> /\ WebTypeOK'
                           /\ \A b \in Tabs : ~tab'[b].open => /\ ask'[b].pc = "idle"
                                                               /\ renew[b].pc = "idle"
  BY <1>1 DEF webVars, WebInv, WebTypeOK, WebShapes
<1>3. CASE PhoneNext /\ UNCHANGED webVars
  <2>1. PhoneInv' /\ Apart("web")
    BY <1>1, <1>3, PhoneStep
  <2>2. WebInv'
    BY <1>1, <1>2, <1>3, <2>1, WebUndisturbed DEF Apart
  <2> QED BY <2>1, <2>2 DEF Apart, StoreInv, ClientsInv
<1>4. CASE WebNext /\ UNCHANGED phoneVars
  <2>1. WebInv' /\ Apart("phone")
    BY <1>1, <1>4, WebStep
  <2>2. PhoneInv'
    BY <1>1, <1>4, <2>1, PhoneUndisturbed DEF Apart
  <2> QED BY <2>1, <2>2 DEF Apart, StoreInv, ClientsInv
<1>5. CASE UNCHANGED <<phoneVars, webVars>> /\ Apart("phone") /\ Apart("web")
  <2>1. PhoneInv' /\ WebInv'
    BY <1>1, <1>2, <1>5, PhoneUndisturbed, WebUndisturbed DEF Apart
  <2> QED BY <1>5, <2>1 DEF Apart, StoreInv, ClientsInv
<1>6. CASE \/ \E a \in Accounts : EndElsewhere(a) /\ UNCHANGED <<phoneVars, webVars>>
           \/ \E t \in Tokens : ExpireAccess(t) /\ UNCHANGED <<phoneVars, webVars>>
  BY <1>1, <1>5, <1>6, OthersStep
<1>7. CASE UNCHANGED vars
  <2>1. UNCHANGED <<phoneVars, webVars, store, lost, budget>>
    BY <1>7 DEF vars, serverVars
  <2>2. Apart("phone") /\ Apart("web")
    BY <1>1, <2>1, NothingStored DEF ServerTypeOK
  <2> QED BY <1>5, <2>1, <2>2
<1> QED BY <1>3, <1>4, <1>6, <1>7 DEF Next

LEMMA AlwaysHolds == Spec => []ClientsInv
<1>1. Init => ClientsInv
  BY InitHolds
<1>2. ClientsInv /\ [Next]_vars => ClientsInv'
  BY StepKeeps
<1> QED BY <1>1, <1>2, PTL DEF Spec

-----------------------------------------------------------------------------
(* What follows *)

\* Every record of the server, of the phone and of the tabs has its type.
THEOREM TypeCorrect == Spec => []TypeOK
<1>1. ClientsInv => TypeOK
  BY DEF ClientsInv, PhoneInv, WebInv, TypeOK
<1> QED BY <1>1, AlwaysHolds, PTL

\* Whatever refresh, restore or login of the mobile app is answered late
\* (services/api.ts, services/sessionRefresh.ts, store/auth.store.ts), the
\* tokens in the store were issued to the user in the store.
THEOREM TokensBelong == Spec => []TokensOfTheUser
<1>1. ClientsInv => TokensOfTheUser
  BY DEF ClientsInv, PhoneInv, Ownership, OwnedBy, TokensOfTheUser
<1> QED BY <1>1, AlwaysHolds, PTL

\* When the phone has nothing under way, every session it opened and did not
\* end is the one it is in, or was named by a message that was lost.
THEOREM NothingLeft == Spec => []NothingLeftBehind
<1>1. ClientsInv => NothingLeftBehind
  <2> SUFFICES ASSUME ClientsInv, Quiet, NEW t \in Tokens,
                      row[t] = "active", device[t] = "phone"
               PROVE  t \in lost \cup {session.refresh}
    BY DEF NothingLeftBehind
  <2>1. Known(t) /\ t # NoToken
    BY TokenAssumption DEF ClientsInv, PhoneInv, Covered
  <2>2. login.token = NoToken
    BY DEF Quiet, ClientsInv, PhoneInv, Shapes
  <2>3. \A c \in Calls : call[c].token = NoToken /\ call[c].new = NoToken
    BY DEF Quiet, ClientsInv, PhoneInv, Shapes
  <2> QED BY <2>1, <2>2, <2>3 DEF Known, Quiet
<1> QED BY <1>1, AlwaysHolds, PTL

\* A rotated token is presented again only after the answer that replaced it
\* was lost: neither the shared promise of the phone nor the tabs' Web Lock
\* lets two refreshes carry one token.
THEOREM NeverTwice == Spec => NeverPresentedTwice
<1>1. ASSUME ClientsInv, NEW t \in Tokens \cup {NoToken}, Consumed(t)
      PROVE  t \in Spent
  BY <1>1 DEF Consumed, Spent
<1>2. ASSUME ClientsInv, NEW c \in Calls, RefreshServe(c), Consumed(call[c].token)
      PROVE  call[c].token \in lost
  <2>1. call[c].token \in Tokens \cup {NoToken} /\ Retired(call[c].token)
    BY <1>2 DEF RefreshServe, ClientsInv, PhoneInv, PhoneTypeOK, MaybeToken, Unspent
  <2> QED BY <1>1, <1>2, <2>1 DEF Retired
<1>3. ASSUME ClientsInv, NEW b \in Tabs, RenewServe(b), Consumed(renew[b].token)
      PROVE  renew[b].token \in lost
  <2>1. renew[b].token \in Tokens \cup {NoToken} /\ Retired(renew[b].token)
    BY <1>3 DEF RenewServe, ClientsInv, WebInv, WebTypeOK, Pair, WebUnspent
  <2> QED BY <1>1, <1>3, <2>1 DEF Retired
<1>4. ClientsInv => [/\ \A c \in Calls : RefreshServe(c) /\ Consumed(call[c].token)
                                           => call[c].token \in lost
                     /\ \A b \in Tabs : RenewServe(b) /\ Consumed(renew[b].token)
                                          => renew[b].token \in lost]_vars
  BY <1>2, <1>3
<1> QED BY <1>4, AlwaysHolds, PTL DEF NeverPresentedTwice

\* An answer that is let through was asked for with a token.
Answered == \A q \in Requests : request[q].pc = "ok" => request[q].token # NoToken

LEMMA AnsweredStep ==
    ASSUME ClientsInv, Answered, [Next]_vars
    PROVE  Answered'
<1>1. /\ request \in [Requests -> [pc : {"idle", "sent", "ok", "denied", "waiting"},
                                   token : MaybeToken, version : Nat,
                                   retried : BOOLEAN, call : Calls \cup {NoCall}]]
      /\ usable \subseteq Tokens /\ NoToken \notin Tokens
  BY TokenAssumption DEF ClientsInv, PhoneInv, PhoneTypeOK, ServerTypeOK
<1>2. CASE UNCHANGED request
  BY <1>2 DEF Answered
<1>3. ASSUME NEW q \in Requests,
             \/ RequestSend(q) \/ RequestServe(q) \/ RequestLost(q)
             \/ Deliver(q) \/ Reject(q) \/ Outdated(q) \/ \E c \in Calls : Unauthorized(q, c)
      PROVE  Answered'
  <2>1. \A p \in Requests : p # q => request'[p] = request[p]
    BY <1>1, <1>3 DEF RequestSend, RequestServe, RequestLost, Deliver, Reject, Outdated,
                      Unauthorized, RequestDone
  <2>2. request'[q].pc = "ok" => request'[q].token # NoToken
    <3>1. CASE RequestServe(q)
      BY <1>1, <3>1 DEF RequestServe
    <3>2. CASE ~RequestServe(q)
      BY <1>1, <1>3, <3>2 DEF RequestSend, RequestLost, Deliver, Reject, Outdated, Unauthorized,
                              RequestDone, Stamped, IdleRequest
    <3> QED BY <3>1, <3>2
  <2> QED BY <2>1, <2>2 DEF Answered
<1>4. ASSUME \A q \in Requests : request'[q] = request[q] \/ request'[q].pc \in {"idle", "sent"}
      PROVE  Answered'
  BY <1>4 DEF Answered
<1>5. ASSUME NEW c \in Calls, RefreshSucceed(c) \/ RefreshRefused(c) \/ RefreshLost(c)
      PROVE  Answered'
  BY <1>4, <1>5 DEF RefreshSucceed, RefreshRefused, RefreshLost, RefreshFail, Stamped,
                    IdleRequest
<1>6. CASE Restart
  BY <1>4, <1>6 DEF Restart, IdleRequest
<1>7. CASE PhoneNext
  <2>1. CASE \/ LoginReceive \/ Persist \/ SignOut \/ LoginLost
             \/ (\E t \in Tokens : LoginServe(t)) \/ (\E a \in Accounts : LoginSend(a))
             \/ (\E c \in Calls : RefreshServe(c))
             \/ (\E x \in revocations : RevocationServe(x) \/ RevocationLost(x))
    BY <1>2, <2>1 DEF LoginReceive, Persist, SignOut, LoginLost, LoginServe, LoginSend,
                      RefreshServe, RevocationServe, RevocationLost
  <2> QED BY <1>3, <1>5, <1>6, <1>7, <2>1 DEF PhoneNext, PhoneAnswers
<1>8. CASE ~PhoneNext
  BY <1>2, <1>8 DEF Next, vars, phoneVars
<1> QED BY <1>7, <1>8

\* An answer reaches a screen of the mobile app only in the session of the
\* account it was given to, however late it comes.
THEOREM AnswersStay == Spec => AnswersStayInSession
<1>1. Init => Answered
  BY DEF Init, PhoneInit, Answered, IdleRequest
<1>2. ClientsInv /\ Answered /\ [Next]_vars => Answered'
  BY AnsweredStep
<1>3. ClientsInv /\ Answered =>
        [\A q \in Requests : Deliver(q) => owner[request[q].token] = session.user]_vars
  <2> SUFFICES ASSUME ClientsInv, Answered, NEW q \in Requests, Deliver(q)
               PROVE  owner[request[q].token] = session.user
    OBVIOUS
  <2> QED BY DEF Deliver, Current, Answered, ClientsInv, PhoneInv, Ownership, OfSession, OwnedBy
<1> QED BY <1>1, <1>2, <1>3, AlwaysHolds, PTL DEF Spec, AnswersStayInSession
=============================================================================
