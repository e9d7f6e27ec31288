---------------------------- MODULE FilesProofs ----------------------------
(* Type correctness of Files, that a file goes only to who has a right to it, *)
(* and that no row shows a file that was removed.                             *)
EXTENDS Files, TLAPS

Uploads(R) == R.op \notin {"none", "read"}
Private(R) == Uploads(R) /\ R.pc \in {"register", "look", "write"} /\ R.file # Nobody
Picturing(R) == R.op \in {"avatar", "sheet"}

\* What a request knows by the step it is at.
Knows(R) ==
    /\ R.op = "none" <=> R.pc = "idle"
    /\ R.op = "read" <=> R.pc \in {"asked", "row", "member", "send", "sent"}
    /\ R.op # "none" => R.user \in Users
    /\ R.op = "read" => R.file \in Names
    /\ R.op \in {"none", "read", "create"} \/ R.pc \in {"store", "register", "look"} =>
          R.old = Nobody
    /\ Picturing(R) => R.kind = "task" /\ (R.pc # "store" => R.file \in Names)
    /\ R.op = "update" \/ (R.op = "create" /\ R.kind = "answer") => R.item \in Items
    /\ R.op = "create" /\ R.kind # "answer" => R.subject \in Subjects
    /\ R.pc = "store" => R.file = Nobody
    /\ R.pc \in {"register", "attach"} => R.file \in Names
    /\ R.pc \in {"write", "attach"} => R.op \in {"avatar", "create", "update"}
    /\ R.pc = "attach" => Entity(R) \in Items \cup Users
    /\ R.pc \in {"unlink", "forget"} => Picturing(R) /\ R.old \in Names

KnowsOK == \A q \in Requests : Knows(request[q])

Settled(f) == record[f].state \in {"kept", "gone"}
Fine(f) == f \in stored /\ record[f].state = "kept"

\* A name belongs to the one request that was given it.
OwnOK ==
    /\ \A f \in Names : record[f].state = "none" => record[f].entity = Nobody
    /\ \A q \in Requests : Uploads(request[q]) /\ request[q].file # Nobody =>
          IF At(q, "register") THEN record[request[q].file].state = "named"
          ELSE Settled(request[q].file)
    /\ \A p, q \in Requests :
          p # q /\ Uploads(request[p]) /\ Uploads(request[q])
          /\ request[p].file = request[q].file => request[p].file = Nobody

\* Until it is written, nothing else refers to it.
PrivateOK ==
    \A q \in Requests : Private(request[q]) =>
        LET f == request[q].file
        IN  /\ f \in stored
            /\ record[f].state = IF At(q, "register") THEN "named" ELSE "kept"
            /\ record[f].entity = Nobody
            /\ \A i \in Items : item[i].file # f
            /\ \A u \in Users : avatar[u] # f
            /\ \A p \in Requests : request[p].old # f

\* Then it is stamped, once, with a row that has shown it.
AttachOK ==
    \A q \in Requests : At(q, "attach") =>
        LET f == request[q].file
        IN  /\ record[f].entity = Nobody
            /\ request[q].old # f
            /\ <<f, Entity(request[q])>> \in held

\* A file that a work shows, or will again, is there; no picture's clean-up
\* removes it.
Works(f) ==
    /\ Fine(f)
    /\ \A u \in Users : avatar[u] # f
    /\ \A q \in Requests : Picturing(request[q]) => request[q].file # f /\ request[q].old # f

WorkOK ==
    /\ \A i \in Items : item[i].file # Nobody => Works(item[i].file)
    /\ \A q \in Requests :
          request[q].op = "update" /\ request[q].old # Nobody => Works(request[q].old)

\* What is removed is an avatar no more, or was never stamped.
PictureOK ==
    \A q \in Requests : Picturing(request[q]) /\ request[q].old # Nobody =>
        LET f == request[q].old
        IN  /\ Settled(f)
            /\ At(q, "write") => f # request[q].file
                                 /\ \A u \in Users : avatar[u] = f => u = request[q].user
            /\ At(q, "attach") => \A u \in Users : avatar[u] # f
            /\ request[q].pc \in {"unlink", "forget"} =>
                  \/ f = request[q].file /\ record[f].entity = Nobody
                  \/ \A u \in Users : avatar[u] # f

AvatarOK ==
    /\ \A u, v \in Users : avatar[u] = avatar[v] /\ avatar[u] # Nobody => u = v
    /\ \A u \in Users : avatar[u] # Nobody => Settled(avatar[u])
    /\ \A u \in Users :
          /\ avatar[u] # Nobody
          /\ \/ record[avatar[u]].entity = u
             \/ \E q \in Requests : At(q, "attach") /\ request[q].file = avatar[u]
          => Fine(avatar[u])

FilesInv == OwnOK /\ PrivateOK /\ AttachOK /\ WorkOK /\ PictureOK /\ AvatarOK

StampOK ==
    \A f \in Names : record[f].entity # Nobody => <<f, record[f].entity>> \in held

\* A request's copy of the file's row, and what it has found so far.
Reader(q) ==
    LET r == request[q]
    IN  /\ Settled(r.file)
        /\ record[r.file].by = r.by
        /\ r.entity # Nobody => <<r.file, r.entity>> \in held
        /\ r.by = r.user /\ r.entity \notin Items =>
              entitled[q] \/ record[r.file].entity \notin Items
        /\ r.pc = "member" =>
              /\ r.entity \in Items
              /\ Role[r.user] = "COORDINATOR"
                 \/ (/\ Role[r.user] = "STUDENT" 
                     /\ item[r.entity].state # "none" /\ item[r.entity].kind # "answer")
        /\ r.pc \in {"send", "sent"} => entitled[q]

\* A request that has read the file's row.
Informed(R) == R.op = "read" /\ R.pc # "asked"

ReadersOK == \A q \in Requests : Informed(request[q]) => Reader(q)

Inv == TypeOK /\ KnowsOK /\ FilesInv /\ StampOK /\ ReadersOK
-----------------------------------------------------------------------------
(* Requests *)

LEMMA Idle == NoRequest \in Calls /\ Knows(NoRequest) /\ ~Uploads(NoRequest)
BY DEF NoRequest, Calls, Knows, Uploads, Picturing, Optional, Kinds

LEMMA SpendOK ==
  ASSUME budget \in [Events -> Nat], NEW what \in Events, Spend(what)
  PROVE  budget' \in [Events -> Nat]
<1>1. budget[what] - 1 \in Nat
  BY DEF Spend
<1> QED
  BY <1>1 DEF Spend

\* The requests stay known when one goes on with a record that is.
LEMMA BecomeOK ==
  ASSUME request \in [Requests -> Calls], KnowsOK, NEW q \in Requests, NEW R,
         R \in Calls, Knows(R), Become(q, R)
  PROVE  request' \in [Requests -> Calls] /\ KnowsOK'
BY DEF Become, KnowsOK

LEMMA StaysOK ==
  ASSUME request \in [Requests -> Calls], KnowsOK, UNCHANGED request
  PROVE  request' \in [Requests -> Calls] /\ KnowsOK'
BY DEF KnowsOK

LEMMA DoneOK ==
  ASSUME request \in [Requests -> Calls], KnowsOK, NEW q \in Requests, Done(q)
  PROVE  request' \in [Requests -> Calls] /\ KnowsOK'
BY BecomeOK, Idle DEF Done

LEMMA DepartmentType ==
  ASSUME department \in [Coordinators \cup Subjects -> Optional(Departments)], NEW u \in Users
  PROVE  DepartmentOf(u) \in Optional(Departments)
BY DEF DepartmentOf, Optional

LEMMA AskedOK ==
  ASSUME TypeOK, NEW u \in Users,
         NEW R, R \in Asked(u) \/ R \in {Call(u, op, "task", Nobody, Nobody) : op \in {"avatar", "sheet"}}
  PROVE  /\ R \in Calls /\ Event(R) \in Events
         /\ Knows([R EXCEPT !.pc = "store"])
         /\ (R.op = "update" \/ R.kind = "task") /\ ~Picturing(R) => Knows([R EXCEPT !.pc = "look"])
         /\ Uploads(R) /\ R.file = Nobody /\ R.old = Nobody
<1>0. DepartmentOf(u) \in Optional(Departments)
  BY DepartmentType DEF TypeOK
<1>1. CASE R \in {Call(u, op, "task", Nobody, Nobody) : op \in {"avatar", "sheet"}}
  BY ZenonT(60), <1>0, <1>1 DEF Call, NoRequest, Calls, Knows, Uploads, Picturing, Optional, Kinds, Event, Events
<1>2. CASE R \in {Call(u, "create", kind, x, Nobody) : kind \in Kinds \ {"answer"}, x \in Subjects}
  <2>1. PICK kind \in Kinds \ {"answer"}, x \in Subjects : R = Call(u, "create", kind, x, Nobody)
    BY <1>2
  <2> QED
    BY <1>0, <2>1 DEF Call, NoRequest, Calls, Knows, Uploads, Picturing, Optional, Kinds, Event, Events
<1>3. CASE R \in {Call(u, "create", "answer", Nobody, i) : i \in Items}
  BY ZenonT(60), <1>0, <1>3 DEF Call, NoRequest, Calls, Knows, Uploads, Picturing, Optional, Kinds, Event, Events
<1>4. CASE R \in {Call(u, "update", item[i].kind, Nobody, i) : i \in {j \in Items : Live(j)}}
  <2>1. PICK i \in Items : R = Call(u, "update", item[i].kind, Nobody, i)
    BY <1>4
  <2>2. item[i].kind \in Kinds
    BY DEF TypeOK, Rows
  <2> QED
    BY <1>0, <2>1, <2>2 DEF Call, NoRequest, Calls, Knows, Uploads, Picturing, Optional, Kinds, Event, Events
<1> QED
  BY <1>1, <1>2, <1>3, <1>4 DEF Asked

-----------------------------------------------------------------------------
(* Types *)

\* Attaches leads to the stamp, or ends the request.
LEMMA AttachesOK ==
  ASSUME request \in [Requests -> Calls], KnowsOK, NEW q \in Requests, NEW R,
         R \in Calls, Knows([R EXCEPT !.pc = "attach"]) \/ R.file = Nobody, Attaches(q, R)
  PROVE  request' \in [Requests -> Calls] /\ KnowsOK'
<1>1. [R EXCEPT !.pc = "attach"] \in Calls
  BY DEF Calls
<1>2. R.file = Nobody \/ R.file # Nobody
  OBVIOUS
<1> QED
  BY <1>1, <1>2, BecomeOK, DoneOK DEF Attaches

LEMMA UploadTypes ==
  ASSUME TypeOK, KnowsOK, UploadStep
  PROVE  /\ request' \in [Requests -> Calls] /\ KnowsOK' /\ budget' \in [Events -> Nat]
         /\ record' \in [Names -> Records] /\ stored' \subseteq Names
<1> USE DEF TypeOK
<1>1. ASSUME NEW q \in Requests, NEW u \in Users, NEW R,
             R \in Asked(u) \/ R \in {Call(u, op, "task", Nobody, Nobody) : op \in {"avatar", "sheet"}},
             Upload(q, R)
      PROVE  request' \in [Requests -> Calls] /\ KnowsOK' /\ budget' \in [Events -> Nat]
             /\ UNCHANGED <<stored, record>>
  <2>1. R \in Calls /\ Event(R) \in Events /\ Knows([R EXCEPT !.pc = "store"])
    BY <1>1, AskedOK
  <2>2. [R EXCEPT !.pc = "store"] \in Calls
    BY <2>1 DEF Calls
  <2> QED
    BY <1>1, <2>1, <2>2, SpendOK, BecomeOK DEF Upload
<1>2. ASSUME NEW q \in Requests, NEW u \in Users, NEW R \in Asked(u), Allowed(R), Edit(q, R)
      PROVE  request' \in [Requests -> Calls] /\ KnowsOK' /\ budget' \in [Events -> Nat]
             /\ UNCHANGED <<stored, record>>
  <2>1. R \in Calls /\ ((R.op = "update" \/ R.kind = "task") /\ ~Picturing(R) => Knows([R EXCEPT !.pc = "look"]))
    BY <1>2, AskedOK
  <2>2. ~Picturing(R)
    BY <1>2 DEF Allowed, May, Picturing
  <2>3. [R EXCEPT !.pc = "look"] \in Calls
    BY <2>1 DEF Calls
  <2>4. "edit" \in Events
    BY DEF Events
  <2> QED
    BY <1>2, <2>1, <2>2, <2>3, <2>4, SpendOK, BecomeOK DEF Edit
<1>3. ASSUME NEW q \in Requests, NEW f \in Names, Store(q, f)
      PROVE  request' \in [Requests -> Calls] /\ KnowsOK' /\ budget' \in [Events -> Nat]
             /\ record' \in [Names -> Records] /\ stored' \subseteq Names
  <2> DEFINE R == [request[q] EXCEPT !.pc = "register", !.file = f]
  <2>1. R \in Calls /\ Knows(R)
    BY ZenonT(60), <1>3 DEF Store, At, Calls, Optional, KnowsOK, Knows, Picturing, Entity, Uploads
  <2>2. Become(q, R)
    BY <1>3 DEF Store
  <2>3. record' \in [Names -> Records]
    BY <1>3 DEF Store, Records
  <2> HIDE DEF R
  <2> QED
    BY <1>3, <2>1, <2>2, <2>3, BecomeOK DEF Store
<1>4. ASSUME NEW q \in Requests, Register(q)
      PROVE  request' \in [Requests -> Calls] /\ KnowsOK' /\ budget' \in [Events -> Nat]
             /\ record' \in [Names -> Records] /\ stored' \subseteq Names
  <2> DEFINE R == [request[q] EXCEPT !.pc = "look"]
  <2>1. R \in Calls /\ Knows(R)
    BY ZenonT(60), <1>4 DEF Register, At, Calls, KnowsOK, Knows, Picturing, Entity, Uploads
  <2>2. Become(q, R)
    BY <1>4 DEF Register, Goto
  <2>3. record' \in [Names -> Records]
    BY <1>4 DEF Register, Records, Calls, Optional
  <2> HIDE DEF R
  <2> QED
    BY <1>4, <2>1, <2>2, <2>3, BecomeOK DEF Register
<1>5. ASSUME NEW q \in Requests, NotRegistered(q)
      PROVE  request' \in [Requests -> Calls] /\ KnowsOK' /\ budget' \in [Events -> Nat]
             /\ UNCHANGED record /\ stored' \subseteq Names
  <2>1. "fault" \in Events
    BY DEF Events
  <2> QED
    BY <1>5, <2>1, DoneOK, SpendOK DEF NotRegistered
<1> QED
  BY <1>1, <1>2, <1>3, <1>4, <1>5 DEF UploadStep

LEMMA LookUpTypes ==
  ASSUME TypeOK, KnowsOK, NEW q \in Requests, LookUp(q)
  PROVE  request' \in [Requests -> Calls] /\ KnowsOK'
<1> DEFINE r == request[q]
<1> USE DEF TypeOK
<1>0. r \in Calls /\ Knows(r) /\ r.pc = "look" /\ Uploads(r)
  BY DEF LookUp, At, KnowsOK, Knows, Uploads
<1>1. CASE r.op = "avatar" /\ Become(q, [r EXCEPT !.pc = "write", !.old = avatar[r.user]])
  <2>1. [r EXCEPT !.pc = "write", !.old = avatar[r.user]] \in Calls
    BY <1>0, <1>1 DEF Calls, Knows, Optional
  <2>2. Knows([r EXCEPT !.pc = "write", !.old = avatar[r.user]])
    BY <1>0, <1>1 DEF Calls, Knows, Picturing, Uploads, Entity
  <2> QED
    BY <1>1, <2>1, <2>2, BecomeOK
<1>2. CASE r.op = "sheet" /\ Become(q, [r EXCEPT !.pc = "unlink", !.old = r.file])
  <2>1. [r EXCEPT !.pc = "unlink", !.old = r.file] \in Calls
    BY <1>0 DEF Calls
  <2>2. Knows([r EXCEPT !.pc = "unlink", !.old = r.file])
    BY <1>0, <1>2 DEF Calls, Knows, Picturing, Uploads, Entity
  <2> QED
    BY <1>2, <2>1, <2>2, BecomeOK
<1>3. CASE r.op = "create" /\ r.kind # "answer"
           /\ Become(q, [r EXCEPT !.pc = "write", !.teacher = holder[r.subject]])
           /\ Manages(r)
  <2>1. [r EXCEPT !.pc = "write", !.teacher = holder[r.subject]] \in Calls
    BY <1>0, <1>3 DEF Calls, Knows
  <2>2. Knows([r EXCEPT !.pc = "write", !.teacher = holder[r.subject]])
    BY <1>0, <1>3 DEF Calls, Knows, Picturing, Uploads, Entity
  <2> QED
    BY <1>3, <2>1, <2>2, BecomeOK
<1>4. CASE r.op = "update" /\ Live(r.item)
           /\ Become(q, [r EXCEPT !.pc = "write", !.old = item[r.item].file])
  <2>1. [r EXCEPT !.pc = "write", !.old = item[r.item].file] \in Calls
    BY <1>0, <1>4 DEF Calls, Knows, Rows
  <2>2. Knows([r EXCEPT !.pc = "write", !.old = item[r.item].file])
    BY <1>0, <1>4 DEF Calls, Knows, Picturing, Uploads, Entity
  <2> QED
    BY <1>4, <2>1, <2>2, BecomeOK
<1>5. CASE r.kind = "answer" /\ Goto(q, "write")
  <2>1. [r EXCEPT !.pc = "write"] \in Calls
    BY <1>0 DEF Calls
  <2>2. Knows([r EXCEPT !.pc = "write"])
    BY <1>0, <1>5 DEF Calls, Knows, Picturing, Uploads, Entity
  <2> QED
    BY <1>5, <2>1, <2>2, BecomeOK DEF Goto
<1> QED
  BY <1>1, <1>2, <1>3, <1>4, <1>5 DEF LookUp

LEMMA SetAvatarTypes ==
  ASSUME TypeOK, KnowsOK, NEW q \in Requests, SetAvatar(q)
  PROVE  /\ request' \in [Requests -> Calls] /\ KnowsOK'
         /\ avatar' \in [Users -> Optional(Names)] /\ held' \subseteq Optional(Names) \X (Items \cup Users)
<1> DEFINE r == request[q]
<1> USE DEF TypeOK
<1>0. r \in Calls /\ Knows(r) /\ r.pc = "write" /\ r.op = "avatar" /\ Attaches(q, r)
  BY DEF SetAvatar, At, KnowsOK
<1>1. Knows([r EXCEPT !.pc = "attach"]) /\ r.user \in Users /\ r.file \in Names
  BY <1>0 DEF Calls, Knows, Picturing, Uploads, Entity
<1>2. avatar' \in [Users -> Optional(Names)] /\ held' \subseteq Optional(Names) \X (Items \cup Users)
  BY <1>1 DEF SetAvatar, Optional
<1> QED
  BY <1>0, <1>1, <1>2, AttachesOK

LEMMA CreateTypes ==
  ASSUME TypeOK, KnowsOK, NEW q \in Requests, NEW i \in Items, CreateItem(q, i) \/ CreateAnswer(q, i)
  PROVE  /\ request' \in [Requests -> Calls] /\ KnowsOK'
         /\ item' \in [Items -> Rows] /\ held' \subseteq Optional(Names) \X (Items \cup Users)
<1> DEFINE r == request[q]
           R == [r EXCEPT !.item = i]
<1> USE DEF TypeOK
<1>0. r \in Calls /\ Knows(r) /\ r.pc = "write" /\ r.op = "create" /\ Attaches(q, R)
  BY DEF CreateItem, CreateAnswer, At, KnowsOK
<1>1. R \in Calls /\ (Knows([R EXCEPT !.pc = "attach"]) \/ R.file = Nobody) /\ R.file = r.file
  BY SMTT(20), <1>0 DEF Calls, Knows, Picturing, Uploads, Entity, Optional
<1>2. <<r.file, i>> \in Optional(Names) \X (Items \cup Users)
  BY <1>0 DEF Calls
<1>3. held' \subseteq Optional(Names) \X (Items \cup Users)
  BY <1>2 DEF CreateItem, CreateAnswer
<1>4. item' \in [Items -> Rows]
  <2>1. CASE CreateItem(q, i)
    <3> DEFINE X == [state |-> "live", kind |-> r.kind, subject |-> r.subject, teacher |-> r.teacher,
                     student |-> Nobody, of |-> Nobody, file |-> r.file]
    <3>1. X \in Rows
      BY <1>0 DEF Rows, Calls, Optional
    <3>2. item' = [item EXCEPT ![i] = X]
      BY <2>1 DEF CreateItem
    <3> HIDE DEF X
    <3> QED
      BY <3>1, <3>2
  <2>2. CASE CreateAnswer(q, i)
    <3> DEFINE X == [state |-> "live", kind |-> "answer", subject |-> item[r.item].subject,
                     teacher |-> item[r.item].teacher, student |-> r.user, of |-> r.item,
                     file |-> r.file]
    <3>1. r.item \in Items
      BY <1>0, <2>2 DEF Knows, CreateAnswer
    <3>2. X \in Rows
      BY <1>0, <3>1 DEF Rows, Calls, Optional, Kinds
    <3>3. item' = [item EXCEPT ![i] = X]
      BY <2>2 DEF CreateAnswer
    <3> HIDE DEF X
    <3> QED
      BY <3>2, <3>3
  <2> QED
    BY <2>1, <2>2
<1> HIDE DEF R
<1> QED
  BY <1>0, <1>1, <1>3, <1>4, AttachesOK

LEMMA UpdateTypes ==
  ASSUME TypeOK, KnowsOK, NEW q \in Requests, UpdateItem(q)
  PROVE  /\ request' \in [Requests -> Calls] /\ KnowsOK'
         /\ item' \in [Items -> Rows] /\ held' \subseteq Optional(Names) \X (Items \cup Users)
<1> DEFINE r == request[q]
           f == IF r.file # Nobody THEN r.file ELSE r.old
<1> USE DEF TypeOK
<1>0. r \in Calls /\ Knows(r) /\ r.pc = "write" /\ r.op = "update" /\ Attaches(q, r)
  BY DEF UpdateItem, At, KnowsOK
<1>1. Knows([r EXCEPT !.pc = "attach"]) \/ r.file = Nobody
  BY <1>0 DEF Calls, Knows, Picturing, Uploads, Entity, Optional
<1>2. f \in Optional(Names) /\ r.item \in Items
  BY <1>0 DEF Calls, Knows
<1>3. item' = [item EXCEPT ![r.item].file = f] /\ held' = held \cup {<<f, r.item>>}
  BY DEF UpdateItem
<1> HIDE DEF f
<1>4. item' \in [Items -> Rows]
  BY <1>2, <1>3 DEF Rows
<1>5. held' \subseteq Optional(Names) \X (Items \cup Users)
  BY <1>2, <1>3
<1> QED
  BY <1>0, <1>1, <1>4, <1>5, AttachesOK

LEMMA AttachTypes ==
  ASSUME TypeOK, KnowsOK, NEW q \in Requests, Attach(q)
  PROVE  /\ request' \in [Requests -> Calls] /\ KnowsOK' /\ record' \in [Names -> Records]
<1> DEFINE r == request[q]
<1> USE DEF TypeOK
<1>0. r \in Calls /\ Knows(r) /\ r.pc = "attach"
  BY DEF Attach, At, KnowsOK
<1>1. Entity(r) \in Items \cup Users /\ record' = [record EXCEPT ![r.file].entity = Entity(r)]
  BY <1>0 DEF Knows, Attach
<1>2. record' \in [Names -> Records]
  BY ZenonT(60), <1>1 DEF Records, Optional
<1>3. [r EXCEPT !.pc = "unlink"] \in Calls
  BY <1>0 DEF Calls
<1>4. r.op = "avatar" /\ r.old # Nobody => Knows([r EXCEPT !.pc = "unlink"])
  BY <1>0 DEF Calls, Knows, Picturing, Uploads, Optional
<1> QED
  BY <1>2, <1>3, <1>4, BecomeOK, DoneOK DEF Attach, Goto

LEMMA RemovalTypes ==
  ASSUME TypeOK, KnowsOK, NEW q \in Requests, Unlink(q) \/ Forget(q)
  PROVE  /\ request' \in [Requests -> Calls] /\ KnowsOK'
         /\ record' \in [Names -> Records] /\ stored' \subseteq Names
<1> DEFINE r == request[q]
<1> USE DEF TypeOK
<1>0. r \in Calls /\ Knows(r)
  BY DEF KnowsOK
<1>1. CASE Unlink(q)
  <2>1. [r EXCEPT !.pc = "forget"] \in Calls
    BY <1>0 DEF Calls
  <2>2. Knows([r EXCEPT !.pc = "forget"])
    BY <1>0, <1>1 DEF Calls, Knows, Picturing, Uploads, Unlink, At
  <2> QED
    BY <1>1, <2>1, <2>2, BecomeOK DEF Unlink, Goto
<1>2. CASE Forget(q)
  <2>1. record' \in [Names -> Records]
    BY <1>2 DEF Forget, Records
  <2> QED
    BY <1>2, <2>1, DoneOK DEF Forget
<1> QED
  BY <1>1, <1>2

LEMMA FailureTypes ==
  ASSUME TypeOK, KnowsOK, NEW q \in Requests, DatabaseFails(q) \/ NotRemoved(q)
  PROVE  request' \in [Requests -> Calls] /\ KnowsOK' /\ budget' \in [Events -> Nat]
<1> DEFINE r == request[q]
           R == [r EXCEPT !.pc = "unlink", !.old = r.file]
<1> USE DEF TypeOK
<1>0. r \in Calls /\ Knows(r) /\ "fault" \in Events
  BY DEF KnowsOK, Events
<1>1. R \in Calls
  BY <1>0 DEF Calls
<1>2. r.op = "avatar" /\ r.pc \in {"look", "write", "attach"} => Knows(R)
  BY <1>0 DEF Calls, Knows, Picturing, Uploads
<1>3. budget' \in [Events -> Nat]
  BY <1>0, SpendOK DEF DatabaseFails, NotRemoved
<1> HIDE DEF R
<1>4. CASE DatabaseFails(q) /\ CleansUp(r) /\ Become(q, R)
  BY <1>1, <1>2, <1>3, <1>4, BecomeOK DEF DatabaseFails, CleansUp
<1>5. CASE Done(q)
  BY <1>3, <1>5, DoneOK
<1> QED
  BY <1>4, <1>5 DEF DatabaseFails, NotRemoved, R

LEMMA DeleteTypes ==
  ASSUME TypeOK, KnowsOK, NEW i \in Items, NEW u \in Users, DeleteItem(i, u)
  PROVE  /\ request' \in [Requests -> Calls] /\ KnowsOK' /\ budget' \in [Events -> Nat]
         /\ item' \in [Items -> Rows]
<1> USE DEF TypeOK
<1>1. "delete" \in Events
  BY DEF Events
<1>2. item' \in [Items -> Rows]
  BY DEF DeleteItem, Rows
<1> QED
  BY <1>1, <1>2, SpendOK, StaysOK DEF DeleteItem

LEMMA ReadTypes ==
  ASSUME TypeOK, KnowsOK, ReadStep
  PROVE  request' \in [Requests -> Calls] /\ KnowsOK' /\ budget' \in [Events -> Nat]
<1> USE DEF TypeOK
<1>1. ASSUME NEW q \in Requests, NEW u \in Users, NEW f \in Names, Ask(q, u, f)
      PROVE  request' \in [Requests -> Calls] /\ KnowsOK' /\ budget' \in [Events -> Nat]
  <2> DEFINE R == [NoRequest EXCEPT !.op = "read", !.pc = "asked", !.user = u,
                                    !.department = DepartmentOf(u), !.file = f]
  <2>1. R \in Calls /\ Knows(R) /\ "ask" \in Events
    BY DepartmentType DEF NoRequest, Calls, Knows, Picturing, Uploads, Optional, Records, Kinds, Events
  <2>2. Become(q, R) /\ Spend("ask")
    BY <1>1 DEF Ask
  <2> HIDE DEF R
  <2> QED
    BY <2>1, <2>2, SpendOK, BecomeOK
<1>2. ASSUME NEW q \in Requests, ReadRecord(q)
      PROVE  request' \in [Requests -> Calls] /\ KnowsOK' /\ UNCHANGED budget
  <2> DEFINE r == request[q]
             R == [r EXCEPT !.pc = "row", !.by = record[r.file].by, !.entity = record[r.file].entity]
  <2>1. r \in Calls /\ Knows(r) /\ r.pc = "asked" /\ r.op = "read" /\ r.file \in Names
    BY <1>2 DEF ReadRecord, At, KnowsOK, Knows
  <2>2. record[r.file].by \in Optional(Users) /\ record[r.file].entity \in Optional(Items \cup Users)
    BY <2>1 DEF Records
  <2>3. R \in Calls
    BY <2>1, <2>2 DEF Calls
  <2>4. Knows(R)
    BY <2>1 DEF Calls, Knows, Picturing, Uploads
  <2>5. Become(q, R) \/ Done(q)
    BY <1>2 DEF ReadRecord
  <2> HIDE DEF R
  <2> QED
    BY <1>2, <2>3, <2>4, <2>5, BecomeOK, DoneOK DEF ReadRecord
<1>3. ASSUME NEW q \in Requests, CheckRow(q) \/ CheckMember(q) \/ Send(q) \/ Finish(q)
      PROVE  request' \in [Requests -> Calls] /\ KnowsOK' /\ UNCHANGED budget
  <2>1. request[q] \in Calls /\ Knows(request[q]) /\ request[q].pc \in {"row", "member", "send", "sent"}
    BY <1>3 DEF CheckRow, CheckMember, Send, Finish, At, KnowsOK
  <2>2. \A pc \in {"member", "send", "sent"} :
            [request[q] EXCEPT !.pc = pc] \in Calls /\ Knows([request[q] EXCEPT !.pc = pc])
    BY <2>1 DEF Calls, Knows, Picturing, Uploads
  <2>3. Done(q) \/ \E pc \in {"member", "send", "sent"} : Goto(q, pc)
    BY <1>3 DEF CheckRow, CheckMember, Send, Finish
  <2> QED
    BY <1>3, <2>2, <2>3, BecomeOK, DoneOK DEF Goto, CheckRow, CheckMember, Send, Finish
<1> QED
  BY <1>1, <1>2, <1>3 DEF ReadStep

LEMMA OtherTypes ==
  ASSUME TypeOK, KnowsOK, OtherStep
  PROVE  /\ request' \in [Requests -> Calls] /\ KnowsOK' /\ budget' \in [Events -> Nat]
         /\ enrolled' \subseteq Users \X Subjects /\ holder' \in [Subjects -> Optional(Users)]
         /\ department' \in [Coordinators \cup Subjects -> Optional(Departments)]
<1> USE DEF TypeOK
<1>0. {"assign", "join", "crash"} \subseteq Events
  BY DEF Events
<1>1. ASSUME NEW x \in Subjects, NEW u \in Optional(Instructors), AssignInstructor(x, u)
      PROVE  /\ request' \in [Requests -> Calls] /\ KnowsOK' /\ budget' \in [Events -> Nat]
             /\ UNCHANGED <<enrolled, department>> /\ holder' \in [Subjects -> Optional(Users)]
  BY <1>0, <1>1, SpendOK, StaysOK DEF AssignInstructor, Optional, Instructors
<1>2. ASSUME NEW u \in Students, NEW x \in Subjects, ChangeEnrollment(u, x)
      PROVE  /\ request' \in [Requests -> Calls] /\ KnowsOK' /\ budget' \in [Events -> Nat]
             /\ enrolled' \subseteq Users \X Subjects /\ UNCHANGED <<department, holder>>
  BY <1>0, <1>2, SpendOK, StaysOK DEF ChangeEnrollment, Students
<1>3. ASSUME NEW e \in Coordinators \cup Subjects, NEW d \in Optional(Departments), ChangeDepartment(e, d)
      PROVE  /\ request' \in [Requests -> Calls] /\ KnowsOK' /\ budget' \in [Events -> Nat]
             /\ department' \in [Coordinators \cup Subjects -> Optional(Departments)]
             /\ UNCHANGED <<enrolled, holder>>
  BY <1>0, <1>3, SpendOK, StaysOK DEF ChangeDepartment
<1>4. CASE Crash
  <2>1. request' \in [Requests -> Calls] /\ KnowsOK'
    BY <1>4, Idle DEF Crash, KnowsOK
  <2> QED
    BY <1>0, <1>4, <2>1, SpendOK DEF Crash
<1> QED
  BY <1>1, <1>2, <1>3, <1>4 DEF OtherStep

LEMMA TypeStep ==
  ASSUME TypeOK, KnowsOK, [Next]_vars
  PROVE  TypeOK' /\ KnowsOK'
<1>1. CASE UNCHANGED vars
  BY <1>1, StaysOK DEF vars, rows, TypeOK
<1>2. CASE Next
  <2>1. entitled' \in [Requests -> BOOLEAN]
    BY <1>2 DEF Next, TypeOK
  <2>2. CASE UploadStep
    BY <2>1, <2>2, UploadTypes DEF TypeOK, UploadStep, Upload, Edit, Store, Register, NotRegistered, rows
  <2>3. CASE ReadStep
    BY <2>1, <2>3, ReadTypes DEF TypeOK, ReadStep, Ask, ReadRecord, CheckRow, CheckMember, Send, Finish, rows
  <2>4. CASE OtherStep
    BY <2>1, <2>4, OtherTypes DEF TypeOK, OtherStep, AssignInstructor, ChangeEnrollment, ChangeDepartment, Crash, rows
  <2>5. CASE HandlerStep
    <3>1. ASSUME NEW q \in Requests, LookUp(q) PROVE TypeOK' /\ KnowsOK'
      BY <2>1, <3>1, LookUpTypes DEF TypeOK, LookUp, rows
    <3>2. ASSUME NEW q \in Requests, Refuse(q) \/ Rejected(q) PROVE TypeOK' /\ KnowsOK'
      BY <2>1, <3>2, DoneOK DEF TypeOK, Refuse, Rejected, rows
    <3>3. ASSUME NEW q \in Requests, SetAvatar(q) PROVE TypeOK' /\ KnowsOK'
      BY <2>1, <3>3, SetAvatarTypes DEF TypeOK, SetAvatar
    <3>4. ASSUME NEW q \in Requests, UpdateItem(q) PROVE TypeOK' /\ KnowsOK'
      BY <2>1, <3>4, UpdateTypes DEF TypeOK, UpdateItem
    <3>5. ASSUME NEW q \in Requests, Attach(q) PROVE TypeOK' /\ KnowsOK'
      BY <2>1, <3>5, AttachTypes DEF TypeOK, Attach, rows
    <3>6. ASSUME NEW q \in Requests, DatabaseFails(q) \/ NotRemoved(q) PROVE TypeOK' /\ KnowsOK'
      BY <2>1, <3>6, FailureTypes DEF TypeOK, DatabaseFails, NotRemoved, rows
    <3>7. ASSUME NEW q \in Requests, Unlink(q) \/ Forget(q) PROVE TypeOK' /\ KnowsOK'
      BY <2>1, <3>7, RemovalTypes DEF TypeOK, Unlink, Forget, rows
    <3>8. ASSUME NEW q \in Requests, NEW i \in Items, CreateItem(q, i) \/ CreateAnswer(q, i)
          PROVE TypeOK' /\ KnowsOK'
      BY <2>1, <3>8, CreateTypes DEF TypeOK, CreateItem, CreateAnswer
    <3>9. ASSUME NEW i \in Items, NEW u \in Users, DeleteItem(i, u) PROVE TypeOK' /\ KnowsOK'
      BY <2>1, <3>9, DeleteTypes DEF TypeOK, DeleteItem
    <3> QED
      BY <2>5, <3>1, <3>2, <3>3, <3>4, <3>5, <3>6, <3>7, <3>8, <3>9 DEF HandlerStep
  <2> QED
    BY <1>2, <2>2, <2>3, <2>4, <2>5 DEF Next
<1> QED
  BY <1>1, <1>2

-----------------------------------------------------------------------------
(* Files and the rows that show them *)

\* A request that is over, reads, or has uploaded nothing yet.
Fresh(R) == ~Uploads(R) \/ (R.file = Nobody /\ R.old = Nobody /\ R.pc \in {"store", "look"})

LEMMA Rests ==
  ASSUME TypeOK, KnowsOK, KnowsOK', FilesInv, UNCHANGED <<stored, record, avatar, held>>,
         \A i \in Items : item'[i].file = item[i].file,
         \A q \in Requests : request'[q] = request[q] \/ Fresh(request'[q])
  PROVE  FilesInv'
<1> USE DEF FilesInv, KnowsOK, At
<1>0. \A q \in Requests : Knows(request'[q])
  OBVIOUS
<1>1. OwnOK'
  BY DEF OwnOK, Fresh, Uploads, Settled
<1>2. PrivateOK'
  BY <1>0 DEF PrivateOK, Private, Fresh, Uploads, Knows
<1>3. AttachOK'
  BY <1>0 DEF AttachOK, Fresh, Uploads, Knows
<1>4. WorkOK'
  BY <1>0 DEF WorkOK, Works, Fine, Fresh, Uploads, Picturing, Knows
<1>5. PictureOK'
  BY <1>0 DEF PictureOK, Settled, Fresh, Uploads, Picturing, Knows
<1>6. AvatarOK'
  BY <1>0 DEF AvatarOK, Settled, Fine, Fresh, Uploads, Picturing, Knows
<1> QED
  BY <1>1, <1>2, <1>3, <1>4, <1>5, <1>6

LEMMA Others ==
  ASSUME request \in [Requests -> Calls], NEW q \in Requests, NEW R, Become(q, R)
  PROVE  request'[q] = R /\ \A p \in Requests : p # q => request'[p] = request[p]
BY DEF Become

LEMMA OldSettled ==
  ASSUME TypeOK, KnowsOK, FilesInv
  PROVE  \A p \in Requests : request[p].old # Nobody => Settled(request[p].old)
<1> TAKE p \in Requests
<1>1. request[p].op \in {"none", "avatar", "sheet", "create", "update", "read"} /\ Knows(request[p])
  BY DEF TypeOK, Calls, KnowsOK
<1>2. CASE request[p].op = "update"
  BY <1>2 DEF FilesInv, WorkOK, Works, Fine, Settled
<1>3. CASE Picturing(request[p])
  BY <1>3 DEF FilesInv, PictureOK
<1> QED
  BY <1>1, <1>2, <1>3 DEF Knows, Picturing

LEMMA StoreFiles ==
  ASSUME TypeOK, KnowsOK, FilesInv, NEW q \in Requests, NEW f \in Names, Store(q, f)
  PROVE  FilesInv'
<1> DEFINE r == request[q]
           R == request'[q]
<1> USE DEF FilesInv, At
<1>a. /\ R = [r EXCEPT !.pc = "register", !.file = f]
      /\ \A p \in Requests : p # q => request'[p] = request[p]
  BY Others DEF Store, TypeOK
<1>0. /\ Knows(r) /\ r.pc = "store" /\ record[f].state = "none"
      /\ \A p \in Requests : p # q => request'[p] = request[p]
      /\ R.op = r.op /\ R.pc = "register" /\ R.file = f /\ R.old = Nobody
      /\ f # Nobody
  BY <1>a, NobodyAssumption DEF Store, KnowsOK, TypeOK, Calls, Knows
<1>1. /\ stored' = stored \cup {f} /\ UNCHANGED <<item, avatar, held>>
      /\ record'[f].state = "named" /\ record'[f].entity = Nobody
      /\ \A g \in Names \ {f} : record'[g] = record[g]
  BY <1>0 DEF Store, rows, OwnOK, TypeOK, Records
<1>2. /\ \A u \in Users : avatar[u] # f
      /\ \A i \in Items : item[i].file # f
      /\ \A p \in Requests : request[p].old # f
      /\ \A p \in Requests : Uploads(request[p]) => request[p].file # f
  <2>1. \A u \in Users : avatar[u] # f
    BY <1>0 DEF AvatarOK, Settled
  <2>2. \A i \in Items : item[i].file # f
    BY <1>0 DEF WorkOK, Works, Fine
  <2>3. \A p \in Requests : request[p].old # f
    BY <1>0, OldSettled DEF Settled
  <2>4. \A p \in Requests : Uploads(request[p]) => request[p].file # f
    BY <1>0 DEF OwnOK, Settled
  <2> QED
    BY <2>1, <2>2, <2>3, <2>4
<1>3. \A p \in Requests : /\ request[p].file \in Optional(Names) /\ request[p].old \in Optional(Names)
  BY DEF TypeOK, Calls
<1>4. /\ \A i \in Items : item[i].file \in Optional(Names)
      /\ \A u \in Users : avatar[u] \in Optional(Names)
  BY DEF TypeOK, Rows
<1> HIDE DEF R
<1>5. OwnOK'
  BY <1>0, <1>1, <1>2, <1>3 DEF OwnOK, Settled, Uploads, R, Optional
<1>6. PrivateOK'
  BY <1>0, <1>1, <1>2, <1>3 DEF PrivateOK, Private, Uploads, R, Optional
<1>7. AttachOK'
  BY <1>0, <1>1, <1>2, <1>3 DEF AttachOK, R, Optional, Knows, KnowsOK, Uploads
<1>8. WorkOK'
  BY <1>0, <1>1, <1>2, <1>3, <1>4 DEF WorkOK, Works, Fine, R, Optional, Picturing, Uploads
<1>9. PictureOK'
  BY <1>0, <1>1, <1>2, <1>3, <1>4 DEF PictureOK, Settled, R, Optional, Picturing
<1>10. AvatarOK'
  BY <1>0, <1>1, <1>2, <1>3, <1>4 DEF AvatarOK, Settled, Fine, R, Optional
<1> QED
  BY <1>5, <1>6, <1>7, <1>8, <1>9, <1>10

\* A request goes on from "register" with a file of its own.
LEMMA RegisterFiles ==
  ASSUME TypeOK, KnowsOK, FilesInv, NEW q \in Requests, Register(q)
  PROVE  FilesInv'
<1> DEFINE r == request[q]
           R == request'[q]
           f == r.file
<1> USE DEF FilesInv, At
<1>a. /\ R = [r EXCEPT !.pc = "look"]
      /\ \A p \in Requests : p # q => request'[p] = request[p]
  BY Others DEF Register, Goto, TypeOK
<1>0. /\ Knows(r) /\ r.pc = "register" /\ f \in Names /\ Uploads(r) /\ f # Nobody
      /\ R.op = r.op /\ R.pc = "look" /\ R.file = f /\ R.old = Nobody /\ r.old = Nobody
      /\ \A p \in Requests : p # q => request'[p] = request[p]
  BY <1>a, NobodyAssumption DEF Register, KnowsOK, TypeOK, Calls, Knows, Uploads
<1>1. /\ UNCHANGED <<stored, item, avatar, held>>
      /\ record'[f].state = "kept" /\ record'[f].entity = Nobody
      /\ \A g \in Names \ {f} : record'[g] = record[g]
  BY <1>0 DEF Register, rows, TypeOK
<1>2. /\ f \in stored /\ record[f].state = "named"
      /\ \A i \in Items : item[i].file # f
      /\ \A u \in Users : avatar[u] # f
      /\ \A p \in Requests : request[p].old # f
      /\ \A p \in Requests : p # q /\ Uploads(request[p]) => request[p].file # f
  BY <1>0 DEF PrivateOK, Private, OwnOK
<1>3. \A p \in Requests : /\ request[p].file \in Optional(Names) /\ request[p].old \in Optional(Names)
  BY DEF TypeOK, Calls
<1>4. /\ \A i \in Items : item[i].file \in Optional(Names)
      /\ \A u \in Users : avatar[u] \in Optional(Names)
  BY DEF TypeOK, Rows
<1>9. \A p \in Requests : Knows(request[p])
  BY DEF KnowsOK
<1>5. OwnOK'
  BY <1>0, <1>1, <1>2, <1>3 DEF OwnOK, Settled, Uploads, Optional
<1>6. PrivateOK'
  BY <1>0, <1>1, <1>2, <1>3 DEF PrivateOK, Private, Uploads, Optional
<1>7. AttachOK'
  BY <1>0, <1>1, <1>2, <1>3, <1>9 DEF AttachOK, Optional, Knows, Uploads
<1>8. WorkOK'
  BY <1>0, <1>1, <1>2, <1>3, <1>4 DEF WorkOK, Works, Fine, Optional, Picturing, Uploads
<1>10. PictureOK'
  BY <1>0, <1>1, <1>2, <1>3, <1>4 DEF PictureOK, Settled, Optional, Picturing
<1>11. AvatarOK'
  BY <1>0, <1>1, <1>2, <1>3, <1>4 DEF AvatarOK, Settled, Fine, Optional
<1> QED
  BY <1>5, <1>6, <1>7, <1>8, <1>10, <1>11

LEMMA NotRegisteredFiles ==
  ASSUME TypeOK, KnowsOK, FilesInv, NEW q \in Requests, NotRegistered(q)
  PROVE  FilesInv'
<1> DEFINE f == request[q].file
<1> USE DEF FilesInv, At
<1>1. /\ request'[q] = NoRequest
      /\ \A p \in Requests : p # q => request'[p] = request[p]
  BY Others DEF NotRegistered, Done, TypeOK
<1>2. /\ NoRequest.op = "none" /\ NoRequest.pc = "idle" /\ NoRequest.old = Nobody
      /\ request[q].pc = "register" /\ Private(request[q])
  BY NobodyAssumption DEF NotRegistered, NoRequest, Private, Uploads, KnowsOK, Knows
<1>3. UNCHANGED <<record, item, avatar, held>> /\ stored \ {f} \subseteq stored'
  BY DEF NotRegistered, rows
<1>4. /\ \A i \in Items : item[i].file # f
      /\ \A u \in Users : avatar[u] # f
      /\ \A p \in Requests : request[p].old # f
      /\ \A p \in Requests : p # q /\ Uploads(request[p]) => request[p].file # f
  BY <1>2 DEF PrivateOK, Private, OwnOK
<1> HIDE DEF f
<1>5. OwnOK'
  BY <1>1, <1>2, <1>3 DEF OwnOK, Settled, Uploads
<1>6. PrivateOK'
  BY <1>1, <1>2, <1>3, <1>4 DEF PrivateOK, Private, Uploads
<1>7. AttachOK'
  BY <1>1, <1>2, <1>3 DEF AttachOK
<1>8. WorkOK'
  BY <1>1, <1>2, <1>3, <1>4 DEF WorkOK, Works, Fine, Picturing
<1>9. PictureOK'
  BY <1>1, <1>2, <1>3 DEF PictureOK, Settled, Picturing
<1>10. AvatarOK'
  BY <1>1, <1>2, <1>3, <1>4 DEF AvatarOK, Settled, Fine
<1> QED
  BY <1>5, <1>6, <1>7, <1>8, <1>9, <1>10

\* A request looks up the file it will replace, the one it has read, or none.
LEMMA LookUpFiles ==
  ASSUME TypeOK, KnowsOK, FilesInv, NEW q \in Requests, LookUp(q)
  PROVE  FilesInv'
<1> DEFINE r == request[q]
           R == request'[q]
<1> USE DEF FilesInv, At
<1>1. /\ UNCHANGED <<stored, record, item, avatar, held>> /\ r.pc = "look" /\ Knows(r) /\ Uploads(r)
      /\ \A p \in Requests : Knows(request[p])
  BY DEF LookUp, rows, KnowsOK, Knows, Uploads
<1>2. /\ \A p \in Requests : p # q => request'[p] = request[p]
      /\ R.op = r.op /\ R.user = r.user /\ R.file = r.file /\ R.item = r.item
      /\ \/ r.op = "avatar" /\ R.pc = "write" /\ R.old = avatar[r.user]
         \/ r.op = "sheet" /\ R.pc = "unlink" /\ R.old = r.file
         \/ r.op \in {"create", "update"} /\ R.pc = "write" /\ R.old = Nobody
         \/ /\ r.op = "update" /\ R.pc = "write" /\ r.item \in Items
            /\ R.old = item[r.item].file
  <2>0. r \in Calls /\ r.old = Nobody /\ r.op \in {"avatar", "sheet", "create", "update"}
    BY <1>1 DEF TypeOK, Calls, Knows, Uploads
  <2>1. CASE r.op = "avatar" /\ Become(q, [r EXCEPT !.pc = "write", !.old = avatar[r.user]])
    <3>1. R = [r EXCEPT !.pc = "write", !.old = avatar[r.user]] /\ \A p \in Requests : p # q => request'[p] = request[p]
      BY <2>1, Others DEF TypeOK
    <3> QED
      BY <2>0, <2>1, <3>1 DEF Calls
  <2>2. CASE r.op = "sheet" /\ Become(q, [r EXCEPT !.pc = "unlink", !.old = r.file])
    <3>1. R = [r EXCEPT !.pc = "unlink", !.old = r.file] /\ \A p \in Requests : p # q => request'[p] = request[p]
      BY <2>2, Others DEF TypeOK
    <3> QED
      BY <2>0, <2>2, <3>1 DEF Calls
  <2>3. CASE r.op = "create" /\ Become(q, [r EXCEPT !.pc = "write", !.teacher = holder[r.subject]])
    <3>1. R = [r EXCEPT !.pc = "write", !.teacher = holder[r.subject]] /\ \A p \in Requests : p # q => request'[p] = request[p]
      BY <2>3, Others DEF TypeOK
    <3> QED
      BY <2>0, <2>3, <3>1 DEF Calls
  <2>4. CASE r.op = "update" /\ Become(q, [r EXCEPT !.pc = "write", !.old = item[r.item].file])
    <3>1. R = [r EXCEPT !.pc = "write", !.old = item[r.item].file] /\ \A p \in Requests : p # q => request'[p] = request[p]
      BY <2>4, Others DEF TypeOK
    <3> QED
      BY <1>1, <2>0, <2>4, <3>1 DEF Calls, Knows
  <2>5. CASE r.kind = "answer" /\ Goto(q, "write")
    <3>1. R = [r EXCEPT !.pc = "write"] /\ \A p \in Requests : p # q => request'[p] = request[p]
      BY <2>5, Others DEF TypeOK, Goto
    <3>2. r.op \in {"create", "update"}
      BY <1>1, <2>0, <2>5 DEF Knows, Picturing
    <3> QED
      BY <2>0, <3>1, <3>2 DEF Calls
  <2> QED
    BY <2>1, <2>2, <2>3, <2>4, <2>5 DEF LookUp
<1>3. r.user \in Users
  BY <1>1 DEF Knows, Uploads
<1>4. \A p \in Requests : p # q /\ Uploads(request[p]) /\ request[p].file = r.file => r.file = Nobody
  BY <1>1 DEF OwnOK
<1>5. r.file # Nobody =>
        /\ Fine(r.file) /\ record[r.file].entity = Nobody
        /\ \A i \in Items : item[i].file # r.file
        /\ \A u \in Users : avatar[u] # r.file
        /\ \A p \in Requests : request[p].old # r.file
  BY <1>1 DEF PrivateOK, Private, Fine
<1>6. Picturing(r) => r.file \in Names /\ r.file # Nobody
  BY <1>1, NobodyAssumption DEF Knows
<1> HIDE DEF r, R
<1>7. OwnOK'
  BY <1>1, <1>2 DEF OwnOK, Settled, Uploads, r, R
<1>8. PrivateOK'
  <2> SUFFICES ASSUME NEW p \in Requests, Private(request'[p])
               PROVE  LET f == request'[p].file
                      IN  /\ f \in stored
                          /\ record[f].state = IF request'[p].pc = "register" THEN "named" ELSE "kept"
                          /\ record[f].entity = Nobody
                          /\ \A i \in Items : item[i].file # f
                          /\ \A u \in Users : avatar[u] # f
                          /\ \A o \in Requests : request'[o].old # f
    BY <1>1 DEF PrivateOK
  <2>1. Private(request[p]) /\ request'[p].file = request[p].file
        /\ (request'[p].pc = "register" <=> request[p].pc = "register")
    BY <1>1, <1>2 DEF Private, Uploads, r, R
  <2>2. \A o \in Requests : request'[o].old # request[p].file
    <3>1. \A o \in Requests : o # q => request'[o].old # request[p].file
      BY <1>2, <2>1 DEF PrivateOK
    <3>2. R.old # request[p].file
      <4>1. R.pc # "unlink" => R.old = Nobody \/ R.old = avatar[r.user]
                                \/ (R.old = item[r.item].file /\ r.item \in Items)
        BY <1>2
      <4>2. R.pc = "unlink" => R.old = r.file /\ p # q
        BY <1>2, <2>1, <1>1 DEF Private, r, R
      <4> QED
        BY <4>1, <4>2, <1>3, <1>4, <2>1 DEF PrivateOK, Private, r
    <3> QED
      BY <3>1, <3>2 DEF R
  <2> QED
    BY <2>1, <2>2 DEF PrivateOK
<1>9. AttachOK'
  BY <1>1, <1>2 DEF AttachOK, r, R
<1>10. WorkOK'
  <2>1. \A g : Works(g) /\ g # Nobody => Works(g)'
    BY <1>1, <1>2, <1>3, <1>6 DEF Works, Fine, Picturing, r, R
  <2> QED
    BY <1>1, <1>2, <2>1 DEF WorkOK, r, R
<1>11. PictureOK'
  <2>1. CASE r.op = "avatar" /\ R.pc = "write" /\ R.old = avatar[r.user]
    BY <1>1, <1>2, <1>3, <1>5, <1>6, <2>1 DEF PictureOK, AvatarOK, Settled, Picturing, r, R
  <2>2. CASE r.op = "sheet" /\ R.pc = "unlink" /\ R.old = r.file
    BY <1>1, <1>2, <1>5, <1>6, <2>2 DEF PictureOK, Settled, Fine, Picturing, r, R
  <2>3. CASE r.op \in {"create", "update"}
    BY <1>1, <1>2, <2>3 DEF PictureOK, Settled, Picturing, r, R
  <2> QED
    BY <1>2, <2>1, <2>2, <2>3
<1>12. AvatarOK'
  BY <1>1, <1>2 DEF AvatarOK, Settled, Fine, r, R
<1> QED
  BY <1>7, <1>8, <1>9, <1>10, <1>11, <1>12

\* What a request that writes knows of its file.
LEMMA Writing ==
  ASSUME TypeOK, KnowsOK, FilesInv, NEW q \in Requests, At(q, "write")
  PROVE  LET r == request[q]
         IN  /\ Knows(r) /\ r \in Calls /\ Uploads(r) /\ r.user \in Users
             /\ r.file # Nobody =>
                  /\ r.file \in Names /\ Fine(r.file) /\ record[r.file].entity = Nobody
                  /\ \A i \in Items : item[i].file # r.file
                  /\ \A u \in Users : avatar[u] # r.file
                  /\ \A p \in Requests : request[p].old # r.file
                  /\ \A p \in Requests : p # q /\ Uploads(request[p]) => request[p].file # r.file
<1>1. Knows(request[q]) /\ request[q] \in Calls
  BY DEF KnowsOK, TypeOK
<1>2. Uploads(request[q]) /\ request[q].user \in Users
  BY <1>1 DEF Knows, Uploads, At
<1>3. request[q].file # Nobody => request[q].file \in Names
  BY <1>1 DEF Calls, Optional
<1> QED
  BY <1>1, <1>2, <1>3 DEF FilesInv, PrivateOK, Private, OwnOK, Fine, At

LEMMA SetAvatarFiles ==
  ASSUME TypeOK, KnowsOK, FilesInv, NEW q \in Requests, SetAvatar(q)
  PROVE  FilesInv'
<1> DEFINE r == request[q]
           R == request'[q]
           f == request[q].file
           u == request[q].user
<1> USE DEF FilesInv, At
<1>1. /\ r.pc = "write" /\ r.op = "avatar" /\ r \in Calls /\ f \in Names /\ f # Nobody /\ u \in Users
      /\ Uploads(r)
  BY Writing, NobodyAssumption DEF SetAvatar, Knows, Picturing
<1>2. /\ Fine(f) /\ record[f].entity = Nobody
      /\ \A i \in Items : item[i].file # f
      /\ \A v \in Users : avatar[v] # f
      /\ \A p \in Requests : request[p].old # f
      /\ \A p \in Requests : p # q /\ Uploads(request[p]) => request[p].file # f
  BY <1>1, Writing DEF SetAvatar
<1>3. R = [r EXCEPT !.pc = "attach"] /\ \A p \in Requests : p # q => request'[p] = request[p]
  BY <1>1, Others DEF SetAvatar, Attaches, TypeOK
<1>4. /\ \A p \in Requests : p # q => request'[p] = request[p]
      /\ R.op = "avatar" /\ R.pc = "attach" /\ R.file = f /\ R.old = r.old /\ R.user = u
  BY <1>1, <1>3 DEF Calls
<1>5. /\ UNCHANGED <<stored, record, item>> /\ held' = held \cup {<<f, u>>}
      /\ avatar'[u] = f /\ \A v \in Users : v # u => avatar'[v] = avatar[v]
  BY <1>1 DEF SetAvatar, TypeOK
<1>6. \A p \in Requests : Picturing(request[p]) => Uploads(request[p])
  BY DEF Picturing, Uploads
<1> HIDE DEF r, R, f, u
<1>7. OwnOK'
  BY <1>1, <1>4, <1>5 DEF OwnOK, Settled, Uploads, r, R, f
<1>8. PrivateOK'
  BY <1>1, <1>2, <1>4, <1>5 DEF PrivateOK, Private, r, R, f
<1>9. AttachOK'
  BY <1>1, <1>2, <1>4, <1>5 DEF AttachOK, Entity, r, R, f
<1>10. WorkOK'
  <2>1. \A g : Works(g) /\ g # f => Works(g)'
    BY <1>1, <1>4, <1>5 DEF Works, Fine, Picturing, r, R, f
  <2> QED
    BY <1>1, <1>2, <1>4, <1>5, <2>1 DEF WorkOK, r, R
<1>11. PictureOK'
  BY <1>1, <1>2, <1>4, <1>5 DEF PictureOK, Settled, Picturing, r, R, f, u
<1>12. AvatarOK'
  BY <1>1, <1>2, <1>4, <1>5, <1>6 DEF AvatarOK, Settled, Fine, r, R, f, u
<1> QED
  BY <1>7, <1>8, <1>9, <1>10, <1>11, <1>12

\* An item shows the request's file, or the one that it read.
LEMMA ShowFiles ==
  ASSUME TypeOK, KnowsOK, FilesInv, NEW q \in Requests, NEW i \in Items, NEW f,
         At(q, "write"), request[q].op \in {"create", "update"},
         f = request[q].file \/ f = request[q].old,
         \/ request'[q] = NoRequest /\ request[q].file = Nobody
         \/ /\ request'[q].op = request[q].op /\ request'[q].file = request[q].file
            /\ request'[q].old = request[q].old /\ request'[q].pc = "attach"
            /\ request'[q].item = i /\ f = request[q].file /\ f # Nobody,
         \A p \in Requests : p # q => request'[p] = request[p],
         UNCHANGED <<stored, record, avatar>>, held' = held \cup {<<f, i>>},
         item'[i].file = f, \A j \in Items : j # i => item'[j] = item[j]
  PROVE  FilesInv'
<1> DEFINE r == request[q]
           R == request'[q]
<1> USE DEF FilesInv, At
<1>1. NoRequest.op = "none" /\ NoRequest.pc = "idle" /\ NoRequest.old = Nobody
  BY DEF NoRequest
<1>2. /\ Knows(r) /\ Uploads(r) /\ ~Picturing(r) /\ \A p \in Requests : Knows(request[p])
      /\ \A p \in Requests : Picturing(request[p]) => Uploads(request[p])
  BY Writing DEF Picturing, KnowsOK, Uploads
<1>3. r.file # Nobody =>
        /\ Fine(r.file) /\ record[r.file].entity = Nobody
        /\ \A j \in Items : item[j].file # r.file
        /\ \A v \in Users : avatar[v] # r.file
        /\ \A p \in Requests : request[p].old # r.file
        /\ \A p \in Requests : p # q /\ Uploads(request[p]) => request[p].file # r.file
  BY Writing
<1>4. f # Nobody => Works(f)
  <2>1. CASE f = r.file
    BY <1>2, <1>3, <2>1 DEF Works, Fine
  <2>2. CASE f = r.old
    BY <1>2, <2>2 DEF WorkOK, Knows
  <2> QED
    BY <2>1, <2>2
<1> HIDE DEF r, R
<1>5. OwnOK'
  BY <1>1, <1>2 DEF OwnOK, Settled, Uploads, Private
<1>6. PrivateOK'
  <2>1. \A p \in Requests : Private(request'[p]) => p # q
    BY <1>1 DEF Private, Uploads
  <2>2. \A p \in Requests : Private(request[p]) /\ p # q => request[p].file # f
    BY <1>3 DEF PrivateOK, Private, r
  <2>3. \A p \in Requests : request'[p].old = Nobody \/ request'[p].old = request[p].old
    BY <1>1
  <2> QED
    BY <2>1, <2>2, <2>3 DEF PrivateOK, Private
<1>7. AttachOK'
  <2>1. At(q, "attach")' => request'[q].old # f /\ record[f].entity = Nobody
    BY <1>1, <1>3 DEF r
  <2> QED
    BY <1>1, <2>1 DEF AttachOK, Entity
<1>8. WorkOK'
  <2>1. \A g : Works(g) /\ g # Nobody => Works(g)'
    BY <1>1, <1>2 DEF Works, Fine, Picturing, r
  <2>2. \A p \in Requests : request'[p].op = "update" =>
            request[p].op = "update" /\ request'[p].old = request[p].old
    BY <1>1
  <2> QED
    BY <1>4, <2>1, <2>2 DEF WorkOK
<1>9. PictureOK'
  BY <1>1, <1>2 DEF PictureOK, Settled, Picturing
<1>10. AvatarOK'
  BY <1>1, <1>3 DEF AvatarOK, Settled, Fine, r
<1> QED
  BY <1>5, <1>6, <1>7, <1>8, <1>9, <1>10

LEMMA CreateFiles ==
  ASSUME TypeOK, KnowsOK, FilesInv, NEW q \in Requests, NEW i \in Items,
         CreateItem(q, i) \/ CreateAnswer(q, i)
  PROVE  FilesInv'
<1> DEFINE r == request[q]
           f == request[q].file
<1>1. /\ At(q, "write") /\ r.op = "create" /\ r \in Calls
      /\ Attaches(q, [r EXCEPT !.item = i])
  BY DEF CreateItem, CreateAnswer, TypeOK
<1>4. /\ \A p \in Requests : p # q => request'[p] = request[p]
      /\ \/ request'[q] = NoRequest /\ f = Nobody
         \/ request'[q] = [[r EXCEPT !.item = i] EXCEPT !.pc = "attach"] /\ f # Nobody
  <2>1. CASE f = Nobody
    <3>1. Done(q)
      BY <1>1, <2>1 DEF Attaches, Calls
    <3> QED
      BY <2>1, <3>1, Others DEF Done, TypeOK
  <2>2. CASE f # Nobody
    <3>1. Become(q, [[r EXCEPT !.item = i] EXCEPT !.pc = "attach"])
      BY <1>1, <2>2 DEF Attaches, Calls
    <3> QED
      BY <2>2, <3>1, Others DEF TypeOK
  <2> QED
    BY <2>1, <2>2
<1>5. \/ request'[q] = NoRequest /\ f = Nobody
      \/ /\ request'[q].op = r.op /\ request'[q].file = f /\ request'[q].old = r.old
         /\ request'[q].pc = "attach" /\ request'[q].item = i /\ f # Nobody
  BY <1>1, <1>4 DEF Calls
<1>6. UNCHANGED <<stored, record, avatar>> /\ held' = held \cup {<<f, i>>}
  BY DEF CreateItem, CreateAnswer
<1>7. item'[i].file = f /\ \A j \in Items : j # i => item'[j] = item[j]
  BY DEF CreateItem, CreateAnswer, TypeOK
<1> HIDE DEF r, f
<1> QED
  BY <1>1, <1>4, <1>5, <1>6, <1>7, ShowFiles DEF r, f

LEMMA UpdateFiles ==
  ASSUME TypeOK, KnowsOK, FilesInv, NEW q \in Requests, UpdateItem(q)
  PROVE  FilesInv'
<1> DEFINE r == request[q]
           f == IF r.file # Nobody THEN r.file ELSE r.old
<1>1. /\ At(q, "write") /\ r.op = "update" /\ r \in Calls /\ r.item \in Items /\ Attaches(q, r)
  BY DEF UpdateItem, TypeOK, KnowsOK, Knows
<1>4. /\ \A p \in Requests : p # q => request'[p] = request[p]
      /\ \/ request'[q] = NoRequest /\ r.file = Nobody
         \/ request'[q] = [r EXCEPT !.pc = "attach"] /\ r.file # Nobody
  <2>1. CASE r.file = Nobody
    <3>1. Done(q)
      BY <1>1, <2>1 DEF Attaches
    <3> QED
      BY <2>1, <3>1, Others DEF Done, TypeOK
  <2>2. CASE r.file # Nobody
    <3>1. Become(q, [r EXCEPT !.pc = "attach"])
      BY <1>1, <2>2 DEF Attaches
    <3> QED
      BY <2>2, <3>1, Others DEF TypeOK
  <2> QED
    BY <2>1, <2>2
<1>5. \/ request'[q] = NoRequest /\ r.file = Nobody
      \/ /\ request'[q].op = r.op /\ request'[q].file = r.file /\ request'[q].old = r.old
         /\ request'[q].pc = "attach" /\ request'[q].item = r.item /\ f = r.file /\ f # Nobody
  BY <1>1, <1>4 DEF Calls
<1>6. UNCHANGED <<stored, record, avatar>> /\ held' = held \cup {<<f, r.item>>}
  BY DEF UpdateItem
<1>7. item'[r.item].file = f /\ \A j \in Items : j # r.item => item'[j] = item[j]
  BY <1>1 DEF UpdateItem, TypeOK, Rows
<1>8. f = r.file \/ f = r.old
  OBVIOUS
<1> HIDE DEF r, f
<1> QED
  BY <1>1, <1>4, <1>5, <1>6, <1>7, <1>8, ShowFiles DEF r

LEMMA AttachFiles ==
  ASSUME TypeOK, KnowsOK, FilesInv, NEW q \in Requests, Attach(q)
  PROVE  FilesInv'
<1> DEFINE r == request[q]
           R == request'[q]
           f == request[q].file
<1> USE DEF FilesInv, At
<1>1. /\ r.pc = "attach" /\ Knows(r) /\ r \in Calls /\ Uploads(r) /\ f \in Names /\ f # Nobody
  BY NobodyAssumption DEF Attach, KnowsOK, Knows, TypeOK, Uploads
<1>2. /\ record[f].entity = Nobody /\ r.old # f
      /\ \A p \in Requests : p # q /\ Uploads(request[p]) => request[p].file # f
  BY <1>1 DEF AttachOK, OwnOK
<1>3. /\ \A p \in Requests : p # q => request'[p] = request[p]
      /\ \/ R = NoRequest
         \/ r.op = "avatar" /\ r.old # Nobody /\ R = [r EXCEPT !.pc = "unlink"]
  <2>1. CASE r.op = "avatar" /\ r.old # Nobody
    BY <2>1, Others DEF Attach, Goto, TypeOK
  <2>2. CASE ~(r.op = "avatar" /\ r.old # Nobody)
    BY <2>2, Others DEF Attach, Done, TypeOK
  <2> QED
    BY <2>1, <2>2
<1>4. \/ R.op = "none" /\ R.pc = "idle" /\ R.old = Nobody
      \/ /\ r.op = "avatar" /\ r.old # Nobody /\ R.op = r.op /\ R.pc = "unlink"
         /\ R.file = f /\ R.old = r.old
  <2>1. NoRequest.op = "none" /\ NoRequest.pc = "idle" /\ NoRequest.old = Nobody
    BY DEF NoRequest
  <2> QED
    BY <1>1, <1>3, <2>1 DEF Calls
<1>5. /\ UNCHANGED <<stored, item, avatar, held>>
      /\ \A g \in Names : record'[g].state = record[g].state
      /\ \A g \in Names : g # f => record'[g] = record[g]
  BY <1>1 DEF Attach, rows, TypeOK, Records
<1>6. \A p \in Requests : /\ request[p].file \in Optional(Names) /\ request[p].old \in Optional(Names)
  BY DEF TypeOK, Calls
<1>7. /\ \A i \in Items : item[i].file \in Optional(Names)
      /\ \A u \in Users : avatar[u] \in Optional(Names)
  BY DEF TypeOK, Rows
<1>8. \A p \in Requests : Picturing(request[p]) => Uploads(request[p])
  BY DEF Picturing, Uploads
<1> HIDE DEF r, R, f
<1>9. OwnOK'
  BY <1>1, <1>2, <1>3, <1>4, <1>5, <1>6 DEF OwnOK, Settled, Uploads, r, R, f, Optional
<1>10. PrivateOK'
  BY <1>1, <1>2, <1>3, <1>4, <1>5, <1>6 DEF PrivateOK, Private, Uploads, r, R, f, Optional
<1>11. AttachOK'
  <2>1. ASSUME NEW p \in Requests, p # q, At(p, "attach")
        PROVE  request[p].file # f /\ request[p].file \in Names
    <3>1. Knows(request[p])
      BY DEF KnowsOK
    <3> QED
      BY <1>2, <2>1, <3>1 DEF Knows, Uploads
  <2> QED
    BY <1>3, <1>4, <1>5, <2>1 DEF AttachOK, R
<1>12. WorkOK'
  <2>1. \A g \in Names : Works(g) => Works(g)'
    BY <1>1, <1>3, <1>4, <1>5 DEF Works, Fine, Picturing, r, R, f
  <2> QED
    BY <1>3, <1>4, <1>5, <1>6, <1>7, <2>1 DEF WorkOK, R, Optional
<1>13. PictureOK'
  <2>1. \A p \in Requests : p # q /\ Picturing(request[p]) /\ request[p].file # Nobody =>
             request[p].file \in Names /\ request[p].file # f
    BY <1>2, <1>6, <1>8 DEF Optional
  <2> QED
    BY <1>1, <1>2, <1>3, <1>4, <1>5, <1>6, <2>1 DEF PictureOK, Settled, Picturing, r, R, f, Optional
<1>14. AvatarOK'
  <2>1. \A u \in Users : avatar[u] = f => Fine(f)
    BY <1>1 DEF AvatarOK, r, f
  <2> QED
    BY <1>1, <1>2, <1>3, <1>4, <1>5, <1>7, <2>1 DEF AvatarOK, Settled, Fine, R, Optional
<1> QED
  BY <1>9, <1>10, <1>11, <1>12, <1>13, <1>14

LEMMA FailureFiles ==
  ASSUME TypeOK, KnowsOK, FilesInv, NEW q \in Requests, DatabaseFails(q), CleansUp(request[q])
  PROVE  FilesInv'
<1> DEFINE r == request[q]
           R == request'[q]
           f == request[q].file
<1> USE DEF FilesInv, At
<1>1. /\ r.pc \in {"look", "write", "attach"} /\ r.op = "avatar" /\ r \in Calls /\ Uploads(r)
      /\ f \in Names /\ f # Nobody
  BY NobodyAssumption DEF DatabaseFails, CleansUp, KnowsOK, Knows, TypeOK, Uploads, Picturing
<1>2. /\ record[f].entity = Nobody /\ Settled(f)
      /\ \A p \in Requests : p # q /\ Uploads(request[p]) => request[p].file # f
  BY <1>1 DEF AttachOK, PrivateOK, Private, OwnOK
<1>3. R = [r EXCEPT !.pc = "unlink", !.old = r.file] /\ \A p \in Requests : p # q => request'[p] = request[p]
  BY Others DEF DatabaseFails, TypeOK
<1>4. /\ \A p \in Requests : p # q => request'[p] = request[p]
      /\ R.op = "avatar" /\ R.pc = "unlink" /\ R.file = f /\ R.old = f
  BY <1>1, <1>3 DEF Calls
<1>5. UNCHANGED <<stored, record, item, avatar, held>>
  BY DEF DatabaseFails, rows
<1> HIDE DEF r, R, f
<1>6. OwnOK'
  BY <1>1, <1>2, <1>4, <1>5 DEF OwnOK, Settled, Uploads, r, R, f
<1>7. PrivateOK'
  BY <1>1, <1>2, <1>4, <1>5 DEF PrivateOK, Private, R
<1>8. AttachOK'
  BY <1>4, <1>5 DEF AttachOK, R
<1>9. WorkOK'
  <2>1. \A g : Works(g) => Works(g)'
    BY <1>1, <1>4, <1>5 DEF Works, Fine, Picturing, r, R, f
  <2> QED
    BY <1>4, <1>5, <2>1 DEF WorkOK, R
<1>10. PictureOK'
  BY <1>1, <1>2, <1>4, <1>5 DEF PictureOK, Settled, Picturing, R
<1>11. AvatarOK'
  BY <1>4, <1>5 DEF AvatarOK, Settled, Fine, R
<1> QED
  BY <1>6, <1>7, <1>8, <1>9, <1>10, <1>11

\* What a clean-up removes is no work's file, nobody's upload but its own, and
\* no avatar that has a stamp.
LEMMA Removing ==
  ASSUME TypeOK, KnowsOK, FilesInv, NEW q \in Requests, At(q, "unlink") \/ At(q, "forget")
  PROVE  LET f == request[q].old
         IN  /\ Picturing(request[q]) /\ Uploads(request[q]) /\ f \in Names /\ f # Nobody /\ Settled(f)
             /\ \A p \in Requests : Private(request[p]) => request[p].file # f
             /\ \A g : Works(g) => g # f
             /\ \A u \in Users : avatar[u] = f =>
                   /\ record[f].entity = Nobody /\ u # Nobody
                   /\ \A p \in Requests : At(p, "attach") => request[p].file # f
<1> DEFINE f == request[q].old
<1>1. Picturing(request[q]) /\ Uploads(request[q]) /\ f \in Names /\ f # Nobody
  BY NobodyAssumption DEF KnowsOK, Knows, At, Uploads, Picturing
<1>2. /\ Settled(f)
      /\ \/ f = request[q].file /\ record[f].entity = Nobody
         \/ \A u \in Users : avatar[u] # f
  BY <1>1 DEF FilesInv, PictureOK, At
<1>3. \A p \in Requests : Private(request[p]) => request[p].file # f
  BY DEF FilesInv, PrivateOK
<1>4. \A g : Works(g) => g # f
  BY <1>1 DEF Works
<1>5. ASSUME NEW u \in Users, avatar[u] = f, NEW p \in Requests, At(p, "attach")
      PROVE  request[p].file # f
  <2>1. f = request[q].file /\ p # q /\ Uploads(request[p])
    BY <1>2, <1>5 DEF At, KnowsOK, Knows, Uploads
  <2> QED
    BY <1>1, <2>1 DEF FilesInv, OwnOK
<1> QED
  BY <1>1, <1>2, <1>3, <1>4, <1>5, NobodyAssumption

LEMMA UnlinkFiles ==
  ASSUME TypeOK, KnowsOK, FilesInv, NEW q \in Requests, Unlink(q)
  PROVE  FilesInv'
<1> DEFINE r == request[q]
           R == request'[q]
           f == request[q].old
<1> USE DEF FilesInv, At
<1>1. /\ r.pc = "unlink" /\ r \in Calls /\ Picturing(r) /\ Uploads(r) /\ Settled(f)
      /\ \A p \in Requests : Private(request[p]) => request[p].file # f
      /\ \A g : Works(g) => g # f
      /\ \A u \in Users : avatar[u] = f =>
            /\ record[f].entity = Nobody /\ u # Nobody
            /\ \A p \in Requests : At(p, "attach") => request[p].file # f
  BY Removing DEF Unlink, TypeOK
<1>2. R = [r EXCEPT !.pc = "forget"] /\ \A p \in Requests : p # q => request'[p] = request[p]
  BY Others DEF Unlink, Goto, TypeOK
<1>3. /\ \A p \in Requests : p # q => request'[p] = request[p]
      /\ R.op = r.op /\ R.pc = "forget" /\ R.file = r.file /\ R.old = f
  BY <1>1, <1>2 DEF Calls
<1>4. UNCHANGED <<record, item, avatar, held>> /\ stored' = stored \ {f}
  BY DEF Unlink, rows
<1> HIDE DEF r, R, f
<1>5. OwnOK'
  BY <1>1, <1>3, <1>4 DEF OwnOK, Settled, Uploads, r, R
<1>6. PrivateOK'
  BY <1>1, <1>3, <1>4 DEF PrivateOK, Private, R, r, f
<1>7. AttachOK'
  BY <1>3, <1>4 DEF AttachOK, R
<1>8. WorkOK'
  <2>1. \A g : Works(g) => Works(g)'
    BY <1>1, <1>3, <1>4 DEF Works, Fine, Picturing, r, R, f
  <2> QED
    BY <1>1, <1>3, <1>4, <2>1 DEF WorkOK, R, Picturing, r
<1>9. PictureOK'
  BY <1>1, <1>3, <1>4 DEF PictureOK, Settled, Picturing, r, R, f
<1>10. AvatarOK'
  BY <1>1, <1>3, <1>4 DEF AvatarOK, Settled, Fine, R
<1> QED
  BY <1>5, <1>6, <1>7, <1>8, <1>9, <1>10

LEMMA ForgetFiles ==
  ASSUME TypeOK, KnowsOK, FilesInv, NEW q \in Requests, Forget(q)
  PROVE  FilesInv'
<1> DEFINE f == request[q].old
<1> USE DEF FilesInv, At
<1>1. /\ request[q].pc = "forget" /\ Picturing(request[q]) /\ Settled(f) /\ f \in Names
      /\ \A p \in Requests : Private(request[p]) => request[p].file # f
      /\ \A g : Works(g) => g # f
      /\ \A u \in Users : avatar[u] = f =>
            /\ record[f].entity = Nobody /\ u # Nobody
            /\ \A p \in Requests : At(p, "attach") => request[p].file # f
  BY Removing DEF Forget
<1>2. request'[q] = NoRequest /\ \A p \in Requests : p # q => request'[p] = request[p]
  BY Others DEF Forget, Done, TypeOK
<1>3. NoRequest.op = "none" /\ NoRequest.pc = "idle" /\ NoRequest.old = Nobody
  BY DEF NoRequest
<1>4. /\ UNCHANGED <<stored, item, avatar, held>>
      /\ record'[f].state = "gone" /\ \A g \in Names : record'[g].entity = record[g].entity
      /\ \A g \in Names : g # f => record'[g] = record[g]
  BY <1>1 DEF Forget, rows, TypeOK, Records
<1>5. \A p \in Requests : /\ request[p].file \in Optional(Names) /\ request[p].old \in Optional(Names)
  BY DEF TypeOK, Calls
<1>6. /\ \A i \in Items : item[i].file \in Optional(Names)
      /\ \A u \in Users : avatar[u] \in Optional(Names)
  BY DEF TypeOK, Rows
<1>7. \A p \in Requests : At(p, "attach") => request[p].file \in Names
  BY DEF KnowsOK, Knows
<1> HIDE DEF f
<1>8. OwnOK'
  <2>1. \A p \in Requests : At(p, "register") /\ Uploads(request[p]) /\ request[p].file # Nobody =>
            request[p].file # f
    BY <1>1 DEF OwnOK, Settled
  <2> QED
    BY <1>1, <1>2, <1>3, <1>4, <1>5, <2>1 DEF OwnOK, Settled, Uploads, Optional
<1>9. PrivateOK'
  BY <1>1, <1>2, <1>3, <1>4, <1>5 DEF PrivateOK, Private, Uploads, Optional
<1>10. AttachOK'
  BY <1>2, <1>3, <1>4, <1>7 DEF AttachOK
<1>11. WorkOK'
  <2>1. \A g \in Names : Works(g) => Works(g)'
    BY <1>1, <1>2, <1>3, <1>4 DEF Works, Fine, Picturing
  <2> QED
    BY <1>2, <1>3, <1>4, <1>5, <1>6, <2>1 DEF WorkOK, Optional
<1>12. PictureOK'
  BY <1>1, <1>2, <1>3, <1>4, <1>5 DEF PictureOK, Settled, Picturing, Optional
<1>13. AvatarOK'
  BY <1>1, <1>2, <1>3, <1>4, <1>6 DEF AvatarOK, Settled, Fine, Optional
<1> QED
  BY <1>8, <1>9, <1>10, <1>11, <1>12, <1>13

\* Steps of a request that leave the files as they are.
LEMMA RestFiles ==
  ASSUME TypeOK, KnowsOK, KnowsOK', FilesInv, UNCHANGED <<stored, record, avatar, held>>,
         \A i \in Items : item'[i].file = item[i].file,
         NEW q \in Requests, NEW R, Become(q, R), Fresh(R)
  PROVE  FilesInv'
<1>1. \A p \in Requests : request'[p] = request[p] \/ Fresh(request'[p])
  BY Others DEF TypeOK
<1> QED
  BY <1>1, Rests

LEMMA DoneFiles ==
  ASSUME TypeOK, KnowsOK, KnowsOK', FilesInv, UNCHANGED <<stored, record, avatar, held>>,
         UNCHANGED item, NEW q \in Requests, Done(q)
  PROVE  FilesInv'
BY RestFiles, Idle DEF Done, Fresh

LEMMA UploadFiles ==
  ASSUME TypeOK, KnowsOK, KnowsOK', FilesInv, UploadStep
  PROVE  FilesInv'
<1>1. ASSUME NEW q \in Requests, NEW u \in Users, NEW R,
             R \in Asked(u) \/ R \in {Call(u, op, "task", Nobody, Nobody) : op \in {"avatar", "sheet"}},
             Upload(q, R) \/ Edit(q, R)
      PROVE  FilesInv'
  <2>1. R \in Calls /\ R.file = Nobody /\ R.old = Nobody
    BY <1>1, AskedOK
  <2>2. \A pc \in {"store", "look"} : Fresh([R EXCEPT !.pc = pc])
    BY <2>1 DEF Fresh, Calls
  <2>3. \E pc \in {"store", "look"} : Become(q, [R EXCEPT !.pc = pc])
    BY <1>1 DEF Upload, Edit
  <2>4. UNCHANGED <<stored, record, item, avatar, held>>
    BY <1>1 DEF Upload, Edit, rows
  <2> QED
    BY <2>2, <2>3, <2>4, RestFiles
<1>2. ASSUME NEW q \in Requests, NEW f \in Names, Store(q, f) PROVE FilesInv'
  BY <1>2, StoreFiles
<1>3. ASSUME NEW q \in Requests, Register(q) \/ NotRegistered(q) PROVE FilesInv'
  BY <1>3, RegisterFiles, NotRegisteredFiles
<1> QED
  BY <1>1, <1>2, <1>3 DEF UploadStep

LEMMA HandlerFiles ==
  ASSUME TypeOK, KnowsOK, KnowsOK', FilesInv, HandlerStep
  PROVE  FilesInv'
<1>1. ASSUME NEW q \in Requests, LookUp(q) \/ SetAvatar(q) \/ UpdateItem(q) \/ Attach(q)
                                 \/ Unlink(q) \/ Forget(q)
      PROVE  FilesInv'
  BY <1>1, LookUpFiles, SetAvatarFiles, UpdateFiles, AttachFiles, UnlinkFiles, ForgetFiles
<1>2. ASSUME NEW q \in Requests, Refuse(q) \/ Rejected(q) \/ NotRemoved(q) PROVE FilesInv'
  BY <1>2, DoneFiles DEF Refuse, Rejected, NotRemoved, rows
<1>3. ASSUME NEW q \in Requests, DatabaseFails(q) PROVE FilesInv'
  <2>1. CASE CleansUp(request[q])
    BY <1>3, <2>1, FailureFiles
  <2>2. CASE ~CleansUp(request[q])
    BY <1>3, <2>2, DoneFiles DEF DatabaseFails, rows
  <2> QED
    BY <2>1, <2>2
<1>4. ASSUME NEW q \in Requests, NEW i \in Items, CreateItem(q, i) \/ CreateAnswer(q, i) PROVE FilesInv'
  BY <1>4, CreateFiles
<1>5. ASSUME NEW i \in Items, NEW u \in Users, DeleteItem(i, u) PROVE FilesInv'
  <2>1. \A j \in Items : item'[j].file = item[j].file
    BY <1>5 DEF DeleteItem, TypeOK, Rows
  <2> QED
    BY <1>5, <2>1, Rests DEF DeleteItem
<1> QED
  BY <1>1, <1>2, <1>3, <1>4, <1>5 DEF HandlerStep

LEMMA ReadFiles ==
  ASSUME TypeOK, KnowsOK, KnowsOK', FilesInv, ReadStep \/ OtherStep
  PROVE  FilesInv'
<1>1. UNCHANGED <<stored, record, item, avatar, held>>
  BY DEF ReadStep, Ask, ReadRecord, CheckRow, CheckMember, Send, Finish, OtherStep, AssignInstructor,
         ChangeEnrollment, ChangeDepartment, Crash, rows
<1>2. \A q \in Requests : request'[q] = request[q] \/ ~Uploads(request'[q])
  <2>1. ASSUME NEW q \in Requests, NEW u \in Users, NEW f \in Names, Ask(q, u, f)
        PROVE  \A p \in Requests : request'[p] = request[p] \/ ~Uploads(request'[p])
    <3> DEFINE R == [NoRequest EXCEPT !.op = "read", !.pc = "asked", !.user = u,
                                      !.department = DepartmentOf(u), !.file = f]
    <3>1. ~Uploads(R)
      BY DEF Uploads, NoRequest
    <3>2. Become(q, R)
      BY <2>1 DEF Ask
    <3> HIDE DEF R
    <3> QED
      BY <3>1, <3>2, Others DEF TypeOK
  <2>2. ASSUME NEW q \in Requests, ReadRecord(q)
        PROVE  \A p \in Requests : request'[p] = request[p] \/ ~Uploads(request'[p])
    <3> DEFINE r == request[q]
               R == [r EXCEPT !.pc = "row", !.by = record[r.file].by, !.entity = record[r.file].entity]
    <3>1. r \in Calls /\ ~Uploads(r)
      BY <2>2 DEF ReadRecord, At, KnowsOK, Knows, Uploads, TypeOK
    <3>2. ~Uploads(R)
      BY <3>1 DEF Calls, Uploads
    <3>3. Become(q, R) \/ Done(q)
      BY <2>2 DEF ReadRecord
    <3> HIDE DEF R
    <3> QED
      BY <3>2, <3>3, Others, Idle DEF TypeOK, Done
  <2>3. ASSUME NEW q \in Requests, CheckRow(q) \/ CheckMember(q) \/ Send(q) \/ Finish(q)
        PROVE  \A p \in Requests : request'[p] = request[p] \/ ~Uploads(request'[p])
    <3>1. request[q] \in Calls /\ ~Uploads(request[q])
      BY <2>3 DEF CheckRow, CheckMember, Send, Finish, At, KnowsOK, Knows, Uploads, TypeOK
    <3>2. \A pc \in {"member", "send", "sent"} : ~Uploads([request[q] EXCEPT !.pc = pc])
      BY <3>1 DEF Calls, Uploads
    <3>3. Done(q) \/ \E pc \in {"member", "send", "sent"} : Become(q, [request[q] EXCEPT !.pc = pc])
      BY <2>3 DEF CheckRow, CheckMember, Send, Finish, Goto
    <3> QED
      BY <3>2, <3>3, Others, Idle DEF TypeOK, Done
  <2>4. CASE OtherStep
    BY <2>4, Idle DEF OtherStep, AssignInstructor, ChangeEnrollment, ChangeDepartment, Crash
  <2> QED
    BY <2>1, <2>2, <2>3, <2>4 DEF ReadStep
<1> QED
  BY <1>1, <1>2, Rests DEF Fresh

-----------------------------------------------------------------------------
(* Readers *)

\* What stays of files and rows, whatever the step.
Ages ==
    /\ held \subseteq held'
    /\ \A f \in Names : Settled(f) => Settled(f)' /\ record'[f].by = record[f].by
    /\ \A i \in Items : item[i].state # "none" => item'[i].state # "none" /\ item'[i].kind = item[i].kind

LEMMA Aging ==
  ASSUME TypeOK, KnowsOK, FilesInv, Next
  PROVE  Ages
<1> USE DEF Ages, Settled, TypeOK
<1>1. CASE UNCHANGED <<record, item, held>>
  BY <1>1
<1>2. ASSUME NEW q \in Requests, NEW f \in Names, Store(q, f) PROVE Ages
  BY <1>2 DEF Store, rows, Records
<1>3. ASSUME NEW q \in Requests, Register(q) PROVE Ages
  <2>1. record[request[q].file].state = "named"
    BY <1>3, NobodyAssumption DEF Register, At, KnowsOK, Knows, FilesInv, PrivateOK, Private, Uploads
  <2> QED
    BY <1>3, <2>1 DEF Register, rows
<1>4. ASSUME NEW q \in Requests, SetAvatar(q) PROVE Ages
  BY <1>4 DEF SetAvatar
<1>5. ASSUME NEW q \in Requests, NEW i \in Items, CreateItem(q, i) \/ CreateAnswer(q, i) PROVE Ages
  <2>1. held \subseteq held' /\ UNCHANGED record /\ item[i].state = "none"
        /\ \A j \in Items : j # i => item'[j] = item[j]
    BY <1>5 DEF CreateItem, CreateAnswer
  <2> QED
    BY <2>1
<1>6. ASSUME NEW q \in Requests, UpdateItem(q) PROVE Ages
  BY <1>6 DEF UpdateItem, Rows
<1>7. ASSUME NEW q \in Requests, Attach(q) \/ Forget(q) PROVE Ages
  BY <1>7 DEF Attach, Forget, rows, Records
<1>8. ASSUME NEW i \in Items, NEW u \in Users, DeleteItem(i, u) PROVE Ages
  BY <1>8 DEF DeleteItem, Rows
<1>9. CASE UploadStep
  BY <1>1, <1>2, <1>3, <1>9 DEF UploadStep, Upload, Edit, NotRegistered, rows
<1>10. CASE HandlerStep
  BY <1>1, <1>4, <1>5, <1>6, <1>7, <1>8, <1>10
  DEF HandlerStep, LookUp, Refuse, Rejected, DatabaseFails, Unlink, NotRemoved, rows
<1>11. CASE ReadStep \/ OtherStep
  BY <1>1, <1>11 DEF ReadStep, Ask, ReadRecord, CheckRow, CheckMember, Send, Finish, OtherStep, AssignInstructor,
         ChangeEnrollment, ChangeDepartment, Crash, rows
<1> QED
  BY <1>9, <1>10, <1>11 DEF Next

LEMMA Stamps ==
  ASSUME TypeOK, KnowsOK, FilesInv, StampOK, Next
  PROVE  StampOK'
<1>1. held \subseteq held'
  BY Aging DEF Ages
<1>2. CASE UNCHANGED record
  BY <1>1, <1>2 DEF StampOK
<1>3. ASSUME NEW q \in Requests, NEW f \in Names, Store(q, f) PROVE StampOK'
  BY <1>1, <1>3 DEF StampOK, Store, TypeOK, Records
<1>4. ASSUME NEW q \in Requests, Register(q) PROVE StampOK'
  BY <1>1, <1>4 DEF StampOK, Register, TypeOK
<1>5. ASSUME NEW q \in Requests, Attach(q) PROVE StampOK'
  <2>1. request[q].file \in Names /\ <<request[q].file, Entity(request[q])>> \in held
    BY <1>5 DEF Attach, At, KnowsOK, Knows, FilesInv, AttachOK
  <2>2. /\ record'[request[q].file].entity = Entity(request[q])
        /\ \A f \in Names : f # request[q].file => record'[f] = record[f]
    BY <1>5, <2>1 DEF Attach, TypeOK, Records
  <2> QED
    BY <1>1, <2>1, <2>2 DEF StampOK
<1>6. ASSUME NEW q \in Requests, Forget(q) PROVE StampOK'
  <2>1. \A f \in Names : record'[f].entity = record[f].entity
    BY <1>6 DEF Forget, TypeOK, Records
  <2> QED
    BY <1>1, <2>1 DEF StampOK
<1>7. CASE UploadStep
  BY <1>2, <1>3, <1>4, <1>7 DEF UploadStep, Upload, Edit, NotRegistered
<1>8. CASE HandlerStep
  BY <1>2, <1>5, <1>6, <1>8 DEF HandlerStep, LookUp, Refuse, SetAvatar, UpdateItem, Rejected,
     DatabaseFails, Unlink, NotRemoved, CreateItem, CreateAnswer, DeleteItem
<1>9. CASE ReadStep \/ OtherStep
  BY <1>2, <1>9 DEF ReadStep, Ask, ReadRecord, CheckRow, CheckMember, Send, Finish, OtherStep, AssignInstructor,
         ChangeEnrollment, ChangeDepartment, Crash
<1> QED
  BY <1>7, <1>8, <1>9 DEF Next

LEMMA Noted ==
  ASSUME Next, NEW q \in Requests, request[q].op = "read"
  PROVE  entitled'[q] = (entitled[q] \/ Entitled(request[q]))
BY DEF Next

\* A request that does nothing keeps what it knows.
LEMMA ReaderKeeps ==
  ASSUME TypeOK, KnowsOK, FilesInv, Next, NEW q \in Requests, Informed(request[q]), Reader(q),
         request'[q] = request[q]
  PROVE  Reader(q)'
<1> DEFINE r == request[q]
<1>1. Ages /\ r.file \in Names /\ Knows(r)
  BY Aging DEF KnowsOK, Knows, Informed
<1>2. entitled[q] => entitled'[q]
  BY Noted DEF TypeOK, Informed
<1>3. r.by = r.user /\ r.entity \notin Items => entitled'[q]
  <2>1. SUFFICES ASSUME r.by = r.user, record[r.file].entity \notin Items, ~entitled[q] PROVE entitled'[q]
    BY <1>2 DEF Reader
  <2>2. Entitled(r)
    BY <2>1 DEF Reader, Entitled
  <2> QED
    BY <2>2, Noted DEF Informed
<1>4. Settled(r.file)' /\ record'[r.file].by = r.by
  BY <1>1 DEF Ages, Reader
<1>5. r.entity # Nobody => <<r.file, r.entity>> \in held'
  BY <1>1 DEF Ages, Reader
<1>6. r.pc = "member" =>
              /\ r.entity \in Items
              /\ Role[r.user] = "COORDINATOR"
                 \/ (/\ Role[r.user] = "STUDENT"
                     /\ item'[r.entity].state # "none" /\ item'[r.entity].kind # "answer")
  BY <1>1 DEF Ages, Reader
<1>7. r.pc \in {"send", "sent"} => entitled'[q]
  BY <1>2 DEF Reader
<1> QED
  BY <1>3, <1>4, <1>5, <1>6, <1>7 DEF Reader, Settled

\* Who passes the checks of the row has a right to the file.
LEMMA RowEntitles ==
  ASSUME TypeOK, KnowsOK, NEW q \in Requests, request[q].op = "read", Reader(q),
         \/ OwnRecord(request[q])
         \/ request[q].entity \in Items /\ RowAllows(request[q])
  PROVE  entitled[q] \/ Entitled(request[q])
<1> DEFINE r == request[q]
<1>1. r.user \in Users /\ r.user # Nobody
  BY NobodyAssumption DEF KnowsOK, Knows
<1>2. r.entity # Nobody => <<r.file, r.entity>> \in held
  BY DEF Reader
<1>3. CASE r.by = r.user /\ Role[r.user] # "COORDINATOR"
  BY <1>3 DEF Reader, Entitled
<1>4. CASE r.by = r.user /\ r.entity \notin Items
  BY <1>4 DEF Reader, Entitled
<1>5. CASE r.entity = r.user
  BY <1>1, <1>2, <1>5 DEF Entitled
<1>6. CASE Role[r.user] = "ADMIN"
  BY <1>6 DEF Entitled
<1>7. CASE r.entity \in Items /\ RowAllows(r)
  <2>1. <<r.file, r.entity>> \in held
    BY <1>2, <1>7, NobodyAssumption
  <2> QED
    BY <1>7, <2>1 DEF RowAllows, Entitled
<1> QED
  BY <1>3, <1>4, <1>5, <1>6, <1>7 DEF OwnRecord

LEMMA ReaderGoesOn ==
  ASSUME TypeOK, KnowsOK, FilesInv, Next, NEW q \in Requests, Reader(q),
         CheckRow(q) \/ CheckMember(q) \/ Send(q)
  PROVE  request'[q] = NoRequest \/ Reader(q)'
<1> DEFINE r == request[q]
           To(pc) == [request[q] EXCEPT !.pc = pc]
           InSubject(R) ==
              \/ Role[R.user] = "STUDENT" /\ <<R.user, item[R.entity].subject>> \in enrolled
              \/ Role[R.user] = "COORDINATOR" /\ InDepartment(R.department, item[R.entity].subject)
<1> USE DEF At
<1>1. r.op = "read" /\ r \in Calls /\ r.user \in Users
  BY DEF CheckRow, CheckMember, Send, KnowsOK, Knows, TypeOK

<1>2. entitled'[q] = (entitled[q] \/ Entitled(r)) /\ entitled[q] \in BOOLEAN
  BY <1>1, Noted DEF TypeOK
<1>3. UNCHANGED <<record, item, held>>
  BY DEF CheckRow, CheckMember, Send, rows
<1>4. \/ request'[q] = NoRequest
      \/ /\ request'[q] = To("member") /\ r.entity \in Items /\ Live(r.entity) /\ AsksMember(r)
      \/ /\ request'[q] = To("send") /\ r.pc = "row"
         /\ OwnRecord(r) \/ (r.entity \in Items /\ RowAllows(r))
      \/ /\ request'[q] = To("send") /\ r.pc = "member"
         /\ InSubject(r)
      \/ request'[q] = To("sent") /\ r.pc = "send"
  <2>1. CASE CheckRow(q)
    BY <2>1, Others DEF CheckRow, Goto, Done, TypeOK
  <2>2. CASE CheckMember(q)
    BY <2>2, Others DEF CheckMember, Goto, Done, TypeOK
  <2>3. CASE Send(q)
    BY <2>3, Others DEF Send, Goto, Done, TypeOK
  <2> QED
    BY <2>1, <2>2, <2>3
<1>5. \A pc : /\ To(pc).file = r.file /\ To(pc).user = r.user /\ To(pc).by = r.by
              /\ To(pc).entity = r.entity /\ To(pc).pc = pc
  BY <1>1 DEF Calls
<1> HIDE DEF To
<1>6. ASSUME NEW pc, request'[q] = To(pc),
             pc \in {"send", "sent"} => entitled'[q],
             pc = "member" => /\ r.entity \in Items
                              /\ Role[r.user] = "COORDINATOR"
                                 \/ (/\ Role[r.user] = "STUDENT"
                                     /\ item[r.entity].state # "none" /\ item[r.entity].kind # "answer")
      PROVE  Reader(q)'
  <2>1. /\ Settled(r.file) /\ record[r.file].by = r.by
        /\ r.entity # Nobody => <<r.file, r.entity>> \in held
        /\ r.by = r.user /\ r.entity \notin Items => entitled'[q] \/ record[r.file].entity \notin Items
    BY <1>2 DEF Reader
  <2> QED
    BY <1>3, <1>5, <1>6, <2>1 DEF Reader, Settled
<1>7. CASE request'[q] = To("member") /\ r.entity \in Items /\ Live(r.entity) /\ AsksMember(r)
  BY <1>6, <1>7 DEF Live, AsksMember
<1>8. CASE request'[q] = To("send") /\ r.pc = "row" /\ (OwnRecord(r) \/ (r.entity \in Items /\ RowAllows(r)))
  <2>1. entitled'[q]
    BY <1>1, <1>2, <1>8, RowEntitles
  <2> QED
    BY <1>6, <1>8, <2>1
<1>9. CASE request'[q] = To("send") /\ r.pc = "member" /\ InSubject(r)
  <2>1. r.entity \in Items /\ <<r.file, r.entity>> \in held
    BY <1>9, NobodyAssumption DEF Reader
  <2>2. Entitled(r)
    <3>1. r.department \in Optional(Departments)
      BY <1>1 DEF Calls
    <3> QED
      BY <1>9, <2>1, <3>1 DEF Reader, Entitled, InDepartment, Optional
  <2> QED
    BY <1>2, <1>6, <1>9, <2>2
<1>10. CASE request'[q] = To("sent") /\ r.pc = "send"
  <2>1. entitled'[q]
    BY <1>2, <1>10 DEF Reader
  <2> QED
    BY <1>6, <1>10, <2>1
<1> QED
  BY <1>4, <1>7, <1>8, <1>9, <1>10

LEMMA ReaderLooks ==
  ASSUME TypeOK, KnowsOK, StampOK, Next, NEW q \in Requests, ReadRecord(q), request'[q] # NoRequest
  PROVE  Reader(q)'
<1> DEFINE r == request[q]
           f == request[q].file
           R == [r EXCEPT !.pc = "row", !.by = record[r.file].by, !.entity = record[r.file].entity]
<1>1. request'[q] = R /\ record[f].state = "kept"
  BY Others DEF ReadRecord, Done, TypeOK
<1>2. r \in Calls /\ f \in Names
  BY DEF ReadRecord, At, TypeOK, KnowsOK, Knows
<1>3. R.pc = "row" /\ R.file = f /\ R.by = record[f].by /\ R.entity = record[f].entity
  BY <1>2 DEF Calls
<1>4. UNCHANGED <<record, item, held>> /\ Settled(f)
  BY <1>1 DEF ReadRecord, rows, Settled
<1> HIDE DEF R, f
<1> QED
  BY <1>1, <1>2, <1>3, <1>4 DEF Reader, Settled, StampOK

\* Uploads and handlers make no reader.
LEMMA NoReader ==
  ASSUME TypeOK, KnowsOK, UploadStep \/ HandlerStep, NEW q \in Requests, request'[q] # request[q]
  PROVE  request'[q].op # "read"
<1>1. ASSUME NEW p \in Requests, NEW R, Become(p, R), R.op # "read" PROVE request'[q].op # "read"
  BY <1>1, Others DEF TypeOK
<1>2. ASSUME NEW p \in Requests, Done(p) PROVE request'[q].op # "read"
  <2>1. NoRequest.op # "read"
    BY DEF NoRequest
  <2> QED
    BY <1>1, <1>2, <2>1 DEF Done
<1>3. ASSUME NEW p \in Requests,
             request[p].pc \in {"store", "register", "look", "write", "attach", "unlink", "forget"}
      PROVE  request[p] \in Calls /\ request[p].op # "read"
  BY <1>3 DEF TypeOK, KnowsOK, Knows
<1>4. ASSUME NEW p \in Requests, NEW R \in Calls, R.op # "read", Attaches(p, R)
      PROVE  request'[q].op # "read"
  <2>1. [R EXCEPT !.pc = "attach"].op # "read"
    BY <1>4 DEF Calls
  <2> QED
    BY <1>1, <1>2, <1>4, <2>1 DEF Attaches
<1>5. CASE UploadStep
  <2>1. ASSUME NEW p \in Requests, NEW u \in Users, NEW R,
               R \in Asked(u) \/ R \in {Call(u, op, "task", Nobody, Nobody) : op \in {"avatar", "sheet"}},
               Upload(p, R) \/ Edit(p, R)
        PROVE  request'[q].op # "read"
    <3>1. R \in Calls /\ Uploads(R)
      BY <2>1, AskedOK
    <3>2. \A pc : [R EXCEPT !.pc = pc].op # "read"
      BY <3>1 DEF Uploads, Calls
    <3> QED
      BY <1>1, <2>1, <3>2 DEF Upload, Edit
  <2>2. ASSUME NEW p \in Requests, NEW f \in Names, Store(p, f) PROVE request'[q].op # "read"
    <3>1. request[p] \in Calls /\ request[p].op # "read"
      BY <1>3, <2>2 DEF Store, At
    <3>2. [request[p] EXCEPT !.pc = "register", !.file = f].op # "read"
      BY <3>1 DEF Calls
    <3> QED
      BY <1>1, <2>2, <3>2 DEF Store
  <2>3. ASSUME NEW p \in Requests, Register(p) PROVE request'[q].op # "read"
    <3>1. request[p] \in Calls /\ request[p].op # "read"
      BY <1>3, <2>3 DEF Register, At
    <3>2. [request[p] EXCEPT !.pc = "look"].op # "read"
      BY <3>1 DEF Calls
    <3> QED
      BY <1>1, <2>3, <3>2 DEF Register, Goto
  <2>4. ASSUME NEW p \in Requests, NotRegistered(p) PROVE request'[q].op # "read"
    BY <1>2, <2>4 DEF NotRegistered
  <2> QED
    BY <1>5, <2>1, <2>2, <2>3, <2>4 DEF UploadStep
<1>6. CASE HandlerStep
  <2>1. ASSUME NEW p \in Requests, LookUp(p) PROVE request'[q].op # "read"
    <3>1. request[p] \in Calls /\ request[p].op # "read"
      BY <1>3, <2>1 DEF LookUp, At
    <3>2. /\ \A pc, old : [request[p] EXCEPT !.pc = pc, !.old = old].op # "read"
          /\ \A pc, teacher : [request[p] EXCEPT !.pc = pc, !.teacher = teacher].op # "read"
          /\ \A pc : [request[p] EXCEPT !.pc = pc].op # "read"
      BY <3>1 DEF Calls
    <3> QED
      BY <1>1, <2>1, <3>2 DEF LookUp, Goto
  <2>2. ASSUME NEW p \in Requests, Refuse(p) \/ Rejected(p) \/ Forget(p) \/ NotRemoved(p)
        PROVE  request'[q].op # "read"
    BY <1>2, <2>2 DEF Refuse, Rejected, Forget, NotRemoved
  <2>3. ASSUME NEW p \in Requests, SetAvatar(p) \/ UpdateItem(p) PROVE request'[q].op # "read"
    BY <1>3, <1>4, <2>3 DEF SetAvatar, UpdateItem, At
  <2>4. ASSUME NEW p \in Requests, NEW i \in Items, CreateItem(p, i) \/ CreateAnswer(p, i)
        PROVE  request'[q].op # "read"
    <3>1. request[p] \in Calls /\ request[p].op # "read"
      BY <1>3, <2>4 DEF CreateItem, CreateAnswer, At
    <3>2. [request[p] EXCEPT !.item = i] \in Calls /\ [request[p] EXCEPT !.item = i].op # "read"
      BY <3>1 DEF Calls, Optional
    <3> QED
      BY <1>4, <2>4, <3>2 DEF CreateItem, CreateAnswer
  <2>5. ASSUME NEW p \in Requests, Attach(p) \/ Unlink(p) PROVE request'[q].op # "read"
    <3>1. request[p] \in Calls /\ request[p].op # "read"
      BY <1>3, <2>5 DEF Attach, Unlink, At
    <3>2. \A pc : [request[p] EXCEPT !.pc = pc].op # "read"
      BY <3>1 DEF Calls
    <3> QED
      BY <1>1, <1>2, <2>5, <3>2 DEF Attach, Unlink, Goto
  <2>6. ASSUME NEW p \in Requests, DatabaseFails(p) PROVE request'[q].op # "read"
    <3>1. request[p] \in Calls /\ request[p].op # "read"
      BY <1>3, <2>6 DEF DatabaseFails
    <3>2. [request[p] EXCEPT !.pc = "unlink", !.old = request[p].file].op # "read"
      BY <3>1 DEF Calls
    <3> QED
      BY <1>1, <1>2, <2>6, <3>2 DEF DatabaseFails
  <2>7. ASSUME NEW i \in Items, NEW u \in Users, DeleteItem(i, u) PROVE request'[q].op # "read"
    BY <2>7 DEF DeleteItem
  <2> QED
    BY <1>6, <2>1, <2>2, <2>3, <2>4, <2>5, <2>6, <2>7 DEF HandlerStep
<1> QED
  BY <1>5, <1>6

LEMMA Reading ==
  ASSUME Inv, Next, KnowsOK'
  PROVE  ReadersOK'
<1> USE DEF Inv
<1>1. ASSUME NEW q \in Requests, request'[q] = request[q], Informed(request[q])
      PROVE  Reader(q)'
  BY <1>1, ReaderKeeps DEF ReadersOK
<1>2. ASSUME NEW q \in Requests, request'[q] # request[q], Informed(request'[q])
      PROVE  Reader(q)'
  <2>0. request'[q].op = "read" /\ request'[q].pc # "asked"
    BY <1>2 DEF Informed
  <2>1. CASE UploadStep \/ HandlerStep
    BY <1>2, <2>0, <2>1, NoReader
  <2>2. ASSUME NEW p \in Requests, CheckRow(p) \/ CheckMember(p) \/ Send(p) \/ Finish(p)
        PROVE  Reader(q)'
    <3>1. p = q /\ ~Done(p)
      BY <1>2, <2>0, <2>2, Others DEF CheckRow, CheckMember, Send, Finish, Goto, Done, NoRequest, TypeOK
    <3>2. Reader(p) /\ request'[p] # NoRequest /\ ~Finish(p)
      BY <1>2, <2>0, <2>2, <3>1 DEF ReadersOK, Informed, CheckRow, CheckMember, Send, Finish, At, KnowsOK, Knows, NoRequest
    <3> QED
      BY <2>2, <3>1, <3>2, ReaderGoesOn
  <2>3. ASSUME NEW p \in Requests, NEW u \in Users, NEW f \in Names, Ask(p, u, f)
        PROVE  FALSE
    <3>1. p = q
      BY <1>2, <2>3, Others DEF Ask, TypeOK
    <3> DEFINE R == [NoRequest EXCEPT !.op = "read", !.pc = "asked", !.user = u,
                                      !.department = DepartmentOf(u), !.file = f]
    <3>2. request'[q] = R
      BY <2>3, <3>1, Others DEF Ask, TypeOK
    <3>3. R.pc = "asked"
      BY DEF NoRequest
    <3> HIDE DEF R
    <3> QED
      BY <2>0, <3>2, <3>3
  <2>4. ASSUME NEW p \in Requests, ReadRecord(p)
        PROVE  Reader(q)'
    <3>1. p = q
      BY <1>2, <2>4, Others DEF ReadRecord, Done, TypeOK
    <3>2. request'[q] # NoRequest
      BY <2>0 DEF NoRequest
    <3> QED
      BY <2>4, <3>1, <3>2, ReaderLooks
  <2>5. CASE OtherStep
    <3>1. NoRequest.op # "read"
      BY DEF NoRequest
    <3>2. request'[q] = NoRequest
      BY <1>2, <2>5 DEF OtherStep, AssignInstructor, ChangeEnrollment, ChangeDepartment, Crash
    <3> QED
      BY <2>0, <3>1, <3>2
  <2> QED
    BY <2>1, <2>2, <2>3, <2>4, <2>5 DEF Next, ReadStep
<1> QED
  BY <1>1, <1>2 DEF ReadersOK

-----------------------------------------------------------------------------
(* The invariant *)

LEMMA Start == Init => Inv
<1> SUFFICES ASSUME Init PROVE Inv
  OBVIOUS
<1> USE DEF Init
<1>1. Knows(NoRequest) /\ NoRequest \in Calls
  BY Idle
<1>2. /\ NoRequest.op = "none" /\ NoRequest.pc = "idle" /\ NoRequest.old = Nobody
      /\ NoRecord.state = "none" /\ NoRecord.entity = Nobody /\ NoItem.file = Nobody
  BY DEF NoRequest, NoRecord, NoItem
<1>3. TypeOK
  <2>1. NoRecord \in Records /\ NoItem \in Rows
    BY DEF NoRecord, Records, NoItem, Rows, Kinds, Optional
  <2>2. budget \in [Events -> Nat]
    BY BudgetAssumption
  <2>3. enrolled \subseteq Users \X Subjects /\ holder \in [Subjects -> Optional(Users)]
    BY DEF Students, Instructors, Optional
  <2> QED
    BY <1>1, <2>1, <2>2, <2>3 DEF TypeOK, Optional
<1>4. KnowsOK /\ StampOK /\ ReadersOK
  BY <1>1, <1>2 DEF KnowsOK, StampOK, ReadersOK, Informed
<1>5. FilesInv
  BY <1>2 DEF FilesInv, OwnOK, PrivateOK, Private, AttachOK, At, Uploads, WorkOK, PictureOK, Picturing,
              AvatarOK
<1> QED
  BY <1>3, <1>4, <1>5 DEF Inv

LEMMA Step == Inv /\ [Next]_vars => Inv'
<1> SUFFICES ASSUME Inv, [Next]_vars PROVE Inv'
  OBVIOUS
<1> USE DEF Inv
<1>1. TypeOK' /\ KnowsOK'
  BY TypeStep
<1>2. CASE UNCHANGED vars
  <2>1. UNCHANGED <<stored, record, item, avatar, held, request, entitled>>
    BY <1>2 DEF vars, rows
  <2>2. FilesInv'
    BY <1>1, <2>1, Rests
  <2>3. StampOK' /\ ReadersOK'
    BY <2>1 DEF StampOK, ReadersOK, Informed, Reader, Settled
  <2> QED
    BY <1>1, <2>2, <2>3
<1>3. CASE Next
  <2>1. FilesInv'
    BY <1>1, <1>3, UploadFiles, HandlerFiles, ReadFiles DEF Next
  <2>2. StampOK' /\ ReadersOK'
    BY <1>1, <1>3, Stamps, Reading
  <2> QED
    BY <1>1, <2>1, <2>2
<1> QED
  BY <1>2, <1>3

LEMMA Invariance == Spec => []Inv
BY Start, Step, PTL DEF Spec

\* Files, rows and requests keep their types, for any number of each.
THEOREM TypeCorrect == Spec => []TypeOK
<1>1. Inv => TypeOK
  BY DEF Inv
<1> QED
  BY <1>1, Invariance, PTL

\* serveUploadedFile sends a file only to someone who had a right to it since
\* they asked, a coordinator as of the department that protect loaded: a stamp
\* is put once, on a file that the row has shown, so a copy of the file's row
\* that is out of date opens nothing.
THEOREM Entitlement == Spec => []SentToEntitled
<1>1. Inv => SentToEntitled
  BY DEF Inv, ReadersOK, Informed, Reader, SentToEntitled, KnowsOK, Knows
<1> QED
  BY <1>1, Invariance, PTL

\* removeUploadedFile never removes what a work shows or the avatar that a user
\* was stamped on: names belong to one request, and a picture is removed only
\* by who replaced it.
THEOREM NoDangling == Spec => []NothingDangling
<1>1. Inv => NothingDangling
  BY DEF Inv, FilesInv, WorkOK, Works, Fine, AvatarOK, NothingDangling
<1> QED
  BY <1>1, Invariance, PTL
=============================================================================
