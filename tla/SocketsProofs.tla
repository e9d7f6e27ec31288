--------------------------- MODULE SocketsProofs ---------------------------
(* Type correctness of Sockets, that what is sent to a connection is for the *)
(* user of its token, that a phone shows the notifications of whoever is     *)
(* signed in, and that a connection with a good token stays open.  All that  *)
(* belongs to a socket is of the user whose token it dialled with, the       *)
(* socket of the phone is of the user of its session, and a socket has one   *)
(* handshake at a time.                                                      *)
EXTENDS Sockets, TLAPS

Used(t) == t \in Tokens /\ token[t].life # "unused"
Owner(c) == token[auth[c]].user
OfOwner(c, t) == Used(auth[c]) /\ Used(t) /\ token[t].user = Owner(c)

TokensOK == \A t \in Tokens : Used(t) => token[t].user \in Users

\* A check that began with a bad token can still see that it is.
CheckOK(k) ==
    /\ OfOwner(k.conn, k.token)
    /\ k.good \/ k.token \in cut \/ ~Unexpired(k.token) \/ (k.pc = "jti" /\ k.token \in revoked)
    /\ k.kind = "deliver" /\ k.same => IsOpen(k.conn) /\ conn[k.conn].token = k.token

ConnOK(c) ==
    /\ link[c] # "off" => Used(auth[c])
    /\ IsOpen(c) => OfOwner(c, conn[c].token)

PacketOK(m) ==
    /\ Used(auth[m.conn]) /\ m.user = Owner(m.conn)
    /\ m.kind = "event" => m.good

RefreshOK(m) == OfOwner(m.conn, m.token)

SessionOK ==
    IF session.user = NoUser THEN session.token = NoToken
    ELSE Used(session.token) /\ token[session.token].user = session.user

\* The handlers that are attached for the session listen to its socket.
PhoneOK ==
    /\ handler.same => socket # NoConn /\ handler.conn = socket
    /\ socket # NoConn => /\ session.user # NoUser
                          /\ Used(auth[socket]) /\ Owner(socket) = session.user
    /\ shown \subseteq {session.user}

Inv ==
    /\ TypeOK /\ TokensOK /\ SessionOK /\ PhoneOK
    /\ \A k \in checks : CheckOK(k)
    /\ \A c \in Conns : ConnOK(c)
    /\ \A m \in wire : PacketOK(m)
    /\ \A m \in uplink : RefreshOK(m)

Checks == [kind : {"connect", "refresh", "deliver"}, conn : Conns,
           token : Tokens, pc : {"jti", "user"}, same : BOOLEAN, good : BOOLEAN]
Packets == [kind : {"event", "nack"}, conn : Conns, user : Users, good : BOOLEAN]
Bindings == [state : {"off", "open"}, token : Tokens \cup {NoToken}]

-----------------------------------------------------------------------------
(* Tokens *)

LEMMA SpendOK ==
  ASSUME budget \in [Events -> Nat], NEW what \in Events, Spend(what)
  PROVE  budget' \in [Events -> Nat]
<1>1. budget[what] - 1 \in Nat
  BY DEF Spend
<1> QED
  BY <1>1 DEF Spend

\* Tokens are made, and then only get worse.
Ages ==
    /\ \A t \in Tokens : Used(t) => Used(t)' /\ token'[t].user = token[t].user
    /\ \A t \in Tokens : Used(t) /\ ~Unexpired(t) => ~Unexpired(t)'
    /\ revoked \subseteq revoked' /\ cut \subseteq cut'

LEMMA SameAges ==
  ASSUME UNCHANGED tokenVars
  PROVE  Ages /\ (TokensOK => TokensOK')
BY DEF Ages, TokensOK, Used, Unexpired, tokenVars

\* A socket that is in use keeps its user, whatever token it dials with next.
Owners ==
    /\ UNCHANGED conn
    /\ \A c \in Conns :
         /\ Used(auth[c]) /\ ~Unheld(c) => Used(auth[c])' /\ Owner(c)' = Owner(c)
         /\ link'[c] # "off" => link[c] # "off" \/ Used(auth[c])'

\* All that is there stays in order while tokens age.
LEMMA AllAge ==
  ASSUME Inv, Ages, Owners
  PROVE  /\ \A k \in checks : CheckOK(k)'
         /\ \A c \in Conns : ConnOK(c)'
         /\ \A m \in wire : PacketOK(m)'
         /\ \A m \in uplink : RefreshOK(m)'
<1>1. \A c \in Conns, t \in Tokens : OfOwner(c, t) /\ ~Unheld(c) => OfOwner(c, t)'
  BY DEF OfOwner, Used, Ages, Owners
<1>2. /\ checks \subseteq Checks /\ wire \subseteq Packets
      /\ uplink \subseteq [conn : Conns, token : Tokens]
      /\ conn \in [Conns -> Bindings]
  BY DEF Inv, TypeOK, GatewayTypeOK, Checks, Packets, Bindings
<1>3. ASSUME NEW k \in checks PROVE CheckOK(k)'
  <2>1. k \in Checks /\ CheckOK(k) /\ ~Unheld(k.conn)
    BY <1>2 DEF Inv, Unheld
  <2>2. OfOwner(k.conn, k.token)'
    BY <1>1, <2>1 DEF CheckOK, Checks
  <2> QED
    BY <2>1, <2>2 DEF CheckOK, Ages, IsOpen, Checks, OfOwner, Owners
<1>4. ASSUME NEW c \in Conns PROVE ConnOK(c)'
  <2>1. ConnOK(c)
    BY DEF Inv
  <2>2. link'[c] # "off" => Used(auth[c])'
    BY <2>1 DEF ConnOK, Owners, Unheld
  <2>3. IsOpen(c)' => OfOwner(c, conn[c].token) /\ ~Unheld(c)
    BY <2>1 DEF ConnOK, IsOpen, Owners, Unheld
  <2>4. IsOpen(c)' => OfOwner(c, conn[c].token)'
    BY <1>1, <1>2, <2>3 DEF OfOwner, Used, Owners
  <2> QED
    BY <2>2, <2>4 DEF ConnOK
<1>5. ASSUME NEW m \in wire PROVE PacketOK(m)'
  <2>1. m \in Packets /\ PacketOK(m) /\ ~Unheld(m.conn)
    BY <1>2 DEF Inv, Unheld
  <2> QED
    BY <2>1 DEF PacketOK, Packets, Owners
<1>6. ASSUME NEW m \in uplink PROVE RefreshOK(m)'
  <2>1. RefreshOK(m) /\ ~Unheld(m.conn) /\ m.conn \in Conns /\ m.token \in Tokens
    BY <1>2 DEF Inv, Unheld
  <2> QED
    BY <1>1, <2>1 DEF RefreshOK
<1> QED
  BY <1>3, <1>4, <1>5, <1>6

LEMMA SameOwners ==
  ASSUME Ages, UNCHANGED <<conn, auth>>, \A c \in Conns : link'[c] # "off" => link[c] # "off"
  PROVE  Owners
BY DEF Ages, Owners, Used, Owner

LEMMA PhoneAges ==
  ASSUME Inv, Ages, UNCHANGED <<session, shown, socket, auth, handler>>
  PROVE  SessionOK' /\ PhoneOK'
BY DEF Inv, Ages, SessionOK, PhoneOK, Owner, Used

\* The end of tokens.
LEMMA Endings ==
  ASSUME Inv, UNCHANGED phoneVars,
         \/ \E t \in Tokens : Expire(t) \/ RevokeToken(t)
         \/ \E u \in Users : CutUser(u)
  PROVE  Inv'
<1>1. /\ UNCHANGED <<conn, checks, relay, wire>>
      /\ budget' \in [Events -> Nat]
  BY SpendOK DEF Expire, RevokeToken, CutUser, Inv, TypeOK, GatewayTypeOK, Events
<1>2. Ages /\ TokensOK' /\ GatewayTypeOK'
  <2>1. ASSUME NEW t \in Tokens, Expire(t) PROVE Ages /\ TokensOK' /\ GatewayTypeOK'
    BY <1>1, <2>1 DEF Expire, Ages, TokensOK, Used, Unexpired, Inv, TypeOK, GatewayTypeOK
  <2>2. ASSUME NEW t \in Tokens, RevokeToken(t) PROVE Ages /\ TokensOK' /\ GatewayTypeOK'
    BY <1>1, <2>2 DEF RevokeToken, Ages, TokensOK, Used, Unexpired, Inv, TypeOK, GatewayTypeOK
  <2>3. ASSUME NEW u \in Users, CutUser(u) PROVE Ages /\ TokensOK' /\ GatewayTypeOK'
    BY <1>1, <2>3 DEF CutUser, Ages, TokensOK, Used, Unexpired, Inv, TypeOK, GatewayTypeOK
  <2> QED
    BY <2>1, <2>2, <2>3
<1>3. SessionOK' /\ PhoneOK'
  BY <1>2, PhoneAges DEF phoneVars
<1> QED
  BY <1>1, <1>2, <1>3, SameOwners, AllAge DEF Inv, TypeOK, phoneVars

-----------------------------------------------------------------------------
(* Bindings and deliveries *)

\* What may change beside the connections: nothing but links that end.
Steady ==
    /\ UNCHANGED <<tokenVars, session, shown, socket, auth, handler>>
    /\ uplink' \subseteq uplink
    /\ link' \in [Conns -> {"off", "opening", "connected"}]
    /\ \A c \in Conns : link'[c] # "off" => link[c] # "off"

\* Checks of a connection that is bound anew, or closed, are not for its session.
LEMMA Rebinding ==
  ASSUME Inv, UNCHANGED <<token, revoked, cut, auth>>,
         NEW c \in Conns, NEW B \in Bindings, NEW all \in BOOLEAN,
         conn' = [conn EXCEPT ![c] = B],
         B.state = "open" => OfOwner(c, B.token)
  PROVE  /\ conn' \in [Conns -> Bindings] /\ Unbound(c, all) \subseteq Checks
         /\ \A k \in Unbound(c, all) : CheckOK(k)'
         /\ \A d \in Conns : IsOpen(d)' => OfOwner(d, conn[d].token)'
<1>1. /\ conn \in [Conns -> Bindings] /\ checks \subseteq Checks
      /\ \A k \in checks : CheckOK(k)
      /\ \A d \in Conns : IsOpen(d) => OfOwner(d, conn[d].token)
  BY DEF Inv, TypeOK, GatewayTypeOK, Checks, Bindings, ConnOK
<1>2. /\ conn' \in [Conns -> Bindings]
      /\ \A d \in Conns : conn'[d] = IF d = c THEN B ELSE conn[d]
  BY <1>1
<1>3. \A d \in Conns, t \in Tokens : OfOwner(d, t) <=> OfOwner(d, t)'
  BY DEF OfOwner, Used, Owner
<1>4. ASSUME NEW j \in Unbound(c, all) PROVE j \in Checks /\ CheckOK(j)'
  <2>1. PICK k \in checks :
          j = IF k.conn = c /\ (k.kind = "deliver" \/ (all /\ k.kind = "refresh"))
              THEN [k EXCEPT !.same = FALSE] ELSE k
    BY <1>4 DEF Unbound
  <2>2. k \in Checks /\ CheckOK(k)
    BY <1>1
  <2>3. /\ j \in Checks /\ j.conn = k.conn /\ j.token = k.token /\ j.pc = k.pc
        /\ j.good = k.good /\ j.kind = k.kind
        /\ j.kind = "deliver" /\ j.same => k.same /\ j.conn # c
    BY <2>1, <2>2 DEF Checks
  <2>4. OfOwner(j.conn, j.token)'
    BY <1>3, <2>2, <2>3 DEF CheckOK, Checks
  <2>5. j.good \/ j.token \in cut' \/ ~Unexpired(j.token)'
           \/ (j.pc = "jti" /\ j.token \in revoked')
    BY <2>2, <2>3 DEF CheckOK, Unexpired
  <2>6. j.kind = "deliver" /\ j.same => IsOpen(j.conn)' /\ conn'[j.conn].token = j.token
    BY <1>2, <2>2, <2>3 DEF CheckOK, Checks, IsOpen
  <2> QED
    BY <2>3, <2>4, <2>5, <2>6 DEF CheckOK
<1>5. ASSUME NEW d \in Conns, IsOpen(d)' PROVE OfOwner(d, conn[d].token)'
  <2>1. CASE d = c
    <3>1. conn'[d] = B /\ B.state = "open"
      BY <1>2, <1>5, <2>1 DEF IsOpen
    <3>2. OfOwner(c, B.token)
      BY <3>1
    <3> QED
      BY <2>1, <3>1, <3>2 DEF OfOwner, Used, Owner
  <2>2. CASE d # c
    <3>1. conn'[d] = conn[d] /\ OfOwner(d, conn[d].token)
      BY <1>1, <1>2, <1>5, <2>2 DEF IsOpen
    <3> QED
      BY <3>1 DEF OfOwner, Used, Owner
  <2> QED
    BY <2>1, <2>2
<1> QED
  BY <1>2, <1>4, <1>5

\* A step of the server is in order if its connections, checks and packets are.
LEMMA ServerStep ==
  ASSUME Inv, Steady, stale' \in BOOLEAN,
         conn' \in [Conns -> Bindings], checks' \subseteq Checks, wire' \subseteq Packets,
         relay' \subseteq [user : Users, but : SUBSET Conns],
         budget' \in [Events -> Nat],
         \A k \in checks' : CheckOK(k)',
         \A d \in Conns : IsOpen(d)' => OfOwner(d, conn[d].token)',
         \A m \in wire' : m \in wire \/ PacketOK(m)'
  PROVE  Inv'
<1>1. Ages /\ TokensOK' /\ SessionOK' /\ PhoneOK'
  BY SameAges, PhoneAges DEF Steady, Inv
<1>2. TypeOK'
  BY DEF Steady, Inv, TypeOK, GatewayTypeOK, Checks, Packets, Bindings, tokenVars
<1>3. ASSUME NEW c \in Conns PROVE ConnOK(c)'
  <2>1. link'[c] # "off" => Used(auth[c])'
    BY DEF Steady, Inv, ConnOK, Used, tokenVars
  <2> QED
    BY <2>1 DEF ConnOK
<1>4. ASSUME NEW m \in wire' PROVE PacketOK(m)'
  BY <1>4 DEF Steady, Inv, PacketOK, Used, Owner, tokenVars
<1>5. ASSUME NEW m \in uplink' PROVE RefreshOK(m)'
  BY <1>5 DEF Steady, Inv, RefreshOK, OfOwner, Used, Owner, tokenVars
<1> QED
  BY <1>1, <1>2, <1>3, <1>4, <1>5 DEF Inv

LEMMA Closing ==
  ASSUME Inv, UNCHANGED <<token, revoked, cut, auth>>, NEW c \in Conns, NEW K,
         CloseAfter(c, K)
  PROVE  /\ conn' \in [Conns -> Bindings] /\ checks' \subseteq Checks
         /\ \A k \in checks' : CheckOK(k)'
         /\ \A d \in Conns : IsOpen(d)' => OfOwner(d, conn[d].token)'
<1>1. Closed \in Bindings /\ Closed.state # "open"
  BY DEF Closed, Bindings
<1>2. checks' \subseteq Unbound(c, TRUE) /\ conn' = [conn EXCEPT ![c] = Closed]
  BY DEF CloseAfter
<1> QED
  BY <1>1, <1>2, Rebinding

LEMMA Rebound ==
  ASSUME Inv, UNCHANGED <<token, revoked, cut, auth>>, NEW c \in Conns, NEW K,
         NEW t \in Tokens, OfOwner(c, t), Bind(c, t, K)
  PROVE  /\ conn' \in [Conns -> Bindings] /\ checks' \subseteq Checks
         /\ \A k \in checks' : CheckOK(k)'
         /\ \A d \in Conns : IsOpen(d)' => OfOwner(d, conn[d].token)'
<1> DEFINE B == [state |-> "open", token |-> t]
<1>1. B \in Bindings /\ OfOwner(c, B.token)
  BY DEF Bindings
<1>2. checks' \subseteq Unbound(c, FALSE) /\ conn' = [conn EXCEPT ![c] = B]
  BY DEF Bind
<1> HIDE DEF B
<1> QED
  BY <1>1, <1>2, Rebinding

\* A check that is over is dropped and nothing else.
LEMMA Dropping ==
  ASSUME Inv, UNCHANGED <<token, revoked, cut, auth, conn>>, checks' \subseteq checks
  PROVE  /\ conn' \in [Conns -> Bindings] /\ checks' \subseteq Checks
         /\ \A k \in checks' : CheckOK(k)'
         /\ \A d \in Conns : IsOpen(d)' => OfOwner(d, conn[d].token)'
BY DEF Inv, TypeOK, GatewayTypeOK, Checks, Bindings, CheckOK, ConnOK, OfOwner, Used, Owner,
       IsOpen, Unexpired

\* What may change beside a check.
Around ==
    /\ Steady /\ stale' \in BOOLEAN
    /\ relay' \subseteq [user : Users, but : SUBSET Conns] /\ budget' \in [Events -> Nat]

LEMMA CheckFacts ==
  ASSUME Inv, Steady, NEW k \in checks
  PROVE  /\ k \in Checks /\ CheckOK(k) /\ OfOwner(k.conn, k.token)
         /\ token[k.token].user \in Users
         /\ Nack(k) \in Packets /\ \A m \in {Nack(k)} : PacketOK(m)'
<1>1. k \in Checks /\ CheckOK(k) /\ OfOwner(k.conn, k.token)
  BY DEF Inv, TypeOK, GatewayTypeOK, Checks, CheckOK
<1>2. token[k.token].user \in Users
  BY <1>1 DEF Inv, TokensOK, OfOwner, Used
<1>3. /\ Nack(k) \in Packets /\ Nack(k).conn = k.conn /\ Nack(k).kind = "nack"
      /\ Nack(k).user = token[k.token].user
  BY <1>1, <1>2 DEF Nack, Packets, Checks
<1>4. ASSUME NEW m \in {Nack(k)} PROVE PacketOK(m)'
  <2>1. Used(auth[k.conn])' /\ token[k.token].user = Owner(k.conn)'
    BY <1>1 DEF OfOwner, Used, Owner, Steady, tokenVars
  <2>2. m.conn = k.conn /\ m.kind = "nack" /\ m.user = token[k.token].user
    BY <1>3, <1>4
  <2> QED
    BY <2>1, <2>2 DEF PacketOK
<1> QED
  BY <1>1, <1>2, <1>3, <1>4

LEMMA FailedInv ==
  ASSUME Inv, Around, NEW k \in checks, Failed(k)
  PROVE  Inv'
<1>1. /\ k.conn \in Conns /\ k.kind \in {"connect", "refresh", "deliver"}
      /\ Nack(k) \in Packets /\ \A m \in {Nack(k)} : PacketOK(m)'
  BY CheckFacts DEF Around, Checks
<1>2. UNCHANGED <<token, revoked, cut, auth>> /\ Steady
  BY DEF Around, Steady, tokenVars
<1>3. /\ Over(k) \/ CloseAfter(k.conn, {k})
      /\ wire' = wire \/ wire' = wire \cup {Nack(k)}
  BY <1>1 DEF Failed
<1>4. /\ conn' \in [Conns -> Bindings] /\ checks' \subseteq Checks
      /\ \A j \in checks' : CheckOK(j)'
      /\ \A d \in Conns : IsOpen(d)' => OfOwner(d, conn[d].token)'
  BY <1>1, <1>2, <1>3, Closing, Dropping DEF Over
<1>5. /\ wire' \subseteq Packets /\ \A m \in wire' : m \in wire \/ PacketOK(m)'
  BY <1>1, <1>3 DEF Inv, TypeOK, GatewayTypeOK, Packets
<1> QED
  BY <1>2, <1>4, <1>5, ServerStep DEF Around

LEMMA PassedInv ==
  ASSUME Inv, Around, NEW k \in checks, k.pc = "user", Accepted(k.token), Passed(k)
  PROVE  Inv'
<1>1. /\ k \in Checks /\ CheckOK(k) /\ OfOwner(k.conn, k.token)
      /\ token[k.token].user \in Users
  BY CheckFacts DEF Around
<1>2. UNCHANGED <<token, revoked, cut, auth>> /\ Steady /\ wire \subseteq Packets
  BY DEF Around, Steady, tokenVars, Inv, TypeOK, GatewayTypeOK, Packets
<1>3. k.conn \in Conns /\ k.token \in Tokens /\ k.kind \in {"connect", "refresh", "deliver"}
  BY <1>1 DEF Checks
<1>4. CASE Failed(k)
  BY <1>4, FailedInv
<1>5. CASE Bind(k.conn, k.token, {k}) /\ UNCHANGED wire
  <2>1. /\ conn' \in [Conns -> Bindings] /\ checks' \subseteq Checks
        /\ \A j \in checks' : CheckOK(j)'
        /\ \A d \in Conns : IsOpen(d)' => OfOwner(d, conn[d].token)'
    BY <1>1, <1>2, <1>3, <1>5, Rebound
  <2> QED
    BY <1>2, <1>5, <2>1, ServerStep DEF Around
<1>6. CASE Over(k) /\ UNCHANGED wire
  <2>1. /\ conn' \in [Conns -> Bindings] /\ checks' \subseteq Checks
        /\ \A j \in checks' : CheckOK(j)'
        /\ \A d \in Conns : IsOpen(d)' => OfOwner(d, conn[d].token)'
    BY <1>2, <1>6, Dropping DEF Over
  <2> QED
    BY <1>2, <1>6, <2>1, ServerStep DEF Around
<1>7. CASE k.kind = "deliver" /\ Unexpired(k.token) /\ Over(k) /\ wire' = wire \cup {Packet(k)}
  <2>1. /\ conn' \in [Conns -> Bindings] /\ checks' \subseteq Checks
        /\ \A j \in checks' : CheckOK(j)'
        /\ \A d \in Conns : IsOpen(d)' => OfOwner(d, conn[d].token)'
    BY <1>2, <1>7, Dropping DEF Over
  <2>2. k.good
    BY <1>1, <1>7 DEF CheckOK, Accepted
  <2>3. /\ Packet(k) \in Packets /\ Packet(k).conn = k.conn
        /\ Packet(k).user = token[k.token].user /\ Packet(k).good = k.good
    BY <1>1 DEF Packet, Packets, Checks
  <2>4. ASSUME NEW m \in {Packet(k)} PROVE PacketOK(m)'
    <3>1. Used(auth[k.conn])' /\ token[k.token].user = Owner(k.conn)'
      BY <1>1, <1>2 DEF OfOwner, Used, Owner
    <3>2. m.conn = k.conn /\ m.good /\ m.user = token[k.token].user
      BY <2>2, <2>3, <2>4
    <3> QED
      BY <3>1, <3>2 DEF PacketOK
  <2> QED
    BY <1>2, <1>7, <2>1, <2>3, <2>4, ServerStep DEF Around
<1> QED
  BY <1>3, <1>4, <1>5, <1>6, <1>7 DEF Passed

LEMMA Verifying ==
  ASSUME Inv, Steady, stale' \in BOOLEAN, NEW k \in checks,
         CheckJti(k) \/ StoreUnavailable(k) \/ CheckUser(k)
  PROVE  Inv'
<1>1. relay' = relay /\ budget' \in [Events -> Nat]
  BY SpendOK DEF CheckJti, StoreUnavailable, CheckUser, Inv, TypeOK, GatewayTypeOK, Events
<1>2. Around
  BY <1>1 DEF Around, Inv, TypeOK, GatewayTypeOK
<1>3. CASE Failed(k)
  BY <1>2, <1>3, FailedInv
<1>4. CASE CheckUser(k) /\ Accepted(k.token)
  BY <1>2, <1>4, PassedInv DEF CheckUser
<1>5. CASE /\ Unexpired(k.token) /\ k.token \notin revoked
           /\ checks' = (checks \ {k}) \cup {[k EXCEPT !.pc = "user"]}
           /\ UNCHANGED <<conn, wire>>
  <2> DEFINE j == [k EXCEPT !.pc = "user"]
  <2>1. k \in Checks /\ CheckOK(k) /\ checks \subseteq Checks
    BY CheckFacts DEF Inv, TypeOK, GatewayTypeOK, Checks
  <2>2. /\ j \in Checks /\ j.conn = k.conn /\ j.token = k.token /\ j.good = k.good
        /\ j.kind = k.kind /\ j.same = k.same /\ j.pc = "user"
    BY <2>1 DEF Checks
  <2> HIDE DEF j
  <2>3. UNCHANGED <<token, revoked, cut, auth>>
    BY DEF Steady, tokenVars
  <2>4. CheckOK(j)
    BY <1>5, <2>1, <2>2 DEF CheckOK
  <2>5. \A i \in checks' : CheckOK(i)
    BY <1>5, <2>4 DEF j, Inv
  <2>6. \A i \in checks' : CheckOK(i)'
    BY <1>5, <2>3, <2>5 DEF CheckOK, OfOwner, Used, Owner, IsOpen, Unexpired
  <2>7. \A d \in Conns : IsOpen(d)' => OfOwner(d, conn[d].token)'
    BY <1>5, <2>3 DEF Inv, ConnOK, IsOpen, OfOwner, Used, Owner
  <2>8. checks' \subseteq Checks
    BY <1>5, <2>1, <2>2 DEF j
  <2>9. conn' \in [Conns -> Bindings] /\ wire' \subseteq Packets
    BY <1>5 DEF Inv, TypeOK, GatewayTypeOK, Bindings, Packets
  <2> QED
    BY <1>2, <1>5, <2>6, <2>7, <2>8, <2>9, ServerStep DEF Around
<1> QED
  BY <1>3, <1>4, <1>5 DEF CheckJti, StoreUnavailable, CheckUser

LEMMA TimerInv ==
  ASSUME Inv, UNCHANGED phoneVars, NEW c \in Conns, Timer(c)
  PROVE  Inv'
<1>1. Around /\ Steady /\ UNCHANGED <<token, revoked, cut, auth, wire>>
  BY DEF Timer, phoneVars, tokenVars, Around, Steady, Inv, TypeOK, GatewayTypeOK
<1>2. /\ conn' \in [Conns -> Bindings] /\ checks' \subseteq Checks
      /\ \A j \in checks' : CheckOK(j)'
      /\ \A d \in Conns : IsOpen(d)' => OfOwner(d, conn[d].token)'
  BY <1>1, Closing DEF Timer
<1>3. wire' \subseteq Packets
  BY <1>1 DEF Inv, TypeOK, GatewayTypeOK, Packets
<1> QED
  BY <1>1, <1>2, <1>3, ServerStep DEF Around

\* New checks of connections for their own tokens are in order.
LEMMA Delivering ==
  ASSUME Inv, UNCHANGED phoneVars, UNCHANGED <<tokenVars, conn, wire>>,
         relay' \subseteq [user : Users, but : SUBSET Conns], budget' \in [Events -> Nat],
         NEW D \in SUBSET Conns, \A c \in D : IsOpen(c),
         Deliver(D)
  PROVE  Inv'
<1>1. Around /\ Steady
  BY DEF phoneVars, Around, Steady, Inv, TypeOK, GatewayTypeOK
<1>2. ASSUME NEW c \in D
      PROVE  LET k == Check("deliver", c, conn[c].token) IN k \in Checks /\ CheckOK(k)
  <2> DEFINE k == Check("deliver", c, conn[c].token)
  <2>1. OfOwner(c, conn[c].token) /\ IsOpen(c)
    BY <1>2 DEF Inv, ConnOK
  <2>2. Good(conn[c].token) \in BOOLEAN
    BY DEF Good
  <2>3. /\ k \in Checks /\ k.conn = c /\ k.token = conn[c].token /\ k.pc = "jti"
        /\ k.good = Good(conn[c].token) /\ k.kind = "deliver"
    BY <1>2, <2>1, <2>2 DEF Check, Checks, OfOwner, Used
  <2> HIDE DEF k
  <2>4. CheckOK(k)
    BY <2>1, <2>3 DEF CheckOK, Good
  <2> QED
    BY <2>3, <2>4 DEF k
<1>3. checks' \subseteq Checks /\ \A k \in checks' : CheckOK(k)
  BY <1>2 DEF Deliver, Inv, TypeOK, GatewayTypeOK, Checks
<1>4. \A k \in checks' : CheckOK(k)'
  BY <1>3 DEF CheckOK, OfOwner, Used, Owner, IsOpen, Unexpired, tokenVars, phoneVars
<1>5. \A d \in Conns : IsOpen(d)' => OfOwner(d, conn[d].token)'
  BY DEF Inv, ConnOK, IsOpen, OfOwner, Used, Owner, tokenVars, phoneVars
<1>6. conn' \in [Conns -> Bindings] /\ wire' \subseteq Packets
  BY DEF Inv, TypeOK, GatewayTypeOK, Bindings, Packets
<1> QED
  BY <1>1, <1>3, <1>4, <1>5, <1>6, ServerStep DEF Around

LEMMA GatewayInv ==
  ASSUME Inv, GatewayStep, UNCHANGED phoneVars
  PROVE  Inv'
<1>1. UNCHANGED tokenVars => Steady /\ stale' \in BOOLEAN
  BY DEF Steady, phoneVars, Inv, TypeOK
<1>2. ASSUME NEW u \in Users, NEW D \in SUBSET Conns, Post(u, D) PROVE Inv'
  <2>1. budget' \in [Events -> Nat]
    BY <1>2, SpendOK DEF Post, Inv, TypeOK, GatewayTypeOK, Events
  <2>2. relay' \subseteq [user : Users, but : SUBSET Conns]
    BY <1>2 DEF Post, Inv, TypeOK, GatewayTypeOK
  <2> QED
    BY <1>2, <2>1, <2>2, Delivering DEF Post, ConnsOf
<1>3. ASSUME NEW m \in relay, Relay(m) PROVE Inv'
  BY <1>3, Delivering DEF Relay, ConnsOf, Inv, TypeOK, GatewayTypeOK
<1>4. ASSUME NEW m \in relay, LoseRelay(m) PROVE Inv'
  <2>1. budget' \in [Events -> Nat]
    BY <1>4, SpendOK DEF LoseRelay, Inv, TypeOK, GatewayTypeOK, Events
  <2>2. /\ conn' \in [Conns -> Bindings] /\ checks' \subseteq Checks
        /\ \A j \in checks' : CheckOK(j)'
        /\ \A d \in Conns : IsOpen(d)' => OfOwner(d, conn[d].token)'
    BY <1>4, Dropping DEF LoseRelay, tokenVars, phoneVars
  <2> QED
    BY <1>1, <1>4, <2>1, <2>2, ServerStep DEF LoseRelay, Inv, TypeOK, GatewayTypeOK, Packets, tokenVars
<1>5. ASSUME NEW k \in checks, CheckJti(k) \/ StoreUnavailable(k) \/ CheckUser(k) PROVE Inv'
  BY <1>1, <1>5, Verifying DEF CheckJti, StoreUnavailable, CheckUser
<1> QED
  BY <1>2, <1>3, <1>4, <1>5, Endings, TimerInv DEF GatewayStep

-----------------------------------------------------------------------------
(* The phone *)

LEMMA HandshakeInv ==
  ASSUME Inv, NEW k \in checks, Handshake(k)
  PROVE  Inv'
<1>1. UNCHANGED tokenVars
  BY DEF Handshake, CheckJti, StoreUnavailable, CheckUser
<1>2. k.conn \in Conns /\ link \in [Conns -> {"off", "opening", "connected"}]
  BY DEF Inv, TypeOK, GatewayTypeOK
<1>3. /\ link' \in [Conns -> {"off", "opening", "connected"}]
      /\ \A c \in Conns : link'[c] # "off" => link[c] # "off"
  <2>1. \/ link' = link
        \/ link[k.conn] = "opening" /\ link' = [link EXCEPT ![k.conn] = "connected"]
        \/ link' = [link EXCEPT ![k.conn] = "off"]
    BY DEF Handshake
  <2> QED
    BY <1>2, <2>1
<1>4. Steady /\ stale' \in BOOLEAN
  BY <1>1, <1>3 DEF Steady, Handshake, Inv, TypeOK
<1> QED
  BY <1>4, Verifying DEF Handshake

LEMMA HangUpInv ==
  ASSUME Inv, NEW c \in Conns, HangUp(c)
  PROVE  Inv'
<1>1. Around /\ Steady /\ UNCHANGED <<token, revoked, cut, auth, wire>>
  BY DEF HangUp, Sent, tokenVars, Around, Steady, Inv, TypeOK, GatewayTypeOK
<1>2. /\ conn' \in [Conns -> Bindings] /\ checks' \subseteq Checks
      /\ \A j \in checks' : CheckOK(j)'
      /\ \A d \in Conns : IsOpen(d)' => OfOwner(d, conn[d].token)'
  BY <1>1, Closing DEF HangUp
<1>3. wire' \subseteq Packets
  BY <1>1 DEF Inv, TypeOK, GatewayTypeOK, Packets
<1> QED
  BY <1>1, <1>2, <1>3, ServerStep DEF Around

\* A new handshake is in order.
LEMMA Dialled ==
  ASSUME NEW c \in Conns, NEW t \in Tokens, Used(t)
  PROVE  LET k == Check("connect", c, t)
         IN  /\ k \in Checks /\ k.conn = c /\ k.token = t /\ k.kind = "connect"
             /\ k.good \/ t \in cut \/ ~Unexpired(t) \/ (k.pc = "jti" /\ t \in revoked)
<1>1. Good(t) \in BOOLEAN
  BY DEF Good
<1> QED
  BY <1>1 DEF Check, Checks, Good

LEMMA DropInv ==
  ASSUME Inv, NEW c \in Conns, Drop(c)
  PROVE  Inv'
<1> DEFINE k == Check("connect", c, auth[c])
<1>1. Around /\ Steady /\ UNCHANGED <<token, revoked, cut, auth>>
  <2>1. budget' \in [Events -> Nat]
    BY SpendOK DEF Drop, Inv, TypeOK, GatewayTypeOK, Events
  <2>2. link' = [link EXCEPT ![c] = "opening"] /\ link[c] = "connected"
    BY DEF Drop
  <2> QED
    BY <2>1, <2>2 DEF Drop, Sent, tokenVars, Around, Steady, Inv, TypeOK, GatewayTypeOK
<1>2. Used(auth[c])
  BY DEF Drop, Inv, ConnOK
<1>3. /\ k \in Checks /\ k.conn = c /\ k.token = auth[c] /\ k.kind = "connect"
      /\ k.good \/ k.token \in cut \/ ~Unexpired(k.token) \/ (k.pc = "jti" /\ k.token \in revoked)
  BY <1>2, Dialled DEF Used
<1>4. /\ conn' \in [Conns -> Bindings] /\ Unbound(c, TRUE) \subseteq Checks
      /\ \A j \in Unbound(c, TRUE) : CheckOK(j)'
      /\ \A d \in Conns : IsOpen(d)' => OfOwner(d, conn[d].token)'
  <2>1. Closed \in Bindings /\ Closed.state # "open"
    BY DEF Closed, Bindings
  <2> QED
    BY <1>1, <2>1, Rebinding DEF Drop
<1>5. checks' = Unbound(c, TRUE) \cup {k}
  BY DEF Drop
<1> HIDE DEF k
<1>6. ASSUME NEW j \in {k} PROVE CheckOK(j)'
  BY <1>1, <1>2, <1>3, <1>6 DEF CheckOK, OfOwner, Used, Owner, Unexpired
<1>7. checks' \subseteq Checks /\ \A j \in checks' : CheckOK(j)'
  BY <1>3, <1>4, <1>5, <1>6
<1>8. wire' \subseteq wire /\ wire' \subseteq Packets
  BY DEF Drop, Inv, TypeOK, GatewayTypeOK, Packets
<1> QED
  BY <1>1, <1>4, <1>7, <1>8, ServerStep DEF Around

\* Packets, refreshes and closed connections as the client sees them.
LEMMA Arrivals ==
  ASSUME Inv,
         \/ \E c \in Conns : Disconnected(c)
         \/ \E m \in uplink : RefreshArrives(m)
         \/ \E m \in wire : Receive(m) \/ ReceiveNack(m)
  PROVE  Inv'
<1>1. UNCHANGED <<tokenVars, conn, auth, session, socket, relay, budget, stale>>
  BY DEF Disconnected, RefreshArrives, Receive, ReceiveNack
<1>2. Ages /\ TokensOK'
  BY <1>1, SameAges DEF Inv
<1>3. /\ link' \in [Conns -> {"off", "opening", "connected"}]
      /\ \A c \in Conns : link'[c] # "off" => link[c] # "off"
  BY DEF Disconnected, RefreshArrives, Receive, ReceiveNack, Inv, TypeOK
<1>4. Owners
  BY <1>1, <1>2, <1>3, SameOwners
<1>5. wire' \subseteq wire /\ uplink' \subseteq uplink
  BY DEF Disconnected, RefreshArrives, Receive, ReceiveNack, Sent
<1>6. /\ handler' \in [conn : Conns \cup {NoConn}, same : BOOLEAN, retry : BOOLEAN]
      /\ handler'.same = handler.same /\ handler'.conn = handler.conn
  <2>1. handler \in [conn : Conns \cup {NoConn}, same : BOOLEAN, retry : BOOLEAN]
    BY DEF Inv, TypeOK
  <2>2. handler' = handler \/ handler' = [handler EXCEPT !.retry = TRUE]
    BY DEF Disconnected, RefreshArrives, Receive, ReceiveNack
  <2> QED
    BY <2>1, <2>2
<1>7. shown' \subseteq Users /\ shown' \subseteq {session.user}
  <2>1. ASSUME NEW m \in wire, Receive(m), Listening(m.conn)
        PROVE  m.user \in Users /\ m.user = session.user
    <3>1. m \in Packets /\ PacketOK(m)
      BY <2>1 DEF Inv, TypeOK, GatewayTypeOK, Packets
    <3>2. socket = m.conn /\ m.conn # NoConn
      BY <2>1 DEF Listening, Inv, PhoneOK
      <3> QED
      BY <3>1, <3>2 DEF PacketOK, Packets, Inv, PhoneOK
  <2>2. shown' = shown \/ \E m \in wire : /\ Receive(m) /\ Listening(m.conn)
                                          /\ shown' = shown \cup {m.user}
    BY DEF Disconnected, RefreshArrives, Receive, ReceiveNack
  <2> QED
    BY <2>1, <2>2 DEF Inv, TypeOK, PhoneOK
<1>8. SessionOK' /\ PhoneOK'
  BY <1>1, <1>6, <1>7 DEF Inv, SessionOK, PhoneOK, Used, Owner, tokenVars
<1>9. checks' \subseteq Checks /\ \A k \in checks' : k \in checks \/ CheckOK(k)'
  <2>1. CASE checks' = checks
    BY <2>1 DEF Inv, TypeOK, GatewayTypeOK, Checks
  <2>2. ASSUME NEW m \in uplink, checks' = checks \cup {Check("refresh", m.conn, m.token)}
        PROVE  checks' \subseteq Checks /\ \A k \in checks' : k \in checks \/ CheckOK(k)'
    <3> DEFINE k == Check("refresh", m.conn, m.token)
    <3>1. m.conn \in Conns /\ m.token \in Tokens /\ OfOwner(m.conn, m.token)
      BY DEF Inv, TypeOK, RefreshOK
    <3>2. Good(m.token) \in BOOLEAN
      BY DEF Good
    <3>3. /\ k \in Checks /\ k.conn = m.conn /\ k.token = m.token /\ k.kind = "refresh"
          /\ k.pc = "jti" /\ k.good = Good(m.token)
      BY <3>1, <3>2 DEF Check, Checks
    <3> HIDE DEF k
    <3>4. ASSUME NEW j \in {k} PROVE CheckOK(j)'
      BY <1>1, <3>1, <3>3, <3>4
         DEF CheckOK, OfOwner, Used, Owner, Unexpired, Good, tokenVars
    <3> QED
      BY <2>2, <3>3, <3>4 DEF k, Inv, TypeOK, GatewayTypeOK, Checks
  <2> QED
    BY <2>1, <2>2 DEF Disconnected, RefreshArrives, Receive, ReceiveNack
<1>10. TypeOK'
  BY <1>1, <1>3, <1>5, <1>6, <1>7, <1>9
     DEF Inv, TypeOK, GatewayTypeOK, Checks, tokenVars
<1> QED
  BY <1>2, <1>4, <1>5, <1>8, <1>9, <1>10, AllAge DEF Inv

\* A token is issued for a user.
LEMMA Issuing ==
  ASSUME Inv, NEW u \in Users, NEW s \in Sessions, Minted(s, u), Issue(s),
         UNCHANGED <<revoked, cut>>
  PROVE  /\ Ages /\ TokensOK' /\ s.token \in Tokens /\ s.user = u
         /\ Used(s.token)' /\ token'[s.token].user = u
         /\ token' \in [Tokens -> [user : Users \cup {NoUser}, life : {"unused", "live", "expired"}]]
<1>1. s.token \in Tokens /\ token[s.token].life = "unused" /\ s.user = u
  BY DEF Minted, Unused
<1>2. token \in [Tokens -> [user : Users \cup {NoUser}, life : {"unused", "live", "expired"}]]
  BY DEF Inv, TypeOK, GatewayTypeOK
<1>3. \A t \in Tokens : token'[t] = IF t = s.token THEN [user |-> u, life |-> "live"] ELSE token[t]
  BY <1>1, <1>2 DEF Issue
<1>4. Ages /\ TokensOK'
  BY <1>1, <1>3 DEF Ages, TokensOK, Inv, Used, Unexpired
<1>5. token' \in [Tokens -> [user : Users \cup {NoUser}, life : {"unused", "live", "expired"}]]
  BY <1>1, <1>2 DEF Issue
<1> QED
  BY <1>1, <1>3, <1>4, <1>5 DEF Used

LEMMA Changing ==
  ASSUME Inv, NEW s \in Sessions, ChangeSession(s), Ages, UNCHANGED conn
  PROVE  /\ Owners /\ PhoneOK' /\ socket' = NoConn /\ shown' = {} /\ stale' = TRUE
         /\ link' \in [Conns -> {"off", "opening", "connected"}]
         /\ handler' \in [conn : Conns \cup {NoConn}, same : BOOLEAN, retry : BOOLEAN]
<1>1. link \in [Conns -> {"off", "opening", "connected"}]
      /\ handler \in [conn : Conns \cup {NoConn}, same : BOOLEAN, retry : BOOLEAN]
  BY DEF Inv, TypeOK
<1>2. /\ socket' = NoConn /\ shown' = {} /\ stale' = TRUE /\ UNCHANGED auth
      /\ link' = [c \in Conns |-> IF c = socket THEN "off" ELSE link[c]]
      /\ handler' = [handler EXCEPT !.same = FALSE]
  BY DEF ChangeSession, Disconnect
<1>3. /\ link' \in [Conns -> {"off", "opening", "connected"}]
      /\ \A c \in Conns : link'[c] # "off" => link[c] # "off"
  BY <1>1, <1>2
<1>4. /\ handler' \in [conn : Conns \cup {NoConn}, same : BOOLEAN, retry : BOOLEAN]
      /\ handler'.same = FALSE
  BY <1>1, <1>2
<1>5. Owners
  BY <1>2, <1>3, SameOwners
<1> QED
  BY <1>2, <1>3, <1>4, <1>5 DEF PhoneOK

LEMMA SignInInv ==
  ASSUME Inv, NEW u \in Users, SignIn(u)
  PROVE  Inv'
<1>1. PICK s \in Sessions : Minted(s, u) /\ Issue(s) /\ ChangeSession(s)
  BY DEF SignIn
<1>2. UNCHANGED <<revoked, cut, conn, checks, relay, wire, auth, uplink>>
      /\ session' = s /\ budget' \in [Events -> Nat]
  BY <1>1, SpendOK DEF SignIn, ChangeSession, Inv, TypeOK, GatewayTypeOK, Events
<1>3. /\ Ages /\ TokensOK' /\ s.token \in Tokens /\ s.user = u
      /\ Used(s.token)' /\ token'[s.token].user = u
      /\ token' \in [Tokens -> [user : Users \cup {NoUser}, life : {"unused", "live", "expired"}]]
  BY <1>1, <1>2, Issuing
<1>4. /\ Owners /\ PhoneOK' /\ socket' = NoConn /\ shown' = {} /\ stale' = TRUE
      /\ link' \in [Conns -> {"off", "opening", "connected"}]
      /\ handler' \in [conn : Conns \cup {NoConn}, same : BOOLEAN, retry : BOOLEAN]
  BY <1>1, <1>2, <1>3, Changing
<1>5. SessionOK'
  BY <1>2, <1>3, UserAssumption DEF SessionOK, Used
<1>6. TypeOK'
  BY <1>2, <1>3, <1>4 DEF Inv, TypeOK, GatewayTypeOK
<1> QED
  BY <1>2, <1>3, <1>4, <1>5, <1>6, AllAge DEF Inv

LEMMA SignOutInv ==
  ASSUME Inv, SignOut
  PROVE  Inv'
<1>1. UNCHANGED <<tokenVars, conn, checks, relay, wire, auth, uplink>>
      /\ session' = SignedOut /\ ChangeSession(SignedOut) /\ budget' \in [Events -> Nat]
  BY SpendOK DEF SignOut, ChangeSession, Inv, TypeOK, GatewayTypeOK, Events
<1>2. SignedOut \in Sessions
  BY DEF SignedOut, Sessions
<1>3. Ages /\ TokensOK'
  BY <1>1, SameAges DEF Inv
<1>4. /\ Owners /\ PhoneOK' /\ socket' = NoConn /\ shown' = {} /\ stale' = TRUE
      /\ link' \in [Conns -> {"off", "opening", "connected"}]
      /\ handler' \in [conn : Conns \cup {NoConn}, same : BOOLEAN, retry : BOOLEAN]
  BY <1>1, <1>2, <1>3, Changing
<1>5. SessionOK'
  BY <1>1 DEF SessionOK, SignedOut
<1>6. TypeOK'
  BY <1>1, <1>2, <1>4 DEF Inv, TypeOK, GatewayTypeOK, tokenVars
<1> QED
  BY <1>1, <1>3, <1>4, <1>5, <1>6, AllAge DEF Inv

LEMMA RenewInv ==
  ASSUME Inv, Renew
  PROVE  Inv'
<1> DEFINE u == session.user
<1>1. PICK s \in Sessions :
        /\ Minted(s, u) /\ Issue(s) /\ session' = s
        /\ auth' = [c \in Conns |-> IF c = socket THEN s.token ELSE auth[c]]
        /\ uplink' = IF socket # NoConn /\ link[socket] = "connected"
                     THEN uplink \cup {[conn |-> socket, token |-> s.token]} ELSE uplink
  BY DEF Renew
<1>2. /\ UNCHANGED <<revoked, cut, conn, checks, relay, wire, shown, socket, link, handler>>
      /\ stale' = TRUE /\ budget' \in [Events -> Nat]
  BY SpendOK DEF Renew, Inv, TypeOK, GatewayTypeOK, Events
<1>3. u \in Users
  BY DEF Renew, Inv, TypeOK, Sessions
<1> HIDE DEF u
<1>4. /\ Ages /\ TokensOK' /\ s.token \in Tokens /\ s.user = u
      /\ Used(s.token)' /\ token'[s.token].user = u
      /\ token' \in [Tokens -> [user : Users \cup {NoUser}, life : {"unused", "live", "expired"}]]
  BY <1>1, <1>2, <1>3, Issuing
<1>5. socket # NoConn => socket \in Conns /\ Used(auth[socket]) /\ Owner(socket) = u
  BY DEF u, Inv, TypeOK, PhoneOK
<1>6. \A c \in Conns : auth'[c] = IF c = socket THEN s.token ELSE auth[c]
  BY <1>1
<1>7. \A c \in Conns : Used(auth[c]) => Used(auth[c])' /\ Owner(c)' = Owner(c)
  BY <1>4, <1>5, <1>6, ConnAssumption DEF Ages, Used, Owner
<1>8. Owners
  BY <1>2, <1>7 DEF Owners
<1>9. SessionOK' /\ PhoneOK'
  <2>1. SessionOK'
    BY <1>1, <1>3, <1>4, UserAssumption DEF SessionOK, Used
  <2>2. socket # NoConn => Used(auth[socket])' /\ Owner(socket)' = u
    BY <1>2, <1>5, <1>7
  <2> QED
    BY <1>1, <1>2, <1>3, <1>4, <2>1, <2>2, UserAssumption DEF u, Inv, PhoneOK, Used
<1>10. \A m \in uplink' : m \in uplink \/ RefreshOK(m)'
  <2>1. SUFFICES ASSUME socket # NoConn,
                        NEW m \in {[conn |-> socket, token |-> s.token]}
                 PROVE  RefreshOK(m)'
    BY <1>1
  <2>2. m.conn = socket /\ m.token = s.token /\ socket' = socket
    BY <1>2, <2>1
  <2> QED
    BY <1>4, <1>5, <1>7, <2>1, <2>2 DEF RefreshOK, OfOwner, Used
<1>11. uplink' \subseteq [conn : Conns, token : Tokens]
  BY <1>1, <1>4, <1>5 DEF Inv, TypeOK
<1>12. auth' \in [Conns -> Tokens \cup {NoToken}]
  BY <1>1, <1>4 DEF Inv, TypeOK
<1>13. TypeOK'
  BY <1>1, <1>2, <1>4, <1>11, <1>12 DEF Inv, TypeOK, GatewayTypeOK
<1> QED
  BY <1>2, <1>4, <1>8, <1>9, <1>10, <1>13, AllAge DEF Inv

\* The phone dials with its session, on a socket of its user or one without a past.
LEMMA DialInv ==
  ASSUME Inv, NEW c \in Conns, session.user # NoUser,
         Unheld(c) \/ c = socket,
         Dial(c, session.token, link),
         UNCHANGED <<tokenVars, conn, relay, wire, budget, session, shown, uplink>>,
         socket' = c, handler'.same => handler'.conn = c,
         handler' \in [conn : Conns \cup {NoConn}, same : BOOLEAN, retry : BOOLEAN],
         stale' \in BOOLEAN
  PROVE  Inv'
<1> DEFINE t == session.token
           k == Check("connect", c, t)
<1>1. Used(t) /\ t \in Tokens /\ token[t].user = session.user
  BY DEF Inv, SessionOK, Used
<1>2. /\ link' = [link EXCEPT ![c] = "opening"] /\ auth' = [auth EXCEPT ![c] = t]
      /\ checks' = checks \cup {k}
  BY DEF Dial
<1>3. /\ link' \in [Conns -> {"off", "opening", "connected"}]
      /\ auth' \in [Conns -> Tokens \cup {NoToken}]
      /\ \A d \in Conns : /\ auth'[d] = IF d = c THEN t ELSE auth[d]
                          /\ link'[d] = IF d = c THEN "opening" ELSE link[d]
  BY <1>1, <1>2 DEF Inv, TypeOK
<1>4. /\ k \in Checks /\ k.conn = c /\ k.token = t /\ k.kind = "connect"
      /\ k.good \/ t \in cut \/ ~Unexpired(t) \/ (k.pc = "jti" /\ t \in revoked)
  BY <1>1, Dialled
<1> HIDE DEF k, t
<1>5. Ages /\ TokensOK'
  BY SameAges DEF Inv
<1>6. c = socket => Used(auth[c]) /\ Owner(c) = session.user
  BY ConnAssumption DEF Inv, PhoneOK
<1>7. Owners
  BY <1>1, <1>3, <1>6 DEF Owners, Used, Owner, tokenVars
<1>8. SessionOK' /\ PhoneOK'
  <2>1. Used(auth[c])' /\ Owner(c)' = session.user
    BY <1>1, <1>3 DEF Used, Owner, tokenVars
  <2>2. SessionOK'
    BY DEF Inv, SessionOK, Used, tokenVars
  <2> QED
    BY <2>1, <2>2, ConnAssumption DEF Inv, PhoneOK
<1>9. ASSUME NEW j \in {k} PROVE CheckOK(j)'
  BY <1>1, <1>3, <1>4, <1>9 DEF CheckOK, OfOwner, Used, Owner, Unexpired, tokenVars
<1>10. TypeOK'
  <2>1. checks' \subseteq Checks
    BY <1>2, <1>4 DEF Inv, TypeOK, GatewayTypeOK, Checks
  <2> QED
    BY <1>3, <2>1 DEF Inv, TypeOK, GatewayTypeOK, Checks, tokenVars
<1> QED
  BY <1>2, <1>5, <1>7, <1>8, <1>9, <1>10, AllAge DEF Inv

\* An effect or a retry that does not dial.
LEMMA Undialled ==
  ASSUME Inv,
         UNCHANGED <<tokenVars, conn, checks, relay, wire, session, shown, auth, uplink>>,
         budget' \in [Events -> Nat],
         link' \in [Conns -> {"off", "opening", "connected"}],
         \A d \in Conns : link'[d] # "off" => link[d] # "off",
         socket' \in {socket, NoConn},
         handler'.same => socket' # NoConn /\ handler'.conn = socket',
         handler' \in [conn : Conns \cup {NoConn}, same : BOOLEAN, retry : BOOLEAN],
         stale' \in BOOLEAN
  PROVE  Inv'
<1>1. Ages /\ TokensOK'
  BY SameAges DEF Inv
<1>2. Owners
  BY <1>1, SameOwners
<1>3. SessionOK' /\ PhoneOK'
  BY DEF Inv, SessionOK, PhoneOK, Used, Owner, tokenVars
<1>4. TypeOK'
  BY DEF Inv, TypeOK, GatewayTypeOK, tokenVars
<1> QED
  BY <1>1, <1>2, <1>3, <1>4, AllAge DEF Inv

LEMMA EffectInv ==
  ASSUME Inv, Effect
  PROVE  Inv'
<1>1. /\ UNCHANGED <<tokenVars, conn, relay, wire, budget, session, shown, uplink>>
      /\ stale' \in BOOLEAN /\ budget' \in [Events -> Nat]
  BY DEF Effect, Inv, TypeOK, GatewayTypeOK
<1>2. /\ link \in [Conns -> {"off", "opening", "connected"}]
      /\ socket \in Conns \cup {NoConn}
  BY DEF Inv, TypeOK
<1>3. CASE session.user = NoUser
  <2>1. /\ UNCHANGED <<auth, checks>> /\ socket' = NoConn /\ handler' = NoHandler
        /\ link' = [c \in Conns |-> IF c = socket THEN "off" ELSE link[c]]
    BY <1>3 DEF Effect, Disconnect
  <2>2. /\ link' \in [Conns -> {"off", "opening", "connected"}]
        /\ \A d \in Conns : link'[d] # "off" => link[d] # "off"
    BY <1>2, <2>1
  <2>3. /\ handler' \in [conn : Conns \cup {NoConn}, same : BOOLEAN, retry : BOOLEAN]
        /\ ~handler'.same
    BY <2>1 DEF NoHandler
  <2> QED
    BY <1>1, <2>1, <2>2, <2>3, Undialled
<1>4. CASE session.user # NoUser /\ socket # NoConn /\ link[socket] = "connected"
  <2>1. /\ UNCHANGED <<socket, link, auth, checks>>
        /\ handler' = [conn |-> socket, same |-> TRUE, retry |-> FALSE]
    BY <1>4 DEF Effect
  <2>2. /\ handler' \in [conn : Conns \cup {NoConn}, same : BOOLEAN, retry : BOOLEAN]
        /\ handler'.conn = socket
    BY <1>2, <2>1
  <2> QED
    BY <1>1, <1>2, <1>4, <2>1, <2>2, Undialled
<1>5. CASE session.user # NoUser /\ ~(socket # NoConn /\ link[socket] = "connected")
  <2>1. PICK c \in Conns : /\ Unheld(c) /\ socket' = c
                           /\ handler' = [conn |-> c, same |-> TRUE, retry |-> FALSE]
                           /\ Dial(c, session.token, link)
    BY <1>5 DEF Effect
  <2>2. /\ handler' \in [conn : Conns \cup {NoConn}, same : BOOLEAN, retry : BOOLEAN]
        /\ handler'.conn = c
    BY <2>1
  <2> QED
    BY <1>1, <1>5, <2>1, <2>2, DialInv
<1> QED
  BY <1>3, <1>4, <1>5

LEMMA ReconnectInv ==
  ASSUME Inv, Reconnect
  PROVE  Inv'
<1> DEFINE c == handler.conn
<1>1. /\ UNCHANGED <<tokenVars, conn, relay, wire, budget, session, shown, socket, uplink, stale>>
      /\ stale' \in BOOLEAN /\ handler' = [handler EXCEPT !.retry = FALSE]
      /\ handler \in [conn : Conns \cup {NoConn}, same : BOOLEAN, retry : BOOLEAN]
      /\ link \in [Conns -> {"off", "opening", "connected"}]
      /\ socket \in Conns \cup {NoConn} /\ budget' \in [Events -> Nat]
  BY DEF Reconnect, Inv, TypeOK, GatewayTypeOK
<1>2. /\ handler' \in [conn : Conns \cup {NoConn}, same : BOOLEAN, retry : BOOLEAN]
      /\ handler'.same = handler.same /\ handler'.conn = handler.conn
  BY <1>1
<1>3. handler.same => socket # NoConn /\ c = socket
  BY DEF Inv, PhoneOK
<1>4. CASE handler.same /\ session.token # NoToken
  <2>1. Dial(c, session.token, link) /\ c \in Conns /\ c = socket
    BY <1>1, <1>3, <1>4 DEF Reconnect
  <2>2. session.user # NoUser
    BY <1>4 DEF Inv, SessionOK
  <2> QED
    BY <1>1, <1>2, <2>1, <2>2, DialInv
<1>5. CASE ~(handler.same /\ session.token # NoToken)
  <2>1. UNCHANGED <<link, auth, checks>>
    BY <1>5 DEF Reconnect
  <2> QED
    BY <1>1, <1>2, <1>3, <2>1, Undialled
<1> QED
  BY <1>4, <1>5

LEMMA NotAnsweredInv ==
  ASSUME Inv, NotAnswered
  PROVE  Inv'
<1>1. /\ budget \in [Events -> Nat] /\ "outage" \in Events
      /\ handler \in [conn : Conns \cup {NoConn}, same : BOOLEAN, retry : BOOLEAN]
      /\ link \in [Conns -> {"off", "opening", "connected"}] /\ stale \in BOOLEAN
  BY DEF Inv, TypeOK, GatewayTypeOK, Events
<1>2. budget' \in [Events -> Nat]
  BY <1>1, SpendOK DEF NotAnswered
<1>3. /\ handler' \in [conn : Conns \cup {NoConn}, same : BOOLEAN, retry : BOOLEAN]
      /\ handler'.same = handler.same /\ handler'.conn = handler.conn
  BY <1>1 DEF NotAnswered
<1>4. handler.same => socket # NoConn /\ handler.conn = socket
  BY DEF Inv, PhoneOK
<1> QED
  BY <1>1, <1>2, <1>3, <1>4, Undialled DEF NotAnswered

-----------------------------------------------------------------------------
(* All of it *)

LEMMA InitInv ==
  ASSUME Init
  PROVE  Inv
<1>1. TypeOK
  <2>1. /\ token \in [Tokens -> [user : Users \cup {NoUser}, life : {"unused", "live", "expired"}]]
        /\ conn \in [Conns -> Bindings] /\ budget \in [Events -> Nat]
    BY BudgetAssumption DEF Init, GatewayInit, Bindings
  <2> QED
    BY <2>1 DEF Init, GatewayInit, TypeOK, GatewayTypeOK, SignedOut, Sessions, NoHandler, Bindings
<1>2. TokensOK /\ SessionOK /\ PhoneOK
  BY DEF Init, GatewayInit, TokensOK, Used, SessionOK, SignedOut, PhoneOK, NoHandler
<1>3. \A c \in Conns : ConnOK(c)
  BY DEF Init, GatewayInit, ConnOK, IsOpen
<1> QED
  BY <1>1, <1>2, <1>3 DEF Inv, Init, GatewayInit

LEMMA NextInv ==
  ASSUME Inv, [Next]_vars
  PROVE  Inv'
<1>1. CASE UNCHANGED vars
  <2>1. UNCHANGED <<tokenVars, conn, checks, relay, wire, budget, phoneVars>>
    BY <1>1 DEF vars, gatewayVars
  <2> QED
    BY <2>1, Undialled DEF phoneVars, Inv, TypeOK, GatewayTypeOK, PhoneOK
<1> QED
  BY <1>1, GatewayInv, SignInInv, SignOutInv, RenewInv, EffectInv, ReconnectInv, NotAnsweredInv, HandshakeInv,
     HangUpInv, DropInv, Arrivals DEF Next

LEMMA Invariance == Spec => []Inv
<1>1. Init => Inv
  BY InitInv
<1>2. Inv /\ [Next]_vars => Inv'
  BY NextInv
<1> QED
  BY <1>1, <1>2, PTL DEF Spec

\* Every step of the server, the network and the phone keeps tokens,
\* connections, checks, packets and the phone's view within their types.
THEOREM TypeCorrect == Spec => []TypeOK
<1>1. Inv => TypeOK
  BY DEF Inv
<1> QED
  BY <1>1, Invariance, PTL

\* However checks, refreshes and the ends of tokens overlap, an event is sent
\* only over a token that was good when its check began, to its user.
THEOREM Entitled == Spec => []SentToEntitled
<1>1. Inv => SentToEntitled
  <2> SUFFICES ASSUME Inv, NEW m \in wire, m.kind = "event"
               PROVE  m.good /\ (IsOpen(m.conn) => m.user = UserOf(m.conn))
    BY DEF SentToEntitled
  <2>1. m \in Packets /\ PacketOK(m)
    BY DEF Inv, TypeOK, GatewayTypeOK, Packets
  <2>2. ConnOK(m.conn)
    BY <2>1 DEF Inv, Packets
  <2> QED
    BY <2>1, <2>2 DEF PacketOK, ConnOK, OfOwner, UserOf
<1> QED
  BY <1>1, Invariance, PTL

\* Whoever signs in and out of a phone, and whatever is under way to it then,
\* the list shows notifications of the account that is signed in.
THEOREM OwnersList == Spec => []ShownToOwner
<1>1. Inv => ShownToOwner
  BY DEF Inv, PhoneOK, ShownToOwner
<1> QED
  BY <1>1, Invariance, PTL

-----------------------------------------------------------------------------
(* One handshake at a time, and one refusal: what keeps a good binding open *)

Joining(c) == \E k \in checks : k.kind = "connect" /\ k.conn = c
Refused(c) == \E m \in wire : m.kind = "nack" /\ m.conn = c

\* A socket is dialled when nothing of an earlier connection is left, so a
\* connection that is open has no handshake and no refusal under way.
OneAtATime ==
    /\ \A j, k \in checks :
          j.kind = "connect" /\ k.kind = "connect" /\ j.conn = k.conn => j = k
    /\ \A k \in checks : k.kind = "refresh" /\ k.same => IsOpen(k.conn)
    /\ \A c \in Conns :
          /\ Joining(c) => ~IsOpen(c) /\ link[c] # "connected"
          /\ Refused(c) => ~IsOpen(c) /\ ~Joining(c)
          /\ handler.retry /\ handler.conn = c
               => link[c] = "off" /\ ~IsOpen(c) /\ ~Joining(c) /\ ~Refused(c)

\* Steps that begin no handshake and open no connection.
LEMMA Calm ==
  ASSUME OneAtATime,
         \A k \in checks' : k.kind = "connect" => k \in checks,
         \A k \in checks' : k.kind = "refresh" /\ k.same => IsOpen(k.conn)',
         \A m \in wire' : m.kind = "nack" => m \in wire \/ (IsOpen(m.conn) /\ ~IsOpen(m.conn)'),
         \A c \in Conns : IsOpen(c)' => IsOpen(c),
         \A c \in Conns : link'[c] \in {link[c], "off"},
         handler'.retry => handler.retry /\ handler'.conn = handler.conn
  PROVE  OneAtATime'
<1>1. \A c \in Conns : /\ Joining(c)' => Joining(c)
                       /\ Refused(c)' => Refused(c) \/ (IsOpen(c) /\ ~IsOpen(c)')
  BY DEF Joining, Refused
<1>2. ASSUME NEW c \in Conns
      PROVE  /\ Joining(c)' => ~IsOpen(c)' /\ link'[c] # "connected"
             /\ Refused(c)' => ~IsOpen(c)' /\ ~Joining(c)'
             /\ handler'.retry /\ handler'.conn = c
                  => link'[c] = "off" /\ ~IsOpen(c)' /\ ~Joining(c)' /\ ~Refused(c)'
  BY <1>1 DEF OneAtATime
<1>3. \A j, k \in checks' :
         j.kind = "connect" /\ k.kind = "connect" /\ j.conn = k.conn => j = k
  BY DEF OneAtATime
<1> QED
  BY <1>2, <1>3 DEF OneAtATime

\* What the end of a session or of a connection leaves of the checks.
LEMMA UnboundIs ==
  ASSUME Inv, NEW c \in Conns, NEW all \in BOOLEAN, NEW k \in Unbound(c, all)
  PROVE  /\ k.kind = "connect" => k \in checks
         /\ k.kind = "refresh" /\ k.same => k \in checks /\ (all => k.conn # c)
<1>1. PICK j \in checks :
        k = IF j.conn = c /\ (j.kind = "deliver" \/ (all /\ j.kind = "refresh"))
            THEN [j EXCEPT !.same = FALSE] ELSE j
  BY DEF Unbound
<1>2. j \in Checks
  BY DEF Inv, TypeOK, GatewayTypeOK, Checks
<1> QED
  BY <1>1, <1>2 DEF Checks

LEMMA CloseIs ==
  ASSUME Inv, OneAtATime, NEW c \in Conns, NEW K, CloseAfter(c, K)
  PROVE  /\ ~IsOpen(c)' /\ \A d \in Conns : d # c => conn'[d] = conn[d]
         /\ \A k \in checks' : /\ k.kind = "connect" => k \in checks
                               /\ k.kind = "refresh" /\ k.same => IsOpen(k.conn)'
<1>1. /\ conn' = [conn EXCEPT ![c] = Closed] /\ checks' \subseteq Unbound(c, TRUE)
      /\ conn \in [Conns -> Bindings] /\ \A k \in checks : k.conn \in Conns
  BY DEF CloseAfter, Inv, TypeOK, GatewayTypeOK, Bindings
<1>2. ~IsOpen(c)' /\ \A d \in Conns : d # c => conn'[d] = conn[d]
  BY <1>1 DEF IsOpen, Closed
<1>3. ASSUME NEW k \in checks'
      PROVE  /\ k.kind = "connect" => k \in checks
             /\ k.kind = "refresh" /\ k.same => IsOpen(k.conn)'
  BY <1>1, <1>2, UnboundIs DEF OneAtATime, IsOpen
<1> QED
  BY <1>2, <1>3

LEMMA BindIs ==
  ASSUME Inv, OneAtATime, NEW c \in Conns, NEW t \in Tokens, NEW K, Bind(c, t, K)
  PROVE  /\ IsOpen(c)' /\ \A d \in Conns : d # c => conn'[d] = conn[d]
         /\ \A k \in checks' : /\ k.kind = "connect" => k \in checks /\ k \notin K
                               /\ k.kind = "refresh" /\ k.same => IsOpen(k.conn)'
<1>1. /\ conn' = [conn EXCEPT ![c] = [state |-> "open", token |-> t]]
      /\ checks' \subseteq Unbound(c, FALSE) /\ checks' \cap K = {}
      /\ conn \in [Conns -> Bindings] /\ \A k \in checks : k.conn \in Conns
  BY DEF Bind, Inv, TypeOK, GatewayTypeOK, Bindings
<1>2. IsOpen(c)' /\ \A d \in Conns : d # c => conn'[d] = conn[d]
  BY <1>1 DEF IsOpen
<1>3. ASSUME NEW k \in checks'
      PROVE  /\ k.kind = "connect" => k \in checks /\ k \notin K
             /\ k.kind = "refresh" /\ k.same => IsOpen(k.conn)'
  BY <1>1, <1>2, UnboundIs DEF OneAtATime, IsOpen
<1> QED
  BY <1>2, <1>3

\* The end of a check that is no handshake: it closes a connection only if
\* its token is bad, Redis is down, or a refresh is refused.
LEMMA FailedOne ==
  ASSUME Inv, OneAtATime, NEW k \in checks, Failed(k)
  PROVE  /\ \A j \in checks' : /\ j.kind = "connect" => j \in checks
                               /\ j.kind = "refresh" /\ j.same => IsOpen(j.conn)'
         /\ \A m \in wire' :
               m.kind = "nack" => m \in wire \/ (IsOpen(m.conn) /\ ~IsOpen(m.conn)')
         /\ \A c \in Conns : IsOpen(c)' => IsOpen(c)
         /\ \A c \in Conns : IsOpen(c) /\ ~IsOpen(c)' =>
               /\ c = k.conn
               /\ \/ k.kind = "deliver" /\ conn[c].token = k.token
                  \/ \E m \in wire' \ wire : m.kind = "nack" /\ m.conn = c
<1>1. k \in Checks /\ CheckOK(k) /\ k.conn \in Conns /\ k.kind \in {"connect", "refresh", "deliver"}
  BY DEF Inv, TypeOK, GatewayTypeOK, Checks
<1>2. CASE Over(k) /\ wire' = wire
  BY <1>2 DEF Over, OneAtATime, IsOpen
<1>3. CASE k.kind = "deliver" /\ k.same /\ CloseAfter(k.conn, {k}) /\ wire' = wire
  <2>1. IsOpen(k.conn) /\ conn[k.conn].token = k.token
    BY <1>1, <1>3 DEF CheckOK
  <2> QED
    BY <1>1, <1>3, <2>1, CloseIs DEF IsOpen
<1>4. CASE k.kind = "refresh" /\ k.same /\ CloseAfter(k.conn, {k}) /\ wire' = wire \cup {Nack(k)}
  <2>1. IsOpen(k.conn) /\ ~Refused(k.conn)
    BY <1>1, <1>4 DEF OneAtATime
  <2>2. Nack(k).kind = "nack" /\ Nack(k).conn = k.conn
    BY DEF Nack
  <2>3. Nack(k) \in wire' /\ Nack(k) \notin wire
    BY <1>4, <2>1, <2>2 DEF Refused
  <2>4. \A m \in wire' : m \in wire \/ m.conn = k.conn
    BY <1>4, <2>2
  <2>5. /\ ~IsOpen(k.conn)' /\ \A d \in Conns : d # k.conn => conn'[d] = conn[d]
        /\ \A j \in checks' : /\ j.kind = "connect" => j \in checks
                              /\ j.kind = "refresh" /\ j.same => IsOpen(j.conn)'
    BY <1>1, <1>4, CloseIs
  <2> QED
    BY <2>1, <2>2, <2>3, <2>4, <2>5 DEF IsOpen
<1> QED
  BY <1>1, <1>2, <1>3, <1>4 DEF Failed, SameSession

\* The step that GoodStaysOpen allows.
Keeps ==
    \A c \in Conns :
        IsOpen(c) /\ ~IsOpen(c)' /\ Good(conn[c].token)
            => \/ budget' # budget
               \/ link[c] = "off"
               \/ \E m \in wire' \ wire : m.kind = "nack" /\ m.conn = c

\* The client as a step of the server finds it and leaves it, but for links
\* that end.
Aside ==
    /\ UNCHANGED <<tokenVars, handler>>
    /\ \A c \in Conns : link'[c] \in {link[c], "off"}

\* A check of a connection that is open.
LEMMA VerifyingOne ==
  ASSUME Inv, OneAtATime, Aside, NEW k \in checks, k.kind # "connect",
         CheckJti(k) \/ StoreUnavailable(k) \/ CheckUser(k)
  PROVE  OneAtATime' /\ Keeps
<1>1. /\ k \in Checks /\ CheckOK(k) /\ k.conn \in Conns /\ k.kind \in {"refresh", "deliver"}
      /\ k.token \in Tokens
  BY DEF Inv, TypeOK, GatewayTypeOK, Checks
<1>2. ASSUME Failed(k), budget' = budget => ~Good(k.token) \/ k.kind = "refresh"
      PROVE  OneAtATime' /\ Keeps
  <2>1. Keeps
    BY <1>1, <1>2, FailedOne DEF Keeps
  <2>2. OneAtATime'
    BY <1>2, FailedOne, Calm DEF Aside
  <2> QED BY <2>1, <2>2
<1>3. ASSUME /\ \A j \in checks' : j \in checks \/ (j.kind # "connect" /\ ~(j.kind = "refresh" /\ j.same))
             /\ conn' = conn
             /\ \A m \in wire' : m \in wire \/ m.kind = "event"
      PROVE  OneAtATime' /\ Keeps
  <2>1. Keeps
    BY <1>3 DEF Keeps, IsOpen
  <2>2. OneAtATime'
    BY <1>3, Calm DEF Aside, OneAtATime, IsOpen
  <2> QED BY <2>1, <2>2
<1>4. CASE StoreUnavailable(k)
  <2>1. budget' # budget
    BY <1>4 DEF StoreUnavailable, Spend, Inv, TypeOK, GatewayTypeOK, Events
  <2> QED BY <1>2, <1>4, <2>1 DEF StoreUnavailable
<1>5. CASE CheckJti(k)
  <2>1. CASE Unexpired(k.token) /\ k.token \notin revoked
    <3> DEFINE j == [k EXCEPT !.pc = "user"]
    <3>1. j.kind = k.kind /\ j.conn = k.conn /\ j.same = k.same
      BY <1>1 DEF Checks
    <3>2. checks' = (checks \ {k}) \cup {j} /\ UNCHANGED <<conn, wire>>
      BY <1>5, <2>1 DEF CheckJti
    <3> HIDE DEF j
    <3>3. Keeps
      BY <3>2 DEF Keeps, IsOpen
    <3>4. OneAtATime'
      BY <3>1, <3>2, Calm DEF Aside, OneAtATime, IsOpen
    <3> QED BY <3>3, <3>4
  <2>2. CASE ~(Unexpired(k.token) /\ k.token \notin revoked)
    BY <1>2, <1>5, <2>2 DEF CheckJti, Good
  <2> QED BY <2>1, <2>2
<1>6. CASE CheckUser(k)
  <2>1. CASE ~Accepted(k.token)
    BY <1>2, <1>6, <2>1 DEF CheckUser, Accepted, Good
  <2>2. CASE Accepted(k.token) /\ k.kind = "deliver"
    <3>1. Passed(k)
      BY <1>6, <2>2 DEF CheckUser
    <3>2. CASE Over(k) /\ UNCHANGED wire
      BY <1>3, <3>2 DEF Over
    <3>3. CASE Failed(k) /\ ~Unexpired(k.token)
      BY <1>2, <3>3 DEF Good
    <3>4. CASE Over(k) /\ wire' = wire \cup {Packet(k)}
      BY <1>3, <3>4 DEF Over, Packet
    <3> QED BY <2>2, <3>1, <3>2, <3>3, <3>4 DEF Passed
  <2>3. CASE Accepted(k.token) /\ k.kind = "refresh"
    <3>1. Passed(k)
      BY <1>6, <2>3 DEF CheckUser
    <3>2. CASE Over(k) /\ UNCHANGED wire
      BY <1>3, <3>2 DEF Over
    <3>3. CASE Failed(k)
      BY <1>2, <2>3, <3>3
    <3>4. CASE k.same /\ Bind(k.conn, k.token, {k}) /\ UNCHANGED wire
      <4>1. /\ IsOpen(k.conn)' /\ \A d \in Conns : d # k.conn => conn'[d] = conn[d]
            /\ \A j \in checks' : /\ j.kind = "connect" => j \in checks
                                  /\ j.kind = "refresh" /\ j.same => IsOpen(j.conn)'
        BY <1>1, <3>4, BindIs
      <4>2. \A c \in Conns : IsOpen(c)' <=> IsOpen(c)
        BY <1>1, <2>3, <3>4, <4>1 DEF OneAtATime, IsOpen
      <4>3. Keeps
        BY <4>2 DEF Keeps
      <4>4. OneAtATime'
        BY <3>4, <4>1, <4>2, Calm DEF Aside
      <4> QED BY <4>3, <4>4
    <3> QED BY <2>3, <3>1, <3>2, <3>3, <3>4 DEF Passed
  <2> QED BY <1>1, <2>1, <2>2, <2>3
<1> QED BY <1>4, <1>5, <1>6

\* Steps that leave connections and handshakes alone.
LEMMA Leaving ==
  ASSUME OneAtATime, UNCHANGED conn,
         \A k \in checks' : k \in checks \/ k.kind = "deliver"
                              \/ (k.kind = "refresh" /\ IsOpen(k.conn)),
         \A m \in wire' : m \in wire \/ m.kind = "event",
         \A c \in Conns : link'[c] \in {link[c], "off"},
         handler'.retry => handler.retry /\ handler'.conn = handler.conn
  PROVE  OneAtATime' /\ Keeps
<1>1. Keeps
  BY DEF Keeps, IsOpen
<1>2. OneAtATime'
  BY Calm DEF OneAtATime, IsOpen
<1> QED BY <1>1, <1>2

\* A connection is closed by its timer, or since the client closed it.
LEMMA ClosingOne ==
  ASSUME Inv, OneAtATime, NEW c \in Conns, IsOpen(c), CloseAfter(c, {}), UNCHANGED <<wire, link, handler>>,
         ~Good(conn[c].token) \/ link[c] = "off"
  PROVE  OneAtATime' /\ Keeps
<1>1. /\ ~IsOpen(c)' /\ \A d \in Conns : d # c => conn'[d] = conn[d]
      /\ \A k \in checks' : /\ k.kind = "connect" => k \in checks
                            /\ k.kind = "refresh" /\ k.same => IsOpen(k.conn)'
  BY CloseIs
<1>2. Keeps
  BY <1>1 DEF Keeps, IsOpen
<1>3. OneAtATime'
  BY <1>1, Calm DEF IsOpen
<1> QED BY <1>2, <1>3

LEMMA GatewayOne ==
  ASSUME Inv, OneAtATime, GatewayStep, UNCHANGED phoneVars
  PROVE  OneAtATime' /\ Keeps
<1>1. UNCHANGED <<link, handler>> /\ (UNCHANGED tokenVars => Aside)
  BY DEF phoneVars, Aside
<1>2. CASE \/ \E t \in Tokens : Expire(t) \/ RevokeToken(t)
           \/ \E u \in Users : CutUser(u) \/ \E D \in SUBSET Conns : Post(u, D)
           \/ \E m \in relay : Relay(m) \/ LoseRelay(m)
  <2>1. conn' = conn /\ wire' = wire
    BY <1>2 DEF Expire, RevokeToken, CutUser, Post, Relay, LoseRelay
  <2>2. \A k \in checks' : k \in checks \/ k.kind = "deliver"
    BY <1>2 DEF Expire, RevokeToken, CutUser, Post, Relay, LoseRelay, Deliver, Check
  <2> QED BY <1>1, <2>1, <2>2, Leaving
<1>3. ASSUME NEW c \in Conns, Timer(c) PROVE OneAtATime' /\ Keeps
  BY <1>1, <1>3, ClosingOne DEF Timer, TimerDue, Good
<1>4. ASSUME NEW k \in checks, k.kind # "connect",
             CheckJti(k) \/ StoreUnavailable(k) \/ CheckUser(k)
      PROVE  OneAtATime' /\ Keeps
  BY <1>1, <1>4, VerifyingOne DEF CheckJti, StoreUnavailable, CheckUser
<1> QED BY <1>2, <1>3, <1>4 DEF GatewayStep

\* A handshake begins where nothing of another one is left.
LEMMA DiallingOne ==
  ASSUME Inv, OneAtATime, NEW c \in Conns, NEW t, NEW k, k = Check("connect", c, t),
         ~IsOpen(c)', ~Joining(c), ~Refused(c)',
         \A d \in Conns : d # c => conn'[d] = conn[d],
         \A j \in checks' : /\ j.kind = "connect" => j \in checks \/ j = k
                            /\ j.kind = "refresh" /\ j.same => IsOpen(j.conn)',
         wire' \subseteq wire, link' = [link EXCEPT ![c] = "opening"],
         handler'.retry => handler.retry /\ handler'.conn = handler.conn /\ handler.conn # c
  PROVE  OneAtATime'
<1>1. k.kind = "connect" /\ k.conn = c
  BY DEF Check
<1>2. /\ link'[c] = "opening" /\ \A d \in Conns : d # c => link'[d] = link[d]
      /\ \A j \in checks : j.conn \in Conns
  BY DEF Inv, TypeOK, GatewayTypeOK
<1>3. \A j, i \in checks' :
         j.kind = "connect" /\ i.kind = "connect" /\ j.conn = i.conn => j = i
  BY <1>1 DEF OneAtATime, Joining
<1>4. ASSUME NEW d \in Conns
      PROVE  /\ Joining(d)' => ~IsOpen(d)' /\ link'[d] # "connected"
             /\ Refused(d)' => ~IsOpen(d)' /\ ~Joining(d)'
             /\ handler'.retry /\ handler'.conn = d
                  => link'[d] = "off" /\ ~IsOpen(d)' /\ ~Joining(d)' /\ ~Refused(d)'
  <2>1. CASE d = c
    BY <1>2, <2>1
  <2>2. CASE d # c
    <3>1. /\ Joining(d)' => Joining(d)
          /\ Refused(d)' => Refused(d)
          /\ IsOpen(d)' <=> IsOpen(d)
      BY <1>1, <2>2 DEF Joining, Refused, IsOpen
    <3> QED BY <1>2, <2>2, <3>1 DEF OneAtATime
  <2> QED BY <2>1, <2>2
<1> QED BY <1>3, <1>4 DEF OneAtATime

\* Sessions and renewals, and effects that dial nothing.
LEMMA SessionOne ==
  ASSUME Inv, OneAtATime,
         (\E u \in Users : SignIn(u)) \/ SignOut \/ Renew
  PROVE  OneAtATime' /\ Keeps
<1>1. UNCHANGED <<conn, checks, wire>>
  BY DEF SignIn, SignOut, Renew
<1>2. link' = link \/ Disconnect(link)
  BY DEF SignIn, SignOut, Renew, ChangeSession
<1>3. \A c \in Conns : link'[c] \in {link[c], "off"}
  BY <1>2 DEF Disconnect
<1>4. handler' = handler \/ handler' = [handler EXCEPT !.same = FALSE]
  BY DEF SignIn, SignOut, Renew, ChangeSession
<1>5. handler'.retry = handler.retry /\ handler'.conn = handler.conn
  BY <1>4 DEF Inv, TypeOK
<1> QED BY <1>1, <1>3, <1>5, Leaving

LEMMA EffectOne ==
  ASSUME Inv, OneAtATime, Effect
  PROVE  OneAtATime' /\ Keeps
<1>1. conn' = conn /\ wire' = wire
  BY DEF Effect
<1>2. CASE session.user = NoUser
  <2>1. checks' = checks /\ handler' = NoHandler /\ \A c \in Conns : link'[c] \in {link[c], "off"}
    BY <1>2 DEF Effect, Disconnect
  <2> QED BY <1>1, <2>1, Leaving DEF NoHandler
<1>3. CASE session.user # NoUser /\ socket # NoConn /\ link[socket] = "connected"
  <2>1. checks' = checks /\ link' = link /\ ~handler'.retry
    BY <1>3 DEF Effect
  <2> QED BY <1>1, <2>1, Leaving
<1>4. CASE session.user # NoUser /\ ~(socket # NoConn /\ link[socket] = "connected")
  <2>1. PICK c \in Conns : Unheld(c) /\ Dial(c, session.token, link) /\ ~handler'.retry
    BY <1>4 DEF Effect
  <2> DEFINE k == Check("connect", c, session.token)
  <2>2. checks' = checks \cup {k} /\ link' = [link EXCEPT ![c] = "opening"]
    BY <2>1 DEF Dial
  <2>3. ~IsOpen(c)' /\ ~Joining(c) /\ ~Refused(c)'
    BY <1>1, <2>1 DEF Unheld, Joining, Refused, IsOpen
  <2>4. k.kind = "connect"
    BY DEF Check
  <2>5. \A j \in checks' : /\ j.kind = "connect" => j \in checks \/ j = k
                           /\ j.kind = "refresh" /\ j.same => IsOpen(j.conn)'
    BY <1>1, <2>2, <2>4 DEF OneAtATime, IsOpen
  <2>6. OneAtATime'
    BY <1>1, <2>1, <2>2, <2>3, <2>5, DiallingOne
  <2>7. Keeps
    BY <1>1 DEF Keeps, IsOpen
  <2> QED BY <2>6, <2>7
<1> QED BY <1>2, <1>3, <1>4

LEMMA ReconnectOne ==
  ASSUME Inv, OneAtATime, Reconnect
  PROVE  OneAtATime' /\ Keeps
<1>1. conn' = conn /\ wire' = wire /\ handler.retry
  BY DEF Reconnect
<1>2. ~handler'.retry
  BY DEF Reconnect, Inv, TypeOK
<1>3. CASE UNCHANGED <<link, checks>>
  BY <1>1, <1>2, <1>3, Leaving
<1>4. CASE handler.same /\ Dial(handler.conn, session.token, link)
  <2>1. PICK c \in Conns : c = handler.conn
    BY <1>4 DEF Inv, TypeOK, PhoneOK
  <2> DEFINE k == Check("connect", c, session.token)
  <2>2. checks' = checks \cup {k} /\ link' = [link EXCEPT ![c] = "opening"]
    BY <1>4, <2>1 DEF Dial
  <2>3. ~IsOpen(c)' /\ ~Joining(c) /\ ~Refused(c)'
    BY <1>1, <2>1 DEF OneAtATime, Refused, IsOpen
  <2>4. k.kind = "connect"
    BY DEF Check
  <2>5. \A j \in checks' : /\ j.kind = "connect" => j \in checks \/ j = k
                           /\ j.kind = "refresh" /\ j.same => IsOpen(j.conn)'
    BY <1>1, <2>2, <2>4 DEF OneAtATime, IsOpen
  <2>6. OneAtATime'
    BY <1>1, <1>2, <2>2, <2>3, <2>5, DiallingOne
  <2>7. Keeps
    BY <1>1 DEF Keeps, IsOpen
  <2> QED BY <2>6, <2>7
<1> QED BY <1>3, <1>4 DEF Reconnect

LEMMA NotAnsweredOne ==
  ASSUME Inv, OneAtATime, NotAnswered
  PROVE  OneAtATime' /\ Keeps
<1>1. UNCHANGED <<conn, wire, checks, link>> /\ ~handler'.retry
  BY DEF NotAnswered, Inv, TypeOK
<1> QED
  BY <1>1, Leaving

LEMMA DropOne ==
  ASSUME Inv, OneAtATime, NEW c \in Conns, Drop(c)
  PROVE  OneAtATime' /\ Keeps
<1> DEFINE k == Check("connect", c, auth[c])
<1>1. /\ conn' = [conn EXCEPT ![c] = Closed] /\ link' = [link EXCEPT ![c] = "opening"]
      /\ checks' = Unbound(c, TRUE) \cup {k} /\ wire' = {m \in wire : m.conn # c}
      /\ handler' = handler /\ IsOpen(c) /\ budget' # budget
      /\ conn \in [Conns -> Bindings] /\ \A j \in checks : j.conn \in Conns
  BY DEF Drop, Spend, Events, Inv, TypeOK, GatewayTypeOK, Bindings
<1>2. ~IsOpen(c)' /\ \A d \in Conns : d # c => conn'[d] = conn[d]
  BY <1>1 DEF IsOpen, Closed
<1>3. ~Joining(c) /\ ~Refused(c)' /\ (handler.retry => handler.conn # c)
  BY <1>1 DEF OneAtATime, Refused
<1>4. k.kind = "connect"
  BY DEF Check
<1>5. ASSUME NEW j \in checks'
      PROVE  /\ j.kind = "connect" => j \in checks \/ j = k
             /\ j.kind = "refresh" /\ j.same => IsOpen(j.conn)'
  <2>1. CASE j = k
    BY <1>4, <2>1
  <2>2. CASE j \in Unbound(c, TRUE)
    BY <1>2, <2>2, <1>1, UnboundIs DEF OneAtATime, IsOpen
  <2> QED BY <1>1, <2>1, <2>2
<1>6. OneAtATime'
  BY <1>1, <1>2, <1>3, <1>5, DiallingOne
<1>7. Keeps
  BY <1>1 DEF Keeps
<1> QED BY <1>6, <1>7

\* A handshake fails, goes on to its second check, or opens the connection.
LEMMA HandshakeOne ==
  ASSUME Inv, OneAtATime, NEW k \in checks, Handshake(k)
  PROVE  OneAtATime' /\ Keeps
<1> DEFINE c == k.conn
           j == [k EXCEPT !.pc = "user"]
<1>1. /\ k \in Checks /\ c \in Conns /\ k.kind = "connect" /\ k.token \in Tokens
      /\ handler' = handler /\ Joining(c)
  BY DEF Handshake, Inv, TypeOK, GatewayTypeOK, Checks, Joining
<1>2. ~IsOpen(c) /\ link[c] # "connected" /\ ~Refused(c) /\ (handler.retry => handler.conn # c)
  BY <1>1 DEF OneAtATime
<1>3. j.kind = "connect" /\ j.conn = c
  BY <1>1 DEF Checks
<1>4. /\ \A d \in Conns : d # c => link'[d] = link[d]
      /\ link'[c] = "connected" => ~Joining(c)'
  <2>1. \/ link' = link
        \/ /\ ~Joining(c)'
           /\ link' = [link EXCEPT ![c] = IF conn'[c].state = "open" THEN "connected" ELSE "off"]
    BY DEF Handshake, Joining
  <2> QED BY <1>1, <1>2, <2>1 DEF Inv, TypeOK
<1> HIDE DEF c, j
<1>5. ASSUME wire' = wire,
             \A d \in Conns : d # c => conn'[d] = conn[d],
             \A i \in checks' : /\ i.kind = "connect" => i \in checks \ {k} \/ i = j
                                /\ i.kind = "refresh" /\ i.same => IsOpen(i.conn)',
             j \in checks' => ~IsOpen(c)'
      PROVE  OneAtATime' /\ Keeps
  <2>1. \A i \in checks : i.kind = "connect" /\ i.conn = c => i = k
    BY <1>1 DEF OneAtATime, c
  <2>2. \A i \in checks' : i.kind = "connect" /\ i.conn = c => i = j
    BY <1>5, <2>1
  <2>3. \A h, i \in checks' :
           h.kind = "connect" /\ i.kind = "connect" /\ h.conn = i.conn => h = i
    BY <1>3, <1>5, <2>2 DEF OneAtATime
  <2>4. ASSUME NEW d \in Conns
        PROVE  /\ Joining(d)' => ~IsOpen(d)' /\ link'[d] # "connected"
               /\ Refused(d)' => ~IsOpen(d)' /\ ~Joining(d)'
               /\ handler'.retry /\ handler'.conn = d
                    => link'[d] = "off" /\ ~IsOpen(d)' /\ ~Joining(d)' /\ ~Refused(d)'
    <3>1. Refused(d)' <=> Refused(d)
      BY <1>5 DEF Refused
    <3>2. CASE d = c
      BY <1>1, <1>2, <1>4, <1>5, <2>2, <3>1, <3>2 DEF Joining
    <3>3. CASE d # c
      <4>1. /\ Joining(d)' => Joining(d)
            /\ IsOpen(d)' <=> IsOpen(d)
        BY <1>3, <1>5, <3>3 DEF Joining, IsOpen
      <4> QED BY <1>1, <1>4, <3>1, <3>3, <4>1 DEF OneAtATime
    <3> QED BY <3>2, <3>3
  <2>5. OneAtATime'
    BY <1>5, <2>3, <2>4 DEF OneAtATime
  <2>6. Keeps
    BY <1>2, <1>5 DEF Keeps, IsOpen
  <2> QED BY <2>5, <2>6
<1>6. CASE Failed(k)
  <2>1. checks' = checks \ {k} /\ conn' = conn /\ wire' = wire
    BY <1>1, <1>6 DEF Failed, Over
  <2> QED BY <1>2, <1>5, <2>1 DEF OneAtATime, IsOpen
<1>7. CASE Passed(k)
  <2>1. Bind(c, k.token, {k}) /\ wire' = wire
    BY <1>1, <1>7 DEF Passed, c
  <2>2. /\ IsOpen(c)' /\ \A d \in Conns : d # c => conn'[d] = conn[d]
        /\ \A i \in checks' : /\ i.kind = "connect" => i \in checks /\ i \notin {k}
                              /\ i.kind = "refresh" /\ i.same => IsOpen(i.conn)'
    BY <1>1, <2>1, BindIs
  <2>3. j \notin checks'
    BY <1>1, <1>3, <2>2 DEF OneAtATime, c
  <2> QED BY <1>5, <2>1, <2>2, <2>3
<1>8. CASE checks' = (checks \ {k}) \cup {j} /\ UNCHANGED <<conn, wire>>
  BY <1>2, <1>3, <1>5, <1>8 DEF OneAtATime, IsOpen
<1> QED
  BY <1>6, <1>7, <1>8 DEF Handshake, CheckJti, StoreUnavailable, CheckUser, j

\* What arrives at either end.
LEMMA ArrivalsOne ==
  ASSUME Inv, OneAtATime,
         \/ \E c \in Conns : Disconnected(c)
         \/ \E m \in uplink : RefreshArrives(m)
         \/ \E m \in wire : Receive(m) \/ ReceiveNack(m)
  PROVE  OneAtATime' /\ Keeps
<1>1. conn' = conn /\ wire' \subseteq wire
  BY DEF Disconnected, RefreshArrives, Receive, ReceiveNack
<1>2. link \in [Conns -> {"off", "opening", "connected"}]
  BY DEF Inv, TypeOK
<1>3. ASSUME NEW c \in Conns, Disconnected(c) PROVE OneAtATime' /\ Keeps
  <2>1. /\ link[c] = "connected" /\ ~IsOpen(c) /\ link' = [link EXCEPT ![c] = "off"]
        /\ checks' = checks /\ wire' = {m \in wire : m.conn # c}
        /\ handler' = handler \/ (handler.conn = c /\ handler' = [handler EXCEPT !.retry = TRUE])
    BY <1>3 DEF Disconnected
  <2>2. ~Joining(c) /\ ~Refused(c)' /\ link'[c] = "off" /\ handler'.conn = handler.conn
    BY <1>2, <2>1 DEF OneAtATime, Refused, Inv, TypeOK
  <2>3. ASSUME NEW d \in Conns
        PROVE  /\ Joining(d)' => ~IsOpen(d)' /\ link'[d] # "connected"
               /\ Refused(d)' => ~IsOpen(d)' /\ ~Joining(d)'
               /\ handler'.retry /\ handler'.conn = d
                    => link'[d] = "off" /\ ~IsOpen(d)' /\ ~Joining(d)' /\ ~Refused(d)'
    <3>1. /\ Joining(d)' <=> Joining(d)
          /\ Refused(d)' => Refused(d)
          /\ IsOpen(d)' <=> IsOpen(d)
          /\ link'[d] \in {link[d], "off"}
      BY <1>1, <1>2, <2>1 DEF Joining, Refused, IsOpen
    <3>2. CASE d = c
      BY <2>1, <2>2, <3>1, <3>2
    <3>3. CASE d # c
      BY <2>1, <2>2, <3>1, <3>3 DEF OneAtATime
    <3> QED BY <3>2, <3>3
  <2>4. OneAtATime'
    BY <1>1, <2>1, <2>3 DEF OneAtATime, IsOpen
  <2>5. Keeps
    BY <1>1 DEF Keeps, IsOpen
  <2> QED BY <2>4, <2>5
<1>4. ASSUME NEW m \in uplink, RefreshArrives(m) PROVE OneAtATime' /\ Keeps
  <2>1. \A k \in checks' : k \in checks \/ (k.kind = "refresh" /\ IsOpen(k.conn))
    BY <1>4 DEF RefreshArrives, Check
  <2> QED BY <1>1, <1>4, <2>1, Leaving DEF RefreshArrives
<1>5. ASSUME NEW m \in wire, Receive(m) \/ ReceiveNack(m) PROVE OneAtATime' /\ Keeps
  <2>1. checks' = checks /\ handler' = handler /\ \A c \in Conns : link'[c] \in {link[c], "off"}
    BY <1>2, <1>5 DEF Receive, ReceiveNack
  <2> QED BY <1>1, <2>1, Leaving
<1> QED BY <1>3, <1>4, <1>5

LEMMA NextOne ==
  ASSUME Inv, OneAtATime, Next
  PROVE  OneAtATime' /\ Keeps
<1>1. ASSUME NEW c \in Conns, HangUp(c) PROVE OneAtATime' /\ Keeps
  BY <1>1, ClosingOne DEF HangUp
<1> QED
  BY <1>1, GatewayOne, SessionOne, EffectOne, ReconnectOne, NotAnsweredOne, HandshakeOne, DropOne, ArrivalsOne
     DEF Next

\* However checks of one connection overlap with renewals of its session,
\* none that was begun for an earlier binding, and no timer of one, closes a
\* connection whose token is good.
THEOREM GoodStays == Spec => GoodStaysOpen
<1>1. Init => OneAtATime
  BY DEF Init, GatewayInit, OneAtATime, Joining, Refused, NoHandler
<1>2. Inv /\ OneAtATime /\ [Next]_vars => OneAtATime'
  <2> SUFFICES ASSUME Inv, OneAtATime, UNCHANGED vars PROVE OneAtATime'
    BY NextOne
  <2>1. UNCHANGED <<conn, checks, wire, link, handler>>
    BY DEF vars, gatewayVars, phoneVars
  <2> QED BY <2>1, Leaving
<1>3. Inv /\ OneAtATime /\ [Next]_vars
        => [\A c \in Conns :
              IsOpen(c) /\ ~IsOpen(c)' /\ Good(conn[c].token)
                  => \/ budget' # budget
                     \/ link[c] = "off"
                     \/ \E m \in wire' \ wire : m.kind = "nack" /\ m.conn = c]_vars
  BY NextOne DEF Keeps
<1> QED
  BY <1>1, <1>2, <1>3, Invariance, PTL DEF Spec, GoodStaysOpen
=============================================================================
