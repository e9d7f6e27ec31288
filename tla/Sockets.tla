------------------------------ MODULE Sockets ------------------------------
(***************************************************************************)
(* The phone at the other end of the gateway: its session, the one socket  *)
(* that socket.service keeps, and the handlers that useSocket attaches     *)
(* when React runs its effect, some time after the session changed.        *)
(***************************************************************************)
EXTENDS Gateway

CONSTANT NoConn

ASSUME ConnAssumption == NoConn \notin Conns

VARIABLES
    session,        \* user and access token of the store
    shown,          \* users whose notifications are in the list
    socket,         \* socket.service: the current socket
    link,           \* the phone's view of each socket
    auth,           \* token each socket sends when it connects
    uplink,         \* auth:refresh on the way to the server
    handler,        \* socket useSocket listens to, whether for the session of
                    \* the store, and whether it is about to reconnect
    stale           \* the effect of useSocket has not run for the session yet

phoneVars == <<session, shown, socket, link, auth, uplink, handler, stale>>
vars == <<gatewayVars, phoneVars>>

Sessions == [user : Users \cup {NoUser}, token : Tokens \cup {NoToken}]
SignedOut == [user |-> NoUser, token |-> NoToken]
NoHandler == [conn |-> NoConn, same |-> FALSE, retry |-> FALSE]

TypeOK ==
    /\ GatewayTypeOK
    /\ session \in Sessions
    /\ shown \subseteq Users
    /\ socket \in Conns \cup {NoConn}
    /\ link \in [Conns -> {"off", "opening", "connected"}]
    /\ auth \in [Conns -> Tokens \cup {NoToken}]
    /\ uplink \subseteq [conn : Conns, token : Tokens]
    /\ handler \in [conn : Conns \cup {NoConn}, same : BOOLEAN, retry : BOOLEAN]
    /\ stale \in BOOLEAN

Init ==
    /\ GatewayInit
    /\ session = SignedOut /\ shown = {}
    /\ socket = NoConn
    /\ link = [c \in Conns |-> "off"]
    /\ auth = [c \in Conns |-> NoToken]
    /\ uplink = {}
    /\ handler = NoHandler
    /\ stale = FALSE

-----------------------------------------------------------------------------
(* The session *)

Unused == {t \in Tokens : token[t].life = "unused"}

\* A session of user u with the next token.
Minted(s, u) ==
    /\ s.user = u /\ s.token \in Unused
    /\ \A t \in Unused : s.token <= t

Issue(s) == token' = [token EXCEPT ![s.token] = [user |-> s.user, life |-> "live"]]

\* disconnectSocket
Disconnect(links) ==
    /\ link' = [c \in Conns |-> IF c = socket THEN "off" ELSE links[c]]
    /\ socket' = NoConn

\* (mutant) setSession without clearPrivateState.
ChangeSessionOnly(s) ==
    /\ session' = s
    /\ handler' = [handler EXCEPT !.same = FALSE]
    /\ stale' = TRUE
    /\ UNCHANGED <<shown, socket, link, auth, uplink>>

\* setSession, logout and clearSession: clearPrivateState, then the new session.
ChangeSession(s) ==
    /\ Disconnect(link)
    /\ shown' = {}
    /\ session' = s
    /\ handler' = [handler EXCEPT !.same = FALSE]
    /\ stale' = TRUE
    /\ UNCHANGED <<auth, uplink>>

SignIn(u) ==
    /\ Spend("signin")
    /\ session.user = NoUser
    /\ \E s \in Sessions : Minted(s, u) /\ Issue(s) /\ ChangeSession(s)
    /\ UNCHANGED <<revoked, cut, conn, checks, relay, wire>>

SignOut ==
    /\ Spend("signout")
    /\ session.user # NoUser
    /\ ChangeSession(SignedOut)
    /\ UNCHANGED <<tokenVars, conn, checks, relay, wire>>

\* setTokens and updateSocketToken, after a refresh of the session.
Renew ==
    /\ Spend("renew")
    /\ session.user # NoUser
    /\ \E s \in Sessions :
        /\ Minted(s, session.user)
        /\ Issue(s)
        /\ session' = s
        /\ auth' = [c \in Conns |-> IF c = socket THEN s.token ELSE auth[c]]
        /\ uplink' = IF socket # NoConn /\ link[socket] = "connected"
                     THEN uplink \cup {[conn |-> socket, token |-> s.token]} ELSE uplink
    /\ stale' = TRUE
    /\ UNCHANGED <<revoked, cut, conn, checks, relay, wire, shown, socket, link, handler>>

-----------------------------------------------------------------------------
(* useSocket *)

\* A socket object nobody refers to any more.
Unheld(c) ==
    /\ link[c] = "off" /\ ~IsOpen(c) /\ c \notin {socket, handler.conn}
    /\ \A k \in checks : k.conn # c
    /\ \A m \in wire \cup uplink : m.conn # c

\* The handshake of socket c with token t.
Dial(c, t, links) ==
    /\ link' = [links EXCEPT ![c] = "opening"]
    /\ auth' = [auth EXCEPT ![c] = t]
    /\ checks' = checks \cup {Check("connect", c, t)}

\* (mutant) connectSocket keeps the socket it has, connected or not.
EffectKeepsSocket ==
    /\ stale
    /\ stale' = FALSE
    /\ IF session.user = NoUser
       THEN /\ Disconnect(link)
            /\ handler' = NoHandler
            /\ UNCHANGED <<auth, checks>>
       ELSE IF socket # NoConn
       THEN /\ handler' = [conn |-> socket, same |-> TRUE, retry |-> FALSE]
            /\ UNCHANGED <<socket, link, auth, checks>>
       ELSE \E c \in Conns :
            /\ Unheld(c)
            /\ socket' = c
            /\ handler' = [conn |-> c, same |-> TRUE, retry |-> FALSE]
            /\ Dial(c, session.token, link)
    /\ UNCHANGED <<tokenVars, conn, relay, wire, budget, session, shown, uplink>>

\* Clean-up of the last effect, then this one: connectSocket keeps a socket
\* that is connected and otherwise makes another.
Effect ==
    /\ stale
    /\ stale' = FALSE
    /\ IF session.user = NoUser
       THEN /\ Disconnect(link)
            /\ handler' = NoHandler
            /\ UNCHANGED <<auth, checks>>
       ELSE IF socket # NoConn /\ link[socket] = "connected"
       THEN /\ handler' = [conn |-> socket, same |-> TRUE, retry |-> FALSE]
            /\ UNCHANGED <<socket, link, auth, checks>>
       ELSE \E c \in Conns :
            /\ Unheld(c)
            /\ socket' = c
            /\ handler' = [conn |-> c, same |-> TRUE, retry |-> FALSE]
            /\ Dial(c, session.token, link)
    /\ UNCHANGED <<tokenVars, conn, relay, wire, budget, session, shown, uplink>>

\* io.use and 'connection', with the answer to the client.
Handshake(k) ==
    /\ k.kind = "connect"
    /\ CheckJti(k) \/ StoreUnavailable(k) \/ CheckUser(k)
    /\ link' = IF link[k.conn] # "opening" \/ k.conn \in {j.conn : j \in {i \in checks' : i.kind = "connect"}}
               THEN link
               ELSE [link EXCEPT ![k.conn] = IF conn'[k.conn].state = "open" THEN "connected"
                                                                              ELSE "off"]
    /\ UNCHANGED <<session, shown, socket, auth, uplink, handler, stale>>

\* What is left of the uplink when the connection of c is over.
Sent(c) == {m \in uplink : m.conn # c}

\* The server sees that the client closed its socket.
HangUp(c) ==
    /\ IsOpen(c) /\ link[c] = "off"
    /\ CloseAfter(c, {})
    /\ uplink' = Sent(c)
    /\ UNCHANGED <<tokenVars, relay, wire, budget, session, shown, socket, link, auth, handler,
                   stale>>

\* The client sees that the server closed its socket; what was under way to
\* it is lost.  Handlers that are still attached ask for the session first.
Disconnected(c) ==
    /\ link[c] = "connected" /\ ~IsOpen(c)
    /\ link' = [link EXCEPT ![c] = "off"]
    /\ wire' = {m \in wire : m.conn # c}
    /\ uplink' = Sent(c)
    /\ handler' = IF handler.conn = c THEN [handler EXCEPT !.retry = TRUE] ELSE handler
    /\ UNCHANGED <<tokenVars, conn, checks, relay, budget, session, shown, socket, auth, stale>>

\* /auth/me was answered.
Reconnect ==
    LET c == handler.conn
    IN  /\ handler.retry /\ link[c] = "off"
        /\ handler' = [handler EXCEPT !.retry = FALSE]
        /\ IF handler.same /\ session.token # NoToken
           THEN Dial(c, session.token, link)
           ELSE UNCHANGED <<link, auth, checks>>
        /\ UNCHANGED <<tokenVars, conn, relay, wire, budget, session, shown, socket, uplink,
                       stale>>

\* /auth/me fails, as it does while Redis is away: the handler gives up.
NotAnswered ==
    /\ Spend("outage")
    /\ handler.retry
    /\ handler' = [handler EXCEPT !.retry = FALSE]
    /\ UNCHANGED <<tokenVars, conn, checks, relay, wire, session, shown, socket, link, auth,
                   uplink, stale>>

\* The network drops the connection; the client library dials again by itself.
Drop(c) ==
    /\ Spend("drop")
    /\ link[c] = "connected" /\ IsOpen(c)
    /\ conn' = [conn EXCEPT ![c] = Closed]
    /\ link' = [link EXCEPT ![c] = "opening"]
    /\ checks' = Unbound(c, TRUE) \cup {Check("connect", c, auth[c])}
    /\ wire' = {m \in wire : m.conn # c}
    /\ uplink' = Sent(c)
    /\ UNCHANGED <<tokenVars, relay, session, shown, socket, auth, handler, stale>>

RefreshArrives(m) ==
    /\ m \in uplink
    /\ uplink' = uplink \ {m}
    /\ checks' = IF IsOpen(m.conn)
                 THEN checks \cup {Check("refresh", m.conn, m.token)}
                 ELSE checks
    /\ UNCHANGED <<tokenVars, conn, relay, wire, budget, session, shown, socket, link, auth,
                   handler, stale>>

-----------------------------------------------------------------------------
(* What arrives *)

\* !disposed and the session version the effect started with.
Listening(c) == handler.conn = c /\ handler.same

Receive(m) ==
    /\ m \in wire /\ m.kind = "event"
    /\ wire' = wire \ {m}
    /\ shown' = IF link[m.conn] = "connected" /\ Listening(m.conn)
                THEN shown \cup {m.user} ELSE shown
    /\ UNCHANGED <<tokenVars, conn, checks, relay, budget, session, socket, link, auth,
                   uplink, handler, stale>>

\* The acknowledgement of a refused refresh closes the socket of the moment.
ReceiveNack(m) ==
    /\ m \in wire /\ m.kind = "nack"
    /\ wire' = wire \ {m}
    /\ link' = IF link[m.conn] = "connected" /\ socket # NoConn
               THEN [link EXCEPT ![socket] = "off"] ELSE link
    /\ UNCHANGED <<tokenVars, conn, checks, relay, budget, session, shown, socket, auth,
                   uplink, handler, stale>>

-----------------------------------------------------------------------------

Next ==
    \/ GatewayStep /\ UNCHANGED phoneVars
    \/ \E u \in Users : SignIn(u)
    \/ SignOut \/ Renew \/ Effect \/ Reconnect \/ NotAnswered
    \/ \E k \in checks : Handshake(k)
    \/ \E c \in Conns : HangUp(c) \/ Disconnected(c) \/ Drop(c)
    \/ \E m \in uplink : RefreshArrives(m)
    \/ \E m \in wire : Receive(m) \/ ReceiveNack(m)

Spec == Init /\ [][Next]_vars

\* React runs its effects, /auth/me and the checks of a handshake are answered,
\* and the phone hears that a socket was closed.
FairSpec ==
    /\ Spec
    /\ WF_vars(Effect) /\ WF_vars(Reconnect)
    /\ WF_vars(\E c \in Conns : Disconnected(c))
    /\ WF_vars(\E k \in checks : Handshake(k))

-----------------------------------------------------------------------------
(* Properties *)

\* What is sent to a connection is for its user, over a token that was good
\* when the check began, however the token ended while the checks ran.
SentToEntitled ==
    \A m \in wire : m.kind = "event" => m.good /\ (IsOpen(m.conn) => m.user = UserOf(m.conn))

\* The list holds notifications of the account that is signed in.
ShownToOwner == shown \subseteq {session.user}

\* A check or a timer of an earlier binding never closes a connection whose
\* token is good; only Redis, a refused refresh, the network or the client do.
GoodStaysOpen ==
    [][\A c \in Conns :
        IsOpen(c) /\ ~IsOpen(c)' /\ Good(conn[c].token)
            => \/ budget' # budget
               \/ link[c] = "off"
               \/ \E m \in wire' \ wire : m.kind = "nack" /\ m.conn = c]_vars

Online == socket # NoConn /\ link[socket] = "connected" /\ IsOpen(socket)

\* The server has closed the socket of the moment, and the phone is to hear of it.
CutOff ==
    /\ socket # NoConn /\ handler.conn = socket
    /\ link[socket] = "connected" /\ ~IsOpen(socket)

\* A phone whose socket the server closes, because the timer of an older token
\* fired or a delivery failed its check, is connected again as long as its
\* session is good, whatever renewals, effects and checks come in between;
\* unless Redis or /auth/me fails, the session ends or a renewal is refused.
ComesBack ==
    \A u \in Users :
        CutOff /\ session.user = u /\ Good(session.token) /\ budget["outage"] = 0
            ~> \/ Online
               \/ session.user # u \/ ~Good(session.token)
               \/ \E m \in wire : m.kind = "nack"
=============================================================================
