------------------------------ MODULE Gateway ------------------------------
(***************************************************************************)
(* The socket server: connections bound to access tokens, the checks that  *)
(* a handshake, a refresh and every delivery run against Redis and the     *)
(* database before they take effect, and the expiry timer of a binding.    *)
(* Checks of one connection overlap in any order.                          *)
(***************************************************************************)
EXTENDS Naturals, FiniteSets

CONSTANTS
    Users,
    NoUser,
    Tokens,         \* access tokens: 1 .. n
    NoToken,        \* 0
    Conns,          \* client sockets; each may be connected several times
    Budgets         \* bound: how often each event happens, by scenario

ASSUME UserAssumption == NoUser \notin Users
ASSUME TokenAssumption == Tokens \subseteq Nat \ {0} /\ NoToken = 0

Events == {"signin", "signout", "renew", "drop", "post", "lose", "revoke", "cut",
           "outage", "expiry"}
ASSUME BudgetAssumption == Budgets \subseteq [Events -> Nat]

VARIABLES
    token,          \* user and lifetime of the tokens issued
    revoked,        \* tokens whose jti is revoked
    cut,            \* tokens the account no longer accepts
    conn,           \* connections of the server
    checks,         \* verifySocketTokenUser in progress, and for what
    relay,          \* events on the way to the other server processes
    wire,           \* packets on the way to a client
    budget          \* events left in the scenario

tokenVars == <<token, revoked, cut>>
gatewayVars == <<tokenVars, conn, checks, relay, wire, budget>>

\* (mutant) disconnect() without closing what is underneath.
HalfClosed == [state |-> "closing", token |-> NoToken]

\* No connection: socketSessions has no entry for it.
Closed == [state |-> "off", token |-> NoToken]

GatewayTypeOK ==
    /\ token \in [Tokens -> [user : Users \cup {NoUser}, life : {"unused", "live", "expired"}]]
    /\ revoked \subseteq Tokens /\ cut \subseteq Tokens
    /\ conn \in [Conns -> [state : {"off", "open"}, token : Tokens \cup {NoToken}]]
    /\ checks \subseteq [kind : {"connect", "refresh", "deliver"}, conn : Conns,
                         token : Tokens, pc : {"jti", "user"}, same : BOOLEAN,
                         good : BOOLEAN]
    /\ relay \subseteq [user : Users, but : SUBSET Conns]
    /\ wire \subseteq [kind : {"event", "nack"}, conn : Conns, user : Users, good : BOOLEAN]
    /\ budget \in [Events -> Nat]

GatewayInit ==
    /\ token = [t \in Tokens |-> [user |-> NoUser, life |-> "unused"]]
    /\ revoked = {} /\ cut = {}
    /\ conn = [c \in Conns |-> [state |-> "off", token |-> NoToken]]
    /\ checks = {} /\ relay = {} /\ wire = {}
    /\ budget \in Budgets

Spend(what) ==
    /\ budget[what] > 0
    /\ budget' = [budget EXCEPT ![what] = budget[what] - 1]

Unexpired(t) == token[t].life = "live"
Good(t) == Unexpired(t) /\ t \notin revoked \cup cut
IsOpen(c) == conn[c].state = "open"
UserOf(c) == token[conn[c].token].user

-----------------------------------------------------------------------------
(* The end of a token *)

Expire(t) ==
    /\ Spend("expiry")
    /\ Unexpired(t)
    /\ token' = [token EXCEPT ![t].life = "expired"]
    /\ UNCHANGED <<revoked, cut, conn, checks, relay, wire>>

RevokeToken(t) ==
    /\ Spend("revoke")
    /\ Unexpired(t)
    /\ revoked' = revoked \cup {t}
    /\ UNCHANGED <<token, cut, conn, checks, relay, wire>>

\* The password is changed, or the account is disabled or deleted.
CutUser(u) ==
    /\ Spend("cut")
    /\ cut' = cut \cup {t \in Tokens : token[t].user = u}
    /\ UNCHANGED <<token, revoked, conn, checks, relay, wire>>

-----------------------------------------------------------------------------
(* Connections *)

\* A check of token t; good records whether t was good when it began.
Check(kind, c, t) ==
    [kind |-> kind, conn |-> c, token |-> t, pc |-> "jti", same |-> TRUE, good |-> Good(t)]

\* The checks left once the session, or the whole connection, of c is gone.
Unbound(c, all) ==
    {IF k.conn = c /\ (k.kind = "deliver" \/ (all /\ k.kind = "refresh"))
     THEN [k EXCEPT !.same = FALSE] ELSE k : k \in checks}

\* socket.disconnect(true) after check set K is over.
CloseAfter(c, K) ==
    /\ conn' = [conn EXCEPT ![c] = Closed]
    /\ checks' = Unbound(c, TRUE) \ {[k EXCEPT !.same = FALSE] : k \in K}

\* bindSocketSession
Bind(c, t, K) ==
    /\ conn' = [conn EXCEPT ![c] = [state |-> "open", token |-> t]]
    /\ checks' = Unbound(c, FALSE) \ K

\* (mutant) The timer of an earlier binding is not cleared.
AnyTimer(c) == \E t \in Tokens : /\ token[t].user = UserOf(c)
                                 /\ token[t].life = "expired"

\* The timer of the binding: one timer, for the token bound last.
TimerDue(c) == ~Unexpired(conn[c].token)

Timer(c) ==
    /\ IsOpen(c) /\ TimerDue(c)
    /\ CloseAfter(c, {})
    /\ UNCHANGED <<tokenVars, relay, wire, budget>>

-----------------------------------------------------------------------------
(* Deliveries *)

ConnsOf(u) == {c \in Conns : IsOpen(c) /\ UserOf(c) = u}

\* deliverToLocalUser: a check for each of these connections.
Deliver(D) == checks' = checks \cup {Check("deliver", c, conn[c].token) : c \in D}

\* emitToUser by the process that has the connections D.
Post(u, D) ==
    /\ Spend("post")
    /\ D \subseteq ConnsOf(u)
    /\ Deliver(D)
    /\ relay' = relay \cup {[user |-> u, but |-> D]}
    /\ UNCHANGED <<tokenVars, conn, wire>>

\* The event reaches the processes that have the others.
Relay(m) ==
    /\ m \in relay
    /\ relay' = relay \ {m}
    /\ Deliver(ConnsOf(m.user) \ m.but)
    /\ UNCHANGED <<tokenVars, conn, wire, budget>>

LoseRelay(m) ==
    /\ Spend("lose")
    /\ m \in relay
    /\ relay' = relay \ {m}
    /\ UNCHANGED <<tokenVars, conn, checks, wire>>

-----------------------------------------------------------------------------
(* verifySocketTokenUser *)

\* (mutant) A delivery that fails closes the connection whatever it is bound to.
AnySession(k) == IsOpen(k.conn)

\* socketSessions.get(socket) === session
SameSession(k) == k.same

Nack(k) == [kind |-> "nack", conn |-> k.conn, user |-> token[k.token].user, good |-> TRUE]
Packet(k) == [kind |-> "event", conn |-> k.conn, user |-> token[k.token].user, good |-> k.good]

Over(k) == checks' = checks \ {k} /\ UNCHANGED conn

Failed(k) ==
    CASE k.kind = "connect" -> Over(k) /\ UNCHANGED wire
      [] k.kind = "deliver" -> /\ IF SameSession(k) THEN CloseAfter(k.conn, {k}) ELSE Over(k)
                               /\ UNCHANGED wire
      [] k.kind = "refresh" -> IF k.same
                               THEN CloseAfter(k.conn, {k}) /\ wire' = wire \cup {Nack(k)}
                               ELSE Over(k) /\ UNCHANGED wire

Passed(k) ==
    CASE k.kind = "connect" -> Bind(k.conn, k.token, {k}) /\ UNCHANGED wire
      [] k.kind = "refresh" -> IF ~k.same THEN Over(k) /\ UNCHANGED wire
                               ELSE IF token[k.token].user # UserOf(k.conn) THEN Failed(k)
                               ELSE /\ Bind(k.conn, k.token, {k})
                                    /\ UNCHANGED wire
      [] k.kind = "deliver" -> IF ~k.same THEN Over(k) /\ UNCHANGED wire
                               ELSE IF ~Unexpired(k.token) THEN Failed(k)
                               ELSE Over(k) /\ wire' = wire \cup {Packet(k)}

\* The lifetime and the revocation of the token.
CheckJti(k) ==
    /\ k \in checks /\ k.pc = "jti"
    /\ IF Unexpired(k.token) /\ k.token \notin revoked
       THEN /\ checks' = (checks \ {k}) \cup {[k EXCEPT !.pc = "user"]}
            /\ UNCHANGED <<conn, wire>>
       ELSE Failed(k)
    /\ UNCHANGED <<tokenVars, relay, budget>>

\* Redis is configured and does not answer.
StoreUnavailable(k) ==
    /\ Spend("outage")
    /\ k \in checks /\ k.pc = "jti"
    /\ Failed(k)
    /\ UNCHANGED <<tokenVars, relay>>

\* (mutant) The user is looked up without the cut-off of the password.
AnyAccount(t) == TRUE

\* The account is active and the token is younger than its password.
Accepted(t) == t \notin cut

CheckUser(k) ==
    /\ k \in checks /\ k.pc = "user"
    /\ IF Accepted(k.token) THEN Passed(k) ELSE Failed(k)
    /\ UNCHANGED <<tokenVars, relay, budget>>

GatewayStep ==
    \/ \E t \in Tokens : Expire(t) \/ RevokeToken(t)
    \/ \E u \in Users : CutUser(u) \/ \E D \in SUBSET Conns : Post(u, D)
    \/ \E m \in relay : Relay(m) \/ LoseRelay(m)
    \/ \E c \in Conns : Timer(c)
    \/ \E k \in checks : k.kind # "connect" /\ (CheckJti(k) \/ StoreUnavailable(k) \/ CheckUser(k))
=============================================================================
