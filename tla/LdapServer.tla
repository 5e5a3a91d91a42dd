----------------------------- MODULE LdapServer -----------------------------
(***************************************************************************)
(* internal/ldapserver: the life of the server and of its connections.     *)
(* Two acceptors, one goroutine per connection and the goroutine that      *)
(* closes everything on cancellation (the closer) run beside serve; the    *)
(* table of connections is guarded by a mutex, held from the look at the   *)
(* context to the registration, and for the whole sweep.                   *)
(*                                                                         *)
(* Abstractions: a request is its kind.  "leave" is an unbind or anything  *)
(* that cannot be parsed; "other" is a request that changes nothing, a     *)
(* search among them; "bad_bind" a bind with controls that are refused;    *)
(* "quick" one refused, or anonymous, before any password is looked at;    *)
(* "reader" and "member" come with a password: of an enabled user who may  *)
(* search, or not (also a wrong password, or a disabled user).             *)
(***************************************************************************)
EXTENDS Contexts, Naturals, FiniteSets

CONSTANTS
    Conn,               \* connections clients may open
    Endpoint,           \* Endpoint[c]: "plain" or "secure"
    Asks,               \* Asks[c]: the kinds of requests made on c
    maxConnections, maxBindAttempts,
    BindSlots           \* capacity of s.bindSlots

\* The names of places in the model are not connections.
ASSUME LdapAssumption ==
    /\ Endpoint \in [Conn -> {"plain", "secure"}]
    /\ {"accepting", "ended"} \cap Conn = {}
    /\ {maxConnections, maxBindAttempts, BindSlots} \subseteq Nat

VARIABLES
    ldap,               \* serve: "serving", "leaving" (deferred calls), "returned"
    closer,             \* listeners and connections closed so far, see CloserStep
    listening,          \* the listeners that are open
    acceptor,           \* acceptor[e]: "accepting", "ended" or a connection in hand
    failed,             \* there is an error in the failures channel
    conn,               \* conn[c]: the goroutine of c
    connections,        \* the table
    bindSlots,          \* len(s.bindSlots)
    entitled            \* history: connections whose last bind succeeded, for a user
                        \* who may search

life == <<ldap, closer, listening, failed>>
ldapVars == <<life, acceptor, conn, connections, bindSlots, entitled>>

Endpoints == {"plain", "secure"}
Quick == {"leave", "other", "bad_bind", "quick"}
Slow == {"reader", "member"}

Closed(at) == [at |-> at, open |-> FALSE, canSearch |-> FALSE, attempts |-> 0,
               bind |-> "none"]

LdapInit ==
    /\ ldap = "serving"
    /\ closer = "waiting"
    /\ listening = Endpoints
    /\ acceptor = [e \in Endpoints |-> "accepting"]
    /\ failed = FALSE
    /\ conn = [c \in Conn |-> Closed("none")]
    /\ connections = {}
    /\ bindSlots = 0
    /\ entitled = {}

-----------------------------------------------------------------------------
(* Clients and acceptors.                                                  *)

\* A goroutine of the server's has the connection.
Working(c) == conn[c].at \in {"handshake", "reading", "timer", "hashing", "ending"}

\* A client has connected, and the acceptor takes the connection.
Accept(e, c) ==
    /\ acceptor[e] = "accepting"
    /\ e \in listening
    /\ Endpoint[c] = e /\ conn[c].at = "none"
    /\ acceptor' = [acceptor EXCEPT ![e] = c]
    /\ conn' = [conn EXCEPT ![c].at = "accepted", ![c].open = TRUE]
    /\ UNCHANGED <<cancelled, life, connections, bindSlots, entitled>>

\* Accept fails: always once the listener is closed, and on errors of its own.
AcceptFails(e) ==
    /\ acceptor[e] = "accepting"
    /\ acceptor' = [acceptor EXCEPT ![e] = "ended"]
    /\ failed' = (failed \/ ~Done("ldap"))
    /\ UNCHANGED <<cancelled, ldap, closer, listening, conn, connections, bindSlots,
                   entitled>>

\* Under the mutex: the connection in hand is registered and gets a goroutine,
\* or is closed.
Decide(e, admitted) ==
    LET c == acceptor[e]
        first == IF Endpoint[c] = "secure" THEN "handshake" ELSE "reading"
    IN  /\ c \in Conn
        /\ connections' = IF admitted THEN connections \cup {c} ELSE connections
        /\ conn' = IF admitted THEN [conn EXCEPT ![c].at = first]
                   ELSE [conn EXCEPT ![c] = Closed("gone")]
        /\ acceptor' = [acceptor EXCEPT ![e] = "accepting"]
        /\ UNCHANGED <<cancelled, life, bindSlots, entitled>>

\* Faulty variant: the context is not looked at again.
AdmitAlways(e) == Decide(e, Cardinality(connections) < maxConnections)

\* A connection is admitted unless the server is stopping or full.
Admit(e) == Decide(e, ~Done("ldap") /\ Cardinality(connections) < maxConnections)

-----------------------------------------------------------------------------
(* The goroutine of a connection: handleConnection.                        *)

\* handleConnection returns.
Leave(c) == conn' = [conn EXCEPT ![c] = [Closed("ending") EXCEPT !.open = conn[c].open]]

\* After a response (written or not) the loop goes on or ends; it ends when the
\* context is done.
Continue(c, state) ==
    \/ ~Done("ldap") /\ conn' = [conn EXCEPT ![c] = [state EXCEPT !.at = "reading"]]
    \/ Leave(c)

Handshake(c) ==
    /\ conn[c].at = "handshake" /\ conn[c].open
    /\ conn' = [conn EXCEPT ![c].at = "reading"]
    /\ UNCHANGED <<cancelled, life, acceptor, connections, bindSlots, entitled>>

\* The handshake or a read fails: the connection is closed at either end, its
\* deadline passes, or (a handshake only) the context is done.  conn[c].open is
\* about this end.
Fails(c) ==
    /\ conn[c].at \in {"handshake", "reading"}
    /\ Leave(c)
    /\ entitled' = entitled \ {c}
    /\ UNCHANGED <<cancelled, life, acceptor, connections, bindSlots>>

\* A request that is answered at once; reset says whether it takes rights away.
Answer(c, r, reset) ==
    LET state == [conn[c] EXCEPT !.canSearch = @ /\ ~reset,
                                 !.attempts = IF r = "quick" THEN @ + 1 ELSE @]
    IN  /\ conn[c].at = "reading" /\ conn[c].open
        /\ IF r = "leave" \/ state.attempts > maxBindAttempts
           THEN Leave(c)
           ELSE Continue(c, state)
        /\ entitled' = IF conn'[c].at = "ending" \/ r \in {"bad_bind", "quick"}
                       THEN entitled \ {c} ELSE entitled
        /\ UNCHANGED <<cancelled, life, acceptor, connections, bindSlots>>

\* Every bind takes the rights of the one before away, whatever is wrong with it.
Request(c, r) == Answer(c, r, r \in {"bad_bind", "quick"})

\* Faulty variant of Bind: the rights stay what they are until it is over, and
\* longer when no slot is free.
BindKeepsRights(c, r) ==
    LET attempts == conn[c].attempts + 1
    IN  /\ conn[c].at = "reading" /\ conn[c].open
        /\ IF attempts > maxBindAttempts THEN Leave(c)
           ELSE conn' = [conn EXCEPT ![c].at = "timer", ![c].attempts = attempts, ![c].bind = r]
        /\ entitled' = entitled \ {c}
        /\ UNCHANGED <<cancelled, life, acceptor, connections, bindSlots>>

\* A bind with a password loses all rights, and waits.
Bind(c, r) ==
    LET attempts == conn[c].attempts + 1
    IN  /\ conn[c].at = "reading" /\ conn[c].open
        /\ IF attempts > maxBindAttempts THEN Leave(c)
           ELSE conn' = [conn EXCEPT ![c].at = "timer", ![c].attempts = attempts,
                                     ![c].bind = r, ![c].canSearch = FALSE]
        /\ entitled' = entitled \ {c}
        /\ UNCHANGED <<cancelled, life, acceptor, connections, bindSlots>>

\* The timer has fired: a slot if there is one, otherwise busy; or the context
\* is done, which wins against a full slot table and may win against a free one.
TakeSlot(c) ==
    /\ conn[c].at = "timer"
    /\ bindSlots < BindSlots
    /\ bindSlots' = bindSlots + 1
    /\ conn' = [conn EXCEPT ![c].at = "hashing"]
    /\ UNCHANGED <<cancelled, life, acceptor, connections, entitled>>

BindRefused(c) ==
    /\ conn[c].at = "timer"
    /\ Done("ldap") \/ bindSlots = BindSlots
    /\ Continue(c, [conn[c] EXCEPT !.bind = "none"])
    /\ UNCHANGED <<cancelled, life, acceptor, connections, bindSlots, entitled>>

\* The password has been compared; the slot is free again.
BindDone(c) ==
    /\ conn[c].at = "hashing"
    /\ bindSlots' = bindSlots - 1
    /\ Continue(c, [conn[c] EXCEPT !.canSearch = conn[c].bind = "reader", !.bind = "none"])
    /\ entitled' = IF conn'[c].at = "reading" /\ conn[c].bind = "reader" THEN entitled \cup {c}
                   ELSE entitled \ {c}
    /\ UNCHANGED <<cancelled, life, acceptor, connections>>

\* The deferred end of a connection's goroutine.
End(c) ==
    /\ conn[c].at = "ending"
    /\ conn' = [conn EXCEPT ![c] = Closed("gone")]
    /\ connections' = connections \ {c}
    /\ UNCHANGED <<cancelled, life, acceptor, bindSlots, entitled>>

-----------------------------------------------------------------------------
(* serve and its closer.                                                   *)

\* <-ctx.Done(), then one listener after the other is closed, then, under the
\* mutex, every connection of the table.
CloserStep ==
    /\ \/ /\ closer = "waiting" /\ Done("ldap")
          /\ closer' = "plain" /\ listening' = listening \ {"plain"}
          /\ UNCHANGED conn
       \/ /\ closer = "plain"
          /\ closer' = "secure" /\ listening' = listening \ {"secure"}
          /\ UNCHANGED conn
       \/ /\ closer = "secure"
          /\ closer' = "swept"
          /\ conn' = [c \in Conn |-> IF c \in connections THEN [conn[c] EXCEPT !.open = FALSE]
                                     ELSE conn[c]]
          /\ UNCHANGED listening
    /\ UNCHANGED <<cancelled, ldap, acceptor, failed, connections, bindSlots, entitled>>

\* The select of serve, and the cancel that follows in any case.
ServeStops ==
    /\ ldap = "serving"
    /\ Done("ldap") \/ failed
    /\ ldap' = "leaving"
    /\ Cancel("ldap")
    /\ UNCHANGED <<closer, listening, failed, acceptor, conn, connections, bindSlots,
                   entitled>>

\* A goroutine of workers still runs: an acceptor, or one of a connection.
Busy == (\E e \in Endpoints : acceptor[e] # "ended") \/ \E c \in Conn : Working(c)

\* <-stopped and workers.Wait().
ServeReturns ==
    /\ ldap = "leaving"
    /\ closer = "swept"
    /\ ~Busy
    /\ ldap' = "returned"
    /\ UNCHANGED <<cancelled, closer, listening, failed, acceptor, conn, connections,
                   bindSlots, entitled>>

HandlerStep(c) ==
    \/ Handshake(c) \/ Fails(c)
    \/ \E r \in Quick \cap Asks[c] : Request(c, r)
    \/ \E r \in Slow \cap Asks[c] : Bind(c, r)
    \/ TakeSlot(c) \/ BindRefused(c) \/ BindDone(c) \/ End(c)

LdapNext ==
    \/ \E c \in Conn : HandlerStep(c)
    \/ \E e \in Endpoints : (\E c \in Conn : Accept(e, c)) \/ AcceptFails(e) \/ Admit(e)
    \/ CloserStep \/ ServeStops \/ ServeReturns

\* The steps that wait for no client and no deadline.
LdapProgress ==
    \/ CloserStep \/ ServeStops \/ ServeReturns
    \/ \E e \in Endpoints : Admit(e) \/ (AcceptFails(e) /\ e \notin listening)
    \/ \E c \in Conn :
           \/ TakeSlot(c) \/ BindRefused(c) \/ BindDone(c) \/ End(c)
           \/ /\ Fails(c)
              /\ ~conn[c].open \/ (conn[c].at = "handshake" /\ Done("ldap"))

-----------------------------------------------------------------------------
(* Properties.                                                             *)

\* Whatever is admitted while the server is told to stop: once the closer has
\* swept the table every connection in it is closed, so that serve waits for no
\* client and no deadline; and when serve has returned no listener, connection,
\* goroutine or password check of it is left.
ClosedBehind ==
    /\ closer = "swept" => \A c \in connections : ~conn[c].open
    /\ ldap = "returned" =>
           /\ listening = {} /\ connections = {} /\ bindSlots = 0
           /\ \A c \in Conn : ~conn[c].open

\* The limits hold and are exact: the table has the connections that have a
\* goroutine, at most maxConnections; the slots taken are those of the password
\* checks under way.
LdapLimits ==
    /\ connections = {c \in Conn : Working(c)}
    /\ Cardinality(connections) <= maxConnections
    /\ bindSlots = Cardinality({c \in Conn : conn[c].at = "hashing"})
    /\ bindSlots <= BindSlots

\* A connection may search only by virtue of the last bind request made on it: a
\* later one that failed, was busy, or was not even looked at has ended that.
RightsFromLastBind ==
    \A c \in Conn : conn[c].canSearch => c \in entitled

=============================================================================
