----------------------------- MODULE NfsServer ------------------------------
(***************************************************************************)
(* internal/nfsserver, Serve and serveConnection: the listener, the slots, *)
(* the goroutine of each connection and the filesystem they share.  The    *)
(* functions registered with context.AfterFunc close the listener and the  *)
(* connections from goroutines of their own once the context is done; one  *)
(* registered later than that runs at once.  Sessions have nothing in      *)
(* common but the filesystem; one of them is looked at, see NfsSession,    *)
(* and the other connections only occupy the server.                       *)
(***************************************************************************)
EXTENDS Contexts, NfsSession

CONSTANTS
    NfsConn,            \* connections clients may open
    NfsSlots,           \* maxConnections
    Talker              \* the connection whose session is looked at

\* The names of things that can be open are told from connections.
ASSUME NfsAssumption ==
    /\ Talker \in NfsConn /\ {"listener", "filesystem"} \cap NfsConn = {}
    /\ NfsSlots \in Nat

VARIABLES
    nfs,                \* Serve: "accepting", "leaving" (deferred calls), "returned"
    nfsOpen,            \* what is open of {"listener", "filesystem"} and of NfsConn
    slots,              \* len(slots)
    nfsWorker           \* nfsWorker[c]: the connection and its goroutine

nfsOwn == <<nfs, nfsOpen, slots, nfsWorker>>
nfsVars == <<nfsOwn, sessionVars>>

NfsInit ==
    /\ nfs = "accepting"
    /\ nfsOpen = {"listener", "filesystem"}
    /\ slots = 0
    /\ nfsWorker = [c \in NfsConn |-> "none"]
    /\ newSession

Runs(c) == nfsWorker[c] \in {"starting", "reading", "replying"}

\* A client has connected: it gets a slot and a goroutine, or is closed.
NfsAccept(c) ==
    LET admitted == slots < NfsSlots
    IN  /\ nfs = "accepting" /\ "listener" \in nfsOpen /\ nfsWorker[c] = "none"
        /\ slots' = IF admitted THEN slots + 1 ELSE slots
        /\ nfsWorker' = [nfsWorker EXCEPT ![c] = IF admitted THEN "starting" ELSE "gone"]
        /\ nfsOpen' = IF admitted THEN nfsOpen \cup {c} ELSE nfsOpen
        /\ UNCHANGED <<cancelled, nfs, sessionVars>>

\* Accept fails, on a closed listener or by itself; the context is cancelled.
NfsAcceptFails ==
    /\ nfs = "accepting"
    /\ nfs' = "leaving"
    /\ Cancel("nfs")
    /\ UNCHANGED <<nfsOpen, slots, nfsWorker, sessionVars>>

\* The goroutine has registered the function that closes the connection.
NfsRegister(c) ==
    /\ nfsWorker[c] = "starting"
    /\ nfsWorker' = [nfsWorker EXCEPT ![c] = "reading"]
    /\ UNCHANGED <<cancelled, nfs, nfsOpen, slots, sessionVars>>

\* A registered function runs.
AfterFunc(x) ==
    /\ Done("nfs") /\ x \in nfsOpen
    /\ x # "listener" => (x \in NfsConn /\ nfsWorker[x] \in {"reading", "replying"})
    /\ nfsOpen' = nfsOpen \ {x}
    /\ UNCHANGED <<cancelled, nfs, slots, nfsWorker, sessionVars>>

\* readRecord, then session.reply: the operations of a compound, up to the last
\* or one that fails; then writeRecord.
NfsRequest ==
    /\ nfsWorker[Talker] = "reading" /\ Talker \in nfsOpen
    /\ nfsWorker' = [nfsWorker EXCEPT ![Talker] = "replying"]
    /\ compound
    /\ UNCHANGED <<cancelled, nfs, nfsOpen, slots>>

NfsOperation ==
    /\ nfsWorker[Talker] = "replying"
    /\ execute
    /\ UNCHANGED <<cancelled, nfsOwn>>

NfsReply ==
    /\ nfsWorker[Talker] = "replying" /\ Talker \in nfsOpen
    /\ nfsWorker' = [nfsWorker EXCEPT ![Talker] = "reading"]
    /\ UNCHANGED <<cancelled, nfs, nfsOpen, slots, sessionVars>>

\* serveConnection returns: the connection is closed at either end or timed out,
\* or an error or a panic.
NfsEnd(c) ==
    /\ nfsWorker[c] \in {"reading", "replying"}
    /\ slots' = slots - 1
    /\ nfsWorker' = [nfsWorker EXCEPT ![c] = "gone"]
    /\ nfsOpen' = nfsOpen \ {c}
    /\ IF c = Talker THEN close ELSE UNCHANGED sessionVars
    /\ UNCHANGED <<cancelled, nfs>>

\* workers.Wait(), then the filesystem and the listener are closed.
NfsReturns ==
    /\ nfs = "leaving"
    /\ \A c \in NfsConn : ~Runs(c)
    /\ nfs' = "returned"
    /\ nfsOpen' = nfsOpen \ {"filesystem", "listener"}
    /\ UNCHANGED <<cancelled, slots, nfsWorker, sessionVars>>

NfsProgress ==
    \/ \E x \in NfsConn \cup {"listener"} : AfterFunc(x)
    \/ NfsAcceptFails /\ "listener" \notin nfsOpen
    \/ NfsReturns
    \/ \E c \in NfsConn : NfsRegister(c) \/ (NfsEnd(c) /\ c \notin nfsOpen)

NfsNext ==
    \/ NfsProgress \/ NfsAcceptFails
    \/ NfsRequest \/ NfsOperation \/ NfsReply
    \/ \E c \in NfsConn : NfsAccept(c) \/ NfsEnd(c)

\* The filesystem stays open as long as a goroutine may use it; the slots are the
\* goroutines; a session's files are bounded and go with it; and when Serve has
\* returned nothing of it is left open.
NfsClosed ==
    /\ (\E c \in NfsConn : Runs(c)) => "filesystem" \in nfsOpen
    /\ slots = Cardinality({c \in NfsConn : Runs(c)}) /\ slots <= NfsSlots
    /\ Opened <= maxFiles /\ (Opened > 0 => Runs(Talker))
    /\ nfs = "returned" => nfsOpen = {}

=============================================================================
