----------------------------- MODULE DhcpServer -----------------------------
(***************************************************************************)
(* internal/dhcpserver on top of internal/lease: the server reads one      *)
(* packet at a time, Handle turns it into one call of the lease manager,   *)
(* and the answer goes back over UDP.  Around it are DHCP clients and a    *)
(* network that are not part of the repository: a client's packets reach   *)
(* the server in order or not at all, possibly repeated; answers may be    *)
(* lost, repeated or late, and a client ignores those whose transaction    *)
(* identifier is not the current one.                                      *)
(*                                                                         *)
(* Packets that Handle cannot decode or attribute to a client are dropped  *)
(* without effect, which is the loss of a packet.  Boot options and the    *)
(* layout of a reply are left out: a reply is its type and its address.    *)
(***************************************************************************)
EXTENDS LeaseManager, Sequences, FiniteSets

CONSTANTS QueueMax  \* bound on the packets under way

ASSUME QueueAssumption == QueueMax \in Nat

\* The value for "no address in use" is not an address in use.
ASSUME GrantAssumption == None \notin [ip: Pool, exp: Nat]

VARIABLES
    wire,     \* wire[c]: the packets of c under way to the server
    replies,  \* replies[c]: answers under way to c, for its current transaction
    txn,      \* txn[c]: the transaction of c, or None
    bound     \* bound[c]: the address c uses and until when, or None

manager == <<up, config, now, memory, file, history>>
clients == <<replies, txn, bound>>
dhcpVars == <<manager, wire, clients>>

\* An address of the subnet that is not in the pool.
Foreign == PoolSize + 1
Address == Pool \cup {NoAddr, Foreign}

Servers == {"none", "us", "other"}
Packet == [type: {"discover", "request", "release", "decline", "inform"},
           requested: Address,              \* option 50
           current: Address,                \* ciaddr
           server: Servers,                 \* option 54
           live: BOOLEAN]                   \* sent in the current transaction
Reply == [type: {"offer", "ack", "nak"}, ip: Pool \cup {NoAddr}]
Transaction == [state: {"selecting", "requesting"}, ip: Address, sent: Nat]

-----------------------------------------------------------------------------
(* The server.                                                             *)

\* What Handle drops after decoding.
Ignored(m) ==
    \/ m.server = "other"
    \/ m.type = "discover" /\ (m.current # NoAddr \/ m.server # "none")
    \/ m.type = "request" /\ m.current # NoAddr /\ (m.requested # NoAddr \/ m.server # "none")
    \/ m.type = "request" /\ m.current = NoAddr /\ m.requested = NoAddr
    \/ m.type = "release" /\ (m.server # "us" \/ m.current = NoAddr)
    \/ m.type = "decline" /\ (m.server # "us" \/ m.requested = NoAddr \/ m.current # NoAddr)
    \/ m.type = "inform" /\ m.current = NoAddr

\* A renewal names its address in ciaddr, any other request in option 50.
Wanted(m) == IF m.current # NoAddr THEN m.current ELSE m.requested

\* The answer reaches c unless c has moved on.
Answer(c, m, r) ==
    replies' = IF m.live THEN [replies EXCEPT ![c] = @ \cup {r}] ELSE replies

Discover(c, m) ==
    /\ m.type = "discover"
    /\ OfferWithFallback(c, m.requested, NoName)
    /\ Answer(c, m, [type |-> "offer", ip |-> offers'[c].ip])

\* ErrPoolExhausted: no answer.
DiscoverExhausted(c, m) ==
    /\ m.type = "discover"
    /\ OfferChoice(c, m.requested) = {}
    /\ Expire
    /\ UNCHANGED replies

\* The acknowledgement is built only from a commit that was saved.
Request(c, m) ==
    /\ m.type = "request"
    /\ Wanted(m) \in Pool
    /\ CommitWithFallback(c, Wanted(m), NoName)
    /\ IF up' THEN Answer(c, m, [type |-> "ack", ip |-> leases'[c].ip]) ELSE UNCHANGED replies

\* ErrUnavailable: a negative answer.
RequestRefused(c, m) ==
    /\ m.type = "request"
    /\ Wanted(m) \notin Pool \ occupied(c)
    /\ Expire
    /\ Answer(c, m, [type |-> "nak", ip |-> NoAddr])

\* Faulty variant of SaveFailed: a request is acknowledged all the same.
SaveFailedAcknowledged(c, m) ==
    /\ hasFile
    /\ m.type = "request" /\ Wanted(m) \in Pool \ occupied(c)
    /\ Expire
    /\ Answer(c, m, [type |-> "ack", ip |-> Wanted(m)])

\* Any other error: logged, no answer.  A failed save has changed nothing.
SaveFailed(c, m) ==
    /\ hasFile
    /\ \/ m.type = "request" /\ Wanted(m) \in Pool \ occupied(c)
       \/ m.type = "release" /\ owns(c, m.current)
       \/ m.type = "decline" /\ owns(c, m.requested)
    /\ Expire
    /\ UNCHANGED replies

ReleaseOrDecline(c, m) ==
    /\ \/ m.type = "release" /\ Release(c, m.current)
       \/ m.type = "decline" /\ Decline(c, m.requested)
       \/ m.type = "release" /\ ~owns(c, m.current) /\ Expire
       \/ m.type = "decline" /\ ~owns(c, m.requested) /\ Expire
    /\ UNCHANGED replies

\* An INFORM is answered with configuration only: no lease is looked at, and
\* no address is in the reply.
Inform(c, m) ==
    /\ m.type = "inform"
    /\ UNCHANGED manager
    /\ Answer(c, m, [type |-> "ack", ip |-> NoAddr])

\* Serve handles the next packet of c; the network may deliver it again.
Handle(c) ==
    /\ up
    /\ wire[c] # <<>>
    /\ \E again \in BOOLEAN :
           wire' = IF again THEN wire ELSE [wire EXCEPT ![c] = Tail(@)]
    /\ LET m == Head(wire[c])
       IN  IF Ignored(m)
           THEN UNCHANGED <<manager, replies>>
           ELSE \/ Discover(c, m)
                \/ DiscoverExhausted(c, m)
                \/ Request(c, m)
                \/ RequestRefused(c, m)
                \/ SaveFailed(c, m)
                \/ ReleaseOrDecline(c, m)
                \/ Inform(c, m)
    /\ UNCHANGED <<txn, bound>>

-----------------------------------------------------------------------------
(* The network and the clients (external).                                 *)

Lose(c) ==
    /\ wire[c] # <<>>
    /\ wire' = [wire EXCEPT ![c] = Tail(@)]
    /\ UNCHANGED <<manager, clients>>

Mark(queue, live) == [i \in DOMAIN queue |-> [queue[i] EXCEPT !.live = @ /\ live]]

UnderWay == UNION {{d} \X DOMAIN wire[d] : d \in Client}

\* c sends a packet and from then on is in transaction t; what it sent in an
\* earlier one is no longer answered to it.
Send(c, type, requested, current, server, t) ==
    /\ Cardinality(UnderWay) < QueueMax
    /\ wire' = [wire EXCEPT ![c] =
                   Append(Mark(@, t = txn[c]),
                          [type |-> type, requested |-> requested, current |-> current,
                           server |-> server, live |-> t # None])]
    /\ txn' = [txn EXCEPT ![c] = t]
    /\ replies' = IF t = txn[c] THEN replies ELSE [replies EXCEPT ![c] = {}]
    /\ UNCHANGED manager

Begin(state, ip) == [state |-> state, ip |-> ip, sent |-> now]

SendDiscover(c, requested) ==
    /\ bound[c] = None /\ txn[c] = None
    /\ Send(c, "discover", requested, NoAddr, "none", Begin("selecting", NoAddr))
    /\ UNCHANGED bound

\* c selects an offer of this server, or one that another server made.
SendSelect(c) ==
    /\ txn[c] # None /\ txn[c].state = "selecting"
    /\ \/ \E r \in replies[c] :
              /\ r.type = "offer"
              /\ Send(c, "request", r.ip, NoAddr, "us", Begin("requesting", r.ip))
       \/ Send(c, "request", Foreign, NoAddr, "other", None)
    /\ UNCHANGED bound

\* INIT-REBOOT: c asks for an address it remembers.
SendReboot(c, a) ==
    /\ bound[c] = None /\ txn[c] = None
    /\ Send(c, "request", a, NoAddr, "none", Begin("requesting", a))
    /\ UNCHANGED bound

SendRenew(c) ==
    /\ bound[c] # None /\ txn[c] = None
    /\ Send(c, "request", NoAddr, bound[c].ip, "none", Begin("requesting", bound[c].ip))
    /\ UNCHANGED bound

\* The lease time counts from the first transmission.
Retransmit(c) ==
    /\ txn[c] # None /\ txn[c].state = "requesting"
    /\ IF bound[c] # None THEN Send(c, "request", NoAddr, txn[c].ip, "none", txn[c])
       ELSE Send(c, "request", txn[c].ip, NoAddr, "us", txn[c])
    /\ UNCHANGED bound

\* c, using an address, also sends what a careful server leaves alone: a
\* request that names its address and another one, or an INFORM.
SendOdd(c) ==
    /\ bound[c] # None /\ txn[c] = None
    /\ \/ \E a \in Pool : Send(c, "request", a, bound[c].ip, "none", None)
       \/ Send(c, "inform", NoAddr, bound[c].ip, "none", None)
    /\ UNCHANGED bound

\* c gives its address up, or finds it in use by somebody else.
SendGiveUp(c) ==
    /\ bound[c] # None
    /\ \/ Send(c, "release", NoAddr, bound[c].ip, "us", None)
       \/ Send(c, "decline", bound[c].ip, NoAddr, "us", None)
    /\ bound' = [bound EXCEPT ![c] = None]

\* c ends its transaction, on a timeout or because of answer r.
End(c, b) ==
    /\ txn[c] # None
    /\ txn' = [txn EXCEPT ![c] = None]
    /\ replies' = [replies EXCEPT ![c] = {}]
    /\ wire' = [wire EXCEPT ![c] = Mark(@, FALSE)]
    /\ bound' = [bound EXCEPT ![c] = b]
    /\ UNCHANGED manager

GiveUpWaiting(c) == End(c, bound[c])

TakeAnswer(c) ==
    /\ txn[c] # None /\ txn[c].state = "requesting"
    /\ \E r \in replies[c] :
           \/ /\ r.type = "ack"
              /\ txn[c].sent + LeaseDuration > now
              /\ End(c, [ip |-> r.ip, exp |-> txn[c].sent + LeaseDuration])
           \/ /\ r.type = "nak"
              /\ End(c, None)

-----------------------------------------------------------------------------

\* Time passes; a client stops using an address whose lease has run out.
Elapse ==
    /\ Tick
    /\ bound' = [c \in Client |->
                    IF bound[c] # None /\ bound[c].exp <= now' THEN None ELSE bound[c]]
    /\ UNCHANGED <<wire, replies, txn>>

\* The server keeps its leases in a file.  Memory-only leases end with the
\* process, and with them every guarantee to the clients.
DhcpInit ==
    /\ Init
    /\ hasFile
    /\ wire = [c \in Client |-> <<>>]
    /\ replies = [c \in Client |-> {}]
    /\ txn = [c \in Client |-> None]
    /\ bound = [c \in Client |-> None]

DhcpNext ==
    \/ \E c \in Client :
           \/ Handle(c)
           \/ Lose(c)
           \/ \E a \in Pool \cup {NoAddr} : SendDiscover(c, a)
           \/ SendSelect(c)
           \/ \E a \in Pool \cup {Foreign} : SendReboot(c, a)
           \/ SendRenew(c)
           \/ Retransmit(c)
           \/ SendOdd(c)
           \/ SendGiveUp(c)
           \/ GiveUpWaiting(c)
           \/ TakeAnswer(c)
    \/ Crash /\ UNCHANGED <<wire, clients>>
    \/ \E R \in ReservedConfigs : Start(R) /\ UNCHANGED <<wire, clients>>
    \/ Elapse

DhcpSpec == DhcpInit /\ [][DhcpNext]_dhcpVars

-----------------------------------------------------------------------------
(* Properties.                                                             *)

\* An address a client uses was acknowledged to it, and the server still
\* counts it as that client's for at least as long as the client does, over
\* lost, late and repeated packets, crashes and failed saves.
BoundIsBacked ==
    \A c \in Client : bound[c] # None =>
        /\ promise[c] # None
        /\ promise[c].ip = bound[c].ip
        /\ promise[c].exp >= bound[c].exp

\* Handle never lets two clients use one address at the same time.
NoAddressConflict ==
    \A c, d \in Client :
        c # d /\ bound[c] # None /\ bound[d] # None => bound[c].ip # bound[d].ip

=============================================================================
