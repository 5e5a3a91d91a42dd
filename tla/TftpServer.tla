----------------------------- MODULE TftpServer -----------------------------
(***************************************************************************)
(* internal/tftpserver: Serve admits read requests, at most one transfer   *)
(* for each peer (address and port of a client), maxTransfers in all and   *)
(* maxClientTransfers for each client address.  Each transfer has a worker *)
(* with a port of its own, here its tid, that sends the file block by      *)
(* block, every block until it is acknowledged or maxAttempts are used up. *)
(* A block number is a uint16; here it is the index of the block modulo    *)
(* Modulus.                                                                *)
(*                                                                         *)
(* The network (external) may lose, repeat, delay and reorder packets, but *)
(* does not keep one for as long as the block numbers take to wrap around. *)
(* The clients (external) follow RFC 1350.  What a packet says besides its *)
(* block number is left out; malformed requests are lost packets.          *)
(***************************************************************************)
EXTENDS Contexts, Naturals, FiniteSets, Sequences

CONSTANTS
    Peer,               \* clients' transfer identifiers: address and port
    ClientOf,           \* the address of each peer
    Responds,           \* the peers that go on after their request
    Options,            \* the peers whose requests come with options
    Blocks,             \* DATA packets of the file, the last one short
    Modulus,            \* 2^16 in the code
    maxAttempts, maxTransfers, maxClientTransfers,
    MaxTid,             \* bound: transfers to the peers that go on
    None

ASSUME TftpAssumption ==
    /\ Blocks \in Nat \ {0}
    /\ Modulus \in Nat /\ Modulus > 2
    /\ {maxAttempts, maxTransfers, maxClientTransfers, MaxTid} \subseteq Nat \ {0}
    /\ DOMAIN ClientOf = Peer /\ Responds \subseteq Peer

VARIABLES
    serving,    \* Serve: "reading", "waiting" for its workers, "returned"
    active,     \* peers with a transfer
    clients,    \* transfers of each client address
    worker,     \* worker[p]: the transfer to p, or None
    tids,       \* ports used so far in transfers to the peers that go on
    net,        \* packets ever sent: each may arrive, again, late or never
    client,     \* client[p]: what the client at p has heard and received
    served      \* history: peers whose transfer ended without an error

tables == <<serving, active, clients, worker, tids>>
tftpVars == <<tables, net, client, served>>

Stage == {"open", "send", "over"}
Transfer == [tid: Nat, stage: Stage, block: 0..Blocks, attempts: Nat]

\* What is not a transfer is told from one.
ASSUME TransferAssumption == None \notin Transfer

Address == {ClientOf[p] : p \in Peer}

\* Faulty variant of Number: fewer bits.
NumberNarrow(i) == i % (Modulus \div 2)

\* The number of block i, an unsigned integer that wraps around.
Number(i) == i % Modulus

\* Index 0 stands for the option acknowledgement and its answer.
Packet(kind, p, tid, i) == [kind |-> kind, peer |-> p, tid |-> tid, index |-> i]
OptionsPacket(p, tid) == Packet("oack", p, tid, 0)
DataPacket(p, tid, i) == IF i = 0 THEN OptionsPacket(p, tid) ELSE Packet("data", p, tid, i)

\* What is sent to a peer that has fallen silent is as good as lost.
Sent(m) == net' = IF m.peer \in Responds THEN net \cup {m} ELSE net

\* A packet about block i is not kept until block j of the same number.
Recent(i, j) == i + Modulus > j + 1

-----------------------------------------------------------------------------
(* The server.                                                             *)

Admits(p) ==
    /\ p \notin active
    /\ Cardinality(active) < maxTransfers
    /\ clients[ClientOf[p]] < maxClientTransfers

\* Serve reads a request, the first of p or another; one that is not admitted is
\* ignored, or refused with an error the client may try again after.
Serve(p) ==
    /\ serving = "reading"
    /\ Admits(p)
    /\ p \in Responds => tids < MaxTid
    /\ tids' = IF p \in Responds THEN tids + 1 ELSE tids
    /\ active' = active \cup {p}
    /\ clients' = [clients EXCEPT ![ClientOf[p]] = @ + 1]
    /\ worker' = [worker EXCEPT ![p] =
                     [tid |-> IF p \in Responds THEN tids' ELSE 0,
                      stage |-> "open", block |-> 0, attempts |-> 0]]
    /\ UNCHANGED <<cancelled, serving, net, client, served>>

\* The worker of p begins the exchange for block i.
Begin(p, i) ==
    /\ worker' = [worker EXCEPT ![p].stage = "send", ![p].block = i, ![p].attempts = 1]
    /\ Sent(DataPacket(p, worker[p].tid, i))

Over(p) == worker' = [worker EXCEPT ![p].stage = "over"]

\* transfer opens the file; it acknowledges options if there are any.
open(p) ==
    /\ worker[p] # None /\ worker[p].stage = "open"
    /\ Begin(p, IF p \in Options THEN 0 ELSE 1)
    /\ UNCHANGED <<cancelled, serving, active, clients, tids, client, served>>

Sending(p) == worker[p] # None /\ worker[p].stage = "send"

\* Faulty variant of exchangeTimeout: no end to the attempts.
ExchangeForever(p) ==
    /\ Sending(p)
    /\ Sent(DataPacket(p, worker[p].tid, worker[p].block))
    /\ UNCHANGED <<cancelled, tables, client, served>>

\* exchange hears nothing that counts before its deadline.
exchangeTimeout(p) ==
    /\ Sending(p)
    /\ IF worker[p].attempts < maxAttempts
       THEN /\ worker' = [worker EXCEPT ![p].attempts = @ + 1]
            /\ Sent(DataPacket(p, worker[p].tid, worker[p].block))
       ELSE Over(p) /\ UNCHANGED net
    /\ UNCHANGED <<cancelled, serving, active, clients, tids, client, served>>

Acknowledges(m, p) ==
    /\ m.kind = "ack" /\ m.peer = p /\ m.tid = worker[p].tid
    /\ Number(m.index) = Number(worker[p].block)
    /\ Recent(m.index, worker[p].block)

\* exchange returns nil: the next block, or the end after the last.
exchangeAck(p) ==
    /\ Sending(p)
    /\ \E m \in net : Acknowledges(m, p)
    /\ IF worker[p].block = Blocks
       THEN Over(p) /\ served' = served \cup {p} /\ UNCHANGED net
       ELSE Begin(p, worker[p].block + 1) /\ UNCHANGED served
    /\ UNCHANGED <<cancelled, serving, active, clients, tids, client>>

\* The client's ERROR, a failure to open, read or send, the end of
\* maxTransferTime or of ctx.
transferFails(p) ==
    /\ worker[p] # None /\ worker[p].stage # "over"
    /\ Over(p)
    /\ UNCHANGED <<cancelled, serving, active, clients, tids, net, client, served>>

\* Faulty variant of forget: the client's count is not taken back.
ForgetPeerOnly(p) ==
    /\ worker[p] # None /\ worker[p].stage = "over"
    /\ worker' = [worker EXCEPT ![p] = None]
    /\ active' = active \ {p}
    /\ UNCHANGED <<cancelled, serving, clients, tids, net, client, served>>

\* The deferred clean-up of a worker.
forget(p) ==
    /\ worker[p] # None /\ worker[p].stage = "over"
    /\ worker' = [worker EXCEPT ![p] = None]
    /\ active' = active \ {p}
    /\ clients' = [clients EXCEPT ![ClientOf[p]] = @ - 1]
    /\ UNCHANGED <<cancelled, serving, tids, net, client, served>>

\* Serve reads no more: its socket was closed because ctx is done, or failed.
leave ==
    /\ serving = "reading"
    /\ serving' = "waiting"
    /\ Cancel("tftp")
    /\ UNCHANGED <<active, clients, worker, tids, net, client, served>>

\* workers.Wait.
return ==
    /\ serving = "waiting"
    /\ \A p \in Peer : worker[p] = None
    /\ serving' = "returned"
    /\ UNCHANGED <<cancelled, active, clients, worker, tids, net, client, served>>

-----------------------------------------------------------------------------
(* The network and the clients (external).                                 *)

\* The client fixes the other side's port with the first packet it gets.
Mine(m, p) == m.kind \in {"oack", "data"} /\ m.peer = p /\ client[p].tid \in {0, m.tid}

Expected(p) == Len(client[p].got) + 1

\* The block the client waits for.
AcceptData(p, m) ==
    /\ Mine(m, p) /\ m.kind = "data"
    /\ Number(m.index) = Number(Expected(p)) /\ Recent(m.index, Expected(p))
    /\ client' = [client EXCEPT ![p].tid = m.tid, ![p].got = Append(@, m.index)]
    /\ Sent(Packet("ack", p, m.tid, Expected(p)))
    /\ UNCHANGED <<cancelled, tables, served>>

\* The options, or the block before once more: acknowledged again.
RepeatData(p, m) ==
    /\ Mine(m, p)
    /\ \/ m.kind = "oack" /\ client[p].got = <<>>
       \/ /\ m.kind = "data" /\ client[p].got # <<>>
          /\ Number(m.index) = Number(Expected(p) - 1) /\ Recent(m.index, Expected(p))
    /\ client' = [client EXCEPT ![p].tid = m.tid]
    /\ Sent(Packet("ack", p, m.tid, Expected(p) - 1))
    /\ UNCHANGED <<cancelled, tables, served>>

-----------------------------------------------------------------------------

TftpInit ==
    /\ serving = "reading"
    /\ active = {}
    /\ clients = [a \in Address |-> 0]
    /\ worker = [p \in Peer |-> None]
    /\ tids = 0
    /\ net = {}
    /\ client = [p \in Peer |-> [tid |-> 0, got |-> <<>>]]
    /\ served = {}

\* What a worker does by itself: its reads have deadlines, its attempts are counted.
work(p) == open(p) \/ exchangeTimeout(p) \/ exchangeAck(p) \/ forget(p)

\* The socket is closed when ctx is done, and Serve notices.
TftpProgress == (leave /\ Done("tftp")) \/ return

TftpNext ==
    \/ TftpProgress
    \/ leave
    \/ \E p \in Peer : Serve(p) \/ work(p) \/ transferFails(p)
    \/ \E p \in Responds, m \in net : AcceptData(p, m) \/ RepeatData(p, m)

-----------------------------------------------------------------------------
(* Properties.                                                             *)

\* The tables count exactly the workers that run, so no slot is lost or given
\* twice, however transfers end; and the limits hold, in all and for a client.
SlotsMatchWorkers ==
    /\ Cardinality(active) <= maxTransfers
    /\ \A a \in Address : clients[a] <= maxClientTransfers
    /\ active = {p \in Peer : worker[p] # None}
    /\ \A a \in Address : clients[a] = Cardinality({p \in active : ClientOf[p] = a})

\* Whatever is lost, repeated, delayed or reordered, and also after the block
\* numbers wrapped around, a client puts the blocks together in their order; and
\* a transfer that ends without an error has delivered the whole file.
FilesArrive ==
    /\ \A p \in Peer : \A i \in DOMAIN client[p].got : client[p].got[i] = i
    /\ \A p \in served : Len(client[p].got) = Blocks

\* Each transfer ends and gives its slot back.  (A peer that goes on may fall
\* silent at any point, so it stands for the others.)
TransfersEnd == \A p \in Responds : p \in active ~> p \notin active

=============================================================================
