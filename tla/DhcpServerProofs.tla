-------------------------- MODULE DhcpServerProofs --------------------------
(***************************************************************************)
(* Proofs about DhcpServer, for any clients, pool, durations and number of *)
(* packets under way: what a client uses is backed by the lease manager,   *)
(* and no two clients use one address.  The invariant says what is under   *)
(* way between the server and its clients; the manager's part of it is     *)
(* taken from LeaseManagerProofs.                                          *)
(***************************************************************************)
EXTENDS DhcpServer, LeaseManagerProofs

DhcpTypes ==
    /\ wire \in [Client -> Seq(Packet)]
    /\ replies \in [Client -> SUBSET Reply]
    /\ txn \in [Client -> Transaction \cup {None}]
    /\ bound \in [Client -> [ip: Pool, exp: Nat] \cup {None}]

\* The manager has acknowledged ip to c, until e or longer.
Backed(c, ip, e) == promise[c] # None /\ promise[c].ip = ip /\ promise[c].exp >= e

\* Packets of a client that do not cost it address ip.
Harmless(m, ip) ==
    \/ Ignored(m)
    \/ m.type \in {"discover", "inform"}
    \/ m.type = "request" /\ Wanted(m) = ip

\* What c has sent in its current transaction comes last.
WireInv(c) ==
    \A i \in 1..Len(wire[c]) : wire[c][i].live =>
        /\ txn[c] # None
        /\ \A j \in i..Len(wire[c]) : wire[c][j].live
        /\ txn[c].state = "selecting" => wire[c][i].type = "discover"
        /\ txn[c].state = "requesting" =>
               wire[c][i].type = "request" /\ Wanted(wire[c][i]) = txn[c].ip

\* An acknowledgement under way is backed, for a client that counts from when it
\* first asked; everything sent before that is done with.
AckInv(c) ==
    \A r \in replies[c] : r.type = "ack" =>
        /\ txn[c] # None /\ txn[c].state = "requesting" /\ r.ip = txn[c].ip
        /\ Backed(c, r.ip, txn[c].sent + LeaseDuration)
        /\ \A i \in 1..Len(wire[c]) : wire[c][i].live

\* So is an address in use, and nothing under way gives it up.
BoundInv(c) ==
    bound[c] # None =>
        /\ Backed(c, bound[c].ip, bound[c].exp) /\ bound[c].exp > now
        /\ \A i \in 1..Len(wire[c]) : Harmless(wire[c][i], bound[c].ip)
        /\ txn[c] # None => txn[c].state = "requesting" /\ txn[c].ip = bound[c].ip

ClientInv(c) ==
    /\ txn[c] # None => txn[c].sent <= now
    /\ WireInv(c) /\ AckInv(c) /\ BoundInv(c)

DhcpInv ==
    /\ IInv /\ hasFile
    /\ DhcpTypes
    /\ \A c \in Client : ClientInv(c)

-----------------------------------------------------------------------------
(* Times and transactions.                                                 *)

\* The end of a lease is a time; one counted from an earlier request is earlier.
LEMMA LeaseEnds ==
    ASSUME NEW s \in Nat
    PROVE  /\ s + LeaseDuration \in Nat
           /\ \A u, e \in Nat : s <= u /\ e >= u + LeaseDuration => e >= s + LeaseDuration
BY DurationAssumption

\* The order of times, as far as it is used.
LEMMA Times ==
    ASSUME NEW x \in Nat, NEW y \in Nat, NEW z \in Nat
    PROVE  /\ x >= y /\ y > z => x > z
           /\ x <= y => x <= y + 1
           /\ x <= x /\ (~(x <= y) => x > y)
OBVIOUS

\* What the types say of one client.
LEMMA ClientTypes ==
    ASSUME IInv, DhcpTypes, NEW c \in Client
    PROVE  /\ now \in Nat
           /\ promise[c] # None => promise[c].ip \in Pool /\ promise[c].exp \in Nat
           /\ bound[c] # None => bound[c].ip \in Pool /\ bound[c].exp \in Nat
           /\ txn[c] # None => /\ txn[c] \in Transaction /\ txn[c].sent \in Nat
                               /\ txn[c].ip \in Address
                               /\ txn[c].state \in {"selecting", "requesting"}
<1>1. now \in Nat /\ promise[c] \in [ip: Pool, exp: Nat] \cup {None}
  BY DEF IInv, TypeOK
<1>2. /\ bound[c] \in [ip: Pool, exp: Nat] \cup {None}
      /\ txn[c] \in Transaction \cup {None}
  BY DEF DhcpTypes
<1>3. \A t \in Transaction : t.sent \in Nat /\ t.ip \in Address
                              /\ t.state \in {"selecting", "requesting"}
  BY DEF Transaction
<1>4. \A g \in [ip: Pool, exp: Nat] : g.ip \in Pool /\ g.exp \in Nat
  OBVIOUS
<1>. QED BY <1>1, <1>2, <1>3, <1>4, Zenon

\* A transaction that begins now.
LEMMA BeginFacts ==
    ASSUME now \in Nat, NEW s \in {"selecting", "requesting"}, NEW ip \in Address
    PROVE  /\ Begin(s, ip) \in Transaction /\ Begin(s, ip).sent <= now
           /\ Begin(s, ip).state = s /\ Begin(s, ip).ip = ip
<1>1. Begin(s, ip).sent = now /\ Begin(s, ip).state = s /\ Begin(s, ip).ip = ip
  BY DEF Begin
<1>2. Begin(s, ip) \in Transaction
  BY DEF Begin, Transaction
<1>. QED BY <1>1, <1>2, Times

-----------------------------------------------------------------------------
(* Queues of packets.                                                      *)

\* What is left when the first packet is handled or lost.
LEMMA TailFacts ==
    ASSUME NEW q \in Seq(Packet), q # <<>>
    PROVE  /\ Head(q) = q[1] /\ Head(q) \in Packet /\ 1 \in 1..Len(q)
           /\ Tail(q) \in Seq(Packet) /\ Len(Tail(q)) = Len(q) - 1 /\ Len(q) \in Nat
           /\ \A i \in 1..Len(Tail(q)) : i + 1 \in 1..Len(q) /\ Tail(q)[i] = q[i + 1]
OBVIOUS

\* Marking changes only whether packets are of the current transaction.
LEMMA MarkFacts ==
    ASSUME NEW q \in Seq(Packet), NEW b \in BOOLEAN
    PROVE  /\ Mark(q, b) \in Seq(Packet) /\ Len(Mark(q, b)) = Len(q) /\ Len(q) \in Nat
           /\ \A i \in 1..Len(q) :
                  /\ Mark(q, b)[i].type = q[i].type
                  /\ Mark(q, b)[i].requested = q[i].requested
                  /\ Mark(q, b)[i].current = q[i].current
                  /\ Mark(q, b)[i].server = q[i].server
                  /\ Mark(q, b)[i].live = (q[i].live /\ b)
<1>1. /\ Len(q) \in Nat /\ DOMAIN q = 1..Len(q)
      /\ \A i \in 1..Len(q) : q[i] \in Packet
  OBVIOUS
<1>2. ASSUME NEW i \in 1..Len(q)
      PROVE  LET m == [q[i] EXCEPT !.live = q[i].live /\ b]
             IN  /\ m \in Packet /\ m.type = q[i].type /\ m.requested = q[i].requested
                 /\ m.current = q[i].current /\ m.server = q[i].server
                 /\ m.live = (q[i].live /\ b)
  <2>1. q[i] \in Packet /\ (q[i].live /\ b) \in BOOLEAN
    BY <1>1
  <2> DEFINE v == q[i].live /\ b
             p == q[i]
  <2>2. p \in Packet /\ v \in BOOLEAN
    BY <2>1
  <2> HIDE DEF v, p
  <2>3. LET m == [p EXCEPT !.live = v]
        IN  /\ m \in Packet /\ m.type = p.type /\ m.requested = p.requested
            /\ m.current = p.current /\ m.server = p.server /\ m.live = v
    BY <2>2 DEF Packet
  <2>. QED BY <2>3 DEF v, p
<1>3. Mark(q, b) = [i \in 1..Len(q) |-> [q[i] EXCEPT !.live = q[i].live /\ b]]
  BY <1>1 DEF Mark
<1>4. Mark(q, b) \in [1..Len(q) -> Packet]
  BY <1>2, <1>3, Zenon
<1>5. Mark(q, b) \in Seq(Packet) /\ Len(Mark(q, b)) = Len(q)
  BY <1>1, <1>4
<1>6. ASSUME NEW i \in 1..Len(q)
      PROVE  /\ Mark(q, b)[i].type = q[i].type
             /\ Mark(q, b)[i].requested = q[i].requested
             /\ Mark(q, b)[i].current = q[i].current
             /\ Mark(q, b)[i].server = q[i].server
             /\ Mark(q, b)[i].live = (q[i].live /\ b)
  <2>1. Mark(q, b)[i] = [q[i] EXCEPT !.live = q[i].live /\ b]
    BY <1>3, Zenon
  <2>. QED BY <1>2, <2>1, Zenon
<1>. QED BY <1>1, <1>5, <1>6

\* The queue after a packet is sent.
LEMMA AppendFacts ==
    ASSUME NEW q \in Seq(Packet), NEW m \in Packet
    PROVE  /\ Append(q, m) \in Seq(Packet) /\ Len(Append(q, m)) = Len(q) + 1 /\ Len(q) \in Nat
           /\ Append(q, m)[Len(q) + 1] = m
           /\ \A i \in 1..Len(q) : Append(q, m)[i] = q[i]
OBVIOUS

\* The positions of a queue with one packet more.
LEMMA Positions ==
    ASSUME NEW n \in Nat
    PROVE  /\ \A i \in 1..(n + 1) : i \in 1..n \/ i = n + 1
           /\ \A i \in 1..n : \A j \in i..(n + 1) : j = n + 1 \/ (j \in 1..n /\ j \in i..n)
           /\ \A j \in (n + 1)..(n + 1) : j = n + 1
<1>1. ASSUME NEW i \in 1..(n + 1) PROVE i \in 1..n \/ i = n + 1
  OBVIOUS
<1>2. ASSUME NEW i \in 1..n, NEW j \in i..(n + 1) PROVE j = n + 1 \/ (j \in 1..n /\ j \in i..n)
  OBVIOUS
<1>3. ASSUME NEW j \in (n + 1)..(n + 1) PROVE j = n + 1
  OBVIOUS
<1>. QED BY <1>1, <1>2, <1>3, Zenon

\* Ignored and Wanted do not look at the mark.
LEMMA MarkedAlike ==
    ASSUME NEW m, NEW k, m.type = k.type, m.requested = k.requested, m.current = k.current,
           m.server = k.server, NEW ip
    PROVE  Wanted(m) = Wanted(k) /\ (Harmless(m, ip) <=> Harmless(k, ip))
BY DEF Wanted, Harmless, Ignored

-----------------------------------------------------------------------------
(* The manager under Handle.                                               *)

\* Nothing happens to the manager when the network or a client acts.
LEMMA ManagerRests == ASSUME IInv, UNCHANGED manager PROVE IInv'
<1>1. UNCHANGED vars
  BY DEF manager, vars
<1>. QED BY <1>1, StepSound

\* Only addresses of the pool are owned.
LEMMA OwnedInPool == ASSUME IInv, NEW c \in Client, NEW ip, owns(c, ip) PROVE ip \in Pool
BY DEF IInv, TypeOK, owns, HasAt, Live, Lease

\* What Handle does with the first packet m of c, as far as the manager goes.
Serves(c, m) ==
    IF Ignored(m) THEN UNCHANGED <<manager, replies>>
    ELSE \/ Discover(c, m) \/ DiscoverExhausted(c, m) \/ Request(c, m) \/ RequestRefused(c, m)
         \/ SaveFailed(c, m) \/ ReleaseOrDecline(c, m) \/ Inform(c, m)

\* Each answer is one call of the manager, so its invariant is kept.
LEMMA ServesKeepsIInv ==
    ASSUME IInv, up, NEW c \in Client, NEW m \in Packet, Serves(c, m)
    PROVE  IInv' /\ UNCHANGED <<hasFile, now>>
<1>0. NoName \in Hostname
  BY HostnameAssumption
<1>1. CASE UNCHANGED manager
  BY <1>1, ManagerRests DEF manager, config
<1>2. CASE Expire
  <2>1. ReturnUnpublished
    BY <1>2 DEF ReturnUnpublished
  <2>. QED BY <1>2, <2>1, ReturnUnpublishedStep DEF Expire, config
<1>3. CASE OfferWithFallback(c, m.requested, NoName)
  BY <1>0, <1>3, OfferStep, Zenon DEF OfferWithFallback, config
<1>4. CASE Wanted(m) \in Pool /\ CommitWithFallback(c, Wanted(m), NoName)
  <2>1. IInv'
    BY <1>0, <1>4, CommitStep
  <2>. QED BY <1>4, <2>1 DEF CommitWithFallback, config
<1>5. CASE Release(c, m.current)
  <2>1. m.current \in Pool
    BY <1>5, OwnedInPool DEF Release
  <2>. QED BY <1>5, <2>1, ReleaseStep DEF Release, config
<1>6. CASE Decline(c, m.requested)
  <2>1. m.requested \in Pool
    BY <1>6, OwnedInPool DEF Decline
  <2>. QED BY <1>6, <2>1, DeclineStep, Zenon DEF Decline, config
<1>7. \/ UNCHANGED manager \/ Expire \/ OfferWithFallback(c, m.requested, NoName)
      \/ Wanted(m) \in Pool /\ CommitWithFallback(c, Wanted(m), NoName)
      \/ Release(c, m.current) \/ Decline(c, m.requested)
  BY Zenon DEF Serves, Discover, DiscoverExhausted, Request, RequestRefused, SaveFailed,
         ReleaseOrDecline, Inform, manager
<1>. QED BY <1>1, <1>2, <1>3, <1>4, <1>5, <1>6, <1>7

\* Of the grants, only that of the client served changes; and it does not if the
\* packet is harmless, or it is made longer.
LEMMA ServesPromises ==
    ASSUME IInv, up, NEW c \in Client, NEW m \in Packet, Serves(c, m)
    PROVE  /\ \A d \in Client \ {c} : promise'[d] = promise[d]
           /\ \A ip \in Pool, e \in Nat :
                  Backed(c, ip, e) /\ Harmless(m, ip) => Backed(c, ip, e)'
<1>0. /\ promise \in [Client -> [ip: Pool, exp: Nat] \cup {None}] /\ now \in Nat
      /\ promise[c] # None => promise[c].exp <= now + LeaseDuration
  BY DEF IInv, TypeOK, GrantsBounded
<1>1. CASE promise' = promise
  BY <1>1 DEF Backed
<1>2. CASE ~Ignored(m) /\ m.type = "request" /\ CommitWithFallback(c, Wanted(m), NoName)
  <2>1. /\ m.type \notin {"discover", "inform"}
        /\ \/ promise' = [promise EXCEPT ![c] = [ip |-> Wanted(m), exp |-> now + LeaseDuration]]
           \/ promise' = GivesUpOthers(c, Wanted(m))
    BY <1>2 DEF CommitWithFallback
  <2>2. CASE promise' = [promise EXCEPT ![c] = [ip |-> Wanted(m), exp |-> now + LeaseDuration]]
    <3>1. promise'[c] = [ip |-> Wanted(m), exp |-> now + LeaseDuration]
      BY <1>0, <2>2
    <3>2. \A d \in Client \ {c} : promise'[d] = promise[d]
      BY <1>0, <2>2
    <3>3. ASSUME NEW ip \in Pool, NEW e \in Nat, Backed(c, ip, e), Harmless(m, ip)
          PROVE  Backed(c, ip, e)'
      <4>1. Wanted(m) = ip /\ promise'[c].ip = ip /\ promise'[c].exp = now + LeaseDuration
        BY <1>2, <2>1, <3>1, <3>3 DEF Harmless
      <4>2. now + LeaseDuration >= e
        BY <1>0, <3>3, DurationAssumption DEF Backed
      <4>3. promise'[c] # None
        <5>1. now + LeaseDuration \in Nat
          BY <1>0, DurationAssumption
        <5>2. promise'[c] \in [ip: Pool, exp: Nat]
          BY <3>1, <4>1, <5>1
        <5>. QED BY <5>2, GrantAssumption
      <4>. QED BY <4>1, <4>2, <4>3 DEF Backed
    <3>. QED BY <3>2, <3>3
  <2>3. CASE promise' = GivesUpOthers(c, Wanted(m))
    BY <1>0, <1>2, <2>1, <2>3 DEF GivesUpOthers, Harmless, Backed
  <2>. QED BY <2>1, <2>2, <2>3
<1>3. CASE ~Ignored(m) /\ m.type \in {"release", "decline"} /\ \E ip : promise' = GivesUp(c, ip)
  <2>1. \A ip : ~Harmless(m, ip)
    BY <1>3 DEF Harmless
  <2>2. \A d \in Client \ {c} : promise'[d] = promise[d]
    BY <1>0, <1>3 DEF GivesUp
  <2>. QED BY <2>1, <2>2
<1>4. \/ promise' = promise
      \/ ~Ignored(m) /\ m.type = "request" /\ CommitWithFallback(c, Wanted(m), NoName)
      \/ ~Ignored(m) /\ m.type \in {"release", "decline"} /\ \E ip : promise' = GivesUp(c, ip)
  <2>1. CASE Ignored(m)
    BY <2>1 DEF Serves, manager, history
  <2>2. CASE ~Ignored(m)
    <3>1. Expire => promise' = promise
      BY DEF Expire, history
    <3>2. OfferWithFallback(c, m.requested, NoName) => promise' = promise
      BY DEF OfferWithFallback, history
    <3>3. Release(c, m.current) => promise' = GivesUp(c, m.current)
      BY DEF Release
    <3>4. Decline(c, m.requested) => promise' = GivesUp(c, m.requested)
      BY DEF Decline
    <3>5. UNCHANGED manager => promise' = promise
      BY DEF manager, history
    <3>. QED BY <2>2, <3>1, <3>2, <3>3, <3>4, <3>5
         DEF Serves, Discover, DiscoverExhausted, Request, RequestRefused, SaveFailed,
             ReleaseOrDecline, Inform
  <2>. QED BY <2>1, <2>2
<1>. QED BY <1>1, <1>2, <1>3, <1>4

\* An answer goes to the client served, if it is still waiting for one; an
\* acknowledgement of an address is backed by what has just been saved.
LEMMA ServesReplies ==
    ASSUME IInv, up, DhcpTypes, NEW c \in Client, NEW m \in Packet, Serves(c, m)
    PROVE  /\ replies' \in [Client -> SUBSET Reply]
           /\ \A d \in Client \ {c} : replies'[d] = replies[d]
           /\ \A r \in replies'[c] : r \notin replies[c] /\ r.type = "ack" =>
                  /\ m.live
                  /\ \/ m.type = "inform"
                     \/ /\ m.type = "request" /\ r.ip = Wanted(m) /\ r.ip \in Pool
                        /\ Backed(c, r.ip, now + LeaseDuration)'
<1>0. replies \in [Client -> SUBSET Reply] /\ now \in Nat /\ now + LeaseDuration \in Nat
  BY DurationAssumption DEF DhcpTypes, IInv, TypeOK
<1> DEFINE Adds(r) == replies' = IF m.live THEN [replies EXCEPT ![c] = @ \cup {r}] ELSE replies
           Good(r) == r.type = "ack" =>
                          \/ m.type = "inform"
                          \/ /\ m.type = "request" /\ r.ip = Wanted(m) /\ r.ip \in Pool
                             /\ Backed(c, r.ip, now + LeaseDuration)'
<1>1. CASE replies' = replies
  BY <1>0, <1>1
<1>2. ASSUME NEW r \in Reply, Adds(r), Good(r)
      PROVE  /\ replies' \in [Client -> SUBSET Reply]
             /\ \A d \in Client \ {c} : replies'[d] = replies[d]
             /\ \A s \in replies'[c] : s \notin replies[c] /\ s.type = "ack" =>
                    m.live /\ Good(s)
  <2> HIDE DEF Good
  <2>1. CASE ~m.live
    BY <1>0, <1>2, <2>1
  <2>2. CASE m.live
    <3>1. replies' = [replies EXCEPT ![c] = replies[c] \cup {r}]
      BY <1>2, <2>2
    <3>2. replies[c] \cup {r} \in SUBSET Reply
      BY <1>0
    <3>3. replies'[c] = replies[c] \cup {r}
      BY <1>0, <3>1
    <3>. QED BY <1>0, <1>2, <2>2, <3>1, <3>2, <3>3
  <2>. QED BY <2>1, <2>2
<1>3. CASE ~Ignored(m) /\ Discover(c, m)
  <2>1. PICK ip \in OfferChoice(c, m.requested) : \E h, e :
            offers' = [Unexpired(offers) EXCEPT ![c] = [ip |-> ip, hostname |-> h, exp |-> e]]
    BY <1>3, Zenon DEF Discover, OfferWithFallback
  <2>2. ip \in Pool
    BY OfferIsFree DEF FreeFor
  <2>3. offers'[c].ip = ip
    <3>1. Unexpired(offers) \in [Client -> Entry]
      BY UnexpiredFacts DEF IInv, TypeOK, Entry
    <3>. QED BY <2>1, <3>1
  <2> DEFINE r == [type |-> "offer", ip |-> ip]
  <2>4. r \in Reply /\ r.type # "ack"
    BY <2>2, <2>3 DEF Reply
  <2>5. Adds(r)
    BY <1>3, <2>3 DEF Discover, Answer
  <2> HIDE DEF r
  <2>6. Good(r)
    BY <2>4
  <2>. QED BY <1>2, <2>4, <2>5, <2>6
<1>4. CASE ~Ignored(m) /\ Request(c, m)
  <2>1. CASE ~up'
    BY <1>1, <1>4, <2>1 DEF Request
  <2>2. CASE up'
    <3> DEFINE a == Wanted(m)
               r == [type |-> "ack", ip |-> a]
    <3>1. /\ m.type = "request" /\ a \in Pool /\ CommitWithFallback(c, a, NoName)
          /\ Answer(c, m, [type |-> "ack", ip |-> leases'[c].ip])
      BY <1>4, <2>2 DEF Request
    <3>2. /\ \E h, e : leases' = [Unexpired(leases) EXCEPT ![c] = [ip |-> a, hostname |-> h, exp |-> e]]
          /\ promise' = [promise EXCEPT ![c] = [ip |-> a, exp |-> now + LeaseDuration]]
          /\ now' = now
      BY <2>2, <3>1 DEF CommitWithFallback, publish, publishThenCrash, Halt
    <3>3. leases'[c].ip = a
      <4>1. Unexpired(leases) \in [Client -> Entry]
        BY UnexpiredFacts DEF IInv, TypeOK, Entry
      <4>. QED BY <3>2, <4>1
    <3>4. promise'[c] = [ip |-> a, exp |-> now + LeaseDuration]
      BY <3>2 DEF IInv, TypeOK
    <3>5. promise'[c] # None
      <4>1. \A x \in Pool, y \in Nat : [ip |-> x, exp |-> y] \in [ip: Pool, exp: Nat]
        OBVIOUS
      <4>2. promise'[c] \in [ip: Pool, exp: Nat]
        BY <1>0, <3>1, <3>4, <4>1, Zenon
      <4>. QED BY <4>2, GrantAssumption
    <3>6. Backed(c, a, now + LeaseDuration)'
      BY <1>0, <3>2, <3>4, <3>5 DEF Backed
    <3>7. r \in Reply /\ r.ip = a /\ Adds(r)
      BY <3>1, <3>3 DEF Reply, Answer
    <3>8. Good(r)
      BY <3>1, <3>6, <3>7
    <3> HIDE DEF r
    <3>. QED BY <1>2, <3>7, <3>8
  <2>. QED BY <2>1, <2>2
<1>5. CASE ~Ignored(m) /\ RequestRefused(c, m)
  <2> DEFINE r == [type |-> "nak", ip |-> NoAddr]
  <2>1. r \in Reply /\ r.type # "ack" /\ Adds(r)
    BY <1>5 DEF Reply, RequestRefused, Answer
  <2>2. Good(r)
    BY <2>1
  <2> HIDE DEF r
  <2>. QED BY <1>2, <2>1, <2>2
<1>6. CASE ~Ignored(m) /\ Inform(c, m)
  <2> DEFINE r == [type |-> "ack", ip |-> NoAddr]
  <2>1. r \in Reply /\ m.type = "inform" /\ Adds(r)
    BY <1>6 DEF Reply, Inform, Answer
  <2>2. Good(r)
    BY <2>1
  <2> HIDE DEF r
  <2>. QED BY <1>2, <2>1, <2>2
<1>7. CASE Ignored(m) \/ DiscoverExhausted(c, m) \/ SaveFailed(c, m) \/ ReleaseOrDecline(c, m)
  BY <1>1, <1>7, Zenon DEF Serves, DiscoverExhausted, SaveFailed, ReleaseOrDecline
<1>. QED BY <1>3, <1>4, <1>5, <1>6, <1>7 DEF Serves

-----------------------------------------------------------------------------
(* The steps of the server and the network.                                *)

\* An acknowledgement under way stays good when nothing it speaks of changes.
LEMMA AckKept ==
    ASSUME NEW d \in Client, AckInv(d), wire'[d] = wire[d], replies'[d] = replies[d],
           txn'[d] = txn[d], promise'[d] = promise[d]
    PROVE  AckInv(d)'
<1>1. ASSUME NEW r \in replies'[d], r.type = "ack"
      PROVE  /\ txn'[d] # None /\ txn'[d].state = "requesting" /\ r.ip = txn'[d].ip
             /\ Backed(d, r.ip, txn[d].sent + LeaseDuration)'
             /\ \A i \in 1..Len(wire'[d]) : wire'[d][i].live
  <2>1. /\ txn[d] # None /\ txn[d].state = "requesting" /\ r.ip = txn[d].ip
        /\ Backed(d, r.ip, txn[d].sent + LeaseDuration)
        /\ \A i \in 1..Len(wire[d]) : wire[d][i].live
    BY <1>1, Zenon DEF AckInv
  <2>2. Backed(d, r.ip, txn[d].sent + LeaseDuration)'
    BY <2>1, Zenon DEF Backed
  <2>. QED BY <2>1, <2>2, Zenon
<1>. QED BY <1>1, Zenon DEF AckInv

\* A client whose packets, answers, transaction, address and grant are left alone.
LEMMA Untouched ==
    ASSUME NEW d \in Client, ClientInv(d), wire'[d] = wire[d], replies'[d] = replies[d],
           txn'[d] = txn[d], bound'[d] = bound[d], promise'[d] = promise[d], now' = now
    PROVE  ClientInv(d)'
<1>1. WireInv(d)'
  BY Zenon DEF ClientInv, WireInv
<1>3. AckInv(d)'
  BY AckKept, Zenon DEF ClientInv
<1>4. BoundInv(d)'
  BY Zenon DEF ClientInv, BoundInv, Backed
<1>. QED BY <1>1, <1>3, <1>4, Zenon DEF ClientInv

\* The queue of c without its first k packets.
Shifted(c, k) ==
    /\ Len(wire'[c]) = Len(wire[c]) - k /\ Len(wire'[c]) \in Nat /\ Len(wire[c]) \in Nat
    /\ \A i \in 1..Len(wire'[c]) : i + k \in 1..Len(wire[c]) /\ wire'[c][i] = wire[c][i + k]

\* Serving or losing a packet, or serving one that will come again.
LEMMA ShiftedWire ==
    ASSUME DhcpTypes, NEW c \in Client, wire[c] # <<>>,
           wire' = wire \/ wire' = [wire EXCEPT ![c] = Tail(@)]
    PROVE  /\ wire' \in [Client -> Seq(Packet)]
           /\ \A d \in Client \ {c} : wire'[d] = wire[d]
           /\ \E k \in {0, 1} : Shifted(c, k)
<1>1. wire \in [Client -> Seq(Packet)] /\ wire[c] \in Seq(Packet)
  BY DEF DhcpTypes
<1>2. CASE wire' = wire
  <2>1. Shifted(c, 0)
    BY <1>1, <1>2 DEF Shifted
  <2>. QED BY <1>1, <1>2, <2>1
<1>3. CASE wire' = [wire EXCEPT ![c] = Tail(@)]
  <2>1. /\ Tail(wire[c]) \in Seq(Packet) /\ Len(Tail(wire[c])) = Len(wire[c]) - 1
        /\ Len(wire[c]) \in Nat /\ Len(Tail(wire[c])) \in Nat
        /\ \A i \in 1..Len(Tail(wire[c])) :
               i + 1 \in 1..Len(wire[c]) /\ Tail(wire[c])[i] = wire[c][i + 1]
    BY <1>1, TailFacts
  <2>2. wire'[c] = Tail(wire[c])
    BY <1>1, <1>3
  <2>3. Shifted(c, 1)
    BY <2>1, <2>2 DEF Shifted
  <2>. QED BY <1>1, <1>3, <2>1, <2>3
<1>. QED BY <1>2, <1>3

\* With fewer packets under way, what was true of all of them still is.
LEMMA ShiftedInv ==
    ASSUME NEW c \in Client, NEW k \in {0, 1}, Shifted(c, k), WireInv(c),
           txn'[c] = txn[c], bound'[c] = bound[c]
    PROVE  /\ WireInv(c)'
           /\ (\A i \in 1..Len(wire[c]) : wire[c][i].live)
                  => \A i \in 1..Len(wire'[c]) : wire'[c][i].live
           /\ \A ip : (\A i \in 1..Len(wire[c]) : Harmless(wire[c][i], ip))
                  => \A i \in 1..Len(wire'[c]) : Harmless(wire'[c][i], ip)
<1>1. /\ Len(wire'[c]) = Len(wire[c]) - k /\ Len(wire'[c]) \in Nat /\ Len(wire[c]) \in Nat
      /\ \A i \in 1..Len(wire'[c]) : i + k \in 1..Len(wire[c]) /\ wire'[c][i] = wire[c][i + k]
  BY DEF Shifted
<1>2. WireInv(c)'
  <2> SUFFICES ASSUME NEW i \in 1..Len(wire'[c]), wire'[c][i].live
               PROVE  /\ txn[c] # None
                      /\ \A j \in i..Len(wire'[c]) : wire'[c][j].live
                      /\ txn[c].state = "selecting" => wire'[c][i].type = "discover"
                      /\ txn[c].state = "requesting" =>
                             wire'[c][i].type = "request" /\ Wanted(wire'[c][i]) = txn[c].ip
    BY DEF WireInv
  <2>1. /\ i + k \in 1..Len(wire[c]) /\ wire'[c][i] = wire[c][i + k]
    BY <1>1
  <2>2. /\ txn[c] # None
        /\ \A j \in (i + k)..Len(wire[c]) : wire[c][j].live
        /\ txn[c].state = "selecting" => wire[c][i + k].type = "discover"
        /\ txn[c].state = "requesting" =>
               wire[c][i + k].type = "request" /\ Wanted(wire[c][i + k]) = txn[c].ip
    BY <2>1 DEF WireInv
  <2>3. ASSUME NEW j \in i..Len(wire'[c]) PROVE wire'[c][j].live
    <3>1. j \in 1..Len(wire'[c]) /\ j + k \in (i + k)..Len(wire[c])
      BY <1>1
    <3>. QED BY <1>1, <2>2, <3>1, Zenon
  <2>. QED BY <2>1, <2>2, <2>3
<1>. QED BY <1>1, <1>2

\* Handle: one packet of one client is served.
LEMMA HandleKeepsInv == ASSUME DhcpInv, NEW c \in Client, Handle(c) PROVE DhcpInv'
<1> DEFINE m == wire[c][1]
<1>1. /\ up /\ wire[c] # <<>> /\ m = Head(wire[c]) /\ m \in Packet /\ 1 \in 1..Len(wire[c])
      /\ wire' = wire \/ wire' = [wire EXCEPT ![c] = Tail(@)]
      /\ Serves(c, m) /\ UNCHANGED <<txn, bound>>
  <2>1. wire[c] \in Seq(Packet) /\ wire[c] # <<>>
    BY DEF DhcpInv, DhcpTypes, Handle
  <2>2. m = Head(wire[c]) /\ m \in Packet /\ 1 \in 1..Len(wire[c])
    BY <2>1, TailFacts
  <2>. QED BY <2>1, <2>2 DEF Handle, Serves
<1> HIDE DEF m
<1>0. IInv /\ hasFile /\ DhcpTypes
  BY DEF DhcpInv
<1>2. IInv' /\ hasFile' /\ now' = now
  BY <1>0, <1>1, ServesKeepsIInv, Zenon
<1>3. /\ wire' \in [Client -> Seq(Packet)]
      /\ \A d \in Client \ {c} : wire'[d] = wire[d]
      /\ \E k \in {0, 1} : Shifted(c, k)
  BY <1>0, <1>1, ShiftedWire, Zenon
<1>4. /\ replies' \in [Client -> SUBSET Reply]
      /\ \A d \in Client \ {c} : replies'[d] = replies[d]
      /\ \A r \in replies'[c] : r \notin replies[c] /\ r.type = "ack" =>
             /\ m.live
             /\ \/ m.type = "inform"
                \/ /\ m.type = "request" /\ r.ip = Wanted(m) /\ r.ip \in Pool
                   /\ Backed(c, r.ip, now + LeaseDuration)'
  BY <1>1, ServesReplies DEF DhcpInv
<1>5. /\ \A d \in Client \ {c} : promise'[d] = promise[d]
      /\ \A ip \in Pool, e \in Nat : Backed(c, ip, e) /\ Harmless(m, ip) => Backed(c, ip, e)'
  BY <1>1, ServesPromises DEF DhcpInv
<1>6. DhcpTypes'
  BY <1>1, <1>3, <1>4 DEF DhcpInv, DhcpTypes
<1>7. ASSUME NEW d \in Client, d # c PROVE ClientInv(d)'
  <2>1. /\ ClientInv(d) /\ wire'[d] = wire[d] /\ replies'[d] = replies[d] /\ txn'[d] = txn[d]
        /\ bound'[d] = bound[d] /\ promise'[d] = promise[d] /\ now' = now
    BY <1>1, <1>2, <1>3, <1>4, <1>5, <1>7, Zenon DEF DhcpInv
  <2>. QED BY <2>1, Untouched
<1>8. ClientInv(c)'
  <2>0. ClientInv(c) /\ txn'[c] = txn[c] /\ bound'[c] = bound[c] /\ WireInv(c)
    BY <1>1 DEF DhcpInv, ClientInv
  <2>1. /\ WireInv(c)'
        /\ (\A i \in 1..Len(wire[c]) : wire[c][i].live)
               => \A i \in 1..Len(wire'[c]) : wire'[c][i].live
        /\ \A ip : (\A i \in 1..Len(wire[c]) : Harmless(wire[c][i], ip))
               => \A i \in 1..Len(wire'[c]) : Harmless(wire'[c][i], ip)
    BY <1>3, <2>0, ShiftedInv, Zenon
  <2>2. m.live =>
            /\ txn[c] # None /\ \A i \in 1..Len(wire[c]) : wire[c][i].live
            /\ txn[c].state = "selecting" => m.type = "discover"
            /\ txn[c].state = "requesting" => m.type = "request" /\ Wanted(m) = txn[c].ip
    BY <1>1, <2>0 DEF WireInv, m
  <2>3. txn[c] # None => /\ txn[c].state \in {"selecting", "requesting"} /\ txn[c].sent \in Nat
                         /\ txn[c].sent <= now
    BY <2>0 DEF DhcpInv, DhcpTypes, Transaction, ClientInv
  <2>4. AckInv(c)'
    <3> SUFFICES ASSUME NEW r \in replies'[c], r.type = "ack"
                 PROVE  /\ txn[c] # None /\ txn[c].state = "requesting" /\ r.ip = txn[c].ip
                        /\ Backed(c, r.ip, txn[c].sent + LeaseDuration)'
                        /\ \A i \in 1..Len(wire'[c]) : wire'[c][i].live
      BY <2>0 DEF AckInv, Backed
    <3>1. CASE r \in replies[c]
      <4>1. /\ txn[c] # None /\ txn[c].state = "requesting" /\ r.ip = txn[c].ip
            /\ Backed(c, r.ip, txn[c].sent + LeaseDuration)
            /\ \A i \in 1..Len(wire[c]) : wire[c][i].live
        BY <2>0, <3>1 DEF ClientInv, AckInv
      <4>2. m.live
        BY <1>1, <4>1 DEF m
      <4>3. Harmless(m, r.ip)
        BY <2>2, <4>1, <4>2 DEF Harmless
      <4>4. r.ip \in Pool /\ txn[c].sent + LeaseDuration \in Nat
        <5>1. promise[c].ip = r.ip /\ promise[c] # None /\ IInv /\ DhcpTypes
          BY <4>1 DEF Backed, DhcpInv
        <5>2. r.ip \in Pool /\ txn[c].sent \in Nat
          BY <4>1, <5>1, ClientTypes
        <5>. QED BY <5>2, LeaseEnds
      <4>5. Backed(c, r.ip, txn[c].sent + LeaseDuration)'
        BY <1>5, <2>0, <4>1, <4>3, <4>4 DEF Backed
      <4>. QED BY <2>1, <4>1, <4>5
    <3>2. CASE r \notin replies[c]
      <4>1. /\ m.live
            /\ \/ m.type = "inform"
               \/ /\ m.type = "request" /\ r.ip = Wanted(m) /\ r.ip \in Pool
                  /\ Backed(c, r.ip, now + LeaseDuration)'
        BY <1>4, <3>2
      <4>2. /\ m.type = "request" /\ r.ip = Wanted(m) /\ Backed(c, r.ip, now + LeaseDuration)'
            /\ txn[c] # None /\ txn[c].state = "requesting" /\ r.ip = txn[c].ip
        BY <2>2, <2>3, <4>1
      <4>3. Backed(c, r.ip, txn[c].sent + LeaseDuration)'
        <5>1. /\ promise'[c] # None /\ promise'[c].ip = r.ip
              /\ promise'[c].exp >= now + LeaseDuration
          BY <1>2, <4>2 DEF Backed
        <5>2. promise'[c].exp \in Nat /\ now \in Nat /\ txn[c].sent \in Nat /\ txn[c].sent <= now
          <6>1. promise'[c] # None => promise'[c].exp \in Nat
            BY <1>2 DEF IInv, TypeOK
          <6>. QED BY <1>0, <2>3, <4>2, <5>1, <6>1, ClientTypes, Zenon
        <5>3. promise'[c].exp >= txn[c].sent + LeaseDuration
          BY <5>1, <5>2, LeaseEnds
        <5>. QED BY <2>0, <5>1, <5>3 DEF Backed
      <4>. QED BY <2>1, <2>2, <4>1, <4>2, <4>3, Zenon
    <3>. QED BY <3>1, <3>2
  <2>5. BoundInv(c)'
    <3> SUFFICES ASSUME bound[c] # None
                 PROVE  /\ Backed(c, bound[c].ip, bound[c].exp)' /\ bound[c].exp > now
                        /\ \A i \in 1..Len(wire'[c]) : Harmless(wire'[c][i], bound[c].ip)
                        /\ txn[c] # None => txn[c].state = "requesting" /\ txn[c].ip = bound[c].ip
      BY <1>2, <2>0 DEF BoundInv, Backed
    <3>1. /\ Backed(c, bound[c].ip, bound[c].exp) /\ bound[c].exp > now
          /\ \A i \in 1..Len(wire[c]) : Harmless(wire[c][i], bound[c].ip)
          /\ txn[c] # None => txn[c].state = "requesting" /\ txn[c].ip = bound[c].ip
      BY <2>0 DEF ClientInv, BoundInv
    <3>2. Harmless(m, bound[c].ip) /\ bound[c].ip \in Pool /\ bound[c].exp \in Nat
      BY <1>1, <3>1, Zenon DEF m, DhcpInv, DhcpTypes
    <3>3. Backed(c, bound[c].ip, bound[c].exp)'
      BY <1>5, <2>0, <3>1, <3>2, Zenon DEF Backed
    <3>. QED BY <2>1, <3>1, <3>3, Zenon
  <2>. QED BY <1>2, <2>0, <2>1, <2>4, <2>5 DEF ClientInv
<1>. QED BY <1>2, <1>6, <1>7, <1>8 DEF DhcpInv

\* The network loses a packet.
LEMMA LoseKeepsInv == ASSUME DhcpInv, NEW c \in Client, Lose(c) PROVE DhcpInv'
<1>1. /\ wire[c] # <<>> /\ wire' = [wire EXCEPT ![c] = Tail(@)]
      /\ UNCHANGED <<manager, replies, txn, bound>>
      /\ DhcpTypes
  BY DEF Lose, clients, DhcpInv
<1>2. IInv' /\ UNCHANGED <<hasFile, now, promise>>
  BY <1>1, ManagerRests DEF DhcpInv, manager, config, history
<1>3. /\ wire' \in [Client -> Seq(Packet)]
      /\ \A d \in Client \ {c} : wire'[d] = wire[d]
      /\ \E k \in {0, 1} : Shifted(c, k)
  BY <1>1, ShiftedWire, Zenon
<1>4. DhcpTypes'
  BY <1>1, <1>3 DEF DhcpInv, DhcpTypes
<1>5. ASSUME NEW d \in Client, d # c PROVE ClientInv(d)'
  BY <1>1, <1>2, <1>3, <1>5, Untouched, Zenon DEF DhcpInv
<1>6. ClientInv(c)'
  <2>1. ClientInv(c) /\ WireInv(c)
    BY DEF DhcpInv, ClientInv
  <2>2. /\ WireInv(c)'
        /\ (\A i \in 1..Len(wire[c]) : wire[c][i].live)
               => \A i \in 1..Len(wire'[c]) : wire'[c][i].live
        /\ \A ip : (\A i \in 1..Len(wire[c]) : Harmless(wire[c][i], ip))
               => \A i \in 1..Len(wire'[c]) : Harmless(wire'[c][i], ip)
    BY <1>1, <1>3, <2>1, ShiftedInv
  <2>3. AckInv(c)'
    BY <1>1, <1>2, <2>1, <2>2 DEF ClientInv, AckInv, Backed
  <2>4. BoundInv(c)'
    BY <1>1, <1>2, <2>1, <2>2, Zenon DEF ClientInv, BoundInv, Backed
  <2>. QED BY <1>1, <1>2, <2>1, <2>2, <2>3, <2>4, Zenon DEF ClientInv
<1>. QED BY <1>2, <1>4, <1>5, <1>6 DEF DhcpInv

-----------------------------------------------------------------------------
(* The steps of a client.                                                  *)

\* Packet k is packet m, but for its mark.
Alike(k, m) ==
    k.type = m.type /\ k.requested = m.requested /\ k.current = m.current /\ k.server = m.server

\* The state after c has sent packet p and is in transaction t.
Sent(c, p, t) ==
    /\ wire' \in [Client -> Seq(Packet)] /\ Len(wire[c]) \in Nat
    /\ \A d \in Client \ {c} : wire'[d] = wire[d]
    /\ Len(wire'[c]) = Len(wire[c]) + 1 /\ wire'[c][Len(wire[c]) + 1] = p
    /\ \A i \in 1..Len(wire[c]) :
           Alike(wire'[c][i], wire[c][i]) /\ wire'[c][i].live = (wire[c][i].live /\ t = txn[c])
    /\ txn' = [txn EXCEPT ![c] = t]
    /\ replies' = IF t = txn[c] THEN replies ELSE [replies EXCEPT ![c] = {}]
    /\ UNCHANGED manager

\* Send does that.
LEMMA SendFacts ==
    ASSUME DhcpTypes, NEW c \in Client, NEW type, NEW requested, NEW current, NEW server, NEW t,
           Send(c, type, requested, current, server, t),
           [type |-> type, requested |-> requested, current |-> current,
            server |-> server, live |-> t # None] \in Packet
    PROVE  Sent(c, [type |-> type, requested |-> requested, current |-> current,
                    server |-> server, live |-> t # None], t)
<1> DEFINE p == [type |-> type, requested |-> requested, current |-> current,
                 server |-> server, live |-> t # None]
           b == t = txn[c]
           q == Mark(wire[c], b)
<1>1. /\ wire' = [wire EXCEPT ![c] = Append(q, p)]
      /\ txn' = [txn EXCEPT ![c] = t]
      /\ replies' = IF t = txn[c] THEN replies ELSE [replies EXCEPT ![c] = {}]
      /\ UNCHANGED manager
  BY DEF Send
<1>2. wire \in [Client -> Seq(Packet)] /\ wire[c] \in Seq(Packet) /\ p \in Packet /\ b \in BOOLEAN
  BY DEF DhcpTypes
<1> HIDE DEF p, b
<1>3. /\ q \in Seq(Packet) /\ Len(q) = Len(wire[c]) /\ Len(wire[c]) \in Nat
      /\ \A i \in 1..Len(wire[c]) :
             Alike(q[i], wire[c][i]) /\ q[i].live = (wire[c][i].live /\ b)
  BY <1>2, MarkFacts DEF Alike
<1> HIDE DEF q
<1>4. /\ Append(q, p) \in Seq(Packet) /\ Len(Append(q, p)) = Len(q) + 1
      /\ Append(q, p)[Len(q) + 1] = p
      /\ \A i \in 1..Len(q) : Append(q, p)[i] = q[i]
  BY <1>2, <1>3, AppendFacts
<1>5. wire'[c] = Append(q, p) /\ wire' \in [Client -> Seq(Packet)]
      /\ \A d \in Client \ {c} : wire'[d] = wire[d]
  BY <1>1, <1>2, <1>4
<1>6. Sent(c, p, t)
  BY <1>1, <1>3, <1>4, <1>5 DEF Sent, b
<1>. QED BY <1>6 DEF p

\* A client that sends p, and with it keeps its address or gives it up.
LEMMA SentKeepsInv ==
    ASSUME DhcpInv, NEW c \in Client, NEW p \in Packet, NEW t \in Transaction \cup {None},
           Sent(c, p, t), p.live = (t # None),
           bound' = bound \/ bound' = [bound EXCEPT ![c] = None],
           t # None => /\ t.sent <= now
                       /\ t.state = "selecting" => p.type = "discover"
                       /\ t.state = "requesting" => p.type = "request" /\ Wanted(p) = t.ip,
           bound'[c] # None => /\ Harmless(p, bound[c].ip)
                               /\ t # None => t.state = "requesting" /\ t.ip = bound[c].ip
    PROVE  DhcpInv'
<1>1. IInv' /\ UNCHANGED <<hasFile, now, promise>>
  BY ManagerRests DEF Sent, DhcpInv, manager, config, history
<1>2. /\ txn \in [Client -> Transaction \cup {None}] /\ replies \in [Client -> SUBSET Reply]
      /\ bound \in [Client -> [ip: Pool, exp: Nat] \cup {None}]
  BY DEF DhcpInv, DhcpTypes
<1>3. /\ txn' = [txn EXCEPT ![c] = t] /\ wire' \in [Client -> Seq(Packet)]
      /\ replies' = IF t = txn[c] THEN replies ELSE [replies EXCEPT ![c] = {}]
      /\ \A d \in Client \ {c} : wire'[d] = wire[d]
  BY DEF Sent
<1>4. DhcpTypes'
  BY <1>2, <1>3, Zenon DEF DhcpTypes
<1>5. ASSUME NEW d \in Client, d # c PROVE ClientInv(d)'
  <2>1. /\ txn'[d] = txn[d] /\ replies'[d] = replies[d] /\ bound'[d] = bound[d]
        /\ wire'[d] = wire[d] /\ promise'[d] = promise[d] /\ now' = now /\ ClientInv(d)
    BY <1>1, <1>2, <1>3, <1>5 DEF DhcpInv
  <2>. QED BY <2>1, Untouched
<1>6. ClientInv(c)'
  <2> DEFINE n == Len(wire[c])
  <2>0. /\ n \in Nat /\ Len(wire'[c]) = n + 1 /\ wire'[c][n + 1] = p
        /\ \A i \in 1..n :
               Alike(wire'[c][i], wire[c][i]) /\ wire'[c][i].live = (wire[c][i].live /\ t = txn[c])
    BY DEF Sent
  <2> HIDE DEF n
  <2>00. /\ \A i \in 1..(n + 1) : i \in 1..n \/ i = n + 1
         /\ \A i \in 1..n : \A j \in i..(n + 1) : j = n + 1 \/ (j \in 1..n /\ j \in i..n)
         /\ \A j \in (n + 1)..(n + 1) : j = n + 1
    BY <2>0, Positions
  <2>1. /\ txn'[c] = t /\ replies'[c] = IF t = txn[c] THEN replies[c] ELSE {}
        /\ bound'[c] # None => bound'[c] = bound[c]
    BY <1>2, <1>3
  <2>2. WireInv(c) /\ AckInv(c) /\ BoundInv(c)
    BY DEF DhcpInv, ClientInv
  <2>3. WireInv(c)'
    <3> SUFFICES ASSUME NEW i \in 1..(n + 1), wire'[c][i].live
                 PROVE  /\ t # None
                        /\ \A j \in i..(n + 1) : wire'[c][j].live
                        /\ t.state = "selecting" => wire'[c][i].type = "discover"
                        /\ t.state = "requesting" =>
                               wire'[c][i].type = "request" /\ Wanted(wire'[c][i]) = t.ip
      BY <2>0, <2>1 DEF WireInv
    <3>1. CASE i = n + 1
      <4>1. \A j \in i..(n + 1) : j = n + 1
        BY <2>00, <3>1
      <4>. QED BY <2>0, <3>1, <4>1, Zenon
    <3>2. CASE i \in 1..n
      <4>1. wire[c][i].live /\ t = txn[c] /\ Alike(wire'[c][i], wire[c][i])
        BY <2>0, <3>2, Zenon
      <4>2. /\ t # None /\ \A j \in i..n : wire[c][j].live
            /\ t.state = "selecting" => wire[c][i].type = "discover"
            /\ t.state = "requesting" => wire[c][i].type = "request" /\ Wanted(wire[c][i]) = t.ip
        BY <2>2, <3>2, <4>1 DEF WireInv, n
      <4>3. Wanted(wire'[c][i]) = Wanted(wire[c][i]) /\ wire'[c][i].type = wire[c][i].type
        BY <4>1, MarkedAlike DEF Alike
      <4>4. ASSUME NEW j \in i..(n + 1) PROVE wire'[c][j].live
        <5>1. j = n + 1 \/ (j \in 1..n /\ j \in i..n)
          BY <2>00, <3>2
        <5>. QED BY <2>0, <4>1, <4>2, <5>1
      <4>. QED BY <4>2, <4>3, <4>4
    <3>. QED BY <2>00, <3>1, <3>2
  <2>4. AckInv(c)'
    <3> SUFFICES ASSUME NEW r \in replies'[c], r.type = "ack"
                 PROVE  /\ t # None /\ t.state = "requesting" /\ r.ip = t.ip
                        /\ Backed(c, r.ip, t.sent + LeaseDuration)
                        /\ \A i \in 1..(n + 1) : wire'[c][i].live
      BY <1>1, <2>0, <2>1 DEF AckInv, Backed
    <3>1. t = txn[c] /\ r \in replies[c]
      BY <2>1
    <3>2. /\ t # None /\ t.state = "requesting" /\ r.ip = t.ip
          /\ Backed(c, r.ip, t.sent + LeaseDuration)
          /\ \A i \in 1..n : wire[c][i].live
      BY <2>2, <3>1 DEF AckInv, n
    <3>3. \A i \in 1..(n + 1) : wire'[c][i].live
      BY <2>0, <2>00, <3>1, <3>2, Zenon
    <3>. QED BY <3>2, <3>3
  <2>5. BoundInv(c)'
    <3> SUFFICES ASSUME bound'[c] # None
                 PROVE  /\ Backed(c, bound[c].ip, bound[c].exp) /\ bound[c].exp > now
                        /\ \A i \in 1..(n + 1) : Harmless(wire'[c][i], bound[c].ip)
                        /\ t # None => t.state = "requesting" /\ t.ip = bound[c].ip
      BY <1>1, <2>0, <2>1 DEF BoundInv, Backed
    <3>1. /\ Backed(c, bound[c].ip, bound[c].exp) /\ bound[c].exp > now
          /\ \A i \in 1..n : Harmless(wire[c][i], bound[c].ip)
      BY <2>1, <2>2 DEF BoundInv, n
    <3>2. ASSUME NEW i \in 1..n PROVE Harmless(wire'[c][i], bound[c].ip)
      BY <2>0, <3>1, MarkedAlike, Zenon DEF Alike
    <3>. QED BY <2>0, <2>00, <3>1, <3>2
  <2>. QED BY <1>1, <2>1, <2>3, <2>4, <2>5 DEF ClientInv
<1>. QED BY <1>1, <1>4, <1>5, <1>6 DEF DhcpInv

\* Everything a client sends.
LEMMA ClientSendsKeepsInv ==
    ASSUME DhcpInv, NEW c \in Client,
           \/ \E a \in Pool \cup {NoAddr} : SendDiscover(c, a)
           \/ SendSelect(c)
           \/ \E a \in Pool \cup {Foreign} : SendReboot(c, a)
           \/ SendRenew(c) \/ Retransmit(c) \/ SendOdd(c) \/ SendGiveUp(c)
    PROVE  DhcpInv'
<1> DEFINE P(type, requested, current, server, t) ==
               [type |-> type, requested |-> requested, current |-> current,
                server |-> server, live |-> t # None]
<1>0. /\ DhcpTypes /\ now \in Nat /\ Pool \subseteq Address /\ Foreign \in Address /\ NoAddr \in Address
      /\ NoAddr \notin Pool /\ bound[c] \in [ip: Pool, exp: Nat] \cup {None}
      /\ txn[c] \in Transaction \cup {None} /\ replies[c] \subseteq Reply
  <2>1. Pool \subseteq Address /\ Foreign \in Address /\ NoAddr \in Address
    BY DEF Address
  <2>2. NoAddr \notin Pool
    BY PoolAssumption DEF Pool, NoAddr
  <2>3. DhcpTypes /\ now \in Nat
    BY DEF DhcpInv, IInv, TypeOK
  <2>4. /\ bound[c] \in [ip: Pool, exp: Nat] \cup {None}
        /\ txn[c] \in Transaction \cup {None} /\ replies[c] \subseteq Reply
    BY <2>3 DEF DhcpTypes
  <2>. QED BY <2>1, <2>2, <2>3, <2>4
<1>1. /\ \A t : t \in Transaction => t.sent \in Nat /\ t.ip \in Address
                                     /\ t.state \in {"selecting", "requesting"}
      /\ \A s \in {"selecting", "requesting"}, ip \in Address : Begin(s, ip) \in Transaction
  BY <1>0 DEF Transaction, Begin
<1>2. ASSUME NEW type \in {"discover", "request", "release", "decline", "inform"},
             NEW requested \in Address, NEW current \in Address, NEW server \in Servers,
             NEW t \in Transaction \cup {None}, Send(c, type, requested, current, server, t),
             bound' = bound \/ bound' = [bound EXCEPT ![c] = None],
             t # None => /\ t.sent <= now
                         /\ t.state = "selecting" => type = "discover"
                         /\ t.state = "requesting" =>
                                type = "request" /\ (IF current # NoAddr THEN current ELSE requested) = t.ip,
             bound'[c] # None => /\ Harmless(P(type, requested, current, server, t), bound[c].ip)
                                 /\ t # None => t.state = "requesting" /\ t.ip = bound[c].ip
      PROVE  DhcpInv'
  <2> DEFINE p == P(type, requested, current, server, t)
  <2>1. /\ p \in Packet /\ p.live = (t # None) /\ p.type = type
        /\ Wanted(p) = IF current # NoAddr THEN current ELSE requested
    BY DEF Packet, Wanted
  <2>2. Sent(c, p, t)
    BY <1>0, <1>2, <2>1, SendFacts
  <2> HIDE DEF P
  <2>3. bound'[c] # None => /\ Harmless(p, bound[c].ip)
                            /\ t # None => t.state = "requesting" /\ t.ip = bound[c].ip
    BY <1>2
  <2> HIDE DEF p
  <2>. QED BY <1>2, <2>1, <2>2, <2>3, SentKeepsInv
<1>3. ASSUME NEW a \in Pool \cup {NoAddr}, SendDiscover(c, a) PROVE DhcpInv'
  <2> DEFINE t == Begin("selecting", NoAddr)
  <2>1. /\ Send(c, "discover", a, NoAddr, "none", t) /\ bound' = bound /\ bound[c] = None
        /\ t \in Transaction /\ t.sent <= now /\ t.state = "selecting" /\ a \in Address
    BY <1>0, <1>3, BeginFacts DEF SendDiscover
  <2> HIDE DEF t
  <2>. QED BY <1>0, <1>2, <2>1 DEF Servers
<1>4. CASE SendSelect(c)
  <2>0. txn[c] # None /\ txn[c].state = "selecting" /\ bound' = bound
    BY <1>4 DEF SendSelect
  <2>1. bound[c] = None
    BY <2>0 DEF DhcpInv, ClientInv, BoundInv
  <2>2. ASSUME NEW r \in replies[c], Send(c, "request", r.ip, NoAddr, "us", Begin("requesting", r.ip))
        PROVE  DhcpInv'
    <3> DEFINE t == Begin("requesting", r.ip)
    <3>1. r.ip \in Address
      BY <1>0 DEF Reply, Address
    <3>2. t \in Transaction /\ t.sent <= now /\ t.state = "requesting" /\ t.ip = r.ip
      BY <1>0, <3>1, BeginFacts
    <3>3. Send(c, "request", r.ip, NoAddr, "us", t)
      BY <2>2
    <3> HIDE DEF t
    <3>. QED BY <1>0, <1>2, <2>0, <2>1, <3>1, <3>2, <3>3 DEF Servers
  <2>3. ASSUME Send(c, "request", Foreign, NoAddr, "other", None) PROVE DhcpInv'
    BY <1>0, <1>2, <2>0, <2>1, <2>3 DEF Servers
  <2>. QED BY <1>4, <2>2, <2>3 DEF SendSelect
<1>5. ASSUME NEW a \in Pool \cup {Foreign}, SendReboot(c, a) PROVE DhcpInv'
  <2> DEFINE t == Begin("requesting", a)
  <2>1. /\ Send(c, "request", a, NoAddr, "none", t) /\ bound' = bound /\ bound[c] = None
        /\ t \in Transaction /\ t.sent <= now /\ t.state = "requesting" /\ t.ip = a /\ a \in Address
    BY <1>0, <1>5, BeginFacts DEF SendReboot
  <2> HIDE DEF t
  <2>. QED BY <1>0, <1>2, <2>1 DEF Servers
<1>6. CASE SendRenew(c)
  <2> DEFINE a == bound[c].ip
             t == Begin("requesting", a)
  <2>0. bound[c] # None /\ a \in Pool /\ a \in Address /\ a # NoAddr
    BY <1>0, <1>6 DEF SendRenew
  <2>1. /\ Send(c, "request", NoAddr, a, "none", t) /\ bound' = bound
        /\ t \in Transaction /\ t.sent <= now /\ t.state = "requesting" /\ t.ip = a
    BY <1>0, <1>6, <2>0, BeginFacts DEF SendRenew
  <2> HIDE DEF t
  <2>2. Harmless(P("request", NoAddr, a, "none", t), a)
    BY <2>0 DEF Harmless, Wanted
  <2>. QED BY <1>0, <1>2, <2>0, <2>1, <2>2 DEF Servers
<1>7. CASE Retransmit(c)
  <2> DEFINE t == txn[c]
             a == txn[c].ip
  <2>0. /\ t # None /\ t.state = "requesting" /\ t \in Transaction /\ a \in Address /\ bound' = bound
        /\ t.sent <= now
        /\ bound[c] # None => a = bound[c].ip /\ a # NoAddr
    BY <1>0, <1>1, <1>7 DEF Retransmit, DhcpInv, ClientInv, BoundInv
  <2>1. CASE bound[c] # None
    <3>1. Send(c, "request", NoAddr, a, "none", t)
      BY <1>7, <2>1 DEF Retransmit
    <3>2. Harmless(P("request", NoAddr, a, "none", t), a)
      BY <2>0, <2>1, Zenon DEF Harmless, Wanted
    <3>. QED BY <1>0, <1>2, <2>0, <2>1, <3>1, <3>2, Zenon DEF Servers
  <2>2. CASE bound[c] = None
    <3>1. Send(c, "request", a, NoAddr, "us", t)
      BY <1>7, <2>2 DEF Retransmit
    <3>. QED BY <1>0, <1>2, <2>0, <2>2, <3>1, Zenon DEF Servers
  <2>. QED BY <2>1, <2>2
<1>8. CASE SendOdd(c)
  <2>0. bound[c] # None /\ bound[c].ip \in Pool /\ bound[c].ip \in Address /\ bound' = bound
        /\ bound[c].ip # NoAddr
    BY <1>0, <1>8 DEF SendOdd
  <2>1. ASSUME NEW a \in Pool, Send(c, "request", a, bound[c].ip, "none", None) PROVE DhcpInv'
    <3>1. Harmless(P("request", a, bound[c].ip, "none", None), bound[c].ip)
      BY <2>0 DEF Harmless, Wanted
    <3>. QED BY <1>0, <1>2, <2>0, <2>1, <3>1, Zenon DEF Servers
  <2>2. ASSUME Send(c, "inform", NoAddr, bound[c].ip, "none", None) PROVE DhcpInv'
    <3>1. Harmless(P("inform", NoAddr, bound[c].ip, "none", None), bound[c].ip)
      BY DEF Harmless
    <3>. QED BY <1>0, <1>2, <2>0, <2>2, <3>1, Zenon DEF Servers
  <2>. QED BY <1>8, <2>1, <2>2 DEF SendOdd
<1>9. CASE SendGiveUp(c)
  <2>0. /\ bound[c].ip \in Address /\ bound' = [bound EXCEPT ![c] = None]
        /\ bound'[c] = None
    BY <1>0, <1>9 DEF SendGiveUp, DhcpTypes
  <2>1. ASSUME Send(c, "release", NoAddr, bound[c].ip, "us", None) PROVE DhcpInv'
    BY <1>0, <1>2, <2>0, <2>1, Zenon DEF Servers
  <2>2. ASSUME Send(c, "decline", bound[c].ip, NoAddr, "us", None) PROVE DhcpInv'
    BY <1>0, <1>2, <2>0, <2>2, Zenon DEF Servers
  <2>. QED BY <1>9, <2>1, <2>2 DEF SendGiveUp
<1>. QED BY <1>3, <1>4, <1>5, <1>6, <1>7, <1>8, <1>9

\* A client ends its transaction and uses b, or nothing.
LEMMA EndKeepsInv ==
    ASSUME DhcpInv, NEW c \in Client, NEW b \in [ip: Pool, exp: Nat] \cup {None}, End(c, b),
           b # None => /\ Backed(c, b.ip, b.exp) /\ b.exp > now
                       /\ \A i \in 1..Len(wire[c]) : Harmless(wire[c][i], b.ip)
    PROVE  DhcpInv'
<1>1. /\ txn' = [txn EXCEPT ![c] = None] /\ replies' = [replies EXCEPT ![c] = {}]
      /\ wire' = [wire EXCEPT ![c] = Mark(@, FALSE)] /\ bound' = [bound EXCEPT ![c] = b]
      /\ UNCHANGED manager
  BY DEF End
<1>2. IInv' /\ UNCHANGED <<hasFile, now, promise>>
  BY <1>1, ManagerRests DEF DhcpInv, manager, config, history
<1>3. /\ wire \in [Client -> Seq(Packet)] /\ wire[c] \in Seq(Packet)
      /\ txn \in [Client -> Transaction \cup {None}] /\ replies \in [Client -> SUBSET Reply]
      /\ bound \in [Client -> [ip: Pool, exp: Nat] \cup {None}]
  BY DEF DhcpInv, DhcpTypes
<1> DEFINE q == Mark(wire[c], FALSE)
<1>4. /\ q \in Seq(Packet) /\ Len(q) = Len(wire[c])
      /\ \A i \in 1..Len(wire[c]) : Alike(q[i], wire[c][i]) /\ ~q[i].live
  BY <1>3, MarkFacts, Zenon DEF Alike
<1> HIDE DEF q
<1>5. /\ wire'[c] = q /\ txn'[c] = None /\ replies'[c] = {} /\ bound'[c] = b
      /\ wire' \in [Client -> Seq(Packet)]
      /\ \A d \in Client \ {c} : /\ wire'[d] = wire[d] /\ txn'[d] = txn[d]
                                  /\ replies'[d] = replies[d] /\ bound'[d] = bound[d]
  BY <1>1, <1>3, <1>4, Zenon DEF q
<1>6. DhcpTypes'
  BY <1>1, <1>3, <1>5, Zenon DEF DhcpTypes
<1>7. ASSUME NEW d \in Client, d # c PROVE ClientInv(d)'
  BY <1>2, <1>5, <1>7, Untouched DEF DhcpInv
<1>8. ClientInv(c)'
  <2>1. WireInv(c)' /\ AckInv(c)'
    BY <1>4, <1>5, Zenon DEF WireInv, AckInv
  <2>2. b # None => \A i \in 1..Len(q) : Harmless(q[i], b.ip)
    BY <1>4, MarkedAlike DEF Alike
  <2>3. BoundInv(c)'
    BY <1>2, <1>5, <2>2 DEF BoundInv, Backed
  <2>. QED BY <1>5, <2>1, <2>3 DEF ClientInv
<1>. QED BY <1>2, <1>6, <1>7, <1>8 DEF DhcpInv

\* GiveUpWaiting and TakeAnswer.
LEMMA EndsKeepInv ==
    ASSUME DhcpInv, NEW c \in Client, GiveUpWaiting(c) \/ TakeAnswer(c)
    PROVE  DhcpInv'
<1>0. bound[c] \in [ip: Pool, exp: Nat] \cup {None} /\ ClientInv(c)
  BY DEF DhcpInv, DhcpTypes
<1>1. CASE GiveUpWaiting(c)
  BY <1>0, <1>1, EndKeepsInv DEF GiveUpWaiting, ClientInv, BoundInv
<1>2. ASSUME NEW r \in replies[c], r.type = "ack", txn[c].sent + LeaseDuration > now,
             End(c, [ip |-> r.ip, exp |-> txn[c].sent + LeaseDuration])
      PROVE  DhcpInv'
  <2> DEFINE e == txn[c].sent + LeaseDuration
             b == [ip |-> r.ip, exp |-> e]
  <2>1. /\ txn[c] # None /\ txn[c].state = "requesting" /\ r.ip = txn[c].ip
        /\ Backed(c, r.ip, e) /\ \A i \in 1..Len(wire[c]) : wire[c][i].live
    BY <1>0, <1>2 DEF ClientInv, AckInv
  <2>2. e \in Nat
    <3>1. txn[c].sent \in Nat
      BY <2>1, ClientTypes DEF DhcpInv
    <3>. QED BY <3>1, LeaseEnds
  <2>3. r.ip \in Pool
    BY <2>1 DEF Backed, DhcpInv, IInv, TypeOK
  <2>4. \A i \in 1..Len(wire[c]) : Harmless(wire[c][i], r.ip)
    BY <1>0, <2>1 DEF ClientInv, WireInv, Harmless
  <2>5. b \in [ip: Pool, exp: Nat] /\ b.ip = r.ip /\ b.exp = e /\ e > now /\ End(c, b)
    BY <1>2, <2>2, <2>3
  <2> HIDE DEF b, e
  <2>. QED BY <2>1, <2>4, <2>5, EndKeepsInv
<1>3. CASE End(c, None)
  BY <1>3, EndKeepsInv
<1>. QED BY <1>1, <1>2, <1>3, Zenon DEF TakeAnswer

-----------------------------------------------------------------------------
(* Time, crashes and restarts.                                             *)

\* Time passes; a client stops using what has run out.
LEMMA ElapseKeepsInv == ASSUME DhcpInv, Elapse PROVE DhcpInv'
<1>1. /\ now' = now + 1 /\ now \in Nat /\ UNCHANGED <<hasFile, promise, wire, replies, txn>>
      /\ bound' = [c \in Client |->
                      IF bound[c] # None /\ bound[c].exp <= now' THEN None ELSE bound[c]]
  BY DEF Elapse, Tick, config, history, DhcpInv, IInv, TypeOK
<1>2. IInv'
  BY TickStep DEF DhcpInv, Elapse
<1>3. DhcpTypes'
  BY <1>1 DEF DhcpInv, DhcpTypes
<1>4. ASSUME NEW c \in Client PROVE ClientInv(c)'
  <2>0. ClientInv(c)
    BY DEF DhcpInv
  <2>1. /\ now \in Nat /\ now' \in Nat /\ (txn[c] # None => txn[c].sent \in Nat)
        /\ (bound[c] # None => bound[c].exp \in Nat)
    <3>1. now' \in Nat
      BY <1>1
    <3>2. IInv /\ DhcpTypes
      BY DEF DhcpInv
    <3>. QED BY <1>1, <3>1, <3>2, ClientTypes, Zenon
  <2>2. WireInv(c)' /\ AckInv(c)'
    <3>1. WireInv(c)'
      BY <1>1, <2>0, Zenon DEF ClientInv, WireInv
    <3>2. AckInv(c)'
      BY <1>1, <2>0, AckKept, Zenon DEF ClientInv
    <3>. QED BY <3>1, <3>2
  <2>3. bound'[c] = IF bound[c] # None /\ bound[c].exp <= now' THEN None ELSE bound[c]
    BY <1>1, Zenon
  <2>4. bound'[c] # None => bound'[c] = bound[c] /\ bound[c].exp > now'
    BY <2>1, <2>3, Times
  <2>5. BoundInv(c)'
    BY <1>1, <2>0, <2>4, Zenon DEF ClientInv, BoundInv, Backed
  <2>6. txn'[c] # None => txn'[c].sent <= now'
    BY <1>1, <2>0, <2>1, Times DEF ClientInv
  <2>. QED BY <2>2, <2>5, <2>6 DEF ClientInv
<1>. QED BY <1>1, <1>2, <1>3, <1>4 DEF DhcpInv

\* The server dies, or starts again; with its file, no grant is forgotten.
LEMMA ServerRestartsKeepsInv ==
    ASSUME DhcpInv, UNCHANGED <<wire, clients>>, Crash \/ \E R \in ReservedConfigs : Start(R)
    PROVE  DhcpInv'
<1>1. IInv'
  BY CrashStep, StartStep DEF DhcpInv
<1>2. UNCHANGED <<hasFile, now, promise, wire, replies, txn, bound>>
  BY Zenon DEF Crash, Start, config, history, clients, DhcpInv
<1>3. DhcpTypes'
  BY <1>2 DEF DhcpInv, DhcpTypes
<1>4. ASSUME NEW c \in Client PROVE ClientInv(c)'
  BY <1>2, Untouched DEF DhcpInv
<1>. QED BY <1>1, <1>2, <1>3, <1>4 DEF DhcpInv

-----------------------------------------------------------------------------
(* The results.                                                            *)

\* At first there are no packets and no addresses in use.
LEMMA DhcpInitInv == DhcpInit => DhcpInv
<1> SUFFICES ASSUME DhcpInit PROVE DhcpInv
  OBVIOUS
<1>1. IInv /\ hasFile
  BY InitSound DEF DhcpInit
<1>2. \A c \in Client : wire[c] = <<>> /\ replies[c] = {} /\ txn[c] = None /\ bound[c] = None
  BY DEF DhcpInit
<1>3. DhcpTypes
  <2>1. <<>> \in Seq(Packet)
    OBVIOUS
  <2>. QED BY <2>1 DEF DhcpInit, DhcpTypes
<1>4. \A c \in Client : ClientInv(c)
  <2>1. \A c \in Client : \A i \in 1..Len(wire[c]) : FALSE
    BY <1>2
  <2>2. ASSUME NEW c \in Client PROVE WireInv(c)
    BY <2>1 DEF WireInv
  <2>3. ASSUME NEW c \in Client PROVE AckInv(c) /\ BoundInv(c)
    BY <1>2 DEF AckInv, BoundInv
  <2>. QED BY <1>2, <2>2, <2>3 DEF ClientInv
<1>. QED BY <1>1, <1>3, <1>4 DEF DhcpInv

\* Every step of the server, the network and the clients, or none.
LEMMA DhcpStep == DhcpInv /\ [DhcpNext]_dhcpVars => DhcpInv'
<1> SUFFICES ASSUME DhcpInv, [DhcpNext]_dhcpVars PROVE DhcpInv'
  OBVIOUS
<1>1. ASSUME NEW c \in Client, Handle(c) PROVE DhcpInv'
  BY <1>1, HandleKeepsInv
<1>2. ASSUME NEW c \in Client, Lose(c) PROVE DhcpInv'
  BY <1>2, LoseKeepsInv
<1>3. ASSUME NEW c \in Client,
             \/ \E a \in Pool \cup {NoAddr} : SendDiscover(c, a)
             \/ SendSelect(c)
             \/ \E a \in Pool \cup {Foreign} : SendReboot(c, a)
             \/ SendRenew(c) \/ Retransmit(c) \/ SendOdd(c) \/ SendGiveUp(c)
      PROVE  DhcpInv'
  BY <1>3, ClientSendsKeepsInv
<1>4. ASSUME NEW c \in Client, GiveUpWaiting(c) \/ TakeAnswer(c) PROVE DhcpInv'
  BY <1>4, EndsKeepInv
<1>5. CASE (Crash \/ \E R \in ReservedConfigs : Start(R)) /\ UNCHANGED <<wire, clients>>
  BY <1>5, ServerRestartsKeepsInv
<1>6. CASE Elapse
  BY <1>6, ElapseKeepsInv
<1>7. CASE UNCHANGED dhcpVars
  <2>1. UNCHANGED <<manager, wire, replies, txn, bound>>
    BY <1>7 DEF dhcpVars, clients
  <2>2. IInv' /\ UNCHANGED <<hasFile, now, promise>>
    BY <2>1, ManagerRests DEF DhcpInv, manager, config, history
  <2>3. ASSUME NEW c \in Client PROVE ClientInv(c)'
    BY <2>1, <2>2, Untouched DEF DhcpInv
  <2>. QED BY <2>1, <2>2, <2>3 DEF DhcpInv, DhcpTypes
<1>. QED BY <1>1, <1>2, <1>3, <1>4, <1>5, <1>6, <1>7 DEF DhcpNext

\* DhcpInv holds in every state, over lost, repeated and late packets, failed
\* saves, crashes and restarts.
THEOREM DhcpInvariance == DhcpSpec => []DhcpInv
BY DhcpInitInv, DhcpStep, PTL DEF DhcpSpec

\* An address in use was acknowledged by Handle and is still the client's.
THEOREM BoundAddressesAreBacked == DhcpSpec => []BoundIsBacked
<1>1. DhcpInv => BoundIsBacked
  BY DEF DhcpInv, ClientInv, BoundInv, Backed, BoundIsBacked
<1>. QED BY <1>1, DhcpInvariance, PTL

\* No two clients use one address: each use is backed by a grant that has not run
\* out, such a grant is in the lease file, and the file is free of conflicts.
THEOREM AddressesAreNotShared == DhcpSpec => []NoAddressConflict
<1>1. DhcpInv => NoAddressConflict
  <2> SUFFICES ASSUME DhcpInv, NEW c \in Client, NEW d \in Client, c # d,
                      bound[c] # None, bound[d] # None
               PROVE  bound[c].ip # bound[d].ip
    BY DEF NoAddressConflict
  <2>1. ASSUME NEW x \in Client, bound[x] # None
        PROVE  file.leases[x] # None /\ file.leases[x].ip = bound[x].ip
    <3>1. /\ promise[x] # None /\ promise[x].ip = bound[x].ip
          /\ promise[x].exp >= bound[x].exp /\ bound[x].exp > now
      BY <2>1 DEF DhcpInv, ClientInv, BoundInv, Backed
    <3>2. promise[x].exp \in Nat /\ bound[x].exp \in Nat /\ now \in Nat
      BY <2>1, <3>1, ClientTypes DEF DhcpInv
    <3>3. promise[x].exp > now
      BY <3>1, <3>2, Times
    <3>. QED BY <3>1, <3>3 DEF DhcpInv, IInv, PromiseKept
  <2>. QED BY <2>1 DEF DhcpInv, IInv, FileSound, DisjointMaps
<1>. QED BY <1>1, DhcpInvariance, PTL

=============================================================================
