----------------------------- MODULE DnsServer ------------------------------
(***************************************************************************)
(* internal/dnsserver: the answers of the DNS server, composed with the    *)
(* lease manager whose names it serves.  A handler runs in a goroutine of  *)
(* its own and asks the registry several times for one answer; each of     *)
(* those calls takes the manager's mutex anew, so leases may be granted,   *)
(* released or expire between them.  A call to the registry, a reading of  *)
(* the clock and an exchange with the upstream server are each a step.     *)
(*                                                                         *)
(* Abstractions: a name is a member of a constant set that comes with the  *)
(* parent of each name (the name without its first label) and the wildcard *)
(* name below each; a message is its question, its response code and at    *)
(* most one answer record, as the code never gives two.  Packing,          *)
(* truncation and EDNS sizes are left out.                                 *)
(***************************************************************************)
EXTENDS LeaseManager, DnsReverse, FiniteSets

CONSTANTS
    Handler,        \* goroutines that serve a question
    Name,           \* DNS names
    Root, Domain,   \* "." and config.Domain
    Parent,         \* Parent[n]: n without its first label
    Wildcard,       \* Wildcard[n]: "*." + n, or Root if no such name is in Name
    Labels,         \* Labels[n]: the labels of the names below in-addr.arpa.
    ARecords,       \* config.ARecords, a function on a set of names
    GatewayName,    \* "gateway." + domain
    ServerIP, Subnet, Upstream, TTL,    \* the configuration
    MaxForwards,    \* capacity of s.forwards
    Questions       \* Questions[h]: the questions handler h may get

VARIABLES
    task,           \* task[h]: what handler h is at
    forwards,       \* len(s.forwards)
    truths,         \* history: what the zone held for h's question, then and since
    steady          \* history: h's question met the same live leases all along

dnsVars == <<vars, task, forwards, truths, steady>>

\* A name with all its ancestors but the root.
suffixes[n \in Name] == IF n = Root THEN {} ELSE {n} \cup suffixes[Parent[n]]
Above == [n \in Name |-> suffixes[n]]

\* The names at or below a name.
Below == [n \in Name |-> {m \in Name : n \in Above[m]}]

\* s.staticNames: records and every parent they imply.
staticNames ==
    {Root, Domain, NsName, GatewayName} \cup UNION {Above[n] : n \in DOMAIN ARecords}

-----------------------------------------------------------------------------
(* The registry, on its current state.                                     *)

\* The live leases whose registered name satisfies the registry's test.
Named(S) == {c \in Client : Live(leases[c]) /\ leases[c].hostname \in S \ reserved}

LookupName(n) ==
    IF Named({NormalizeHostname[n]} \ {NoName}) = {} THEN None
    ELSE leases[CHOOSE c \in Named({NormalizeHostname[n]}) : TRUE]

HasName(n) ==
    LET canonical == IF n = Domain THEN Domain ELSE NormalizeHostname[n]
    IN  canonical # NoName /\ Named(Below[canonical]) # {}

LookupIP(ip) ==
    LET holders == {c \in Client : Live(leases[c]) /\ leases[c].ip = ip}
    IN  IF holders = {} THEN None ELSE leases[CHOOSE c \in holders : TRUE]

\* A call to the registry changes what m.expire changes.
hasName(n) == n \in staticNames \/ HasName(n)

-----------------------------------------------------------------------------
(* Responses.                                                              *)

Record(kind, data, ttl) == [type |-> kind, data |-> data, ttl |-> ttl, until |-> now + ttl]
Response(rcode, rec) == [rcode |-> rcode, rec |-> rec]

\* answerLocal: the records of a zone's apex, or the record found; a name that
\* does not exist is an error, and a response without a record is not cached.
answerLocal(kind, isZone, exists, found) ==
    Response(IF exists THEN "ok" ELSE "nxdomain",
             IF isZone /\ kind \in {"SOA", "NS"} THEN Record(kind, Domain, TTL)
             ELSE found)

\* The address record for an owner of the local zone.
AddressOf(q, ip, ttl) == IF q.kind \in {"A", "ANY"} THEN Record("A", ip, ttl) ELSE None
PointerOf(q, host, ttl) == IF q.kind \in {"PTR", "ANY"} THEN Record("PTR", host, ttl) ELSE None

answerOverride(q, ip) == Response("ok", AddressOf(q, ip, TTL))

\* Faulty variant: what is left of the lease does not matter.
leaseTTLFull(e) == TTL

\* The lifetime of an answer from a lease: what is left of it, at most TTL.
leaseTTL(e) == IF e.exp <= now THEN 0 ELSE IF e.exp - now < TTL THEN e.exp - now ELSE TTL

\* The loop of lookupExternalAddress: the first ancestor below the root that is
\* a static name.
staticEncloser[n \in Name] ==
    IF n = Root \/ Parent[n] = Root THEN Root
    ELSE IF Parent[n] \in staticNames THEN Parent[n] ELSE staticEncloser[Parent[n]]

\* The configured address of a name outside the domain, None if it has none.
lookupExternalAddress(n) ==
    IF n \in DOMAIN ARecords THEN ARecords[n]
    ELSE IF n \notin staticNames /\ Wildcard[staticEncloser[n]] \in DOMAIN ARecords
    THEN ARecords[Wildcard[staticEncloser[n]]] ELSE None

-----------------------------------------------------------------------------
(* What the zone holds for a question: RFC 4592 on one state of the leases.*)

Exists(n) == \/ n \in staticNames
             \/ Named(Below[n]) # {}

\* The closest ancestor of n that exists.
Encloser(n, exists(_)) ==
    CHOOSE e \in Above[n] \ {n} :
        exists(e) /\ \A x \in Above[n] \ {n} : exists(x) => x \in Above[e]

Said(response) ==
    [rcode |-> response.rcode,
     data |-> IF response.rec = None THEN None ELSE response.rec.data]

Held(q, ip) == [rcode |-> "ok", data |-> IF q.kind \in {"A", "ANY"} THEN ip ELSE None]
NoData == [rcode |-> "ok", data |-> None]
NoSuchName == [rcode |-> "nxdomain", data |-> None]

\* The record of q's name in the local zone.
LocalTruth(q) ==
    LET n == q.name
        wild == Wildcard[Encloser(n, Exists)]
    IN  IF n = Domain /\ q.kind \in {"SOA", "NS"} THEN [rcode |-> "ok", data |-> Domain]
        ELSE IF n \in {NsName, GatewayName} THEN Held(q, ServerIP)
        ELSE IF n \in DOMAIN ARecords THEN Held(q, ARecords[n])
        ELSE IF Named({n}) # {} THEN Held(q, LookupName(n).ip)
        ELSE IF Exists(n) THEN NoData
        ELSE IF wild \in DOMAIN ARecords THEN Held(q, ARecords[wild]) ELSE NoSuchName

isLocal(n) == Domain \in Above[n]

\* The authority for a name: a zone, whether the name is its apex, and for a
\* reverse name the address it spells.
authority(n) ==
    LET r == reverseAuthority(Labels[n], Subnet)
    IN  IF isLocal(n) THEN [local |-> TRUE, apex |-> n = Domain, ip |-> NoAddress]
        ELSE IF n \in DOMAIN Labels /\ r.zone > 0
        THEN [local |-> FALSE, apex |-> Len(Labels[n]) = r.zone, ip |-> r.ip]
        ELSE None

\* The record of a reverse name the server has authority for.
ReverseTruth(q, zone) ==
    LET e == LookupIP(zone.ip)
    IN  IF zone.apex /\ q.kind \in {"SOA", "NS"} THEN [rcode |-> "ok", data |-> Domain]
        ELSE IF zone.ip = ServerIP \/ (e # None /\ e.hostname # NoName)
        THEN [rcode |-> "ok",
              data |-> IF q.kind \notin {"PTR", "ANY"} THEN None
                       ELSE IF zone.ip = ServerIP THEN NsName ELSE e.hostname]
        ELSE IF zone.apex THEN NoData ELSE NoSuchName

\* The name outside the domain that an override answers, by RFC 4592.
Override(n) ==
    LET static(x) == x \in staticNames
        wild == Wildcard[Encloser(n, static)]
    IN  IF n \in DOMAIN ARecords THEN ARecords[n]
        ELSE IF static(n) \/ ~\E x \in Above[n] \ {n} : static(x) THEN None
        ELSE IF wild \in DOMAIN ARecords THEN ARecords[wild] ELSE None

\* All that answers the question rightly: for a name that is not the server's,
\* whatever the upstream server or a refusal says.
Truth(q, zone) ==
    IF q.form # "query" THEN {[rcode |-> q.form, data |-> None]}
    ELSE IF zone # None THEN {IF zone.local THEN LocalTruth(q) ELSE ReverseTruth(q, zone)}
    ELSE IF Override(q.name) # None THEN {Held(q, Override(q.name))}
    ELSE {[rcode |-> r, data |-> None] : r \in {"forwarded", "servfail", "refused"}}

-----------------------------------------------------------------------------
(* Steps of a handler.                                                     *)

Idle == [pc |-> "idle", ask |-> None, zone |-> None, at |-> None, entry |-> None,
         answer |-> None]
to(t, step) == [t EXCEPT !.pc = step]
respond(t, response) == [t EXCEPT !.pc = "done", !.answer = response]

\* answerLocal for the question of t.
local(t, exists, found) == respond(t, answerLocal(t.ask.kind, t.zone.apex, exists, found))

\* The static part of lookupLocalAddress; other names are for the registry.
startLocal(t) ==
    LET n == t.ask.name
        static(ip) == local(t, TRUE, AddressOf(t.ask, ip, TTL))
    IN  IF n \in {NsName, GatewayName} THEN static(ServerIP)
        ELSE IF n \in DOMAIN ARecords THEN static(ARecords[n])
        ELSE IF n = Domain THEN local(t, TRUE, None)
        ELSE to(t, "lookup_name")

\* A reverse name that stands for no named lease.
noPointer(t) == local(t, t.zone.apex, None)

startReverse(t) ==
    IF t.zone.ip = ServerIP THEN local(t, TRUE, PointerOf(t.ask, NsName, TTL))
    ELSE IF t.zone.ip = NoAddress THEN noPointer(t) ELSE to(t, "lookup_ip")

\* forward takes a slot or fails at once.
startForward(t) ==
    IF forwards < MaxForwards THEN to(t, "udp") ELSE respond(t, Response("servfail", None))

\* serveDNS: who answers a question.
dispatch(q, zone) ==
    LET t == [Idle EXCEPT !.ask = q, !.zone = zone, !.at = q.name]
    IN  IF q.form # "query" THEN respond(t, Response(q.form, None))
        ELSE IF zone # None THEN IF zone.local THEN startLocal(t) ELSE startReverse(t)
        ELSE IF lookupExternalAddress(q.name) # None
        THEN respond(t, answerOverride(q, lookupExternalAddress(q.name)))
        ELSE IF Upstream /\ q.recurse THEN startForward(t)
        ELSE respond(t, Response("refused", None))

\* Handlers that have a question and no response yet see what becomes true.
Observe ==
    LET looking(h) == task[h].pc \notin {"idle", "done"}
        same == Unexpired(leases)' = Unexpired(leases)
        known(h) == truths[h] \cup Truth(task[h].ask, task[h].zone)'
    IN  /\ truths' = [h \in Handler |-> IF looking(h) THEN known(h) ELSE truths[h]]
        /\ steady' = [h \in Handler |-> steady[h] /\ (looking(h) => same)]

\* Handler h goes on as t.
Go(h, t) == task' = [task EXCEPT ![h] = t]

ServeDNS(h, q) ==
    LET zone == authority(q.name)
    IN  /\ up
        /\ task[h] = Idle
        /\ Go(h, dispatch(q, zone))
        /\ forwards' = IF task'[h].pc = "udp" THEN forwards + 1 ELSE forwards
        /\ truths' = [truths EXCEPT ![h] = Truth(q, zone)]
        /\ UNCHANGED <<vars, steady>>

\* registry.LookupName.
LookupNameStep(h) ==
    LET t == task[h]
        found == LookupName(t.ask.name)
    IN  /\ t.pc = "lookup_name"
        /\ Go(h, IF found = None THEN to(t, "has_name")
                 ELSE [to(t, "fresh") EXCEPT !.entry = found])
        /\ Expire
        /\ UNCHANGED forwards
        /\ Observe

\* registry.LookupIP.
LookupIPStep(h) ==
    LET t == task[h]
        found == LookupIP(t.zone.ip)
    IN  /\ t.pc = "lookup_ip"
        /\ Go(h, IF found = None \/ found.hostname = NoName THEN noPointer(t)
                 ELSE [to(t, "fresh") EXCEPT !.entry = found])
        /\ Expire
        /\ UNCHANGED forwards
        /\ Observe

\* The lease that was found may have run out since.
Fresh(h) ==
    LET t == task[h]
        gone == [t EXCEPT !.entry = None]
        stale == IF t.zone.local THEN to(gone, "has_name") ELSE noPointer(gone)
    IN  /\ t.pc = "fresh"
        /\ Go(h, IF now < t.entry.exp THEN to(t, "ttl") ELSE stale)
        /\ UNCHANGED <<vars, forwards>>
        /\ Observe

\* The answer from a lease.
LeaseAnswer(h) ==
    LET t == task[h]
        ttl == leaseTTL(t.entry)
    IN  /\ t.pc = "ttl"
        /\ Go(h, local(t, TRUE, IF t.zone.local THEN AddressOf(t.ask, t.entry.ip, ttl)
                                ELSE PointerOf(t.ask, t.entry.hostname, ttl)))
        /\ UNCHANGED <<vars, forwards>>
        /\ Observe

\* The wildcard of the closest existing ancestor, or no such name.
synthesize(t) ==
    LET wild == Wildcard[t.at]
    IN  IF wild \in DOMAIN ARecords
        THEN local(t, TRUE, AddressOf(t.ask, ARecords[wild], TTL))
        ELSE local(t, FALSE, None)

\* Faulty variant: the walk goes past an ancestor that has no wildcard.
HasNameBroader(h) ==
    LET t == task[h]
        exists == hasName(t.at)
    IN  /\ t.pc = "has_name"
        /\ Go(h, IF exists /\ t.at = t.ask.name THEN local(t, TRUE, None)
                 ELSE IF exists /\ (t.at = Domain \/ Wildcard[t.at] \in DOMAIN ARecords)
                 THEN synthesize(t) ELSE [t EXCEPT !.at = Parent[t.at]])
        /\ IF t.at \in staticNames THEN UNCHANGED vars ELSE Expire
        /\ UNCHANGED forwards
        /\ Observe

\* hasName of the name itself, then of one ancestor after the other.
HasNameStep(h) ==
    LET t == task[h]
        exists == hasName(t.at)
    IN  /\ t.pc = "has_name"
        /\ Go(h, IF exists /\ t.at = t.ask.name THEN local(t, TRUE, None)
                 ELSE IF exists THEN synthesize(t) ELSE [t EXCEPT !.at = Parent[t.at]])
        /\ IF t.at \in staticNames THEN UNCHANGED vars ELSE Expire
        /\ UNCHANGED forwards
        /\ Observe

\* Faulty variant: an answer to another question keeps the slot.
ExchangeKeepsSlot(h, outcome) ==
    LET t == task[h]
        retry == t.pc = "udp" /\ outcome = "truncated"
        rcode == IF outcome \in {"error", "mismatch"} THEN "servfail" ELSE "forwarded"
    IN  /\ t.pc \in {"udp", "tcp"}
        /\ Go(h, IF retry THEN to(t, "tcp") ELSE respond(t, Response(rcode, None)))
        /\ forwards' = IF retry \/ outcome = "mismatch" THEN forwards ELSE forwards - 1
        /\ UNCHANGED vars
        /\ Observe

\* An exchange with the upstream server: an error (refused, timed out, closed by
\* cancellation), an answer to another question, a truncated one, which is asked
\* for again over TCP, or an answer.
Exchange(h, outcome) ==
    LET t == task[h]
        retry == t.pc = "udp" /\ outcome = "truncated"
        rcode == IF outcome \in {"error", "mismatch"} THEN "servfail" ELSE "forwarded"
    IN  /\ t.pc \in {"udp", "tcp"}
        /\ Go(h, IF retry THEN to(t, "tcp") ELSE respond(t, Response(rcode, None)))
        /\ forwards' = IF retry THEN forwards ELSE forwards - 1
        /\ UNCHANGED vars
        /\ Observe

write(h) ==
    /\ task[h].pc = "done"
    /\ Go(h, Idle)
    /\ truths' = [truths EXCEPT ![h] = {}]
    /\ steady' = [steady EXCEPT ![h] = TRUE]
    /\ UNCHANGED <<vars, forwards>>

\* What the DHCP server does to the registry meanwhile, and the clock.
RegistryStep ==
    /\ \/ \E c \in Client, ip \in Pool, hostname \in Passed :
              CommitWithFallback(c, ip, hostname)
       \/ \E c \in Client, ip \in Pool : Release(c, ip)
       \/ \E R \in ReservedConfigs : Start(R)
       \/ Tick
    /\ UNCHANGED <<task, forwards>>
    /\ Observe

DnsInit ==
    /\ Init
    /\ hasFile = FALSE
    /\ task = [h \in Handler |-> Idle]
    /\ forwards = 0
    /\ truths = [h \in Handler |-> {}]
    /\ steady = [h \in Handler |-> TRUE]

DnsNext ==
    \/ \E h \in Handler :
           \/ \E q \in Questions[h] : ServeDNS(h, q)
           \/ LookupNameStep(h) \/ LookupIPStep(h) \/ Fresh(h) \/ LeaseAnswer(h)
           \/ HasNameStep(h)
           \/ \E outcome \in {"error", "mismatch", "truncated", "answer"} :
                  Exchange(h, outcome)
           \/ write(h)
    \/ RegistryStep

DnsSpec == DnsInit /\ [][DnsNext]_dnsVars

-----------------------------------------------------------------------------
(* Properties.                                                             *)

Answered == {h \in Handler : task[h].pc = "done"}

\* A question during which no lease came or went is answered as the zone has
\* it, although the handler took the manager's mutex once per name it looked at:
\* DHCP names, empty non-terminals, closest enclosers, wildcards, overrides.
SteadyAnswers ==
    \A h \in Answered : steady[h] => Said(task[h].answer) \in truths[h]

\* Whatever comes between the lookups, an address or a name that is handed out
\* was the zone's at some moment of the question, and is not to be cached past
\* the end of the lease it comes from.  (A refusal made of two states of the
\* registry is possible; it carries no lifetime.)
RecordsTrue ==
    \A h \in Answered :
        LET t == task[h]
        IN  t.answer.rec # None =>
                /\ Said(t.answer) \in truths[h]
                /\ t.entry # None =>
                       t.answer.rec.ttl = 0 \/ t.answer.rec.until <= t.entry.exp

\* reverseAuthority is right for every name and every subnet: the server never
\* speaks for a neighbour's addresses, and always for its own.  (This does not
\* depend on the state; it is evaluated before the manager starts.)
ReverseZonesRight ==
    ~up => \A subnet \in Subnets : \A labels \in ReverseNames :
               RightAuthority(labels, subnet)

\* The slots in use are those of the exchanges under way, whichever way each of
\* them ends, so that a question fails for want of one only when all are busy.
ForwardSlots ==
    /\ forwards = Cardinality({h \in Handler : task[h].pc \in {"udp", "tcp"}})
    /\ forwards <= MaxForwards

=============================================================================
