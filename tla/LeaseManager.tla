---------------------------- MODULE LeaseManager ----------------------------
(***************************************************************************)
(* internal/lease: the manager that assigns IPv4 addresses and the DNS     *)
(* names attached to them.  Every exported method runs under one mutex     *)
(* from its first to its last statement, the save to disk included, so a   *)
(* method is one step here.  What can come between two steps is the clock, *)
(* a failed save, a crash of the process (also between the rename that     *)
(* ends a save and the assignment that publishes it), and a restart that   *)
(* reads the file back, possibly with another set of reserved names.       *)
(*                                                                         *)
(* Abstractions: addresses are the numbers of the pool in its order;       *)
(* hostnames are a constant set with NormalizeHostname as a function on it;*)
(* JSON and the temporary file are left out, the rename makes a save all   *)
(* or nothing.  Client identifiers are the valid ones (an invalid one is   *)
(* refused before anything but expiry happens, like any other lookup).     *)
(***************************************************************************)
EXTENDS Naturals

CONSTANTS
    Client,             \* client identifiers
    PoolSize,           \* the pool is PoolStart..PoolEnd, numbered from 1
    Hostname,           \* hostnames, "" for none
    Passed,             \* the hostnames callers pass
    NormalizeHostname,  \* the canonical name of each hostname, "" if it has none
    Fallback,           \* the default hostname of each client
    NsName,             \* "ns." + domain
    ReservedConfigs,    \* the reservedNames a (re)start may be configured with
    LeaseDuration, OfferDuration, DeclineDuration,
    MaxTime,            \* bound on the clock
    None                \* no entry in a map

Pool == 1..PoolSize
NoAddr == 0
NoName == ""
Lease == [ip: Pool, hostname: Hostname, exp: Nat]

ASSUME PoolAssumption == PoolSize \in Nat

ASSUME DurationAssumption ==
    /\ LeaseDuration \in Nat \ {0}
    /\ OfferDuration \in Nat \ {0}
    /\ DeclineDuration \in Nat \ {0}
    /\ MaxTime \in Nat

\* NormalizeHostname sends the empty name to itself and is idempotent.
ASSUME HostnameAssumption ==
    /\ NoName \in Hostname
    /\ Passed \subseteq Hostname
    /\ NormalizeHostname \in [Hostname -> Hostname]
    /\ NormalizeHostname[NoName] = NoName
    /\ \A h \in Hostname :
           NormalizeHostname[NormalizeHostname[h]] = NormalizeHostname[h]
    /\ Fallback \in [Client -> Hostname]

\* newManager always reserves the name server's own name.
ASSUME ReservedAssumption ==
    \A R \in ReservedConfigs : R \subseteq Hostname \ {NoName} /\ NsName \in R

ASSUME NoneAssumption == None \notin Lease

VARIABLES
    up,         \* the process runs and New has returned
    hasFile,    \* cfg.File is set
    reserved,   \* m.reservedNames
    now,        \* the clock
    leases,     \* m.state.leases: client -> Lease or None
    offers,     \* m.state.offers: client -> Lease or None
    declined,   \* m.state.declined: address -> end of quarantine, 0 if none
    file,       \* the persisted leases and declined addresses
    promise,    \* history: the grant last acknowledged to each client
    quarantine  \* history: the quarantine last recorded for each address

memory == <<leases, offers, declined>>
config == <<hasFile, reserved>>
history == <<promise, quarantine>>
vars == <<up, config, now, memory, file, history>>

NoLeases == [c \in Client |-> None]
NoneDeclined == [a \in Pool |-> 0]
EmptyFile == [leases |-> NoLeases, declined |-> NoneDeclined]

-----------------------------------------------------------------------------
(* Reading the state.  expire() is the first statement of every method.    *)

Live(entry) == entry # None /\ entry.exp > now
Unexpired(m) == [c \in Client |-> IF Live(m[c]) THEN m[c] ELSE None]
InForce(d) == [a \in Pool |-> IF d[a] > now THEN d[a] ELSE 0]

\* The addresses of the live entries of map m that belong to others than c.
OthersIn(m, c) == {m[d].ip : d \in {e \in Client \ {c} : Live(m[e])}}

\* Faulty variants of occupied: offers, or declined addresses, do not count.
OccupiedWithoutOffers(c) ==
    OthersIn(leases, c) \cup {a \in Pool : declined[a] > now}
OccupiedWithoutDeclined(c) == OthersIn(leases, c) \cup OthersIn(offers, c)

occupied(c) ==
    OthersIn(leases, c) \cup OthersIn(offers, c) \cup {a \in Pool : declined[a] > now}

\* Client c has a live entry for address ip in map m.
HasAt(m, c, ip) == Live(m[c]) /\ m[c].ip = ip

owns(c, ip) == HasAt(leases, c, ip) \/ HasAt(offers, c, ip)

\* Map m after expiry and without an entry of c for ip.
remove(m, c, ip) ==
    IF HasAt(m, c, ip) THEN [Unexpired(m) EXCEPT ![c] = None] ELSE Unexpired(m)

\* The name a client gets when it passes hostname: an omitted one keeps the
\* name of the applicable offer, then the current name, then the default.
ChosenName(c, hostname, offerApplies) ==
    IF hostname # NoName THEN NormalizeHostname[hostname]
    ELSE IF offerApplies THEN offers[c].hostname
    ELSE IF Live(leases[c]) /\ leases[c].hostname # NoName THEN leases[c].hostname
    ELSE NormalizeHostname[Fallback[c]]

\* The address of an offer: the current one, the one offered before, the
\* requested one if free, the first free one; none if the pool is exhausted.
OfferChoice(c, requested) ==
    LET free == Pool \ occupied(c)
    IN  IF Live(leases[c]) THEN {leases[c].ip}
        ELSE IF Live(offers[c]) THEN {offers[c].ip}
        ELSE IF requested \in free THEN {requested}
        ELSE {a \in free : \A b \in free : a <= b}

\* Faulty variants of RegisteredName: one check is missing.
RegisteredNameShared(c, name) == IF name \in reserved THEN NoName ELSE name
RegisteredNameReserved(c, name) ==
    IF \E d \in Client \ {c} : Live(leases[d]) /\ leases[d].hostname = name
    THEN NoName ELSE name

\* The name a commit registers: not a reserved one, nor another client's.
RegisteredName(c, name) ==
    IF \/ name \in reserved
       \/ \E d \in Client \ {c} : Live(leases[d]) /\ leases[d].hostname = name
    THEN NoName ELSE name

-----------------------------------------------------------------------------
(* Writing the state.                                                      *)

\* Only expiry: a lookup, and every refusal before a change.
Expire ==
    /\ leases' = Unexpired(leases)
    /\ offers' = Unexpired(offers)
    /\ declined' = InForce(declined)
    /\ UNCHANGED <<up, config, now, file, history>>

\* Faulty variants of persist: nothing is saved, or no quarantines.
PersistNothing(nextLeases, nextDeclined) == file' = file
PersistLeasesOnly(nextLeases, nextDeclined) ==
    file' = IF hasFile THEN [file EXCEPT !.leases = nextLeases] ELSE file

\* persist: the file takes the leases and quarantines of the next state.
persist(nextLeases, nextDeclined) ==
    file' = IF hasFile THEN [leases |-> nextLeases, declined |-> nextDeclined]
            ELSE file

\* publish returns nil: saved first, then visible.
publish(nextLeases, nextOffers, nextDeclined) ==
    /\ persist(nextLeases, nextDeclined)
    /\ leases' = nextLeases
    /\ offers' = nextOffers
    /\ declined' = nextDeclined
    /\ UNCHANGED up

Halt ==
    /\ up' = FALSE
    /\ leases' = NoLeases
    /\ offers' = NoLeases
    /\ declined' = NoneDeclined

\* The process dies after the rename of persist and before the answer.
publishThenCrash(nextLeases, nextDeclined) ==
    /\ hasFile
    /\ persist(nextLeases, nextDeclined)
    /\ Halt

-----------------------------------------------------------------------------
(* The methods.                                                            *)

OfferWithFallback(c, requested, hostname) ==
    /\ up
    /\ \E ip \in OfferChoice(c, requested) :
           offers' = [Unexpired(offers) EXCEPT ![c] =
                         [ip |-> ip,
                          hostname |-> ChosenName(c, hostname, Live(offers[c])),
                          exp |-> now + OfferDuration]]
    /\ leases' = Unexpired(leases)
    /\ declined' = InForce(declined)
    /\ UNCHANGED <<up, config, now, file, history>>

\* A client that gives address ip up, and one that asks for ip and so no longer
\* claims another address.
GivesUp(c, ip) ==
    IF promise[c] # None /\ promise[c].ip = ip
    THEN [promise EXCEPT ![c] = None] ELSE promise
GivesUpOthers(c, ip) ==
    IF promise[c] # None /\ promise[c].ip # ip
    THEN [promise EXCEPT ![c] = None] ELSE promise

CommitWithFallback(c, ip, hostname) ==
    LET offered == HasAt(offers, c, ip)
        name == RegisteredName(c, ChosenName(c, hostname, offered))
        exp == now + LeaseDuration
        nextLeases == [Unexpired(leases) EXCEPT ![c] =
                          [ip |-> ip, hostname |-> name, exp |-> exp]]
        nextOffers == [Unexpired(offers) EXCEPT ![c] = None]
    IN  /\ up
        /\ ip \in Pool \ occupied(c)
        /\ \/ /\ publish(nextLeases, nextOffers, InForce(declined))
              /\ promise' = [promise EXCEPT ![c] = [ip |-> ip, exp |-> exp]]
           \/ /\ publishThenCrash(nextLeases, InForce(declined))
              /\ promise' = GivesUpOthers(c, ip)
        /\ UNCHANGED <<config, now, quarantine>>

Release(c, ip) ==
    LET nextLeases == remove(leases, c, ip)
    IN  /\ up
        /\ owns(c, ip)
        /\ \/ publish(nextLeases, remove(offers, c, ip), InForce(declined))
           \/ publishThenCrash(nextLeases, InForce(declined))
        /\ promise' = GivesUp(c, ip)
        /\ UNCHANGED <<config, now, quarantine>>

Decline(c, ip) ==
    LET nextLeases == remove(leases, c, ip)
        until == now + DeclineDuration
        nextDeclined == [InForce(declined) EXCEPT ![ip] = until]
    IN  /\ up
        /\ owns(c, ip)
        /\ \/ publish(nextLeases, remove(offers, c, ip), nextDeclined)
           \/ publishThenCrash(nextLeases, nextDeclined)
        /\ promise' = GivesUp(c, ip)
        /\ quarantine' = [quarantine EXCEPT ![ip] = until]
        /\ UNCHANGED <<config, now>>

\* Everything that returns without publishing: LookupName, HasName, LookupIP,
\* ErrUnavailable, ErrPoolExhausted, and a save that fails before its rename.
ReturnUnpublished ==
    /\ up
    /\ Expire

Crash ==
    /\ up
    /\ Halt
    /\ promise' = IF hasFile THEN promise ELSE NoLeases
    /\ quarantine' = IF hasFile THEN quarantine ELSE NoneDeclined
    /\ UNCHANGED <<config, now, file>>

\* restore's checks.  The file is a map, so no client occurs in it twice.
Restorable(f) ==
    LET saved == Unexpired(f.leases)
        kept == {c \in Client : saved[c] # None}
    IN  /\ \A c \in Client : f.leases[c] # None /\ f.leases[c].hostname # NoName =>
               /\ NormalizeHostname[f.leases[c].hostname] = f.leases[c].hostname
               /\ f.leases[c].hostname # NsName
        /\ \A c, d \in kept : c # d =>
               /\ saved[c].ip # saved[d].ip
               /\ saved[c].hostname = saved[d].hostname => saved[c].hostname = NoName
        /\ \A c \in kept : InForce(f.declined)[saved[c].ip] = 0

\* New: restore drops what has expired and unregisters names that have become
\* reserved; if it refuses the file the process does not come up.
Start(R) ==
    LET saved == Unexpired(file.leases)
    IN  /\ ~up
        /\ Restorable(file)
        /\ up' = TRUE
        /\ reserved' = R
        /\ leases' = [c \in Client |->
                         IF saved[c] # None /\ saved[c].hostname \in R
                         THEN [saved[c] EXCEPT !.hostname = NoName] ELSE saved[c]]
        /\ offers' = NoLeases
        /\ declined' = InForce(file.declined)
        /\ UNCHANGED <<hasFile, now, file, history>>

Tick ==
    /\ now < MaxTime
    /\ now' = now + 1
    /\ UNCHANGED <<up, config, memory, file, history>>

Init ==
    /\ up = FALSE
    /\ hasFile \in BOOLEAN
    /\ reserved = {}
    /\ now = 0
    /\ leases = NoLeases
    /\ offers = NoLeases
    /\ declined = NoneDeclined
    /\ file = EmptyFile
    /\ promise = NoLeases
    /\ quarantine = NoneDeclined

Next ==
    \/ \E c \in Client, requested \in Pool \cup {NoAddr}, hostname \in Passed :
           OfferWithFallback(c, requested, hostname)
    \/ \E c \in Client, ip \in Pool, hostname \in Passed :
           CommitWithFallback(c, ip, hostname)
    \/ \E c \in Client, ip \in Pool : Release(c, ip)
    \/ \E c \in Client, ip \in Pool : Decline(c, ip)
    \/ ReturnUnpublished
    \/ Crash
    \/ \E R \in ReservedConfigs : Start(R)
    \/ Tick

Spec == Init /\ [][Next]_vars

-----------------------------------------------------------------------------
(* Properties.                                                             *)

\* The maps of state and the file hold leases of the pool with known names.
TypeOK ==
    /\ up \in BOOLEAN /\ hasFile \in BOOLEAN
    /\ reserved \subseteq Hostname \ {NoName}
    /\ now \in Nat
    /\ leases \in [Client -> Lease \cup {None}]
    /\ offers \in [Client -> Lease \cup {None}]
    /\ declined \in [Pool -> Nat]
    /\ file \in [leases: [Client -> Lease \cup {None}], declined: [Pool -> Nat]]
    /\ promise \in [Client -> [ip: Pool, exp: Nat] \cup {None}]
    /\ quarantine \in [Pool -> Nat]

\* No entry of m1 shares its address with another client's entry of m2.
DisjointMaps(m1, m2) ==
    \A c, d \in Client :
        c # d /\ m1[c] # None /\ m2[d] # None => m1[c].ip # m2[d].ip

\* No entry of m is at a declined address.
AvoidsDeclined(m, d) ==
    \A c \in Client : m[c] # None => d[m[c].ip] = 0

\* occupied() keeps every address with one client, over leases and offers
\* together, and a declined address with none.
AddressExclusive ==
    /\ DisjointMaps(leases, leases)
    /\ DisjointMaps(leases, offers)
    /\ DisjointMaps(offers, offers)
    /\ AvoidsDeclined(leases, declined)
    /\ AvoidsDeclined(offers, declined)

\* No two entries of m carry the same name.
NamesUnique(m) ==
    \A c, d \in Client :
        /\ c # d /\ m[c] # None /\ m[d] # None
        /\ m[c].hostname = m[d].hostname
        => m[c].hostname = NoName

\* A registered name belongs to one lease and is not reserved, so LookupName
\* has one answer whatever the order in which it walks the map.
NameExclusive ==
    /\ NamesUnique(leases)
    /\ \A c \in Client : leases[c] # None => leases[c].hostname \notin reserved

\* What persist wrote, restore accepts, at whatever later time the process
\* starts and whatever names are reserved by then: no crash or failed save
\* leaves a file that keeps the service down.
FileRestorable == Restorable(file)

\* A grant that was acknowledged and has not run out is in the file, if there
\* is one, and in the running manager, at that address and to that time.
PromiseKept ==
    \A c \in Client : promise[c] # None /\ promise[c].exp > now =>
        /\ hasFile =>
               /\ file.leases[c] # None
               /\ file.leases[c].ip = promise[c].ip
               /\ file.leases[c].exp >= promise[c].exp
        /\ up =>
               /\ leases[c] # None
               /\ leases[c].ip = promise[c].ip
               /\ leases[c].exp >= promise[c].exp

\* An address that Decline took out of circulation stays out until the time it
\* recorded, in the file and, crash or not, in the running manager.
QuarantineKept ==
    \A a \in Pool : quarantine[a] > now =>
        /\ hasFile => file.declined[a] >= quarantine[a]
        /\ up => declined[a] >= quarantine[a]

\* The manager implements the contract of LeaseContract.
Contract == INSTANCE LeaseContract WITH durable <- hasFile
\* publish, Release, Decline and restore do what callers were promised.
ContractSpec == Contract!Spec

-----------------------------------------------------------------------------
(* The inductive invariant behind the properties.                          *)

CanonicalNames(m) ==
    \A c \in Client : m[c] # None =>
        NormalizeHostname[m[c].hostname] = m[c].hostname

\* Whatever has been saved, expired or not, is free of conflicts.
FileSound ==
    /\ DisjointMaps(file.leases, file.leases)
    /\ AvoidsDeclined(file.leases, file.declined)
    /\ NamesUnique(file.leases)
    /\ CanonicalNames(file.leases)
    /\ \A c \in Client : file.leases[c] # None => file.leases[c].hostname # NsName

\* Without a file, nothing is promised while the process is down.
NothingOwed ==
    ~hasFile /\ ~up => promise = NoLeases /\ quarantine = NoneDeclined

\* No grant outlives one made now, so a renewal never shortens one.
GrantsBounded ==
    \A c \in Client : promise[c] # None => promise[c].exp <= now + LeaseDuration

IInv ==
    /\ TypeOK
    /\ AddressExclusive
    /\ NameExclusive
    /\ CanonicalNames(leases) /\ CanonicalNames(offers)
    /\ up => NsName \in reserved
    /\ FileSound
    /\ PromiseKept
    /\ QuarantineKept
    /\ NothingOwed
    /\ GrantsBounded

=============================================================================
