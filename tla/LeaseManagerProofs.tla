------------------------- MODULE LeaseManagerProofs -------------------------
(***************************************************************************)
(* LeaseManager keeps IInv, and with it every address and name with one    *)
(* client, every saved file restorable and every acknowledged grant in     *)
(* force; and it implements LeaseContract.  All for any number of clients, *)
(* addresses, names and for any durations.                                 *)
(***************************************************************************)
EXTENDS LeaseManager, TLAPS

Entry == Lease \cup {None}

-----------------------------------------------------------------------------
(* Expiry.                                                                 *)

\* expire() only removes entries.
LEMMA UnexpiredFacts ==
    ASSUME NEW m \in [Client -> Entry]
    PROVE  /\ Unexpired(m) \in [Client -> Entry]
           /\ \A c \in Client : Unexpired(m)[c] # None =>
                  m[c] # None /\ Unexpired(m)[c] = m[c] /\ m[c].exp > now
           /\ \A c \in Client : m[c] # None /\ m[c].exp > now => Unexpired(m)[c] = m[c]
BY DEF Unexpired, Live, Entry

\* The same for quarantines.
LEMMA InForceFacts ==
    ASSUME NEW d \in [Pool -> Nat], now \in Nat
    PROVE  /\ InForce(d) \in [Pool -> Nat]
           /\ \A a \in Pool : d[a] > now => InForce(d)[a] = d[a]
           /\ \A a \in Pool : InForce(d)[a] # 0 => InForce(d)[a] = d[a] /\ d[a] > now
           /\ \A a \in Pool : d[a] = 0 => InForce(d)[a] = 0
BY DEF InForce

\* remove() drops the entry of c at ip besides the expired ones.
LEMMA RemoveFacts ==
    ASSUME NEW m \in [Client -> Entry], NEW c \in Client, NEW ip \in Pool
    PROVE  /\ remove(m, c, ip) \in [Client -> Entry]
           /\ \A d \in Client : remove(m, c, ip)[d] # None =>
                  m[d] # None /\ remove(m, c, ip)[d] = m[d] /\ m[d].exp > now
           /\ remove(m, c, ip)[c] # None => remove(m, c, ip)[c].ip # ip
           /\ \A d \in Client : m[d] # None /\ m[d].exp > now /\ (d # c \/ m[d].ip # ip)
                  => remove(m, c, ip)[d] = m[d]
<1>1. CASE HasAt(m, c, ip)
  <2>1. remove(m, c, ip) = [Unexpired(m) EXCEPT ![c] = None]
    BY <1>1 DEF remove
  <2>. QED BY <1>1, <2>1, UnexpiredFacts DEF HasAt, Live, Entry
<1>2. CASE ~HasAt(m, c, ip)
  <2>1. remove(m, c, ip) = Unexpired(m)
    BY <1>2 DEF remove
  <2>. QED BY <1>2, <2>1, UnexpiredFacts DEF HasAt, Live
<1>. QED BY <1>1, <1>2

\* A map whose entries all come from m conflicts with nothing m did not
\* conflict with.
Submap(m1, m) ==
    \A c \in Client : m1[c] # None => m[c] # None /\ m1[c] = m[c]

\* remove() only removes entries.
LEMMA RemoveSubmap ==
    ASSUME NEW m \in [Client -> Entry], NEW c \in Client, NEW ip \in Pool
    PROVE  Submap(remove(m, c, ip), m)
BY RemoveFacts DEF Submap

\* Fewer entries, no new conflict of addresses.
LEMMA SubmapExclusive ==
    ASSUME NEW l, NEW l1, NEW o, NEW o1, Submap(l1, l), Submap(o1, o)
    PROVE  DisjointMaps(l, o) => DisjointMaps(l1, o1)
BY DEF Submap, DisjointMaps

\* Fewer entries and fewer quarantines, no new entry at a declined address.
LEMMA SubmapAvoids ==
    ASSUME NEW l \in [Client -> Entry], NEW l1, Submap(l1, l),
           NEW d \in [Pool -> Nat], now \in Nat, AvoidsDeclined(l, d)
    PROVE  AvoidsDeclined(l1, InForce(d))
<1> SUFFICES ASSUME NEW c \in Client, l1[c] # None PROVE InForce(d)[l1[c].ip] = 0
  BY DEF AvoidsDeclined
<1>1. l[c] # None /\ l1[c] = l[c] BY DEF Submap
<1>2. l[c] \in Lease BY <1>1 DEF Entry
<1>3. l[c].ip \in Pool BY <1>2 DEF Lease
<1>4. d[l[c].ip] = 0 BY <1>1 DEF AvoidsDeclined
<1>. QED BY <1>1, <1>3, <1>4 DEF InForce

\* Fewer entries, no new conflict of names.
LEMMA SubmapNames ==
    ASSUME NEW l, NEW l1, Submap(l1, l)
    PROVE  /\ NamesUnique(l) => NamesUnique(l1)
           /\ CanonicalNames(l) => CanonicalNames(l1)
BY DEF Submap, NamesUnique, CanonicalNames

-----------------------------------------------------------------------------
(* What a method has to establish for the state it leaves.                 *)

\* Maps l, o, d are typed and free of conflicts.
NextSound(l, o, d) ==
    /\ l \in [Client -> Entry] /\ o \in [Client -> Entry] /\ d \in [Pool -> Nat]
    /\ DisjointMaps(l, l) /\ DisjointMaps(l, o) /\ DisjointMaps(o, o)
    /\ AvoidsDeclined(l, d) /\ AvoidsDeclined(o, d)
    /\ NamesUnique(l) /\ CanonicalNames(l) /\ CanonicalNames(o)
    /\ \A c \in Client : l[c] # None => l[c].hostname \notin reserved

\* Maps l, d honour the grants p and the quarantines q.
Honours(l, d, p, q) ==
    /\ p \in [Client -> [ip: Pool, exp: Nat] \cup {None}]
    /\ q \in [Pool -> Nat]
    /\ \A c \in Client : p[c] # None /\ p[c].exp > now =>
           l[c] # None /\ l[c].ip = p[c].ip /\ l[c].exp >= p[c].exp
    /\ \A c \in Client : p[c] # None => p[c].exp <= now + LeaseDuration
    /\ \A a \in Pool : q[a] > now => d[a] >= q[a]

\* Expiry alone leaves a sound state that honours what is owed.
LEMMA ExpirySound ==
    ASSUME IInv, up
    PROVE  /\ NextSound(Unexpired(leases), Unexpired(offers), InForce(declined))
           /\ Honours(Unexpired(leases), InForce(declined), promise, quarantine)
<1> DEFINE l == Unexpired(leases)
           o == Unexpired(offers)
           d == InForce(declined)
<1> USE DEF IInv
<1>1. /\ leases \in [Client -> Entry] /\ offers \in [Client -> Entry]
      /\ declined \in [Pool -> Nat] /\ now \in Nat
  BY DEF TypeOK, Entry
<1>2. l \in [Client -> Entry] /\ o \in [Client -> Entry] /\ d \in [Pool -> Nat]
  BY <1>1, UnexpiredFacts, InForceFacts
<1>3. Submap(l, leases) /\ Submap(o, offers)
  BY <1>1, UnexpiredFacts DEF Submap
<1>4. DisjointMaps(l, l) /\ DisjointMaps(l, o) /\ DisjointMaps(o, o)
  BY <1>3, SubmapExclusive DEF AddressExclusive
<1>5. AvoidsDeclined(l, d) /\ AvoidsDeclined(o, d)
  BY <1>1, <1>3, SubmapAvoids DEF AddressExclusive
<1>6. NamesUnique(l) /\ CanonicalNames(l) /\ CanonicalNames(o)
  BY <1>3, SubmapNames DEF NameExclusive
<1>7. \A c \in Client : l[c] # None => l[c].hostname \notin reserved
  BY <1>3 DEF Submap, NameExclusive
<1>8. NextSound(l, o, d)
  BY <1>2, <1>4, <1>5, <1>6, <1>7 DEF NextSound
<1>9. ASSUME NEW c \in Client, promise[c] # None, promise[c].exp > now
      PROVE  l[c] # None /\ l[c].ip = promise[c].ip /\ l[c].exp >= promise[c].exp
  <2>1. /\ leases[c] # None /\ leases[c].ip = promise[c].ip
        /\ leases[c].exp >= promise[c].exp
    BY <1>9 DEF PromiseKept
  <2>2. promise[c].exp \in Nat
    BY <1>9 DEF TypeOK
  <2>3. leases[c].exp \in Nat
    BY <2>1, <1>1 DEF Entry, Lease
  <2>4. leases[c].exp > now
    BY <2>1, <2>2, <2>3, <1>1, <1>9
  <2>. QED BY <2>1, <2>4, <1>1, UnexpiredFacts
<1>10. ASSUME NEW a \in Pool, quarantine[a] > now
       PROVE  d[a] >= quarantine[a]
  <2>1. declined[a] >= quarantine[a] /\ quarantine[a] \in Nat /\ declined[a] \in Nat
    BY <1>10, <1>1 DEF QuarantineKept, TypeOK
  <2>2. declined[a] > now
    BY <2>1, <1>1, <1>10
  <2>. QED BY <2>1, <2>2, <1>1, InForceFacts
<1>11. Honours(l, d, promise, quarantine)
  BY <1>9, <1>10 DEF Honours, TypeOK, GrantsBounded
<1>. QED BY <1>8, <1>11

\* A method that only changes memory keeps the invariant if it leaves a sound
\* state.
LEMMA MemoryStep ==
    ASSUME IInv, up, UNCHANGED <<up, config, now, file, history>>,
           NextSound(leases', offers', declined'),
           Honours(leases', declined', promise, quarantine)
    PROVE  IInv'
<1> USE DEF IInv, NextSound, Honours, Entry, config, history
<1>1. TypeOK'
  BY DEF TypeOK
<1>2. AddressExclusive' /\ NameExclusive'
  BY DEF AddressExclusive, NameExclusive, DisjointMaps, AvoidsDeclined, NamesUnique
<1>3. CanonicalNames(leases)' /\ CanonicalNames(offers)'
  BY DEF CanonicalNames
<1>4. FileSound'
  BY DEF FileSound, DisjointMaps, AvoidsDeclined, NamesUnique, CanonicalNames
<1>5. PromiseKept' /\ QuarantineKept'
  BY DEF PromiseKept, QuarantineKept
<1>6. GrantsBounded'
  BY DEF GrantsBounded
<1>7. (up => NsName \in reserved)' /\ NothingOwed'
  BY DEF NothingOwed
<1>. QED BY <1>1, <1>2, <1>3, <1>4, <1>5, <1>6, <1>7

\* A method that publishes keeps the invariant, whether it returns or the
\* process dies after the rename.
LEMMA PublishStep ==
    ASSUME IInv, up, UNCHANGED <<config, now>>,
           NEW l, NEW o, NEW d,
           publish(l, o, d) \/ publishThenCrash(l, d),
           NextSound(l, o, d), Honours(l, d, promise', quarantine')
    PROVE  IInv'
<1> USE DEF IInv, config
<1>1. file' = IF hasFile THEN [leases |-> l, declined |-> d] ELSE file
  BY DEF publish, publishThenCrash, persist
<1>2. NsName \in reserved
  OBVIOUS
<1>3. FileSound'
  <2>1. CASE hasFile
    <3>1. file'.leases = l /\ file'.declined = d
      BY <1>1, <2>1
    <3>. QED BY <3>1, <1>2 DEF FileSound, NextSound, DisjointMaps, AvoidsDeclined,
                               NamesUnique, CanonicalNames
  <2>2. CASE ~hasFile
    BY <1>1, <2>2 DEF FileSound, DisjointMaps, AvoidsDeclined, NamesUnique, CanonicalNames
  <2>. QED BY <2>1, <2>2
<1>4. file' \in [leases: [Client -> Entry], declined: [Pool -> Nat]]
  BY <1>1 DEF TypeOK, NextSound, Entry
<1>5. CASE publish(l, o, d)
  <2>1. leases' = l /\ offers' = o /\ declined' = d /\ up' = up
    BY <1>5 DEF publish
  <2>2. TypeOK'
    BY <2>1, <1>4 DEF TypeOK, NextSound, Honours, Entry
  <2>3. AddressExclusive' /\ NameExclusive'
    BY <2>1 DEF NextSound, AddressExclusive, NameExclusive, DisjointMaps,
                AvoidsDeclined, NamesUnique
  <2>4. CanonicalNames(leases)' /\ CanonicalNames(offers)'
    BY <2>1 DEF NextSound, CanonicalNames
  <2>5. PromiseKept' /\ QuarantineKept'
    BY <2>1, <1>1 DEF Honours, PromiseKept, QuarantineKept
  <2>6. (up => NsName \in reserved)' /\ NothingOwed'
    BY <2>1 DEF NothingOwed
  <2>7. GrantsBounded'
    BY DEF Honours, GrantsBounded
  <2>. QED BY <2>2, <2>3, <2>4, <2>5, <2>6, <2>7, <1>3
<1>6. CASE publishThenCrash(l, d)
  <2>1. /\ leases' = NoLeases /\ offers' = NoLeases /\ declined' = NoneDeclined
        /\ up' = FALSE /\ hasFile
    BY <1>6 DEF publishThenCrash, Halt
  <2>2. TypeOK'
    BY <2>1, <1>4 DEF TypeOK, Honours, Entry, NoLeases, NoneDeclined
  <2>3. AddressExclusive' /\ NameExclusive'
    BY <2>1 DEF NoLeases, AddressExclusive, NameExclusive, DisjointMaps,
                AvoidsDeclined, NamesUnique
  <2>4. CanonicalNames(leases)' /\ CanonicalNames(offers)'
    BY <2>1 DEF NoLeases, CanonicalNames
  <2>5. PromiseKept' /\ QuarantineKept'
    BY <2>1, <1>1 DEF Honours, PromiseKept, QuarantineKept
  <2>6. (up => NsName \in reserved)' /\ NothingOwed'
    BY <2>1 DEF NothingOwed
  <2>7. GrantsBounded'
    BY DEF Honours, GrantsBounded
  <2>. QED BY <2>2, <2>3, <2>4, <2>5, <2>6, <2>7, <1>3
<1>. QED BY <1>5, <1>6

-----------------------------------------------------------------------------
(* The choices of address and name.                                        *)

\* Nobody but c has a live lease or offer at ip, and no quarantine covers it.
FreeFor(c, ip) ==
    /\ ip \in Pool
    /\ \A d \in Client \ {c} : Unexpired(leases)[d] # None => Unexpired(leases)[d].ip # ip
    /\ \A d \in Client \ {c} : Unexpired(offers)[d] # None => Unexpired(offers)[d].ip # ip
    /\ InForce(declined)[ip] = 0

\* occupied() names every address that is not free.
LEMMA UnoccupiedIsFree ==
    ASSUME TypeOK, NEW c \in Client, NEW ip \in Pool \ occupied(c)
    PROVE  FreeFor(c, ip)
<1>1. \A d \in Client \ {c} : Live(leases[d]) => leases[d].ip # ip
  BY DEF occupied, OthersIn
<1>2. \A d \in Client \ {c} : Live(offers[d]) => offers[d].ip # ip
  BY DEF occupied, OthersIn
<1>3. ~(declined[ip] > now)
  BY DEF occupied
<1>4. InForce(declined)[ip] = 0
  BY <1>3 DEF InForce
<1>5. \A d \in Client : Unexpired(leases)[d] # None =>
          Live(leases[d]) /\ Unexpired(leases)[d] = leases[d]
  BY DEF Unexpired
<1>6. \A d \in Client : Unexpired(offers)[d] # None =>
          Live(offers[d]) /\ Unexpired(offers)[d] = offers[d]
  BY DEF Unexpired
<1>. QED BY <1>1, <1>2, <1>4, <1>5, <1>6 DEF FreeFor

\* An offer goes to an address that is free or already the client's.
LEMMA OfferIsFree ==
    ASSUME IInv, NEW c \in Client, NEW requested, NEW ip \in OfferChoice(c, requested)
    PROVE  FreeFor(c, ip)
<1> USE DEF IInv
<1>1. /\ leases \in [Client -> Entry] /\ offers \in [Client -> Entry]
      /\ declined \in [Pool -> Nat] /\ now \in Nat
  BY DEF TypeOK, Entry
<1>2. Submap(Unexpired(leases), leases) /\ Submap(Unexpired(offers), offers)
  BY <1>1, UnexpiredFacts DEF Submap
<1>3. CASE Live(leases[c])
  <2>1. ip = leases[c].ip /\ leases[c] # None
    BY <1>3 DEF OfferChoice, Live
  <2>2. ip \in Pool
    BY <2>1, <1>1 DEF Entry, Lease
  <2>3. declined[ip] = 0
    BY <2>1 DEF AddressExclusive, AvoidsDeclined
  <2>. QED BY <2>1, <2>2, <2>3, <1>1, <1>2, InForceFacts
           DEF FreeFor, Submap, AddressExclusive, DisjointMaps
<1>4. CASE ~Live(leases[c]) /\ Live(offers[c])
  <2>1. ip = offers[c].ip /\ offers[c] # None
    BY <1>4 DEF OfferChoice, Live
  <2>2. ip \in Pool
    BY <2>1, <1>1 DEF Entry, Lease
  <2>3. declined[ip] = 0
    BY <2>1 DEF AddressExclusive, AvoidsDeclined
  <2>. QED BY <2>1, <2>2, <2>3, <1>1, <1>2, InForceFacts
           DEF FreeFor, Submap, AddressExclusive, DisjointMaps
<1>5. CASE ~Live(leases[c]) /\ ~Live(offers[c])
  <2>1. ip \in Pool \ occupied(c)
    BY <1>5 DEF OfferChoice
  <2>. QED BY <2>1, UnoccupiedIsFree
<1>. QED BY <1>3, <1>4, <1>5

\* The chosen name is a canonical one.
LEMMA ChosenNameCanonical ==
    ASSUME IInv, NEW c \in Client, NEW hostname \in Hostname, NEW applies \in BOOLEAN,
           applies => Live(offers[c])
    PROVE  /\ ChosenName(c, hostname, applies) \in Hostname
           /\ NormalizeHostname[ChosenName(c, hostname, applies)] =
                  ChosenName(c, hostname, applies)
<1> DEFINE name == ChosenName(c, hostname, applies)
<1>1. CASE hostname # NoName
  BY <1>1, HostnameAssumption DEF ChosenName
<1>2. CASE hostname = NoName /\ applies
  <2>1. name = offers[c].hostname /\ offers[c] # None
    BY <1>2 DEF ChosenName, Live
  <2>2. offers[c] \in Lease
    BY <2>1 DEF IInv, TypeOK
  <2>. QED BY <2>1, <2>2 DEF IInv, CanonicalNames, Lease
<1>3. CASE hostname = NoName /\ ~applies
  <2>1. CASE Live(leases[c]) /\ leases[c].hostname # NoName
    <3>1. name = leases[c].hostname /\ leases[c] # None
      BY <1>3, <2>1 DEF ChosenName, Live
    <3>2. leases[c] \in Lease
      BY <3>1 DEF IInv, TypeOK
    <3>. QED BY <3>1, <3>2 DEF IInv, CanonicalNames, Lease
  <2>2. CASE ~(Live(leases[c]) /\ leases[c].hostname # NoName)
    <3>1. name = NormalizeHostname[Fallback[c]]
      BY <1>3, <2>2 DEF ChosenName
    <3>. QED BY <3>1, HostnameAssumption
  <2>. QED BY <2>1, <2>2
<1>. QED BY <1>1, <1>2, <1>3

\* Giving c an entry at an address free for it causes no conflict.
LEMMA PutExclusive ==
    ASSUME NEW l, NEW o \in [Client -> Entry], NEW c \in Client, NEW e,
           DisjointMaps(l, o),
           \A d \in Client \ {c} : l[d] # None => l[d].ip # e.ip
    PROVE  DisjointMaps(l, [o EXCEPT ![c] = e])
BY DEF DisjointMaps

-----------------------------------------------------------------------------
(* One lemma per method.                                                   *)

\* An offer goes to an address that is free for its client.
LEMMA OfferStep ==
    ASSUME IInv, NEW c \in Client, NEW requested, NEW hostname \in Hostname,
           OfferWithFallback(c, requested, hostname)
    PROVE  IInv'
<1> DEFINE l == Unexpired(leases)
           o == Unexpired(offers)
           d == InForce(declined)
           name == ChosenName(c, hostname, Live(offers[c]))
<1>1. up BY DEF OfferWithFallback
<1>2. NextSound(l, o, d) /\ Honours(l, d, promise, quarantine)
  BY <1>1, ExpirySound
<1>3. PICK ip \in OfferChoice(c, requested) :
          offers' = [o EXCEPT ![c] =
                        [ip |-> ip, hostname |-> name, exp |-> now + OfferDuration]]
  BY DEF OfferWithFallback
<1> DEFINE e == [ip |-> ip, hostname |-> name, exp |-> now + OfferDuration]
<1>4. FreeFor(c, ip) BY OfferIsFree
<1>5. name \in Hostname /\ NormalizeHostname[name] = name
  <2>1. Live(offers[c]) \in BOOLEAN BY DEF Live
  <2>. QED BY <2>1, ChosenNameCanonical
<1>6. e \in Lease
  <2>1. now \in Nat
    BY DEF IInv, TypeOK
  <2>2. now + OfferDuration \in Nat
    BY <2>1, DurationAssumption
  <2>3. ip \in Pool
    BY <1>4 DEF FreeFor
  <2>. HIDE DEF name
  <2>. QED BY <1>5, <2>2, <2>3 DEF Lease
<1>7. leases' = l /\ declined' = d /\ UNCHANGED <<up, config, now, file, history>>
  BY DEF OfferWithFallback
<1> HIDE DEF name, e
<1>8. e.ip = ip /\ e.hostname = name
  BY DEF e
<1>9. o \in [Client -> Entry] /\ offers' = [o EXCEPT ![c] = e]
  BY <1>2, <1>3 DEF NextSound, e
<1> HIDE DEF l, o, d
<1>10. \A x \in Client \ {c} : (l[x] # None => l[x].ip # ip) /\ (o[x] # None => o[x].ip # ip)
  BY <1>4 DEF FreeFor, l, o
<1>11. DisjointMaps(l, offers')
  BY <1>2, <1>8, <1>9, <1>10, PutExclusive DEF NextSound
<1>12. DisjointMaps(offers', offers')
  BY <1>2, <1>8, <1>9, <1>10 DEF NextSound, DisjointMaps
<1>13. AvoidsDeclined(offers', d)
  BY <1>2, <1>4, <1>8, <1>9 DEF NextSound, AvoidsDeclined, FreeFor, d
<1>14. CanonicalNames(offers')
  BY <1>2, <1>5, <1>8, <1>9 DEF NextSound, CanonicalNames
<1>15. offers' \in [Client -> Entry]
  BY <1>6, <1>9 DEF Entry
<1>16. NextSound(leases', offers', declined')
  BY <1>2, <1>7, <1>11, <1>12, <1>13, <1>14, <1>15 DEF NextSound
<1>. QED BY <1>1, <1>2, <1>7, <1>16, MemoryStep

\* A commit puts one lease at a free address, under a name nobody has; a crash
\* after its rename leaves the new lease in the file and at most the old grant
\* acknowledged.
LEMMA CommitStep ==
    ASSUME IInv, NEW c \in Client, NEW ip \in Pool, NEW hostname \in Hostname,
           CommitWithFallback(c, ip, hostname)
    PROVE  IInv'
<1> DEFINE l == Unexpired(leases)
           o == Unexpired(offers)
           d == InForce(declined)
           chosen == ChosenName(c, hostname, HasAt(offers, c, ip))
           name == RegisteredName(c, chosen)
           e == [ip |-> ip, hostname |-> name, exp |-> now + LeaseDuration]
           nl == [l EXCEPT ![c] = e]
           no == [o EXCEPT ![c] = None]
<1>1. up /\ FreeFor(c, ip) /\ UNCHANGED <<config, now, quarantine>>
  BY UnoccupiedIsFree DEF CommitWithFallback, IInv
<1>2. NextSound(l, o, d) /\ Honours(l, d, promise, quarantine)
  BY <1>1, ExpirySound
<1>3. chosen \in Hostname /\ NormalizeHostname[chosen] = chosen
  <2>1. HasAt(offers, c, ip) \in BOOLEAN /\ (HasAt(offers, c, ip) => Live(offers[c]))
    BY DEF HasAt, Live
  <2>. QED BY <2>1, ChosenNameCanonical
<1>4. /\ name \in Hostname /\ NormalizeHostname[name] = name /\ name \notin reserved
      /\ \A x \in Client \ {c} : Live(leases[x]) /\ leases[x].hostname = name => name = NoName
  <2>1. NoName \notin reserved
    BY DEF IInv, TypeOK
  <2>. HIDE DEF chosen
  <2>. QED BY <1>3, <2>1, HostnameAssumption DEF RegisteredName
<1>5. e \in Lease /\ e # None
  <2>1. now \in Nat
    BY DEF IInv, TypeOK
  <2>2. now + LeaseDuration \in Nat
    BY <2>1, DurationAssumption
  <2>. HIDE DEF name
  <2>3. e \in Lease
    BY <1>4, <2>2 DEF Lease
  <2>. HIDE DEF e
  <2>. QED BY <2>3, NoneAssumption
<1>6. \/ publish(nl, no, d) /\ promise' = [promise EXCEPT ![c] = [ip |-> ip, exp |-> e.exp]]
      \/ publishThenCrash(nl, d) /\ promise' = GivesUpOthers(c, ip)
  BY DEF CommitWithFallback
<1>7. e.ip = ip /\ e.hostname = name /\ e.exp = now + LeaseDuration
  OBVIOUS
<1>8. \A x \in Client : l[x] # None => Live(leases[x]) /\ l[x] = leases[x]
  BY DEF Unexpired
<1> HIDE DEF chosen, name, e, l, o, d
<1>9. l \in [Client -> Entry] /\ o \in [Client -> Entry] /\ d \in [Pool -> Nat]
  BY <1>2 DEF NextSound
<1>10. \A x \in Client \ {c} : (l[x] # None => l[x].ip # ip) /\ (o[x] # None => o[x].ip # ip)
  BY <1>1 DEF FreeFor, l, o
<1>11. nl \in [Client -> Entry] /\ no \in [Client -> Entry]
  BY <1>5, <1>9 DEF Entry
<1>12. DisjointMaps(nl, nl)
  BY <1>2, <1>7, <1>9, <1>10 DEF NextSound, DisjointMaps
<1>13. DisjointMaps(nl, no) /\ DisjointMaps(no, no)
  BY <1>2, <1>7, <1>9, <1>10 DEF NextSound, DisjointMaps
<1>14. AvoidsDeclined(nl, d) /\ AvoidsDeclined(no, d)
  BY <1>1, <1>2, <1>7, <1>9 DEF NextSound, AvoidsDeclined, FreeFor, d
<1>15. NamesUnique(nl)
  BY <1>2, <1>4, <1>7, <1>8, <1>9 DEF NextSound, NamesUnique
<1>16. CanonicalNames(nl) /\ CanonicalNames(no)
  BY <1>2, <1>4, <1>7, <1>9 DEF NextSound, CanonicalNames
<1>17. \A x \in Client : nl[x] # None => nl[x].hostname \notin reserved
  BY <1>2, <1>4, <1>7, <1>9 DEF NextSound
<1>18. NextSound(nl, no, d)
  BY <1>9, <1>11, <1>12, <1>13, <1>14, <1>15, <1>16, <1>17 DEF NextSound
<1>19. /\ promise' \in [Client -> [ip: Pool, exp: Nat] \cup {None}]
       /\ \A x \in Client \ {c} : promise'[x] = promise[x]
       /\ promise'[c] # None =>
              promise'[c].ip = ip /\ (promise'[c].exp = e.exp \/ promise'[c] = promise[c])
  <2>1. promise \in [Client -> [ip: Pool, exp: Nat] \cup {None}]
    BY DEF IInv, TypeOK
  <2>2. e.exp \in Nat
    BY <1>5 DEF Lease
  <2>3. CASE promise' = [promise EXCEPT ![c] = [ip |-> ip, exp |-> e.exp]]
    <3> DEFINE g == [ip |-> ip, exp |-> e.exp]
    <3>1. g \in [ip: Pool, exp: Nat] /\ g.ip = ip /\ g.exp = e.exp
      BY <2>2
    <3>2. promise' = [promise EXCEPT ![c] = g]
      BY <2>3
    <3> HIDE DEF g
    <3>3. promise'[c] = g /\ \A x \in Client \ {c} : promise'[x] = promise[x]
      BY <2>1, <3>2
    <3>. QED BY <2>1, <3>1, <3>2, <3>3
  <2>4. CASE promise' = GivesUpOthers(c, ip)
    <3>1. CASE promise[c] # None /\ promise[c].ip # ip
      BY <2>1, <2>4, <3>1 DEF GivesUpOthers
    <3>2. CASE ~(promise[c] # None /\ promise[c].ip # ip)
      BY <2>1, <2>4, <3>2 DEF GivesUpOthers
    <3>. QED BY <3>1, <3>2
  <2>. QED BY <1>6, <2>3, <2>4
<1>20. promise[c] # None => promise[c].exp <= e.exp
  BY <1>7 DEF IInv, GrantsBounded
<1>21. \A x \in Client : promise'[x] # None => promise'[x].exp <= now + LeaseDuration
  <2>1. e.exp \in Nat
    BY <1>5 DEF Lease
  <2>2. ASSUME NEW x \in Client, promise'[x] # None
        PROVE  promise'[x].exp <= now + LeaseDuration
    <3>1. CASE x = c
      <4>1. promise'[c] # None
        BY <2>2, <3>1
      <4>2. CASE promise'[c].exp = e.exp
        BY <1>7, <2>1, <3>1, <4>2
      <4>3. CASE promise'[c] = promise[c]
        BY <1>7, <1>20, <3>1, <4>1, <4>3
      <4>. QED BY <1>19, <4>1, <4>2, <4>3
    <3>2. CASE x # c
      <4>1. promise'[x] = promise[x]
        BY <1>19, <3>2
      <4>2. promise[x] # None => promise[x].exp <= now + LeaseDuration
        BY <1>2 DEF Honours
      <4>. QED BY <2>2, <4>1, <4>2
    <3>. QED BY <3>1, <3>2
  <2>. QED BY <2>2
<1>22. Honours(nl, d, promise', quarantine')
  BY <1>1, <1>2, <1>5, <1>7, <1>9, <1>19, <1>20, <1>21 DEF Honours
<1>. QED BY <1>1, <1>6, <1>18, <1>22, PublishStep

\* The history after c gives ip up: nobody else is affected.
LEMMA GivesUpFacts ==
    ASSUME TypeOK, NEW c \in Client, NEW ip \in Pool
    PROVE  /\ GivesUp(c, ip) \in [Client -> [ip: Pool, exp: Nat] \cup {None}]
           /\ \A x \in Client : GivesUp(c, ip)[x] # None =>
                  promise[x] # None /\ GivesUp(c, ip)[x] = promise[x] /\ (x # c \/ promise[x].ip # ip)
BY DEF GivesUp, TypeOK

\* Removing the entries of c at ip leaves a sound state.
LEMMA RemovalSound ==
    ASSUME IInv, up, NEW c \in Client, NEW ip \in Pool
    PROVE  /\ NextSound(remove(leases, c, ip), remove(offers, c, ip), InForce(declined))
           /\ Honours(remove(leases, c, ip), InForce(declined), GivesUp(c, ip), quarantine)
<1> DEFINE l == remove(leases, c, ip)
           o == remove(offers, c, ip)
           d == InForce(declined)
<1> USE DEF IInv
<1>1. /\ leases \in [Client -> Entry] /\ offers \in [Client -> Entry]
      /\ declined \in [Pool -> Nat] /\ now \in Nat
  BY DEF TypeOK, Entry
<1>2. l \in [Client -> Entry] /\ o \in [Client -> Entry] /\ d \in [Pool -> Nat]
  BY <1>1, RemoveFacts, InForceFacts
<1>3. Submap(l, leases) /\ Submap(o, offers)
  BY <1>1, RemoveSubmap
<1>4. DisjointMaps(l, l) /\ DisjointMaps(l, o) /\ DisjointMaps(o, o)
  BY <1>3, SubmapExclusive DEF AddressExclusive
<1>5. AvoidsDeclined(l, d) /\ AvoidsDeclined(o, d)
  BY <1>1, <1>3, SubmapAvoids DEF AddressExclusive
<1>6. NamesUnique(l) /\ CanonicalNames(l) /\ CanonicalNames(o)
  BY <1>3, SubmapNames DEF NameExclusive
<1>7. \A x \in Client : l[x] # None => l[x].hostname \notin reserved
  BY <1>3 DEF Submap, NameExclusive
<1>8. NextSound(l, o, d)
  BY <1>2, <1>4, <1>5, <1>6, <1>7 DEF NextSound
<1>9. Honours(Unexpired(leases), d, promise, quarantine)
  BY ExpirySound
<1>10. ASSUME NEW x \in Client, GivesUp(c, ip)[x] # None, GivesUp(c, ip)[x].exp > now
       PROVE  /\ l[x] # None /\ l[x].ip = GivesUp(c, ip)[x].ip
              /\ l[x].exp >= GivesUp(c, ip)[x].exp
  <2>1. /\ promise[x] # None /\ GivesUp(c, ip)[x] = promise[x] /\ promise[x].exp > now
        /\ x # c \/ promise[x].ip # ip
    BY <1>10, GivesUpFacts
  <2>2. /\ Unexpired(leases)[x] # None /\ Unexpired(leases)[x].ip = promise[x].ip
        /\ Unexpired(leases)[x].exp >= promise[x].exp
    BY <2>1, <1>9 DEF Honours
  <2>3. leases[x] # None /\ Unexpired(leases)[x] = leases[x] /\ leases[x].exp > now
    BY <2>2, <1>1, UnexpiredFacts
  <2>4. l[x] = leases[x]
    <3>1. leases[x] # None /\ leases[x].exp > now /\ (x # c \/ leases[x].ip # ip)
      BY <2>1, <2>2, <2>3
    <3>. QED BY <1>1, <3>1, RemoveFacts
  <2>. QED BY <2>1, <2>2, <2>3, <2>4
<1>11. Honours(l, d, GivesUp(c, ip), quarantine)
  <2>. HIDE DEF l, d, IInv
  <2>1. GivesUp(c, ip) \in [Client -> [ip: Pool, exp: Nat] \cup {None}]
    BY GivesUpFacts DEF IInv
  <2>2. \A x \in Client : GivesUp(c, ip)[x] # None => GivesUp(c, ip)[x].exp <= now + LeaseDuration
    <3> SUFFICES ASSUME NEW x \in Client, GivesUp(c, ip)[x] # None
                 PROVE  GivesUp(c, ip)[x].exp <= now + LeaseDuration
      OBVIOUS
    <3>1. promise[x] # None /\ GivesUp(c, ip)[x] = promise[x]
      BY GivesUpFacts DEF IInv
    <3>. QED BY <3>1, <1>9 DEF Honours
  <2>3. quarantine \in [Pool -> Nat] /\ \A a \in Pool : quarantine[a] > now => d[a] >= quarantine[a]
    BY <1>9 DEF Honours
  <2>. QED BY <1>10, <2>1, <2>2, <2>3 DEF Honours
<1>. QED BY <1>8, <1>11

\* A release removes entries and the grant that rested on them.
LEMMA ReleaseStep ==
    ASSUME IInv, NEW c \in Client, NEW ip \in Pool, Release(c, ip)
    PROVE  IInv'
<1> DEFINE l == remove(leases, c, ip)
           o == remove(offers, c, ip)
           d == InForce(declined)
<1>1. /\ up /\ promise' = GivesUp(c, ip) /\ UNCHANGED <<config, now, quarantine>>
      /\ publish(l, o, d) \/ publishThenCrash(l, d)
  BY DEF Release
<1>2. NextSound(l, o, d) /\ Honours(l, d, promise', quarantine')
  BY <1>1, RemovalSound
<1>3. UNCHANGED <<config, now>>
  BY <1>1
<1>. QED BY <1>1, <1>2, <1>3, PublishStep

\* A decline removes the entries at the address it quarantines.
LEMMA DeclineStep ==
    ASSUME IInv, NEW c \in Client, NEW ip \in Pool, Decline(c, ip)
    PROVE  IInv'
<1> DEFINE l == remove(leases, c, ip)
           o == remove(offers, c, ip)
           d == InForce(declined)
           until == now + DeclineDuration
           nd == [d EXCEPT ![ip] = until]
<1>1. /\ up /\ promise' = GivesUp(c, ip) /\ UNCHANGED <<config, now>>
      /\ quarantine' = [quarantine EXCEPT ![ip] = until]
      /\ publish(l, o, nd) \/ publishThenCrash(l, nd)
      /\ owns(c, ip)
  BY DEF Decline
<1>2. NextSound(l, o, d) /\ Honours(l, d, promise', quarantine)
  BY <1>1, RemovalSound
<1>3. /\ leases \in [Client -> Entry] /\ offers \in [Client -> Entry]
      /\ now \in Nat /\ quarantine \in [Pool -> Nat]
  BY DEF IInv, TypeOK, Entry
<1>4. until \in Nat /\ until > now
  BY <1>3, DurationAssumption
\* The declined address was the client's own, so nobody else is at it.
<1>5. \A x \in Client : (l[x] # None => l[x].ip # ip) /\ (o[x] # None => o[x].ip # ip)
  <2>1. /\ Submap(l, leases) /\ Submap(o, offers)
        /\ l[c] # None => l[c].ip # ip
        /\ o[c] # None => o[c].ip # ip
    BY <1>3, RemoveFacts DEF Submap
  <2>2. CASE HasAt(leases, c, ip)
    <3>1. leases[c] # None /\ leases[c].ip = ip
      BY <2>2 DEF HasAt, Live
    <3>2. DisjointMaps(leases, leases) /\ DisjointMaps(leases, offers)
      BY DEF IInv, AddressExclusive
    <3> HIDE DEF l, o
    <3>3. ASSUME NEW x \in Client, x # c
          PROVE  (l[x] # None => l[x].ip # ip) /\ (o[x] # None => o[x].ip # ip)
      <4>1. (l[x] # None => leases[x] # None /\ l[x] = leases[x])
            /\ (o[x] # None => offers[x] # None /\ o[x] = offers[x])
        BY <2>1 DEF Submap
      <4>2. (leases[x] # None => leases[x].ip # ip) /\ (offers[x] # None => offers[x].ip # ip)
        BY <3>1, <3>2, <3>3 DEF DisjointMaps
      <4>. QED BY <4>1, <4>2
    <3>. QED BY <2>1, <3>3
  <2>3. CASE HasAt(offers, c, ip)
    <3>1. offers[c] # None /\ offers[c].ip = ip
      BY <2>3 DEF HasAt, Live
    <3>2. DisjointMaps(leases, offers) /\ DisjointMaps(offers, offers)
      BY DEF IInv, AddressExclusive
    <3> HIDE DEF l, o
    <3>3. ASSUME NEW x \in Client, x # c
          PROVE  (l[x] # None => l[x].ip # ip) /\ (o[x] # None => o[x].ip # ip)
      <4>1. (l[x] # None => leases[x] # None /\ l[x] = leases[x])
            /\ (o[x] # None => offers[x] # None /\ o[x] = offers[x])
        BY <2>1 DEF Submap
      <4>2. (leases[x] # None => leases[x].ip # ip) /\ (offers[x] # None => offers[x].ip # ip)
        BY <3>1, <3>2, <3>3 DEF DisjointMaps
      <4>. QED BY <4>1, <4>2
    <3>. QED BY <2>1, <3>3
  <2>. QED BY <1>1, <2>2, <2>3 DEF owns
<1> HIDE DEF l, o, d, until
<1>6. d \in [Pool -> Nat] /\ nd \in [Pool -> Nat]
  BY <1>2, <1>4 DEF NextSound
<1>7. l \in [Client -> Entry] /\ o \in [Client -> Entry]
  BY <1>2 DEF NextSound
<1>8. AvoidsDeclined(l, nd) /\ AvoidsDeclined(o, nd)
  <2>1. \A x \in Client : (l[x] # None => l[x].ip \in Pool) /\ (o[x] # None => o[x].ip \in Pool)
    BY <1>7 DEF Entry, Lease
  <2>. QED BY <1>2, <1>5, <1>6, <2>1 DEF NextSound, AvoidsDeclined
<1>9. NextSound(l, o, nd)
  BY <1>2, <1>6, <1>8 DEF NextSound
<1>10. Honours(l, nd, promise', quarantine')
  <2>1. /\ promise' \in [Client -> [ip: Pool, exp: Nat] \cup {None}]
        /\ \A x \in Client : promise'[x] # None /\ promise'[x].exp > now =>
               l[x] # None /\ l[x].ip = promise'[x].ip /\ l[x].exp >= promise'[x].exp
        /\ \A x \in Client : promise'[x] # None => promise'[x].exp <= now + LeaseDuration
    BY <1>2 DEF Honours
  <2>2. quarantine' \in [Pool -> Nat]
    BY <1>1, <1>3, <1>4
  <2>3. ASSUME NEW a \in Pool, quarantine'[a] > now PROVE nd[a] >= quarantine'[a]
    <3>1. CASE a = ip
      <4>1. nd[a] = until /\ quarantine'[a] = until
        BY <1>1, <1>3, <1>6, <3>1
      <4>. QED BY <1>4, <4>1
    <3>2. CASE a # ip
      <4>1. nd[a] = d[a] /\ quarantine'[a] = quarantine[a]
        BY <1>1, <1>3, <1>6, <3>2
      <4>. QED BY <1>2, <2>3, <4>1 DEF Honours
    <3>. QED BY <3>1, <3>2
  <2> HIDE DEF nd
  <2>. QED BY <2>1, <2>2, <2>3 DEF Honours
<1>. QED BY <1>1, <1>9, <1>10, PublishStep

\* A lookup, a refusal and a failed save only expire entries.
LEMMA ReturnUnpublishedStep ==
    ASSUME IInv, ReturnUnpublished
    PROVE  IInv'
<1>1. /\ up /\ UNCHANGED <<up, config, now, file, history>>
      /\ leases' = Unexpired(leases) /\ offers' = Unexpired(offers)
      /\ declined' = InForce(declined)
  BY DEF ReturnUnpublished, Expire
<1>2. /\ NextSound(leases', offers', declined')
      /\ Honours(leases', declined', promise, quarantine)
  BY <1>1, ExpirySound
<1>. QED BY <1>1, <1>2, MemoryStep

\* A crash loses memory; what was acknowledged is in the file, if there is one.
LEMMA CrashStep ==
    ASSUME IInv, Crash
    PROVE  IInv'
<1> USE DEF IInv, config
<1>1. /\ leases' = NoLeases /\ offers' = NoLeases /\ declined' = NoneDeclined
      /\ up' = FALSE /\ UNCHANGED <<config, now, file>>
      /\ promise' = IF hasFile THEN promise ELSE NoLeases
      /\ quarantine' = IF hasFile THEN quarantine ELSE NoneDeclined
  BY DEF Crash, Halt
<1>2. TypeOK'
  BY <1>1 DEF TypeOK, NoLeases, NoneDeclined
<1>3. AddressExclusive' /\ NameExclusive'
  BY <1>1 DEF NoLeases, AddressExclusive, NameExclusive, DisjointMaps,
              AvoidsDeclined, NamesUnique
<1>4. CanonicalNames(leases)' /\ CanonicalNames(offers)'
  BY <1>1 DEF NoLeases, CanonicalNames
<1>5. FileSound'
  BY <1>1 DEF FileSound, DisjointMaps, AvoidsDeclined, NamesUnique, CanonicalNames
<1>6. PromiseKept' /\ QuarantineKept'
  BY <1>1 DEF PromiseKept, QuarantineKept
<1>7. (up => NsName \in reserved)' /\ NothingOwed'
  BY <1>1 DEF NothingOwed
<1>8. GrantsBounded'
  BY <1>1 DEF GrantsBounded, NoLeases
<1>. QED BY <1>2, <1>3, <1>4, <1>5, <1>6, <1>7, <1>8

\* restore brings back what is in force, without the names now reserved.
LEMMA StartStep ==
    ASSUME IInv, NEW R \in ReservedConfigs, Start(R)
    PROVE  IInv'
<1> DEFINE saved == Unexpired(file.leases)
<1> USE DEF IInv
<1>1. /\ ~up /\ up' = TRUE /\ reserved' = R /\ offers' = NoLeases
      /\ declined' = InForce(file.declined)
      /\ leases' = [c \in Client |->
                       IF saved[c] # None /\ saved[c].hostname \in R
                       THEN [saved[c] EXCEPT !.hostname = NoName] ELSE saved[c]]
      /\ UNCHANGED <<hasFile, now, file, history>>
  BY DEF Start
<1>2. /\ file.leases \in [Client -> Entry] /\ file.declined \in [Pool -> Nat]
      /\ now \in Nat
  BY DEF TypeOK, Entry
<1>3. saved \in [Client -> Entry] /\ Submap(saved, file.leases)
  BY <1>2, UnexpiredFacts DEF Submap
<1>4. R \subseteq Hostname \ {NoName} /\ NsName \in R
  BY ReservedAssumption
<1>5. /\ leases' \in [Client -> Entry]
      /\ \A c \in Client : leases'[c] # None =>
             /\ saved[c] # None
             /\ leases'[c].ip = saved[c].ip /\ leases'[c].exp = saved[c].exp
             /\ \/ leases'[c].hostname = NoName
                \/ /\ leases'[c].hostname = saved[c].hostname
                   /\ saved[c].hostname \notin R
      /\ \A c \in Client : saved[c] # None =>
             /\ leases'[c] # None
             /\ leases'[c].ip = saved[c].ip /\ leases'[c].exp = saved[c].exp
  <2>. HIDE DEF saved
  <2>1. \A c \in Client : saved[c] # None =>
            /\ saved[c] \in Lease
            /\ [saved[c] EXCEPT !.hostname = NoName] \in Lease
            /\ [saved[c] EXCEPT !.hostname = NoName].ip = saved[c].ip
            /\ [saved[c] EXCEPT !.hostname = NoName].exp = saved[c].exp
            /\ [saved[c] EXCEPT !.hostname = NoName].hostname = NoName
    BY <1>3, HostnameAssumption DEF Entry, Lease
  <2>2. ASSUME NEW c \in Client
        PROVE  /\ leases'[c] \in Entry
               /\ leases'[c] # None =>
                      /\ saved[c] # None
                      /\ leases'[c].ip = saved[c].ip /\ leases'[c].exp = saved[c].exp
                      /\ \/ leases'[c].hostname = NoName
                         \/ /\ leases'[c].hostname = saved[c].hostname
                            /\ saved[c].hostname \notin R
               /\ saved[c] # None =>
                      /\ leases'[c] # None
                      /\ leases'[c].ip = saved[c].ip /\ leases'[c].exp = saved[c].exp
    <3>1. CASE saved[c] # None /\ saved[c].hostname \in R
      <4>1. leases'[c] = [saved[c] EXCEPT !.hostname = NoName]
        BY <1>1, <3>1
      <4>2. /\ leases'[c] \in Lease
            /\ leases'[c].ip = saved[c].ip /\ leases'[c].exp = saved[c].exp
            /\ leases'[c].hostname = NoName
        BY <2>1, <3>1, <4>1
      <4>3. leases'[c] # None
        BY <4>2, NoneAssumption
      <4>. QED BY <3>1, <4>2, <4>3 DEF Entry
    <3>2. CASE ~(saved[c] # None /\ saved[c].hostname \in R)
      <4>1. leases'[c] = saved[c]
        BY <1>1, <3>2
      <4>2. saved[c] \in Entry
        BY <1>3
      <4>. QED BY <3>2, <4>1, <4>2
    <3>. QED BY <3>1, <3>2
  <2>3. leases' \in [Client -> Entry]
    BY <1>1, <2>2
  <2>. QED BY <2>2, <2>3
<1>6. InForce(file.declined) \in [Pool -> Nat]
  BY <1>2, InForceFacts
<1> HIDE DEF saved
<1>7. TypeOK'
  BY <1>1, <1>4, <1>5, <1>6 DEF TypeOK, NoLeases, history, Entry
<1>8. AddressExclusive'
  <2>1. DisjointMaps(leases', leases')
    <3>1. DisjointMaps(saved, saved)
      BY <1>3, SubmapExclusive DEF FileSound
    <3>. QED BY <1>5, <3>1 DEF DisjointMaps
  <2>2. DisjointMaps(leases', offers') /\ DisjointMaps(offers', offers')
    BY <1>1 DEF DisjointMaps, NoLeases
  <2>3. AvoidsDeclined(saved, InForce(file.declined))
    BY <1>2, <1>3, SubmapAvoids DEF FileSound
  <2>4. AvoidsDeclined(leases', declined')
    BY <1>1, <1>5, <2>3 DEF AvoidsDeclined
  <2>5. AvoidsDeclined(offers', declined')
    BY <1>1 DEF AvoidsDeclined, NoLeases
  <2>. QED BY <2>1, <2>2, <2>4, <2>5 DEF AddressExclusive, DisjointMaps, AvoidsDeclined
<1>9. NameExclusive'
  <2>1. NamesUnique(leases')
    <3>1. NamesUnique(saved)
      BY <1>3, SubmapNames DEF FileSound
    <3>. QED BY <1>5, <3>1 DEF NamesUnique
  <2>2. \A c \in Client : leases'[c] # None => leases'[c].hostname \notin reserved'
    BY <1>1, <1>4, <1>5
  <2>. QED BY <2>1, <2>2 DEF NameExclusive, NamesUnique
<1>10. CanonicalNames(leases)' /\ CanonicalNames(offers)'
  BY <1>1, <1>3, <1>5, HostnameAssumption DEF Submap, CanonicalNames, FileSound, NoLeases
<1>11. FileSound'
  BY <1>1 DEF FileSound, DisjointMaps, AvoidsDeclined, NamesUnique, CanonicalNames
<1>12. PromiseKept'
  <2> SUFFICES ASSUME NEW c \in Client, promise[c] # None, promise[c].exp > now
               PROVE  /\ hasFile =>
                             /\ file.leases[c] # None
                             /\ file.leases[c].ip = promise[c].ip
                             /\ file.leases[c].exp >= promise[c].exp
                      /\ leases'[c] # None
                      /\ leases'[c].ip = promise[c].ip
                      /\ leases'[c].exp >= promise[c].exp
    BY <1>1 DEF PromiseKept, history
  <2>1. hasFile
    BY <1>1 DEF NothingOwed, NoLeases
  <2>2. /\ file.leases[c] # None
        /\ file.leases[c].ip = promise[c].ip
        /\ file.leases[c].exp >= promise[c].exp
    BY <2>1 DEF PromiseKept
  <2>3. file.leases[c].exp > now
    <3>1. promise[c].exp \in Nat /\ file.leases[c].exp \in Nat /\ now \in Nat
      BY <2>2, <1>2 DEF TypeOK, Entry, Lease
    <3>2. promise[c].exp > now /\ file.leases[c].exp >= promise[c].exp
      BY <2>2
    <3>. QED BY <3>1, <3>2
  <2>4. saved[c] = file.leases[c]
    BY <1>2, <2>2, <2>3, UnexpiredFacts DEF saved
  <2>. QED BY <1>5, <2>2, <2>4
<1>13. QuarantineKept'
  <2> SUFFICES ASSUME NEW a \in Pool, quarantine[a] > now
               PROVE  /\ hasFile => file.declined[a] >= quarantine[a]
                      /\ declined'[a] >= quarantine[a]
    BY <1>1 DEF QuarantineKept, history
  <2>1. hasFile
    BY <1>1, <1>2 DEF NothingOwed, NoneDeclined
  <2>2. file.declined[a] >= quarantine[a]
    BY <2>1 DEF QuarantineKept
  <2>3. file.declined[a] > now
    BY <1>2, <2>2 DEF TypeOK
  <2>. QED BY <1>1, <1>2, <2>2, <2>3, InForceFacts
<1>14. (up => NsName \in reserved)' /\ NothingOwed' /\ GrantsBounded'
  BY <1>1, <1>4 DEF NothingOwed, GrantsBounded, history
<1>. QED BY <1>7, <1>8, <1>9, <1>10, <1>11, <1>12, <1>13, <1>14

\* Time only ends obligations.
LEMMA TickStep ==
    ASSUME IInv, Tick
    PROVE  IInv'
<1> USE DEF IInv
<1>1. now' = now + 1 /\ now \in Nat /\ UNCHANGED <<up, config, memory, file, history>>
  BY DEF Tick, TypeOK
<1> USE DEF config, memory, history
<1>2. TypeOK'
  BY <1>1 DEF TypeOK
<1>3. AddressExclusive' /\ NameExclusive'
  BY <1>1 DEF AddressExclusive, NameExclusive, DisjointMaps, AvoidsDeclined, NamesUnique
<1>4. CanonicalNames(leases)' /\ CanonicalNames(offers)'
  BY <1>1 DEF CanonicalNames
<1>5. FileSound'
  BY <1>1 DEF FileSound, DisjointMaps, AvoidsDeclined, NamesUnique, CanonicalNames
<1>6. PromiseKept'
  <2>1. \A c \in Client : promise[c] # None => promise[c].exp \in Nat
    BY DEF TypeOK
  <2>2. promise' = promise /\ hasFile' = hasFile /\ up' = up
        /\ file' = file /\ leases' = leases
    BY <1>1
  <2>3. PromiseKept
    OBVIOUS
  <2> HIDE DEF IInv
  <2> SUFFICES ASSUME NEW c \in Client, promise[c] # None, promise[c].exp > now'
               PROVE  /\ hasFile =>
                             /\ file.leases[c] # None
                             /\ file.leases[c].ip = promise[c].ip
                             /\ file.leases[c].exp >= promise[c].exp
                      /\ up =>
                             /\ leases[c] # None
                             /\ leases[c].ip = promise[c].ip
                             /\ leases[c].exp >= promise[c].exp
    BY <2>2 DEF PromiseKept
  <2>4. promise[c].exp > now
    BY <1>1, <2>1
  <2>. QED BY <2>3, <2>4 DEF PromiseKept
<1>7. QuarantineKept'
  BY <1>1 DEF QuarantineKept, TypeOK
<1>8. (up => NsName \in reserved)' /\ NothingOwed'
  BY <1>1 DEF NothingOwed
<1>9. GrantsBounded'
  <2>1. \A c \in Client : promise[c] # None => promise[c].exp \in Nat
    BY DEF TypeOK
  <2>. QED BY <1>1, <2>1, DurationAssumption DEF GrantsBounded
<1>. QED BY <1>2, <1>3, <1>4, <1>5, <1>6, <1>7, <1>8, <1>9

\* Before the first start there is nothing to conflict.
LEMMA InitSound == Init => IInv
<1> SUFFICES ASSUME Init PROVE IInv
  OBVIOUS
<1> USE DEF Init, NoLeases, NoneDeclined, EmptyFile
<1>1. TypeOK
  BY DEF TypeOK
<1>2. AddressExclusive /\ NameExclusive /\ CanonicalNames(leases) /\ CanonicalNames(offers)
  BY DEF AddressExclusive, NameExclusive, DisjointMaps, AvoidsDeclined, NamesUnique,
         CanonicalNames
<1>3. FileSound
  BY DEF FileSound, DisjointMaps, AvoidsDeclined, NamesUnique, CanonicalNames
<1>4. PromiseKept /\ QuarantineKept /\ NothingOwed /\ GrantsBounded
  BY DEF PromiseKept, QuarantineKept, NothingOwed, GrantsBounded
<1>. QED BY <1>1, <1>2, <1>3, <1>4 DEF IInv

\* Every step keeps the invariant.
LEMMA StepSound == IInv /\ [Next]_vars => IInv'
<1> SUFFICES ASSUME IInv, [Next]_vars PROVE IInv'
  OBVIOUS
<1>1. ASSUME NEW c \in Client, NEW requested \in Pool \cup {NoAddr}, NEW h \in Passed,
             OfferWithFallback(c, requested, h)
      PROVE  IInv'
  BY <1>1, OfferStep, HostnameAssumption
<1>2. ASSUME NEW c \in Client, NEW ip \in Pool, NEW h \in Passed, CommitWithFallback(c, ip, h)
      PROVE  IInv'
  BY <1>2, CommitStep, HostnameAssumption
<1>3. ASSUME NEW c \in Client, NEW ip \in Pool, Release(c, ip) \/ Decline(c, ip)
      PROVE  IInv'
  BY <1>3, ReleaseStep, DeclineStep
<1>4. CASE ReturnUnpublished BY <1>4, ReturnUnpublishedStep
<1>5. CASE Crash BY <1>5, CrashStep
<1>6. ASSUME NEW R \in ReservedConfigs, Start(R) PROVE IInv'
  BY <1>6, StartStep
<1>7. CASE Tick BY <1>7, TickStep
<1>8. CASE UNCHANGED vars
  <2>1. /\ UNCHANGED <<up, hasFile, reserved, now, leases, offers, declined, file>>
        /\ UNCHANGED <<promise, quarantine>>
    BY <1>8 DEF vars, config, memory, history
  <2>2. TypeOK'
    BY <2>1 DEF IInv, TypeOK
  <2>3. AddressExclusive'
    BY <2>1 DEF IInv, AddressExclusive, DisjointMaps, AvoidsDeclined
  <2>4. NameExclusive'
    BY <2>1 DEF IInv, NameExclusive, NamesUnique
  <2>5. (CanonicalNames(leases) /\ CanonicalNames(offers) /\ (up => NsName \in reserved))'
    BY <2>1 DEF IInv, CanonicalNames
  <2>6. FileSound'
    BY <2>1 DEF IInv, FileSound, DisjointMaps, AvoidsDeclined, NamesUnique, CanonicalNames
  <2>7. PromiseKept'
    BY <2>1 DEF IInv, PromiseKept
  <2>8. (QuarantineKept /\ NothingOwed /\ GrantsBounded)'
    BY <2>1 DEF IInv, QuarantineKept, NothingOwed, GrantsBounded
  <2>. QED BY <2>2, <2>3, <2>4, <2>5, <2>6, <2>7, <2>8 DEF IInv
<1>. QED BY <1>1, <1>2, <1>3, <1>4, <1>5, <1>6, <1>7, <1>8 DEF Next

-----------------------------------------------------------------------------
(* The theorems.                                                           *)

\* The invariant that carries the others: nothing in memory or in the file
\* conflicts, expired or not, and both honour what has been acknowledged.
THEOREM Invariance == Spec => []IInv
BY InitSound, StepSound, PTL DEF Spec

\* The maps of the manager and its file are well typed.
THEOREM TypeCorrect == Spec => []TypeOK
<1>1. IInv => TypeOK BY DEF IInv
<1>. QED BY <1>1, Invariance, PTL

\* No address is with two clients, nor with one while it is declined.
THEOREM AddressesAreExclusive == Spec => []AddressExclusive
<1>1. IInv => AddressExclusive BY DEF IInv
<1>. QED BY <1>1, Invariance, PTL

\* No name is registered twice, nor while it is reserved.
THEOREM NamesAreExclusive == Spec => []NameExclusive
<1>1. IInv => NameExclusive BY DEF IInv
<1>. QED BY <1>1, Invariance, PTL

\* restore accepts whatever persist has written.
THEOREM FilesAreRestorable == Spec => []FileRestorable
<1>1. IInv => FileRestorable
  <2> SUFFICES ASSUME IInv PROVE Restorable(file)
    BY DEF FileRestorable
  <2> DEFINE saved == Unexpired(file.leases)
  <2>1. /\ file.leases \in [Client -> Entry] /\ file.declined \in [Pool -> Nat]
        /\ now \in Nat
    BY DEF IInv, TypeOK, Entry
  <2>2. Submap(saved, file.leases)
    BY <2>1, UnexpiredFacts DEF Submap
  <2>3. AvoidsDeclined(saved, InForce(file.declined))
    BY <2>1, <2>2, SubmapAvoids DEF IInv, FileSound
  <2>4. \A c \in Client : file.leases[c] # None /\ file.leases[c].hostname # NoName =>
            /\ NormalizeHostname[file.leases[c].hostname] = file.leases[c].hostname
            /\ file.leases[c].hostname # NsName
    BY DEF IInv, FileSound, CanonicalNames
  <2>. HIDE DEF saved
  <2>5. \A c, d \in Client : c # d /\ saved[c] # None /\ saved[d] # None =>
            /\ saved[c].ip # saved[d].ip
            /\ saved[c].hostname = saved[d].hostname => saved[c].hostname = NoName
    BY <2>2 DEF Submap, IInv, FileSound, DisjointMaps, NamesUnique
  <2>. QED BY <2>3, <2>4, <2>5 DEF Restorable, AvoidsDeclined, saved
<1>. QED BY <1>1, Invariance, PTL

\* An acknowledged grant stays in the file and in the running manager until it
\* runs out or its client gives it up.
THEOREM PromisesAreKept == Spec => []PromiseKept
<1>1. IInv => PromiseKept BY DEF IInv
<1>. QED BY <1>1, Invariance, PTL

\* A declined address stays out of circulation, crashes included.
THEOREM QuarantinesAreKept == Spec => []QuarantineKept
<1>1. IInv => QuarantineKept BY DEF IInv
<1>. QED BY <1>1, Invariance, PTL

-----------------------------------------------------------------------------
(* The contract.                                                           *)

\* What a commit or a decline needs of the address: nobody else holds it by an
\* acknowledged grant.
LEMMA OthersHoldNothing ==
    ASSUME IInv, up, NEW c \in Client, NEW ip \in Pool,
           \A d \in Client \ {c} : Live(leases[d]) => leases[d].ip # ip
    PROVE  \A d \in Client \ {c} : ~Contract!Holds(d, ip)
<1> SUFFICES ASSUME NEW d \in Client \ {c}, Contract!Holds(d, ip) PROVE FALSE
  OBVIOUS
<1>1. promise[d] # None /\ promise[d].ip = ip /\ promise[d].exp > now
  BY DEF Contract!Holds
<1>2. leases[d] # None /\ leases[d].ip = ip /\ leases[d].exp >= promise[d].exp
  BY <1>1 DEF IInv, PromiseKept
<1>3. promise[d].exp \in Nat /\ leases[d].exp \in Nat /\ now \in Nat
  BY <1>1, <1>2 DEF IInv, TypeOK, Lease
<1>4. Live(leases[d])
  BY <1>1, <1>2, <1>3 DEF Live
<1>. QED BY <1>2, <1>4

\* Giving an address up is a surrender, or nothing at all.
LEMMA GivingUpSurrenders ==
    ASSUME NEW c \in Client, NEW ip \in Pool,
           promise' = GivesUp(c, ip) \/ promise' = GivesUpOthers(c, ip),
           UNCHANGED <<hasFile, now, quarantine>>
    PROVE  [Contract!Next]_<<hasFile, now, promise, quarantine>>
<1>1. promise' = [promise EXCEPT ![c] = None] \/ promise' = promise
  BY DEF GivesUp, GivesUpOthers
<1>. QED BY <1>1 DEF Contract!Next, Contract!Surrender

\* Every step of the manager is a step of the contract or changes nothing the
\* contract speaks of.
LEMMA ContractStep ==
    ASSUME IInv, [Next]_vars
    PROVE  [Contract!Next]_<<hasFile, now, promise, quarantine>>
<1>1. ASSUME NEW c \in Client, NEW requested \in Pool \cup {NoAddr}, NEW h \in Passed,
             OfferWithFallback(c, requested, h)
      PROVE  UNCHANGED <<hasFile, now, promise, quarantine>>
  BY <1>1 DEF OfferWithFallback, config, history
<1>2. ASSUME NEW c \in Client, NEW ip \in Pool, NEW h \in Passed, CommitWithFallback(c, ip, h)
      PROVE  [Contract!Next]_<<hasFile, now, promise, quarantine>>
  <2>1. UNCHANGED <<hasFile, now, quarantine>> /\ up /\ ip \in Pool \ occupied(c)
    BY <1>2 DEF CommitWithFallback, config
  <2>2. CASE promise' = GivesUpOthers(c, ip)
    BY <2>1, <2>2, GivingUpSurrenders
  <2>3. CASE promise' = [promise EXCEPT ![c] = [ip |-> ip, exp |-> now + LeaseDuration]]
    <3>1. \A d \in Client \ {c} : Live(leases[d]) => leases[d].ip # ip
      BY <2>1 DEF occupied, OthersIn
    <3>2. \A d \in Client \ {c} : ~Contract!Holds(d, ip)
      BY <2>1, <3>1, OthersHoldNothing
    <3>3. quarantine[ip] <= now
      <4>1. ~(declined[ip] > now)
        BY <2>1 DEF occupied
      <4>2. declined[ip] \in Nat /\ quarantine[ip] \in Nat /\ now \in Nat
        BY DEF IInv, TypeOK
      <4>3. quarantine[ip] > now => declined[ip] >= quarantine[ip]
        BY <2>1 DEF IInv, QuarantineKept
      <4>. QED BY <4>1, <4>2, <4>3
    <3>4. Contract!GrantTo(c, ip)
      BY <2>1, <2>3, <3>2, <3>3 DEF Contract!GrantTo
    <3>. QED BY <3>4 DEF Contract!Next
  <2>. QED BY <1>2, <2>2, <2>3 DEF CommitWithFallback
<1>3. ASSUME NEW c \in Client, NEW ip \in Pool, Release(c, ip)
      PROVE  [Contract!Next]_<<hasFile, now, promise, quarantine>>
  BY <1>3, GivingUpSurrenders DEF Release, config
<1>4. ASSUME NEW c \in Client, NEW ip \in Pool, Decline(c, ip)
      PROVE  [Contract!Next]_<<hasFile, now, promise, quarantine>>
  <2>1. /\ up /\ owns(c, ip) /\ UNCHANGED <<hasFile, now>>
        /\ promise' = GivesUp(c, ip)
        /\ quarantine' = [quarantine EXCEPT ![ip] = now + DeclineDuration]
    BY <1>4 DEF Decline, config
  <2>2. \A d \in Client \ {c} : Live(leases[d]) => leases[d].ip # ip
    BY <2>1 DEF owns, HasAt, Live, IInv, AddressExclusive, DisjointMaps
  <2>3. \A d \in Client \ {c} : ~Contract!Holds(d, ip)
    BY <2>1, <2>2, OthersHoldNothing
  <2>4. Contract!Decline(c, ip)
    BY <2>1, <2>3 DEF Contract!Decline, GivesUp
  <2>. QED BY <2>4 DEF Contract!Next
<1>5. CASE ReturnUnpublished
  BY <1>5 DEF ReturnUnpublished, Expire, config, history
<1>6. CASE Crash
  <2>1. CASE hasFile
    BY <1>6, <2>1 DEF Crash, config
  <2>2. CASE ~hasFile
    <3>1. Contract!Forget
      BY <1>6, <2>2 DEF Crash, config, Contract!Forget, NoLeases, NoneDeclined
    <3>. QED BY <3>1 DEF Contract!Next
  <2>. QED BY <2>1, <2>2
<1>7. ASSUME NEW R \in ReservedConfigs, Start(R)
      PROVE  UNCHANGED <<hasFile, now, promise, quarantine>>
  BY <1>7 DEF Start, history
<1>8. CASE Tick
  <2>1. Contract!Elapse
    BY <1>8 DEF Tick, config, history, Contract!Elapse, IInv, TypeOK
  <2>. QED BY <2>1 DEF Contract!Next
<1>9. CASE UNCHANGED vars
  BY <1>9 DEF vars, config, history
<1>. QED BY <1>1, <1>2, <1>3, <1>4, <1>5, <1>6, <1>7, <1>8, <1>9 DEF Next

\* The manager implements the contract: a commit is a grant of an address
\* nobody else holds, and crashes, restarts, expiry and failed saves never
\* take an acknowledged grant or a quarantine back.
THEOREM ImplementsContract == Spec => ContractSpec
<1>1. Init => Contract!Init
  BY DEF Init, Contract!Init, NoLeases, NoneDeclined
<1>2. IInv /\ [Next]_vars => [Contract!Next]_<<hasFile, now, promise, quarantine>>
  BY ContractStep
<1>3. [Contract!Next]_<<hasFile, now, promise, quarantine>> => [Contract!Next]_(Contract!vars)
  BY DEF Contract!vars
<1>. QED BY <1>1, <1>2, <1>3, Invariance, PTL DEF Spec, ContractSpec, Contract!Spec

\* So no two clients ever hold one address by acknowledged grants, and no
\* address is held while it is in quarantine.
THEOREM GrantsAreExclusive == Spec => []Contract!Exclusive
<1>1. IInv => Contract!Exclusive
  <2> SUFFICES ASSUME IInv PROVE Contract!Exclusive
    OBVIOUS
  <2>1. ~hasFile /\ ~up => promise = NoLeases /\ quarantine = NoneDeclined
    BY DEF IInv, NothingOwed
  <2>2. /\ now \in Nat /\ promise \in [Client -> [ip: Pool, exp: Nat] \cup {None}]
        /\ quarantine \in [Pool -> Nat]
        /\ leases \in [Client -> Entry] /\ declined \in [Pool -> Nat]
        /\ file.leases \in [Client -> Entry] /\ file.declined \in [Pool -> Nat]
        /\ hasFile \in BOOLEAN /\ up \in BOOLEAN
    BY DEF IInv, TypeOK, Entry
  <2>3. ASSUME NEW c \in Client, NEW d \in Client, NEW a \in Pool,
               Contract!Holds(c, a), Contract!Holds(d, a), c # d
        PROVE  FALSE
    <3>1. /\ promise[c] # None /\ promise[c].ip = a /\ promise[c].exp > now
          /\ promise[d] # None /\ promise[d].ip = a /\ promise[d].exp > now
      BY <2>3 DEF Contract!Holds
    <3>2. CASE hasFile
      <4>1. /\ file.leases[c] # None /\ file.leases[c].ip = a
            /\ file.leases[d] # None /\ file.leases[d].ip = a
        BY <3>1, <3>2 DEF IInv, PromiseKept
      <4>. QED BY <2>3, <4>1 DEF IInv, FileSound, DisjointMaps
    <3>3. CASE up
      <4>1. leases[c] # None /\ leases[c].ip = a /\ leases[d] # None /\ leases[d].ip = a
        BY <3>1, <3>3 DEF IInv, PromiseKept
      <4>. QED BY <2>3, <4>1 DEF IInv, AddressExclusive, DisjointMaps
    <3>. QED BY <2>1, <3>1, <3>2, <3>3 DEF NoLeases
  <2>4. ASSUME NEW c \in Client, NEW a \in Pool, Contract!Holds(c, a), quarantine[a] > now
        PROVE  FALSE
    <3>1. promise[c] # None /\ promise[c].ip = a /\ promise[c].exp > now
      BY <2>4 DEF Contract!Holds
    <3>2. CASE hasFile
      <4>1. file.leases[c] # None /\ file.leases[c].ip = a /\ file.declined[a] >= quarantine[a]
        BY <3>1, <3>2, <2>4 DEF IInv, PromiseKept, QuarantineKept
      <4>2. file.declined[a] = 0
        BY <4>1 DEF IInv, FileSound, AvoidsDeclined
      <4>3. quarantine[a] \in Nat /\ now \in Nat /\ quarantine[a] > now
        BY <2>2, <2>4
      <4>. QED BY <4>1, <4>2, <4>3
    <3>3. CASE up
      <4>1. leases[c] # None /\ leases[c].ip = a /\ declined[a] >= quarantine[a]
        BY <3>1, <3>3, <2>4 DEF IInv, PromiseKept, QuarantineKept
      <4>2. declined[a] = 0
        BY <4>1 DEF IInv, AddressExclusive, AvoidsDeclined
      <4>3. quarantine[a] \in Nat /\ now \in Nat /\ quarantine[a] > now
        BY <2>2, <2>4
      <4>. QED BY <4>1, <4>2, <4>3
    <3>. QED BY <2>1, <3>1, <3>2, <3>3 DEF NoLeases
  <2>5. \A a \in Pool : ~(quarantine[a] > now) => quarantine[a] <= now
    BY <2>2
  <2>. QED BY <2>3, <2>4, <2>5 DEF Contract!Exclusive
<1>. QED BY <1>1, Invariance, PTL

=============================================================================
