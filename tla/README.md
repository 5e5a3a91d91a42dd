# Verification of Infrastructure-in-a-Box

TLA+ models of the stateful parts of this repository, checked with TLC on small
instances, and theorems about the lease manager, the DHCP server, ACME orders,
requests and revocation lists, the CA directory, the NFS handles and the services with
their supervisor, proved with TLAPS for every instance.

## The system

| Part | State | Operations | Hard behaviour | Modules |
|---|---|---|---|---|
| `internal/lease` | leases, offers, declined addresses; JSON file | Offer, Commit, Release, Decline, lookups, New | failed save, crash around the rename, restart with other reserved names, expiry | `LeaseContract`, `LeaseManager`, `LeaseManagerProofs` |
| `internal/dhcpserver` | none of its own | Handle for each packet type | lost, repeated, late packets | `DhcpServer`, `DhcpServerProofs` |
| `internal/acmeserver`, `internal/acmevalidate` | accounts, orders, authorizations, certificates, CRL, quotas; JSON file | one handler per ACME resource | the lock is given up during validation, DHCP moves names during finalize, commit fails before or after its rename, restart | `AcmeOrders`, `AcmeOrdersProofs`, `AcmeRevocation`, `AcmeProofs`, `AcmeLimits` |
| `internal/acmeauth`, `ServeHTTP` of `internal/acmeserver` | nonce queue; accounts and keys | Nonce, Verify, key change, deactivation, revocation | three critical sections in one request, DHCP moves names during a revocation, repeated delivery, capacity, expiry | `AcmeRequests`, `AcmeProofs` |
| `internal/dnsserver` | forwarding slots; the leases of the registry | serveDNS, forward; serve | several lease lookups in one answer, wildcards, subnets off octet boundaries; cancellation before a listener has started | `DnsServer`, `DnsReverse`; `DnsListeners` |
| `internal/tftpserver` | active transfers, counts per client | Serve, transfer, exchange | retransmission, block number wrap-around, slots, shutdown | `TftpServer`, `LdapTftpProofs` |
| `internal/pki` | root and service certificates, in memory and on disk | Open, GetCertificate, SignCSR, CreateCRL | crash between files, competing starts, clock changes, the root's last days | `PkiManager`, `PkiManagerProofs` |
| `internal/nfsserver` | tables of handles and paths; connections, sessions and their files | Stat, OpenFile, Readdir, Remove, Rename, ResolveHandle; Serve, compounds | requests and local processes between two steps of a request; read-only shares; the file system closed behind the connections | `NfsFilesystem`, `NfsFilesystemProofs`; `NfsServer`, `NfsSession` |
| `internal/ldapserver` | connections, bind slots, rights of a connection | serve, handleConnection, bind | admission against shutdown, failed binds | `LdapServer`, `LdapTftpProofs` |
| `internal/gateway` | two HTTP servers | serveListeners, serve | shutdown before Serve, one listener fails | `GatewayServer` |
| `internal/ntpserver`, the loop of `internal/dhcpserver` | one socket | Serve | the socket is closed under a read | `PacketServer` |
| `cmd/infra-box` | the services, their contexts | serve | one fails, all stop | `Contexts`, `Supervisor`, `SupervisorProofs` |
| `internal/config`, `ipxe`, LDAP directory, pages | none that changes | | | not modelled, see below |

DHCP commits leases; ACME validation and issuance look them up; DNS publishes
them; the CA signs for ACME and its list of revocations is kept by ACME.

## The models

**LeaseManager.** Every method runs under one mutex from beginning to end, so
it is one action. `leases`, `offers` and `declined` are the maps of `state`;
`file` is what the last rename saved. `publish` saves and then shows the new
state; `publishThenCrash` is the process ending in between; a save that fails
before its rename is `ReturnUnpublished`. `promise` and `quarantine` are
histories of what callers were told. `LeaseContract` says what callers may rely
on; `ContractSpec` is the refinement.

**DhcpServer** puts Handle, clients and a network around LeaseManager. Handle
is one action that makes one call of the manager. Clients and network are
external.

**AcmeOrders.** `mem` and `disk` are the snapshot in memory and on disk.
`acknowledge`, `Validate` and `settle` are the parts of `challenge` before,
during and after the outbound check; `finalize`, `checkName` and `sign` are the
parts of `finalize`, which holds `Server.mu` (`mu`) while leases (`holder`)
change. A commit that fails before its rename leaves only the touch of the
account (`Read`).

**AcmeRevocation** has the certificates, the list, its number and `published`,
the history of lists that went out. Who may revoke is in AcmeRequests.

**AcmeLimits** has time stamps per source and account, with a clock in ticks.
`seen` and `kept` are histories of the uses of accounts, now and at the last save; a
restart goes back to the latter.

**AcmeRequests** follows a signed request from its delivery (`Arrive`) through
the nonce (`Consume`), the key (`Lookup`) and the account (`Check`) to its handler
(`Handle`), each a critical section of its own; other requests, the expiry of nonces
and a restart come in between. The network may deliver a request any
number of times. `spent` and `applied` are histories. A key is its identity and a
signature is the key that made it; that signatures cannot be forged is assumed.
A revocation for an account that is not the certificate's owner keeps `Server.mu`
while it looks up the lease of one name after the other
(`authorizedForCertificate`, `LookupName`) and until it has saved (`Revoke`); in
between DHCP may move any name (`Reassign`), and other requests get as far as they do
without that mutex. `mu` is that critical section: the leases, the hosts the account
holds authorizations for, both whatever was left when the lock was taken, and as
history the names that were with such a host at some moment since (`good`).
Expiry is judged by the one time `authorizedForCertificate` reads.

**DnsServer** puts `serveDNS` on top of LeaseManager. Each call of the registry,
each reading of the clock and each exchange with the upstream server is a step of
a handler; leases are granted, released and run out in between. A name is a
constant with its parent and its wildcard. `truths` is the history of what the zone
held for a question since it was asked, computed from RFC 4592 on one state of the
leases, not from the code's loops. `DnsReverse` has `reverseAuthority`, with the
number of bits of an octet and of octets of an address as constants, and a
reference definition of the zones a server may speak for.

**Contexts and Supervisor.** `Supervisor` is `serve` of `cmd/infra-box`: it waits
for the first service that returns, cancels, and waits for all. In each behaviour
one service, the `focus`, is the machine of its own module, and the others are
what `serve` expects of them. **DnsListeners**, **GatewayServer**, **LdapServer**,
**NfsServer**, **PacketServer** and **TftpServer** are those machines: goroutines
of the service as parts of its state, one action per critical section or blocking
call. `dns.Server` and `http.Server` are external machines that do what their
documentation and use here say: `ShutdownContext` before the server has started is
an error and stops nothing; `Shutdown` before `Serve` makes `Serve` return at once.

**LdapServer** has both acceptors, the table of connections with its mutex, the
closer, and for each connection the state of `handleConnection` and `bind`. A
request is its kind. `entitled` is the history of what the last bind allows.

**NfsSession** is the session of one connection: the handles local to a compound,
the open files, and each check that stands between an operation and a read-only
share. Which calls an operation leads to is decided by the protocol library and
taken from how the adapter (`operationFS`) is written.

**TftpServer** has the admission tables, one worker per transfer, and packets
that may arrive at any time, again, or never. A packet is assumed not to live
as long as the block numbers take to wrap around (65536 blocks in the code).

**PkiManager** has the CA directory (`disk`, and `litter` for a temporary file
left by a crash) and, per process, how far `open` is and what it holds. Reading
a bundle and writing a file may fail; a write may fail after its link or rename.
The clock is set to any time between steps. A certificate is its validity, its
issuer and what it names; the contents of a signing request are the names it asks
for, in several spellings, and whether its key and extensions are acceptable. A
crash while the first root is written leaves a temporary file, after which
`open` refuses the directory as one whose root is missing, until an administrator
steps in. The model shows this, and no property forbids it.

**NfsFilesystem** has the tree, the tables `handles` and `paths`, and for each
connection the request under way. Requests touch tree and tables in separate
steps, Rename in one (it holds the lock over both). Processes of the host change
the tree at any time. Files have an identity in the model and an inode number in
the code; `Inode` relates them. Shares are writable (for read-only ones see
`NfsSession`). Renaming a path onto itself drops its handle,
since the new name's entry is deleted first; `RenameKeepsHandles` speaks of
renames that move something.

The `Faulty variant` definitions are plausible mistakes in the definition that
follows them. Put in its place, each breaks a property.

## The runs

| Run | Instance | Shows |
|---|---|---|
| lease_manager | see `MCLeaseManager.cfg` | exclusivity of addresses and names, restorable files, kept promises and quarantines, the contract |
| dhcp_server | 2 clients, 1 address, 2 packets under way, clock to 2 | no two clients use one address |
| dns_server | 2 handlers, 2 clients, 2 addresses, clock to 1, 1 forwarding slot, see `MCDnsServer.tla` | answers, lifetimes, reverse zones, forwarding slots |
| acme_orders | 2 accounts, 1 order, 2 names, 2 slots | proofs, issuance, saved state, key rollover and deactivation |
| acme_liveness | 1 account, 2 orders, 1 slot | a check does not stay in processing |
| acme_requests | 2 handlers, 2 accounts, a certificate for 2 names, 2 hosts, queue of 3 nonces, 4 issued, see `MCAcmeRequests.tla` | at most one effect, nonces kept, current authority |
| acme_revocation | 3 certificates, numbers to 4 | confirmed revocations stay listed, one list per number |
| acme_limits | 2 sources, 3 accounts, clock to 5 | quotas in every window, only idle accounts removed, saved uses not forgotten |
| pki_manager | 2 processes, 2 configurations, 2 services, clock to 3 | the root stays, files fit together, what is handed out is valid, renewal comes to rest |
| nfs_handles | 2 connections, 2 files, 4 paths, 2 handles | a handle means one file, follows renames, stays stale |
| nfs_reuse | the same, both files with one inode number | violated: see below |
| services | see `MCSupervisor.tla` | all services end together and leave nothing; LDAP rights and limits; TFTP delivery and slots; read-only NFS shares |

The bounds are small, but each case the properties speak of occurs: the pool is
exhausted with one or two addresses, leases run out before the clock stops and in
the middle of a DNS answer, two validations overlap, a request is delivered to both
handlers at once and again after a restart, the nonce queue is full, names move
between their lookups and before the revocation is saved, list numbers
reach their last value, windows pass, block numbers wrap around once (4 blocks,
numbers modulo 3), slots, tables and
handles run out, certificates are cut to the root's validity. `DnsReverse` is
evaluated for every subnet and every name of addresses of two octets of two bits,
whose prefixes end at octet boundaries and inside octets. In services three LDAP
connections compete for two places and one password check, with two binds on each, so
that a bind that succeeded is followed by one that fails or finds no slot; two NFS connections
for one slot (one session is followed, with one open file and one saved handle),
and four ports of three TFTP clients for two transfers, one per client. In pki_manager at most
one process is up at a time (`OneOwner`), while any number may be opening the
directory: the repository's README says that only one process may own a CA
directory. Symmetry is used over clients, accounts, orders, sources, certificates,
processes and their configurations, ACME handlers, NFS connections, files and
directories, only in runs without liveness. Deadlock
checking is off in `services` only, where the process really ends.

Fairness. `acme_liveness` assumes that a validation goes on (it has a timeout of
five seconds), that a request waiting for `Server.mu` gets it (Go's mutex does
not starve a waiter, hence strong fairness of `settle`), and that finalize does
not stop half-way. `services` assumes that goroutines which wait for no client run
(`...Progress` of each module), that a transfer's worker goes on, since its reads
have deadlines, and that a DNS query is answered, since forwarding has a timeout.
Nothing is assumed of the network or of clients: they may fall silent at any time.

## Where text and code differ

`nfs_reuse`: the comment in Remove says that old handles
are "never reused for a new file". It deletes the file first and takes the lock
afterwards. If in between a file is made at that name and gets the inode number
of the old one, a lookup finds the old entry, `os.SameFile` holds, and the old
handle is given out for the new file (until Remove drops it from the table).
`nfs_handles` shows that nothing of the kind happens while inode numbers are not
used again.

Two observations that no run states. The repository's README says that accounts
expire after 30 idle days; `touchAccount` keeps the time of a use in memory until
the next mutation saves it, so a restart before that may remove the account early.
`OnlyIdleRemoved` states what does hold: only uses that no save followed are forgotten. And a DNS answer made of two states of the
registry may deny a name that existed all the time, first through a wildcard and
then through a lease granted between two lookups. Such an answer carries a lifetime of
zero, so no resolver keeps it; `RecordsTrue` states what holds in every case and
`SteadyAnswers` what holds when no lease came or went.

## The proofs

`LeaseManagerProofs` proves, for all clients, pools, names and durations that
satisfy the named assumptions of `LeaseManager`, every property of the run
lease_manager. The properties are not inductive as they stand. `IInv` adds: names
in memory and file are canonical; the name server's own name is reserved while
the process runs; the file, expired entries included, is free of conflicts
(`FileSound`), since a later save or start reads it back; nothing is owed while
the process is down without a file; no grant outlives one made now
(`GrantsBounded`), so that a renewal never shortens one. `Invariance` shows that
`IInv` holds initially and is kept by each action, one lemma per action;
the properties follow. `ImplementsContract` maps each action to one of
`LeaseContract` or to a stutter, and `GrantsAreExclusive` follows from the
contract.

`DhcpServerProofs` proves both properties of the run dhcp_server for any clients and
any number of packets under way, from the assumptions of `LeaseManager`,
`QueueAssumption` and `GrantAssumption` (`None` is not a grant). `DhcpInv` is `IInv` of the lease manager and three facts about each client:
packets of its current transaction come after all older ones and ask for what the
transaction is about (`WireInv`); an acknowledgement under way is backed by a grant
that lasts at least a lease from when the client first asked, and no older packet is
left (`AckInv`); an address in use is backed, has not run out, and no packet under
way gives it up (`BoundInv`). The last is why a late RELEASE or DECLINE does no harm,
given that the packets of one client reach the server in order, lost or repeated as
they may be (the network of `DhcpServer`). `AddressesAreNotShared` then follows from the manager:
a grant that has not run out is in the lease file, and the file has no conflicts.

`AcmeProofs` proves, from `NumberAssumption`, for any certificates and any
last number, both properties of the run acme_revocation. `RevocationInv` adds that memory
and disk agree between requests (`Saved`); that a confirmed revocation is recorded with
the certificate as well as in the list, since the next list is made from the
certificates (`RevokedInv`); and that nothing has gone out under a number to come, and
only the current list under the current one (`PublishedInv`). `OneListPerNumber` is an
action property; `StepsAreOrdered` derives it from that invariant.

It also proves, from `RequestAssumption` (the queue holds at least one
nonce; only a revocation may come without an account; `None` is not a message), for
any accounts, handlers, messages, names and hosts, the three properties of the run acme_requests. `AtMostOnce` is not
inductive. `OnceInv` adds: no nonce is both outstanding and spent; one that is not
spent has had no effect; a handler past `Consume` holds a spent nonce that has had
none, and no two handlers hold the same. `RequestInv` adds that what a handler works
on has been signed, and that accounts are records. One lemma per
action shows that it is kept. `RoomFacts` is the lemma about the queue: making room
drops no live nonce of the last `maxNonces - 1`, with the cardinality
theorems of the library. `AuthorityIsCurrent` is an action property: a step that
changes an account or revokes is a `Handle` whose checks, repeated under the lock,
are `Entitled`, or a `Revoke`. For the latter `LockInv` is needed: while a handler
looks leases up its account stays active with the key that signed, since what would
change that waits for the lock, and each name of the certificate has been in `good`
or is still to be looked up, since a name is passed only when it is proven at that
moment. What is proved of the names is no more than that: one that moves after its
lookup does not stop the revocation.

`AcmeOrdersProofs` proves, for any accounts, orders, keys,
names, hosts and number of validations, the six properties of the run acme_orders.
The assumptions are `ServesAssumption` (which host serves which key is a relation),
`NoneAssumption` and `ValidationAssumption` (`None` is none of the things it stands
in for). `IInv` says of the snapshot in memory and of the one on disk that accounts
have keys of their own, that open orders belong to active accounts and ready ones
have all their proofs (`Good`), and that no invalid order is left by `prune`
(`Settled`). The two are the same but for checks that memory knows to have been
interrupted (`Agree`), which is what makes a restart or a save that failed after its
rename harmless. Each authorization in processing has exactly one check, and a check
that has reached the host has seen the key it was started with (`Tracks`). While
finalize holds the lock its order stays ready, and the names it has looked up were
leased to the hosts that proved them (`MuInv`). `NotStranded` and the saved state
follow from the invariant, the three action properties from the invariant and one
lemma per action.

`PkiManagerProofs` proves, for any processes, services, configurations and clock,
the four properties of the run pki_manager. `LifetimeAssumption` asks that lifetimes
are positive and that renewal is due before a service certificate ends;
`NoneAssumption` that `None` is no certificate. `IInv` says that what is on disk fits
one root (`DiskGood`), and for each label of `open` what the process there holds next
to the directory (`ProcGood`): a process that got past the root holds the one on disk,
one that got past the export finds its public copy, and every service certificate in
memory lies within that root's validity. A step of one process does not disturb
another since roots on disk stay (`Grows`). `TwoTimes` and `ValidityFacts` are the
arithmetic of cutting a certificate to its root, and `RenewsOnce` rests on them. The
theorems do not need the constraint `OneOwner` of the run: they hold for any number
of processes that use the directory at once.

`NfsFilesystemProofs` proves, for any paths, files, connections and size of the table,
the three properties of the run nfs_handles, and that no step takes a handle out of
the table or changes the file it was made for (`HandlesKeepTheirFiles`).
`PathAssumption` says that paths are sequences of names and that what is above a path
is a path. Its first lemmas are about such sequences: what is below what, and that
moving a subtree can be undone and keeps that order. `IInv` says that the tree has no
holes; that `paths` leads to handles that have that path; that a request between two
steps holds the file its handle was made for; and that a handle given out or resolved
leads to a file with the inode number it was made for. `Follow` states what the loops
of Rename do to both tables. Without an assumption on inode numbers only the number
is certain, as `nfs_reuse` shows; `HandlesMeanOneFile` therefore has the
hypothesis `NumbersAreNew`, that no number is used twice, and is the only theorem
that has it. `HandlesFollowRenames` speaks, like its property, of renames that move
something.

`SupervisorProofs` and `LdapTftpProofs` prove the five safety properties of the run
services, for any connections, limits, peers, files, shares and other services. Each
service has an invariant of its own, and `IInv` is their conjunction with that of
`serve`; a step of one service leaves the state of the others alone, and the contexts
it cancels stay cancelled (`Grows`).

- `LdapInv`: a connection has a goroutine and a place in the table, is in the hand of
  an acceptor, or is closed; the slots taken are the password checks under way; and
  what the closer has passed is closed (`CloserGood`), also if it was admitted after.
- `TftpInv`: the tables count the workers; no packet under way is about a block beyond
  the next one its client waits for, no acknowledgement is ahead of what it has, and no
  worker is more than one block ahead. Then a packet with the number that is expected is
  the one expected: `NumberTells` is the arithmetic of numbers that wrap around, from
  `Recent`, the assumption on the network that a packet does not live that long.
- `GatewayInv` and `DnsInv`: what is shut, drained and collected at each stage of
  `serve`. `NfsInv`: the slots are the connections with a goroutine, what is open
  belongs to one, the file system is open until all are gone, and open files are within
  their limit. `PacketInv`: the socket.
- `ServicesInv`: every service is running, has its outcome in the channel, or has been
  counted, so that `serve` has counted all only when none runs.

The assumptions: limits are natural numbers (`LdapAssumption`, `NfsAssumption`,
`SessionAssumption`, `TftpAssumption`), more than two block numbers and at least one
block (`TftpAssumption`), finitely many services (`ServicesAssumption`), read-only
shares are shares, and the names the models give to places and to nothing are told
from connections, shares and transfers (also `TransferAssumption`).

For AcmeOrders, PkiManager, NfsFilesystem and the services TLC checked the inductive
invariant itself on the instance of the run before it was proved; the runs check
the properties.

Only model-checked: `QuotasHold` and `OnlyIdleRemoved` of AcmeLimits; `SteadyAnswers`,
`RecordsTrue`, `ReverseZonesRight` and `ForwardSlots` of DnsServer; and all liveness,
`ChecksEnd`, `StopsTogether` and `TransfersEnd`. Liveness under fairness is out of the
prover's reach. So is induction over data, on which the quotas (sums over time stamps)
and the answers of DNS (the labels of a name, one after the other) depend.

## Not modelled

- `internal/config`, `ipxe`: read once at start; no state afterwards. The models
  take from it that NFS shares do not overlap.
- `internal/ldapserver` directory, filters, search and BER: functions of one request
  over a tree that does not change. The same goes for the pages and boot files of
  `internal/gateway`, the contents of an NTP answer, the DHCP options, the parsing of
  TFTP requests and of NFS records and operations.
- Cryptography: signatures, password hashes and TLS are what they promise.
- Power failure: a crash is that of the process. The directory of the lease file is
  not synced after the rename, so a power failure may bring the file before it back.
