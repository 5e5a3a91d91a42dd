---------------------------- MODULE AcmeRequests ----------------------------
(***************************************************************************)
(* How a signed ACME request is authenticated and carried out:             *)
(* internal/acmeauth (nonces, signatures), ServeHTTP and lookupKey of      *)
(* internal/acmeserver, and the handlers that change who an account is or  *)
(* that act on its authority.  The server's mutex is taken three times on  *)
(* the way of a request (to look up the key, to check the account, and in  *)
(* the handler), the verifier's twice before that (for the nonce of the    *)
(* answer and for the one in the request); between those, other requests   *)
(* are carried out and time passes.  A handler that revokes for an account *)
(* other than the issuing one looks up a lease for each name of the        *)
(* certificate; it keeps the server's mutex, but DHCP does not wait for it *)
(* and may give a name to another host meanwhile.                          *)
(*                                                                         *)
(* A request is what its sender signed: a nonce and one of Message.  The   *)
(* network may deliver it any number of times.  Its signature is that of   *)
(* its signer's key; a request that is malformed, or says it is for        *)
(* another URL, changes nothing but that its nonce is used up.  A handler  *)
(* may find that its save fails, and then nothing has changed.             *)
(***************************************************************************)
EXTENDS Naturals, FiniteSets

CONSTANTS
    Account, Cert, Handler,
    Owner,              \* Owner[c]: the account certificate c was issued to
    CertKey,            \* CertKey[c]: the key certificate c is for
    Name, Names,        \* host names; Names[c]: those certificate c is for
    Host,               \* leased hosts: address and client of a lease
    Authorizations,     \* sets of <<name, host>> an account may have been validated for
    FirstKey,           \* FirstKey[a]: the key account a was created with
    Message,            \* what clients sign, see Kinds
    maxNonces,
    MaxIssued,          \* bound: nonces issued
    None

\* A message names its account (kid) and the key that signs it, or no account
\* and carries its key (jwk); of these requests only a revocation may.
Kinds == {"keyChange", "deactivate", "newOrder", "revoke"}

ASSUME RequestAssumption ==
    /\ maxNonces \in Nat \ {0} /\ MaxIssued \in Nat
    /\ \A c \in Cert : Names[c] \subseteq Name
    /\ Authorizations \subseteq SUBSET (Name \X Host)
    /\ None \notin Message
    /\ \A m \in Message :
           /\ m.kind \in Kinds /\ m.account \in Account \cup {None}
           /\ m.account = None => m.kind = "revoke"
           /\ m.cert \in Cert

VARIABLES
    queue,              \* Verifier.queue and nonces: the outstanding nonces; each is its
                        \* number, so that the oldest is the smallest
    issued,             \* nonces issued so far
    lapsed,             \* nonces up to this one have expired
    signed,             \* signed[n]: the message signed with nonce n, or None
    account,            \* Server.state.Accounts: status and key
    revoked,            \* certificates with RevokedAt set
    task,               \* task[h]: the request handler h is busy with, or None
    mu,                 \* Server.mu: held across steps only by a handler that looks
                        \* leases up, see authorizedForCertificate
    spent, applied      \* history: nonces consumed; number of times each took effect

nonces == <<queue, issued, lapsed, spent>>
state == <<account, revoked>>
vars == <<nonces, state, signed, task, mu, applied>>

Nonces == 1..MaxIssued

-----------------------------------------------------------------------------
(* acmeauth.Verifier.                                                      *)

\* Faulty variant: room is made for one too few.
RoomForNone(q) ==
    LET live == {n \in q : n > lapsed}
    IN  {n \in live : Cardinality({k \in live : k >= n}) < maxNonces - 1}

\* Nonces leave from the front: the expired ones, and the oldest of the others
\* until fewer than maxNonces are left.
Room(q) ==
    LET live == {n \in q : n > lapsed}
    IN  {n \in live : Cardinality({k \in live : k >= n}) < maxNonces}

\* Verifier.Nonce.
Nonce ==
    /\ issued < MaxIssued
    /\ issued' = issued + 1
    /\ queue' = Room(queue) \cup {issued'}

\* Faulty variant: the nonce stays.
consumeKeeping(n) == UNCHANGED queue

\* Verifier.consume takes the nonce out, whether it has expired or not.
consume(n) == queue' = queue \ {n}

-----------------------------------------------------------------------------
(* Server.ServeHTTP.                                                       *)

\* A request that is only answered, with a nonce: the directory, new-nonce,
\* the revocation list, or one that is refused before it is looked at.
NewNonce ==
    /\ Nonce
    /\ UNCHANGED <<lapsed, spent, state, signed, task, mu, applied>>

\* A signed request arrives, for the first time or again.
Arrive(h, n, m) ==
    /\ task[h] = None
    /\ n <= issued /\ signed[n] \in {None, m}
    /\ signed' = [signed EXCEPT ![n] = m]
    /\ Nonce
    /\ task' = [task EXCEPT ![h] = [at |-> "consume", nonce |-> n]]
    /\ UNCHANGED <<lapsed, spent, state, mu, applied>>

Request(h) == signed[task[h].nonce]
At(h, at) == task[h] # None /\ task[h].at = at
Goes(h, at) == task' = [task EXCEPT ![h].at = at]
Refused(h) == task' = [task EXCEPT ![h] = None]

\* Verify, first half.
Consume(h) ==
    LET n == task[h].nonce
    IN  /\ At(h, "consume")
        /\ consume(n)
        /\ spent' = IF n \in queue THEN spent \cup {n} ELSE spent
        /\ IF n \in queue /\ n > lapsed THEN Goes(h, "lookup") ELSE Refused(h)
        /\ UNCHANGED <<issued, lapsed, state, signed, mu, applied>>

\* Verify, second half: lookupKey and the signature.  A key that comes with the
\* request needs no account.
Lookup(h) ==
    LET m == Request(h)
    IN  /\ At(h, "lookup") /\ mu = None
        /\ IF m.account # None => account[m.account].key = m.signer
           THEN Goes(h, IF m.kind = "revoke" THEN "handle" ELSE "check")
           ELSE Refused(h)
        /\ UNCHANGED <<nonces, state, signed, mu, applied>>

\* The account must be active and its key still the one that signed.
Active(m) ==
    account[m.account].status = "valid" /\ account[m.account].key = m.signer

Check(h) ==
    /\ At(h, "check") /\ mu = None
    /\ IF Active(Request(h)) THEN Goes(h, "handle") ELSE Refused(h)
    /\ UNCHANGED <<nonces, state, signed, mu, applied>>

-----------------------------------------------------------------------------
(* The handlers, under Server.mu.                                          *)

\* Faulty variant: what was checked before is not checked again.
ActiveBefore(m) == account[m.account].status = "valid"

\* activeAccount.
activeAccount(m) == Active(m)

\* canRevoke, as far as the account and the key decide.
canRevoke(m) ==
    IF m.account = None THEN m.signer = CertKey[m.cert]
    ELSE activeAccount(m) /\ m.account = Owner[m.cert]

\* canRevoke goes on to authorizedForCertificate, and that to the names.
NeedsProofs(m) ==
    /\ m.kind = "revoke" /\ m.account # None
    /\ activeAccount(m) /\ m.account # Owner[m.cert]
    /\ Names[m.cert] # {}

\* The handler admits the request.
Admitted(m) ==
    CASE m.kind = "revoke" -> canRevoke(m) /\ m.cert \notin revoked
      [] m.kind \in {"deactivate", "newOrder"} -> activeAccount(m)
      [] m.kind = "keyChange" -> activeAccount(m) /\ \A a \in Account : account[a].key # m.new

\* What is saved and published.  What becomes of an order is in AcmeOrders.
Effect(m) ==
    CASE m.kind = "revoke" -> revoked' = revoked \cup {m.cert} /\ UNCHANGED account
      [] m.kind = "deactivate" ->
             account' = [account EXCEPT ![m.account].status = "deactivated"] /\ UNCHANGED revoked
      [] m.kind = "keyChange" ->
             account' = [account EXCEPT ![m.account].key = m.new] /\ UNCHANGED revoked
      [] m.kind = "newOrder" -> UNCHANGED <<account, revoked>>

\* A handler that needs no lease.
Handle(h) ==
    /\ At(h, "handle") /\ mu = None
    /\ ~NeedsProofs(Request(h))
    /\ \/ /\ Admitted(Request(h))
          /\ Effect(Request(h))
          /\ applied' = [applied EXCEPT ![task[h].nonce] = @ + 1]
       \/ UNCHANGED <<account, revoked, applied>>
    /\ Refused(h)
    /\ UNCHANGED <<nonces, mu, signed>>

-----------------------------------------------------------------------------
(* revokeCertificate for an account that has proved control of the names.  *)

\* The names of which the host that has them is one that was validated.
Proven(lease, proofs) == {n \in Name : lease[n] # None /\ <<n, lease[n]>> \in proofs}

\* The handler takes the lock.  The leases, and the hosts the account has been
\* validated for and whose authorizations have not expired, are whatever DHCP
\* and earlier orders have left; the latter stay what they are until the lock
\* is released, since the time is read once.  "good" collects the names that
\* have been Proven at some moment since.
authorizedForCertificate(h) ==
    /\ At(h, "handle") /\ mu = None
    /\ NeedsProofs(Request(h))
    /\ \E lease \in [Name -> Host \cup {None}], proofs \in Authorizations :
           mu' = [by |-> h, left |-> Names[Request(h).cert],
                  lease |-> lease, proofs |-> proofs, good |-> Proven(lease, proofs)]
    /\ UNCHANGED <<nonces, state, signed, task, applied>>

\* Faulty variant of LookupName: an authorization counts for any host.
LookupNameMoved ==
    /\ mu # None
    /\ \E n \in mu.left :
           IF mu.lease[n] # None /\ \E x \in Host : <<n, x>> \in mu.proofs
           THEN mu' = [mu EXCEPT !.left = @ \ {n}] /\ UNCHANGED task
           ELSE mu' = None /\ Refused(mu.by)
    /\ UNCHANGED <<nonces, state, signed, applied>>

\* One name after the other: its lease, and an authorization for that host.
LookupName ==
    /\ mu # None
    /\ \E n \in mu.left :
           IF n \in Proven(mu.lease, mu.proofs)
           THEN mu' = [mu EXCEPT !.left = @ \ {n}] /\ UNCHANGED task
           ELSE mu' = None /\ Refused(mu.by)
    /\ UNCHANGED <<nonces, state, signed, applied>>

\* All names looked up: the certificate is revoked, unless it is already or the
\* save fails.
Revoke ==
    LET m == Request(mu.by)
    IN  /\ mu # None /\ mu.left = {}
        /\ \/ /\ m.cert \notin revoked
              /\ Effect(m)
              /\ applied' = [applied EXCEPT ![task[mu.by].nonce] = @ + 1]
           \/ UNCHANGED <<account, revoked, applied>>
        /\ mu' = None /\ Refused(mu.by)
        /\ UNCHANGED <<nonces, signed>>

-----------------------------------------------------------------------------
(* The rest of the world.                                                  *)

\* nonceTTL passes for the nonces up to n.
Lapse(n) ==
    /\ lapsed < n /\ n <= issued
    /\ lapsed' = n
    /\ UNCHANGED <<queue, issued, spent, state, signed, task, mu, applied>>

\* DHCP: the lease with hostname n appears, ends or goes to another host, while
\* a handler is looking names up.
Reassign(n, x) ==
    /\ mu # None /\ mu.lease[n] # x
    /\ LET lease == [mu.lease EXCEPT ![n] = x]
       IN  mu' = [mu EXCEPT !.lease = lease, !.good = @ \cup Proven(lease, mu.proofs)]
    /\ UNCHANGED <<nonces, state, signed, task, applied>>

\* The process starts again, with the accounts and certificates of its file and
\* without nonces; history keeps those for spent.
Restart ==
    /\ queue' = {}
    /\ task' = [h \in Handler |-> None] /\ mu' = None
    /\ spent' = 1..issued
    /\ UNCHANGED <<issued, lapsed, state, signed, applied>>

Init ==
    /\ queue = {} /\ issued = 0 /\ lapsed = 0
    /\ signed = [n \in Nonces |-> None]
    /\ account = [a \in Account |-> [status |-> "valid", key |-> FirstKey[a]]]
    /\ revoked = {}
    /\ task = [h \in Handler |-> None] /\ mu = None
    /\ spent = {} /\ applied = [n \in Nonces |-> 0]

Next ==
    \/ NewNonce
    \/ \E h \in Handler :
           \/ \E n \in Nonces, m \in Message : Arrive(h, n, m)
           \/ Consume(h) \/ Lookup(h) \/ Check(h) \/ Handle(h)
           \/ authorizedForCertificate(h)
    \/ LookupName \/ Revoke
    \/ \E n \in Nonces : Lapse(n)
    \/ \E n \in Name, x \in Host \cup {None} : Reassign(n, x)
    \/ Restart

Spec == Init /\ [][Next]_vars

-----------------------------------------------------------------------------
(* Properties.                                                             *)

\* However often a request is delivered, and whenever, it takes effect at most
\* once: its nonce is consumed before anything else is looked at.
AtMostOnce == \A n \in Nonces : applied[n] <= 1

\* A nonce is good until it is used, expires, or maxNonces newer ones have been
\* issued (one of which may be for the answer to the request that brings it);
\* and no more than maxNonces are kept.
NoncesKept ==
    /\ Cardinality(queue) <= maxNonces
    /\ \A n \in 1..issued :
           n \notin spent /\ n > lapsed /\ issued - n < maxNonces => n \in queue

\* The handler of m holds the lock, and for every name of the certificate there
\* was a moment since it took it at which the account had a current
\* authorization for the host that had the name.
ProvedSince(m) ==
    mu # None /\ Request(mu.by) = m /\ Names[m.cert] \subseteq mu.good

\* The authority behind m, at this moment.
Entitled(m) ==
    \/ m.kind = "revoke" /\ m.account = None /\ m.signer = CertKey[m.cert]
    \/ \E a \in Account :
           /\ m.account = a
           /\ account[a] = [status |-> "valid", key |-> m.signer]
           /\ m.kind = "revoke" => a = Owner[m.cert] \/ ProvedSince(m)

\* A change is made only on a request, and by an account that is active and whose
\* key is the one that signed at the moment of the change, not when that was
\* checked before; or, to revoke a certificate, with its own key.  An account
\* that revokes a certificate of another one has had, for each of its names, a
\* current authorization for the host with that name, if not at this moment
\* then at one since the handler took the lock: a name may move between its
\* lookup and the save, but an authorization for a host that lost the name
\* before does not count.
CurrentAuthority ==
    [][/\ \A n \in Nonces : applied'[n] # applied[n] => Entitled(signed[n])
       /\ <<account, revoked>>' # <<account, revoked>> => applied' # applied]_vars

=============================================================================
