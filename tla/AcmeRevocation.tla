--------------------------- MODULE AcmeRevocation ---------------------------
(***************************************************************************)
(* internal/acmeserver/revocation.go: certificates, their revocation and   *)
(* the certificate revocation list (CRL) that is kept in the state file    *)
(* and served at /acme/crl.  Every handler is one step under Server.mu.    *)
(* Its commit may fail before the rename, and then nothing has changed; or *)
(* after it, and then the change is made but the client is told that it    *)
(* failed; and the process may die at any time.                            *)
(*                                                                         *)
(* Who may revoke is left out: the request is one that canRevoke admits.   *)
(***************************************************************************)
EXTENDS Naturals

CONSTANTS
    Certificate,    \* certificates to be issued
    MaxNumber       \* the largest CRL number, MaxInt64 in the code

ASSUME NumberAssumption == MaxNumber \in Nat

VARIABLES
    mem,        \* Server.state: the certificates, the CRL and its number
    disk,       \* the state file
    expired,    \* certificates whose NotAfter has passed
    stale,      \* CRLs up to this number have reached their NextUpdate
    confirmed,  \* history: certificates whose revocation was answered with 200
    published   \* history: the lists served under each number

revocationVars == <<mem, disk, expired, stale, confirmed, published>>

\* The serials in the CRL, and its number: 0 as long as there is no CRL.
State == [certs: [Certificate -> {"unused", "good", "revoked", "gone"}],
          crl: SUBSET Certificate,
          number: 0..MaxNumber]

\* prune: a certificate goes with its order, when it has expired.
prune(st) ==
    [st EXCEPT !.certs = [c \in Certificate |->
        IF c \in expired /\ @[c] # "unused" THEN "gone" ELSE @[c]]]

\* commit went past its rename.
commit(next) ==
    /\ mem' = prune(next)
    /\ disk' = mem'

Listed(st) == {c \in Certificate : st.certs[c] = "revoked" /\ c \notin expired}

\* Faulty variants of refreshCRL: the list keeps its number, or its entries.
RefreshSameNumber(st) == [st EXCEPT !.crl = Listed(st)]
RefreshOldEntries(st) == [st EXCEPT !.number = @ + 1]

\* refreshCRL: a new list under the next number.  CanRefresh is its check.
CanRefresh(st) == st.number < MaxNumber
refreshCRL(st) == [st EXCEPT !.crl = Listed(st), !.number = @ + 1]

-----------------------------------------------------------------------------

\* finalize: a certificate joins the state.
issue(c) ==
    /\ mem.certs[c] = "unused"
    /\ commit([mem EXCEPT !.certs[c] = "good"])
    /\ UNCHANGED <<expired, stale, confirmed, published>>

\* The new status and the list that shows it are saved together; only when
\* all of it succeeded does the client hear so.
revokeCertificate(c) ==
    LET next == [mem EXCEPT !.certs[c] = "revoked"]
    IN  /\ mem.certs[c] = "good"
        /\ CanRefresh(next)
        /\ commit(refreshCRL(next))
        /\ confirmed' \in {confirmed, confirmed \cup {c}}
        /\ UNCHANGED <<expired, stale, published>>

NeedsRefresh == mem.number = 0 \/ mem.number <= stale

\* The list is renewed first if there is none or it is about to run out; if
\* the commit reports an error nothing is served.
serveCRL ==
    /\ IF NeedsRefresh
       THEN CanRefresh(mem) /\ commit(refreshCRL(mem))
       ELSE UNCHANGED <<mem, disk>>
    /\ \/ published' = [published EXCEPT ![mem'.number] = @ \cup {mem'.crl}]
       \/ NeedsRefresh /\ UNCHANGED published
    /\ UNCHANGED <<expired, stale, confirmed>>

\* Any other handler that saves the state.
save ==
    /\ commit(mem)
    /\ UNCHANGED <<expired, stale, confirmed, published>>

ExpireCert(c) ==
    /\ mem.certs[c] \in {"good", "revoked"}
    /\ expired' = expired \cup {c}
    /\ UNCHANGED <<mem, disk, stale, confirmed, published>>

NextUpdatePasses ==
    /\ stale' = mem.number
    /\ UNCHANGED <<mem, disk, expired, confirmed, published>>

\* The process dies, restores the file and saves it.
RevocationRestart ==
    /\ commit(disk)
    /\ UNCHANGED <<expired, stale, confirmed, published>>

RevocationInit ==
    /\ mem = [certs |-> [c \in Certificate |-> "unused"], crl |-> {}, number |-> 0]
    /\ disk = mem
    /\ expired = {}
    /\ stale = 0
    /\ confirmed = {}
    /\ published = [i \in 0..MaxNumber |-> {}]

RevocationNext ==
    \/ \E c \in Certificate : issue(c)
    \/ \E c \in Certificate : revokeCertificate(c)
    \/ serveCRL
    \/ save
    \/ \E c \in Certificate : ExpireCert(c)
    \/ NextUpdatePasses
    \/ RevocationRestart

RevocationSpec == RevocationInit /\ [][RevocationNext]_revocationVars

-----------------------------------------------------------------------------
(* Properties.                                                             *)

\* A revocation that was confirmed is in the list that would be served next,
\* after any failure or restart, until the certificate expires.
ConfirmedIsListed == confirmed \ expired \subseteq mem.crl

\* No two lists go out under one number, and the numbers served never go
\* down: a client that keeps the list with the highest number has the newest.
\* The last number is not passed.
OneListPerNumber ==
    [][/\ \A i \in 0..MaxNumber :
              published'[i] # published[i] =>
                  \A j \in i..MaxNumber : published[j] = {}
       /\ \A i \in 0..MaxNumber : published[i] # {} => i <= mem'.number
       /\ mem'.number <= MaxNumber]_revocationVars

=============================================================================
