---------------------------- MODULE PkiManager ----------------------------
(***************************************************************************)
(* The private certificate authority (internal/pki): a root made once, a   *)
(* public copy of it, service certificates that are renewed on demand, and *)
(* the certificates and revocation lists signed for ACME.  Several         *)
(* processes may open the directory at once; any of them may crash.  The   *)
(* clock may be set to any time, back too.                                 *)
(*                                                                         *)
(* A certificate is its validity, its issuer and what it names: the        *)
(* configuration, or the hosts of a signed request.  A root's key is named *)
(* after the process that made it: what a failed attempt made is thrown    *)
(* away.                                                                   *)
(***************************************************************************)
EXTENDS Integers, Sequences, FiniteSetsExt

CONSTANTS
    Process,        \* processes that open the CA directory
    Config,         \* domain and server IP
    Service,        \* "gateway" and "ldap"
    RootLifetime, LeafLifetime, ListLifetime,
    RenewBefore, ClockSkew,
    Spelling,       \* names as requests and callers write them
    canonical,      \* canonical[n]: n in lower case without its dot, or None
                    \* when it is no name below the domain
    Authorized,     \* lists of names that callers have authorized
    MaxTime,        \* bound of the clock
    None, Unreadable

ASSUME LifetimeAssumption ==
    /\ {RootLifetime, LeafLifetime, ListLifetime, MaxTime} \subseteq Nat \ {0}
    /\ {RenewBefore, ClockSkew} \subseteq Nat
    /\ RenewBefore < LeafLifetime
    /\ "gateway" \in Service /\ {"csr", "crl"} \cap Service = {}
    /\ DOMAIN canonical = Spelling
    /\ Authorized \subseteq Seq(Spelling)

Root == [key: Process, notBefore: Int, notAfter: Int]
Period == [notBefore: Int, notAfter: Int]
Leaf == [names: Config, issuer: Process, valid: Period]

\* What is missing is neither a root nor a service certificate.
ASSUME NoneAssumption == None \notin Root /\ None \notin Leaf

VARIABLES
    now,        \* the clock
    disk,       \* root-ca-bundle.pem, root-ca.pem and the service bundles
    litter,     \* a temporary file of a crashed process
    pc, mem,    \* each process: how far open() is; m.cfg, m.root and the leaves
    answer      \* what the last step has handed out

files == <<disk, litter>>
vars == <<now, files, pc, mem, answer>>

NoLeaves == [s \in Service |-> None]
Idle == [cfg |-> None, root |-> None, leaf |-> NoLeaves]

Init ==
    /\ now \in 0 .. MaxTime
    /\ disk = [root |-> None, public |-> None, leaf |-> NoLeaves]
    /\ litter = FALSE
    /\ pc = [p \in Process |-> "down"]
    /\ mem = [p \in Process |-> Idle]
    /\ answer = None

Goto(p, label) == pc' = [pc EXCEPT ![p] = label]
\* open() returns an error, or the process dies.
Stop(p) == Goto(p, "down") /\ mem' = [mem EXCEPT ![p] = Idle]

-----------------------------------------------------------------------------
(* The root.                                                               *)

\* A bundle is there whole or not at all, but reading or parsing it may fail.
readBundle(file) == IF file = None THEN {None} ELSE {file, Unreadable}

\* open() up to readBundle of the root; a bundle that cannot be read ends it.
Open(p, cfg) ==
    /\ pc[p] = "down"
    /\ \E root \in readBundle(disk.root) \ {Unreadable} :
           /\ mem' = [mem EXCEPT ![p] = [Idle EXCEPT !.cfg = cfg, !.root = root]]
           /\ Goto(p, IF root = None THEN "inspect" ELSE "opened")
    /\ answer' = None
    /\ UNCHANGED <<now, files>>

\* ReadDir finds bundles, the public copy or temporary files.
DirectoryEmpty ==
    /\ disk = [root |-> None, public |-> None, leaf |-> NoLeaves]
    /\ ~litter
    /\ \A q \in Process : pc[q] # "link"

inspect(p) ==
    /\ pc[p] = "inspect"
    /\ \/ DirectoryEmpty /\ Goto(p, "create") /\ UNCHANGED mem
       \/ ~DirectoryEmpty /\ Stop(p)
    /\ answer' = None
    /\ UNCHANGED <<now, files>>

\* createRoot up to the temporary file, which may fail.
createRoot(p) ==
    /\ pc[p] = "create"
    /\ \/ /\ Goto(p, "link")
          /\ mem' = [mem EXCEPT ![p].root =
                        [key |-> p, notBefore |-> now - ClockSkew, notAfter |-> now + RootLifetime]]
       \/ Stop(p)
    /\ answer' = None
    /\ UNCHANGED <<now, files>>

\* Faulty variant of link: the temporary file is renamed over the root.
LinkOver(p) ==
    /\ pc[p] = "link"
    /\ disk' = [disk EXCEPT !.root = mem[p].root]
    /\ Goto(p, "opened") /\ UNCHANGED mem
    /\ answer' = None
    /\ UNCHANGED <<now, litter>>

\* writeFile with exclusive: the link fails when there is a root, and may fail
\* otherwise; the sync after it may fail.
link(p) ==
    /\ pc[p] = "link"
    /\ \/ /\ disk.root = None
          /\ disk' = [disk EXCEPT !.root = mem[p].root]
          /\ \/ Goto(p, "opened") /\ UNCHANGED mem
             \/ Stop(p)
       \/ Stop(p) /\ UNCHANGED disk
    /\ answer' = None
    /\ UNCHANGED <<now, litter>>

validateRoot(p) == mem[p].root.notBefore <= now /\ now < mem[p].root.notAfter

\* Faulty variant of export: a copy is written for a new root only.
ExportNew(p) ==
    /\ pc[p] = "opened"
    /\ disk' = IF mem[p].root.key = p THEN [disk EXCEPT !.public = p] ELSE disk
    /\ Goto(p, "exported") /\ UNCHANGED mem
    /\ answer' = None
    /\ UNCHANGED <<now, litter>>

\* writeFile of root-ca.pem; an error ends open(), before or after the rename.
export(p) ==
    /\ pc[p] = "opened"
    /\ LET exported == [disk EXCEPT !.public = mem[p].root.key]
       IN  \/ validateRoot(p) /\ disk' = exported /\ Goto(p, "exported") /\ UNCHANGED mem
           \/ validateRoot(p) /\ disk' = exported /\ Stop(p)
           \/ Stop(p) /\ UNCHANGED disk
    /\ answer' = None
    /\ UNCHANGED <<now, litter>>

-----------------------------------------------------------------------------
(* Certificates.                                                           *)

\* From clockSkew ago for a lifetime, within the root's validity.
Validity(p, lifetime) ==
    [notBefore |-> Max({now - ClockSkew, mem[p].root.notBefore}),
     notAfter |-> Min({now + lifetime, mem[p].root.notAfter})]

\* A certificate under a new key; its bundle is written by the caller.
issue(p, names, valid) == [names |-> names, issuer |-> mem[p].root.key, valid |-> valid]
issueLeaf(p) == issue(p, mem[p].cfg, Validity(p, LeafLifetime))

validateLeaf(p, leaf) == leaf # None => leaf.issuer = mem[p].root.key

\* Faulty variants of needsRenewal: a leaf cut to the root's validity is
\* renewed each time; only the end of a leaf counts.
NeedsRenewalUncut(p, leaf) ==
    leaf # None =>
    \/ leaf.names # mem[p].cfg
    \/ now < leaf.valid.notBefore
    \/ now + RenewBefore >= leaf.valid.notAfter
NeedsRenewalAtEnd(p, leaf) ==
    leaf # None =>
    \/ leaf.names # mem[p].cfg
    \/ now + RenewBefore >= leaf.valid.notAfter /\ leaf.valid.notAfter < mem[p].root.notAfter

needsRenewal(p, leaf) ==
    leaf # None =>
    \/ leaf.names # mem[p].cfg
    \/ now < leaf.valid.notBefore
    \/ now >= leaf.valid.notAfter
    \/ now + RenewBefore >= leaf.valid.notAfter /\ leaf.valid.notAfter < mem[p].root.notAfter

\* The leaf in memory, else what is read from disk.
Current(p, s) == IF mem[p].leaf[s] = None THEN readBundle(disk.leaf[s]) ELSE {mem[p].leaf[s]}

Serve(p, s, leaf) ==
    /\ mem' = [mem EXCEPT ![p].leaf[s] = leaf]
    /\ Goto(p, "up")
    /\ answer' = [by |-> p, for |-> s, cert |-> leaf]

\* An error ends open(); a handshake fails and what was loaded stays.
Refuse(p, s, leaf) ==
    /\ \/ pc[p] = "exported" /\ Stop(p)
       \/ pc[p] = "up" /\ mem' = [mem EXCEPT ![p].leaf[s] = leaf] /\ UNCHANGED pc
    /\ answer' = None

\* GetCertificate and GetLDAPCertificate, at the end of open() and in
\* handshakes; m.mu is held throughout.
serviceCertificate(p, s) ==
    /\ pc[p] = "up" \/ (pc[p] = "exported" /\ s = "gateway")
    /\ \E leaf \in Current(p, s) :
           LET held == mem[p].leaf[s]
               renewed == issueLeaf(p)
               saved == [disk EXCEPT !.leaf[s] = renewed]
               usable == /\ validateRoot(p)
                         /\ leaf # Unreadable
                         /\ held = None => validateLeaf(p, leaf)
           IN  \/ ~usable /\ Refuse(p, s, held) /\ UNCHANGED disk
               \/ usable /\ ~needsRenewal(p, leaf) /\ Serve(p, s, leaf) /\ UNCHANGED disk
               \/ usable /\ needsRenewal(p, leaf) /\ Serve(p, s, renewed) /\ disk' = saved
               \/ usable /\ needsRenewal(p, leaf) /\ Refuse(p, s, leaf) /\ disk' \in {disk, saved}
    /\ UNCHANGED <<now, litter>>

\* The names that are kept for the server itself.
Reserved == Service \cup {"ns"}
certificateName(n) == IF canonical[n] \in Reserved THEN None ELSE canonical[n]

\* A request has a key, alternative names and perhaps a common name.
CSR == [key: {"supported", "weak"}, san: {"dns", "other"},
        names: UNION {[1..n -> Spelling] : n \in 0..2}, commonName: Spelling \cup {None}]

validateCSRKey(csr) == csr.key = "supported"
validateCSRExtensions(csr) == csr.san = "dns"

\* The request names what is authorized, in any order, each name once.
csrNames(csr, authorized) ==
    LET allowed == [i \in DOMAIN authorized |-> certificateName(authorized[i])]
        asked == [i \in DOMAIN csr.names |-> certificateName(csr.names[i])]
    IN  /\ authorized # <<>> /\ Len(asked) = Len(allowed)
        /\ None \notin Range(allowed) /\ IsInjective(allowed)
        /\ Range(asked) = Range(allowed)
        /\ csr.commonName # None => certificateName(csr.commonName) \in Range(asked)

\* What requests can get certificates for.
Certifiable ==
    {{certificateName(n) : n \in Range(csr.names)} :
        csr \in {csr \in CSR : /\ validateCSRKey(csr) /\ validateCSRExtensions(csr)
                              /\ \E authorized \in Authorized : csrNames(csr, authorized)}}

\* The root signs; m.mu is held.
Sign(p, what, names, valid) ==
    /\ pc[p] = "up"
    /\ validateRoot(p)
    /\ answer' = [by |-> p, for |-> what,
                  cert |-> [names |-> names, issuer |-> mem[p].root.key, valid |-> valid]]
    /\ UNCHANGED <<now, files, pc, mem>>

SignCSR(p) ==
    \E names \in Certifiable : Sign(p, "csr", names, Validity(p, LeafLifetime))

\* A revocation list counts from now to its next update.
CreateCRL(p) == Sign(p, "crl", None, [Validity(p, ListLifetime) EXCEPT !.notBefore = now])

-----------------------------------------------------------------------------
(* The environment.                                                        *)

\* A crash leaves the temporary file of the root.
Crash(p) ==
    /\ pc[p] # "down"
    /\ Stop(p)
    /\ litter' = (litter \/ pc[p] = "link")
    /\ answer' = None
    /\ UNCHANGED <<now, disk>>

SetClock ==
    /\ now' \in 0 .. MaxTime \ {now}
    /\ answer' = None
    /\ UNCHANGED <<files, pc, mem>>

open(p) == inspect(p) \/ createRoot(p) \/ link(p) \/ export(p)

Next ==
    \/ SetClock
    \/ \E p \in Process :
           \/ \E cfg \in Config : Open(p, cfg)
           \/ open(p)
           \/ \E s \in Service : serviceCertificate(p, s)
           \/ SignCSR(p)
           \/ CreateCRL(p)
           \/ Crash(p)

Spec == Init /\ [][Next]_vars

-----------------------------------------------------------------------------
(* Properties.                                                             *)

\* createRoot links and never renames: whatever the processes do, a root that
\* is on disk stays.
RootForGood == [][disk.root # None => disk'.root = disk.root]_vars

\* What the next start reads fits together, whatever was interrupted: the
\* public copy and every service bundle belong to the root, and a process that
\* serves has the root that is on disk and has exported it.
DirectorySound ==
    /\ disk.public # None => disk.root # None /\ disk.public = disk.root.key
    /\ \A s \in Service : disk.leaf[s] # None =>
           disk.root # None /\ disk.leaf[s].issuer = disk.root.key
    /\ \A p \in Process : pc[p] = "up" =>
           disk.root # None /\ mem[p].root = disk.root /\ disk.public = disk.root.key

\* Everything serviceCertificate, SignCSR and CreateCRL hand out is valid at
\* that moment, is signed by the root on disk and does not outlive it; a service
\* certificate names what is configured, one for a request never a service.
CertificatesAreValid ==
    answer # None =>
        LET valid == answer.cert.valid IN
        /\ answer.cert.issuer = disk.root.key
        /\ valid.notBefore <= now /\ now < valid.notAfter
        /\ disk.root.notBefore <= valid.notBefore /\ valid.notAfter <= disk.root.notAfter
        /\ answer.for \in Service => answer.cert.names = mem[answer.by].cfg
        /\ answer.for = "csr" => answer.cert.names # {} /\ answer.cert.names \cap Reserved = {}

\* A leaf that has just been served is not renewed by the next handshake, in
\* the last days of the root too.
RenewsOnce ==
    answer # None /\ answer.for \in Service =>
        ~needsRenewal(answer.by, mem[answer.by].leaf[answer.for])

=============================================================================
