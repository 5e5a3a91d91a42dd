-------------------------- MODULE PkiManagerProofs --------------------------
(***************************************************************************)
(* Proofs about PkiManager, for any processes that share the directory,    *)
(* any lifetimes and any clock: the root stays, what is on disk fits       *)
(* together, and what is handed out is valid when it is.                   *)
(***************************************************************************)
EXTENDS PkiManager, TLAPS

Leaves == [Service -> Leaf \cup {None}]
DiskRec == [root: Root \cup {None}, public: Process \cup {None}, leaf: Leaves]
MemRec == [cfg: Config \cup {None}, root: Root \cup {None}, leaf: Leaves]
Label == {"down", "inspect", "create", "link", "opened", "exported", "up"}

Types ==
    /\ now \in Nat /\ disk \in DiskRec
    /\ pc \in [Process -> Label] /\ mem \in [Process -> MemRec]

\* A service certificate belongs to the root and lies within its validity.
Fits(leaf, root) ==
    /\ root # None /\ leaf.issuer = root.key
    /\ root.notBefore <= leaf.valid.notBefore /\ leaf.valid.notAfter <= root.notAfter

\* What is on disk fits together.
DiskGood(d) ==
    /\ d.public # None => d.root # None /\ d.public = d.root.key
    /\ \A s \in Service : d.leaf[s] # None => Fits(d.leaf[s], d.root)

\* What a process at a label of open() has in memory, next to the directory d.
ProcGood(label, m, d) ==
    /\ label # "down" => m.cfg \in Config
    /\ label = "link" => m.root \in Root
    /\ label \in {"opened", "exported", "up"} => d.root # None /\ m.root = d.root
    /\ label \in {"exported", "up"} => d.public = d.root.key
    /\ \A s \in Service : m.leaf[s] # None => Fits(m.leaf[s], d.root)

IInv == Types /\ DiskGood(disk) /\ \A p \in Process : ProcGood(pc[p], mem[p], disk)

-----------------------------------------------------------------------------
(* Validity.                                                               *)

\* The later and the earlier of two times.
LEMMA TwoTimes ==
    ASSUME NEW i \in Int, NEW j \in Int
    PROVE  /\ Max({i, j}) \in {i, j} /\ Max({i, j}) >= i /\ Max({i, j}) >= j
           /\ Min({i, j}) \in {i, j} /\ Min({i, j}) <= i /\ Min({i, j}) <= j
<1>1. \E x \in {i, j} : \A y \in {i, j} : x >= y
  OBVIOUS
<1>2. \E x \in {i, j} : \A y \in {i, j} : x =< y
  OBVIOUS
<1>3. Max({i, j}) \in {i, j} /\ \A y \in {i, j} : Max({i, j}) >= y
  BY <1>1 DEF Max
<1>4. Min({i, j}) \in {i, j} /\ \A y \in {i, j} : Min({i, j}) =< y
  BY <1>2 DEF Min
<1>. QED BY <1>3, <1>4

\* A period that contains the present and lies within the root's.
Covers(valid, root) ==
    /\ valid \in Period
    /\ valid.notBefore <= now /\ now < valid.notAfter
    /\ root.notBefore <= valid.notBefore /\ valid.notAfter <= root.notAfter

\* The validity of what a valid root signs.
LEMMA ValidityFacts ==
    ASSUME NEW p \in Process, mem[p].root \in Root, now \in Nat, validateRoot(p),
           NEW lifetime \in Nat \ {0}
    PROVE  /\ Covers(Validity(p, lifetime), mem[p].root)
           /\ \/ Validity(p, lifetime).notAfter = now + lifetime
              \/ Validity(p, lifetime).notAfter = mem[p].root.notAfter
<1> DEFINE root == mem[p].root
           i == now - ClockSkew
           j == now + lifetime
<1>1. /\ root.notBefore \in Int /\ root.notAfter \in Int /\ i \in Int /\ j \in Int
      /\ root.notBefore <= now /\ now < root.notAfter /\ i <= now /\ now < j
  <2>1. root.notBefore \in Int /\ root.notAfter \in Int
    BY DEF Root
  <2>2. root.notBefore <= now /\ now < root.notAfter
    BY <2>1 DEF validateRoot
  <2>3. ClockSkew \in Nat
    BY LifetimeAssumption
  <2>4. i \in Int /\ j \in Int /\ i <= now /\ now < j
    BY <2>3
  <2>. QED BY <2>1, <2>2, <2>4
<1>2. /\ Max({i, root.notBefore}) \in {i, root.notBefore} /\ Max({i, root.notBefore}) >= root.notBefore
      /\ Min({j, root.notAfter}) \in {j, root.notAfter} /\ Min({j, root.notAfter}) <= root.notAfter
  BY <1>1, TwoTimes, Zenon
<1>3. Validity(p, lifetime) = [notBefore |-> Max({i, root.notBefore}), notAfter |-> Min({j, root.notAfter})]
  BY DEF Validity
<1> HIDE DEF root, i, j
<1>. QED BY <1>1, <1>2, <1>3 DEF Covers, Period, root, j

-----------------------------------------------------------------------------
(* Steps in general.                                                       *)

\* A root on disk stays, and so does a copy of it.
Grows(d, e) ==
    /\ d.root # None => e.root = d.root
    /\ d.root # None /\ d.public = d.root.key => e.public = e.root.key

\* Other processes do not notice.
LEMMA GrowsKeeps ==
    ASSUME NEW label, NEW m, NEW d, NEW e, ProcGood(label, m, d), Grows(d, e)
    PROVE  ProcGood(label, m, e)
<1>1. \A s \in Service : m.leaf[s] # None => Fits(m.leaf[s], e.root)
  BY DEF ProcGood, Grows, Fits
<1>2. label \in {"opened", "exported", "up"} => e.root # None /\ m.root = e.root
  BY DEF ProcGood, Grows
<1>3. label \in {"exported", "up"} => e.public = e.root.key
  BY DEF ProcGood, Grows
<1>. QED BY <1>1, <1>2, <1>3 DEF ProcGood

\* Process p gets to a label, with m in memory and d on disk.
Reaches(label, m, d) ==
    /\ label \in Label /\ m \in MemRec /\ d \in DiskRec
    /\ DiskGood(d) /\ Grows(disk, d) /\ ProcGood(label, m, d)

\* A step of one process.
LEMMA StepKeeps ==
    ASSUME IInv, NEW p \in Process, NEW label, NEW m, Reaches(label, m, disk'),
           pc' = [pc EXCEPT ![p] = label], mem' = [mem EXCEPT ![p] = m], now' = now
    PROVE  IInv'
<1>1. Types /\ DiskGood(disk') /\ Grows(disk, disk') /\ ProcGood(label, m, disk')
  BY DEF IInv, Reaches
<1>2. Types'
  BY <1>1 DEF Types, Reaches
<1>3. ASSUME NEW q \in Process PROVE ProcGood(pc'[q], mem'[q], disk')
  <2>1. CASE q = p
    <3>1. pc'[q] = label /\ mem'[q] = m
      BY <1>1, <2>1 DEF Types
    <3>. QED BY <1>1, <3>1
  <2>2. CASE q # p
    <3>1. pc'[q] = pc[q] /\ mem'[q] = mem[q]
      BY <1>1, <2>2 DEF Types
    <3>2. ProcGood(pc[q], mem[q], disk)
      BY DEF IInv
    <3>. QED BY <1>1, <3>1, <3>2, GrowsKeeps
  <2>. QED BY <2>1, <2>2
<1>. QED BY <1>1, <1>2, <1>3 DEF IInv

\* What the invariant says of the directory and of process p.
LEMMA ProcFacts ==
    ASSUME IInv, NEW p \in Process
    PROVE  /\ now \in Nat /\ disk \in DiskRec /\ pc[p] \in Label /\ mem[p] \in MemRec
           /\ DiskGood(disk) /\ Grows(disk, disk) /\ ProcGood(pc[p], mem[p], disk)
BY DEF IInv, Types, Grows

\* A process that is down.
LEMMA IdleGood == Idle \in MemRec /\ \A d : ProcGood("down", Idle, d)
<1>1. Idle.leaf = NoLeaves /\ NoLeaves \in Leaves /\ \A s \in Service : NoLeaves[s] = None
  BY DEF Idle, NoLeaves, Leaves
<1>. QED BY <1>1 DEF Idle, MemRec, ProcGood

\* A process goes down, whatever it has left on disk.
LEMMA StopKeeps ==
    ASSUME IInv, NEW p \in Process, Stop(p), now' = now,
           disk' \in DiskRec, DiskGood(disk'), Grows(disk, disk')
    PROVE  IInv'
<1>1. Reaches("down", Idle, disk')
  BY IdleGood DEF Reaches, Label
<1>. QED BY <1>1, StepKeeps, Zenon DEF Stop, Goto

-----------------------------------------------------------------------------
(* open().                                                                 *)

\* A process starts, with the root it finds.
LEMMA OpenKeeps ==
    ASSUME IInv, NEW p \in Process, NEW cfg \in Config, Open(p, cfg) PROVE IInv'
<1> DEFINE m(root) == [Idle EXCEPT !.cfg = cfg, !.root = root]
<1>1. PICK root \in readBundle(disk.root) \ {Unreadable} :
          /\ mem' = [mem EXCEPT ![p] = m(root)]
          /\ Goto(p, IF root = None THEN "inspect" ELSE "opened")
  BY Zenon DEF Open
<1>2. /\ now \in Nat /\ disk \in DiskRec /\ DiskGood(disk) /\ Grows(disk, disk)
      /\ disk' = disk /\ now' = now
  BY ProcFacts DEF Open, files
<1>3. root = disk.root
  BY <1>1 DEF readBundle
<1>4. /\ m(root) \in MemRec /\ m(root).cfg = cfg /\ m(root).root = root
      /\ \A s \in Service : m(root).leaf[s] = None
  BY <1>2, <1>3, IdleGood, Zenon DEF Idle, NoLeaves, MemRec, DiskRec
<1> HIDE DEF m
<1>5. CASE root = None
  <2>1. Reaches("inspect", m(root), disk')
    BY <1>2, <1>4 DEF Reaches, ProcGood, Label
  <2>. QED BY <1>1, <1>2, <1>5, <2>1, StepKeeps, Zenon DEF Goto
<1>6. CASE root # None
  <2>1. Reaches("opened", m(root), disk')
    BY <1>2, <1>3, <1>4, <1>6 DEF Reaches, ProcGood, Label
  <2>. QED BY <1>1, <1>2, <1>6, <2>1, StepKeeps, Zenon DEF Goto
<1>. QED BY <1>5, <1>6

\* A process that found no root makes one or gives up.
LEMMA InspectKeeps == ASSUME IInv, NEW p \in Process, inspect(p) PROVE IInv'
<1>1. /\ now \in Nat /\ disk \in DiskRec /\ mem[p] \in MemRec /\ DiskGood(disk)
      /\ Grows(disk, disk) /\ ProcGood(pc[p], mem[p], disk) /\ disk' = disk /\ now' = now
      /\ pc[p] = "inspect"
  BY ProcFacts DEF inspect, files
<1>2. CASE Goto(p, "create") /\ UNCHANGED mem
  <2>1. Reaches("create", mem[p], disk')
    BY <1>1 DEF Reaches, ProcGood, Label
  <2>2. mem' = [mem EXCEPT ![p] = mem[p]]
    BY <1>2 DEF IInv, Types
  <2>. QED BY <1>1, <1>2, <2>1, <2>2, StepKeeps, Zenon DEF Goto
<1>3. CASE Stop(p)
  BY <1>1, <1>3, StopKeeps
<1>. QED BY <1>2, <1>3 DEF inspect

\* The new root is in a temporary file.
LEMMA CreateRootKeeps == ASSUME IInv, NEW p \in Process, createRoot(p) PROVE IInv'
<1> DEFINE root == [key |-> p, notBefore |-> now - ClockSkew, notAfter |-> now + RootLifetime]
           m == [mem[p] EXCEPT !.root = root]
<1>1. /\ now \in Nat /\ disk \in DiskRec /\ mem[p] \in MemRec /\ DiskGood(disk)
      /\ Grows(disk, disk) /\ ProcGood(pc[p], mem[p], disk) /\ disk' = disk /\ now' = now
      /\ pc[p] = "create"
  BY ProcFacts DEF createRoot, files
<1>2. CASE Goto(p, "link") /\ mem' = [mem EXCEPT ![p].root = root]
  <2>1. root \in Root
    BY <1>1, LifetimeAssumption DEF Root
  <2> HIDE DEF root
  <2>2. m \in MemRec /\ m.root = root /\ m.cfg = mem[p].cfg /\ m.leaf = mem[p].leaf
    BY <1>1, <2>1 DEF MemRec
  <2>3. mem' = [mem EXCEPT ![p] = m]
    BY <1>2
  <2> HIDE DEF m
  <2>4. Reaches("link", m, disk')
    BY <1>1, <2>1, <2>2 DEF Reaches, ProcGood, Label
  <2>. QED BY <1>1, <1>2, <2>3, <2>4, StepKeeps, Zenon DEF Goto
<1>3. CASE Stop(p)
  BY <1>1, <1>3, StopKeeps
<1>. QED BY <1>2, <1>3 DEF createRoot

\* The root is linked into place, if there is none.
LEMMA LinkKeeps == ASSUME IInv, NEW p \in Process, link(p) PROVE IInv'
<1> DEFINE d == [disk EXCEPT !.root = mem[p].root]
<1>1. /\ now \in Nat /\ disk \in DiskRec /\ mem[p] \in MemRec /\ DiskGood(disk)
      /\ Grows(disk, disk) /\ ProcGood(pc[p], mem[p], disk) /\ now' = now
      /\ pc[p] = "link"
  BY ProcFacts DEF link
<1>2. CASE disk.root = None /\ disk' = d
  <2>1. mem[p].root \in Root /\ mem[p].root # None
    BY <1>1, NoneAssumption DEF ProcGood
  <2>2. d \in DiskRec /\ d.root = mem[p].root /\ d.public = disk.public /\ d.leaf = disk.leaf
    BY <1>1, <2>1 DEF DiskRec
  <2> HIDE DEF d
  <2>3. d.public = None /\ \A s \in Service : d.leaf[s] = None
    BY <1>1, <1>2, <2>2 DEF DiskGood, Fits
  <2>4. DiskGood(d) /\ Grows(disk, d)
    BY <1>2, <2>3 DEF DiskGood, Grows
  <2>5. CASE Goto(p, "opened") /\ UNCHANGED mem
    <3>1. \A s \in Service : mem[p].leaf[s] = None
      BY <1>1, <1>2 DEF ProcGood, Fits
    <3>2. Reaches("opened", mem[p], disk')
      BY <1>1, <1>2, <2>1, <2>2, <2>4, <3>1 DEF Reaches, ProcGood, Label
    <3>3. mem' = [mem EXCEPT ![p] = mem[p]]
      BY <2>5 DEF IInv, Types
    <3>. QED BY <1>1, <2>5, <3>2, <3>3, StepKeeps, Zenon DEF Goto
  <2>6. CASE Stop(p)
    BY <1>1, <1>2, <2>2, <2>4, <2>6, StopKeeps
  <2>. QED BY <1>2, <2>1, <2>5, <2>6 DEF link, Stop
<1>3. CASE Stop(p) /\ UNCHANGED disk
  BY <1>1, <1>3, StopKeeps
<1>. QED BY <1>2, <1>3 DEF link

\* The root is copied to root-ca.pem.
LEMMA ExportKeeps == ASSUME IInv, NEW p \in Process, export(p) PROVE IInv'
<1> DEFINE d == [disk EXCEPT !.public = mem[p].root.key]
<1>1. /\ now \in Nat /\ disk \in DiskRec /\ mem[p] \in MemRec /\ DiskGood(disk)
      /\ Grows(disk, disk) /\ ProcGood(pc[p], mem[p], disk) /\ now' = now
      /\ pc[p] = "opened"
  BY ProcFacts DEF export
<1>2. mem[p].root = disk.root /\ disk.root # None /\ disk.root \in Root
  BY <1>1 DEF ProcGood, DiskRec
<1>3. /\ d \in DiskRec /\ d.root = disk.root /\ d.public = disk.root.key /\ d.leaf = disk.leaf
  BY <1>1, <1>2 DEF DiskRec, Root
<1> HIDE DEF d
<1>4. DiskGood(d) /\ Grows(disk, d)
  BY <1>1, <1>2, <1>3 DEF DiskGood, Grows
<1>5. CASE disk' = d /\ Goto(p, "exported") /\ UNCHANGED mem
  <2>1. Reaches("exported", mem[p], disk')
    BY <1>1, <1>2, <1>3, <1>4, <1>5 DEF Reaches, ProcGood, Label
  <2>2. mem' = [mem EXCEPT ![p] = mem[p]]
    BY <1>5 DEF IInv, Types
  <2>. QED BY <1>1, <1>5, <2>1, <2>2, StepKeeps, Zenon DEF Goto
<1>6. CASE disk' = d /\ Stop(p)
  BY <1>1, <1>3, <1>4, <1>6, StopKeeps
<1>7. CASE Stop(p) /\ UNCHANGED disk
  BY <1>1, <1>7, StopKeeps
<1>. QED BY <1>5, <1>6, <1>7 DEF export, d

-----------------------------------------------------------------------------
(* Certificates.                                                           *)

\* What was handed out is right.
Handed == CertificatesAreValid /\ RenewsOnce

\* What a process holds once it has another leaf for s.
WithLeaf(m, s, leaf) == [m EXCEPT !.leaf[s] = leaf]

\* A leaf in memory is replaced.
LEMMA SetLeafFacts ==
    ASSUME NEW m \in MemRec, NEW s \in Service, NEW leaf \in Leaf \cup {None}
    PROVE  /\ WithLeaf(m, s, leaf) \in MemRec
           /\ WithLeaf(m, s, leaf).cfg = m.cfg /\ WithLeaf(m, s, leaf).root = m.root
           /\ WithLeaf(m, s, leaf).leaf[s] = leaf
           /\ \A x \in Service \ {s} : WithLeaf(m, s, leaf).leaf[x] = m.leaf[x]
<1> DEFINE r == WithLeaf(m, s, leaf)
           f == [m.leaf EXCEPT ![s] = leaf]
<1>1. f \in Leaves /\ f[s] = leaf /\ \A x \in Service \ {s} : f[x] = m.leaf[x]
  BY DEF MemRec, Leaves
<1> HIDE DEF f
<1>2. r = [m EXCEPT !.leaf = f]
  BY DEF f, WithLeaf
<1> HIDE DEF r
<1>3. r \in MemRec /\ r.cfg = m.cfg /\ r.root = m.root /\ r.leaf = f
  BY <1>1, <1>2 DEF MemRec
<1>. QED BY <1>1, <1>3, Zenon DEF r

\* A leaf on disk is replaced by one that fits.
LEMMA SavedGood ==
    ASSUME NEW d \in DiskRec, DiskGood(d), NEW s \in Service, NEW leaf \in Leaf, Fits(leaf, d.root)
    PROVE  LET e == [d EXCEPT !.leaf[s] = leaf]
           IN  e \in DiskRec /\ DiskGood(e) /\ Grows(d, e) /\ e.root = d.root /\ e.public = d.public
<1> DEFINE f == [d.leaf EXCEPT ![s] = leaf]
           e == [d EXCEPT !.leaf = f]
<1>1. f \in Leaves /\ f[s] = leaf /\ \A x \in Service \ {s} : f[x] = d.leaf[x]
  BY DEF DiskRec, Leaves
<1> HIDE DEF f
<1>2. e \in DiskRec /\ e.root = d.root /\ e.public = d.public /\ e.leaf = f
  BY <1>1 DEF DiskRec
<1> HIDE DEF e
<1>3. ASSUME NEW x \in Service, e.leaf[x] # None PROVE Fits(e.leaf[x], e.root)
  <2>1. CASE x = s
    BY <1>1, <1>2, <2>1
  <2>2. CASE x # s
    BY <1>1, <1>2, <1>3, <2>2 DEF DiskGood
  <2>. QED BY <2>1, <2>2
<1>4. DiskGood(e) /\ Grows(d, e)
  BY <1>2, <1>3 DEF DiskGood, Grows
<1>. QED BY <1>2, <1>4 DEF e, f

\* A process that has opened the directory holds the root on disk.
LEMMA HolderFacts ==
    ASSUME IInv, NEW p \in Process, pc[p] \in {"exported", "up"}
    PROVE  /\ disk.root \in Root /\ disk.root # None /\ mem[p].root = disk.root
           /\ disk.public = disk.root.key /\ mem[p].cfg \in Config
<1>1. disk \in DiskRec /\ ProcGood(pc[p], mem[p], disk)
  BY ProcFacts
<1>. QED BY <1>1 DEF DiskRec, ProcGood

\* A new leaf fits the root, is valid, and is not renewed at once.
LEMMA NewLeafFacts ==
    ASSUME IInv, NEW p \in Process, pc[p] \in {"exported", "up"}, validateRoot(p)
    PROVE  /\ issueLeaf(p) \in Leaf /\ Fits(issueLeaf(p), disk.root)
           /\ ~needsRenewal(p, issueLeaf(p))
<1> DEFINE leaf == issueLeaf(p)
           v == Validity(p, LeafLifetime)
<1>1. /\ disk.root \in Root /\ disk.root # None /\ mem[p].root = disk.root /\ mem[p].cfg \in Config
      /\ now \in Nat
  BY HolderFacts, ProcFacts
<1>2. Covers(v, disk.root) /\ (v.notAfter = now + LeafLifetime \/ v.notAfter = disk.root.notAfter)
  BY <1>1, ValidityFacts, LifetimeAssumption
<1>3. leaf = [names |-> mem[p].cfg, issuer |-> disk.root.key, valid |-> v]
  BY <1>1 DEF issueLeaf, issue
<1> HIDE DEF v, leaf
<1>4. leaf \in Leaf /\ Fits(leaf, disk.root)
  BY <1>1, <1>2, <1>3 DEF Leaf, Fits, Covers, Root
<1>5. ~needsRenewal(p, leaf)
  <2>1. /\ leaf.names = mem[p].cfg /\ leaf.valid = v
        /\ v.notBefore \in Int /\ v.notAfter \in Int /\ v.notBefore <= now /\ now < v.notAfter
    BY <1>2, <1>3 DEF Covers, Period
  <2>2. /\ disk.root.notAfter \in Int /\ RenewBefore \in Nat /\ LeafLifetime \in Nat
        /\ now + RenewBefore < now + LeafLifetime
    BY <1>1, LifetimeAssumption DEF Root
  <2>3. /\ ~(now < v.notBefore) /\ ~(now >= v.notAfter)
        /\ ~(now + RenewBefore >= v.notAfter /\ v.notAfter < disk.root.notAfter)
    <3>1. now \in Nat /\ (v.notAfter = now + LeafLifetime \/ v.notAfter = disk.root.notAfter)
      BY <1>1, <1>2
    <3>. QED BY <2>1, <2>2, <3>1
  <2>. QED BY <1>1, <1>4, <2>1, <2>3, NoneAssumption DEF needsRenewal
<1>. QED BY <1>4, <1>5 DEF leaf

\* serviceCertificate holds a leaf that fits, or none.
LEMMA HoldKeeps ==
    ASSUME IInv, NEW p \in Process, pc[p] \in {"exported", "up"}, NEW s \in Service,
           NEW leaf \in Leaf \cup {None}, leaf # None => Fits(leaf, disk.root),
           mem' = [mem EXCEPT ![p] = WithLeaf(mem[p], s, leaf)], pc' = [pc EXCEPT ![p] = "up"],
           now' = now,
           disk' \in DiskRec, DiskGood(disk'), Grows(disk, disk')
    PROVE  /\ IInv' /\ disk'.root = disk.root
           /\ mem'[p].cfg = mem[p].cfg /\ mem'[p].root = disk.root /\ mem'[p].leaf[s] = leaf
<1> DEFINE m == WithLeaf(mem[p], s, leaf)
<1>1. /\ disk.root \in Root /\ disk.root # None /\ mem[p].root = disk.root
      /\ disk.public = disk.root.key /\ mem[p].cfg \in Config
  BY HolderFacts
<1>2. mem[p] \in MemRec /\ ProcGood(pc[p], mem[p], disk)
  BY ProcFacts
<1>3. /\ m \in MemRec /\ m.cfg = mem[p].cfg /\ m.root = mem[p].root /\ m.leaf[s] = leaf
      /\ \A x \in Service \ {s} : m.leaf[x] = mem[p].leaf[x]
  BY <1>2, SetLeafFacts
<1>4. mem' = [mem EXCEPT ![p] = m]
  OBVIOUS
<1> HIDE DEF m
<1>5. disk'.root = disk.root /\ disk'.public = disk'.root.key
  BY <1>1 DEF Grows
<1>6. ASSUME NEW x \in Service, m.leaf[x] # None PROVE Fits(m.leaf[x], disk'.root)
  <2>1. CASE x = s
    BY <1>3, <1>5, <1>6, <2>1
  <2>2. CASE x # s
    BY <1>2, <1>3, <1>5, <1>6, <2>2 DEF ProcGood
  <2>. QED BY <2>1, <2>2
<1>7. ProcGood("up", m, disk')
  BY <1>1, <1>3, <1>5, <1>6 DEF ProcGood
<1>8. Reaches("up", m, disk')
  BY <1>3, <1>7 DEF Reaches, Label
<1>9. IInv'
  BY <1>4, <1>8, StepKeeps, Zenon
<1>10. mem'[p] = m
  BY <1>4 DEF IInv, Types
<1>. QED BY <1>1, <1>3, <1>5, <1>9, <1>10, Zenon

\* What serviceCertificate serves fits, is valid and is not renewed at once.
LEMMA ServeKeeps ==
    ASSUME IInv, NEW p \in Process, pc[p] \in {"exported", "up"}, NEW s \in Service,
           NEW leaf \in Leaf, Fits(leaf, disk.root), ~needsRenewal(p, leaf),
           Serve(p, s, leaf), now' = now,
           disk' \in DiskRec, DiskGood(disk'), Grows(disk, disk')
    PROVE  IInv' /\ Handed'
<1>1. /\ IInv' /\ disk'.root = disk.root
      /\ mem'[p].cfg = mem[p].cfg /\ mem'[p].root = disk.root /\ mem'[p].leaf[s] = leaf
  <2>1. mem' = [mem EXCEPT ![p] = WithLeaf(mem[p], s, leaf)] /\ pc' = [pc EXCEPT ![p] = "up"]
    BY DEF Serve, Goto, WithLeaf
  <2>. QED BY <2>1, HoldKeeps, Zenon
<1>2. disk.root \in Root /\ mem[p].root = disk.root /\ now \in Nat
  BY HolderFacts, ProcFacts
<1>3. /\ leaf.names = mem[p].cfg /\ ~(now < leaf.valid.notBefore) /\ ~(now >= leaf.valid.notAfter)
      /\ ~(now + RenewBefore >= leaf.valid.notAfter /\ leaf.valid.notAfter < disk.root.notAfter)
  BY <1>2 DEF needsRenewal
<1>4. answer'.by = p /\ answer'.for = s /\ answer'.cert = leaf
  BY DEF Serve
<1>5. leaf.valid.notBefore \in Int /\ leaf.valid.notAfter \in Int
  BY DEF Leaf, Period
<1>6. CertificatesAreValid'
  <2>1. leaf.valid.notBefore <= now /\ now < leaf.valid.notAfter
    BY <1>2, <1>3, <1>5
  <2>2. s # "csr"
    BY LifetimeAssumption
  <2>. QED BY <1>1, <1>3, <1>4, <2>1, <2>2 DEF CertificatesAreValid, Fits
<1>7. RenewsOnce'
  BY <1>1, <1>3, <1>4, NoneAssumption DEF RenewsOnce, needsRenewal
<1>. QED BY <1>1, <1>6, <1>7 DEF Handed

\* A step that hands nothing out.
LEMMA NothingHanded == ASSUME answer' = None PROVE Handed'
BY DEF Handed, CertificatesAreValid, RenewsOnce

\* A handshake, or the end of open(), fails; a leaf that was loaded stays.
LEMMA RefuseKeeps ==
    ASSUME IInv, NEW p \in Process, NEW s \in Service,
           NEW leaf \in Leaf \cup {None}, leaf # None => Fits(leaf, disk.root),
           Refuse(p, s, leaf), now' = now,
           disk' \in DiskRec, DiskGood(disk'), Grows(disk, disk')
    PROVE  IInv' /\ Handed'
<1>1. Handed'
  BY NothingHanded DEF Refuse
<1>2. CASE Stop(p)
  BY <1>1, <1>2, StopKeeps
<1>3. CASE pc[p] = "up" /\ mem' = [mem EXCEPT ![p].leaf[s] = leaf] /\ UNCHANGED pc
  <2>1. pc' = [pc EXCEPT ![p] = "up"]
    BY <1>3 DEF IInv, Types
  <2>2. mem' = [mem EXCEPT ![p] = WithLeaf(mem[p], s, leaf)]
    BY <1>3 DEF WithLeaf
  <2>. QED BY <1>1, <1>3, <2>1, <2>2, HoldKeeps, Zenon
<1>. QED BY <1>2, <1>3 DEF Refuse

\* GetCertificate and GetLDAPCertificate.
LEMMA ServiceCertificateKeeps ==
    ASSUME IInv, NEW p \in Process, NEW s \in Service, serviceCertificate(p, s)
    PROVE  IInv' /\ Handed'
<1> DEFINE held == mem[p].leaf[s]
           renewed == issueLeaf(p)
           saved == [disk EXCEPT !.leaf[s] = renewed]
           usable(leaf) == /\ validateRoot(p)
                           /\ leaf # Unreadable
                           /\ held = None => validateLeaf(p, leaf)
<1>1. pc[p] \in {"exported", "up"} /\ now' = now
  BY DEF serviceCertificate
<1>2. PICK leaf \in Current(p, s) :
          \/ ~usable(leaf) /\ Refuse(p, s, held) /\ UNCHANGED disk
          \/ usable(leaf) /\ ~needsRenewal(p, leaf) /\ Serve(p, s, leaf) /\ UNCHANGED disk
          \/ usable(leaf) /\ needsRenewal(p, leaf) /\ Serve(p, s, renewed) /\ disk' = saved
          \/ usable(leaf) /\ needsRenewal(p, leaf) /\ Refuse(p, s, leaf) /\ disk' \in {disk, saved}
  BY DEF serviceCertificate
<1>3. /\ disk \in DiskRec /\ mem[p] \in MemRec /\ DiskGood(disk) /\ Grows(disk, disk)
      /\ ProcGood(pc[p], mem[p], disk)
  BY ProcFacts
<1>4. held \in Leaf \cup {None} /\ (held # None => Fits(held, disk.root))
  BY <1>3 DEF MemRec, Leaves, ProcGood
<1>5. usable(leaf) => leaf \in Leaf \cup {None} /\ (leaf # None => Fits(leaf, disk.root))
  <2>1. CASE held = None
    <3>1. disk.leaf[s] \in Leaf \cup {None} /\ (disk.leaf[s] # None => Fits(disk.leaf[s], disk.root))
      BY <1>3 DEF DiskRec, Leaves, DiskGood
    <3>2. leaf \in {disk.leaf[s], Unreadable, None}
      BY <1>2, <2>1 DEF Current, readBundle
    <3>. QED BY <3>1, <3>2
  <2>2. CASE held # None
    BY <1>2, <1>4, <2>2 DEF Current
  <2>. QED BY <2>1, <2>2
<1>6. validateRoot(p) => /\ renewed \in Leaf /\ Fits(renewed, disk.root) /\ ~needsRenewal(p, renewed)
                         /\ saved \in DiskRec /\ DiskGood(saved) /\ Grows(disk, saved)
  BY <1>1, <1>3, NewLeafFacts, SavedGood, Zenon
<1> HIDE DEF held, renewed, saved
<1>7. CASE ~usable(leaf) /\ Refuse(p, s, held) /\ UNCHANGED disk
  BY <1>1, <1>3, <1>4, <1>7, RefuseKeeps
<1>8. CASE usable(leaf) /\ ~needsRenewal(p, leaf) /\ Serve(p, s, leaf) /\ UNCHANGED disk
  <2>1. leaf # None
    BY <1>8 DEF needsRenewal
  <2>. QED BY <1>1, <1>3, <1>5, <1>8, <2>1, ServeKeeps
<1>9. CASE usable(leaf) /\ needsRenewal(p, leaf) /\ Serve(p, s, renewed) /\ disk' = saved
  BY <1>1, <1>6, <1>9, ServeKeeps
<1>10. CASE usable(leaf) /\ needsRenewal(p, leaf) /\ Refuse(p, s, leaf) /\ disk' \in {disk, saved}
  BY <1>1, <1>3, <1>5, <1>6, <1>10, RefuseKeeps
<1>. QED BY <1>2, <1>7, <1>8, <1>9, <1>10

\* What csrNames accepts names a host, and no service.
LEMMA CertifiableFacts ==
    ASSUME NEW names \in Certifiable PROVE names # {} /\ names \cap Reserved = {}
<1>1. PICK csr \in CSR, authorized \in Authorized :
          csrNames(csr, authorized) /\ names = {certificateName(n) : n \in Range(csr.names)}
  BY DEF Certifiable
<1> DEFINE allowed == [i \in DOMAIN authorized |-> certificateName(authorized[i])]
           asked == [i \in DOMAIN csr.names |-> certificateName(csr.names[i])]
<1>2. authorized # <<>> /\ None \notin Range(allowed) /\ Range(asked) = Range(allowed)
  BY <1>1, Zenon DEF csrNames
<1>3. authorized \in Seq(Spelling)
  BY LifetimeAssumption
<1>4. 1 \in DOMAIN authorized
  BY <1>2, <1>3
<1>5. certificateName(authorized[1]) \in Range(allowed)
  BY <1>4 DEF Range
<1>6. Range(asked) = names
  BY <1>1, Zenon DEF Range
<1>7. ASSUME NEW x \in names PROVE x \notin Reserved
  <2>1. PICK n : x = certificateName(n)
    BY <1>1, <1>7
  <2>2. x # None
    BY <1>2, <1>6
  <2>. QED BY <2>1, <2>2 DEF certificateName
<1>. QED BY <1>2, <1>5, <1>6, <1>7

\* The root signs something that is valid now.
LEMMA SignKeeps ==
    ASSUME IInv, NEW p \in Process, NEW what \in {"csr", "crl"}, NEW names, NEW valid,
           Sign(p, what, names, valid),
           validateRoot(p) /\ mem[p].root \in Root => Covers(valid, mem[p].root),
           what = "csr" => names # {} /\ names \cap Reserved = {}
    PROVE  IInv' /\ Handed'
<1>1. pc[p] = "up" /\ validateRoot(p) /\ UNCHANGED <<now, disk, pc, mem>>
  BY DEF Sign, files
<1>2. disk.root \in Root /\ mem[p].root = disk.root
  BY <1>1, HolderFacts
<1>3. IInv'
  BY <1>1 DEF IInv, Types
<1>4. /\ answer'.by = p /\ answer'.for = what
      /\ answer'.cert.names = names /\ answer'.cert.issuer = disk.root.key /\ answer'.cert.valid = valid
  BY <1>2 DEF Sign
<1>5. what \notin Service
  BY LifetimeAssumption
<1>6. Covers(valid, disk.root)
  BY <1>1, <1>2
<1>7. CertificatesAreValid'
  BY <1>1, <1>4, <1>5, <1>6 DEF CertificatesAreValid, Covers
<1>8. RenewsOnce'
  BY <1>4, <1>5 DEF RenewsOnce
<1>. QED BY <1>3, <1>7, <1>8 DEF Handed

\* SignCSR hands out a certificate.
LEMMA SignCSRKeeps == ASSUME IInv, NEW p \in Process, SignCSR(p) PROVE IInv' /\ Handed'
<1>1. PICK names \in Certifiable : Sign(p, "csr", names, Validity(p, LeafLifetime))
  BY DEF SignCSR
<1>2. now \in Nat
  BY ProcFacts
<1>3. validateRoot(p) /\ mem[p].root \in Root => Covers(Validity(p, LeafLifetime), mem[p].root)
  BY <1>2, ValidityFacts, LifetimeAssumption
<1>. QED BY <1>1, <1>3, CertifiableFacts, SignKeeps

\* CreateCRL hands out a revocation list.
LEMMA CreateCRLKeeps == ASSUME IInv, NEW p \in Process, CreateCRL(p) PROVE IInv' /\ Handed'
<1> DEFINE valid == [Validity(p, ListLifetime) EXCEPT !.notBefore = now]
<1>1. Sign(p, "crl", None, valid)
  BY DEF CreateCRL
<1>2. now \in Nat
  BY ProcFacts
<1>3. validateRoot(p) /\ mem[p].root \in Root => Covers(valid, mem[p].root)
  <2> SUFFICES ASSUME validateRoot(p), mem[p].root \in Root PROVE Covers(valid, mem[p].root)
    OBVIOUS
  <2>1. Covers(Validity(p, ListLifetime), mem[p].root)
    BY <1>2, ValidityFacts, LifetimeAssumption
  <2>2. valid \in Period /\ valid.notBefore = now /\ valid.notAfter = Validity(p, ListLifetime).notAfter
    BY <1>2, <2>1 DEF Covers, Period
  <2> HIDE DEF valid
  <2>. QED BY <1>2, <2>1, <2>2 DEF Covers, Root, validateRoot
<1> HIDE DEF valid
<1>. QED BY <1>1, <1>3, SignKeeps

-----------------------------------------------------------------------------
(* The theorems.                                                           *)

\* An empty directory.
LEMMA InitGood == ASSUME Init PROVE IInv /\ Handed
<1>1. NoLeaves \in Leaves /\ \A s \in Service : NoLeaves[s] = None
  BY DEF NoLeaves, Leaves
<1>2. /\ disk \in DiskRec /\ disk.root = None /\ disk.public = None
      /\ \A s \in Service : disk.leaf[s] = None
  BY <1>1 DEF Init, DiskRec
<1>3. now \in Nat
  BY LifetimeAssumption DEF Init
<1>4. Types
  BY <1>2, <1>3, IdleGood DEF Init, Types, Label
<1>5. DiskGood(disk)
  BY <1>2 DEF DiskGood
<1>6. \A p \in Process : ProcGood(pc[p], mem[p], disk)
  BY IdleGood DEF Init
<1>7. Handed
  BY DEF Init, Handed, CertificatesAreValid, RenewsOnce
<1>. QED BY <1>4, <1>5, <1>6, <1>7 DEF IInv

\* The clock is set and processes crash.
LEMMA EnvironmentKeeps ==
    ASSUME IInv, SetClock \/ \E p \in Process : Crash(p) PROVE IInv' /\ Handed'
<1>1. CASE SetClock
  <2>1. now' \in Nat
    BY <1>1, LifetimeAssumption DEF SetClock
  <2>. QED BY <1>1, <2>1, NothingHanded DEF SetClock, files, IInv, Types
<1>2. ASSUME NEW p \in Process, Crash(p) PROVE IInv' /\ Handed'
  <2>1. disk \in DiskRec /\ DiskGood(disk) /\ Grows(disk, disk)
    BY ProcFacts
  <2>. QED BY <1>2, <2>1, NothingHanded, StopKeeps DEF Crash
<1>. QED BY <1>1, <1>2

\* Every step keeps the invariant and hands out what is right.
LEMMA NextKeeps == ASSUME IInv, Next PROVE IInv' /\ Handed'
<1>1. ASSUME NEW p \in Process, NEW cfg \in Config, Open(p, cfg) PROVE IInv' /\ Handed'
  BY <1>1, OpenKeeps, NothingHanded, Zenon DEF Open
<1>2. ASSUME NEW p \in Process, open(p) PROVE IInv' /\ Handed'
  <2>1. CASE inspect(p)
    BY <2>1, InspectKeeps, NothingHanded DEF inspect
  <2>2. CASE createRoot(p)
    BY <2>2, CreateRootKeeps, NothingHanded DEF createRoot
  <2>3. CASE link(p)
    BY <2>3, LinkKeeps, NothingHanded DEF link
  <2>4. CASE export(p)
    BY <2>4, ExportKeeps, NothingHanded DEF export
  <2>. QED BY <1>2, <2>1, <2>2, <2>3, <2>4 DEF open
<1>. QED BY <1>1, <1>2, EnvironmentKeeps, ServiceCertificateKeeps, SignCSRKeeps, CreateCRLKeeps
     DEF Next

\* The invariant holds in every state, and what was handed out is right.
THEOREM PkiInvariance == Spec => [](IInv /\ Handed)
<1>1. Init => IInv /\ Handed
  BY InitGood
<1>2. IInv /\ Handed /\ [Next]_vars => IInv' /\ Handed'
  <2>1. CASE Next
    BY <2>1, NextKeeps
  <2>2. ASSUME IInv, Handed, UNCHANGED vars PROVE IInv' /\ Handed'
    BY <2>2, Zenon DEF vars, files, IInv, Types, Handed, CertificatesAreValid, RenewsOnce, needsRenewal
  <2>. QED BY <2>1, <2>2
<1>. QED BY <1>1, <1>2, PTL DEF Spec

\* What the next start reads fits together, whatever was interrupted.
THEOREM DirectoryStaysSound == Spec => []DirectorySound
<1>1. IInv => DirectorySound
  BY DEF IInv, DiskGood, ProcGood, Fits, DirectorySound
<1>. QED BY <1>1, PkiInvariance, PTL

\* What is handed out is valid, signed by the root on disk and within its time.
THEOREM HandsOutValidCertificates == Spec => []CertificatesAreValid
BY PkiInvariance, PTL DEF Handed

\* A leaf that has just been served is not renewed by the next handshake.
THEOREM LeavesAreRenewedOnce == Spec => []RenewsOnce
BY PkiInvariance, PTL DEF Handed

\* A root on disk stays.
THEOREM RootIsForGood == Spec => RootForGood
<1>1. IInv /\ [Next]_vars => [disk.root # None => disk'.root = disk.root]_vars
  <2> SUFFICES ASSUME IInv, Next PROVE disk.root # None => disk'.root = disk.root
    BY DEF vars
  <2>1. disk \in DiskRec
    BY DEF IInv, Types
  <2>2. ASSUME NEW p \in Process, open(p) PROVE disk.root # None => disk'.root = disk.root
    BY <2>1, <2>2 DEF open, inspect, createRoot, link, export, files, DiskRec
  <2>3. ASSUME NEW p \in Process, NEW s \in Service, serviceCertificate(p, s)
        PROVE  disk'.root = disk.root
    <3>1. ASSUME NEW leaf PROVE [disk EXCEPT !.leaf[s] = leaf].root = disk.root
      BY <2>1 DEF DiskRec
    <3>. QED BY <2>3, <3>1, Zenon DEF serviceCertificate
  <2>4. ASSUME NEW p \in Process,
               Crash(p) \/ SignCSR(p) \/ CreateCRL(p) \/ \E cfg \in Config : Open(p, cfg)
        PROVE  disk' = disk
    BY <2>4, Zenon DEF Crash, SignCSR, CreateCRL, Sign, Open, files
  <2>5. CASE SetClock
    BY <2>5 DEF SetClock, files
  <2>. QED BY <2>2, <2>3, <2>4, <2>5 DEF Next
<1>. QED BY <1>1, PkiInvariance, PTL DEF Spec, RootForGood

=============================================================================
