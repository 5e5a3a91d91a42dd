------------------------ MODULE NfsFilesystemProofs ------------------------
(***************************************************************************)
(* Proofs about the file handles of the NFS server, for any connections,   *)
(* paths and files and any size of the table of handles.                   *)
(***************************************************************************)
EXTENDS NfsFilesystem, TLAPS

-----------------------------------------------------------------------------
(* Paths.                                                                  *)

\* Sequences are equal when their elements are.
LEMMA SameElements ==
    ASSUME NEW S, NEW s \in Seq(S), NEW t \in Seq(S), Len(s) = Len(t),
           \A i \in 1..Len(s) : s[i] = t[i]
    PROVE  s = t
  OBVIOUS

\* Below, element by element.
LEMMA BelowElements ==
    ASSUME NEW S, NEW m \in Seq(S), NEW o \in Seq(S)
    PROVE  Below(m, o) <=> Len(o) <= Len(m) /\ \A i \in 1..Len(o) : m[i] = o[i]
<1>2. CASE Len(o) <= Len(m)
  <2> DEFINE p == SubSeq(m, 1, Len(o))
  <2>1. p \in Seq(S) /\ Len(p) = Len(o) /\ \A i \in 1..Len(o) : p[i] = m[i]
    BY <1>2
  <2> HIDE DEF p
  <2>2. o = p <=> \A i \in 1..Len(o) : m[i] = o[i]
    BY <2>1, SameElements
  <2>. QED BY <1>2, <2>2 DEF Below, p
<1>3. CASE ~(Len(o) <= Len(m))
  BY <1>3 DEF Below
<1>. QED BY <1>2, <1>3

\* x is n followed by what m has after o.
Joins(x, m, o, n) ==
    /\ Len(x) = Len(n) + Len(m) - Len(o)
    /\ \A i \in 1..Len(n) : x[i] = n[i]
    /\ \A i \in 1..(Len(m) - Len(o)) : x[Len(n) + i] = m[Len(o) + i]

\* Moved, element by element.
LEMMA MovedElements ==
    ASSUME NEW S, NEW m \in Seq(S), NEW o \in Seq(S), NEW n \in Seq(S), Len(o) <= Len(m)
    PROVE  Moved(m, o, n) \in Seq(S) /\ Joins(Moved(m, o, n), m, o, n)
<1> DEFINE r == SubSeq(m, Len(o) + 1, Len(m))
<1>1. r \in Seq(S) /\ Len(r) = Len(m) - Len(o) /\ \A i \in 1..(Len(m) - Len(o)) : r[i] = m[Len(o) + i]
  OBVIOUS
<1> HIDE DEF r
<1>2. Moved(m, o, n) = n \o r
  BY DEF Moved, r
<1>. QED BY <1>1, <1>2 DEF Joins

\* Prefixes of one path, and of each other.
LEMMA BelowOrder ==
    ASSUME NEW S, NEW m \in Seq(S), NEW k \in Seq(S), NEW o \in Seq(S), Below(m, k)
    PROVE  /\ Below(k, o) => Below(m, o)
           /\ Below(m, o) => Below(k, o) \/ Below(o, k)
           /\ Below(k, m) => k = m
<1>1. Below(k, o) => Below(m, o)
  BY BelowElements
<1>2. Below(m, o) => Below(k, o) \/ Below(o, k)
  BY BelowElements
<1>3. Below(k, m) => k = m
  BY BelowElements, SameElements
<1>. QED BY <1>1, <1>2, <1>3

\* What has moved is below the new name, and moves back to where it was.
LEMMA MovedFacts ==
    ASSUME NEW S, NEW m \in Seq(S), NEW o \in Seq(S), NEW n \in Seq(S), Below(m, o)
    PROVE  /\ Moved(m, o, n) \in Seq(S)
           /\ Below(Moved(m, o, n), n)
           /\ Moved(Moved(m, o, n), n, o) = m
<1> DEFINE x == Moved(m, o, n)
           y == Moved(x, n, o)
<1>1. Len(o) <= Len(m) /\ \A i \in 1..Len(o) : m[i] = o[i]
  BY BelowElements
<1>2. x \in Seq(S) /\ Joins(x, m, o, n)
  BY <1>1, MovedElements, Zenon
<1> HIDE DEF x
<1>3. Len(n) <= Len(x)
  BY <1>1, <1>2 DEF Joins
<1>4. Below(x, n)
  BY <1>2, <1>3, BelowElements DEF Joins
<1>5. y \in Seq(S) /\ Joins(y, x, n, o)
  BY <1>2, <1>3, MovedElements, Zenon
<1> HIDE DEF y
<1>6. Len(y) = Len(m)
  BY <1>2, <1>5 DEF Joins
<1>7. ASSUME NEW i \in 1..Len(y) PROVE y[i] = m[i]
  <2>1. CASE i <= Len(o)
    BY <1>1, <1>5, <2>1 DEF Joins
  <2>2. CASE ~(i <= Len(o))
    <3>1. PICK j \in 1..(Len(m) - Len(o)) : i = Len(o) + j
      <4>1. i - Len(o) \in 1..(Len(m) - Len(o)) /\ i = Len(o) + (i - Len(o))
        BY <1>6, <2>2
      <4>. QED BY <4>1, Zenon
    <3>2. Len(x) - Len(n) = Len(m) - Len(o)
      BY <1>1, <1>2 DEF Joins
    <3>. QED BY <1>2, <1>5, <3>1, <3>2, Zenon DEF Joins
  <2>. QED BY <2>1, <2>2
<1>8. y = m
  BY <1>5, <1>6, <1>7, SameElements
<1>. QED BY <1>2, <1>4, <1>8 DEF x, y

\* Moving keeps what is below what.
LEMMA MovedBelow ==
    ASSUME NEW S, NEW m \in Seq(S), NEW k \in Seq(S), NEW o \in Seq(S), NEW n \in Seq(S),
           Below(m, k), Below(k, o)
    PROVE  Below(Moved(m, o, n), Moved(k, o, n))
<1> DEFINE x == Moved(m, o, n)
           z == Moved(k, o, n)
<1>1. /\ Len(k) <= Len(m) /\ \A i \in 1..Len(k) : m[i] = k[i]
      /\ Len(o) <= Len(k)
  BY BelowElements
<1>2. x \in Seq(S) /\ Joins(x, m, o, n)
  <2>1. Len(o) <= Len(m)
    BY <1>1
  <2>. QED BY <2>1, MovedElements, Zenon
<1>3. z \in Seq(S) /\ Joins(z, k, o, n)
  BY <1>1, MovedElements, Zenon
<1> HIDE DEF x, z
<1>4. Len(z) <= Len(x)
  BY <1>1, <1>2, <1>3 DEF Joins
<1>5. ASSUME NEW i \in 1..Len(z) PROVE x[i] = z[i]
  <2>1. CASE i <= Len(n)
    BY <1>2, <1>3, <2>1 DEF Joins
  <2>2. CASE ~(i <= Len(n))
    <3>1. PICK j \in 1..(Len(k) - Len(o)) : i = Len(n) + j
      <4>1. i - Len(n) \in 1..(Len(k) - Len(o)) /\ i = Len(n) + (i - Len(n))
        BY <1>1, <1>3, <2>2 DEF Joins
      <4>. QED BY <4>1, Zenon
    <3>2. j \in 1..(Len(m) - Len(o)) /\ Len(o) + j \in 1..Len(k)
      BY <1>1, <3>1
    <3>3. x[i] = m[Len(o) + j] /\ z[i] = k[Len(o) + j]
      BY <1>2, <1>3, <3>1, <3>2 DEF Joins
    <3>. QED BY <1>1, <3>2, <3>3
  <2>. QED BY <2>1, <2>2
<1>6. Below(x, z)
  BY <1>2, <1>3, <1>4, <1>5, BelowElements
<1>. QED BY <1>6 DEF x, z

\* Paths are closed upwards.
LEMMA PathFacts ==
    ASSUME NEW m \in Path
    PROVE  /\ m \in Seq(Name) /\ Len(m) \in Nat \ {0}
           /\ \A k \in Seq(Name) : Below(m, k) /\ k # <<>> => k \in Path
<1>1. m \in Seq(Name) /\ m # <<>>
  BY PathAssumption
<1>2. Len(m) \in Nat \ {0}
  BY <1>1
<1>3. ASSUME NEW k \in Seq(Name), Below(m, k), k # <<>> PROVE k \in Path
  <2>1. Len(k) \in 1..Len(m)
    BY <1>1, <1>3, BelowElements
  <2>2. k = SubSeq(m, 1, Len(k))
    BY <1>1, <1>3 DEF Below
  <2>. QED BY <2>1, <2>2, PathAssumption, Zenon
<1>. QED BY <1>1, <1>2, <1>3

\* A directory above a name is above the directory that the name is in.
LEMMA ParentFacts ==
    ASSUME NEW n \in Path, NEW k \in Path, Below(n, k), k # n
    PROVE  Len(n) > 1 /\ Parent(n) \in Path /\ Below(Parent(n), k)
<1>1. n \in Seq(Name) /\ Len(n) \in Nat \ {0} /\ k \in Seq(Name) /\ Len(k) \in Nat \ {0}
  BY PathFacts
<1>2. Len(k) <= Len(n) /\ \A i \in 1..Len(k) : n[i] = k[i]
  BY <1>1, BelowElements
<1>3. Len(k) # Len(n)
  BY <1>1, <1>2, SameElements
<1>4. Len(n) > 1 /\ Len(n) - 1 \in 1..Len(n) /\ Len(k) <= Len(n) - 1
  BY <1>1, <1>2, <1>3
<1> DEFINE f == SubSeq(n, 1, Len(n) - 1)
<1>5. f \in Path
  BY <1>4, PathAssumption
<1>6. f \in Seq(Name) /\ Len(f) = Len(n) - 1 /\ \A i \in 1..(Len(n) - 1) : f[i] = n[i]
  BY <1>1, <1>4
<1> HIDE DEF f
<1>7. Below(f, k)
  <2>1. \A i \in 1..Len(k) : f[i] = k[i]
    BY <1>1, <1>2, <1>4, <1>6
  <2>. QED BY <1>1, <1>4, <1>6, <2>1, BelowElements
<1>. QED BY <1>4, <1>5, <1>7 DEF Parent, f

-----------------------------------------------------------------------------
(* The invariant.                                                          *)

Info == [name: Path, file: File]

\* What is below something that does not exist does not exist.
TreeOk(t) ==
    /\ t \in [Path -> Node \cup {None}]
    /\ \A m, k \in Path : Below(m, k) /\ t[m] # None => t[k] # None

\* The table of paths leads to handles that have that path.
TablesOk(hs, ps) ==
    /\ hs \in Seq(Info)
    /\ ps \in [Path -> 0..Len(hs)]
    /\ \A n \in Path : ps[n] # 0 => hs[ps[n]].name = n

\* What a request holds while it does not hold f.mu.
CallOk(k, hs) ==
    \/ k = None
    \/ k \in [step: {"wrap"}, infos: SUBSET Info]
    \/ k \in [step: {"forget"}, name: Path]
    \/ /\ k \in [step: {"compare"}, handle: 1..Len(hs), name: Path, file: File]
       /\ hs[k.handle].file = k.file

\* What was given out or resolved has the inode number that the handle is for.
AnswerOk(a, hs) ==
    a # None => /\ a.handle \in 1..Len(hs) /\ a.file \in File
                /\ SameFile(hs[a.handle].file, a.file)

CallsOk(cs, hs) == DOMAIN cs = Conn /\ cs = [c \in Conn |-> cs[c]] /\ \A c \in Conn : CallOk(cs[c], hs)

IInv == TreeOk(tree) /\ TablesOk(handles, paths) /\ CallsOk(call, handles) /\ AnswerOk(answer, handles)

\* Handles are added, and none is ever given another file.
KeepsFiles(hs, next) ==
    Len(hs) <= Len(next) /\ \A h \in 1..Len(hs) : next[h].file = hs[h].file

-----------------------------------------------------------------------------
(* The tree.                                                               *)

\* What can still be created is a file.
LEMMA FreshFacts == Fresh \subseteq File
  BY DEF Fresh

\* A file or directory that is made is in a directory, so the tree stays one.
LEMMA MakeNodeKeeps ==
    ASSUME TreeOk(tree), NEW n \in Path, NEW dir \in BOOLEAN, MakeNode(n, dir)
    PROVE  TreeOk(tree')
<1>1. PICK f \in File : tree' = [tree EXCEPT ![n] = [file |-> f, dir |-> dir]]
  BY FreshFacts, Zenon DEF MakeNode
<1>2. tree' \in [Path -> Node \cup {None}]
  BY <1>1 DEF TreeOk, Node
<1>3. ASSUME NEW m \in Path, NEW k \in Path, Below(m, k), tree'[m] # None
      PROVE  tree'[k] # None
  <2>1. CASE k = n
    BY <1>1, <2>1, PathAssumption DEF TreeOk, Node
  <2>2. CASE k # n /\ m # n
    BY <1>1, <1>3, <2>2 DEF TreeOk
  <2>3. CASE k # n /\ m = n
    <3>1. Len(n) > 1 /\ Parent(n) \in Path /\ Below(Parent(n), k)
      BY <1>3, <2>3, ParentFacts
    <3>2. tree[Parent(n)] # None
      BY <3>1 DEF MakeNode, InDirectory, IsDir
    <3>. QED BY <1>1, <2>3, <3>1, <3>2 DEF TreeOk
  <2>. QED BY <2>1, <2>2, <2>3
<1>. QED BY <1>2, <1>3 DEF TreeOk

\* What is removed is empty, so nothing is left without its directory.
LEMMA RemoveNodeKeeps ==
    ASSUME TreeOk(tree), NEW n \in Path, RemoveNode(n)
    PROVE  TreeOk(tree')
<1>1. tree' = [tree EXCEPT ![n] = None] /\ Empty(n)
  BY DEF RemoveNode
<1>2. tree' \in [Path -> Node \cup {None}]
  BY <1>1 DEF TreeOk
<1>3. ASSUME NEW m \in Path, NEW k \in Path, Below(m, k), tree'[m] # None
      PROVE  tree'[k] # None
  <2>1. m # n /\ tree[m] # None
    BY <1>1, <1>3 DEF TreeOk
  <2>2. k # n
    BY <1>1, <1>3, <2>1 DEF Empty
  <2>. QED BY <1>1, <1>3, <2>1, <2>2 DEF TreeOk
<1>. QED BY <1>2, <1>3 DEF TreeOk

\* The directories that MkdirAll makes on its way are above one another.
LEMMA MkdirAllKeeps ==
    ASSUME TreeOk(tree), NEW c \in Conn, NEW n \in Path, MkdirAll(c, n)
    PROVE  TreeOk(tree')
<1> DEFINE above == {m \in Path : Below(n, m)}
           missing == {m \in above : tree[m] = None}
<1>1. PICK new \in Injection(missing, Fresh) :
          tree' = [m \in Path |-> IF m \in missing THEN [file |-> new[m], dir |-> TRUE] ELSE tree[m]]
  BY Zenon DEF MkdirAll
<1>2. new \in [missing -> File]
  BY <1>1, FreshFacts DEF Injection
<1>3. \A m \in missing : m \in Path /\ tree'[m] \in Node
  BY <1>1, <1>2 DEF Node
<1>4. \A m \in Path \ missing : tree'[m] = tree[m]
  BY <1>1
<1>5. tree' \in [Path -> Node \cup {None}]
  BY <1>1, <1>2, <1>3, <1>4 DEF TreeOk
<1>6. ASSUME NEW m \in Path, NEW k \in Path, Below(m, k), tree'[m] # None
      PROVE  tree'[k] # None
  <2>1. CASE k \in missing
    BY <1>3, <2>1, PathAssumption
  <2>2. CASE k \notin missing /\ m \in missing
    <3>1. Below(n, k)
      <4>1. n \in Seq(Name) /\ m \in Seq(Name) /\ k \in Seq(Name)
        BY PathFacts
      <4>. QED BY <1>6, <2>2, <4>1, BelowOrder
    <3>. QED BY <1>4, <2>2, <3>1
  <2>3. CASE k \notin missing /\ m \notin missing
    BY <1>4, <1>6, <2>3 DEF TreeOk
  <2>. QED BY <2>1, <2>2, <2>3
<1>. QED BY <1>5, <1>6 DEF TreeOk

\* The tree after a rename.
LEMMA RenamedTree ==
    ASSUME TreeOk(tree), NEW o \in Path, NEW n \in Path, RenameNode(o, n), NEW m \in Path
    PROVE  /\ Below(m, n) => tree'[m] = IF Moved(m, n, o) \in Path THEN tree[Moved(m, n, o)] ELSE None
           /\ ~Below(m, n) /\ Below(m, o) => tree'[m] = None
           /\ ~Below(m, n) /\ ~Below(m, o) => tree'[m] = tree[m]
  BY DEF RenameNode

\* A rename takes a subtree along, and the tree stays one.
LEMMA RenameNodeKeeps ==
    ASSUME TreeOk(tree), NEW o \in Path, NEW n \in Path, RenameNode(o, n)
    PROVE  TreeOk(tree')
<1>1. tree' \in [Path -> Node \cup {None}]
  <2>1. \A m \in Path : tree'[m] \in Node \cup {None}
    BY RenamedTree DEF TreeOk
  <2>2. DOMAIN tree' = Path /\ tree' = [m \in Path |-> tree'[m]]
    BY DEF RenameNode
  <2>. QED BY <2>1, <2>2
<1>2. o \in Seq(Name) /\ n \in Seq(Name)
  BY PathFacts
<1>3. ASSUME NEW m \in Path, NEW k \in Path, Below(m, k), tree'[m] # None
      PROVE  tree'[k] # None
  <2>1. m \in Seq(Name) /\ k \in Seq(Name) /\ k # <<>>
    BY PathFacts
  <2>2. CASE ~Below(m, n)
    <3>1. ~Below(m, o) /\ tree'[m] = tree[m]
      BY <1>3, <2>2, RenamedTree
    <3>2. ~Below(k, n) /\ ~Below(k, o)
      BY <1>2, <1>3, <2>1, <2>2, <3>1, BelowOrder
    <3>3. tree'[k] = tree[k]
      BY <3>2, RenamedTree
    <3>. QED BY <1>3, <3>1, <3>3 DEF TreeOk
  <2>3. CASE Below(m, n) /\ Below(k, n)
    <3>1. Moved(m, n, o) \in Path /\ tree[Moved(m, n, o)] # None
      BY <1>3, <2>3, RenamedTree
    <3>2. Below(Moved(m, n, o), Moved(k, n, o))
      BY <1>2, <1>3, <2>1, <2>3, MovedBelow
    <3>3. Moved(k, n, o) \in Seq(Name) /\ Below(Moved(k, n, o), o)
      BY <1>2, <2>1, <2>3, MovedFacts
    <3>4. Moved(k, n, o) # <<>>
      <4>1. Len(o) <= Len(Moved(k, n, o)) /\ Len(o) \in Nat \ {0}
        BY <1>2, <3>3, BelowElements, PathFacts
      <4>. QED BY <3>3, <4>1
    <3>5. Moved(k, n, o) \in Path
      BY <3>1, <3>2, <3>3, <3>4, PathFacts
    <3>6. tree[Moved(k, n, o)] # None
      BY <3>1, <3>2, <3>5 DEF TreeOk
    <3>. QED BY <2>3, <3>5, <3>6, RenamedTree
  <2>4. CASE Below(m, n) /\ ~Below(k, n)
    <3>1. Below(n, k)
      BY <1>2, <1>3, <2>1, <2>4, BelowOrder
    <3>2. k # n
      BY <1>2, <2>4, <3>1, BelowElements
    <3>3. ~Below(k, o)
      <4>1. SUFFICES ASSUME Below(k, o) PROVE FALSE
        OBVIOUS
      <4>2. Below(n, o)
        BY <1>2, <2>1, <3>1, <4>1, BelowOrder
      <4>. QED BY <2>4, <4>1, <4>2 DEF RenameNode
    <3>4. Len(n) > 1 /\ Parent(n) \in Path /\ Below(Parent(n), k)
      BY <3>1, <3>2, ParentFacts
    <3>5. tree[Parent(n)] # None
      BY <3>4 DEF RenameNode, InDirectory, IsDir
    <3>6. tree[k] # None
      BY <3>4, <3>5 DEF TreeOk
    <3>. QED BY <2>4, <3>3, <3>6, RenamedTree
  <2>. QED BY <2>2, <2>3, <2>4
<1>. QED BY <1>1, <1>3 DEF TreeOk

-----------------------------------------------------------------------------
(* The tables.                                                             *)

\* A handle that is added for a path.
LEMMA AddedHandle ==
    ASSUME TablesOk(handles, paths), NEW info \in Info,
           handles' = Append(handles, info), paths' = [paths EXCEPT ![info.name] = Len(handles) + 1]
    PROVE  TablesOk(handles', paths') /\ KeepsFiles(handles, handles')
<1>1. handles \in Seq(Info) /\ paths \in [Path -> 0..Len(handles)] /\ info.name \in Path
  BY DEF TablesOk, Info
<1>2. /\ handles' \in Seq(Info) /\ Len(handles') = Len(handles) + 1
      /\ \A h \in 1..Len(handles) : handles'[h] = handles[h]
      /\ handles'[Len(handles) + 1] = info
  BY <1>1
<1>3. paths' \in [Path -> 0..Len(handles')]
  BY <1>1, <1>2
<1>4. ASSUME NEW n \in Path, paths'[n] # 0 PROVE handles'[paths'[n]].name = n
  <2>1. CASE n = info.name
    BY <1>1, <1>2, <2>1
  <2>2. CASE n # info.name
    <3>1. paths'[n] = paths[n] /\ paths[n] \in 1..Len(handles)
      BY <1>1, <1>4, <2>2
    <3>. QED BY <1>2, <3>1 DEF TablesOk
  <2>. QED BY <2>1, <2>2, Zenon
<1>. QED BY <1>2, <1>3, <1>4 DEF TablesOk, KeepsFiles

\* A path that is forgotten.
LEMMA ForgottenPath ==
    ASSUME TablesOk(handles, paths), NEW n \in Path, handles' = handles, paths' = [paths EXCEPT ![n] = 0]
    PROVE  TablesOk(handles', paths')
<1>1. handles \in Seq(Info) /\ paths \in [Path -> 0..Len(handles)] /\ Len(handles) \in Nat
  BY DEF TablesOk
<1>2. paths' \in [Path -> 0..Len(handles)]
  BY <1>1
<1>. QED BY <1>1, <1>2 DEF TablesOk

\* The tables as Rename leaves them: each path that is kept moves with what is
\* below the old name, or stays; and so does the name of its handle.
Follow(o, n) ==
    /\ handles' = [h \in DOMAIN handles |-> handles'[h]] /\ paths' = [m \in Path |-> paths'[m]]
    /\ \A m \in Path \ {n} : paths[m] # 0 =>
           /\ Below(m, o) => Moved(m, o, n) \in Path
           /\ handles'[paths[m]] = [name |-> IF Below(m, o) THEN Moved(m, o, n) ELSE m,
                                    file |-> handles[paths[m]].file]
    /\ \A h \in 1..Len(handles) : handles'[h].file = handles[h].file
    /\ \A h \in 1..Len(handles) : (\A m \in Path \ {n} : paths[m] # h) => handles'[h] = handles[h]
    /\ \A m \in Path : paths'[m] # 0 =>
           \E k \in Path \ {n} : paths'[m] = paths[k] /\ m = IF Below(k, o) THEN Moved(k, o, n) ELSE k
    /\ \A k \in Path \ {n} : paths[k] # 0 /\ Below(k, o) =>
           \E x \in Path : Below(x, o) /\ Moved(x, o, n) = Moved(k, o, n) /\ paths'[Moved(k, o, n)] = paths[x]
    /\ \A k \in Path \ {n} : paths[k] # 0 /\ ~Below(k, o) => paths'[k] # 0

\* The two loops of Rename over the tables do what Follow says.
LEMMA RenamedTables ==
    ASSUME TablesOk(handles, paths), NEW c \in Conn, NEW o \in Path, NEW n \in Path, Rename(c, o, n)
    PROVE  Follow(o, n)
<1> DEFINE kept == [paths EXCEPT ![n] = 0]
           moving == {m \in Path : kept[m] # 0 /\ Below(m, o)}
           from(m) == {k \in moving : Moved(k, o, n) = m}
<1>1. /\ paths' = [m \in Path |-> IF from(m) # {} THEN kept[CHOOSE k \in from(m) : TRUE]
                                  ELSE IF m \in moving THEN 0 ELSE kept[m]]
      /\ handles' = [h \in DOMAIN handles |->
                        IF \E m \in moving : kept[m] = h
                        THEN [handles[h] EXCEPT !.name = Moved(CHOOSE m \in moving : kept[m] = h, o, n)]
                        ELSE handles[h]]
  BY DEF Rename
<1>2. /\ handles \in Seq(Info) /\ paths \in [Path -> 0..Len(handles)]
      /\ \A m \in Path : paths[m] # 0 => handles[paths[m]].name = m
  BY DEF TablesOk
<1>3. kept[n] = 0 /\ \A m \in Path \ {n} : kept[m] = paths[m]
  BY <1>2
<1>4. \A m \in moving : m \in Path \ {n} /\ kept[m] = paths[m] /\ paths[m] # 0 /\ Below(m, o)
  BY <1>3
<1>5. \A m \in Path \ {n} : paths[m] # 0 /\ Below(m, o) => m \in moving /\ Moved(m, o, n) \in Path
  BY <1>3 DEF Rename, RenameNode
<1> HIDE DEF kept, moving
<1>6. \A h \in 1..Len(handles) : handles[h] \in Info
  BY <1>2
<1>7. \A m, k \in Path : paths[m] = paths[k] /\ paths[m] # 0 => m = k
  BY <1>2
<1>8. ASSUME NEW m \in Path \ {n}, paths[m] # 0
      PROVE  /\ paths[m] \in 1..Len(handles)
             /\ handles'[paths[m]] = [name |-> IF Below(m, o) THEN Moved(m, o, n) ELSE m,
                                      file |-> handles[paths[m]].file]
  <2>1. paths[m] \in 1..Len(handles) /\ paths[m] \in DOMAIN handles
    BY <1>2, <1>8
  <2>2. handles[paths[m]] = [name |-> m, file |-> handles[paths[m]].file]
    BY <1>2, <1>6, <1>8, <2>1 DEF Info
  <2>3. CASE Below(m, o)
    <3>1. m \in moving /\ kept[m] = paths[m]
      BY <1>4, <1>5, <1>8, <2>3
    <3>2. (CHOOSE k \in moving : kept[k] = paths[m]) = m
      BY <1>4, <1>7, <3>1
    <3>3. handles'[paths[m]] = [handles[paths[m]] EXCEPT !.name = Moved(m, o, n)]
      BY <1>1, <2>1, <3>1, <3>2, Zenon
    <3>. QED BY <2>1, <2>2, <2>3, <3>3
  <2>4. CASE ~Below(m, o)
    <3>1. ~\E k \in moving : kept[k] = paths[m]
      BY <1>4, <1>7, <1>8, <2>4
    <3>2. handles'[paths[m]] = handles[paths[m]]
      BY <1>1, <2>1, <3>1
    <3>. QED BY <2>1, <2>2, <2>4, <3>2
  <2>. QED BY <2>3, <2>4
<1>9. ASSUME NEW h \in 1..Len(handles) PROVE handles'[h].file = handles[h].file
  BY <1>1, <1>2, <1>6, <1>9 DEF Info
<1>10. ASSUME NEW h \in 1..Len(handles), \A m \in Path \ {n} : paths[m] # h PROVE handles'[h] = handles[h]
  <2>1. h \in DOMAIN handles /\ ~\E k \in moving : kept[k] = h
    BY <1>2, <1>4, <1>10
  <2>. QED BY <1>1, <2>1
<1>11. ASSUME NEW m \in Path, paths'[m] # 0
       PROVE  \E k \in Path \ {n} : paths'[m] = paths[k] /\ m = IF Below(k, o) THEN Moved(k, o, n) ELSE k
  <2>1. CASE from(m) # {}
    <3>1. PICK k \in moving : Moved(k, o, n) = m /\ paths'[m] = kept[k]
      BY <1>1, <2>1
    <3>. QED BY <1>4, <3>1
  <2>2. CASE from(m) = {}
    <3>1. m \notin moving /\ paths'[m] = kept[m]
      BY <1>1, <1>11, <2>2
    <3>2. m # n /\ kept[m] = paths[m]
      BY <1>3, <1>11, <3>1
    <3>3. ~Below(m, o)
      BY <1>5, <1>11, <3>1, <3>2
    <3>. QED BY <3>1, <3>2, <3>3
  <2>. QED BY <2>1, <2>2
<1>12. handles' = [h \in DOMAIN handles |-> handles'[h]] /\ paths' = [m \in Path |-> paths'[m]]
  BY <1>1
<1>13. ASSUME NEW m \in Path \ {n}, paths[m] # 0
       PROVE  /\ Below(m, o) => Moved(m, o, n) \in Path
              /\ handles'[paths[m]] = [name |-> IF Below(m, o) THEN Moved(m, o, n) ELSE m,
                                       file |-> handles[paths[m]].file]
  BY <1>5, <1>8, <1>13
<1>14. ASSUME NEW k \in Path \ {n}, paths[k] # 0, Below(k, o)
       PROVE  \E x \in Path : /\ Below(x, o) /\ Moved(x, o, n) = Moved(k, o, n)
                              /\ paths'[Moved(k, o, n)] = paths[x]
  <2>1. Moved(k, o, n) \in Path /\ k \in from(Moved(k, o, n))
    BY <1>5, <1>14
  <2>2. PICK x \in moving : Moved(x, o, n) = Moved(k, o, n) /\ paths'[Moved(k, o, n)] = kept[x]
    BY <1>1, <2>1
  <2>. QED BY <1>4, <2>2
<1>15. ASSUME NEW k \in Path \ {n}, paths[k] # 0, ~Below(k, o) PROVE paths'[k] # 0
  <2>1. k \notin moving /\ kept[k] = paths[k]
    BY <1>3, <1>4, <1>15
  <2>2. CASE from(k) # {}
    <3>1. PICK x \in moving : paths'[k] = kept[x]
      BY <1>1, <2>2
    <3>. QED BY <1>4, <3>1
  <2>3. CASE from(k) = {}
    BY <1>1, <1>15, <2>1, <2>3
  <2>. QED BY <2>2, <2>3
<1>. QED BY <1>9, <1>10, <1>11, <1>12, <1>13, <1>14, <1>15, Zenon DEF Follow

\* What Follow says keeps the tables sound and every handle with its file.
LEMMA RenamedTablesKeep ==
    ASSUME TablesOk(handles, paths), NEW o \in Path, NEW n \in Path, Follow(o, n)
    PROVE  TablesOk(handles', paths') /\ KeepsFiles(handles, handles')
<1>1. /\ handles \in Seq(Info) /\ paths \in [Path -> 0..Len(handles)] /\ Len(handles) \in Nat
      /\ DOMAIN handles = 1..Len(handles) /\ \A h \in 1..Len(handles) : handles[h] \in Info
  BY DEF TablesOk
<1>2. ASSUME NEW h \in 1..Len(handles) PROVE handles'[h] \in Info
  <2>1. CASE \A m \in Path \ {n} : paths[m] # h
    BY <1>1, <2>1 DEF Follow
  <2>2. CASE \E m \in Path \ {n} : paths[m] = h
    <3>1. PICK m \in Path \ {n} : paths[m] = h
      BY <2>2
    <3>2. paths[m] # 0
      BY <1>1, <3>1
    <3>3. /\ handles'[h] = [name |-> IF Below(m, o) THEN Moved(m, o, n) ELSE m, file |-> handles[h].file]
          /\ Below(m, o) => Moved(m, o, n) \in Path
      BY <3>1, <3>2, Zenon DEF Follow
    <3>. QED BY <1>1, <3>3 DEF Info
  <2>. QED BY <2>1, <2>2
<1>3. handles' \in [1..Len(handles) -> Info]
  BY <1>1, <1>2 DEF Follow
<1>4. handles' \in Seq(Info) /\ Len(handles') = Len(handles)
  BY <1>1, <1>3
<1>5. ASSUME NEW m \in Path, paths'[m] # 0
      PROVE  paths'[m] \in 1..Len(handles) /\ handles'[paths'[m]].name = m
  <2>1. PICK k \in Path \ {n} : paths'[m] = paths[k] /\ m = IF Below(k, o) THEN Moved(k, o, n) ELSE k
    BY <1>5 DEF Follow
  <2>2. handles'[paths[k]] = [name |-> IF Below(k, o) THEN Moved(k, o, n) ELSE k,
                              file |-> handles[paths[k]].file]
    BY <1>5, <2>1 DEF Follow
  <2>. QED BY <1>1, <1>5, <2>1, <2>2
<1>6. paths' \in [Path -> 0..Len(handles)]
  <2>1. \A m \in Path : paths'[m] \in 0..Len(handles)
    BY <1>1, <1>5
  <2>. QED BY <2>1 DEF Follow
<1>7. KeepsFiles(handles, handles')
  BY <1>1, <1>4 DEF KeepsFiles, Follow
<1>. QED BY <1>4, <1>5, <1>6, <1>7 DEF TablesOk

-----------------------------------------------------------------------------
(* Steps.                                                                  *)

\* A request in progress stays sound while handles keep their files.
LEMMA CallKeeps ==
    ASSUME NEW hs, NEW next, Len(hs) \in Nat, Len(next) \in Nat, KeepsFiles(hs, next), NEW k, CallOk(k, hs)
    PROVE  CallOk(k, next)
<1>1. CASE k \in [step: {"compare"}, handle: 1..Len(hs), name: Path, file: File] /\ hs[k.handle].file = k.file
  <2>1. k.handle \in 1..Len(hs) /\ k.handle \in 1..Len(next)
    BY <1>1 DEF KeepsFiles
  <2>2. next[k.handle].file = k.file
    BY <1>1, <2>1 DEF KeepsFiles
  <2>3. k \in [step: {"compare"}, handle: 1..Len(next), name: Path, file: File]
    BY <1>1, <2>1
  <2>. QED BY <2>2, <2>3 DEF CallOk
<1>. QED BY <1>1 DEF CallOk

\* A step of the request of c that leaves the tables sound.
LEMMA StepKeeps ==
    ASSUME IInv, TreeOk(tree'), TablesOk(handles', paths'), KeepsFiles(handles, handles'),
           NEW c \in Conn, NEW k, CallOk(k, handles'), call' = [call EXCEPT ![c] = k],
           AnswerOk(answer', handles')
    PROVE  IInv'
<1>1. Len(handles) \in Nat /\ Len(handles') \in Nat
  BY DEF IInv, TablesOk
<1>2. ASSUME NEW d \in Conn PROVE CallOk(call'[d], handles')
  <2>1. CASE d = c
    BY <2>1 DEF IInv, CallsOk
  <2>2. CASE d # c
    <3>1. call'[d] = call[d] /\ CallOk(call[d], handles)
      BY <2>2 DEF IInv, CallsOk
    <3>. QED BY <1>1, <3>1, CallKeeps
  <2>. QED BY <2>1, <2>2
<1>3. CallsOk(call', handles')
  BY <1>2 DEF IInv, CallsOk
<1>. QED BY <1>3 DEF IInv

\* A step that leaves the tables alone and gives no handle out.
LEMMA QuietStepKeeps ==
    ASSUME IInv, TreeOk(tree'), handles' = handles, paths' = paths, answer' = None,
           NEW c \in Conn, NEW k, CallOk(k, handles), call' = [call EXCEPT ![c] = k]
    PROVE  IInv'
<1>1. TablesOk(handles', paths') /\ KeepsFiles(handles, handles') /\ CallOk(k, handles')
  BY DEF IInv, TablesOk, KeepsFiles
<1>2. AnswerOk(answer', handles')
  BY DEF AnswerOk
<1>. QED BY <1>1, <1>2, StepKeeps, Zenon

\* A node of the tree, as a request takes it along.
LEMMA AtFacts ==
    ASSUME TreeOk(tree), NEW n \in Path, tree[n] # None
    PROVE  At(n) \in Info /\ tree[n].file \in File
  BY DEF TreeOk, Node, At, Info

\* Stat keeps the invariant.
LEMMA StatKeeps == ASSUME IInv, NEW c \in Conn, NEW n \in Path, Stat(c, n) PROVE IInv'
<1>1. TreeOk(tree') /\ handles' = handles /\ paths' = paths
  BY DEF IInv, Stat, tables
<1>2. CASE tree[n] # None /\ Continue(c, [step |-> "wrap", infos |-> {At(n)}])
  <2>1. CallOk([step |-> "wrap", infos |-> {At(n)}], handles)
    BY <1>2, AtFacts DEF IInv, CallOk
  <2>. QED BY <1>1, <1>2, <2>1, QuietStepKeeps, Zenon DEF Continue
<1>3. CASE Fail(c)
  <2>1. CallOk(None, handles)
    BY DEF CallOk
  <2>. QED BY <1>1, <1>3, <2>1, QuietStepKeeps, Zenon DEF Fail
<1>. QED BY <1>2, <1>3 DEF Stat

\* Readdir keeps the invariant.
LEMMA ReaddirKeeps == ASSUME IInv, NEW c \in Conn, NEW d, Readdir(c, d) PROVE IInv'
<1> DEFINE entries == {n \in Path : Parent(n) = d /\ tree[n] # None}
           k == [step |-> "wrap", infos |-> {At(n) : n \in entries}]
<1>1. TreeOk(tree') /\ handles' = handles /\ paths' = paths
  BY DEF IInv, Readdir, tables
<1>2. \A n \in entries : At(n) \in Info
  BY AtFacts DEF IInv
<1>3. CallOk(k, handles)
  BY <1>2 DEF CallOk
<1>4. answer' = None /\ call' = [call EXCEPT ![c] = k]
  BY DEF Readdir, Continue
<1> HIDE DEF k
<1>. QED BY <1>1, <1>3, <1>4, QuietStepKeeps, Zenon

\* OpenFile and MkdirAll keep the invariant.
LEMMA MakeKeeps ==
    ASSUME IInv, NEW c \in Conn, NEW n \in Path, OpenFile(c, n) \/ MkdirAll(c, n)
    PROVE  IInv'
<1>1. TreeOk(tree')
  BY MakeNodeKeeps, MkdirAllKeeps, Zenon DEF IInv, OpenFile
<1>2. handles' = handles /\ paths' = paths /\ Fail(c)
  BY Zenon DEF OpenFile, MkdirAll, tables
<1>3. CallOk(None, handles)
  BY DEF CallOk
<1>. QED BY <1>1, <1>2, <1>3, QuietStepKeeps, Zenon DEF Fail

\* Remove, up to its lock, keeps the invariant.
LEMMA RemoveNameKeeps == ASSUME IInv, NEW c \in Conn, NEW n \in Path, RemoveName(c, n) PROVE IInv'
<1> DEFINE k == [step |-> "forget", name |-> n]
<1>1. TreeOk(tree')
  BY RemoveNodeKeeps DEF IInv, RemoveName
<1>2. handles' = handles /\ paths' = paths /\ answer' = None /\ call' = [call EXCEPT ![c] = k]
  BY DEF RemoveName, tables, Continue
<1>3. CallOk(k, handles)
  BY DEF CallOk
<1> HIDE DEF k
<1>. QED BY <1>1, <1>2, <1>3, QuietStepKeeps, Zenon

\* The first step of ResolveHandle keeps the invariant.
LEMMA ResolveKeeps ==
    ASSUME IInv, NEW c \in Conn, NEW h \in DOMAIN handles, ResolveHandle(c, h)
    PROVE  IInv'
<1> DEFINE k == [step |-> "compare", handle |-> h, name |-> handles[h].name, file |-> handles[h].file]
<1>1. TreeOk(tree') /\ handles' = handles /\ paths' = paths /\ answer' = None /\ call' = [call EXCEPT ![c] = k]
  BY DEF IInv, ResolveHandle, tables, Continue
<1>2. h \in 1..Len(handles) /\ handles[h] \in Info
  BY DEF IInv, TablesOk
<1>3. CallOk(k, handles)
  BY <1>2 DEF CallOk, Info
<1> HIDE DEF k
<1>. QED BY <1>1, <1>3, QuietStepKeeps, Zenon

\* What a request in progress is, by its step.
LEMMA CallFacts ==
    ASSUME IInv, NEW c \in Conn, ~Free(c)
    PROVE  /\ call[c].step = "wrap" => call[c] \in [step: {"wrap"}, infos: SUBSET Info]
           /\ call[c].step = "forget" => call[c].name \in Path
           /\ call[c].step = "compare" =>
                  /\ call[c].handle \in 1..Len(handles) /\ call[c].name \in Path /\ call[c].file \in File
                  /\ handles[call[c].handle].file = call[c].file
<1>1. CallOk(call[c], handles) /\ call[c] # None
  BY DEF IInv, CallsOk, Free
<1>2. CASE call[c] \in [step: {"wrap"}, infos: SUBSET Info]
  BY <1>2
<1>3. CASE call[c] \in [step: {"forget"}, name: Path]
  BY <1>3
<1>4. CASE /\ call[c] \in [step: {"compare"}, handle: 1..Len(handles), name: Path, file: File]
           /\ handles[call[c].handle].file = call[c].file
  BY <1>4
<1>. QED BY <1>1, <1>2, <1>3, <1>4 DEF CallOk

\* forget keeps the invariant.
LEMMA ForgetKeeps == ASSUME IInv, NEW c \in Conn, forget(c) PROVE IInv'
<1>1. call[c].name \in Path
  BY CallFacts DEF forget
<1>2. handles' = handles /\ paths' = [paths EXCEPT ![call[c].name] = 0] /\ TreeOk(tree')
  BY DEF IInv, forget
<1>3. TablesOk(handles', paths')
  BY <1>1, <1>2, ForgottenPath, Zenon DEF IInv
<1>4. KeepsFiles(handles, handles') /\ CallOk(None, handles') /\ AnswerOk(None, handles')
  BY <1>2 DEF KeepsFiles, CallOk, AnswerOk, IInv, TablesOk
<1>. QED BY <1>2, <1>3, <1>4, StepKeeps, Zenon DEF forget, Fail

\* The comparison of ResolveHandle keeps the invariant.
LEMMA CompareKeeps == ASSUME IInv, NEW c \in Conn, compare(c) PROVE IInv'
<1>1. /\ call[c].handle \in 1..Len(handles) /\ call[c].name \in Path /\ call[c].file \in File
      /\ handles[call[c].handle].file = call[c].file
  BY CallFacts DEF compare
<1>2. TreeOk(tree') /\ handles' = handles /\ paths' = paths
  BY DEF IInv, compare, tables
<1>3. TablesOk(handles', paths') /\ KeepsFiles(handles, handles') /\ CallOk(None, handles')
  BY <1>2 DEF IInv, TablesOk, KeepsFiles, CallOk
<1>4. call' = [call EXCEPT ![c] = None]
  BY DEF compare, Return, Fail
<1>5. AnswerOk(answer', handles')
  <2> DEFINE n == call[c].name
  <2>1. CASE tree[n] # None /\ SameFile(tree[n].file, call[c].file) /\ Return(c, call[c].handle, tree[n].file)
    <3>1. answer' = [handle |-> call[c].handle, file |-> tree[n].file]
      BY <2>1 DEF Return
    <3>2. tree[n].file \in File
      BY <1>1, <2>1, AtFacts DEF IInv
    <3>. QED BY <1>1, <1>2, <2>1, <3>1, <3>2 DEF AnswerOk, SameFile
  <2>2. CASE Fail(c)
    BY <2>2 DEF Fail, AnswerOk
  <2>. QED BY <2>1, <2>2 DEF compare
<1>. QED BY <1>2, <1>3, <1>4, <1>5, StepKeeps, Zenon

\* wrap keeps the invariant: a handle is new, or its entry has the same inode number.
LEMMA WrapKeeps == ASSUME IInv, NEW c \in Conn, wrap(c) PROVE IInv'
<1>1. call[c] \in [step: {"wrap"}, infos: SUBSET Info]
  BY CallFacts DEF wrap
<1>2. TreeOk(tree')
  BY DEF IInv, wrap
<1>3. handles \in Seq(Info) /\ Len(handles) \in Nat /\ paths \in [Path -> 0..Len(handles)]
  BY DEF IInv, TablesOk
<1>4. PICK info \in call[c].infos :
          LET h == paths[info.name]
              new == Len(handles) + 1
              known == h # 0 /\ SameFile(handles[h].file, info.file)
          IN  \/ known /\ Wrapped(c, info, h) /\ UNCHANGED tables
              \/ ~known /\ new > maxHandles /\ Fail(c) /\ UNCHANGED tables
              \/ /\ ~known /\ new <= maxHandles
                 /\ handles' = Append(handles, info)
                 /\ paths' = [paths EXCEPT ![info.name] = new]
                 /\ Wrapped(c, info, new)
  BY DEF wrap
<1>5. info \in Info /\ info.name \in Path /\ info.file \in File
  BY <1>1, <1>4 DEF Info
<1> DEFINE h == paths[info.name]
           new == Len(handles) + 1
           rest == call[c].infos \ {info}
           k == IF rest = {} THEN None ELSE [call[c] EXCEPT !.infos = rest]
<1>6. CallOk(k, handles')
  BY <1>1 DEF CallOk
<1>7. ASSUME NEW x, Wrapped(c, info, x)
      PROVE  call' = [call EXCEPT ![c] = k] /\ answer' = [handle |-> x, file |-> info.file]
  BY <1>7 DEF Wrapped
<1> HIDE DEF k
<1>8. CASE h # 0 /\ SameFile(handles[h].file, info.file) /\ Wrapped(c, info, h) /\ UNCHANGED tables
  <2>1. handles' = handles /\ paths' = paths /\ h \in 1..Len(handles)
    BY <1>3, <1>5, <1>8 DEF tables
  <2>2. TablesOk(handles', paths') /\ KeepsFiles(handles, handles')
    BY <1>3, <2>1 DEF IInv, KeepsFiles
  <2>3. AnswerOk(answer', handles')
    BY <1>5, <1>7, <1>8, <2>1 DEF AnswerOk
  <2>. QED BY <1>2, <1>6, <1>7, <1>8, <2>2, <2>3, StepKeeps, Zenon
<1>9. CASE Fail(c) /\ UNCHANGED tables
  <2>1. handles' = handles /\ paths' = paths /\ CallOk(None, handles)
    BY <1>9 DEF tables, CallOk
  <2>. QED BY <1>2, <1>9, <2>1, QuietStepKeeps, Zenon DEF Fail
<1>10. CASE handles' = Append(handles, info) /\ paths' = [paths EXCEPT ![info.name] = new] /\ Wrapped(c, info, new)
  <2>1. TablesOk(handles', paths') /\ KeepsFiles(handles, handles')
    BY <1>5, <1>10, AddedHandle, Zenon DEF IInv
  <2>2. new \in 1..Len(handles') /\ handles'[new] = info
    BY <1>3, <1>5, <1>10
  <2>3. AnswerOk(answer', handles')
    BY <1>5, <1>7, <1>10, <2>2 DEF AnswerOk, SameFile
  <2>. QED BY <1>2, <1>6, <1>7, <1>10, <2>1, <2>3, StepKeeps, Zenon
<1>. QED BY <1>4, <1>8, <1>9, <1>10

\* Rename keeps the invariant.
LEMMA RenameKeeps == ASSUME IInv, NEW c \in Conn, NEW o \in Path, NEW n \in Path, Rename(c, o, n) PROVE IInv'
<1>1. TreeOk(tree') /\ TablesOk(handles', paths') /\ KeepsFiles(handles, handles')
  BY RenameNodeKeeps, RenamedTables, RenamedTablesKeep, Zenon DEF IInv, Rename
<1>2. call' = [call EXCEPT ![c] = None] /\ CallOk(None, handles') /\ AnswerOk(answer', handles')
  BY DEF Rename, Fail, CallOk, AnswerOk
<1>. QED BY <1>1, <1>2, StepKeeps, Zenon

\* Local processes change the tree only.
LEMMA LocalKeeps == ASSUME IInv, Local PROVE IInv'
<1>1. TreeOk(tree')
  BY MakeNodeKeeps, RemoveNodeKeeps, RenameNodeKeeps DEF IInv, Local
<1>2. handles' = handles /\ paths' = paths /\ call' = call /\ answer' = None
  BY DEF Local, tables
<1>. QED BY <1>1, <1>2 DEF IInv, AnswerOk

\* The empty tables are sound.
LEMMA InitGood == ASSUME Init PROVE IInv
<1>1. TreeOk(tree)
  BY DEF Init, TreeOk
<1>2. TablesOk(handles, paths)
  BY DEF Init, TablesOk
<1>3. CallsOk(call, handles) /\ AnswerOk(answer, handles)
  BY DEF Init, CallsOk, CallOk, AnswerOk
<1>. QED BY <1>1, <1>2, <1>3 DEF IInv

\* Every step keeps the invariant.
LEMMA NextKeeps == ASSUME IInv, [Next]_vars PROVE IInv'
<1>1. CASE Local
  BY <1>1, LocalKeeps
<1>2. ASSUME NEW c \in Conn, NEW n \in Path,
             Stat(c, n) \/ OpenFile(c, n) \/ MkdirAll(c, n) \/ RemoveName(c, n)
      PROVE  IInv'
  BY <1>2, StatKeeps, MakeKeeps, RemoveNameKeeps
<1>3. ASSUME NEW c \in Conn, NEW o \in Path, NEW n \in Path, Rename(c, o, n) PROVE IInv'
  BY <1>3, RenameKeeps
<1>4. ASSUME NEW c \in Conn, NEW d, Readdir(c, d) PROVE IInv'
  BY <1>4, ReaddirKeeps
<1>5. ASSUME NEW c \in Conn, NEW h \in DOMAIN handles, ResolveHandle(c, h) PROVE IInv'
  BY <1>5, ResolveKeeps
<1>6. ASSUME NEW c \in Conn, wrap(c) \/ forget(c) \/ compare(c) PROVE IInv'
  BY <1>6, WrapKeeps, ForgetKeeps, CompareKeeps
<1>7. CASE UNCHANGED vars
  BY <1>7 DEF vars, tables, IInv
<1>. QED BY <1>1, <1>2, <1>3, <1>4, <1>5, <1>6, <1>7, Zenon DEF Next

\* IInv is inductive: the tree has no holes, f.paths and f.handles agree, a request
\* between two steps holds what a handle was made for, and a handle that is given
\* out or resolved leads to a file with the inode number it was made for, also when
\* inode numbers are used again.
THEOREM NfsInvariance == Spec => []IInv
<1>1. Init => IInv
  BY InitGood
<1>2. IInv /\ [Next]_vars => IInv'
  BY NextKeeps
<1>. QED BY <1>1, <1>2, PTL DEF Spec

\* Every file has a number of its own, also after others have gone.
NumbersAreNew == \A f, g \in File : SameFile(f, g) => f = g

\* Where no inode number is used twice a handle means one file (wrap, ResolveHandle).
\* The run nfs_reuse shows that it does not where one is.
THEOREM HandlesMeanOneFile == NumbersAreNew => (Spec => []HandleMeansOneFile)
<1>1. SUFFICES ASSUME NumbersAreNew PROVE Spec => []HandleMeansOneFile
  OBVIOUS
<1>2. IInv => HandleMeansOneFile
  <2>1. SUFFICES ASSUME IInv, answer # None PROVE handles[answer.handle].file = answer.file
    BY DEF HandleMeansOneFile
  <2>2. /\ answer.handle \in 1..Len(handles) /\ answer.file \in File
        /\ SameFile(handles[answer.handle].file, answer.file)
    BY <2>1 DEF IInv, AnswerOk
  <2>3. handles[answer.handle].file \in File
    <3>1. handles \in Seq(Info)
      BY <2>1 DEF IInv, TablesOk
    <3>2. handles[answer.handle] \in Info
      BY <2>2, <3>1
    <3>. QED BY <3>2 DEF Info
  <2>. QED BY <1>1, <2>2, <2>3 DEF NumbersAreNew
<1>. QED BY <1>2, NfsInvariance, PTL

-----------------------------------------------------------------------------
(* The handles, step by step.                                              *)

\* Paths get new handles, or those that paths had.
PathsFrom ==
    \A m \in Path : paths'[m] \in 1..Len(handles) => \E k \in Path : paths[k] = paths'[m]

\* No step takes a file from a handle, or brings back a handle that no path had.
LEMMA TablesStep == ASSUME IInv, [Next]_vars PROVE KeepsFiles(handles, handles') /\ PathsFrom
<1>1. handles \in Seq(Info) /\ Len(handles) \in Nat /\ paths \in [Path -> 0..Len(handles)]
  BY DEF IInv, TablesOk
<1>2. CASE UNCHANGED tables
  BY <1>1, <1>2 DEF tables, KeepsFiles, PathsFrom
<1>3. ASSUME NEW c \in Conn, forget(c) PROVE KeepsFiles(handles, handles') /\ PathsFrom
  <2>1. handles' = handles /\ \A m \in Path : paths'[m] \in {0, paths[m]}
    BY <1>1, <1>3 DEF forget
  <2>. QED BY <1>1, <2>1 DEF KeepsFiles, PathsFrom
<1>4. ASSUME NEW c \in Conn, wrap(c), ~UNCHANGED tables PROVE KeepsFiles(handles, handles') /\ PathsFrom
  <2>1. PICK info \in call[c].infos :
            handles' = Append(handles, info) /\ paths' = [paths EXCEPT ![info.name] = Len(handles) + 1]
    BY <1>4 DEF wrap
  <2>2. call[c] \in [step: {"wrap"}, infos: SUBSET Info]
    BY <1>4, CallFacts DEF wrap
  <2>3. info \in Info
    BY <2>1, <2>2
  <2>4. KeepsFiles(handles, handles')
    BY <2>1, <2>3, AddedHandle, Zenon DEF IInv
  <2>5. \A m \in Path : paths'[m] \in {Len(handles) + 1, paths[m]}
    BY <1>1, <2>1
  <2>. QED BY <1>1, <2>4, <2>5 DEF PathsFrom
<1>5. ASSUME NEW c \in Conn, NEW o \in Path, NEW n \in Path, Rename(c, o, n)
      PROVE  KeepsFiles(handles, handles') /\ PathsFrom
  <2>1. Follow(o, n)
    BY <1>5, RenamedTables DEF IInv
  <2>2. KeepsFiles(handles, handles')
    BY <2>1, RenamedTablesKeep DEF IInv
  <2>. QED BY <1>1, <2>1, <2>2 DEF PathsFrom, Follow
<1>6. CASE Local \/ UNCHANGED vars
  BY <1>2, <1>6 DEF Local, vars
<1>7. ASSUME NEW c \in Conn, NEW n \in Path,
             Stat(c, n) \/ OpenFile(c, n) \/ MkdirAll(c, n) \/ RemoveName(c, n)
      PROVE  UNCHANGED tables
  BY <1>7, Zenon DEF Stat, OpenFile, MkdirAll, RemoveName
<1>8. ASSUME NEW c \in Conn, NEW d, Readdir(c, d) PROVE UNCHANGED tables
  BY <1>8 DEF Readdir
<1>9. ASSUME NEW c \in Conn, NEW h \in DOMAIN handles, ResolveHandle(c, h) PROVE UNCHANGED tables
  BY <1>9 DEF ResolveHandle
<1>10. ASSUME NEW c \in Conn, compare(c) PROVE UNCHANGED tables
  BY <1>10 DEF compare
<1>. QED BY <1>2, <1>3, <1>4, <1>5, <1>6, <1>7, <1>8, <1>9, <1>10, Zenon DEF Next

\* f.handles only grows, and no handle in it is ever given another file.
THEOREM HandlesKeepTheirFiles == Spec => [][KeepsFiles(handles, handles')]_vars
<1>1. IInv /\ [Next]_vars => [KeepsFiles(handles, handles')]_vars
  BY TablesStep
<1>. QED BY <1>1, NfsInvariance, PTL DEF Spec

\* A handle is current when a path leads to it.
LEMMA CurrentFacts ==
    ASSUME NEW hs, NEW ps, TablesOk(hs, ps), NEW h \in 1..Len(hs)
    PROVE  ps[hs[h].name] = h <=> \E m \in Path : ps[m] = h
<1>1. hs[h].name \in Path /\ h # 0
  <2>1. hs \in Seq(Info)
    BY DEF TablesOk
  <2>2. hs[h] \in Info
    BY <2>1
  <2>. QED BY <2>2 DEF Info
<1>. QED BY <1>1 DEF TablesOk

\* A handle that has become stale stays so, over every remove, rename and lookup.
THEOREM StaleStaysStale == Spec => StaleForGood
<1>1. IInv /\ [Next]_vars => [\A h \in DOMAIN handles : ~Current(h) => ~Current(h)']_vars
  <2>1. SUFFICES ASSUME IInv, [Next]_vars, NEW h \in DOMAIN handles, ~Current(h) PROVE ~Current(h)'
    OBVIOUS
  <2>2. TablesOk(handles, paths) /\ TablesOk(handles', paths') /\ h \in 1..Len(handles)
    BY <2>1, NextKeeps DEF IInv, TablesOk
  <2>3. KeepsFiles(handles, handles') /\ PathsFrom
    BY <2>1, TablesStep
  <2>4. h \in 1..Len(handles')
    BY <2>2, <2>3 DEF KeepsFiles, TablesOk
  <2>5. ~\E m \in Path : paths[m] = h
    BY <2>1, <2>2, CurrentFacts DEF Current
  <2>6. ~\E m \in Path : paths'[m] = h
    BY <2>2, <2>3, <2>5 DEF PathsFrom
  <2>. QED BY <2>2, <2>4, <2>6, CurrentFacts DEF Current
<1>. QED BY <1>1, NfsInvariance, PTL DEF Spec, StaleForGood

\* A handle that resolves is at a path that Rename moves along, or leaves.
LEMMA RenameResolves ==
    ASSUME IInv, NEW c \in Conn, NEW o \in Path, NEW n \in Path, Rename(c, o, n),
           NEW h \in DOMAIN handles, Resolves(h), handles[h].name # n
    PROVE  Resolves(h)'
<1> DEFINE m == handles[h].name
<1>1. h \in 1..Len(handles) /\ handles \in Seq(Info)
  BY DEF IInv, TablesOk
<1>2. handles[h] \in Info /\ m \in Path \ {n} /\ paths[m] = h /\ h # 0
  <2>1. handles[h] \in Info
    BY <1>1
  <2>. QED BY <1>1, <2>1 DEF Info, Resolves, Current
<1>3. tree[m] # None /\ SameFile(tree[m].file, handles[h].file)
  BY DEF Resolves
<1> HIDE DEF m
<1>4. Follow(o, n) /\ RenameNode(o, n) /\ TreeOk(tree) /\ TablesOk(handles, paths)
  BY RenamedTables, Zenon DEF IInv, Rename
<1>5. TablesOk(handles', paths') /\ h \in 1..Len(handles')
  BY <1>1, <1>4, RenamedTablesKeep DEF KeepsFiles, TablesOk
<1>6. m \in Seq(Name) /\ o \in Seq(Name) /\ n \in Seq(Name)
  BY <1>2, PathFacts
<1>7. handles'[h].file = handles[h].file
  BY <1>1, <1>4 DEF Follow
<1>8. /\ Below(m, o) => Moved(m, o, n) \in Path
      /\ handles'[h] = [name |-> IF Below(m, o) THEN Moved(m, o, n) ELSE m, file |-> handles[h].file]
  <2>1. paths[m] # 0
    BY <1>2
  <2>2. /\ Below(m, o) => Moved(m, o, n) \in Path
        /\ handles'[paths[m]] = [name |-> IF Below(m, o) THEN Moved(m, o, n) ELSE m,
                                 file |-> handles[paths[m]].file]
    BY <1>2, <1>4, <2>1, Zenon DEF Follow
  <2>. QED BY <1>2, <2>2
<1>9. ASSUME NEW k \in Path, handles'[h].name = k, paths'[k] = h, tree'[k] = tree[m]
      PROVE  Resolves(h)'
  BY <1>3, <1>7, <1>9 DEF Resolves, Current, SameFile
<1>10. CASE Below(m, o)
  <2> DEFINE k == Moved(m, o, n)
  <2>1. k \in Path /\ handles'[h].name = k
    <3>1. k \in Path /\ handles'[h] = [name |-> k, file |-> handles[h].file]
      BY <1>8, <1>10
    <3> HIDE DEF k
    <3>2. [name |-> k, file |-> handles[h].file].name = k
      OBVIOUS
    <3>. QED BY <3>1, <3>2, Zenon
  <2>2. Below(k, n) /\ Moved(k, n, o) = m
    BY <1>6, <1>10, MovedFacts
  <2>3. tree'[k] = tree[m]
    BY <1>2, <1>4, <2>1, <2>2, RenamedTree
  <2>4. PICK x \in Path : Below(x, o) /\ Moved(x, o, n) = k /\ paths'[k] = paths[x]
    BY <1>2, <1>4, <1>10 DEF Follow
  <2>5. x = m
    <3>1. x \in Seq(Name)
      BY PathFacts
    <3>. QED BY <1>6, <2>2, <2>4, <3>1, MovedFacts
  <2>. QED BY <1>2, <1>9, <2>1, <2>3, <2>4, <2>5
<1>11. CASE ~Below(m, o)
  <2>1. handles'[h].name = m /\ paths'[m] # 0
    <3>1. handles'[h].name = m
      <4>1. handles'[h] = [name |-> m, file |-> handles[h].file]
        BY <1>8, <1>11
      <4>. QED BY <4>1
    <3>2. paths[m] # 0
      BY <1>2
    <3>3. paths'[m] # 0
      BY <1>2, <1>4, <1>11, <3>2 DEF Follow
    <3>. QED BY <3>1, <3>3
  <2>2. ~Below(m, n)
    <3>1. SUFFICES ASSUME Below(m, n) PROVE FALSE
      OBVIOUS
    <3>2. tree[n] # None
      BY <1>2, <1>3, <1>4, <3>1 DEF TreeOk
    <3>3. o # n
      BY <1>11, <3>1
    <3>4. Empty(n)
      BY <1>4, <3>2, <3>3 DEF RenameNode
    <3>. QED BY <1>2, <1>3, <3>1, <3>4 DEF Empty
  <2>3. tree'[m] = tree[m]
    BY <1>2, <1>4, <1>11, <2>2, RenamedTree
  <2>4. PICK x \in Path \ {n} : paths'[m] = paths[x] /\ m = IF Below(x, o) THEN Moved(x, o, n) ELSE x
    BY <1>2, <1>4, <2>1 DEF Follow
  <2>5. ~Below(x, o)
    <3>1. x \in Seq(Name)
      BY PathFacts
    <3>. QED BY <1>6, <2>2, <2>4, <3>1, MovedFacts
  <2>. QED BY <1>2, <1>9, <2>1, <2>3, <2>4, <2>5
<1>. QED BY <1>10, <1>11

\* Rename takes the handles of everything below the old name along.
THEOREM HandlesFollowRenames == Spec => RenameKeepsHandles
<1> DEFINE A == tree' # tree =>
                    \A c \in Conn, o, n \in Path : Rename(c, o, n) =>
                        \A h \in DOMAIN handles :
                            Resolves(h) /\ handles[h].name # n => Resolves(h)'
<1>1. IInv => A
  BY RenameResolves
<1>2. IInv /\ [Next]_vars => [A]_vars
  BY <1>1
<1>3. RenameKeepsHandles <=> [][A]_vars
  BY DEF RenameKeepsHandles
<1> HIDE DEF A
<1>. QED BY <1>2, <1>3, NfsInvariance, PTL DEF Spec

=============================================================================
