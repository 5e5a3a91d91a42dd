--------------------------- MODULE NfsFilesystem ---------------------------
(***************************************************************************)
(* The file handles of the NFS server (internal/nfsserver/filesystem.go):  *)
(* the tables of handles and paths, used by requests of several            *)
(* connections at once, over a tree that local processes change too.       *)
(*                                                                         *)
(* A request touches the tree and the tables in separate steps, except     *)
(* Rename, which holds f.mu over both.  A path is a sequence of names      *)
(* below a writable share.  The model tells files apart by an identity,    *)
(* the code by the inode number (os.SameFile), which may be used again     *)
(* after a file has gone.                                                  *)
(***************************************************************************)
EXTENDS Naturals, Sequences, Functions

CONSTANTS
    Conn,           \* connections
    Path,           \* the paths below a writable share
    File,           \* identities of files and directories
    Inode,          \* Inode[f]: the inode number of f
    maxHandles,
    None

Name == UNION {Range(n) : n \in Path}
Node == [file: File, dir: BOOLEAN]

\* Paths are sequences of names, and what is above a path is a path.
ASSUME PathAssumption ==
    /\ Path \subseteq Seq(Name) \ {<<>>}
    /\ \A n \in Path : \A i \in 1..Len(n) : SubSeq(n, 1, i) \in Path
    /\ DOMAIN Inode = File
    /\ maxHandles \in Nat \ {0}
    /\ None \notin Node

VARIABLES
    tree,       \* tree[n]: the file at n and whether it is a directory, or None
    used,       \* the files that have existed
    removed,    \* history: the files that requests have removed
    handles,    \* f.handles, in the order they were made; never removed
    paths,      \* f.paths: the handle of each path, 0 for none
    call,       \* call[c]: the request of c between two steps
    answer      \* the handle that the last step has given out or resolved

tables == <<handles, paths>>
vars == <<tree, used, removed, tables, call, answer>>

Init ==
    /\ tree = [n \in Path |-> None]
    /\ used = {} /\ removed = {}
    /\ handles = <<>>
    /\ paths = [n \in Path |-> 0]
    /\ call = [c \in Conn |-> None]
    /\ answer = None

\* The directory a path is in, and the paths at or under another.
Parent(n) == SubSeq(n, 1, Len(n) - 1)
Below(n, o) == Len(o) <= Len(n) /\ SubSeq(n, 1, Len(o)) = o
SameFile(f, g) == Inode[f] = Inode[g]

-----------------------------------------------------------------------------
(* What the operating system does.                                         *)

IsDir(n) == tree[n] # None /\ tree[n].dir
InDirectory(n) == Len(n) > 1 => IsDir(Parent(n))
Empty(n) == \A m \in Path : Below(m, n) /\ m # n => tree[m] = None
\* Numbers of files that exist are not given out.
Fresh == {f \in File \ used : \A n \in Path : tree[n] # None => ~SameFile(f, tree[n].file)}

MakeNode(n, dir) ==
    /\ tree[n] = None /\ InDirectory(n)
    /\ \E f \in Fresh :
           /\ tree' = [tree EXCEPT ![n] = [file |-> f, dir |-> dir]]
           /\ used' = used \cup {f}

RemoveNode(n) ==
    /\ tree[n] # None /\ Empty(n)
    /\ tree' = [tree EXCEPT ![n] = None]
    /\ UNCHANGED used

\* Where a path below o is once o is at n.
Moved(m, o, n) == n \o SubSeq(m, Len(o) + 1, Len(m))

\* (Path bounds the depth to which something can be moved.)
RenameNode(o, n) ==
    /\ tree[o] # None /\ InDirectory(n)
    /\ o = n \/ (~Below(n, o) /\ ~Below(o, n))
    /\ \A m \in Path : Below(m, o) /\ (tree[m] # None \/ paths[m] # 0) => Moved(m, o, n) \in Path
    /\ tree[n] # None => IsDir(n) = IsDir(o) /\ (o = n \/ Empty(n))
    /\ tree' = [m \in Path |->
                   IF Below(m, n) THEN LET from == Moved(m, n, o)
                                       IN  IF from \in Path THEN tree[from] ELSE None
                   ELSE IF Below(m, o) THEN None ELSE tree[m]]
    /\ UNCHANGED used

-----------------------------------------------------------------------------
(* Requests.                                                               *)

Free(c) == call[c] = None
Return(c, h, f) == call' = [call EXCEPT ![c] = None] /\ answer' = [handle |-> h, file |-> f]
Fail(c) == call' = [call EXCEPT ![c] = None] /\ answer' = None
Continue(c, rest) == call' = [call EXCEPT ![c] = rest] /\ answer' = None

At(n) == [name |-> n, file |-> tree[n].file]

\* Stat, up to the call of wrap; Stat of an open file too holds a name and the
\* file that was there some time before.
Stat(c, n) ==
    /\ Free(c)
    /\ \/ tree[n] # None /\ Continue(c, [step |-> "wrap", infos |-> {At(n)}])
       \/ tree[n] = None /\ Fail(c)
    /\ UNCHANGED <<tree, used, removed, tables>>

\* Readdir of d, or of the share, up to its calls of wrap.
Readdir(c, d) ==
    LET entries == {n \in Path : Parent(n) = d /\ tree[n] # None}
    IN  /\ Free(c)
        /\ entries # {}
        /\ Continue(c, [step |-> "wrap", infos |-> {At(n) : n \in entries}])
        /\ UNCHANGED <<tree, used, removed, tables>>

\* wrap has given out h for info; the other entries of a directory follow.
Wrapped(c, info, h) ==
    LET rest == call[c].infos \ {info}
    IN  /\ call' = [call EXCEPT ![c] = IF rest = {} THEN None ELSE [@ EXCEPT !.infos = rest]]
        /\ answer' = [handle |-> h, file |-> info.file]

\* Faulty variant of wrap: a handle is looked up by the file, at any name.
WrapByFile(c) ==
    /\ ~Free(c) /\ call[c].step = "wrap"
    /\ \E info \in call[c].infos :
           LET known == {h \in DOMAIN handles : SameFile(handles[h].file, info.file)}
               h == IF known # {} THEN CHOOSE k \in known : \A g \in known : g <= k
                                  ELSE Len(handles) + 1
           IN  /\ h <= maxHandles
               /\ handles' = IF known # {} THEN [handles EXCEPT ![h].name = info.name]
                             ELSE Append(handles, info)
               /\ paths' = [paths EXCEPT ![info.name] = h]
               /\ Wrapped(c, info, h)
    /\ UNCHANGED <<tree, used, removed>>

\* With the table full the request fails.
wrap(c) ==
    /\ ~Free(c) /\ call[c].step = "wrap"
    /\ \E info \in call[c].infos :
           LET h == paths[info.name]
               new == Len(handles) + 1
               known == h # 0 /\ SameFile(handles[h].file, info.file)
           IN  \/ known /\ Wrapped(c, info, h) /\ UNCHANGED tables
               \/ ~known /\ new > maxHandles /\ Fail(c) /\ UNCHANGED tables
               \/ /\ ~known /\ new <= maxHandles
                  /\ handles' = Append(handles, info)
                  /\ paths' = [paths EXCEPT ![info.name] = new]
                  /\ Wrapped(c, info, new)
    /\ UNCHANGED <<tree, used, removed>>

\* OpenFile with O_CREATE.
OpenFile(c, n) ==
    /\ Free(c)
    /\ MakeNode(n, FALSE)
    /\ Fail(c)
    /\ UNCHANGED <<removed, tables>>

\* MkdirAll makes the directories above n that are missing, too.
MkdirAll(c, n) ==
    LET above == {m \in Path : Below(n, m)}
        missing == {m \in above : tree[m] = None}
    IN  /\ Free(c)
        /\ \A m \in above \ missing : IsDir(m)
        /\ \E new \in Injection(missing, Fresh) :
               /\ \A m, k \in missing : m # k => ~SameFile(new[m], new[k])
               /\ tree' = [m \in Path |-> IF m \in missing THEN [file |-> new[m], dir |-> TRUE]
                                         ELSE tree[m]]
               /\ used' = used \cup Range(new)
        /\ Fail(c)
        /\ UNCHANGED <<removed, tables>>

\* Remove, up to its lock; then it forgets the path.
RemoveName(c, n) ==
    /\ Free(c)
    /\ RemoveNode(n)
    /\ removed' = removed \cup {tree[n].file}
    /\ Continue(c, [step |-> "forget", name |-> n])
    /\ UNCHANGED tables

forget(c) ==
    /\ ~Free(c) /\ call[c].step = "forget"
    /\ paths' = [paths EXCEPT ![call[c].name] = 0]
    /\ Fail(c)
    /\ UNCHANGED <<tree, used, removed, handles>>

\* Faulty variant of Rename: what is below the directory keeps its old path.
RenameOnly(c, o, n) ==
    /\ Free(c)
    /\ RenameNode(o, n)
    /\ paths' = [paths EXCEPT ![n] = paths[o], ![o] = 0]
    /\ handles' = IF paths[o] = 0 THEN handles ELSE [handles EXCEPT ![paths[o]].name = n]
    /\ Fail(c)
    /\ UNCHANGED removed

Rename(c, o, n) ==
    /\ Free(c)
    /\ RenameNode(o, n)
    /\ LET kept == [paths EXCEPT ![n] = 0]
           moving == {m \in Path : kept[m] # 0 /\ Below(m, o)}
       IN  /\ paths' = [m \in Path |->
                  LET from == {k \in moving : Moved(k, o, n) = m}
                  IN  IF from # {} THEN kept[CHOOSE k \in from : TRUE]
                      ELSE IF m \in moving THEN 0 ELSE kept[m]]
           /\ handles' = [h \in DOMAIN handles |->
                  IF \E m \in moving : kept[m] = h
                  THEN [handles[h] EXCEPT !.name = Moved(CHOOSE m \in moving : kept[m] = h, o, n)]
                  ELSE handles[h]]
    /\ Fail(c)
    /\ UNCHANGED removed

\* ResolveHandle, up to its unlock; then it compares the file at the name.
ResolveHandle(c, h) ==
    /\ Free(c)
    /\ paths[handles[h].name] = h
    /\ Continue(c, [step |-> "compare", handle |-> h,
                    name |-> handles[h].name, file |-> handles[h].file])
    /\ UNCHANGED <<tree, used, removed, tables>>

\* Faulty variant of compare: any file at the name will do.
CompareNothing(c) ==
    /\ ~Free(c) /\ call[c].step = "compare"
    /\ LET n == call[c].name
       IN  \/ tree[n] # None /\ Return(c, call[c].handle, tree[n].file)
           \/ tree[n] = None /\ Fail(c)
    /\ UNCHANGED <<tree, used, removed, tables>>

compare(c) ==
    /\ ~Free(c) /\ call[c].step = "compare"
    /\ LET n == call[c].name
           same == tree[n] # None => SameFile(tree[n].file, call[c].file)
       IN  \/ tree[n] # None /\ same /\ Return(c, call[c].handle, tree[n].file)
           \/ (tree[n] = None \/ ~same) /\ Fail(c)
    /\ UNCHANGED <<tree, used, removed, tables>>

-----------------------------------------------------------------------------

\* Processes on the server's host change the tree, not the tables.
Local ==
    /\ \/ \E n \in Path, dir \in BOOLEAN : MakeNode(n, dir)
       \/ \E n \in Path : RemoveNode(n)
       \/ \E o, n \in Path : RenameNode(o, n)
    /\ answer' = None
    /\ UNCHANGED <<removed, tables, call>>

Next ==
    \/ Local
    \/ \E c \in Conn :
           \/ \E n \in Path :
                  Stat(c, n) \/ OpenFile(c, n) \/ MkdirAll(c, n) \/ RemoveName(c, n)
           \/ \E o, n \in Path : Rename(c, o, n)
           \/ \E d \in Path \cup {<<>>} : Readdir(c, d)
           \/ \E h \in DOMAIN handles : ResolveHandle(c, h)
           \/ wrap(c)
           \/ forget(c)
           \/ compare(c)

Spec == Init /\ [][Next]_vars

-----------------------------------------------------------------------------
(* Properties.                                                             *)

Current(h) == paths[handles[h].name] = h

\* The handle resolves.
Resolves(h) ==
    LET n == handles[h].name
    IN  Current(h) /\ tree[n] # None /\ SameFile(tree[n].file, handles[h].file)

\* A handle is given out for one file and resolves to that file only, whatever
\* is removed, replaced or renamed meanwhile.
HandleMeansOneFile ==
    answer # None => handles[answer.handle].file = answer.file

\* The comment in Remove: old handles are "never reused for a new file", so one
\* made for a file that Remove took away is never given out for another.
RemovedNotReused ==
    answer # None /\ handles[answer.handle].file \in removed =>
        answer.file = handles[answer.handle].file

\* Rename moves the handles of everything below the old name along; only those
\* of a file it replaces go.
RenameKeepsHandles ==
    [][tree' # tree =>
           \A c \in Conn, o, n \in Path : Rename(c, o, n) =>
               \A h \in DOMAIN handles :
                   Resolves(h) /\ handles[h].name # n => Resolves(h)']_vars

\* A handle that is no longer the one of its path never is again: it stays
\* stale over every remove, rename and lookup.
StaleForGood ==
    [][\A h \in DOMAIN handles : ~Current(h) => ~Current(h)']_vars

=============================================================================
