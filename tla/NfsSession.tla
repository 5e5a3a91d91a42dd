----------------------------- MODULE NfsSession -----------------------------
(***************************************************************************)
(* internal/nfsserver/protocol.go: the session of one NFS connection.  A   *)
(* request is a compound of operations, executed one by one up to the      *)
(* first that fails, on a current and a saved filehandle that are local to *)
(* the compound; the files it opens stay open for the connection.  What    *)
(* the protocol library calls for each operation is as the adapter         *)
(* (operationFS, filesystem) expects it.                                   *)
(*                                                                         *)
(* A handle is the share it leads into, or "root"; which file it is, and   *)
(* that it may be stale, is in NfsFilesystem.  Every operation may also    *)
(* fail for reasons of its own (no such file, stale handle, no space).     *)
(***************************************************************************)
EXTENDS Naturals, FiniteSets, Sequences

CONSTANTS
    Share, ReadOnly,    \* the shares, and those configured read-only
    maxFiles,           \* files a session may have open: 256 in the code
    MaxSaved            \* bound: saved handles

ASSUME SessionAssumption ==
    /\ ReadOnly \subseteq Share /\ "root" \notin Share
    /\ maxFiles \in Nat \ {0} /\ MaxSaved \in Nat \ {0}

VARIABLES
    current,            \* backend.Stat: the current handle, "none" at first
    saved,              \* backend.Stat: the saved handles
    files,              \* session.files
    changed             \* history: read-only shares that requests have changed

sessionVars == <<current, saved, files, changed>>

\* An open file is a pointer; what counts is its share, and whether its descriptor
\* can be written to.
OpenFiles == [pointer: 1..maxFiles, share: Share, write: BOOLEAN]
Opened == Cardinality(files)

newSession == current = "none" /\ saved = <<>> /\ files = {} /\ changed = {}

\* A compound begins without handles.
compound == current' = "none" /\ saved' = <<>> /\ UNCHANGED <<files, changed>>

Change(s) == changed' = changed \cup ({s} \cap ReadOnly)

-----------------------------------------------------------------------------
(* The adapter.                                                            *)

\* The check of execute, before the library is called.  A handle that does not
\* resolve at that moment, as when its file is being replaced, passes.
rofs(stale) == ~stale /\ (current = "root" \/ current \in ReadOnly)

\* Faulty variant: making a file is not looked at.
openableToCreate(s, create, truncate) == s \in ReadOnly => ~truncate

\* filesystem.OpenFile: nothing is made or emptied in a read-only share, and
\* files there are opened for reading whatever was asked for.
openable(s, create, truncate) == s \in ReadOnly => ~create /\ ~truncate

\* filesystem.writable, of a name in the directory with handle h.  In "root" the
\* names are those of the shares themselves.
writable(h) == h \in Share \ ReadOnly

-----------------------------------------------------------------------------
(* Operations that succeed.                                                *)

PutHandle(h) == current' = h /\ UNCHANGED <<saved, files, changed>>

Save ==
    /\ current # "none" /\ Len(saved) < MaxSaved
    /\ saved' = <<current>> \o saved
    /\ UNCHANGED <<current, files, changed>>

Restore ==
    /\ saved # <<>>
    /\ current' = Head(saved) /\ saved' = Tail(saved)
    /\ UNCHANGED <<files, changed>>

\* OPEN for reading or writing; the library asks for O_TRUNC whenever it makes a
\* file, the adapter only if the client gave a size.
Open(write, create, size, stale) ==
    LET truncate == create /\ size
    IN  /\ Opened < maxFiles
        /\ current \in Share /\ ~(write /\ rofs(stale))
        /\ openable(current, create, truncate)
        /\ \E f \in OpenFiles \ files :
               /\ f.share = current /\ f.write = (write /\ current \notin ReadOnly)
               /\ files' = files \cup {f}
        /\ IF create THEN Change(current) ELSE UNCHANGED changed
        /\ UNCHANGED <<current, saved>>

\* CLOSE, or the library gives the file up.
Close(f) ==
    /\ f \in files
    /\ files' = files \ {f}
    /\ UNCHANGED <<current, saved, changed>>

\* WRITE goes to an open file, the check to the current handle.
Write(f, stale) ==
    /\ f \in files
    /\ ~rofs(stale) /\ f.share \notin ReadOnly /\ f.write
    /\ Change(f.share)
    /\ UNCHANGED <<current, saved, files>>

\* CREATE, REMOVE and the mode of SETATTR; its size is a file opened for writing
\* and closed at the end of the operation, with the same conditions.
Modify(stale) ==
    /\ ~rofs(stale) /\ writable(current)
    /\ Change(current)
    /\ UNCHANGED <<current, saved, files>>

\* RENAME out of the directory that was saved into the current one.
Rename(stale) ==
    /\ saved # <<>> /\ ~rofs(stale)
    /\ writable(Head(saved)) /\ writable(current) /\ Head(saved) = current
    /\ Change(current)
    /\ UNCHANGED <<current, saved, files>>

execute ==
    \/ \E h \in Share \cup {"root"} : PutHandle(h)
    \/ Save \/ Restore
    \/ \E f \in OpenFiles : Close(f)
    \/ \E stale \in BOOLEAN :
           \/ \E write, create, size \in BOOLEAN : Open(write, create, size, stale)
           \/ \E f \in OpenFiles : Write(f, stale)
           \/ Modify(stale) \/ Rename(stale)

\* session.close.
close == files' = {} /\ UNCHANGED <<current, saved, changed>>

-----------------------------------------------------------------------------

\* No compound changes anything in a read-only share, whatever handles it
\* combines and however a file was opened before: each way of changing a file is
\* checked in another place, some on a handle other than the one that is used.
ReadOnlyKept == changed = {}

=============================================================================
