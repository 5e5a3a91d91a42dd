------------------------------ MODULE Contexts ------------------------------
(***************************************************************************)
(* The contexts by which the process is told to stop.  serve of            *)
(* cmd/infra-box hands "main" to every service; SIGINT and SIGTERM cancel  *)
(* the context it is derived from, which is the same to all of them.  The  *)
(* services derive their own.  Cancelling a context cancels all that are   *)
(* derived from it.                                                        *)
(***************************************************************************)

VARIABLE cancelled  \* the contexts that were cancelled by themselves

\* Lineage[x]: context x and those it is derived from.
Lineage ==
    [main    |-> {"main"},
     ldap    |-> {"main", "ldap"},
     tftp    |-> {"main", "tftp"},
     nfs     |-> {"main", "nfs"},
     dns     |-> {"main", "dns"},
     gateway |-> {"main", "gateway"},
     https   |-> {"main", "gateway", "https"},
     http    |-> {"main", "gateway", "http"}]

\* ctx.Err() # nil, and a receive from ctx.Done() goes through.
Done(x) == Lineage[x] \cap cancelled # {}

\* No record is kept of what is cancelled anyhow.
Cancel(x) ==
    cancelled' = IF Done(x) THEN cancelled
                 ELSE {y \in cancelled : x \notin Lineage[y]} \cup {x}

=============================================================================
