---------------------------- MODULE MCSupervisor ----------------------------
(* The NFS session followed may open one file and save one handle.  See also *)
(* the constants in MCSupervisor.cfg.                                        *)
(* Three LDAP connections, two of them on the same endpoint, against a table *)
(* for two and one password check at a time; two NFS connections for one     *)
(* slot; a request in progress on each of the other listeners; four ports    *)
(* of three TFTP clients for two transfers, one per client, of which one is  *)
(* of a client that goes on, with a file longer than the block numbers.      *)
EXTENDS Supervisor

MCConn == {"c1", "c2", "c3"}
MCEndpoint == [c1 |-> "plain", c2 |-> "secure", c3 |-> "plain"]
MCAsks == [c1 |-> (Quick \ {"leave"}) \cup Slow, c2 |-> {"member"}, c3 |-> {"leave"}]
MCNfsConn == {"n1", "n2"}
MCClientOf == [p1 |-> "h1", p2 |-> "h1", p3 |-> "h2", p4 |-> "h3"]

=============================================================================
