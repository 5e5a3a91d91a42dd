--------------------------- MODULE MCPkiManager ---------------------------
EXTENDS PkiManager, TLC

MCServices == {"gateway", "ldap"}
MCSpelling == {"host", "HOST.", "second", "LDAP", "other.example"}
MCCanonical ==
    [n \in MCSpelling |-> CASE n \in {"host", "HOST."} -> "host"
                           [] n = "second" -> "second"
                           [] n = "LDAP" -> "ldap"
                           [] OTHER -> None]
\* Two hosts; twice the same host, a service, a foreign name and none.
MCAuthorized ==
    {<<"host", "second">>, <<"host", "HOST.">>, <<"LDAP">>, <<"host", "LDAP">>,
     <<"other.example">>, <<>>}
MCSymmetry == Permutations(Process) \cup Permutations(Config)

\* One process owns the directory; others compete for it while they open it.
OneOwner == \A p, q \in Process : pc[p] = "up" /\ pc[q] = "up" => p = q

=============================================================================
