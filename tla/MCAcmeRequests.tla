--------------------------- MODULE MCAcmeRequests ---------------------------
(* Two accounts, one certificate.  The first account orders, rolls its key   *)
(* over and is deactivated, the second wants the same key; the certificate   *)
(* for two names is revoked by either account or with its own key.  The      *)
(* second account has been validated for the one name on one host and for    *)
(* the other on both.                                                        *)
EXTENDS AcmeRequests, TLC

HandlerSymmetry == Permutations(Handler)

MCFirstKey == [a1 |-> "k1", a2 |-> "k2"]
MCOwner == [x1 |-> "a1"]
MCNames == [x1 |-> {"n1", "n2"}]
MCAuthorizations == {{<<"n1", "p">>, <<"n2", "p">>, <<"n2", "q">>}}
MCCertKey == [x1 |-> "kx"]
Of(kind, a, signer, new) ==
    [kind |-> kind, account |-> a, signer |-> signer, new |-> new, cert |-> "x1"]
MCMessage ==
    {Of("keyChange", "a1", "k1", "k3"), Of("keyChange", "a2", "k2", "k3"),
     Of("newOrder", "a1", "k1", "k1"), Of("deactivate", "a1", "k1", "k1"), Of("revoke", "a1", "k1", "k1"),
     Of("revoke", "a2", "k2", "k2"), Of("revoke", None, "kx", "kx")}

=============================================================================
