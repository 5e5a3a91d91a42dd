--------------------------- MODULE MCLeaseManager ---------------------------
(***************************************************************************)
(* Two clients compete for two addresses and one name.  The name is passed *)
(* in two spellings; the other hostnames are none, the reserved name of    *)
(* the name server and one that does not normalize.                        *)
(***************************************************************************)
EXTENDS LeaseManager, TLC

MCHostname == {"", "Web", "web.lan.", "ns.lan.", "-"}
MCPassed == {"", "Web", "ns.lan.", "-"}
MCNormalize == [h \in MCHostname |->
                   CASE h = "Web" -> "web.lan."
                     [] h = "-" -> ""
                     [] OTHER -> h]
MCFallback == [c \in Client |-> "Web"]
MCReservedConfigs == {{"ns.lan."}, {"ns.lan.", "web.lan."}}
ClientSymmetry == Permutations(Client)
=============================================================================
