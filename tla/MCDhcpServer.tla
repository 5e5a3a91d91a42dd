---------------------------- MODULE MCDhcpServer ----------------------------
(***************************************************************************)
(* Two clients without hostnames contend for the addresses of a pool.      *)
(***************************************************************************)
EXTENDS DhcpServer, TLC

MCHostname == {"", "ns.lan."}
MCPassed == {""}
MCNormalize == [h \in MCHostname |-> h]
MCFallback == [c \in Client |-> ""]
MCReservedConfigs == {{"ns.lan."}}
ClientSymmetry == Permutations(Client)
=============================================================================
