----------------------------- MODULE MCDnsServer ----------------------------
(***************************************************************************)
(* The domain lan. with a wildcard at its apex and another below the empty *)
(* non-terminal s.lan.; clients may take names below b.lan. and s.lan.     *)
(* Outside it a pinned name and a pinned wildcard.  Addresses have two     *)
(* octets of two bits, and the subnet is 0.0 to 0.3.                       *)
(***************************************************************************)
EXTENDS DnsServer, TLC

MCParent ==
    [n \in {".", "lan.", "ext.", "arpa."} |-> "."]
    @@ [n \in {"ns.lan.", "gateway.lan.", "*.lan.", "b.lan.", "s.lan.", "p.lan."} |-> "lan."]
    @@ [n \in {"a.b.lan.", "c.b.lan."} |-> "b.lan."]
    @@ [n \in {"*.s.lan.", "x.s.lan."} |-> "s.lan."]
    @@ [n \in {"pin.ext.", "w.ext.", "www.ext."} |-> "ext."]
    @@ [n \in {"*.w.ext.", "q.w.ext."} |-> "w.ext."]
    @@ [n \in {"0.arpa.", "1.arpa."} |-> "arpa."]
    @@ [n \in {"1.0.arpa.", "3.0.arpa."} |-> "0.arpa."]
    @@ ("1.1.arpa." :> "1.arpa.")
MCName == DOMAIN MCParent
MCWildcard ==
    [n \in MCName |-> CASE n = "lan." -> "*.lan."
                        [] n = "s.lan." -> "*.s.lan."
                        [] n = "w.ext." -> "*.w.ext."
                        [] OTHER -> "."]
MCLabels == "0.arpa." :> <<0>> @@ "1.arpa." :> <<1>> @@ "1.0.arpa." :> <<1, 0>>
            @@ "3.0.arpa." :> <<3, 0>> @@ "1.1.arpa." :> <<1, 1>>
MCARecords == "*.lan." :> 8 @@ "*.s.lan." :> 9 @@ "p.lan." :> 10
              @@ "pin.ext." :> 11 @@ "*.w.ext." :> 12
MCSubnet == [network |-> 0, bits |-> 2]

MCLocal == {n \in MCName : n = "lan." \/ MCParent[n] \in {"lan.", "b.lan.", "s.lan."}}
MCHostname == {""} \cup MCLocal
MCNormalize == [h \in MCHostname |-> IF h \in {"lan.", "*.lan.", "*.s.lan."} THEN "" ELSE h]
MCPassed == {"", "a.b.lan.", "x.s.lan."}
MCFallback == [c \in Client |-> ""]
ClientSymmetry == Permutations(Client)
MCReservedConfigs == {{"ns.lan.", "gateway.lan.", "p.lan."}}

Ask(names, kinds) ==
    [name: names, kind: kinds, form: {"query"}, recurse: {TRUE}]
MCQuestions == [h \in Handler |->
    IF h = "h1"
    THEN Ask({"a.b.lan.", "c.b.lan.", "b.lan.", "x.s.lan."}, {"A"})
         \cup Ask({"a.b.lan.", "1.0.arpa.", "0.arpa.", "3.0.arpa."}, {"PTR"})
         \cup Ask({"lan.", "0.arpa."}, {"SOA"})
         \cup Ask({"ns.lan.", "p.lan.", "s.lan.", "*.lan.", "pin.ext.", "q.w.ext.",
                   "w.ext.", "1.1.arpa."}, {"A"})
         \cup [name: {"www.ext."}, kind: {"A"}, form: {"query"}, recurse: {FALSE}]
         \cup [name: {"lan."}, kind: {"A"}, form: {"notimp"}, recurse: {TRUE}]
    ELSE Ask({"www.ext."}, {"A"})]
=============================================================================
