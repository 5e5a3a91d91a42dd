-------------------------- MODULE SupervisorProofs --------------------------
(***************************************************************************)
(* Proofs about Supervisor and the services it runs, for any connections,  *)
(* clients, slots, blocks and shares: a service that has returned leaves   *)
(* nothing behind, the tables of LDAP and TFTP are exact, rights come from *)
(* the last bind, files arrive, and read-only shares are not changed.      *)
(*                                                                         *)
(* Each service has an invariant of its own, those of LDAP and TFTP are in *)
(* LdapTftpProofs; a step of one leaves the variables of the others alone. *)
(***************************************************************************)
EXTENDS Supervisor, LdapTftpProofs

-----------------------------------------------------------------------------
(* The invariants.                                                         *)

SideRec == [at: {"selecting", "shutdown", "awaiting", "done"},
            run: {"launched", "serving", "returned"}, received: BOOLEAN,
            shut: BOOLEAN, closed: BOOLEAN, listening: BOOLEAN, requests: Nat]

\* What serve has seen to at each stage.
SideGood(s) ==
    /\ s.at # "selecting" => s.shut /\ ~s.listening
    /\ s.received \/ s.at = "done" => s.run = "returned"
    /\ s.at \in {"awaiting", "done"} /\ s.requests > 0 => s.closed

Collected(e) == side[e].at = "done" /\ e \notin results

GatewayInv ==
    /\ side \in [Sides -> SideRec] /\ gateway \in {"first", "second", "returned"}
    /\ \A e \in Sides : SideGood(side[e]) /\ (e \in results => side[e].at = "done")
    /\ gateway = "first" => \A e \in Sides : ~Collected(e)
    /\ gateway = "second" => \E e \in Sides : Collected(e)
    /\ gateway = "returned" => \A e \in Sides : Collected(e)

Finished(s) == s.run \in {"sent", "closed"}

ServerRec == [run: {"none", "launched", "serving", "draining", "sent", "closed"},
              started: BOOLEAN, taken: BOOLEAN, queries: Nat]

\* How far serve is with the servers.
DnsInv ==
    /\ dns \in [at: {"launch", "ready", "waiting", "shutdown", "await", "returned"}, i: Servers]
    /\ server \in [Servers -> ServerRec]
    /\ \A j \in Servers : server[j].queries > 0 => server[j].run \in {"serving", "draining"}
    /\ dns.at = "launch" => \A j \in Servers : j >= dns.i => server[j].run = "none"
    /\ dns.at = "ready" => \A j \in Servers : j > dns.i => server[j].run = "none"
    /\ dns.at \in {"shutdown", "await"} /\ dns.i = 2 => Finished(server[1])
    /\ dns.at = "returned" => \A j \in Servers : server[j].run = "none" \/ Finished(server[j])

Running == {c \in NfsConn : Runs(c)}

NfsInv ==
    /\ nfs \in {"accepting", "leaving", "returned"}
    /\ nfsWorker \in [NfsConn -> {"none", "starting", "reading", "replying", "gone"}]
    /\ nfsOpen \subseteq {"listener", "filesystem"} \cup Running
    /\ IsFiniteSet(Running) /\ slots = Cardinality(Running) /\ slots <= NfsSlots
    /\ nfs # "returned" => "filesystem" \in nfsOpen
    /\ nfs = "returned" => nfsOpen = {} /\ Running = {}
    /\ IsFiniteSet(files) /\ Cardinality(files) <= maxFiles
    /\ files # {} => Runs(Talker)
    /\ ReadOnlyKept

PacketInv ==
    /\ socketCloser = "closed" => ~socket
    /\ PacketClosed

\* Every service is running, or its outcome is under way, or has been counted.
ServicesInv ==
    /\ focus \in Looked /\ main \in Nat
    /\ running \subseteq Services /\ outcomes \subseteq Services /\ running \cap outcomes = {}
    /\ main + Cardinality(running) + Cardinality(outcomes) = Cardinality(Services)
    /\ focus \notin running => HasReturned

IInv ==
    /\ cancelled \subseteq Context
    /\ ServicesInv
    /\ LdapInv /\ GatewayInv /\ DnsInv /\ NfsInv /\ PacketInv /\ TftpInv

-----------------------------------------------------------------------------
(* The gateway.                                                            *)

\* The state of one listener is replaced by another that is in order.
LEMMA BecomesKeeps ==
    ASSUME GatewayInv, NEW e \in Sides, NEW s \in SideRec, Becomes(e, s), SideGood(s),
           side[e].at = "done" => s.at = "done", s.at = "done" => side[e].at = "done"
    PROVE  GatewayInv' /\ gateway' = gateway
<1>1. /\ side \in [Sides -> SideRec] /\ side' = [side EXCEPT ![e] = s]
      /\ UNCHANGED <<results, gateway>>
  BY DEF GatewayInv, Becomes
<1>2. /\ side' \in [Sides -> SideRec] /\ side'[e] = s
      /\ \A f \in Sides \ {e} : side'[f] = side[f]
  BY <1>1
<1>3. \A f \in Sides : SideGood(side[f])' /\ (side'[f].at = "done" <=> side[f].at = "done")
  BY <1>2 DEF GatewayInv, SideGood
<1>4. \A f \in Sides : Collected(f)' <=> Collected(f)
  BY <1>1, <1>3 DEF Collected
<1>. QED BY <1>1, <1>2, <1>3, <1>4 DEF GatewayInv

\* A step of the gateway; when serveListeners has returned it stays so.
LEMMA GatewayKeeps ==
    ASSUME GatewayInv, cancelled \subseteq Context, GatewayNext
    PROVE  GatewayInv' /\ Grows /\ (gateway = "returned" => gateway' = "returned")
<1>1. PICK e \in Sides :
          \/ HttpServes(e) \/ HttpStops(e) \/ Select(e) \/ Shutdown(e) \/ ServeEnds(e)
          \/ Collect(e) \/ HttpRequest(e) \/ HttpResponse(e)
  BY DEF GatewayNext, GatewayProgress
<1> DEFINE s == side[e]
<1>2. s \in SideRec /\ SideGood(s) /\ (e \in results => s.at = "done")
  BY DEF GatewayInv
<1>3. CASE HttpServes(e)
  <2> DEFINE n == [s EXCEPT !.run = IF s.shut THEN "returned" ELSE "serving"]
  <2>1. n \in SideRec /\ SideGood(n) /\ n.at = s.at
    BY <1>2, <1>3 DEF SideRec, SideGood, HttpServes
  <2>. QED BY <1>3, <2>1, BecomesKeeps, UnchangedGrows, Zenon DEF HttpServes
<1>4. CASE HttpStops(e)
  <2> DEFINE n == [s EXCEPT !.run = "returned"]
  <2>1. n \in SideRec /\ SideGood(n) /\ n.at = s.at
    BY <1>2 DEF SideRec, SideGood
  <2>. QED BY <1>4, <2>1, BecomesKeeps, UnchangedGrows, Zenon DEF HttpStops
<1>5. CASE HttpRequest(e)
  <2> DEFINE n == [s EXCEPT !.requests = @ + 1]
  <2>1. s.run = "serving" /\ ~s.shut
    BY <1>5 DEF HttpRequest
  <2>2. n \in SideRec /\ SideGood(n) /\ n.at = s.at
    BY <1>2, <2>1 DEF SideRec, SideGood
  <2>. QED BY <1>5, <2>2, BecomesKeeps, UnchangedGrows, Zenon DEF HttpRequest
<1>6. CASE HttpResponse(e)
  <2> DEFINE n == [s EXCEPT !.requests = @ - 1]
  <2>1. s.requests > 0
    BY <1>6 DEF HttpResponse
  <2>2. n \in SideRec /\ SideGood(n) /\ n.at = s.at
    BY <1>2, <2>1 DEF SideRec, SideGood
  <2>. QED BY <1>6, <2>2, BecomesKeeps, UnchangedGrows, Zenon DEF HttpResponse
<1>7. CASE Select(e)
  <2>1. PICK received \in BOOLEAN :
            /\ received => s.run = "returned"
            /\ Becomes(e, [s EXCEPT !.at = "shutdown", !.received = received,
                                    !.shut = TRUE, !.listening = FALSE])
    BY <1>7, Zenon DEF Select
  <2> DEFINE n == [s EXCEPT !.at = "shutdown", !.received = received, !.shut = TRUE,
                            !.listening = FALSE]
  <2>2. s.at = "selecting" /\ Grows
    BY <1>7, ContextNames, CancelGrows DEF Select, Sides
  <2>3. n \in SideRec /\ SideGood(n) /\ n.at = "shutdown"
    BY <1>2, <2>1, Zenon DEF SideRec, SideGood
  <2>. QED BY <2>1, <2>2, <2>3, BecomesKeeps, Zenon
<1>8. CASE Shutdown(e)
  <2>1. PICK closed \in BOOLEAN :
            /\ ~closed => s.requests = 0
            /\ Becomes(e, [s EXCEPT !.at = "awaiting", !.closed = closed])
    BY <1>8, Zenon DEF Shutdown
  <2> DEFINE n == [s EXCEPT !.at = "awaiting", !.closed = closed]
  <2>2. s.at = "shutdown"
    BY <1>8 DEF Shutdown
  <2>3. /\ n \in SideRec /\ n.at = "awaiting" /\ n.closed = closed /\ n.shut = s.shut
        /\ n.listening = s.listening /\ n.received = s.received /\ n.run = s.run
        /\ n.requests = s.requests
    BY <1>2, Zenon DEF SideRec
  <2>4. SideGood(n)
    BY <1>2, <2>1, <2>2, <2>3 DEF SideGood, SideRec
  <2> HIDE DEF n
  <2>. QED BY <1>8, <2>1, <2>2, <2>3, <2>4, BecomesKeeps, UnchangedGrows, Zenon DEF Shutdown, n
<1>9. CASE ServeEnds(e)
  <2> DEFINE n == [s EXCEPT !.at = "done"]
  <2>1. /\ s.at = "awaiting" /\ (~s.received => s.run = "returned")
        /\ side' = [side EXCEPT ![e] = n]
        /\ results' = results \cup {e} /\ UNCHANGED <<cancelled, gateway>>
    BY <1>9 DEF ServeEnds
  <2>2. n \in SideRec /\ SideGood(n) /\ n.at = "done"
    BY <1>2, <2>1 DEF SideRec, SideGood
  <2>3. /\ side' \in [Sides -> SideRec] /\ side'[e] = n
        /\ \A f \in Sides \ {e} : side'[f] = side[f]
    BY <2>1, <2>2 DEF GatewayInv
  <2>4. \A f \in Sides : SideGood(side[f])' /\ (f \in results' => side'[f].at = "done")
    BY <2>1, <2>2, <2>3 DEF GatewayInv, SideGood
  <2>5. ~Collected(e) /\ \A f \in Sides : Collected(f)' <=> Collected(f)
    BY <2>1, <2>2, <2>3 DEF Collected
  <2>. QED BY <2>1, <2>3, <2>4, <2>5, UnchangedGrows DEF GatewayInv
<1>10. CASE Collect(e)
  <2>1. /\ e \in results /\ results' = results \ {e} /\ side' = side
        /\ \/ gateway = "first" /\ gateway' = "second" /\ Cancel("gateway")
           \/ gateway # "first" /\ gateway' = "returned" /\ UNCHANGED cancelled
    BY <1>10 DEF Collect
  <2>2. Grows
    BY <2>1, ContextNames, CancelGrows, UnchangedGrows
  <2>3. /\ Collected(e)' /\ ~Collected(e)
        /\ \A f \in Sides \ {e} : Collected(f)' <=> Collected(f)
    BY <1>2, <2>1 DEF Collected
  <2>4. \A f \in Sides : SideGood(side[f])' /\ (f \in results' => side'[f].at = "done")
    BY <2>1 DEF GatewayInv, SideGood
  <2>5. gateway # "first" => \A f \in Sides : Collected(f)'
    BY <2>3 DEF GatewayInv, Sides
  <2>. QED BY <2>1, <2>2, <2>3, <2>4, <2>5 DEF GatewayInv
<1>. QED BY <1>1, <1>3, <1>4, <1>5, <1>6, <1>7, <1>8, <1>9, <1>10

-----------------------------------------------------------------------------
(* The listeners of DNS.                                                   *)

\* A server is replaced by another that is in order; serve stays where it is.
LEMMA ServerKeeps ==
    ASSUME DnsInv, NEW i \in Servers, NEW s \in ServerRec, Server(i, s), UNCHANGED dns,
           s.queries > 0 => s.run \in {"serving", "draining"},
           server[i].run # "none", Finished(server[i]) => Finished(s)
    PROVE  DnsInv'
<1>1. /\ server' \in [Servers -> ServerRec] /\ server'[i] = s
      /\ \A j \in Servers \ {i} : server'[j] = server[j]
  BY DEF DnsInv, Server
<1>2. \A j \in Servers : /\ server'[j].queries > 0 => server'[j].run \in {"serving", "draining"}
                         /\ server[j].run = "none" => server'[j].run = "none"
                         /\ Finished(server[j]) => Finished(server[j])'
  BY <1>1 DEF DnsInv, Finished
<1>. QED BY <1>1, <1>2 DEF DnsInv, Servers

\* What serve notes about a server does not change what it does.
LEMMA NotedKeeps ==
    ASSUME DnsInv, NEW i \in Servers,
           \/ Server(i, [server[i] EXCEPT !.taken = TRUE])
           \/ Server(i, [server[i] EXCEPT !.started = FALSE])
    PROVE  /\ server' \in [Servers -> ServerRec]
           /\ \A j \in Servers : /\ server'[j].queries = server[j].queries
                                 /\ server'[j].run = server[j].run
<1>1. server \in [Servers -> ServerRec] /\ server[i] \in ServerRec
  BY DEF DnsInv
<1>2. PICK s : /\ Server(i, s)
               /\ s \in {[server[i] EXCEPT !.taken = TRUE], [server[i] EXCEPT !.started = FALSE]}
  OBVIOUS
<1>3. s \in ServerRec /\ s.queries = server[i].queries /\ s.run = server[i].run
  BY <1>1, <1>2, Zenon DEF ServerRec
<1>. QED BY <1>1, <1>2, <1>3 DEF Server

\* A step of the listeners; when serve has returned it stays so.
LEMMA DnsKeeps ==
    ASSUME DnsInv, cancelled \subseteq Context, DnsListenersNext
    PROVE  DnsInv' /\ Grows /\ (dns.at = "returned" => dns'.at = "returned")
<1>1. ASSUME NEW i \in Servers,
             Activate(i) \/ Send(i) \/ CloseResult(i) \/ LeaveLoop(i) \/ Query(i) \/ Reply(i)
      PROVE  DnsInv' /\ UNCHANGED <<cancelled, dns>>
  <2> DEFINE s == server[i]
  <2>1. s \in ServerRec /\ (s.queries > 0 => s.run \in {"serving", "draining"})
    BY DEF DnsInv
  <2>2. CASE Activate(i)
    <3>1. PICK up \in BOOLEAN :
              Server(i, [s EXCEPT !.run = IF up THEN "serving" ELSE "sent", !.started = up])
      BY <2>2, Zenon DEF Activate
    <3> DEFINE n == [s EXCEPT !.run = IF up THEN "serving" ELSE "sent", !.started = up]
    <3>2. s.run = "launched" /\ UNCHANGED <<cancelled, dns>>
      BY <2>2 DEF Activate
    <3>3. n \in ServerRec /\ (n.queries > 0 => n.run \in {"serving", "draining"})
      BY <2>1, <3>2, Zenon DEF ServerRec
    <3>. QED BY <3>1, <3>2, <3>3, ServerKeeps, Zenon DEF Finished
  <2>3. CASE Send(i) \/ CloseResult(i) \/ LeaveLoop(i)
    <3> DEFINE to == IF s.run = "serving" THEN "draining" ELSE IF s.run = "sent" THEN "closed" ELSE "sent"
               n == [s EXCEPT !.run = to]
    <3>1. /\ s.run \in {"serving", "draining", "sent"} /\ UNCHANGED <<cancelled, dns>> /\ Server(i, n)
          /\ s.run = "draining" => s.queries = 0
      BY <2>3 DEF Send, CloseResult, LeaveLoop
    <3>2. n \in ServerRec /\ (n.queries > 0 => n.run \in {"serving", "draining"})
      BY <2>1, <3>1 DEF ServerRec
    <3>3. Finished(s) => Finished(n)
      BY <2>1, <3>1 DEF ServerRec, Finished
    <3>. QED BY <3>1, <3>2, <3>3, ServerKeeps, Zenon
  <2>4. CASE Query(i) \/ Reply(i)
    <3>1. PICK q \in Nat : Server(i, [s EXCEPT !.queries = q])
      BY <2>1, <2>4 DEF Query, Reply, ServerRec
    <3> DEFINE n == [s EXCEPT !.queries = q]
    <3>2. s.run \in {"serving", "draining"} /\ UNCHANGED <<cancelled, dns>>
      BY <2>1, <2>4 DEF Query, Reply
    <3>3. n \in ServerRec /\ n.run = s.run
      BY <2>1, <3>1 DEF ServerRec
    <3>. QED BY <3>1, <3>2, <3>3, ServerKeeps, Zenon DEF Finished
  <2>. QED BY <1>1, <2>2, <2>3, <2>4
<1>2. /\ dns \in [at: {"launch", "ready", "waiting", "shutdown", "await", "returned"}, i: Servers]
      /\ server \in [Servers -> ServerRec]
  BY DEF DnsInv
<1>3. CASE Launch
  <2> DEFINE n == [server[dns.i] EXCEPT !.run = "launched"]
  <2>1. /\ dns.at = "launch" /\ dns' = [dns EXCEPT !.at = "ready"] /\ UNCHANGED cancelled
        /\ server' = [server EXCEPT ![dns.i] = n] /\ dns.i \in Servers
    BY <1>2, <1>3 DEF Launch, Server
  <2>2. n \in ServerRec /\ n.queries = server[dns.i].queries
    BY <1>2, <2>1 DEF ServerRec
  <2>3. server[dns.i].run = "none" /\ n.queries \in Nat /\ ~(n.queries > 0)
    BY <2>1, <2>2 DEF DnsInv, ServerRec, Servers
  <2>4. /\ server' \in [Servers -> ServerRec] /\ server'[dns.i] = n
        /\ \A j \in Servers : j # dns.i => server'[j] = server[j]
    BY <1>2, <2>1, <2>2
  <2>5. /\ dns' \in [at: {"launch", "ready", "waiting", "shutdown", "await", "returned"}, i: Servers]
        /\ dns'.at = "ready" /\ dns'.i = dns.i
    BY <1>2, <2>1
  <2>6. \A j \in Servers : j > dns.i => server'[j].run = "none"
    BY <2>1, <2>4 DEF DnsInv, Servers
  <2>7. \A j \in Servers : server'[j].queries > 0 => server'[j].run \in {"serving", "draining"}
    BY <2>3, <2>4, Zenon DEF DnsInv
  <2>. QED BY <2>1, <2>4, <2>5, <2>6, <2>7, UnchangedGrows DEF DnsInv
<1>4. CASE Ready
  <2>1. dns.at = "ready" /\ dns' = After(dns.i) /\ UNCHANGED <<cancelled, server>> /\ dns.i \in Servers
    BY <1>2, <1>4 DEF Ready
  <2>2. /\ dns' \in [at: {"launch", "ready", "waiting", "shutdown", "await", "returned"}, i: Servers]
        /\ dns'.at = "waiting" \/ (dns'.at = "launch" /\ dns'.i = dns.i + 1)
    BY <2>1 DEF After, Servers
  <2>. QED BY <2>1, <2>2, UnchangedGrows DEF DnsInv, Servers
<1>5. CASE ContextDone \/ \E i \in Servers : ServerFailed(i)
  <2>1. Grows /\ dns' = [at |-> "shutdown", i |-> 1] /\ dns.at # "returned"
    BY <1>5, ContextNames, CancelGrows, Zenon DEF ContextDone, ServerFailed, Unwind
  <2>2. /\ server' \in [Servers -> ServerRec]
        /\ \A j \in Servers : server'[j].queries = server[j].queries /\ server'[j].run = server[j].run
    <3>1. CASE ContextDone
      BY <1>2, <3>1 DEF ContextDone
    <3>2. CASE \E i \in Servers : ServerFailed(i)
      BY <3>2, NotedKeeps, Zenon DEF ServerFailed
    <3>. QED BY <1>5, <3>1, <3>2
  <2>. QED BY <2>1, <2>2 DEF DnsInv, Servers
<1>6. CASE ShutdownContext \/ Await
  <2>1. dns.i \in Servers /\ UNCHANGED cancelled /\ dns.at # "returned"
    BY <1>2, <1>6 DEF ShutdownContext, Await
  <2>2. /\ server' \in [Servers -> ServerRec]
        /\ \A j \in Servers : server'[j].queries = server[j].queries /\ server'[j].run = server[j].run
    BY <1>6, <2>1, NotedKeeps DEF ShutdownContext, Await
  <2>3. \A j \in Servers : Finished(server[j])' <=> Finished(server[j])
    BY <2>2 DEF Finished
  <2>4. CASE ShutdownContext
    <3>1. dns.at = "shutdown" /\ dns' = [dns EXCEPT !.at = "await"]
      BY <2>4 DEF ShutdownContext
    <3>2. /\ dns' \in [at: {"launch", "ready", "waiting", "shutdown", "await", "returned"}, i: Servers]
          /\ dns'.at = "await" /\ dns'.i = dns.i
      BY <1>2, <3>1
    <3>. QED BY <2>1, <2>2, <2>3, <3>1, <3>2, UnchangedGrows DEF DnsInv, Servers
  <2>5. CASE Await
    <3>1. /\ dns.at = "await" /\ Finished(server[dns.i])
          /\ dns' = IF dns.i = 1 /\ server[2].run # "none" THEN [at |-> "shutdown", i |-> 2]
                    ELSE [dns EXCEPT !.at = "returned"]
      BY <2>5 DEF Await, Receivable, Finished
    <3>2. /\ dns' \in [at: {"launch", "ready", "waiting", "shutdown", "await", "returned"}, i: Servers]
          /\ \/ dns'.at = "shutdown" /\ dns'.i = 2 /\ Finished(server[1])
             \/ dns'.at = "returned" /\ \A j \in Servers : server[j].run = "none" \/ Finished(server[j])
      <4>1. CASE dns.i = 1 /\ server[2].run # "none"
        BY <3>1, <4>1 DEF Servers
      <4>2. CASE dns.i = 1 /\ server[2].run = "none"
        BY <1>2, <3>1, <4>2 DEF Servers
      <4>3. CASE dns.i = 2
        <5>1. Finished(server[1])
          BY <3>1, <4>3 DEF DnsInv
        <5>. QED BY <1>2, <3>1, <4>3, <5>1 DEF Servers
      <4>. QED BY <2>1, <4>1, <4>2, <4>3 DEF Servers
    <3>. QED BY <2>1, <2>2, <2>3, <3>2, UnchangedGrows DEF DnsInv, Servers
  <2>. QED BY <1>6, <2>4, <2>5
<1>. QED BY <1>1, <1>3, <1>4, <1>5, <1>6, UnchangedGrows DEF DnsListenersNext, DnsProgress

-----------------------------------------------------------------------------
(* NTP, and DHCP.                                                          *)

\* A step of the server; when Serve has returned it stays so.
LEMMA PacketKeeps ==
    ASSUME PacketInv, cancelled \subseteq Context, PacketNext
    PROVE  PacketInv' /\ Grows /\ (packet = "returned" => packet' = "returned")
<1>1. Grows
  BY UnchangedGrows DEF PacketNext, PacketProgress, PacketCloser, PacketStep, Receive, ReceiveFails,
     Check, Handle, PacketReturns
<1>2. CASE PacketCloser
  BY <1>1, <1>2 DEF PacketInv, PacketClosed, PacketCloser
<1>3. CASE PacketReturns
  BY <1>1, <1>3 DEF PacketInv, PacketClosed, PacketReturns
<1>4. ASSUME NEW from, NEW to, PacketStep(from, to), from # "returned", to # "returned"
      PROVE  PacketInv' /\ (packet = "returned" => packet' = "returned")
  BY <1>4 DEF PacketInv, PacketClosed, PacketStep
<1>. QED BY <1>1, <1>2, <1>3, <1>4 DEF PacketNext, PacketProgress, Receive, ReceiveFails, Check, Handle

-----------------------------------------------------------------------------
(* NFS.                                                                    *)

\* The files of the session: bounded, and no read-only share is changed.
FilesGood == IsFiniteSet(files) /\ Cardinality(files) <= maxFiles /\ ReadOnlyKept

\* No operation opens too many files or changes a read-only share.
LEMMA ExecuteKeeps == ASSUME FilesGood, execute PROVE FilesGood'
<1>1. /\ IsFiniteSet(files) /\ Cardinality(files) \in Nat /\ Cardinality(files) <= maxFiles
      /\ changed = {} /\ maxFiles \in Nat
  BY SessionAssumption, FS_CardinalityType DEF FilesGood, ReadOnlyKept
<1>2. ASSUME NEW f, files' = files \ {f} PROVE IsFiniteSet(files') /\ Cardinality(files') <= maxFiles
  <2>1. IsFiniteSet(files') /\ Cardinality(files') \in Nat /\ Cardinality(files') <= Cardinality(files)
    BY <1>1, <1>2, FS_Subset, FS_CardinalityType
  <2>. QED BY <1>1, <2>1
<1>3. ASSUME NEW write \in BOOLEAN, NEW create \in BOOLEAN, NEW size \in BOOLEAN, NEW stale \in BOOLEAN,
             Open(write, create, size, stale)
      PROVE  FilesGood'
  <2>1. PICK f \in OpenFiles \ files : files' = files \cup {f}
    BY <1>3 DEF Open
  <2>2. IsFiniteSet(files') /\ Cardinality(files') = Cardinality(files) + 1
    BY <1>1, <2>1, FS_AddElement
  <2>3. Cardinality(files) < maxFiles
    BY <1>3 DEF Open, Opened
  <2>4. changed' = {}
    BY <1>1, <1>3 DEF Open, openable, Change
  <2>. QED BY <1>1, <2>2, <2>3, <2>4 DEF FilesGood, ReadOnlyKept
<1>4. ASSUME NEW f \in OpenFiles, Close(f) PROVE FilesGood'
  BY <1>1, <1>2, <1>4 DEF Close, FilesGood, ReadOnlyKept
<1>5. ASSUME UNCHANGED files, changed' = {} PROVE FilesGood'
  BY <1>1, <1>5 DEF FilesGood, ReadOnlyKept
<1>6. ASSUME NEW h, PutHandle(h) PROVE FilesGood'
  BY <1>1, <1>5, <1>6 DEF PutHandle
<1>7. CASE Save \/ Restore
  BY <1>1, <1>5, <1>7 DEF Save, Restore
<1>8. ASSUME NEW stale \in BOOLEAN,
             (\E f \in OpenFiles : Write(f, stale)) \/ Modify(stale) \/ Rename(stale)
      PROVE  FilesGood'
  BY <1>1, <1>5, <1>8 DEF Write, Modify, Rename, Change, writable
<1>. QED BY <1>3, <1>4, <1>6, <1>7, <1>8 DEF execute

\* A goroutine begins or ends: the slots count them.
LEMMA SlotTaken ==
    ASSUME NfsInv, NEW c \in NfsConn, nfsWorker[c] = "none",
           nfsWorker' = [nfsWorker EXCEPT ![c] = "starting"]
    PROVE  Running' = Running \cup {c} /\ IsFiniteSet(Running') /\ Cardinality(Running') = slots + 1
<1>1. Running' = Running \cup {c} /\ c \notin Running
  BY DEF NfsInv, Running, Runs
<1>. QED BY <1>1, FS_AddElement DEF NfsInv

\* The same for the end of a goroutine.
LEMMA SlotReturned ==
    ASSUME NfsInv, NEW c \in NfsConn, Runs(c), nfsWorker' = [nfsWorker EXCEPT ![c] = "gone"]
    PROVE  Running' = Running \ {c} /\ IsFiniteSet(Running') /\ Cardinality(Running') = slots - 1
<1>1. Running' = Running \ {c} /\ c \in Running
  BY DEF NfsInv, Running, Runs
<1>. QED BY <1>1, FS_RemoveElement DEF NfsInv

\* A goroutine changes what it does, nothing else.
LEMMA RunningStays ==
    ASSUME NfsInv, NEW c \in NfsConn, Runs(c), NEW to \in {"reading", "replying"},
           nfsWorker' = [nfsWorker EXCEPT ![c] = to]
    PROVE  /\ Running' = Running
           /\ nfsWorker' \in [NfsConn -> {"none", "starting", "reading", "replying", "gone"}]
BY DEF NfsInv, Running, Runs

\* A step of NFS; when Serve has returned it stays so.
LEMMA NfsKeeps ==
    ASSUME NfsInv, cancelled \subseteq Context, NfsNext
    PROVE  NfsInv' /\ Grows /\ (nfs = "returned" => nfs' = "returned")
<1>1. /\ nfsWorker \in [NfsConn -> {"none", "starting", "reading", "replying", "gone"}]
      /\ Talker \in NfsConn /\ "listener" \notin NfsConn /\ "filesystem" \notin NfsConn /\ NfsSlots \in Nat
      /\ IsFiniteSet(Running) /\ slots = Cardinality(Running) /\ slots \in Nat /\ slots <= NfsSlots
  BY NfsAssumption, FS_CardinalityType DEF NfsInv
<1>2. FilesGood /\ (files # {} => Runs(Talker))
  BY DEF NfsInv, FilesGood
<1>3. ASSUME NEW c \in NfsConn, NfsAccept(c) PROVE NfsInv' /\ UNCHANGED <<cancelled, nfs>>
  <2>1. /\ nfs = "accepting" /\ nfsWorker[c] = "none" /\ UNCHANGED <<cancelled, nfs, files, changed>>
    BY <1>3 DEF NfsAccept, sessionVars
  <2>2. CASE slots < NfsSlots
    <3>1. /\ slots' = slots + 1 /\ nfsWorker' = [nfsWorker EXCEPT ![c] = "starting"]
          /\ nfsOpen' = nfsOpen \cup {c}
      BY <1>3, <2>2 DEF NfsAccept
    <3>2. Running' = Running \cup {c} /\ IsFiniteSet(Running') /\ slots' = Cardinality(Running')
      BY <2>1, <3>1, SlotTaken, Zenon
    <3>3. slots' <= NfsSlots
      BY <1>1, <2>2, <3>1
    <3>4. /\ nfsWorker' \in [NfsConn -> {"none", "starting", "reading", "replying", "gone"}]
          /\ Runs(Talker) => Runs(Talker)'
      BY <1>1, <2>1, <3>1 DEF Runs
    <3>. QED BY <2>1, <3>1, <3>2, <3>3, <3>4, Zenon DEF NfsInv, ReadOnlyKept
  <2>3. CASE ~(slots < NfsSlots)
    <3>1. slots' = slots /\ nfsWorker' = [nfsWorker EXCEPT ![c] = "gone"] /\ nfsOpen' = nfsOpen
      BY <1>3, <2>3 DEF NfsAccept
    <3>2. /\ Running' = Running /\ (Runs(Talker) => Runs(Talker)')
          /\ nfsWorker' \in [NfsConn -> {"none", "starting", "reading", "replying", "gone"}]
      BY <1>1, <2>1, <3>1 DEF Running, Runs
    <3>. QED BY <2>1, <3>1, <3>2 DEF NfsInv, ReadOnlyKept
  <2>. QED BY <2>1, <2>2, <2>3
<1>4. CASE NfsAcceptFails
  <2>1. Grows
    BY <1>4, ContextNames, CancelGrows DEF NfsAcceptFails
  <2>2. nfs = "accepting" /\ nfs' = "leaving" /\ UNCHANGED <<nfsOpen, slots, nfsWorker, files, changed>>
    BY <1>4 DEF NfsAcceptFails, sessionVars
  <2>. QED BY <2>1, <2>2 DEF NfsInv, Running, Runs, ReadOnlyKept
<1>5. ASSUME NEW c \in NfsConn, NfsRegister(c) PROVE NfsInv' /\ UNCHANGED <<cancelled, nfs>>
  <2>1. /\ UNCHANGED <<cancelled, nfs, nfsOpen, slots, files, changed>> /\ Runs(c)
        /\ nfsWorker' = [nfsWorker EXCEPT ![c] = "reading"]
    BY <1>5 DEF NfsRegister, sessionVars, Runs
  <2>2. Running' = Running /\ nfsWorker' \in [NfsConn -> {"none", "starting", "reading", "replying", "gone"}]
    BY <2>1, RunningStays, Zenon
  <2>3. Runs(Talker)' <=> Runs(Talker)
    BY <1>1, <2>2 DEF Running
  <2>. QED BY <2>1, <2>2, <2>3 DEF NfsInv, ReadOnlyKept
<1>6. ASSUME NEW x \in NfsConn \cup {"listener"}, AfterFunc(x) PROVE NfsInv' /\ UNCHANGED <<cancelled, nfs>>
  <2>1. /\ UNCHANGED <<cancelled, nfs, slots, nfsWorker, files, changed>>
        /\ nfsOpen' = nfsOpen \ {x} /\ x # "filesystem"
    BY <1>1, <1>6 DEF AfterFunc, sessionVars
  <2>. QED BY <2>1, Zenon DEF NfsInv, Running, Runs, ReadOnlyKept
<1>7. CASE NfsRequest \/ NfsReply
  <2>1. PICK to \in {"reading", "replying"} : nfsWorker' = [nfsWorker EXCEPT ![Talker] = to]
    BY <1>7 DEF NfsRequest, NfsReply
  <2>2. UNCHANGED <<cancelled, nfs, nfsOpen, slots, files, changed>> /\ Runs(Talker)
    BY <1>7 DEF NfsRequest, NfsReply, compound, sessionVars, Runs
  <2>3. Running' = Running /\ nfsWorker' \in [NfsConn -> {"none", "starting", "reading", "replying", "gone"}]
    BY <1>1, <2>1, <2>2, RunningStays, Zenon
  <2>4. Runs(Talker)' <=> Runs(Talker)
    BY <1>1, <2>3 DEF Running
  <2>5. NfsInv'
    BY <2>2, <2>3, <2>4 DEF NfsInv, ReadOnlyKept
  <2>. QED BY <2>2, <2>5, UnchangedGrows
<1>8. CASE NfsOperation
  <2>1. UNCHANGED <<cancelled, nfs, nfsOpen, slots, nfsWorker>> /\ Runs(Talker) /\ FilesGood'
    BY <1>2, <1>8, ExecuteKeeps DEF NfsOperation, nfsOwn, Runs
  <2>2. NfsInv'
    BY <2>1 DEF NfsInv, FilesGood, Running, Runs
  <2>. QED BY <2>1, <2>2, UnchangedGrows
<1>9. ASSUME NEW c \in NfsConn, NfsEnd(c) PROVE NfsInv' /\ UNCHANGED <<cancelled, nfs>>
  <2>1. /\ UNCHANGED <<cancelled, nfs, changed>> /\ Runs(c)
        /\ slots' = slots - 1 /\ nfsOpen' = nfsOpen \ {c}
        /\ nfsWorker' = [nfsWorker EXCEPT ![c] = "gone"]
        /\ files' = IF c = Talker THEN {} ELSE files
    BY <1>9 DEF NfsEnd, close, sessionVars, Runs
  <2>2. Running' = Running \ {c} /\ IsFiniteSet(Running') /\ slots' = Cardinality(Running')
    BY <2>1, SlotReturned, Zenon
  <2>3. slots' <= NfsSlots
    BY <1>1, <2>1
  <2>4. /\ nfsWorker' \in [NfsConn -> {"none", "starting", "reading", "replying", "gone"}]
        /\ c # Talker => (Runs(Talker)' <=> Runs(Talker))
    BY <1>1, <2>1 DEF Runs
  <2>5. IsFiniteSet(files') /\ Cardinality(files') <= maxFiles /\ (files' # {} => Runs(Talker)')
    <3>1. IsFiniteSet({}) /\ Cardinality({}) = 0 /\ 0 <= maxFiles
      BY FS_EmptySet, SessionAssumption
    <3>. QED BY <1>2, <2>1, <2>4, <3>1 DEF FilesGood
  <2>6. /\ nfsOpen' \subseteq {"listener", "filesystem"} \cup Running'
        /\ nfs # "returned" => "filesystem" \in nfsOpen'
    BY <1>1, <2>1, <2>2, Zenon DEF NfsInv
  <2>7. nfs # "returned"
    BY <2>1 DEF NfsInv, Running
  <2>. QED BY <2>1, <2>2, <2>3, <2>4, <2>5, <2>6, <2>7, Zenon DEF NfsInv, ReadOnlyKept
<1>10. CASE NfsReturns
  <2>1. /\ UNCHANGED <<cancelled, slots, nfsWorker, files, changed>> /\ nfs = "leaving" /\ nfs' = "returned"
        /\ nfsOpen' = nfsOpen \ {"filesystem", "listener"} /\ Running = {}
    BY <1>10 DEF NfsReturns, sessionVars, Running
  <2>2. nfsOpen' = {} /\ Running' = Running
    BY <2>1 DEF NfsInv, Running, Runs
  <2>3. NfsInv'
    BY <2>1, <2>2 DEF NfsInv, Runs, ReadOnlyKept
  <2>. QED BY <2>1, <2>3, UnchangedGrows
<1>. QED BY <1>3, <1>4, <1>5, <1>6, <1>7, <1>8, <1>9, <1>10, UnchangedGrows DEF NfsNext, NfsProgress

-----------------------------------------------------------------------------
(* The services together.                                                  *)

\* The other services rest.
LEMMA GatewayRests == ASSUME GatewayInv, UNCHANGED gatewayVars PROVE GatewayInv'
<1>1. UNCHANGED <<side, results, gateway>>
  BY DEF gatewayVars
<1>. QED BY <1>1, Zenon DEF GatewayInv, Collected, SideGood

\* The same of DNS.
LEMMA DnsRests == ASSUME DnsInv, UNCHANGED listenerVars PROVE DnsInv'
<1>1. UNCHANGED <<dns, server>>
  BY DEF listenerVars
<1>. QED BY <1>1, Zenon DEF DnsInv, Finished

\* The same of NFS.
LEMMA NfsRests == ASSUME NfsInv, UNCHANGED nfsVars PROVE NfsInv'
<1>1. UNCHANGED <<nfs, nfsOpen, slots, nfsWorker, files, changed>>
  BY DEF nfsVars, nfsOwn, sessionVars
<1>. QED BY <1>1, Zenon DEF NfsInv, Running, Runs, ReadOnlyKept

\* The same of NTP.
LEMMA PacketRests == ASSUME PacketInv, UNCHANGED packetVars PROVE PacketInv'
BY DEF packetVars, PacketInv, PacketClosed

\* The invariants of the services.
EachInv == LdapInv /\ GatewayInv /\ DnsInv /\ NfsInv /\ PacketInv /\ TftpInv

\* A step of the service in focus: the others rest.
FocusStep == Focus(LdapNext, GatewayNext, DnsListenersNext, NfsNext, PacketNext, TftpNext)

\* Every service stays in order, and one that has returned stays so.
LEMMA FocusKeeps ==
    ASSUME EachInv, cancelled \subseteq Context, FocusStep
    PROVE  EachInv' /\ cancelled' \subseteq Context /\ (HasReturned => HasReturned')
<1>1. UNCHANGED <<focus, running, outcomes, main>>
  BY Zenon DEF FocusStep, Focus, Alone, supervisorVars
<1> USE DEF EachInv
<1>2. CASE focus = "ldap" /\ LdapNext
               /\ UNCHANGED <<gatewayVars, listenerVars, nfsVars, packetVars, tftpVars>>
  <2>1. LdapInv' /\ Grows /\ (ldap = "returned" => ldap' = "returned")
    BY <1>2, LdapKeeps
  <2>2. GatewayInv' /\ DnsInv' /\ NfsInv' /\ PacketInv' /\ TftpInv'
    BY <1>2, GatewayRests, DnsRests, NfsRests, PacketRests, TftpRests
  <2>. QED BY <1>1, <1>2, <2>1, <2>2 DEF HasReturned, Grows
<1>3. CASE focus = "gateway" /\ GatewayNext
               /\ UNCHANGED <<ldapVars, listenerVars, nfsVars, packetVars, tftpVars>>
  <2>1. GatewayInv' /\ Grows /\ (gateway = "returned" => gateway' = "returned")
    BY <1>3, GatewayKeeps
  <2>2. LdapInv' /\ DnsInv' /\ NfsInv' /\ PacketInv' /\ TftpInv'
    BY <1>3, <2>1, LdapRests, DnsRests, NfsRests, PacketRests, TftpRests
  <2>. QED BY <1>1, <1>3, <2>1, <2>2 DEF HasReturned, Grows
<1>4. CASE focus = "dns" /\ DnsListenersNext
               /\ UNCHANGED <<ldapVars, gatewayVars, nfsVars, packetVars, tftpVars>>
  <2>1. DnsInv' /\ Grows /\ (dns.at = "returned" => dns'.at = "returned")
    BY <1>4, DnsKeeps
  <2>2. LdapInv' /\ GatewayInv' /\ NfsInv' /\ PacketInv' /\ TftpInv'
    BY <1>4, <2>1, LdapRests, GatewayRests, NfsRests, PacketRests, TftpRests
  <2>. QED BY <1>1, <1>4, <2>1, <2>2 DEF HasReturned, Grows
<1>5. CASE focus = "nfs" /\ NfsNext
               /\ UNCHANGED <<ldapVars, gatewayVars, listenerVars, packetVars, tftpVars>>
  <2>1. NfsInv' /\ Grows /\ (nfs = "returned" => nfs' = "returned")
    BY <1>5, NfsKeeps
  <2>2. LdapInv' /\ GatewayInv' /\ DnsInv' /\ PacketInv' /\ TftpInv'
    BY <1>5, <2>1, LdapRests, GatewayRests, DnsRests, PacketRests, TftpRests
  <2>. QED BY <1>1, <1>5, <2>1, <2>2 DEF HasReturned, Grows
<1>6. CASE focus = "ntp" /\ PacketNext
               /\ UNCHANGED <<ldapVars, gatewayVars, listenerVars, nfsVars, tftpVars>>
  <2>1. PacketInv' /\ Grows /\ (packet = "returned" => packet' = "returned")
    BY <1>6, PacketKeeps
  <2>2. LdapInv' /\ GatewayInv' /\ DnsInv' /\ NfsInv' /\ TftpInv'
    BY <1>6, <2>1, LdapRests, GatewayRests, DnsRests, NfsRests, TftpRests
  <2>. QED BY <1>1, <1>6, <2>1, <2>2 DEF HasReturned, Grows
<1>7. CASE focus = "tftp" /\ TftpNext
               /\ UNCHANGED <<ldapVars, gatewayVars, listenerVars, nfsVars, packetVars>>
  <2>1. TftpInv' /\ Grows /\ (serving = "returned" => serving' = "returned")
    BY <1>7, TftpKeeps
  <2>2. LdapInv' /\ GatewayInv' /\ DnsInv' /\ NfsInv' /\ PacketInv'
    BY <1>7, <2>1, LdapRests, GatewayRests, DnsRests, NfsRests, PacketRests
  <2>. QED BY <1>1, <1>7, <2>1, <2>2 DEF HasReturned, Grows
<1>. QED BY <1>2, <1>3, <1>4, <1>5, <1>6, <1>7, Zenon DEF FocusStep, Focus, Alone

\* All of them rest while the supervisor takes a step.
LEMMA MachinesRest ==
    ASSUME EachInv, Grows, UNCHANGED machines
    PROVE  EachInv' /\ (HasReturned <=> HasReturned')
<1>1. UNCHANGED <<focus, ldapVars, gatewayVars, listenerVars, nfsVars, packetVars, tftpVars>>
  BY DEF machines
<1>2. EachInv'
  BY <1>1, LdapRests, GatewayRests, DnsRests, NfsRests, PacketRests, TftpRests DEF EachInv
<1>3. UNCHANGED <<focus, ldap, gateway, dns, nfs, packet, serving>>
  BY <1>1 DEF ldapVars, life, gatewayVars, listenerVars, nfsVars, nfsOwn, packetVars, tftpVars, tables
<1>. QED BY <1>2, <1>3 DEF HasReturned

\* The counts of the supervisor.
LEMMA ServicesFinite ==
    ASSUME ServicesInv
    PROVE  /\ IsFiniteSet(Services) /\ IsFiniteSet(running) /\ IsFiniteSet(outcomes)
           /\ Cardinality(Services) \in Nat /\ Cardinality(running) \in Nat /\ Cardinality(outcomes) \in Nat
<1>1. IsFiniteSet(Services)
  <2>1. IsFiniteSet({focus})
    BY FS_Singleton
  <2>. QED BY <2>1, ServicesAssumption, FS_Union, Zenon DEF Services
<1>2. IsFiniteSet(running) /\ IsFiniteSet(outcomes)
  BY <1>1, FS_Subset DEF ServicesInv
<1>. QED BY <1>1, <1>2, FS_CardinalityType

\* A service returns: its outcome is in the channel.
LEMMA RunReturnsKeeps ==
    ASSUME IInv, NEW s \in Services, RunReturns(s) PROVE IInv'
<1>1. /\ s \in running /\ (s = focus => HasReturned) /\ running' = running \ {s}
      /\ outcomes' = outcomes \cup {s} /\ UNCHANGED <<cancelled, main, machines>>
  BY DEF RunReturns
<1>2. EachInv' /\ (HasReturned <=> HasReturned') /\ cancelled' \subseteq Context /\ focus' = focus
  BY <1>1, UnchangedGrows, MachinesRest, Zenon DEF IInv, EachInv, machines, Grows
<1>3. ServicesInv
  BY DEF IInv
<1>4. /\ s \notin outcomes /\ Cardinality(outcomes') = Cardinality(outcomes) + 1
      /\ Cardinality(running') = Cardinality(running) - 1
  BY <1>1, <1>3, ServicesFinite, FS_AddElement, FS_RemoveElement, Zenon DEF ServicesInv
<1>5. main' + Cardinality(running') + Cardinality(outcomes') = Cardinality(Services)'
  <2>1. Services' = Services
    BY <1>2 DEF Services
  <2>. QED BY <1>1, <1>3, <1>4, <2>1, ServicesFinite DEF ServicesInv
<1>6. /\ running' \subseteq Services' /\ outcomes' \subseteq Services' /\ running' \cap outcomes' = {}
      /\ (focus' \notin running' => HasReturned')
  BY <1>1, <1>2, <1>3 DEF ServicesInv, Services
<1>7. ServicesInv'
  BY <1>1, <1>2, <1>3, <1>5, <1>6 DEF ServicesInv
<1>. QED BY <1>2, <1>7 DEF IInv, EachInv

\* serve receives an outcome, and cancels.
LEMMA CollectOutcomeKeeps ==
    ASSUME IInv, NEW s \in Services, CollectOutcome(s) PROVE IInv'
<1>1. /\ s \in outcomes /\ outcomes' = outcomes \ {s} /\ main' = main + 1 /\ Cancel("main")
      /\ UNCHANGED <<running, machines>>
  BY DEF CollectOutcome
<1>2. Grows
  BY <1>1, ContextNames, CancelGrows DEF IInv
<1>3. EachInv' /\ (HasReturned <=> HasReturned') /\ cancelled' \subseteq Context /\ focus' = focus
  BY <1>1, <1>2, MachinesRest DEF IInv, EachInv, machines, Grows
<1>4. ServicesInv
  BY DEF IInv
<1>5. Cardinality(outcomes') = Cardinality(outcomes) - 1
  BY <1>1, <1>4, ServicesFinite, FS_RemoveElement, Zenon
<1>6. main' + Cardinality(running') + Cardinality(outcomes') = Cardinality(Services)'
  <2>1. Services' = Services
    BY <1>3 DEF Services
  <2>. QED BY <1>1, <1>4, <1>5, <2>1, ServicesFinite DEF ServicesInv
<1>7. /\ running' \subseteq Services' /\ outcomes' \subseteq Services' /\ running' \cap outcomes' = {}
      /\ main' \in Nat /\ (focus' \notin running' => HasReturned')
  BY <1>1, <1>3, <1>4 DEF ServicesInv, Services
<1>8. ServicesInv'
  BY <1>3, <1>4, <1>6, <1>7 DEF ServicesInv
<1>. QED BY <1>3, <1>8 DEF IInv, EachInv

\* The supervisor's own variables rest.
LEMMA ServicesRest ==
    ASSUME ServicesInv, UNCHANGED <<focus, supervisorVars>>, HasReturned => HasReturned'
    PROVE  ServicesInv'
<1>1. UNCHANGED <<focus, running, outcomes, main>> /\ Services' = Services
  BY DEF supervisorVars, Services
<1>. QED BY <1>1 DEF ServicesInv

\* No step leaves the invariant.
LEMMA NextKeeps == ASSUME IInv, [SupervisorNext]_vars PROVE IInv'
<1>1. ASSUME NEW s \in Services, RunReturns(s) \/ CollectOutcome(s) PROVE IInv'
  BY <1>1, RunReturnsKeeps, CollectOutcomeKeeps
<1>2. CASE Signal
  <2>1. Grows /\ UNCHANGED <<supervisorVars, machines>>
    BY <1>2, ContextNames, CancelGrows DEF Signal, IInv
  <2>2. EachInv' /\ (HasReturned <=> HasReturned') /\ focus' = focus
    BY <2>1, MachinesRest DEF IInv, EachInv, machines
  <2>3. ServicesInv'
    BY <2>1, <2>2, ServicesRest DEF IInv
  <2>. QED BY <2>1, <2>2, <2>3 DEF IInv, EachInv, Grows
<1>3. CASE FocusStep
  <2>1. EachInv' /\ cancelled' \subseteq Context /\ (HasReturned => HasReturned')
    BY <1>3, FocusKeeps DEF IInv, EachInv
  <2>2. UNCHANGED <<focus, supervisorVars>>
    BY <1>3 DEF FocusStep, Focus, Alone
  <2>3. ServicesInv'
    BY <2>1, <2>2, ServicesRest DEF IInv
  <2>. QED BY <2>1, <2>3 DEF IInv, EachInv
<1>4. CASE UNCHANGED vars
  <2>1. UNCHANGED <<cancelled, supervisorVars, machines>>
    BY <1>4 DEF vars, machines
  <2>2. Grows
    BY <2>1, UnchangedGrows DEF IInv
  <2>3. EachInv' /\ (HasReturned <=> HasReturned') /\ focus' = focus
    BY <2>1, <2>2, MachinesRest DEF IInv, EachInv, machines
  <2>4. ServicesInv'
    BY <2>1, <2>3, ServicesRest DEF IInv
  <2>. QED BY <2>2, <2>3, <2>4 DEF IInv, EachInv, Grows
<1>. QED BY <1>1, <1>2, <1>3, <1>4 DEF SupervisorNext, FocusStep

\* The invariant holds when the services are started.
LEMMA InitHolds == ASSUME SupervisorInit PROVE IInv
<1>1. cancelled \subseteq Context
  BY DEF SupervisorInit
<1>2. LdapInv
  <2>1. /\ ldap = "serving" /\ closer = "waiting" /\ listening = Endpoints
        /\ acceptor = [e \in Endpoints |-> "accepting"] /\ conn = [c \in Conn |-> Closed("none")]
        /\ connections = {} /\ bindSlots = 0 /\ entitled = {}
    BY DEF SupervisorInit, LdapInit
  <2>2. /\ Closed("none") \in ConnRec /\ Closed("none").at = "none" /\ ~Closed("none").open
        /\ ~Closed("none").canSearch
    BY DEF Closed, ConnRec
  <2> DEFINE r == Closed("none")
  <2>3. /\ conn \in [Conn -> ConnRec] /\ \A c \in Conn : conn[c] = r
    BY <2>1, <2>2
  <2>4. IsFiniteSet({}) /\ Cardinality({}) = 0
    BY FS_EmptySet
  <2>5. LdapTypes
    BY <2>1, <2>3, <2>4 DEF LdapTypes
  <2>6. \A e \in Endpoints : acceptor[e] \notin Conn
    BY <2>1, LdapAssumption
  <2>7. (\A c \in Conn : ConnGood(c)) /\ RightsFromLastBind
    BY <2>2, <2>3, Zenon DEF ConnGood, RightsFromLastBind
  <2>8. {c \in Conn : Working(c)} = {} /\ {c \in Conn : conn[c].at = "hashing"} = {}
    BY <2>2, <2>3 DEF Working
  <2>9. LdapLimits
    BY <2>1, <2>4, <2>8, LdapAssumption DEF LdapLimits
  <2>10. CloserGood
    BY <2>1 DEF CloserGood
  <2>. QED BY <2>5, <2>6, <2>7, <2>9, <2>10 DEF LdapInv
<1>3. GatewayInv
  <2> DEFINE s == [at |-> "selecting", run |-> "launched", received |-> FALSE, shut |-> FALSE,
                   closed |-> FALSE, listening |-> TRUE, requests |-> 0]
  <2>1. side = [e \in Sides |-> s] /\ results = {} /\ gateway = "first"
    BY Zenon DEF SupervisorInit, GatewayInit
  <2>2. s \in SideRec /\ SideGood(s) /\ s.at = "selecting"
    BY Zenon DEF SideRec, SideGood
  <2> HIDE DEF s
  <2>3. side \in [Sides -> SideRec] /\ \A e \in Sides : side[e] = s
    BY <2>1, <2>2
  <2>. QED BY <2>1, <2>2, <2>3 DEF GatewayInv, Collected
<1>4. DnsInv
  <2> DEFINE s == [run |-> "none", started |-> FALSE, taken |-> FALSE, queries |-> 0]
  <2>1. dns = [at |-> "launch", i |-> 1] /\ server = [i \in Servers |-> s]
    BY Zenon DEF SupervisorInit, DnsListenersInit
  <2>2. s \in ServerRec /\ s.run = "none" /\ s.queries = 0
    BY DEF ServerRec
  <2>3. /\ dns \in [at: {"launch", "ready", "waiting", "shutdown", "await", "returned"}, i: Servers]
        /\ dns.at = "launch"
    BY <2>1 DEF Servers
  <2> HIDE DEF s
  <2>4. server \in [Servers -> ServerRec] /\ \A j \in Servers : server[j] = s
    BY <2>1, <2>2
  <2>. QED BY <2>2, <2>3, <2>4 DEF DnsInv
<1>5. NfsInv
  <2>1. /\ nfs = "accepting" /\ nfsOpen = {"listener", "filesystem"} /\ slots = 0
        /\ nfsWorker = [c \in NfsConn |-> "none"] /\ files = {} /\ changed = {}
    BY DEF SupervisorInit, NfsInit, newSession
  <2>2. Running = {}
    BY <2>1 DEF Running, Runs
  <2>3. IsFiniteSet({}) /\ Cardinality({}) = 0 /\ 0 <= NfsSlots /\ 0 <= maxFiles
    BY FS_EmptySet, NfsAssumption, SessionAssumption
  <2>. QED BY <2>1, <2>2, <2>3 DEF NfsInv, ReadOnlyKept
<1>6. PacketInv
  BY DEF SupervisorInit, PacketInit, PacketInv, PacketClosed
<1>7. TftpInv
  <2> DEFINE c == [tid |-> 0, got |-> <<>>]
  <2>1. /\ serving = "reading" /\ active = {} /\ clients = [a \in Address |-> 0]
        /\ worker = [p \in Peer |-> None] /\ tids = 0 /\ net = {}
        /\ client = [p \in Peer |-> c] /\ served = {}
    BY DEF SupervisorInit, TftpInit
  <2>2. c \in [tid: Nat, got: Seq(Nat)] /\ c.got = <<>> /\ Len(<<>>) = 0 /\ DOMAIN <<>> = {}
    <3>1. <<>> \in Seq(Nat) /\ Len(<<>>) = 0 /\ DOMAIN <<>> = {}
      OBVIOUS
    <3>. QED BY <3>1, Zenon
  <2> HIDE DEF c
  <2>3. client \in [Peer -> [tid: Nat, got: Seq(Nat)]] /\ \A p \in Peer : client[p] = c
    BY <2>1, <2>2, Zenon
  <2>4. IsFiniteSet({}) /\ Cardinality({}) = 0 /\ 0 <= maxTransfers /\ 0 <= maxClientTransfers /\ 0 <= Blocks
    BY FS_EmptySet, TftpAssumption
  <2>5. SlotsMatchWorkers
    <3>1. \A a \in Address : {p \in {} : ClientOf[p] = a} = {}
      OBVIOUS
    <3>. QED BY <2>1, <2>4, <3>1 DEF SlotsMatchWorkers
  <2>6. TftpTables
    BY <2>1, <2>4, <2>5 DEF TftpTables
  <2>7. FilesArrive /\ \A p \in Peer : Len(client[p].got) <= Blocks
    BY <2>1, <2>2, <2>3, <2>4, Zenon DEF FilesArrive
  <2>8. \A p \in Responds : ~Sending(p)
    BY <2>1, TftpAssumption, Zenon DEF Sending
  <2>. QED BY <2>1, <2>3, <2>6, <2>7, <2>8, Zenon DEF TftpInv
<1>8. ServicesInv
  <2>1. /\ focus \in Looked /\ running = Services /\ outcomes = {} /\ main = 0
    BY DEF SupervisorInit
  <2>2. IsFiniteSet(Services)
    <3>1. IsFiniteSet({focus})
      BY FS_Singleton, Zenon
    <3>. QED BY <3>1, ServicesAssumption, FS_Union, Zenon DEF Services
  <2>3. Cardinality(Services) \in Nat /\ Cardinality({}) = 0
    BY <2>2, FS_CardinalityType, FS_EmptySet
  <2>4. focus \in Services
    BY DEF Services
  <2>. QED BY <2>1, <2>3, <2>4 DEF ServicesInv
<1>. QED BY <1>1, <1>2, <1>3, <1>4, <1>5, <1>6, <1>7, <1>8 DEF IInv

\* The invariants of the services and of serve hold in every behaviour, for any
\* connections, slots, clients, blocks and shares, fair or not.
THEOREM ServicesInvariance == SupervisorSpec => []IInv
<1>1. SupervisorInit => IInv
  BY InitHolds
<1>2. IInv /\ [SupervisorNext]_vars => IInv'
  BY NextKeeps
<1>. QED BY <1>1, <1>2, PTL DEF SupervisorSpec

\* NothingLeft holds for all constants: a service that has returned has closed what
\* it had opened and stopped its goroutines, what it took on while it was told to
\* stop included, and serve counts the last error only when all have returned.
THEOREM NothingIsLeft == SupervisorSpec => []NothingLeft
<1>1. ASSUME IInv PROVE NothingLeft
  <2>1. ClosedBehind
    <3>1. LdapInv
      BY <1>1 DEF IInv
    <3>2. ASSUME ldap = "returned"
          PROVE  /\ listening = {} /\ connections = {} /\ bindSlots = 0
                 /\ \A c \in Conn : ~conn[c].open
      <4>1. closer = "swept" /\ ~Busy /\ listening = {}
        BY <3>1, <3>2, Zenon DEF LdapInv, CloserGood
      <4>2. \A c \in Conn : ~Working(c)
        BY <4>1 DEF Busy
      <4>3. connections = {} /\ {c \in Conn : conn[c].at = "hashing"} = {}
        BY <3>1, <4>2, Zenon DEF LdapInv, LdapLimits, Working
      <4>4. bindSlots = 0
        BY <3>1, <4>3, FS_EmptySet, Zenon DEF LdapInv, LdapLimits
      <4>5. ASSUME NEW c \in Conn PROVE ~conn[c].open
        <5>1. Endpoint[c] \in Endpoints
          BY LdapAssumption DEF Endpoints
        <5>2. acceptor[Endpoint[c]] = "ended" /\ "ended" \notin Conn
          BY <4>1, <5>1, LdapAssumption DEF Busy
        <5>3. conn[c].at # "accepted"
          BY <3>1, <5>2, Zenon DEF LdapInv, ConnGood
        <5>4. conn[c].at \in {"none", "gone"}
          BY <3>1, <4>2, <5>3 DEF LdapInv, LdapTypes, ConnRec, Working
        <5>. QED BY <3>1, <5>4, Zenon DEF LdapInv, ConnGood
      <4>. QED BY <4>1, <4>3, <4>4, <4>5, Zenon
    <3>. QED BY <3>1, <3>2, Zenon DEF ClosedBehind, LdapInv, CloserGood
  <2>2. GatewayClosed
    <3>1. GatewayInv
      BY <1>1 DEF IInv
    <3>2. ASSUME gateway = "returned", NEW e \in Sides
          PROVE  /\ ~side[e].listening /\ side[e].run = "returned"
                 /\ side[e].requests > 0 => side[e].closed
      BY <3>1, <3>2, Zenon DEF GatewayInv, SideGood, Collected
    <3>. QED BY <3>2, Zenon DEF GatewayClosed
  <2>3. DnsClosed
    <3>1. DnsInv
      BY <1>1 DEF IInv
    <3>2. ASSUME dns.at = "returned", NEW i \in Servers
          PROVE  server[i].run \in {"none", "sent", "closed"} /\ server[i].queries = 0
      <4>1. server[i].run \in {"none", "sent", "closed"} /\ server[i].queries \in Nat
        BY <3>1, <3>2 DEF DnsInv, Finished, ServerRec
      <4>2. ~(server[i].queries > 0)
        BY <3>1, <4>1 DEF DnsInv
      <4>. QED BY <4>1, <4>2
    <3>. QED BY <3>2, Zenon DEF DnsClosed
  <2>4. NfsClosed
    <3>1. NfsInv
      BY <1>1 DEF IInv
    <3>2. (\E c \in NfsConn : Runs(c)) => "filesystem" \in nfsOpen
      BY <3>1 DEF NfsInv, Running
    <3>3. Opened <= maxFiles /\ (Opened > 0 => Runs(Talker))
      BY <3>1, FS_EmptySet DEF NfsInv, Opened
    <3>. QED BY <3>1, <3>2, <3>3, Zenon DEF NfsInv, NfsClosed, Running
  <2>5. PacketClosed
    BY <1>1 DEF IInv, PacketInv
  <2>6. serving = "returned" => active = {}
    BY <1>1 DEF IInv, TftpInv, TftpTables, SlotsMatchWorkers
  <2>7. ASSUME main = Cardinality(Services) PROVE running = {} /\ HasReturned
    <3>1. ServicesInv
      BY <1>1 DEF IInv
    <3>2. Cardinality(running) = 0
      BY <2>7, <3>1, ServicesFinite DEF ServicesInv
    <3>3. running = {}
      BY <3>1, <3>2, ServicesFinite, FS_EmptySet
    <3>. QED BY <3>1, <3>3 DEF ServicesInv
  <2>. QED BY <2>1, <2>2, <2>3, <2>4, <2>5, <2>6, <2>7 DEF NothingLeft
<1>. QED BY <1>1, ServicesInvariance, PTL

\* TablesExact holds for all constants: the tables, slots and counts of LDAP and TFTP
\* are exact and within their limits, however connections and transfers end.
THEOREM TablesStayExact == SupervisorSpec => []TablesExact
<1>1. IInv => TablesExact
  BY Zenon DEF IInv, LdapInv, TftpInv, TftpTables, TablesExact
<1>. QED BY <1>1, ServicesInvariance, PTL

\* RightsFromLastBind holds for all constants: a connection may search only by
\* virtue of the last bind made on it.
THEOREM RightsComeFromLastBind == SupervisorSpec => []RightsFromLastBind
<1>1. IInv => RightsFromLastBind
  BY Zenon DEF IInv, LdapInv
<1>. QED BY <1>1, ServicesInvariance, PTL

\* FilesArrive holds for files of any length, block numbers of any width and any
\* loss, repetition, reordering and delay short of a wrap-around (Recent): a client puts the blocks together in their
\* order, and a transfer that ends without an error has delivered them all.
THEOREM FilesDoArrive == SupervisorSpec => []FilesArrive
<1>1. IInv => FilesArrive
  BY Zenon DEF IInv, TftpInv
<1>. QED BY <1>1, ServicesInvariance, PTL

\* ReadOnlyKept holds for any shares: no sequence of operations on a connection
\* changes a read-only one.
THEOREM ReadOnlyStays == SupervisorSpec => []ReadOnlyKept
<1>1. IInv => ReadOnlyKept
  BY DEF IInv, NfsInv
<1>. QED BY <1>1, ServicesInvariance, PTL

=============================================================================
