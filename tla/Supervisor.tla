----------------------------- MODULE Supervisor -----------------------------
(***************************************************************************)
(* cmd/infra-box, serve: it runs every service in a goroutine, cancels     *)
(* their context as soon as one has returned, and waits for all of them.   *)
(*                                                                         *)
(* The services are looked at one at a time.  In every behaviour one of    *)
(* them, the focus, is the machine of its own module; the others do what   *)
(* serve expects of a service, and what the run shows of each in turn:     *)
(* they return when they fail, and at some time after the context is done. *)
(***************************************************************************)
EXTENDS LdapServer, GatewayServer, DnsListeners, NfsServer, PacketServer, TftpServer

CONSTANT Others         \* the services beside the one that is looked at

\* serve starts a fixed list of services.
ASSUME ServicesAssumption == IsFiniteSet(Others)

VARIABLES
    focus,              \* the service that is looked at
    running,            \* services whose run function has not returned
    outcomes,           \* services whose error is in the channel results
    main                \* errors received; serve returns with the last

supervisorVars == <<running, outcomes, main>>
vars == <<cancelled, focus, supervisorVars, ldapVars, gatewayVars, listenerVars, nfsVars,
          packetVars, tftpVars>>

\* dhcp is as ntp, see PacketServer.
Looked == {"ldap", "gateway", "dns", "nfs", "ntp", "tftp"}
Services == {focus} \cup Others

SupervisorInit ==
    /\ cancelled = {}
    /\ focus \in Looked
    /\ running = Services /\ outcomes = {} /\ main = 0
    /\ LdapInit /\ GatewayInit /\ DnsListenersInit /\ NfsInit /\ PacketInit /\ TftpInit

\* The service in focus takes a step of its own.
Alone(s, A, others) == focus = s /\ A /\ UNCHANGED <<focus, supervisorVars, others>>

Focus(ldapStep, gatewayStep, dnsStep, nfsStep, packetStep, tftpStep) ==
    \/ Alone("ldap", ldapStep, <<gatewayVars, listenerVars, nfsVars, packetVars, tftpVars>>)
    \/ Alone("gateway", gatewayStep, <<ldapVars, listenerVars, nfsVars, packetVars, tftpVars>>)
    \/ Alone("dns", dnsStep, <<ldapVars, gatewayVars, nfsVars, packetVars, tftpVars>>)
    \/ Alone("nfs", nfsStep, <<ldapVars, gatewayVars, listenerVars, packetVars, tftpVars>>)
    \/ Alone("ntp", packetStep, <<ldapVars, gatewayVars, listenerVars, nfsVars, tftpVars>>)
    \/ Alone("tftp", tftpStep, <<ldapVars, gatewayVars, listenerVars, nfsVars, packetVars>>)

HasReturned ==
    \/ focus = "ldap" /\ ldap = "returned"
    \/ focus = "gateway" /\ gateway = "returned"
    \/ focus = "dns" /\ dns.at = "returned"
    \/ focus = "nfs" /\ nfs = "returned"
    \/ focus = "ntp" /\ packet = "returned"
    \/ focus = "tftp" /\ serving = "returned"

machines == <<focus, ldapVars, gatewayVars, listenerVars, nfsVars, packetVars,
              tftpVars>>

\* A goroutine of serve: run(ctx) has returned, its error goes to the channel.
RunReturns(s) ==
    /\ s \in running
    /\ s = focus => HasReturned
    /\ running' = running \ {s}
    /\ outcomes' = outcomes \cup {s}
    /\ UNCHANGED <<cancelled, main, machines>>

\* serve receives an error and cancels.
CollectOutcome(s) ==
    /\ s \in outcomes
    /\ outcomes' = outcomes \ {s}
    /\ main' = main + 1
    /\ Cancel("main")
    /\ UNCHANGED <<running, machines>>

Signal ==
    /\ Cancel("main")
    /\ UNCHANGED <<supervisorVars, machines>>

SupervisorProgress ==
    \E s \in Services : \/ RunReturns(s) /\ (s = focus \/ Done("main"))
                        \/ CollectOutcome(s)

FocusProgress ==
    Focus(LdapProgress, GatewayProgress, DnsProgress, NfsProgress, PacketProgress, TftpProgress)

SupervisorNext ==
    \/ \E s \in Services : RunReturns(s) \/ CollectOutcome(s)
    \/ Signal
    \/ Focus(LdapNext, GatewayNext, DnsListenersNext, NfsNext, PacketNext, TftpNext)

DnsReply(i) == Alone("dns", Reply(i), <<ldapVars, gatewayVars, nfsVars, packetVars, tftpVars>>)

TftpWork(P) == Alone("tftp", \E p \in P : work(p),
                     <<ldapVars, gatewayVars, listenerVars, nfsVars, packetVars>>)

\* Goroutines that are not waiting for a client run, and a DNS query is answered.
\* Nobody is obliged to ask anything, to answer, or to fail.  (The subscripts name
\* variables that each step of the action changes.)
SupervisorSpec ==
    /\ SupervisorInit
    /\ [][SupervisorNext]_vars
    /\ WF_supervisorVars(SupervisorProgress)
    /\ WF_vars(FocusProgress)
    /\ \A i \in Servers : WF_server(DnsReply(i))
    /\ \A p \in Responds : WF_worker(TftpWork({p}))
    /\ WF_worker(TftpWork(Peer \ Responds))

-----------------------------------------------------------------------------
(* Properties.                                                             *)

\* The limits of LDAP and TFTP hold and their tables are exact, however connections,
\* password checks and transfers end.
TablesExact == LdapLimits /\ SlotsMatchWorkers

\* A service that has returned has closed what it had opened and has stopped its
\* goroutines, those it took on while it was told to stop included, and the
\* process ends only when that is true of every service.
NothingLeft ==
    /\ ClosedBehind
    /\ GatewayClosed /\ DnsClosed /\ NfsClosed /\ PacketClosed
    /\ serving = "returned" => active = {}
    /\ main = Cardinality(Services) => running = {} /\ HasReturned

\* No service is left serving alone: when one has returned, for whatever reason,
\* or a signal has arrived, the process ends, whatever clients do or do not do.
StopsTogether ==
    (running # Services \/ Done("main")) ~> main = Cardinality(Services)

=============================================================================
