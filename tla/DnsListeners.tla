---------------------------- MODULE DnsListeners ----------------------------
(***************************************************************************)
(* internal/dnsserver: the life of the TCP and the UDP listener.           *)
(* serve starts one dns.Server after the other, each in a goroutine that   *)
(* sends the outcome of ActivateAndServe to a channel and closes it; the   *)
(* deferred function shuts the started ones down in the same order.        *)
(* miekg/dns is external: ShutdownContext of a server that has not started *)
(* does nothing; ActivateAndServe returns when its handlers have.          *)
(***************************************************************************)
EXTENDS Contexts, Naturals

CONSTANT MaxQueries     \* queries in progress on a listener (a bound)

VARIABLES
    dns,        \* serve: [at, i]; the server i it is starting or stopping
    server      \* server[i]: dns.Server i, its goroutine and its channel

listenerVars == <<dns, server>>

Servers == 1..2         \* TCP, UDP

DnsListenersInit ==
    /\ dns = [at |-> "launch", i |-> 1]
    /\ server = [i \in Servers |->
                   [run |-> "none",      \* launched, serving, draining, sent, closed
                    started |-> FALSE, taken |-> FALSE, queries |-> 0]]

Server(i, state) == server' = [server EXCEPT ![i] = state]

\* A receive from the channel of server i goes through: the one value sent to it
\* has not been received, or the channel is closed.
Receivable(i) ==
    \/ server[i].run = "sent" /\ ~server[i].taken
    \/ server[i].run = "closed"

-----------------------------------------------------------------------------
(* dns.Server.                                                             *)

\* ActivateAndServe: the server is up (NotifyStartedFunc), or fails.
Activate(i) ==
    /\ server[i].run = "launched"
    /\ \E up \in BOOLEAN :
           Server(i, [server[i] EXCEPT !.run = IF up THEN "serving" ELSE "sent", !.started = up])
    /\ UNCHANGED <<cancelled, dns>>

\* It leaves its loop when it was shut down, or on an error of its socket.
LeaveLoop(i) ==
    /\ server[i].run = "serving"
    /\ Server(i, [server[i] EXCEPT !.run = "draining"])
    /\ UNCHANGED <<cancelled, dns>>

\* The handlers are done, and the outcome is sent.
Send(i) ==
    /\ server[i].run = "draining" /\ server[i].queries = 0
    /\ Server(i, [server[i] EXCEPT !.run = "sent"])
    /\ UNCHANGED <<cancelled, dns>>

\* The goroutine closes the channel.
CloseResult(i) ==
    /\ server[i].run = "sent"
    /\ Server(i, [server[i] EXCEPT !.run = "closed"])
    /\ UNCHANGED <<cancelled, dns>>

Query(i) ==
    /\ server[i].run = "serving" /\ server[i].started /\ server[i].queries < MaxQueries
    /\ Server(i, [server[i] EXCEPT !.queries = @ + 1])
    /\ UNCHANGED <<cancelled, dns>>

\* A handler writes its reply: at the latest when forwardTimeout is over.
Reply(i) ==
    /\ server[i].queries > 0
    /\ Server(i, [server[i] EXCEPT !.queries = @ - 1])
    /\ UNCHANGED <<cancelled, dns>>

-----------------------------------------------------------------------------
(* serve.                                                                  *)

Launch ==
    /\ dns.at = "launch"
    /\ Server(dns.i, [server[dns.i] EXCEPT !.run = "launched"])
    /\ dns' = [dns EXCEPT !.at = "ready"]
    /\ UNCHANGED cancelled

After(i) == IF i = 2 THEN [at |-> "waiting", i |-> 2] ELSE [at |-> "launch", i |-> i + 1]

\* Faulty variant: the next server is started, or the context looked at, at once.
ReadyAtOnce ==
    /\ dns.at = "ready"
    /\ dns' = After(dns.i)
    /\ UNCHANGED <<cancelled, server>>

\* Only a server that has started lets serve go on.
Ready ==
    /\ dns.at = "ready" /\ server[dns.i].started
    /\ dns' = After(dns.i)
    /\ UNCHANGED <<cancelled, server>>

\* The deferred function begins: cancel, and the first server.
Unwind == Cancel("dns") /\ dns' = [at |-> "shutdown", i |-> 1]

\* A server has not started, or has stopped by itself: its outcome is received.
ServerFailed(i) ==
    /\ \/ dns.at = "ready" /\ i = dns.i
       \/ dns.at = "waiting"
    /\ Receivable(i)
    /\ Server(i, [server[i] EXCEPT !.taken = TRUE])
    /\ Unwind

ContextDone ==
    /\ dns.at = "waiting" /\ Done("dns")
    /\ Unwind
    /\ UNCHANGED server

\* ShutdownContext: the wait in it ends when the server has, or after a timeout,
\* and is of no consequence here.
ShutdownContext ==
    /\ dns.at = "shutdown"
    /\ Server(dns.i, [server[dns.i] EXCEPT !.started = FALSE])
    /\ dns' = [dns EXCEPT !.at = "await"]
    /\ UNCHANGED cancelled

\* <-result, then the next server that was launched.
Await ==
    /\ dns.at = "await" /\ Receivable(dns.i)
    /\ Server(dns.i, [server[dns.i] EXCEPT !.taken = TRUE])
    /\ dns' = IF dns.i = 1 /\ server[2].run # "none" THEN [at |-> "shutdown", i |-> 2]
              ELSE [dns EXCEPT !.at = "returned"]
    /\ UNCHANGED cancelled

DnsProgress ==
    \/ Launch \/ Ready \/ ContextDone \/ ShutdownContext \/ Await
    \/ \E i \in Servers : \/ Activate(i) \/ Send(i) \/ CloseResult(i) \/ ServerFailed(i)
                          \/ LeaveLoop(i) /\ ~server[i].started

DnsListenersNext ==
    \/ DnsProgress
    \/ \E i \in Servers : LeaveLoop(i) \/ Query(i) \/ Reply(i)

\* When serve has returned, every server it launched has stopped and all of its
\* handlers have; the listeners are closed by Run after that.
DnsClosed ==
    dns.at = "returned" =>
        \A i \in Servers : server[i].run \in {"none", "sent", "closed"} /\ server[i].queries = 0

=============================================================================
