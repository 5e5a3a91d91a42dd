--------------------------- MODULE GatewayServer ---------------------------
(***************************************************************************)
(* internal/gateway: the life of the HTTPS and the HTTP listener.          *)
(* serveListeners runs serve once for each; each serve runs net/http's     *)
(* Serve in a goroutine of its own and stops it by Shutdown, or by Close   *)
(* when five seconds were not enough.  net/http is external: Shutdown is   *)
(* remembered by a server that has not started, makes Serve return at      *)
(* once and waits for the requests in progress; Close does not wait.       *)
(***************************************************************************)
EXTENDS Contexts, Naturals

CONSTANT MaxRequests    \* requests in progress on a listener (a bound)

VARIABLES
    side,       \* side[e]: one serve and its http.Server
    results,    \* results[e]: what serve has sent to done, until it is received
    gateway     \* serveListeners: errors received so far, or "returned"

gatewayVars == <<side, results, gateway>>

Sides == {"https", "http"}

GatewayInit ==
    /\ side = [e \in Sides |->
                 [at |-> "selecting",   \* serve
                  run |-> "launched",   \* the goroutine of Serve
                  received |-> FALSE,   \* serveErr was received
                  shut |-> FALSE, closed |-> FALSE, listening |-> TRUE,
                  requests |-> 0]]
    /\ results = {}
    /\ gateway = "first"

Becomes(e, state) ==
    /\ side' = [side EXCEPT ![e] = state]
    /\ UNCHANGED <<results, gateway>>

\* The http.Server of e: Serve starts, or finds that it is shut down already.
HttpServes(e) ==
    /\ side[e].run = "launched"
    /\ Becomes(e, [side[e] EXCEPT !.run = IF side[e].shut THEN "returned" ELSE "serving"])
    /\ UNCHANGED cancelled

\* Serve returns: because of Shutdown, or of an error of the listener.
HttpStops(e) ==
    /\ side[e].run = "serving"
    /\ Becomes(e, [side[e] EXCEPT !.run = "returned"])
    /\ UNCHANGED cancelled

HttpRequest(e) ==
    /\ side[e].run = "serving" /\ ~side[e].shut /\ side[e].requests < MaxRequests
    /\ Becomes(e, [side[e] EXCEPT !.requests = @ + 1])
    /\ UNCHANGED cancelled

HttpResponse(e) ==
    /\ side[e].requests > 0
    /\ Becomes(e, [side[e] EXCEPT !.requests = @ - 1])
    /\ UNCHANGED cancelled

\* serve: the context is done or Serve has returned; cancel and Shutdown.
Select(e) ==
    /\ side[e].at = "selecting"
    /\ \E received \in BOOLEAN :
           /\ IF received THEN side[e].run = "returned" ELSE Done(e)
           /\ Becomes(e, [side[e] EXCEPT !.at = "shutdown", !.received = received,
                                         !.shut = TRUE, !.listening = FALSE])
    /\ Cancel(e)

\* Shutdown has waited for the requests, or long enough: then Close.
Shutdown(e) ==
    /\ side[e].at = "shutdown"
    /\ \E closed \in BOOLEAN :
           /\ ~closed => side[e].requests = 0
           /\ Becomes(e, [side[e] EXCEPT !.at = "awaiting", !.closed = closed])
    /\ UNCHANGED cancelled

\* Unless it was received before, the error of Serve; the result goes to done.
ServeEnds(e) ==
    /\ side[e].at = "awaiting"
    /\ ~side[e].received => side[e].run = "returned"
    /\ side' = [side EXCEPT ![e].at = "done"]
    /\ results' = results \cup {e}
    /\ UNCHANGED <<cancelled, gateway>>

\* serveListeners: the first result cancels, the second ends.
Collect(e) ==
    /\ e \in results
    /\ results' = results \ {e}
    /\ IF gateway = "first"
       THEN gateway' = "second" /\ Cancel("gateway")
       ELSE gateway' = "returned" /\ UNCHANGED cancelled
    /\ UNCHANGED side

\* The steps that wait for no client and no failure.
GatewayProgress ==
    \E e \in Sides : \/ HttpServes(e) \/ (HttpStops(e) /\ side[e].shut)
                     \/ Select(e) \/ Shutdown(e) \/ ServeEnds(e) \/ Collect(e)

GatewayNext ==
    \/ GatewayProgress
    \/ \E e \in Sides : HttpStops(e) \/ HttpRequest(e) \/ HttpResponse(e)

\* When serveListeners has returned, neither listener is open and Serve runs on
\* neither; requests are left only where Close had to cut the wait for them short.
GatewayClosed ==
    gateway = "returned" =>
        \A e \in Sides : /\ ~side[e].listening /\ side[e].run = "returned"
                         /\ side[e].requests > 0 => side[e].closed

=============================================================================
