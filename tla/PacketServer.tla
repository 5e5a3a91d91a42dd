---------------------------- MODULE PacketServer ----------------------------
(***************************************************************************)
(* Serve of internal/ntpserver, and that of internal/dhcpserver, which has *)
(* the same shape: one goroutine reads requests and deals with each before *)
(* it reads the next; the function registered with context.AfterFunc       *)
(* closes the socket under it.                                             *)
(***************************************************************************)
EXTENDS Contexts

VARIABLES
    packet,             \* Serve: "reading", "received", "handling", "leaving", "returned"
    socket,             \* the socket is open
    socketCloser        \* "armed", "started", "closed" (the channel), "stopped"

packetVars == <<packet, socket, socketCloser>>

PacketInit == packet = "reading" /\ socket = TRUE /\ socketCloser = "armed"

\* The registered function: conn.Close(), then close(closed).
PacketCloser ==
    /\ \/ /\ socketCloser = "armed" /\ Done("main")
          /\ socketCloser' = "started" /\ UNCHANGED socket
       \/ /\ socketCloser = "started"
          /\ socketCloser' = "closed" /\ socket' = FALSE
    /\ UNCHANGED <<cancelled, packet>>

PacketStep(from, to) ==
    /\ packet = from /\ packet' = to
    /\ UNCHANGED <<cancelled, socket, socketCloser>>

Receive == socket /\ PacketStep("reading", "received")

\* The read failed: always on a closed socket.
ReceiveFails == PacketStep("reading", "leaving")

\* What was read is dropped when the context is done.
Check == PacketStep("received", IF Done("main") THEN "leaving" ELSE "handling")

\* The request is answered, or ignored; an error of the socket's ends Serve.
Handle == \E to \in {"reading", "leaving"} : PacketStep("handling", to)

\* stop() keeps the function from starting, otherwise its end is waited for.
PacketReturns ==
    /\ packet = "leaving" /\ socketCloser \in {"armed", "closed"}
    /\ socketCloser' = IF socketCloser = "armed" THEN "stopped" ELSE socketCloser
    /\ packet' = "returned" /\ socket' = FALSE
    /\ UNCHANGED cancelled

PacketProgress ==
    PacketCloser \/ (ReceiveFails /\ ~socket) \/ Check \/ Handle \/ PacketReturns

PacketNext == PacketProgress \/ Receive \/ ReceiveFails

\* When Serve has returned its socket is closed and no goroutine of it is left.
PacketClosed == packet = "returned" => ~socket /\ socketCloser \in {"closed", "stopped"}

=============================================================================
