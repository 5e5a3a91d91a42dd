--------------------------- MODULE LeaseContract ---------------------------
(***************************************************************************)
(* What the lease manager promises to the callers of Commit and Decline,   *)
(* without saying how: an address is granted to a client until a time, and *)
(* while that grant lasts nobody else is granted the address; a declined   *)
(* address is granted to nobody until its quarantine ends.  A crash may    *)
(* void grants only when leases are not kept in a file.                    *)
(***************************************************************************)
EXTENDS Naturals

CONSTANTS
    Client,     \* client identifiers
    Pool,       \* addresses that may be granted
    LeaseDuration, DeclineDuration,
    None        \* no grant

VARIABLES
    durable,    \* leases are kept in a file
    now,        \* the clock
    promise,    \* promise[c]: the last grant acknowledged to c, or None
    quarantine  \* quarantine[a]: a is not to be granted before this time

vars == <<durable, now, promise, quarantine>>

\* Client c holds address a by an acknowledged grant that has not run out.
Holds(c, a) ==
    /\ promise[c] # None
    /\ promise[c].ip = a
    /\ promise[c].exp > now

Init ==
    /\ durable \in BOOLEAN
    /\ now = 0
    /\ promise = [c \in Client |-> None]
    /\ quarantine = [a \in Pool |-> 0]

\* Grant or renew: only an address nobody else holds and no quarantine covers.
GrantTo(c, a) ==
    /\ \A d \in Client \ {c} : ~Holds(d, a)
    /\ quarantine[a] <= now
    /\ promise' = [promise EXCEPT ![c] = [ip |-> a, exp |-> now + LeaseDuration]]
    /\ UNCHANGED <<durable, now, quarantine>>

\* The client gives its address up: a release, or a request for another one.
Surrender(c) ==
    /\ promise' = [promise EXCEPT ![c] = None]
    /\ UNCHANGED <<durable, now, quarantine>>

\* The client reports a conflict on an address that nobody else holds.
Decline(c, a) ==
    /\ \A d \in Client \ {c} : ~Holds(d, a)
    /\ promise' = IF promise[c] # None /\ promise[c].ip = a
                  THEN [promise EXCEPT ![c] = None] ELSE promise
    /\ quarantine' = [quarantine EXCEPT ![a] = now + DeclineDuration]
    /\ UNCHANGED <<durable, now>>

\* Memory-only leases end with the process.
Forget ==
    /\ ~durable
    /\ promise' = [c \in Client |-> None]
    /\ quarantine' = [a \in Pool |-> 0]
    /\ UNCHANGED <<durable, now>>

Elapse ==
    /\ now' \in Nat
    /\ now' > now
    /\ UNCHANGED <<durable, promise, quarantine>>

Next ==
    \/ \E c \in Client, a \in Pool : GrantTo(c, a) \/ Decline(c, a)
    \/ \E c \in Client : Surrender(c)
    \/ Forget
    \/ Elapse

Spec == Init /\ [][Next]_vars

-----------------------------------------------------------------------------
\* The point of the contract: no two clients hold one address, and no address
\* is held while it is in quarantine.
Exclusive ==
    /\ \A c, d \in Client : \A a \in Pool :
           Holds(c, a) /\ Holds(d, a) => c = d
    /\ \A c \in Client : \A a \in Pool : Holds(c, a) => quarantine[a] <= now

=============================================================================
