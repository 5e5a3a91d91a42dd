----------------------------- MODULE AcmeOrders -----------------------------
(***************************************************************************)
(* internal/acmeserver: accounts, orders, authorizations and the HTTP-01   *)
(* challenge, with internal/acmevalidate doing the outbound check and the  *)
(* DHCP leases changing underneath.                                        *)
(*                                                                         *)
(* Server.mu makes most handlers one step.  Two are not.  challenge saves  *)
(* "processing", unlocks, contacts the leased host and locks again to      *)
(* record the outcome; anything may happen in between.  finalize keeps the *)
(* lock while it looks up one lease after the other, and DHCP does not     *)
(* wait for it.  commit saves a whole snapshot by a rename before it       *)
(* publishes it in memory; it may fail before the rename, or after it, in  *)
(* which case the change is made and an error is reported.                 *)
(*                                                                         *)
(* A handler acts for the account and key that signed the request.  Its    *)
(* first act under the lock is activeAccount, so a request verified before *)
(* the lock was taken has no other effect than one verified under it.      *)
(* Nonces, quotas and revocation are left to other modules; identifiers    *)
(* are random in the code and never used twice here.                       *)
(***************************************************************************)
EXTENDS Naturals, FiniteSets

CONSTANTS
    Account, OrderId,   \* identifiers to be drawn
    Key,                \* account keys
    Name,               \* DHCP hostnames
    Target,             \* leased hosts: address and client of a lease
    Serves,             \* <<t, k>>: host t answers with the authorization of k
    Slot,               \* the capacity of Server.validations
    None

ASSUME ServesAssumption == Serves \subseteq Target \X Key
ASSUME NoneAssumption == None \notin Account \cup Key \cup Name \cup Target

VARIABLES
    mem,        \* Server.state
    disk,       \* the state file
    idle,       \* accounts not used for accountIdleLifetime
    late,       \* per order: 0, 1 when its authorizations have expired, 2 when
                \* its certificate has expired too
    slots,      \* validations under way
    mu,         \* the finalize that holds Server.mu over several steps, or None
    holder      \* holder[n]: the leased host with hostname n, or None

vars == <<mem, disk, idle, late, slots, mu, holder>>

AccountRec == [status: {"unused", "valid", "deactivated", "gone"}, key: Key \cup {None}]
AuthRec == [status: {"none", "pending", "valid", "invalid", "deactivated"},
            challenge: {"none", "pending", "processing", "valid", "invalid"},
            target: Target \cup {None}]
OrderRec == [status: {"unused", "pending", "ready", "valid", "invalid", "gone"},
             account: Account \cup {None},
             auth: [Name -> AuthRec]]
State == [accounts: [Account -> AccountRec], orders: [OrderId -> OrderRec]]
Validation == [order: OrderId, name: Name, account: Account, key: Key,
               stage: {"lookup", "fetch", "recheck", "proved", "failed"},
               target: Target \cup {None}]

\* A free slot holds no validation.
ASSUME ValidationAssumption == None \notin Validation

NoAuth == [status |-> "none", challenge |-> "none", target |-> None]
NoOrder(status) == [status |-> status, account |-> None, auth |-> [n \in Name |-> NoAuth]]
NewAuth == [status |-> "pending", challenge |-> "pending", target |-> None]

-----------------------------------------------------------------------------
(* The snapshot.                                                           *)

Open(order) == order.status \in {"pending", "ready"}
Names(order) == {n \in Name : order.auth[n] # NoAuth}

\* The order of st has not reached its expiry time, which issuing a
\* certificate moves to the end of that certificate.
Unexpired(st, o) ==
    IF st.orders[o].status = "valid" THEN late[o] < 2 ELSE late[o] = 0

Kept(st, o) == st.orders[o].status \notin {"unused", "gone", "invalid"} /\ Unexpired(st, o)

\* The accounts in st that exist.
Exists(st, a) == st.accounts[a].status \in {"valid", "deactivated"}

\* prune: invalid and expired orders go with all that belongs to them, idle
\* accounts go unless an order that stays refers to them.
prune(st, idleNow) ==
    [accounts |-> [a \in Account |->
         IF /\ Exists(st, a) /\ a \in idleNow
            /\ \A o \in OrderId : Kept(st, o) => st.orders[o].account # a
         THEN [status |-> "gone", key |-> None] ELSE st.accounts[a]],
     orders |-> [o \in OrderId |->
         IF Kept(st, o) \/ st.orders[o].status = "unused"
         THEN st.orders[o] ELSE NoOrder("gone")]]

\* Faulty variant of commit: published without a save.
CommitUnsaved(next, idleNow) ==
    /\ mem' = prune(next, idleNow)
    /\ UNCHANGED disk

\* commit went past its rename.  (Before it, nothing has changed.)
commit(next, idleNow) ==
    /\ mem' = prune(next, idleNow)
    /\ disk' = mem'

SetAuth(st, o, n, auth) == [st EXCEPT !.orders[o].auth[n] = auth]
SetStatus(st, o, status) == [st EXCEPT !.orders[o].status = status]

\* retryInterruptedChallenge and, for all authorizations, restore: a check
\* that is not under way any more may be asked for again.
Retry(auth) ==
    IF auth.status = "pending" /\ auth.challenge = "processing"
    THEN [auth EXCEPT !.challenge = "pending"] ELSE auth
\* Faulty variant of RetryOne: the check stays in processing.
RetryNothing(st, o, n) == st
RetryOne(st, o, n) == SetAuth(st, o, n, Retry(st.orders[o].auth[n]))

-----------------------------------------------------------------------------
(* Accounts.                                                               *)

activeAccount(a, k) == mem.accounts[a].status = "valid" /\ mem.accounts[a].key = k
InUse(k) == \E a \in Account : Exists(mem, a) /\ mem.accounts[a].key = k

\* Every handler but newAccount starts like this; whatever it does next, the
\* account is no longer idle.
Enter(a, k) ==
    /\ mu = None
    /\ activeAccount(a, k)
    /\ idle' = idle \ {a}

\* Reading a resource, and any mutation that fails before its rename.
Read(a, k) ==
    /\ Enter(a, k)
    /\ UNCHANGED <<mem, disk, late, slots, mu, holder>>

\* An existing account, deactivated or not, is returned for its key.
newAccount(k) ==
    /\ mu = None
    /\ IF InUse(k)
       THEN /\ idle' = {a \in idle : mem.accounts[a].key # k}
            /\ UNCHANGED <<mem, disk>>
       ELSE \E a \in Account :
                /\ mem.accounts[a].status = "unused"
                /\ idle' = idle
                /\ commit([mem EXCEPT !.accounts[a] = [status |-> "valid", key |-> k]], idle)
    /\ UNCHANGED <<late, slots, mu, holder>>

\* A new contact: nothing that matters here, but it is a commit.
updateAccount(a, k) ==
    /\ Enter(a, k)
    /\ commit(mem, idle')
    /\ UNCHANGED <<late, slots, mu, holder>>

\* Faulty variant of deactivateAccount: outstanding orders stay.
DeactivateAccountOnly(a, k) ==
    /\ Enter(a, k)
    /\ commit([mem EXCEPT !.accounts[a].status = "deactivated"], idle')
    /\ UNCHANGED <<late, slots, mu, holder>>

deactivateAccount(a, k) ==
    /\ Enter(a, k)
    /\ LET Cancelled(order) ==
               IF order.account # a THEN order
               ELSE [order EXCEPT
                        !.status = IF Open(order) THEN "invalid" ELSE @,
                        !.auth = [n \in Name |->
                            IF @[n].status # "pending" THEN @[n]
                            ELSE [@[n] EXCEPT !.status = "deactivated",
                                              !.challenge = "invalid"]]]
       IN  commit([mem EXCEPT !.accounts[a].status = "deactivated",
                              !.orders = [o \in OrderId |-> Cancelled(@[o])]], idle')
    /\ UNCHANGED <<late, slots, mu, holder>>

\* Faulty variant of keyChange: the new key may be another account's.
KeyChangeUnchecked(a, k, new) ==
    /\ Enter(a, k)
    /\ new # k
    /\ commit([mem EXCEPT !.accounts[a].key = new], idle')
    /\ UNCHANGED <<late, slots, mu, holder>>

keyChange(a, k, new) ==
    /\ Enter(a, k)
    /\ new # k
    /\ ~InUse(new)
    /\ commit([mem EXCEPT !.accounts[a].key = new], idle')
    /\ UNCHANGED <<late, slots, mu, holder>>

-----------------------------------------------------------------------------
(* Orders.                                                                 *)

\* The leases of the names were looked up before the lock was taken, so they
\* may be anything by now.
newOrder(a, k, names) ==
    /\ Enter(a, k)
    /\ \E o \in OrderId :
           /\ mem.orders[o].status = "unused"
           /\ commit([mem EXCEPT !.orders[o] =
                         [status |-> "pending", account |-> a,
                          auth |-> [n \in Name |-> IF n \in names THEN NewAuth ELSE NoAuth]]],
                     idle')
    /\ UNCHANGED <<late, slots, mu, holder>>

\* The order exists, belongs to a and asks for n.
Owns(a, o, n) == mem.orders[o].account = a /\ n \in Names(mem.orders[o])

\* getAuthorization with status "deactivated".
deactivateAuthorization(a, k, o, n) ==
    /\ Enter(a, k)
    /\ Owns(a, o, n)
    /\ LET auth == mem.orders[o].auth[n]
           off == [auth EXCEPT !.status = "deactivated",
                               !.challenge = IF @ = "processing" THEN "invalid" ELSE @]
           next == SetAuth(mem, o, n, off)
       IN  commit(IF Open(mem.orders[o]) THEN SetStatus(next, o, "invalid") ELSE next, idle')
    /\ UNCHANGED <<late, slots, mu, holder>>

-----------------------------------------------------------------------------
(* The challenge.                                                          *)

FreeSlot(s) == slots[s] = None

\* First half of challenge: the acknowledgement of a pending challenge takes a
\* slot and saves "processing".  If only the sync after the rename fails, the
\* client gets an error, the slot is free again and memory says "pending".
acknowledge(a, k, o, n) ==
    /\ Enter(a, k)
    /\ Owns(a, o, n)
    /\ mem.orders[o].auth[n].challenge # "processing"
    /\ mem.orders[o].auth[n].status = "pending"
    /\ mem.orders[o].status = "pending"
    /\ late[o] = 0
    /\ \E s \in Slot :
           LET next == prune(SetAuth(mem, o, n, [mem.orders[o].auth[n] EXCEPT
                                                     !.challenge = "processing"]), idle')
           IN  /\ FreeSlot(s)
               /\ disk' = next
               /\ \/ /\ mem' = next
                     /\ slots' = [slots EXCEPT ![s] =
                                     [order |-> o, name |-> n, account |-> a, key |-> k,
                                      stage |-> "lookup", target |-> None]]
                  \/ /\ mem' = RetryOne(next, o, n)
                     /\ UNCHANGED slots
    /\ UNCHANGED <<late, mu, holder>>

\* Validate, without the lock: look the lease up, fetch the response from that
\* host, look the lease up again.  A timeout or the client hanging up ends it
\* at any point.
Validate(s) ==
    /\ ~FreeSlot(s)
    /\ LET v == slots[s]
           Go(stage, target) ==
               slots' = [slots EXCEPT ![s].stage = stage, ![s].target = target]
       IN  \/ /\ v.stage = "lookup"
              /\ holder[v.name] # None
              /\ Go("fetch", holder[v.name])
           \/ /\ v.stage = "fetch"
              /\ <<v.target, v.key>> \in Serves
              /\ Go("recheck", v.target)
           \/ /\ v.stage = "recheck"
              /\ holder[v.name] = v.target
              /\ Go("proved", v.target)
           \/ /\ v.stage \in {"lookup", "fetch", "recheck"}
              /\ Go("failed", None)
    /\ UNCHANGED <<mem, disk, idle, late, mu, holder>>

\* Faulty variant of Outcome: the account is not looked at again.
OutcomeUnchecked(v, st) ==
    LET order == st.orders[v.order]
        proof == [status |-> "valid", challenge |-> "valid", target |-> v.target]
    IN  IF v.stage = "proved" THEN SetAuth(st, v.order, v.name, proof)
        ELSE SetStatus(st, v.order, "invalid")

\* The snapshot challenge records for a check of auth that has ended.
Outcome(v, st) ==
    LET order == st.orders[v.order]
        auth == order.auth[v.name]
        acc == st.accounts[v.account]
        active == acc.status = "valid" /\ acc.key = v.key
        current == late[v.order] = 0 /\ order.status = "pending"
        proof == [status |-> "valid", challenge |-> "valid", target |-> v.target]
        ready == \A n \in Names(order) \ {v.name} : order.auth[n].status = "valid"
    IN  IF acc.status = "valid" /\ acc.key # v.key /\ current
        THEN SetAuth(st, v.order, v.name, [auth EXCEPT !.challenge = "pending"])
        ELSE IF v.stage = "proved" /\ active /\ current
        THEN SetStatus(SetAuth(st, v.order, v.name, proof), v.order,
                       IF ready THEN "ready" ELSE order.status)
        ELSE SetStatus(SetAuth(st, v.order, v.name,
                               [auth EXCEPT !.status = "invalid", !.challenge = "invalid"]),
                       v.order, "invalid")

\* Second half of challenge.  If the authorization is gone or somebody else
\* has settled it, there is nothing to record; if the save fails, the check
\* counts as interrupted.
settle(s) ==
    /\ mu = None
    /\ ~FreeSlot(s)
    /\ slots[s].stage \in {"proved", "failed"}
    /\ LET v == slots[s]
           auth == mem.orders[v.order].auth[v.name]
       IN  IF auth.status # "pending" \/ auth.challenge # "processing"
           THEN UNCHANGED <<mem, disk, idle>>
           ELSE /\ idle' = IF activeAccount(v.account, v.key) THEN idle \ {v.account} ELSE idle
                /\ \/ commit(Outcome(v, mem), idle')
                   \/ mem' = RetryOne(mem, v.order, v.name) /\ UNCHANGED disk
    /\ slots' = [slots EXCEPT ![s] = None]
    /\ UNCHANGED <<late, mu, holder>>

-----------------------------------------------------------------------------
(* Issuance.                                                               *)

\* finalize takes the lock and finds the order ready.  "during" collects the
\* hosts that have had each name since then.
finalize(a, k, o) ==
    /\ Enter(a, k)
    /\ mem.orders[o].account = a
    /\ mem.orders[o].status = "ready"
    /\ late[o] = 0
    /\ mu' = [order |-> o, left |-> Names(mem.orders[o]),
              during |-> [n \in Name |-> {holder[n]}]]
    /\ UNCHANGED <<mem, disk, late, slots, holder>>

\* Faulty variant of checkName: the lease may have gone to another host.
CheckNameUnleased ==
    /\ mu # None
    /\ \E n \in mu.left : mu' = [mu EXCEPT !.left = @ \ {n}]
    /\ UNCHANGED <<mem, disk, idle, late, slots, holder>>

\* One name after the other: the lease must be the one that was validated.
\* Otherwise the order is over, if that can be saved.
checkName ==
    /\ mu # None
    /\ \E n \in mu.left :
           LET auth == mem.orders[mu.order].auth[n]
           IN  IF /\ holder[n] # None /\ holder[n] = auth.target
                  /\ auth.status = "valid" /\ late[mu.order] = 0
               THEN /\ mu' = [mu EXCEPT !.left = @ \ {n}]
                    /\ UNCHANGED <<mem, disk>>
               ELSE /\ mu' = None
                    /\ \/ commit(SetStatus(mem, mu.order, "invalid"), idle)
                       \/ UNCHANGED <<mem, disk>>
    /\ UNCHANGED <<idle, late, slots, holder>>

\* All names checked: sign and save; or the CSR is refused or the save fails.
sign ==
    /\ mu # None
    /\ mu.left = {}
    /\ mu' = None
    /\ \/ commit(SetStatus(mem, mu.order, "valid"), idle)
       \/ UNCHANGED <<mem, disk>>
    /\ UNCHANGED <<idle, late, slots, holder>>

-----------------------------------------------------------------------------
(* Time, DHCP and the process.                                             *)

Expire(o) ==
    /\ \/ late[o] = 0 /\ mem.orders[o].status \in {"pending", "ready", "valid"}
       \/ late[o] = 1 /\ mem.orders[o].status = "valid"
    /\ late' = [late EXCEPT ![o] = @ + 1]
    /\ UNCHANGED <<mem, disk, idle, slots, mu, holder>>

\* Accounts stay in use longer than an order they have made stays open.
BecomeIdle(a) ==
    /\ Exists(mem, a)
    /\ \A o \in OrderId : mem.orders[o].account = a => late[o] > 0
    /\ idle' = idle \cup {a}
    /\ UNCHANGED <<mem, disk, late, slots, mu, holder>>

\* The DHCP lease with hostname n appears, ends or goes to another host.
Reassign(n, t) ==
    /\ holder[n] # t
    /\ holder' = [holder EXCEPT ![n] = t]
    /\ mu' = IF mu = None THEN None ELSE [mu EXCEPT !.during[n] = @ \cup {t}]
    /\ UNCHANGED <<mem, disk, idle, late, slots>>

\* GET /crl refreshes an old list, which is a commit of everything else as is.
serveCRL ==
    /\ mu = None
    /\ commit(mem, idle)
    /\ UNCHANGED <<idle, late, slots, mu, holder>>

\* What restore checks before it accepts the file.
validateState(st) ==
    /\ \A a, b \in Account :
           a # b /\ Exists(st, a) /\ Exists(st, b) => st.accounts[a].key # st.accounts[b].key
    /\ \A o \in OrderId : st.orders[o].status \notin {"unused", "gone"} =>
           /\ Names(st.orders[o]) # {}
           /\ Exists(st, st.orders[o].account)
    /\ \A o \in OrderId, n \in Name : st.orders[o].auth[n].status = "valid" =>
           /\ st.orders[o].auth[n].target # None
           /\ st.orders[o].auth[n].challenge = "valid"

\* The file as the next process takes it over: an interrupted check proves
\* nothing and may be tried again.
restore(st) ==
    [st EXCEPT !.orders = [o \in OrderId |->
        [st.orders[o] EXCEPT !.auth = [n \in Name |-> Retry(st.orders[o].auth[n])]]]]

\* The process dies and New restores and saves what is on disk.
Restart ==
    /\ validateState(disk)
    /\ commit(restore(disk), idle)
    /\ slots' = [s \in Slot |-> None]
    /\ mu' = None
    /\ UNCHANGED <<idle, late, holder>>

Init ==
    /\ mem = [accounts |-> [a \in Account |-> [status |-> "unused", key |-> None]],
              orders |-> [o \in OrderId |-> NoOrder("unused")]]
    /\ disk = mem
    /\ idle = {}
    /\ late = [o \in OrderId |-> 0]
    /\ slots = [s \in Slot |-> None]
    /\ mu = None
    /\ holder \in [Name -> Target \cup {None}]

Request(a, k) ==
    \/ Read(a, k)
    \/ updateAccount(a, k)
    \/ deactivateAccount(a, k)
    \/ \E new \in Key : keyChange(a, k, new)
    \/ \E names \in (SUBSET Name) \ {{}} : newOrder(a, k, names)
    \/ \E o \in OrderId, n \in Name : deactivateAuthorization(a, k, o, n)
    \/ \E o \in OrderId, n \in Name : acknowledge(a, k, o, n)
    \/ \E o \in OrderId : finalize(a, k, o)

Next ==
    \/ \E k \in Key : newAccount(k)
    \/ \E a \in Account, k \in Key : Request(a, k)
    \/ \E s \in Slot : Validate(s)
    \/ \E s \in Slot : settle(s)
    \/ checkName
    \/ sign
    \/ serveCRL
    \/ \E o \in OrderId : Expire(o)
    \/ \E a \in Account : BecomeIdle(a)
    \/ \E n \in Name, t \in Target \cup {None} : Reassign(n, t)
    \/ Restart

Spec == Init /\ [][Next]_vars

\* Validation has a timeout, a request that waits for the mutex gets it, and
\* finalize does not stop in the middle.
Fairness ==
    /\ \A s \in Slot : WF_vars(Validate(s)) /\ SF_vars(settle(s))
    /\ WF_vars(checkName)
    /\ WF_vars(sign)

FairSpec == Spec /\ Fairness

-----------------------------------------------------------------------------
(* Properties.                                                             *)

\* Whatever commit has saved, restore accepts.
SavedStateIsValid == validateState(disk)

\* An order that may still lead to a certificate belongs to an active account,
\* also when it was made or validated while the account was deactivated; and one
\* that finalize may sign has all its authorizations valid.
OpenOrdersAreSound ==
    \A o \in OrderId : Open(mem.orders[o]) =>
        /\ mem.accounts[mem.orders[o].account].status = "valid"
        /\ mem.orders[o].status = "ready" =>
               \A n \in Names(mem.orders[o]) : mem.orders[o].auth[n].status = "valid"

Processing(o, n) ==
    mem.orders[o].auth[n].status = "pending" /\ mem.orders[o].auth[n].challenge = "processing"

\* "A failed snapshot must not strand an outbound check in processing": each
\* authorization in that state has exactly one check under way.
NotStranded ==
    \A o \in OrderId, n \in Name : Processing(o, n) =>
        Cardinality({s \in Slot : /\ slots[s] # None
                                  /\ slots[s].order = o
                                  /\ slots[s].name = n}) = 1

\* A proof is accepted only under the key the account has at that moment, for
\* a host that serves that key's authorization: a proof begun under a key that
\* was rolled over, or for a deactivated account, is never counted.
ProofIsCurrent ==
    \A o \in OrderId, n \in Name :
        /\ mem.orders[o].auth[n].status = "pending"
        /\ mem'.orders[o].auth[n].status = "valid"
        => LET acc == mem.accounts[mem.orders[o].account]
           IN  /\ acc.status = "valid"
               /\ <<mem'.orders[o].auth[n].target, acc.key>> \in Serves
\* challenge accepts current proofs only.
AcceptsCurrentProofs == [][ProofIsCurrent]_vars

\* When a certificate is issued, every name of it has been leased to the host
\* that proved it at some moment since finalize took the lock, and the account
\* is still active.
IssueIsCurrent ==
    \A o \in OrderId :
        mem.orders[o].status # "valid" /\ mem'.orders[o].status = "valid" =>
            /\ mu # None /\ mu.order = o
            /\ mem.accounts[mem.orders[o].account].status = "valid"
            /\ \A n \in Names(mem.orders[o]) :
                   mem.orders[o].auth[n].target \in mu.during[n] \ {None}
\* finalize issues to the hosts that hold the names.
IssuesToHolders == [][IssueIsCurrent]_vars

\* The states of an order in RFC 8555 section 7.1.6, over crashes too: a
\* restart never takes an order back, and what is removed stays removed.
Forward ==
    \A o \in OrderId :
        <<mem.orders[o].status, mem'.orders[o].status>> \in
            {<<"unused", "pending">>, <<"pending", "ready">>, <<"ready", "valid">>,
             <<"pending", "gone">>, <<"ready", "gone">>, <<"valid", "gone">>}
            \cup {<<x, x>> : x \in {"unused", "pending", "ready", "valid", "gone"}}
\* No step, restart or failed save moves an order back, and an order that turns
\* invalid is removed in that step.
OrdersMoveForward == [][Forward]_vars

\* An outbound check does not stay in processing for ever, whatever fails.
ChecksEnd ==
    \A o \in OrderId, n \in Name : Processing(o, n) ~> ~Processing(o, n)

=============================================================================
