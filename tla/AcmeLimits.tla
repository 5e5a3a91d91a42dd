----------------------------- MODULE AcmeLimits -----------------------------
(***************************************************************************)
(* internal/acmeserver/limits.go: the creation quotas of the ACME service  *)
(* and the life of idle accounts.  Time is a count of ticks; a list of     *)
(* time stamps is the number of stamps at every tick.  Each handler is one *)
(* step under Server.mu.  A commit that fails before its rename is the     *)
(* step that only touches the account; one that fails after it has the     *)
(* effect of one that succeeds.                                            *)
(*                                                                         *)
(* Of an order this module keeps the tick at which it expires and whether  *)
(* a certificate was issued for it; AcmeOrders has the rest.               *)
(***************************************************************************)
EXTENDS Naturals, FiniteSets, Functions

CONSTANTS
    Source,           \* DHCP client identifiers
    Account,          \* account identifiers to be drawn by randomID
    maxAccounts, maxAccountOrders, maxLeaseAccounts, maxLeaseOrders, maxRecords,
    accountIdleLifetime, accountRateWindow, orderRateWindow, orderLifetime,
    CertLifetime,     \* validity of an issued certificate
    MaxTime           \* bound: the clock stops here

ASSUME LimitAssumption ==
    {maxAccounts, maxAccountOrders, maxLeaseAccounts, maxLeaseOrders, maxRecords,
     accountIdleLifetime, accountRateWindow, orderRateWindow, orderLifetime,
     CertLifetime, MaxTime} \subseteq Nat \ {0}

VARIABLES
    now,
    mem,       \* Server.state
    disk,      \* the state file
    activity,  \* Server.activity: uses not saved yet, 0 if none
    made,      \* history: accounts and orders created, by source and by account
    seen,      \* history: the last use of each account that may count: by this
               \* process, or before the last save of an earlier one
    kept       \* history: what seen was at the last save

vars == <<now, mem, disk, activity, made, seen, kept>>

Time == 1..MaxTime
Stamps == [Time -> Nat]
NoStamps == [t \in Time |-> 0]
Add(times, t) == [times EXCEPT ![t] = @ + 1]
Count(times) == FoldFunction(LAMBDA a, b : a + b, 0, times)

\* The stamps after t - window.
recentTimes(times, t, window) ==
    [u \in Time |-> IF u + window > t THEN times[u] ELSE 0]

\* status, LastActive, RecentOrders; the orders that are pending or ready, by
\* the tick they expire at, and the last tick an issued order pins the account.
AccountRecord ==
    [status: {"unused", "valid", "gone"}, lastActive: 0..MaxTime, recent: Stamps,
     open: [1..(MaxTime + orderLifetime) -> Nat], pinned: 0..(MaxTime + CertLifetime)]
Unused == [status |-> "unused", lastActive |-> 0, recent |-> NoStamps,
           open |-> [t \in 1..(MaxTime + orderLifetime) |-> 0], pinned |-> 0]
leaseLimit == [accounts: Stamps, orders: Stamps]
NoLimit == [accounts |-> NoStamps, orders |-> NoStamps]
State == [accounts: [Account -> AccountRecord], limits: [Source -> leaseLimit]]

Existing(st) == {a \in Account : st.accounts[a].status = "valid"}
\* The sources with an entry in LeaseLimits.
Limited(st) == {s \in Source : st.limits[s] # NoLimit}
Unexpired(open) == [t \in DOMAIN open |-> IF now < t THEN open[t] ELSE 0]

Later(i, j) == IF i > j THEN i ELSE j

PruneAccount(r, active) ==
    LET last == Later(r.lastActive, active)
        open == Unexpired(r.open)
        referenced == Count(open) > 0 \/ now < r.pinned
    IN  IF last # 0 /\ now >= last + accountIdleLifetime /\ ~referenced
        THEN [Unused EXCEPT !.status = "gone"]
        ELSE [r EXCEPT !.lastActive = last, !.open = open,
                       !.recent = recentTimes(@, now, orderLifetime)]

PruneLimit(l) ==
    [accounts |-> recentTimes(l.accounts, now, accountRateWindow),
     orders |-> recentTimes(l.orders, now, orderRateWindow)]

prune(st, act) ==
    [accounts |-> [a \in Account |->
         IF a \in Existing(st) THEN PruneAccount(st.accounts[a], act[a])
                               ELSE st.accounts[a]],
     limits |-> [s \in Source |-> PruneLimit(st.limits[s])]]

NoActivity == [a \in Account |-> 0]

\* Faulty variants of commit: the quota entries are not saved; the uses are in
\* memory only.
CommitWithoutLimits(next, act) ==
    /\ mem' = prune(next, act)
    /\ disk' = [mem' EXCEPT !.limits = disk.limits]
    /\ activity' = NoActivity
CommitForgetful(next, act) ==
    /\ mem' = prune(next, act)
    /\ disk' = prune(next, NoActivity)
    /\ activity' = NoActivity

\* commit went past its rename.
commit(next, act) ==
    /\ mem' = prune(next, act)
    /\ disk' = mem'
    /\ activity' = NoActivity

-----------------------------------------------------------------------------

\* allowCreation's second check: room for an entry, stale entries not counted.
HasRoom(s) ==
    \/ s \in Limited(mem)
    \/ Cardinality({x \in Source : PruneLimit(mem.limits[x]) # NoLimit}) < maxRecords

allowAccount(s) ==
    /\ Count(recentTimes(mem.limits[s].accounts, now, accountRateWindow)) < maxLeaseAccounts
    /\ HasRoom(s)
allowOrder(s) ==
    /\ Count(recentTimes(mem.limits[s].orders, now, orderRateWindow)) < maxLeaseOrders
    /\ HasRoom(s)

\* touchAccount, and what it means for the history.
Touched(a) == [activity EXCEPT ![a] = now]
Use(a) == seen' = [seen EXCEPT ![a] = now]
Save == kept' = seen'

\* Any request that only reads, is refused, or fails to save.
read(a) ==
    /\ a \in Existing(mem)
    /\ activity' = Touched(a)
    /\ Use(a)
    /\ UNCHANGED <<now, mem, disk, made, kept>>

\* recordCreation appends to the source's list, without the stamps that ran out.
newAccount(s, a) ==
    LET next == prune(mem, activity)
    IN  /\ mem.accounts[a].status = "unused"
        /\ allowAccount(s)
        /\ Cardinality(Existing(next)) < maxAccounts
        /\ commit([accounts |-> [next.accounts EXCEPT ![a] =
                                    [Unused EXCEPT !.status = "valid", !.lastActive = now]],
                   limits |-> [next.limits EXCEPT ![s].accounts = Add(@, now)]], activity)
        /\ made' = [made EXCEPT !.accounts[s] = Add(@, now)]
        /\ Use(a) /\ Save
        /\ UNCHANGED now

AccountHasRoom(r) ==
    /\ Count(r.open) < maxAccountOrders
    /\ Count(r.recent) < maxAccountOrders

newOrder(s, a) ==
    LET next == prune(mem, Touched(a))
        r == next.accounts[a]
    IN  /\ a \in Existing(mem)
        /\ allowOrder(s)
        /\ AccountHasRoom(r)
        /\ commit([accounts |-> [next.accounts EXCEPT ![a] =
                                    [r EXCEPT !.open[now + orderLifetime] = @ + 1,
                                              !.recent = Add(@, now)]],
                   limits |-> [next.limits EXCEPT ![s].orders = Add(@, now)]], Touched(a))
        /\ made' = [made EXCEPT !.orders[s] = Add(@, now), !.by[a] = Add(@, now)]
        /\ Use(a) /\ Save
        /\ UNCHANGED now

\* An open order becomes invalid, or valid: then its certificate decides how
\* long it is kept.
closeOrder(a, t, issued) ==
    /\ a \in Existing(mem)
    /\ mem.accounts[a].open[t] > 0
    /\ now < t
    /\ commit([mem EXCEPT !.accounts[a].open[t] = @ - 1,
                          !.accounts[a].pinned =
                              IF issued THEN Later(@, now + CertLifetime) ELSE @], Touched(a))
    /\ Use(a) /\ Save
    /\ UNCHANGED <<now, made>>

\* A mutation that is no use of an account: a new list of revocations.
save ==
    /\ commit(mem, activity)
    /\ UNCHANGED <<now, made, seen>> /\ Save

Tick ==
    /\ now < MaxTime
    /\ now' = now + 1
    /\ UNCHANGED <<mem, disk, activity, made, seen, kept>>

\* The process dies; New restores the file and saves it.
Restart ==
    /\ commit(disk, NoActivity)
    /\ seen' = kept
    /\ UNCHANGED <<now, made, kept>>

Init ==
    /\ now = 1
    /\ mem = [accounts |-> [a \in Account |-> Unused], limits |-> [s \in Source |-> NoLimit]]
    /\ disk = mem
    /\ activity = NoActivity
    /\ made = [accounts |-> [s \in Source |-> NoStamps], orders |-> [s \in Source |-> NoStamps],
               by |-> [a \in Account |-> NoStamps]]
    /\ seen = NoActivity /\ kept = NoActivity

Next ==
    \/ \E a \in Account : read(a)
    \/ \E s \in Source, a \in Account : newAccount(s, a)
    \/ \E s \in Source, a \in Account : newOrder(s, a)
    \/ \E a \in Account, t \in 1..(MaxTime + orderLifetime), issued \in BOOLEAN :
           closeOrder(a, t, issued)
    \/ save
    \/ Tick
    \/ Restart

Spec == Init /\ [][Next]_vars

-----------------------------------------------------------------------------
(* Properties.                                                             *)

\* In no window (t - window, t], whatever restarts and failures it contains,
\* more than the maximum was created.
Within(times, maximum, window) ==
    \A t \in 1..now : Count([u \in Time |-> IF u <= t /\ u + window > t THEN times[u] ELSE 0]) <= maximum

\* Across all accounts, failures and restarts a DHCP client creates at most
\* maxLeaseAccounts accounts and maxLeaseOrders orders in any window, and an
\* account at most maxAccountOrders orders in any window of the order lifetime,
\* those that ended early included; the tables stay within their capacities
\* (allowCreation, recordCreation, newOrder, prune).
QuotasHold ==
    /\ \A s \in Source :
           /\ Within(made.accounts[s], maxLeaseAccounts, accountRateWindow)
           /\ Within(made.orders[s], maxLeaseOrders, orderRateWindow)
    /\ \A a \in Account : Within(made.by[a], maxAccountOrders, orderLifetime)
    /\ \A st \in {mem, disk} :
           /\ Cardinality(Existing(st)) <= maxAccounts
           /\ Cardinality(Limited(st)) <= maxRecords

\* Every account that is removed has not been used for its lifetime, and no
\* unexpired order or certificate refers to it (prune).  Every use counts that
\* this process has seen and, however often the process has restarted, every one
\* that some save came after: touchAccount leaves it to "the next mutation" to
\* save the time of a use, and nothing else of it may be lost.
OnlyIdleRemoved ==
    [][\A a \in Account :
           a \in Existing(mem) /\ a \notin Existing(mem)' =>
               /\ now >= seen'[a] + accountIdleLifetime
               /\ Count(Unexpired(mem.accounts[a].open)) = 0
               /\ now >= mem.accounts[a].pinned]_vars

=============================================================================
