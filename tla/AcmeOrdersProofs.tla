-------------------------- MODULE AcmeOrdersProofs --------------------------
(***************************************************************************)
(* Proofs about AcmeOrders, for any accounts, orders, keys, names, hosts   *)
(* and number of validations: what is saved can be restored, no check is   *)
(* stranded, proofs count only for the key they were made with, and a      *)
(* certificate is issued only to hosts that hold its names.                *)
(***************************************************************************)
EXTENDS AcmeOrders, TLAPS

Finalizing == [order: OrderId, left: SUBSET Name,
               during: [Name -> SUBSET (Target \cup {None})]]

Types ==
    /\ mem \in State /\ disk \in State
    /\ idle \in SUBSET Account
    /\ late \in [OrderId -> 0..2]
    /\ slots \in [Slot -> Validation \cup {None}]
    /\ mu \in Finalizing \cup {None}
    /\ holder \in [Name -> Target \cup {None}]

\* An authorization exists or not; a valid one has its proof.
AuthGood(auth) ==
    /\ auth.status = "none" <=> auth = NoAuth
    /\ auth.status = "valid" => auth.target # None /\ auth.challenge = "valid"

\* What an order of st looks like, with the account it belongs to.
OrderGood(st, o) ==
    /\ st.orders[o].status \in {"unused", "gone"} =>
           \A n \in Name : st.orders[o].auth[n].status = "none"
    /\ st.orders[o].status \notin {"unused", "gone"} =>
           /\ \E n \in Name : st.orders[o].auth[n].status # "none"
           /\ st.orders[o].account \in Account /\ Exists(st, st.orders[o].account)
    /\ Open(st.orders[o]) => st.accounts[st.orders[o].account].status = "valid"
    /\ \A n \in Name :
           /\ AuthGood(st.orders[o].auth[n])
           /\ st.orders[o].status = "ready" => st.orders[o].auth[n].status \in {"none", "valid"}

KeysApart(st) ==
    \A a, b \in Account :
        a # b /\ Exists(st, a) /\ Exists(st, b) => st.accounts[a].key # st.accounts[b].key

Good(st) == KeysApart(st) /\ \A o \in OrderId : OrderGood(st, o)

\* prune leaves no invalid order.
Settled(st) == \A o \in OrderId : st.orders[o].status # "invalid"

\* The file is what is in memory, but for checks that memory knows to have been
\* interrupted.
Agree(st, saved) ==
    /\ st.accounts = saved.accounts
    /\ \A o \in OrderId :
           /\ st.orders[o].status = saved.orders[o].status
           /\ st.orders[o].account = saved.orders[o].account
           /\ \A n \in Name :
                  \/ st.orders[o].auth[n] = saved.orders[o].auth[n]
                  \/ st.orders[o].auth[n] = Retry(saved.orders[o].auth[n])

\* A check under way is for an order of the account that asked for it, and its
\* authorization waits for it, unless it has been settled otherwise.
CheckGood(st, v) ==
    /\ st.orders[v.order].status # "unused"
    /\ st.orders[v.order].status \notin {"gone", "invalid"} => st.orders[v.order].account = v.account
    /\ st.orders[v.order].auth[v.name].status = "pending" =>
           st.orders[v.order].auth[v.name].challenge = "processing"
    /\ v.stage \in {"recheck", "proved"} => <<v.target, v.key>> \in Serves

Checks(sl, s, o, n) == sl[s] # None /\ sl[s].order = o /\ sl[s].name = n

InProcess(auth) == auth.status = "pending" /\ auth.challenge = "processing"

\* Each authorization in processing has its check, and none has two.
Tracks(st, sl) ==
    /\ \A s \in Slot : sl[s] # None => CheckGood(st, sl[s])
    /\ \A s, u \in Slot, o \in OrderId, n \in Name :
           Checks(sl, s, o, n) /\ Checks(sl, u, o, n) => s = u
    /\ \A o \in OrderId, n \in Name :
           InProcess(st.orders[o].auth[n]) => \E s \in Slot : Checks(sl, s, o, n)

\* While finalize holds the lock its order stays ready, and the names it has
\* looked up were leased to the hosts that proved them.
MuInv ==
    mu # None =>
        /\ mem.orders[mu.order].status = "ready"
        /\ \A n \in Name :
               /\ holder[n] \in mu.during[n]
               /\ mem.orders[mu.order].auth[n].status # "none" /\ n \notin mu.left =>
                      mem.orders[mu.order].auth[n].target \in mu.during[n] \ {None}

IInv ==
    /\ Types
    /\ Good(mem) /\ Settled(mem) /\ Good(disk) /\ Settled(disk) /\ Agree(mem, disk)
    /\ Tracks(mem, slots)
    /\ MuInv
    /\ \A o \in OrderId : mem.orders[o].status = "unused" => late[o] = 0

\* What a step may do to the orders.
StepGood == ProofIsCurrent /\ IssueIsCurrent /\ Forward

-----------------------------------------------------------------------------
(* The operators.                                                          *)

\* Retry changes nothing but a pending check's state.
LEMMA RetryFacts ==
    ASSUME NEW auth \in AuthRec
    PROVE  /\ Retry(auth) \in AuthRec
           /\ Retry(auth).status = auth.status /\ Retry(auth).target = auth.target
           /\ auth.status # "pending" => Retry(auth) = auth
           /\ ~InProcess(Retry(auth))
BY DEF Retry, AuthRec, InProcess

\* An order that does not exist.
LEMMA NoOrderFacts ==
    ASSUME NEW s \in {"unused", "gone"}
    PROVE  /\ NoOrder(s) \in OrderRec /\ NoOrder(s).status = s /\ NoOrder(s).account = None
           /\ \A n \in Name : NoOrder(s).auth[n] = NoAuth /\ NoOrder(s).auth[n].status = "none"
BY DEF NoOrder, OrderRec, NoAuth, AuthRec

\* An authorization that exists and is not valid.
LEMMA LiveAuth ==
    ASSUME NEW auth, auth.status \in {"pending", "invalid", "deactivated"} PROVE AuthGood(auth)
BY DEF AuthGood, NoAuth

\* A validation under way, in any table of the slots.
LEMMA TrackedCheck ==
    ASSUME NEW st, NEW sl \in [Slot -> Validation \cup {None}], Tracks(st, sl),
           NEW u \in Slot, sl[u] # None
    PROVE  sl[u].order \in OrderId /\ sl[u].name \in Name /\ CheckGood(st, sl[u])
<1>1. sl[u] \in Validation
  OBVIOUS
<1>2. CheckGood(st, sl[u])
  BY Zenon DEF Tracks
<1>. QED BY <1>1, <1>2 DEF Validation

\* No authorization has two.
LEMMA TrackedOnce ==
    ASSUME NEW st, NEW sl, Tracks(st, sl), NEW s \in Slot, NEW u \in Slot,
           NEW o \in OrderId, NEW n \in Name, Checks(sl, s, o, n), Checks(sl, u, o, n)
    PROVE  s = u
BY Zenon DEF Tracks

\* One that does not exist.
LEMMA NoAuthGood == AuthGood(NoAuth) /\ NoAuth.status = "none"
BY DEF AuthGood, NoAuth

\* An order is good as long as it and its account's status stay as they are.
LEMMA SameOrder ==
    ASSUME NEW st, NEW next, NEW o, OrderGood(st, o), next.orders[o] = st.orders[o],
           next.accounts[st.orders[o].account].status = st.accounts[st.orders[o].account].status
    PROVE  OrderGood(next, o)
<1>1. Exists(next, st.orders[o].account) <=> Exists(st, st.orders[o].account)
  BY DEF Exists
<1>. QED BY <1>1, Zenon DEF OrderGood

\* What prune does to each order and each account.
LEMMA PruneEach ==
    ASSUME NEW st \in State, NEW i
    PROVE  /\ prune(st, i) \in State
           /\ \A o \in OrderId :
                  /\ Kept(st, o) \/ st.orders[o].status = "unused" =>
                         prune(st, i).orders[o] = st.orders[o]
                  /\ ~(Kept(st, o) \/ st.orders[o].status = "unused") =>
                         prune(st, i).orders[o] = NoOrder("gone")
           /\ \A a \in Account :
                  \/ prune(st, i).accounts[a] = st.accounts[a]
                  \/ /\ prune(st, i).accounts[a] = [status |-> "gone", key |-> None]
                     /\ \A o \in OrderId : Kept(st, o) => st.orders[o].account # a
<1> DEFINE acc == [a \in Account |->
                       IF /\ Exists(st, a) /\ a \in i
                          /\ \A o \in OrderId : Kept(st, o) => st.orders[o].account # a
                       THEN [status |-> "gone", key |-> None] ELSE st.accounts[a]]
           ord == [o \in OrderId |->
                       IF Kept(st, o) \/ st.orders[o].status = "unused"
                       THEN st.orders[o] ELSE NoOrder("gone")]
<1>1. prune(st, i) = [accounts |-> acc, orders |-> ord]
  BY DEF prune
<1>2. acc \in [Account -> AccountRec]
  BY DEF State, AccountRec
<1>3. ord \in [OrderId -> OrderRec]
  BY NoOrderFacts DEF State
<1>4. prune(st, i) \in State /\ prune(st, i).accounts = acc /\ prune(st, i).orders = ord
  BY <1>1, <1>2, <1>3 DEF State
<1>5. ASSUME NEW o \in OrderId
      PROVE  ord[o] = IF Kept(st, o) \/ st.orders[o].status = "unused"
                      THEN st.orders[o] ELSE NoOrder("gone")
  OBVIOUS
<1>6. ASSUME NEW a \in Account
      PROVE  \/ acc[a] = st.accounts[a]
             \/ /\ acc[a] = [status |-> "gone", key |-> None]
                /\ \A o \in OrderId : Kept(st, o) => st.orders[o].account # a
  OBVIOUS
<1> HIDE DEF acc, ord
<1>. QED BY <1>4, <1>5, <1>6

\* prune keeps what is good.
LEMMA PruneFacts ==
    ASSUME NEW st \in State, Good(st), NEW i
    PROVE  /\ prune(st, i) \in State /\ Good(prune(st, i)) /\ Settled(prune(st, i))
           /\ \A o \in OrderId :
                  \/ prune(st, i).orders[o] = st.orders[o] /\ st.orders[o].status # "invalid"
                  \/ /\ prune(st, i).orders[o] = NoOrder("gone")
                     /\ st.orders[o].status # "unused" /\ ~Kept(st, o)
<1> DEFINE p == prune(st, i)
<1>1. p \in State
  BY PruneEach
<1>2. ASSUME NEW o \in OrderId
      PROVE  \/ p.orders[o] = st.orders[o] /\ (Kept(st, o) \/ st.orders[o].status = "unused")
             \/ /\ p.orders[o] = NoOrder("gone")
                /\ st.orders[o].status # "unused" /\ ~Kept(st, o)
  BY PruneEach
<1>3. ASSUME NEW a \in Account
      PROVE  \/ p.accounts[a] = st.accounts[a]
             \/ /\ p.accounts[a] = [status |-> "gone", key |-> None]
                /\ \A o \in OrderId : Kept(st, o) => st.orders[o].account # a
  BY PruneEach
<1> HIDE DEF p
<1>4. KeysApart(p)
  BY <1>3 DEF Good, KeysApart, Exists
<1>5. ASSUME NEW o \in OrderId PROVE OrderGood(p, o) /\ p.orders[o].status # "invalid"
  <2>1. CASE p.orders[o] = st.orders[o] /\ Kept(st, o)
    <3>1. OrderGood(st, o) /\ st.orders[o].status \notin {"unused", "gone", "invalid"}
      BY <2>1 DEF Good, Kept
    <3>2. st.orders[o].account \in Account
      BY <3>1 DEF OrderGood
    <3>3. p.accounts[st.orders[o].account] = st.accounts[st.orders[o].account]
      BY <1>3, <2>1, <3>2
    <3>. QED BY <2>1, <3>1, <3>3, SameOrder
  <2>2. CASE p.orders[o] = st.orders[o] /\ st.orders[o].status = "unused"
    BY <2>2 DEF Good, OrderGood, Open
  <2>3. CASE p.orders[o] = NoOrder("gone")
    BY <2>3, NoOrderFacts, NoAuthGood DEF OrderGood, Open
  <2>. QED BY <1>2, <2>1, <2>2, <2>3
<1>6. ASSUME NEW o \in OrderId
      PROVE  \/ p.orders[o] = st.orders[o] /\ st.orders[o].status # "invalid"
             \/ /\ p.orders[o] = NoOrder("gone")
                /\ st.orders[o].status # "unused" /\ ~Kept(st, o)
  BY <1>2 DEF Kept
<1>. QED BY <1>1, <1>4, <1>5, <1>6 DEF p, Good, Settled

\* prune leaves the checks under way where they are.
LEMMA PruneTracks ==
    ASSUME NEW st, NEW p, NEW sl \in [Slot -> Validation \cup {None}], Tracks(st, sl),
           \A o \in OrderId :
               \/ p.orders[o] = st.orders[o] /\ st.orders[o].status # "invalid"
               \/ p.orders[o] = NoOrder("gone") /\ st.orders[o].status # "unused"
    PROVE  Tracks(p, sl)
<1>1. ASSUME NEW s \in Slot, sl[s] # None PROVE CheckGood(p, sl[s])
  <2>1. CheckGood(st, sl[s]) /\ sl[s].order \in OrderId /\ sl[s].name \in Name
    BY <1>1 DEF Tracks, Validation
  <2>. QED BY <2>1, NoOrderFacts, Zenon DEF CheckGood
<1>2. ASSUME NEW o \in OrderId, NEW n \in Name, InProcess(p.orders[o].auth[n])
      PROVE  \E s \in Slot : Checks(sl, s, o, n)
  BY <1>2, NoOrderFacts DEF Tracks, InProcess
<1>. QED BY <1>1, <1>2 DEF Tracks

\* next is st with one authorization replaced.
WithAuth(next, st, o, n, auth) ==
    /\ next \in State /\ next.accounts = st.accounts
    /\ \A p \in OrderId \ {o} : next.orders[p] = st.orders[p]
    /\ next.orders[o].status = st.orders[o].status
    /\ next.orders[o].account = st.orders[o].account
    /\ next.orders[o].auth[n] = auth
    /\ \A m \in Name \ {n} : next.orders[o].auth[m] = st.orders[o].auth[m]

\* SetAuth replaces one authorization.
LEMMA SetAuthFacts ==
    ASSUME NEW st \in State, NEW o \in OrderId, NEW n \in Name, NEW auth \in AuthRec
    PROVE  WithAuth(SetAuth(st, o, n, auth), st, o, n, auth)
<1> DEFINE f == [st.orders[o].auth EXCEPT ![n] = auth]
           r == [st.orders[o] EXCEPT !.auth = f]
           ord == [st.orders EXCEPT ![o] = r]
<1>1. SetAuth(st, o, n, auth) = [st EXCEPT !.orders = ord]
  BY DEF SetAuth
<1>2. f \in [Name -> AuthRec] /\ f[n] = auth
      /\ \A m \in Name \ {n} : f[m] = st.orders[o].auth[m]
  BY DEF State, OrderRec
<1> HIDE DEF f
<1>3. /\ r \in OrderRec /\ r.auth = f /\ r.status = st.orders[o].status
      /\ r.account = st.orders[o].account
  BY <1>2 DEF State, OrderRec
<1> HIDE DEF r
<1>4. ord \in [OrderId -> OrderRec] /\ ord[o] = r /\ \A p \in OrderId \ {o} : ord[p] = st.orders[p]
  BY <1>3 DEF State
<1> HIDE DEF ord
<1>5. LET next == [st EXCEPT !.orders = ord]
      IN  next \in State /\ next.accounts = st.accounts /\ next.orders = ord
  BY <1>4 DEF State
<1>. QED BY <1>1, <1>2, <1>3, <1>4, <1>5 DEF WithAuth

\* The states handlers put orders in.
GivenStatus == {"pending", "ready", "valid", "invalid"}

\* next is st with the status of one order replaced.
WithStatus(next, st, o, x) ==
    /\ next \in State /\ next.accounts = st.accounts
    /\ \A p \in OrderId \ {o} : next.orders[p] = st.orders[p]
    /\ next.orders[o].status = x
    /\ next.orders[o].account = st.orders[o].account
    /\ next.orders[o].auth = st.orders[o].auth

\* SetStatus replaces the status of one order.
LEMMA SetStatusFacts ==
    ASSUME NEW st \in State, NEW o \in OrderId, NEW x \in GivenStatus
    PROVE  WithStatus(SetStatus(st, o, x), st, o, x)
<1> DEFINE r == [st.orders[o] EXCEPT !.status = x]
           ord == [st.orders EXCEPT ![o] = r]
<1>1. SetStatus(st, o, x) = [st EXCEPT !.orders = ord]
  BY DEF SetStatus
<1>2. /\ r \in OrderRec /\ r.status = x /\ r.account = st.orders[o].account
      /\ r.auth = st.orders[o].auth
  BY DEF State, OrderRec, GivenStatus
<1> HIDE DEF r
<1>3. ord \in [OrderId -> OrderRec] /\ ord[o] = r /\ \A p \in OrderId \ {o} : ord[p] = st.orders[p]
  BY <1>2 DEF State
<1> HIDE DEF ord
<1>4. LET next == [st EXCEPT !.orders = ord]
      IN  next \in State /\ next.accounts = st.accounts /\ next.orders = ord
  BY <1>3 DEF State
<1>. QED BY <1>1, <1>2, <1>3, <1>4 DEF WithStatus

-----------------------------------------------------------------------------
(* Steps in general.                                                       *)

\* The moves of an order before prune has taken the invalid ones out.
Moves ==
    {<<"unused", "pending">>, <<"pending", "ready">>, <<"ready", "valid">>}
    \cup {<<x, x>> : x \in {"unused", "pending", "ready", "valid", "gone"}}
    \cup {<<x, "invalid">> : x \in {"pending", "ready", "valid"}}

\* A new order is pending, and none becomes unused again.
LEMMA MovesFacts ==
    ASSUME NEW x, NEW y, <<x, y>> \in Moves
    PROVE  /\ x = "unused" => y \in {"unused", "pending"} /\ y # "invalid"
           /\ y = "unused" => x = "unused"
BY DEF Moves

\* Order o may become what it is in next.
MayBecome(next, o) ==
    /\ <<mem.orders[o].status, next.orders[o].status>> \in Moves
    /\ mem.orders[o].status # "valid" /\ next.orders[o].status = "valid" =>
           /\ mu # None /\ mu.order = o
           /\ mem.accounts[mem.orders[o].account].status = "valid"
           /\ \A n \in Name : mem.orders[o].auth[n].status # "none" =>
                  mem.orders[o].auth[n].target \in mu.during[n] \ {None}
    /\ \A n \in Name :
           mem.orders[o].auth[n].status = "pending" /\ next.orders[o].auth[n].status = "valid" =>
               /\ mem.accounts[mem.orders[o].account].status = "valid"
               /\ <<next.orders[o].auth[n].target, mem.accounts[mem.orders[o].account].key>> \in Serves

\* What is left as it is may be.
LEMMA SameMayBe ==
    ASSUME IInv, NEW o \in OrderId, NEW next, next.orders[o] = mem.orders[o]
    PROVE  MayBecome(next, o)
<1>1. mem.orders[o].status \in {"unused", "pending", "ready", "valid", "gone"}
  BY DEF IInv, Types, State, OrderRec, Settled
<1>. QED BY <1>1 DEF MayBecome, Moves

\* MayBecome looks at the order only.
LEMMA AlikeBecomes ==
    ASSUME NEW o, NEW next, NEW other, other.orders[o] = next.orders[o], MayBecome(next, o)
    PROVE  MayBecome(other, o)
BY Zenon DEF MayBecome

\* From what each order becomes to the properties of steps.
LEMMA StepsAreGood ==
    ASSUME IInv,
           \A o \in OrderId :
               \/ MayBecome(mem', o) /\ mem'.orders[o].status # "invalid"
               \/ mem'.orders[o] = NoOrder("gone") /\ mem.orders[o].status # "unused"
    PROVE  StepGood
<1>1. ProofIsCurrent
  <2> SUFFICES ASSUME NEW o \in OrderId, NEW n \in Name,
                      mem.orders[o].auth[n].status = "pending",
                      mem'.orders[o].auth[n].status = "valid"
               PROVE  /\ mem.accounts[mem.orders[o].account].status = "valid"
                      /\ <<mem'.orders[o].auth[n].target,
                           mem.accounts[mem.orders[o].account].key>> \in Serves
    BY DEF ProofIsCurrent
  <2>1. MayBecome(mem', o)
    BY NoOrderFacts
  <2>. QED BY <2>1, Zenon DEF MayBecome
<1>2. IssueIsCurrent
  <2> SUFFICES ASSUME NEW o \in OrderId, mem.orders[o].status # "valid",
                      mem'.orders[o].status = "valid"
               PROVE  /\ mu # None /\ mu.order = o
                      /\ mem.accounts[mem.orders[o].account].status = "valid"
                      /\ \A n \in Names(mem.orders[o]) :
                             mem.orders[o].auth[n].target \in mu.during[n] \ {None}
    BY DEF IssueIsCurrent
  <2>1. MayBecome(mem', o)
    BY NoOrderFacts
  <2>2. \A n \in Names(mem.orders[o]) : n \in Name /\ mem.orders[o].auth[n].status # "none"
    <3>1. OrderGood(mem, o)
      BY DEF IInv, Good
    <3>. QED BY <3>1 DEF Names, OrderGood, AuthGood
  <2>. QED BY <2>1, <2>2, Zenon DEF MayBecome
<1>3. Forward
  <2> SUFFICES ASSUME NEW o \in OrderId
               PROVE  <<mem.orders[o].status, mem'.orders[o].status>> \in
                          {<<"unused", "pending">>, <<"pending", "ready">>, <<"ready", "valid">>,
                           <<"pending", "gone">>, <<"ready", "gone">>, <<"valid", "gone">>}
                          \cup {<<x, x>> : x \in {"unused", "pending", "ready", "valid", "gone"}}
    BY DEF Forward
  <2>1. CASE MayBecome(mem', o) /\ mem'.orders[o].status # "invalid"
    BY <2>1, Zenon DEF MayBecome, Moves
  <2>2. CASE mem'.orders[o].status = "gone" /\ mem.orders[o].status # "unused"
    <3>1. mem.orders[o].status \in {"pending", "ready", "valid", "gone"}
      BY <2>2 DEF IInv, Types, State, OrderRec, Settled
    <3>. QED BY <2>2, <3>1
  <2>. QED BY <2>1, <2>2, NoOrderFacts
<1>. QED BY <1>1, <1>2, <1>3 DEF StepGood

\* A commit: from the snapshot next to the invariant.
LEMMA CommitKeeps ==
    ASSUME IInv, NEW next \in State, Good(next), \A o \in OrderId : MayBecome(next, o),
           NEW i, commit(next, i), idle' \in SUBSET Account, mu' = None, UNCHANGED <<late, holder>>,
           slots' \in [Slot -> Validation \cup {None}], Tracks(next, slots')
    PROVE  IInv' /\ StepGood
<1>1. /\ mem' \in State /\ Good(mem') /\ Settled(mem') /\ disk' = mem'
      /\ \A o \in OrderId :
             \/ mem'.orders[o] = next.orders[o] /\ next.orders[o].status # "invalid"
             \/ /\ mem'.orders[o] = NoOrder("gone")
                /\ next.orders[o].status # "unused" /\ ~Kept(next, o)
  BY PruneFacts DEF commit
<1>2. ASSUME NEW o \in OrderId, mem.orders[o].status = "unused"
      PROVE  mem'.orders[o] = next.orders[o] /\ late[o] = 0
  <2>1. late[o] = 0
    BY <1>2 DEF IInv
  <2>2. next.orders[o].status \in {"unused", "pending"} /\ next.orders[o].status # "invalid"
    <3>1. <<mem.orders[o].status, next.orders[o].status>> \in Moves
      BY DEF MayBecome
    <3>. QED BY <1>2, <3>1, MovesFacts
  <2>. QED BY <1>1, <2>1, <2>2 DEF Kept, Unexpired
<1>3. StepGood
  <2>1. ASSUME NEW o \in OrderId
        PROVE  \/ MayBecome(mem', o) /\ mem'.orders[o].status # "invalid"
               \/ mem'.orders[o] = NoOrder("gone") /\ mem.orders[o].status # "unused"
    <3>1. mem.orders[o].status = "unused" => next.orders[o].status # "invalid"
      BY <1>2, MovesFacts DEF MayBecome
    <3>2. mem'.orders[o] = next.orders[o] => MayBecome(mem', o)
      BY AlikeBecomes
    <3>. QED BY <1>1, <1>2, <3>1, <3>2
  <2>. QED BY <2>1, StepsAreGood
<1>4. Tracks(mem', slots')
  BY <1>1, PruneTracks
<1>5. \A o \in OrderId : mem'.orders[o].status = "unused" => late'[o] = 0
  <2> SUFFICES ASSUME NEW o \in OrderId, mem'.orders[o].status = "unused" PROVE late[o] = 0
    OBVIOUS
  <2>1. next.orders[o].status = "unused"
    BY <1>1, NoOrderFacts
  <2>2. mem.orders[o].status = "unused"
    BY <2>1, MovesFacts DEF MayBecome
  <2>. QED BY <1>2, <2>2
<1>6. Types' /\ MuInv' /\ Agree(mem, disk)'
  BY <1>1, Zenon DEF IInv, Types, MuInv, Agree
<1>. QED BY <1>1, <1>3, <1>4, <1>5, <1>6 DEF IInv

\* A step that leaves the snapshots alone.
LEMMA QuietKeeps ==
    ASSUME IInv, UNCHANGED <<mem, disk>>, Types', Tracks(mem, slots'), MuInv',
           \A o \in OrderId : mem.orders[o].status = "unused" => late'[o] = 0
    PROVE  IInv' /\ StepGood
<1>1. \A o \in OrderId : MayBecome(mem, o) /\ mem.orders[o].status # "invalid"
  BY SameMayBe DEF IInv, Settled
<1>2. StepGood
  <2>1. \A o \in OrderId : MayBecome(mem', o) /\ mem'.orders[o].status # "invalid"
    BY <1>1, AlikeBecomes
  <2>. QED BY <2>1, StepsAreGood
<1>3. IInv'
  <2>1. Good(mem)' /\ Settled(mem)' /\ Good(disk)' /\ Settled(disk)' /\ Agree(mem, disk)'
    BY DEF IInv
  <2>2. Tracks(mem, slots)'
    BY DEF IInv
  <2>. QED BY <2>1, <2>2 DEF IInv
<1>. QED BY <1>2, <1>3

\* Only order o changes.
LEMMA OneOrder ==
    ASSUME NEW st, NEW next, NEW o \in OrderId, next.accounts = st.accounts,
           \A p \in OrderId \ {o} : next.orders[p] = st.orders[p],
           Good(st), OrderGood(next, o)
    PROVE  Good(next)
<1>1. \A a : Exists(next, a) <=> Exists(st, a)
  BY DEF Exists
<1>2. ASSUME NEW p \in OrderId, p # o PROVE OrderGood(next, p)
  <2>1. OrderGood(st, p) /\ next.orders[p] = st.orders[p]
    BY <1>2 DEF Good
  <2>. QED BY <2>1, SameOrder
<1>3. KeysApart(next)
  BY <1>1 DEF KeysApart, Good
<1>. QED BY <1>2, <1>3 DEF Good

\* next is st with another order o, for which the checks of sl are right.
TracksOne(next, st, o, sl) ==
    /\ \A p \in OrderId \ {o} : next.orders[p] = st.orders[p]
    /\ sl \in [Slot -> Validation \cup {None}] /\ Tracks(st, sl)
    /\ \A s \in Slot : sl[s] # None /\ sl[s].order = o => CheckGood(next, sl[s])
    /\ \A n \in Name : InProcess(next.orders[o].auth[n]) => InProcess(st.orders[o].auth[n])

\* The same for the checks under way.
LEMMA OneOrderTracks ==
    ASSUME NEW st, NEW next, NEW o \in OrderId, NEW sl, TracksOne(next, st, o, sl)
    PROVE  Tracks(next, sl)
<1>0. /\ \A p \in OrderId \ {o} : next.orders[p] = st.orders[p]
      /\ sl \in [Slot -> Validation \cup {None}] /\ Tracks(st, sl)
      /\ \A s \in Slot : sl[s] # None /\ sl[s].order = o => CheckGood(next, sl[s])
      /\ \A n \in Name : InProcess(next.orders[o].auth[n]) => InProcess(st.orders[o].auth[n])
  BY DEF TracksOne
<1>1. ASSUME NEW s \in Slot, sl[s] # None PROVE CheckGood(next, sl[s])
  <2>1. CASE sl[s].order = o
    BY <1>0, <1>1, <2>1
  <2>2. CASE sl[s].order # o
    <3>1. sl[s].order \in OrderId /\ CheckGood(st, sl[s])
      BY <1>0, <1>1 DEF Validation, Tracks
    <3>2. next.orders[sl[s].order] = st.orders[sl[s].order]
      BY <1>0, <2>2, <3>1
    <3>. QED BY <1>0, <3>1, <3>2, Zenon DEF CheckGood
  <2>. QED BY <1>0, <2>1, <2>2
<1>2. ASSUME NEW p \in OrderId, NEW n \in Name, InProcess(next.orders[p].auth[n])
      PROVE  \E s \in Slot : Checks(sl, s, p, n)
  <2>1. InProcess(st.orders[p].auth[n])
    BY <1>0, <1>2
  <2>. QED BY <1>0, <2>1 DEF Tracks
<1>. QED BY <1>0, <1>1, <1>2 DEF Tracks

-----------------------------------------------------------------------------
(* Accounts.                                                               *)

\* A commit that changes accounts, and none that an order refers to but in its key.
LEMMA AccountsOnly ==
    ASSUME IInv, NEW next \in State, next.orders = mem.orders, KeysApart(next),
           \A o \in OrderId : mem.orders[o].status \notin {"unused", "gone"} =>
               next.accounts[mem.orders[o].account].status
                   = mem.accounts[mem.orders[o].account].status,
           NEW i, commit(next, i), idle' \in SUBSET Account,
           mu' = None, UNCHANGED <<late, slots, holder>>
    PROVE  IInv' /\ StepGood
<1>1. ASSUME NEW o \in OrderId PROVE OrderGood(next, o)
  <2>1. OrderGood(mem, o)
    BY DEF IInv, Good
  <2>2. CASE mem.orders[o].status \in {"unused", "gone"}
    BY <2>1, <2>2 DEF OrderGood, Open
  <2>3. CASE mem.orders[o].status \notin {"unused", "gone"}
    BY <2>1, <2>3, SameOrder
  <2>. QED BY <2>2, <2>3
<1>2. \A o \in OrderId : MayBecome(next, o)
  BY SameMayBe
<1>3. Tracks(next, slots') /\ slots' \in [Slot -> Validation \cup {None}]
  BY Zenon DEF IInv, Types, Tracks, CheckGood
<1>. QED BY <1>1, <1>2, <1>3, CommitKeeps DEF Good

\* A commit of what is in memory.
LEMMA SaveKeeps ==
    ASSUME IInv, NEW i, commit(mem, i), idle' \in SUBSET Account,
           mu' = None, UNCHANGED <<late, slots, holder>>
    PROVE  IInv' /\ StepGood
BY AccountsOnly DEF IInv, Types, Good

\* What Enter says.
LEMMA EnterFacts ==
    ASSUME IInv, NEW a \in Account, NEW k, Enter(a, k)
    PROVE  /\ mu = None /\ idle' \in SUBSET Account
           /\ mem.accounts[a].status = "valid" /\ mem.accounts[a].key = k
BY DEF Enter, activeAccount, IInv, Types

\* One account's record is replaced.
LEMMA SetAccountFacts ==
    ASSUME NEW st \in State, NEW a \in Account, NEW r \in AccountRec
    PROVE  LET next == [st EXCEPT !.accounts[a] = r]
           IN  /\ next \in State /\ next.orders = st.orders /\ next.accounts[a] = r
               /\ \A b \in Account \ {a} : next.accounts[b] = st.accounts[b]
<1> DEFINE acc == [st.accounts EXCEPT ![a] = r]
<1>1. [st EXCEPT !.accounts[a] = r] = [st EXCEPT !.accounts = acc]
  OBVIOUS
<1>2. acc \in [Account -> AccountRec] /\ acc[a] = r /\ \A b \in Account \ {a} : acc[b] = st.accounts[b]
  BY DEF State
<1> HIDE DEF acc
<1>3. LET next == [st EXCEPT !.accounts = acc]
      IN  next \in State /\ next.orders = st.orders /\ next.accounts = acc
  BY <1>2 DEF State
<1>. QED BY <1>1, <1>2, <1>3, Zenon

\* A request that changes nothing but the mark of use.
LEMMA ReadKeeps ==
    ASSUME IInv, NEW a \in Account, NEW k, Read(a, k) PROVE IInv' /\ StepGood
<1>1. mu = None /\ idle' \in SUBSET Account /\ UNCHANGED <<mem, disk, late, slots, mu, holder>>
  BY EnterFacts DEF Read
<1>2. Types' /\ Tracks(mem, slots') /\ MuInv'
  BY <1>1 DEF IInv, Types, MuInv
<1>. QED BY <1>1, <1>2, QuietKeeps DEF IInv

\* An account is made, with a key no other has.
LEMMA NewAccountKeeps ==
    ASSUME IInv, NEW k \in Key, newAccount(k) PROVE IInv' /\ StepGood
<1>0. mu = None /\ UNCHANGED <<late, slots, mu, holder>>
  BY DEF newAccount
<1>1. CASE InUse(k)
  <2>1. idle' \in SUBSET Account /\ UNCHANGED <<mem, disk>>
    BY <1>1 DEF newAccount, IInv, Types
  <2>2. Types' /\ Tracks(mem, slots') /\ MuInv'
    BY <1>0, <2>1 DEF IInv, Types, MuInv
  <2>. QED BY <1>0, <2>1, <2>2, QuietKeeps DEF IInv
<1>2. CASE ~InUse(k)
  <2> DEFINE r == [status |-> "valid", key |-> k]
             next(a) == [mem EXCEPT !.accounts[a] = r]
  <2>1. PICK a \in Account : mem.accounts[a].status = "unused" /\ idle' = idle /\ commit(next(a), idle)
    BY <1>2 DEF newAccount
  <2>2. r \in AccountRec /\ r.status = "valid" /\ r.key = k
    BY DEF AccountRec
  <2>3. /\ next(a) \in State /\ next(a).orders = mem.orders /\ next(a).accounts[a] = r
        /\ \A b \in Account \ {a} : next(a).accounts[b] = mem.accounts[b]
    BY <2>2, SetAccountFacts DEF IInv, Types
  <2> HIDE DEF r, next
  <2>4. KeysApart(next(a))
    BY <1>2, <2>2, <2>3 DEF KeysApart, InUse, Exists, IInv, Good
  <2>5. ASSUME NEW o \in OrderId, mem.orders[o].status \notin {"unused", "gone"}
        PROVE  next(a).accounts[mem.orders[o].account].status
                   = mem.accounts[mem.orders[o].account].status
    <3>1. mem.orders[o].account \in Account /\ Exists(mem, mem.orders[o].account)
      BY <2>5, Zenon DEF IInv, Good, OrderGood
    <3>. QED BY <2>1, <2>3, <3>1 DEF Exists
  <2>6. idle' \in SUBSET Account
    BY <2>1 DEF IInv, Types
  <2>. QED BY <1>0, <2>1, <2>3, <2>4, <2>5, <2>6, AccountsOnly
<1>. QED BY <1>1, <1>2

\* An update saves the account as it is.
LEMMA UpdateAccountKeeps ==
    ASSUME IInv, NEW a \in Account, NEW k, updateAccount(a, k) PROVE IInv' /\ StepGood
BY EnterFacts, SaveKeeps DEF updateAccount

\* A key is rolled over to one no account has.
LEMMA KeyChangeKeeps ==
    ASSUME IInv, NEW a \in Account, NEW k, NEW new \in Key, keyChange(a, k, new)
    PROVE  IInv' /\ StepGood
<1> DEFINE r == [mem.accounts[a] EXCEPT !.key = new]
           next == [mem EXCEPT !.accounts[a] = r]
<1>1. /\ mu = None /\ idle' \in SUBSET Account /\ mem.accounts[a].status = "valid"
      /\ ~InUse(new) /\ UNCHANGED <<late, slots, mu, holder>>
      /\ commit([mem EXCEPT !.accounts[a].key = new], idle')
  BY EnterFacts DEF keyChange
<1>2. next = [mem EXCEPT !.accounts[a].key = new]
  OBVIOUS
<1>3. r \in AccountRec /\ r.status = "valid" /\ r.key = new
  BY <1>1 DEF AccountRec, IInv, Types, State
<1> HIDE DEF r
<1>4. /\ next \in State /\ next.orders = mem.orders /\ next.accounts[a] = r
      /\ \A b \in Account \ {a} : next.accounts[b] = mem.accounts[b]
  BY <1>3, SetAccountFacts DEF IInv, Types
<1> HIDE DEF next
<1>5. KeysApart(next)
  BY <1>1, <1>3, <1>4 DEF KeysApart, InUse, Exists, IInv, Good
<1>6. ASSUME NEW o \in OrderId, mem.orders[o].status \notin {"unused", "gone"}
      PROVE  next.accounts[mem.orders[o].account].status
                 = mem.accounts[mem.orders[o].account].status
  <2>1. mem.orders[o].account \in Account
    BY <1>6, Zenon DEF IInv, Good, OrderGood
  <2>. QED BY <1>1, <1>3, <1>4, <2>1
<1>. QED BY <1>1, <1>2, <1>4, <1>5, <1>6, AccountsOnly, Zenon

\* A refresh of the CRL saves the state as it is.
LEMMA ServeCRLKeeps == ASSUME IInv, serveCRL PROVE IInv' /\ StepGood
BY SaveKeeps DEF serveCRL, IInv, Types

\* Checks go on when authorizations that wait stay as they are.
LEMMA TracksOn ==
    ASSUME NEW st, NEW next, NEW sl \in [Slot -> Validation \cup {None}], Tracks(st, sl),
           \A o \in OrderId :
               /\ next.orders[o].status = "unused" => st.orders[o].status = "unused"
               /\ next.orders[o].status \notin {"gone", "invalid"} =>
                      /\ st.orders[o].status \notin {"gone", "invalid"}
                      /\ next.orders[o].account = st.orders[o].account
               /\ \A n \in Name : next.orders[o].auth[n].status = "pending" =>
                      next.orders[o].auth[n] = st.orders[o].auth[n]
    PROVE  Tracks(next, sl)
<1>1. ASSUME NEW s \in Slot, sl[s] # None PROVE CheckGood(next, sl[s])
  <2>1. CheckGood(st, sl[s]) /\ sl[s].order \in OrderId /\ sl[s].name \in Name
    BY <1>1 DEF Tracks, Validation
  <2>. QED BY <2>1, Zenon DEF CheckGood
<1>2. ASSUME NEW o \in OrderId, NEW n \in Name, InProcess(next.orders[o].auth[n])
      PROVE  \E s \in Slot : Checks(sl, s, o, n)
  <2>1. InProcess(st.orders[o].auth[n])
    BY <1>2 DEF InProcess
  <2>. QED BY <2>1 DEF Tracks
<1>. QED BY <1>1, <1>2 DEF Tracks

\* What deactivateAccount makes of an order of account a.
Cancelled(order, a) ==
    IF order.account # a THEN order
    ELSE [order EXCEPT
             !.status = IF Open(order) THEN "invalid" ELSE @,
             !.auth = [n \in Name |->
                 IF @[n].status # "pending" THEN @[n]
                 ELSE [@[n] EXCEPT !.status = "deactivated", !.challenge = "invalid"]]]

\* c is order x after the deactivation of account a.
IsCancelled(c, x, a) ==
    /\ c \in OrderRec /\ c.account = x.account
    /\ x.account # a => c = x
    /\ x.account = a => c.status = IF Open(x) THEN "invalid" ELSE x.status
    /\ \A n \in Name :
           \/ c.auth[n] = x.auth[n] /\ (x.account = a => x.auth[n].status # "pending")
           \/ c.auth[n].status = "deactivated" /\ x.auth[n].status = "pending"

\* Open orders become invalid and pending authorizations are deactivated.
LEMMA CancelledFacts ==
    ASSUME NEW x \in OrderRec, NEW a PROVE IsCancelled(Cancelled(x, a), x, a)
<1>1. CASE x.account # a
  BY <1>1 DEF Cancelled, IsCancelled
<1>2. CASE x.account = a
  <2> DEFINE s == IF Open(x) THEN "invalid" ELSE x.status
             f == [n \in Name |->
                      IF x.auth[n].status # "pending" THEN x.auth[n]
                      ELSE [x.auth[n] EXCEPT !.status = "deactivated", !.challenge = "invalid"]]
  <2>1. Cancelled(x, a) = [x EXCEPT !.status = s, !.auth = f]
    BY <1>2 DEF Cancelled
  <2>2. ASSUME NEW n \in Name
        PROVE  /\ f[n] \in AuthRec
               /\ \/ f[n] = x.auth[n] /\ x.auth[n].status # "pending"
                  \/ f[n].status = "deactivated" /\ x.auth[n].status = "pending"
    <3>1. x.auth[n] \in AuthRec
      BY DEF OrderRec
    <3>. QED BY <3>1, Zenon DEF AuthRec
  <2>3. f \in [Name -> AuthRec]
    BY <2>2, Zenon
  <2>4. s \in {"unused", "pending", "ready", "valid", "invalid", "gone"}
    BY DEF OrderRec
  <2> HIDE DEF f, s
  <2>5. LET c == [x EXCEPT !.status = s, !.auth = f]
        IN  c \in OrderRec /\ c.account = x.account /\ c.status = s /\ c.auth = f
    BY <2>3, <2>4, Zenon DEF OrderRec
  <2>. QED BY <1>2, <2>1, <2>2, <2>5 DEF s, IsCancelled
<1>. QED BY <1>1, <1>2

\* The account's open orders go with it.
LEMMA DeactivateAccountKeeps ==
    ASSUME IInv, NEW a \in Account, NEW k, deactivateAccount(a, k) PROVE IInv' /\ StepGood
<1> DEFINE r == [mem.accounts[a] EXCEPT !.status = "deactivated"]
           acc == [mem.accounts EXCEPT ![a] = r]
           ord == [o \in OrderId |-> Cancelled(mem.orders[o], a)]
           next == [mem EXCEPT !.accounts = acc, !.orders = ord]
<1>1. /\ mu = None /\ idle' \in SUBSET Account /\ mem.accounts[a].status = "valid"
      /\ UNCHANGED <<late, slots, mu, holder>> /\ commit(next, idle')
  BY EnterFacts DEF deactivateAccount, Cancelled
<1>2. mem \in State /\ Good(mem) /\ Settled(mem) /\ Tracks(mem, slots)
      /\ slots \in [Slot -> Validation \cup {None}]
  BY DEF IInv, Types
<1>3. /\ acc \in [Account -> AccountRec] /\ acc[a].status = "deactivated"
      /\ acc[a].key = mem.accounts[a].key
      /\ \A b \in Account \ {a} : acc[b] = mem.accounts[b]
  BY <1>2 DEF State, AccountRec
<1>4. ASSUME NEW o \in OrderId
      PROVE  /\ ord[o] = Cancelled(mem.orders[o], a) /\ ord[o] \in OrderRec
             /\ ord[o].account = mem.orders[o].account
             /\ mem.orders[o].account # a => ord[o] = mem.orders[o]
             /\ mem.orders[o].account = a =>
                    ord[o].status = IF Open(mem.orders[o]) THEN "invalid" ELSE mem.orders[o].status
             /\ \A n \in Name :
                    \/ /\ ord[o].auth[n] = mem.orders[o].auth[n]
                       /\ mem.orders[o].account = a => mem.orders[o].auth[n].status # "pending"
                    \/ /\ ord[o].auth[n].status = "deactivated"
                       /\ mem.orders[o].auth[n].status = "pending"
  <2>1. mem.orders[o] \in OrderRec /\ ord[o] = Cancelled(mem.orders[o], a)
    BY <1>2 DEF State
  <2>2. IsCancelled(ord[o], mem.orders[o], a)
    BY <2>1, CancelledFacts
  <2> HIDE DEF ord
  <2>. QED BY <2>1, <2>2 DEF IsCancelled
<1>5. ord \in [OrderId -> OrderRec]
  BY <1>4
<1> HIDE DEF acc, ord
<1>6. next \in State /\ next.accounts = acc /\ next.orders = ord
  BY <1>2, <1>3, <1>5, Zenon DEF State
<1> HIDE DEF next
<1>7. ASSUME NEW o \in OrderId PROVE OrderGood(next, o) /\ MayBecome(next, o)
  <2>0. OrderGood(mem, o) /\ mem.orders[o].status # "invalid"
    BY <1>2 DEF Good, Settled
  <2>1. CASE mem.orders[o].account # a
    <3>1. next.orders[o] = mem.orders[o]
      BY <1>4, <1>6, <2>1
    <3>2. CASE mem.orders[o].status \in {"unused", "gone"}
      BY <2>0, <3>1, <3>2, SameMayBe, Zenon DEF OrderGood, Open
    <3>3. CASE mem.orders[o].status \notin {"unused", "gone"}
      <4>1. mem.orders[o].account \in Account
        BY <2>0, <3>3 DEF OrderGood
      <4>2. next.accounts[mem.orders[o].account] = mem.accounts[mem.orders[o].account]
        BY <1>3, <1>6, <2>1, <4>1
      <4>. QED BY <2>0, <3>1, <4>2, SameOrder, SameMayBe
    <3>. QED BY <3>2, <3>3
  <2>2. CASE mem.orders[o].account = a
    <3>1. /\ next.orders[o].account = a
          /\ next.orders[o].status = IF Open(mem.orders[o]) THEN "invalid" ELSE mem.orders[o].status
          /\ \A n \in Name :
                 \/ next.orders[o].auth[n] = mem.orders[o].auth[n]
                 \/ /\ next.orders[o].auth[n].status = "deactivated"
                    /\ mem.orders[o].auth[n].status = "pending"
      BY <1>4, <1>6, <2>2
    <3>2. next.orders[o].status \in {"unused", "gone", "valid", "invalid"}
          /\ (next.orders[o].status \in {"unused", "gone", "valid"} =>
                  next.orders[o].status = mem.orders[o].status)
          /\ <<mem.orders[o].status, next.orders[o].status>> \in Moves
      <4>1. mem.orders[o].status \in {"unused", "pending", "ready", "valid", "gone"}
        BY <1>2, <2>0 DEF State, OrderRec
      <4>2. CASE mem.orders[o].status \in {"pending", "ready"}
        BY <3>1, <4>2 DEF Open, Moves
      <4>3. CASE mem.orders[o].status \in {"unused", "valid", "gone"}
        BY <3>1, <4>3 DEF Open, Moves
      <4>. QED BY <4>1, <4>2, <4>3
    <3>3. Exists(next, a)
      BY <1>3, <1>6 DEF Exists
    <3>4. OrderGood(next, o)
      <4>1. ASSUME NEW n \in Name
            PROVE  /\ next.orders[o].auth[n].status = "none" <=> mem.orders[o].auth[n].status = "none"
                   /\ AuthGood(next.orders[o].auth[n])
        <5>1. CASE next.orders[o].auth[n] = mem.orders[o].auth[n]
          BY <2>0, <5>1 DEF OrderGood
        <5>2. CASE /\ next.orders[o].auth[n].status = "deactivated"
                   /\ mem.orders[o].auth[n].status = "pending"
          BY <5>2, LiveAuth
        <5>. QED BY <3>1, <5>1, <5>2
      <4>2. next.orders[o].status \in {"unused", "gone"} =>
                \A n \in Name : next.orders[o].auth[n].status = "none"
        BY <2>0, <3>2, <4>1, Zenon DEF OrderGood
      <4>3. next.orders[o].status \notin {"unused", "gone"} =>
                /\ \E n \in Name : next.orders[o].auth[n].status # "none"
                /\ next.orders[o].account \in Account /\ Exists(next, next.orders[o].account)
        BY <2>0, <3>1, <3>3, <4>1, Zenon DEF OrderGood, Open
      <4>. QED BY <3>2, <4>1, <4>2, <4>3, Zenon DEF OrderGood, Open
    <3>5. MayBecome(next, o)
      BY <3>1, <3>2, Zenon DEF MayBecome
    <3>. QED BY <3>4, <3>5
  <2>. QED BY <2>1, <2>2
<1>8. KeysApart(next)
  BY <1>1, <1>2, <1>3, <1>6 DEF KeysApart, Exists, Good
<1>9. Tracks(next, slots)
  <2>1. ASSUME NEW o \in OrderId
        PROVE  /\ next.orders[o].status = "unused" => mem.orders[o].status = "unused"
               /\ next.orders[o].status \notin {"gone", "invalid"} =>
                      /\ mem.orders[o].status \notin {"gone", "invalid"}
                      /\ next.orders[o].account = mem.orders[o].account
               /\ \A n \in Name : next.orders[o].auth[n].status = "pending" =>
                      next.orders[o].auth[n] = mem.orders[o].auth[n]
    BY <1>2, <1>4, <1>6 DEF Settled
  <2>. QED BY <1>2, <2>1, TracksOn
<1>. QED BY <1>1, <1>2, <1>6, <1>7, <1>8, <1>9, CommitKeeps DEF Good

-----------------------------------------------------------------------------
(* Orders.                                                                 *)

\* A commit that changes one order, with the checks under way as they were.
LEMMA OneOrderCommit ==
    ASSUME IInv, NEW o \in OrderId, NEW next \in State, next.accounts = mem.accounts,
           \A p \in OrderId \ {o} : next.orders[p] = mem.orders[p],
           OrderGood(next, o), MayBecome(next, o),
           Tracks(next, slots'), slots' \in [Slot -> Validation \cup {None}],
           NEW i, commit(next, i), idle' \in SUBSET Account, mu' = None, UNCHANGED <<late, holder>>
    PROVE  IInv' /\ StepGood
<1>1. Good(mem)
  BY DEF IInv
<1>2. Good(next)
  BY <1>1, OneOrder
<1>3. \A p \in OrderId : MayBecome(next, p)
  BY SameMayBe
<1>. QED BY <1>2, <1>3, CommitKeeps

\* What the invariant says of one order and of the checks.
LEMMA OrderFacts ==
    ASSUME IInv, NEW o \in OrderId
    PROVE  /\ mem \in State /\ OrderGood(mem, o) /\ Tracks(mem, slots)
           /\ slots \in [Slot -> Validation \cup {None}]
           /\ mem.orders[o] \in OrderRec
           /\ mem.orders[o].status \in {"unused", "pending", "ready", "valid", "gone"}
           /\ \A n \in Name : mem.orders[o].auth[n] \in AuthRec
           /\ \A n \in Names(mem.orders[o]) : n \in Name /\ mem.orders[o].auth[n].status # "none"
           /\ Names(mem.orders[o]) # {} => mem.orders[o].status \notin {"unused", "gone"}
<1>1. mem \in State /\ OrderGood(mem, o) /\ Tracks(mem, slots)
      /\ slots \in [Slot -> Validation \cup {None}] /\ mem.orders[o].status # "invalid"
  BY DEF IInv, Types, Good, Settled
<1>2. mem.orders[o] \in OrderRec
  BY <1>1 DEF State
<1>3. \A n \in Names(mem.orders[o]) : n \in Name /\ mem.orders[o].auth[n].status # "none"
  BY <1>1, Zenon DEF Names, OrderGood, AuthGood
<1>. QED BY <1>1, <1>2, <1>3, Zenon DEF OrderGood, OrderRec

\* An order is made from a slot without a check.
LEMMA NewOrderKeeps ==
    ASSUME IInv, NEW a \in Account, NEW k, NEW names \in (SUBSET Name) \ {{}}, newOrder(a, k, names)
    PROVE  IInv' /\ StepGood
<1> DEFINE f == [n \in Name |-> IF n \in names THEN NewAuth ELSE NoAuth]
           r == [status |-> "pending", account |-> a, auth |-> f]
           next(o) == [mem EXCEPT !.orders[o] = r]
<1>1. /\ mu = None /\ idle' \in SUBSET Account /\ mem.accounts[a].status = "valid"
      /\ UNCHANGED <<late, slots, mu, holder>>
  BY EnterFacts DEF newOrder
<1>2. PICK o \in OrderId : mem.orders[o].status = "unused" /\ commit(next(o), idle')
  BY Zenon DEF newOrder
<1>3. /\ f \in [Name -> AuthRec]
      /\ \A n \in Name : f[n] = IF n \in names THEN NewAuth ELSE NoAuth
  BY DEF NewAuth, NoAuth, AuthRec
<1> HIDE DEF f
<1>4. r \in OrderRec /\ r.status = "pending" /\ r.account = a /\ r.auth = f
  BY <1>3 DEF OrderRec
<1> HIDE DEF r
<1>5. /\ next(o) \in State /\ next(o).accounts = mem.accounts /\ next(o).orders[o] = r
      /\ \A p \in OrderId \ {o} : next(o).orders[p] = mem.orders[p]
  <2> DEFINE ord == [mem.orders EXCEPT ![o] = r]
  <2>0. mem \in State
    BY OrderFacts
  <2>1. next(o) = [mem EXCEPT !.orders = ord]
    OBVIOUS
  <2>2. /\ ord \in [OrderId -> OrderRec] /\ ord[o] = r
        /\ \A p \in OrderId \ {o} : ord[p] = mem.orders[p]
    BY <1>4, <2>0 DEF State
  <2> HIDE DEF ord
  <2>3. LET nx == [mem EXCEPT !.orders = ord]
        IN  nx \in State /\ nx.accounts = mem.accounts /\ nx.orders = ord
    BY <2>0, <2>2 DEF State
  <2>. QED BY <2>1, <2>2, <2>3, Zenon
<1> HIDE DEF next
<1>6. \A n \in Name : f[n].status \in {"none", "pending"} /\ f[n].challenge # "processing"
                      /\ AuthGood(f[n]) /\ (n \in names => f[n].status # "none")
  <2>1. NewAuth.status = "pending" /\ NewAuth.challenge # "processing"
        /\ NoAuth.challenge # "processing"
    BY DEF NewAuth, NoAuth
  <2>. QED BY <1>3, <2>1, LiveAuth, NoAuthGood
<1>7. Exists(next(o), a) /\ next(o).accounts[a].status = "valid"
  BY <1>1, <1>5 DEF Exists
<1>8. OrderGood(next(o), o)
  <2>1. \E n \in Name : f[n].status # "none"
    <3>1. PICK n \in names : n \in Name
      OBVIOUS
    <3>. QED BY <1>6, <3>1
  <2>2. /\ next(o).orders[o].status = "pending" /\ next(o).orders[o].account = a
        /\ next(o).orders[o].auth = f
    BY <1>4, <1>5
  <2>. QED BY <1>6, <1>7, <2>1, <2>2 DEF OrderGood
<1>9. MayBecome(next(o), o)
  BY <1>2, <1>4, <1>5, <1>6, Zenon DEF MayBecome, Moves
<1>10. Tracks(next(o), slots)
  <2>1. ASSUME NEW s \in Slot, slots[s] # None PROVE slots[s].order # o
    <3>1. CheckGood(mem, slots[s])
      BY <2>1 DEF IInv, Tracks
    <3>. QED BY <1>2, <3>1, Zenon DEF CheckGood
  <2>2. \A n \in Name : ~InProcess(next(o).orders[o].auth[n])
    BY <1>4, <1>5, <1>6 DEF InProcess
  <2>3. Tracks(mem, slots) /\ slots \in [Slot -> Validation \cup {None}]
    BY OrderFacts
  <2>4. TracksOne(next(o), mem, o, slots)
    BY <1>5, <2>1, <2>2, <2>3, Zenon DEF TracksOne
  <2>. QED BY <2>4, OneOrderTracks, Zenon
<1>11. slots \in [Slot -> Validation \cup {None}]
  BY DEF IInv, Types
<1>. QED BY <1>1, <1>2, <1>5, <1>8, <1>9, <1>10, <1>11, OneOrderCommit, Zenon

\* An authorization is given up, and with it its open order.
LEMMA DeactivateAuthorizationKeeps ==
    ASSUME IInv, NEW a \in Account, NEW k, NEW o \in OrderId, NEW n \in Name,
           deactivateAuthorization(a, k, o, n)
    PROVE  IInv' /\ StepGood
<1> DEFINE auth == mem.orders[o].auth[n]
           off == [auth EXCEPT !.status = "deactivated",
                               !.challenge = IF @ = "processing" THEN "invalid" ELSE @]
           st == SetAuth(mem, o, n, off)
           next == IF Open(mem.orders[o]) THEN SetStatus(st, o, "invalid") ELSE st
<1>1. /\ mu = None /\ idle' \in SUBSET Account /\ n \in Names(mem.orders[o])
      /\ UNCHANGED <<late, slots, mu, holder>> /\ commit(next, idle')
  BY EnterFacts DEF deactivateAuthorization, Owns
<1>2. /\ mem \in State /\ OrderGood(mem, o) /\ Tracks(mem, slots)
      /\ slots \in [Slot -> Validation \cup {None}] /\ auth \in AuthRec
      /\ mem.orders[o].status \in {"pending", "ready", "valid"}
  BY <1>1, OrderFacts
<1>3. off \in AuthRec /\ off.status = "deactivated"
  BY <1>2, Zenon DEF AuthRec
<1> HIDE DEF off
<1>4. /\ st \in State /\ st.accounts = mem.accounts
      /\ \A p \in OrderId \ {o} : st.orders[p] = mem.orders[p]
      /\ st.orders[o].status = mem.orders[o].status
      /\ st.orders[o].account = mem.orders[o].account
      /\ st.orders[o].auth[n] = off
      /\ \A m \in Name \ {n} : st.orders[o].auth[m] = mem.orders[o].auth[m]
  <2>1. WithAuth(st, mem, o, n, off)
    BY <1>2, <1>3, SetAuthFacts, Zenon
  <2> HIDE DEF st
  <2>. QED BY <2>1, Zenon DEF WithAuth
<1> HIDE DEF st
<1>5. /\ next \in State /\ next.accounts = mem.accounts
      /\ \A p \in OrderId \ {o} : next.orders[p] = mem.orders[p]
      /\ next.orders[o].status = IF Open(mem.orders[o]) THEN "invalid" ELSE mem.orders[o].status
      /\ next.orders[o].account = mem.orders[o].account
      /\ next.orders[o].auth[n] = off
      /\ \A m \in Name \ {n} : next.orders[o].auth[m] = mem.orders[o].auth[m]
  <2>1. CASE Open(mem.orders[o])
    <3>1. next = SetStatus(st, o, "invalid")
      BY <2>1
    <3>2. WithStatus(next, st, o, "invalid")
      BY <1>4, <3>1, SetStatusFacts, Zenon DEF GivenStatus
    <3> HIDE DEF next
    <3>. QED BY <1>4, <2>1, <3>2, Zenon DEF WithStatus
  <2>2. CASE ~Open(mem.orders[o])
    BY <1>4, <2>2
  <2>. QED BY <2>1, <2>2, Zenon
<1> HIDE DEF next
<1>6. next.orders[o].status \in {"valid", "invalid"}
      /\ (next.orders[o].status = "valid" => mem.orders[o].status = "valid")
  BY <1>2, <1>5 DEF Open
<1>7. ASSUME NEW m \in Name
      PROVE  \/ next.orders[o].auth[m] = mem.orders[o].auth[m]
             \/ next.orders[o].auth[m].status = "deactivated"
  BY <1>3, <1>5
<1>8. OrderGood(next, o)
  <2>1. ASSUME NEW m \in Name PROVE AuthGood(next.orders[o].auth[m])
    <3>1. AuthGood(mem.orders[o].auth[m])
      BY <1>2 DEF OrderGood
    <3>. QED BY <1>7, <3>1, LiveAuth
  <2>2. /\ next.orders[o].auth[n].status # "none"
        /\ next.orders[o].account \in Account /\ Exists(next, next.orders[o].account)
    BY <1>2, <1>3, <1>5, Zenon DEF OrderGood, Exists
  <2>. QED BY <1>6, <2>1, <2>2, Zenon DEF OrderGood, Open
<1>9. MayBecome(next, o)
  BY <1>2, <1>5, <1>6, <1>7, Zenon DEF MayBecome, Moves
<1>10. Tracks(next, slots)
  <2>1. ASSUME NEW s \in Slot, slots[s] # None, slots[s].order = o PROVE CheckGood(next, slots[s])
    <3>1. CheckGood(mem, slots[s]) /\ slots[s].name \in Name
      BY <1>2, <2>1, Zenon DEF Tracks, Validation
    <3>. QED BY <1>2, <1>5, <1>6, <1>7, <2>1, <3>1, Zenon DEF CheckGood
  <2>2. \A m \in Name : InProcess(next.orders[o].auth[m]) => InProcess(mem.orders[o].auth[m])
    BY <1>7 DEF InProcess
  <2>3. TracksOne(next, mem, o, slots)
    BY <1>2, <1>5, <2>1, <2>2, Zenon DEF TracksOne
  <2>. QED BY <2>3, OneOrderTracks, Zenon
<1>. QED BY <1>1, <1>2, <1>5, <1>8, <1>9, <1>10, OneOrderCommit


-----------------------------------------------------------------------------
(* The challenge.                                                          *)

\* An order stays good when one of its authorizations changes and stays pending.
LEMMA PendingGood ==
    ASSUME NEW o \in OrderId, NEW n \in Name, NEW st, OrderGood(st, o),
           st.orders[o].auth[n].status = "pending",
           NEW auth, auth.status = "pending", NEW next, WithAuth(next, st, o, n, auth)
    PROVE  OrderGood(next, o)
<1>0. /\ next.accounts = st.accounts /\ next.orders[o].status = st.orders[o].status
      /\ next.orders[o].account = st.orders[o].account
      /\ next.orders[o].auth[n] = auth
      /\ \A m \in Name \ {n} : next.orders[o].auth[m] = st.orders[o].auth[m]
  BY DEF WithAuth
<1>1. ASSUME NEW m \in Name PROVE AuthGood(next.orders[o].auth[m])
  <2>1. CASE m = n
    BY <1>0, <2>1, LiveAuth
  <2>2. CASE m # n
    BY <1>0, <2>2 DEF OrderGood
  <2>. QED BY <2>1, <2>2
<1>2. next.orders[o].status \notin {"unused", "gone", "ready"}
  BY <1>0 DEF OrderGood
<1>3. /\ next.orders[o].account \in Account /\ Exists(next, next.orders[o].account)
      /\ Open(next.orders[o]) => next.accounts[next.orders[o].account].status = "valid"
  BY <1>0, <1>2 DEF OrderGood, Open, Exists
<1>4. \E m \in Name : next.orders[o].auth[m].status # "none"
  BY <1>0
<1>. QED BY <1>1, <1>2, <1>3, <1>4, Zenon DEF OrderGood

\* Order o is in next as it is now, but for a pending authorization for n.
StaysPending(next, o, n) ==
    /\ next.orders[o].status = mem.orders[o].status
    /\ next.orders[o].auth[n].status = "pending"
    /\ \A m \in Name \ {n} : next.orders[o].auth[m] = mem.orders[o].auth[m]

\* Such a change is one an order may make.
LEMMA PendingMayBe ==
    ASSUME IInv, NEW o \in OrderId, NEW n \in Name, NEW next, StaysPending(next, o, n)
    PROVE  MayBecome(next, o)
<1>1. ASSUME NEW m \in Name
      PROVE  next.orders[o].auth[m].status = "valid" => mem.orders[o].auth[m].status = "valid"
  BY DEF StaysPending
<1>2. mem.orders[o].status \in {"unused", "pending", "ready", "valid", "gone"}
      /\ next.orders[o].status = mem.orders[o].status
  BY OrderFacts DEF StaysPending
<1>. QED BY <1>1, <1>2 DEF MayBecome, Moves

\* First half of challenge: the check is saved as processing and takes a slot,
\* or is taken back when the save reported an error.
LEMMA AcknowledgeKeeps ==
    ASSUME IInv, NEW a \in Account, NEW k \in Key, NEW o \in OrderId, NEW n \in Name,
           acknowledge(a, k, o, n)
    PROVE  IInv' /\ StepGood
<1> DEFINE auth == mem.orders[o].auth[n]
           on == [auth EXCEPT !.challenge = "processing"]
           st == SetAuth(mem, o, n, on)
           p == prune(st, idle')
           v == [order |-> o, name |-> n, account |-> a, key |-> k,
                 stage |-> "lookup", target |-> None]
<1>1. /\ mu = None /\ idle' \in SUBSET Account /\ mem.orders[o].account = a
      /\ auth.challenge # "processing" /\ auth.status = "pending"
      /\ mem.orders[o].status = "pending" /\ late[o] = 0
      /\ disk' = p /\ UNCHANGED <<late, mu, holder>>
  BY EnterFacts DEF acknowledge, Owns
<1>2. PICK s \in Slot :
          /\ slots[s] = None
          /\ \/ mem' = p /\ slots' = [slots EXCEPT ![s] = v]
             \/ mem' = RetryOne(p, o, n) /\ UNCHANGED slots
  BY DEF acknowledge, FreeSlot
<1>3. /\ mem \in State /\ Good(mem) /\ OrderGood(mem, o) /\ Tracks(mem, slots)
      /\ slots \in [Slot -> Validation \cup {None}] /\ auth \in AuthRec
  BY OrderFacts DEF IInv
<1>4. on \in AuthRec /\ on.status = "pending" /\ on.challenge = "processing"
  BY <1>1, <1>3 DEF AuthRec
<1>5. v \in Validation /\ v # None /\ v.order = o /\ v.name = n /\ v.account = a /\ v.stage = "lookup"
  BY ValidationAssumption DEF Validation
<1> HIDE DEF on, v
<1>6. /\ st \in State /\ st.accounts = mem.accounts
      /\ \A x \in OrderId \ {o} : st.orders[x] = mem.orders[x]
      /\ st.orders[o].status = "pending" /\ st.orders[o].account = a
      /\ st.orders[o].auth[n] = on
      /\ \A m \in Name \ {n} : st.orders[o].auth[m] = mem.orders[o].auth[m]
  <2>1. WithAuth(st, mem, o, n, on)
    BY <1>3, <1>4, SetAuthFacts, Zenon
  <2> HIDE DEF st
  <2>. QED BY <1>1, <2>1, Zenon DEF WithAuth
<1>7. OrderGood(st, o) /\ MayBecome(st, o)
  <2>1. WithAuth(st, mem, o, n, on)
    BY <1>3, <1>4, SetAuthFacts, Zenon
  <2> HIDE DEF st
  <2>2. StaysPending(st, o, n)
    BY <1>1, <1>4, <1>6, Zenon DEF StaysPending
  <2>3. OrderGood(st, o)
    BY <1>1, <1>3, <1>4, <2>1, PendingGood, Zenon
  <2>. QED BY <2>2, <2>3, PendingMayBe, Zenon
<1> HIDE DEF st
<1>8. ASSUME NEW u \in Slot PROVE ~Checks(slots, u, o, n)
  <2>1. slots[u] # None => CheckGood(mem, slots[u])
    BY <1>3 DEF Tracks
  <2>. QED BY <1>1, <2>1, Zenon DEF Checks, CheckGood
<1>9. ASSUME NEW u \in Slot, slots[u] # None
      PROVE  /\ slots[u].order \in OrderId /\ slots[u].name \in Name
             /\ CheckGood(mem, slots[u]) /\ ~(slots[u].order = o /\ slots[u].name = n)
  <2>1. slots[u].order \in OrderId /\ slots[u].name \in Name /\ CheckGood(mem, slots[u])
    BY <1>3, <1>9, TrackedCheck
  <2>2. ~(slots[u].order = o /\ slots[u].name = n)
    BY <1>8, <1>9, Zenon DEF Checks
  <2>. QED BY <2>1, <2>2
<1>10. CASE mem' = p /\ slots' = [slots EXCEPT ![s] = v]
  <2>1. /\ slots' \in [Slot -> Validation \cup {None}] /\ slots'[s] = v
        /\ \A u \in Slot \ {s} : slots'[u] = slots[u]
    BY <1>3, <1>5, <1>10
  <2>2. ASSUME NEW u \in Slot, slots'[u] # None PROVE CheckGood(st, slots'[u])
    <3>1. CASE u = s
      BY <1>4, <1>5, <1>6, <2>1, <3>1 DEF CheckGood
    <3>2. CASE u # s
      <4>1. /\ slots'[u] = slots[u] /\ slots[u].order \in OrderId /\ slots[u].name \in Name
            /\ CheckGood(mem, slots[u]) /\ ~(slots[u].order = o /\ slots[u].name = n)
        BY <1>9, <2>1, <2>2, <3>2
      <4>2. CASE slots[u].order = o
        <5>1. st.orders[o].auth[slots[u].name] = mem.orders[o].auth[slots[u].name]
          BY <1>6, <4>1, <4>2
        <5>. QED BY <1>1, <1>6, <4>1, <4>2, <5>1, Zenon DEF CheckGood
      <4>3. CASE slots[u].order # o
        BY <1>6, <4>1, <4>3, Zenon DEF CheckGood
      <4>. QED BY <4>2, <4>3
    <3>. QED BY <3>1, <3>2
  <2>3. ASSUME NEW u \in Slot, NEW w \in Slot, NEW x \in OrderId, NEW m \in Name,
               Checks(slots', u, x, m), Checks(slots', w, x, m)
        PROVE  u = w
    <3>1. ASSUME NEW z \in Slot, z # s, Checks(slots', z, x, m)
          PROVE  Checks(slots, z, x, m) /\ ~(x = o /\ m = n)
      <4>1. slots'[z] = slots[z]
        BY <2>1, <3>1
      <4>2. Checks(slots, z, x, m)
        BY <3>1, <4>1, Zenon DEF Checks
      <4>. QED BY <1>8, <4>2
    <3>2. ASSUME Checks(slots', s, x, m) PROVE x = o /\ m = n
      BY <1>5, <2>1, <3>2 DEF Checks
    <3>3. CASE u = s \/ w = s
      BY <2>3, <3>1, <3>2, <3>3, Zenon
    <3>4. CASE u # s /\ w # s
      <4>1. Checks(slots, u, x, m) /\ Checks(slots, w, x, m)
        BY <2>3, <3>1, <3>4, Zenon
      <4>. QED BY <1>3, <4>1, TrackedOnce
    <3>. QED BY <3>3, <3>4
  <2>4. ASSUME NEW x \in OrderId, NEW m \in Name, InProcess(st.orders[x].auth[m])
        PROVE  \E u \in Slot : Checks(slots', u, x, m)
    <3>1. CASE x = o /\ m = n
      BY <1>5, <2>1, <3>1 DEF Checks
    <3>2. CASE ~(x = o /\ m = n)
      <4>1. InProcess(mem.orders[x].auth[m])
        BY <1>6, <2>4, <3>2
      <4>2. PICK u \in Slot : Checks(slots, u, x, m)
        BY <1>3, <4>1 DEF Tracks
      <4>. QED BY <1>2, <2>1, <4>2 DEF Checks
    <3>. QED BY <3>1, <3>2
  <2>5. Tracks(st, slots')
    BY <2>2, <2>3, <2>4 DEF Tracks
  <2>6. commit(st, idle')
    BY <1>1, <1>10 DEF commit
  <2>. QED BY <1>1, <1>6, <1>7, <2>1, <2>5, <2>6, OneOrderCommit
<1>11. CASE mem' = RetryOne(p, o, n) /\ UNCHANGED slots
  <2>1. Good(st)
    BY <1>3, <1>6, <1>7, OneOrder
  <2>2. /\ p \in State /\ Good(p) /\ Settled(p)
        /\ \A x \in OrderId :
               \/ p.orders[x] = st.orders[x]
               \/ p.orders[x] = NoOrder("gone") /\ st.orders[x].status # "unused" /\ ~Kept(st, x)
    BY <1>6, <2>1, PruneFacts
  <2> HIDE DEF p
  <2>3. p.orders[o] = st.orders[o]
    BY <1>1, <1>6, <2>2 DEF Kept, Unexpired
  <2> DEFINE off == Retry(on)
  <2>4. off \in AuthRec /\ off.status = "pending" /\ ~InProcess(off)
    BY <1>4, RetryFacts
  <2>5. mem' = SetAuth(p, o, n, off)
    BY <1>6, <1>11, <2>3 DEF RetryOne
  <2> HIDE DEF off
  <2>6. /\ mem' \in State /\ mem'.accounts = p.accounts
        /\ \A x \in OrderId \ {o} : mem'.orders[x] = p.orders[x]
        /\ mem'.orders[o].status = p.orders[o].status /\ mem'.orders[o].account = p.orders[o].account
        /\ mem'.orders[o].auth[n] = off
        /\ \A m \in Name \ {n} : mem'.orders[o].auth[m] = p.orders[o].auth[m]
    <3>1. WithAuth(mem', p, o, n, off)
      BY <2>2, <2>4, <2>5, SetAuthFacts, Zenon
    <3>. QED BY <3>1, Zenon DEF WithAuth
  <2>7. OrderGood(mem', o) /\ MayBecome(mem', o)
    <3>1. OrderGood(p, o) /\ WithAuth(mem', p, o, n, off) /\ p.orders[o].auth[n].status = "pending"
      BY <1>4, <1>6, <2>2, <2>3, <2>6, Zenon DEF Good, WithAuth
    <3>2. StaysPending(mem', o, n)
      BY <1>1, <1>6, <2>3, <2>4, <2>6, Zenon DEF StaysPending
    <3>3. OrderGood(mem', o)
      BY <2>4, <3>1, PendingGood, Zenon
    <3>. QED BY <3>2, <3>3, PendingMayBe, Zenon
  <2>8. Good(mem') /\ Settled(mem')
    <3>1. Good(mem')
      BY <2>2, <2>6, <2>7, OneOrder
    <3>. QED BY <1>6, <2>2, <2>3, <2>6, <3>1 DEF Settled
  <2>9. ASSUME NEW x \in OrderId, x # o
        PROVE  \/ mem'.orders[x] = mem.orders[x]
               \/ mem'.orders[x] = NoOrder("gone") /\ mem.orders[x].status # "unused"
    BY <1>6, <2>2, <2>6, <2>9
  <2>10. StepGood
    <3>1. ASSUME NEW x \in OrderId
          PROVE  \/ MayBecome(mem', x) /\ mem'.orders[x].status # "invalid"
                 \/ mem'.orders[x] = NoOrder("gone") /\ mem.orders[x].status # "unused"
      BY <2>7, <2>8, <2>9, SameMayBe DEF Settled
    <3>. QED BY <3>1, StepsAreGood
  <2>11. Tracks(mem', slots)
    <3>1. ASSUME NEW u \in Slot, slots[u] # None PROVE CheckGood(mem', slots[u])
      <4>1. /\ slots[u].order \in OrderId /\ slots[u].name \in Name
            /\ CheckGood(mem, slots[u]) /\ ~(slots[u].order = o /\ slots[u].name = n)
        BY <1>9, <3>1
      <4>2. CASE slots[u].order = o
        <5>1. mem'.orders[o].status = "pending" /\ mem'.orders[o].account = mem.orders[o].account
          BY <1>1, <1>6, <2>3, <2>6
        <5>2. mem'.orders[o].auth[slots[u].name] = mem.orders[o].auth[slots[u].name]
          <6>1. slots[u].name \in Name \ {n}
            BY <4>1, <4>2
          <6>. QED BY <1>6, <2>3, <2>6, <6>1
        <5>. QED BY <1>1, <4>1, <4>2, <5>1, <5>2, Zenon DEF CheckGood
      <4>3. CASE slots[u].order # o
        <5>1. CASE mem'.orders[slots[u].order] = mem.orders[slots[u].order]
          BY <4>1, <5>1, Zenon DEF CheckGood
        <5>2. CASE mem'.orders[slots[u].order] = NoOrder("gone")
          BY <4>1, <5>2, NoOrderFacts, Zenon DEF CheckGood
        <5>. QED BY <2>9, <4>1, <4>3, <5>1, <5>2
      <4>. QED BY <4>2, <4>3
    <3>2. ASSUME NEW x \in OrderId, NEW m \in Name, InProcess(mem'.orders[x].auth[m])
          PROVE  InProcess(mem.orders[x].auth[m])
      <4>1. CASE x = o
        <5>1. m # n
          BY <2>4, <2>6, <3>2, <4>1
        <5>2. mem'.orders[o].auth[m] = p.orders[o].auth[m]
          BY <2>6, <5>1
        <5>3. p.orders[o].auth[m] = st.orders[o].auth[m]
          BY <2>3
        <5>4. st.orders[o].auth[m] = mem.orders[o].auth[m]
          BY <1>6, <5>1
        <5>. QED BY <3>2, <4>1, <5>2, <5>3, <5>4
      <4>2. CASE x # o
        BY <2>9, <3>2, <4>2, NoOrderFacts DEF InProcess
      <4>. QED BY <4>1, <4>2
    <3>. QED BY <1>3, <3>1, <3>2 DEF Tracks
  <2>12. Agree(mem', p)
    BY <1>6, <2>3, <2>6 DEF Agree, off
  <2>13. \A x \in OrderId : mem'.orders[x].status = "unused" => late'[x] = 0
    BY <1>1, <1>6, <2>3, <2>6, <2>9, NoOrderFacts DEF IInv
  <2>14. Types' /\ MuInv'
    BY <1>1, <1>3, <1>11, <2>2, <2>6 DEF IInv, Types, MuInv
  <2>. QED BY <1>1, <1>11, <2>2, <2>8, <2>10, <2>11, <2>12, <2>13, <2>14 DEF IInv
<1>. QED BY <1>2, <1>10, <1>11

\* An order without a way on.
Over(order) == order.status \in {"gone", "invalid"}

\* next has the check of o and n settled, and the rest of the orders as they were.
Ends(next, o, n) ==
    /\ \A x \in OrderId \ {o} : next.orders[x] = mem.orders[x]
    /\ next.orders[o].status # "unused"
    /\ Over(mem.orders[o]) => Over(next.orders[o])
    /\ next.orders[o].account = mem.orders[o].account
    /\ \A m \in Name \ {n} : next.orders[o].auth[m] = mem.orders[o].auth[m]
    /\ ~InProcess(next.orders[o].auth[n])

\* The slot of a check that has ended is free again.
LEMMA FreedTracks ==
    ASSUME IInv, NEW s \in Slot, NEW o \in OrderId, NEW n \in Name, Checks(slots, s, o, n),
           slots' = [slots EXCEPT ![s] = None], NEW next, Ends(next, o, n)
    PROVE  Tracks(next, slots') /\ slots' \in [Slot -> Validation \cup {None}]
<1>1. Tracks(mem, slots) /\ slots \in [Slot -> Validation \cup {None}]
  BY DEF IInv, Types
<1>2. /\ slots' \in [Slot -> Validation \cup {None}] /\ slots'[s] = None
      /\ \A u \in Slot \ {s} : slots'[u] = slots[u]
  BY <1>1
<1>3. ASSUME NEW u \in Slot, slots'[u] # None PROVE CheckGood(next, slots'[u])
  <2>1. u # s /\ slots'[u] = slots[u] /\ slots[u] # None
    BY <1>2, <1>3
  <2>2. /\ slots[u].order \in OrderId /\ slots[u].name \in Name /\ CheckGood(mem, slots[u])
        /\ ~(slots[u].order = o /\ slots[u].name = n)
    <3>1. slots[u].order \in OrderId /\ slots[u].name \in Name /\ CheckGood(mem, slots[u])
      BY <1>1, <2>1, TrackedCheck
    <3>2. ASSUME slots[u].order = o, slots[u].name = n PROVE FALSE
      <4>1. Checks(slots, u, o, n)
        BY <2>1, <3>2, Zenon DEF Checks
      <4>. QED BY <1>1, <2>1, <4>1, TrackedOnce
    <3>. QED BY <3>1, <3>2
  <2>3. CASE slots[u].order = o
    <3>1. next.orders[o].auth[slots[u].name] = mem.orders[o].auth[slots[u].name]
      BY <2>2, <2>3 DEF Ends
    <3>. QED BY <2>1, <2>2, <2>3, <3>1, Zenon DEF CheckGood, Over, Ends
  <2>4. CASE slots[u].order # o
    <3>1. next.orders[slots[u].order] = mem.orders[slots[u].order]
      BY <2>2, <2>4 DEF Ends
    <3>. QED BY <2>1, <2>2, <3>1, Zenon DEF CheckGood
  <2>. QED BY <2>3, <2>4
<1>4. ASSUME NEW u \in Slot, NEW w \in Slot, NEW x \in OrderId, NEW m \in Name,
             Checks(slots', u, x, m), Checks(slots', w, x, m)
      PROVE  u = w
  <2>1. ASSUME NEW z \in Slot, Checks(slots', z, x, m) PROVE Checks(slots, z, x, m)
    <3>1. slots'[z] # None
      BY <2>1, Zenon DEF Checks
    <3>2. slots'[z] = slots[z]
      BY <1>2, <3>1
    <3>. QED BY <2>1, <3>2, Zenon DEF Checks
  <2>2. Checks(slots, u, x, m) /\ Checks(slots, w, x, m)
    BY <1>4, <2>1
  <2>. QED BY <1>1, <2>2, TrackedOnce
<1>5. ASSUME NEW x \in OrderId, NEW m \in Name, InProcess(next.orders[x].auth[m])
      PROVE  \E u \in Slot : Checks(slots', u, x, m)
  <2>1. ~(x = o /\ m = n) /\ InProcess(mem.orders[x].auth[m])
    BY <1>5 DEF Ends
  <2>2. PICK u \in Slot : Checks(slots, u, x, m)
    BY <1>1, <2>1 DEF Tracks
  <2>. QED BY <1>2, <2>1, <2>2 DEF Checks
<1>. QED BY <1>2, <1>3, <1>4, <1>5, Zenon DEF Tracks

\* next is the state challenge records for the check of o and n.
Settles(next, o, n) ==
    /\ next \in State /\ next.accounts = mem.accounts
    /\ \A x \in OrderId \ {o} : next.orders[x] = mem.orders[x]
    /\ next.orders[o].status # "unused"
    /\ next.orders[o].account = mem.orders[o].account
    /\ \A m \in Name \ {n} : next.orders[o].auth[m] = mem.orders[o].auth[m]
    /\ ~InProcess(next.orders[o].auth[n])
    /\ OrderGood(next, o) /\ MayBecome(next, o)

\* What challenge records for a check in processing is a change its order may make.
LEMMA OutcomeFacts ==
    ASSUME IInv, NEW v \in Validation, CheckGood(mem, v),
           NEW o \in OrderId, NEW n \in Name, v.order = o, v.name = n,
           InProcess(mem.orders[o].auth[n])
    PROVE  Settles(Outcome(v, mem), o, n)
<1>0. PICK next : next = Outcome(v, mem)
  OBVIOUS
<1> SUFFICES Settles(next, o, n)
  BY <1>0
<1> DEFINE order == mem.orders[o]
           auth == order.auth[n]
           acc == mem.accounts[v.account]
           active == acc.status = "valid" /\ acc.key = v.key
           current == late[o] = 0 /\ order.status = "pending"
           proof == [status |-> "valid", challenge |-> "valid", target |-> v.target]
           ready == \A m \in Names(order) \ {n} : order.auth[m].status = "valid"
           again == [auth EXCEPT !.challenge = "pending"]
           bad == [auth EXCEPT !.status = "invalid", !.challenge = "invalid"]
<1>1. v.account \in Account /\ v.target \in Target \cup {None}
  BY DEF Validation
<1>2. /\ mem \in State /\ OrderGood(mem, o) /\ auth \in AuthRec
      /\ order.status \in {"unused", "pending", "ready", "valid", "gone"}
  BY <1>1, OrderFacts
<1>3. auth.status = "pending" /\ order.status \in {"pending", "valid"}
  BY <1>1, <1>2 DEF InProcess, OrderGood
<1>4. order.account = v.account
  BY <1>3 DEF CheckGood
<1>5. next = IF acc.status = "valid" /\ acc.key # v.key /\ current
             THEN SetAuth(mem, o, n, again)
             ELSE IF v.stage = "proved" /\ active /\ current
             THEN SetStatus(SetAuth(mem, o, n, proof), o, IF ready THEN "ready" ELSE order.status)
             ELSE SetStatus(SetAuth(mem, o, n, bad), o, "invalid")
  BY <1>0 DEF Outcome
<1>6. /\ again \in AuthRec /\ again.status = "pending" /\ again.challenge = "pending"
      /\ bad \in AuthRec /\ bad.status = "invalid"
      /\ proof \in AuthRec /\ proof.status = "valid" /\ proof.challenge = "valid"
      /\ proof.target = v.target
  BY <1>1, <1>2, <1>3, Zenon DEF AuthRec
<1> HIDE DEF again, bad, proof
<1>7. CASE acc.status = "valid" /\ acc.key # v.key /\ current
  <2>1. WithAuth(next, mem, o, n, again)
    BY <1>2, <1>5, <1>6, <1>7, SetAuthFacts
  <2>2. /\ next \in State /\ next.accounts = mem.accounts
        /\ \A x \in OrderId \ {o} : next.orders[x] = mem.orders[x]
        /\ next.orders[o].status = order.status /\ next.orders[o].account = order.account
        /\ next.orders[o].auth[n] = again
        /\ \A m \in Name \ {n} : next.orders[o].auth[m] = order.auth[m]
    BY <2>1, Zenon DEF WithAuth
  <2>3. StaysPending(next, o, n)
    BY <1>6, <2>2, Zenon DEF StaysPending
  <2>4. OrderGood(next, o)
    BY <1>2, <1>3, <1>6, <2>1, PendingGood, Zenon
  <2>5. MayBecome(next, o)
    BY <2>3, PendingMayBe, Zenon
  <2>6. ~InProcess(next.orders[o].auth[n]) /\ next.orders[o].status # "unused"
    BY <1>3, <1>6, <2>2 DEF InProcess
  <2>. QED BY <2>2, <2>4, <2>5, <2>6, Zenon DEF Settles
<1>8. ASSUME NEW auth2 \in AuthRec, auth2.status # "pending",
             NEW status \in GivenStatus,
             next = SetStatus(SetAuth(mem, o, n, auth2), o, status)
      PROVE  /\ next \in State /\ next.accounts = mem.accounts
             /\ \A x \in OrderId \ {o} : next.orders[x] = mem.orders[x]
             /\ next.orders[o].status = status /\ next.orders[o].account = order.account
             /\ next.orders[o].auth[n] = auth2
             /\ \A m \in Name \ {n} : next.orders[o].auth[m] = order.auth[m]
             /\ ~InProcess(next.orders[o].auth[n])
  <2> DEFINE st == SetAuth(mem, o, n, auth2)
  <2>1. WithAuth(st, mem, o, n, auth2)
    BY <1>2, SetAuthFacts, Zenon
  <2> HIDE DEF st
  <2>2. /\ st \in State /\ st.accounts = mem.accounts
        /\ \A x \in OrderId \ {o} : st.orders[x] = mem.orders[x]
        /\ st.orders[o].account = mem.orders[o].account
        /\ st.orders[o].auth[n] = auth2
        /\ \A m \in Name \ {n} : st.orders[o].auth[m] = mem.orders[o].auth[m]
    BY <2>1, Zenon DEF WithAuth
  <2>3. next = SetStatus(st, o, status)
    BY <1>8, Zenon DEF st
  <2>4. WithStatus(next, st, o, status)
    BY <2>2, <2>3, SetStatusFacts, Zenon
  <2>5. /\ next \in State /\ next.accounts = st.accounts
        /\ \A x \in OrderId \ {o} : next.orders[x] = st.orders[x]
        /\ next.orders[o].status = status
        /\ next.orders[o].account = st.orders[o].account
        /\ next.orders[o].auth = st.orders[o].auth
    BY <2>4, Zenon DEF WithStatus
  <2>6. next.orders[o].auth[n] = auth2
    BY <2>2, <2>5
  <2>7. ~InProcess(next.orders[o].auth[n])
    BY <1>8, <2>6 DEF InProcess
  <2>. QED BY <2>2, <2>5, <2>6, <2>7
<1>9. CASE v.stage = "proved" /\ active /\ current
  <2> DEFINE status == IF ready THEN "ready" ELSE order.status
  <2>1. next = SetStatus(SetAuth(mem, o, n, proof), o, status)
    BY <1>5, <1>9
  <2>2. status \in {"pending", "ready"}
    BY <1>9
  <2>3. ASSUME NEW m \in Name \ {n}, status = "ready" PROVE order.auth[m].status \in {"none", "valid"}
    <3>1. CASE order.auth[m] = NoAuth
      BY <3>1, NoAuthGood
    <3>2. CASE order.auth[m] # NoAuth
      BY <1>9, <2>3, <3>2 DEF Names
    <3>. QED BY <3>1, <3>2
  <2> HIDE DEF status, ready
  <2>4. /\ next \in State /\ next.accounts = mem.accounts
        /\ \A x \in OrderId \ {o} : next.orders[x] = mem.orders[x]
        /\ next.orders[o].status = status /\ next.orders[o].account = order.account
        /\ next.orders[o].auth[n] = proof
        /\ \A m \in Name \ {n} : next.orders[o].auth[m] = order.auth[m]
        /\ ~InProcess(next.orders[o].auth[n])
    BY <1>6, <1>8, <2>1, <2>2, Zenon DEF GivenStatus
  <2>5. <<v.target, v.key>> \in Serves /\ v.target # None
    BY <1>9, ServesAssumption, NoneAssumption DEF CheckGood
  <2>6. OrderGood(next, o)
    <3>1. ASSUME NEW m \in Name
          PROVE  /\ AuthGood(next.orders[o].auth[m])
                 /\ status = "ready" => next.orders[o].auth[m].status \in {"none", "valid"}
      <4>1. CASE m = n
        <5>1. next.orders[o].auth[m] = proof
          BY <2>4, <4>1, Zenon
        <5>2. proof.status = "valid" /\ proof.challenge = "valid" /\ proof.target = v.target
          BY <1>6, Zenon
        <5>3. proof # NoAuth
          BY <5>2 DEF NoAuth
        <5>. QED BY <2>5, <5>1, <5>2, <5>3 DEF AuthGood
      <4>2. CASE m # n
        <5>1. next.orders[o].auth[m] = order.auth[m]
          BY <2>4, <4>2
        <5>2. status = "ready" => order.auth[m].status \in {"none", "valid"}
          BY <2>3, <4>2
        <5>3. AuthGood(order.auth[m])
          BY <1>2 DEF OrderGood
        <5>. QED BY <5>1, <5>2, <5>3
      <4>. QED BY <4>1, <4>2, Zenon
    <3>2. /\ next.orders[o].account \in Account /\ Exists(next, next.orders[o].account)
          /\ next.accounts[next.orders[o].account].status = "valid"
      BY <1>1, <1>4, <1>9, <2>4 DEF Exists
    <3>3. \E m \in Name : next.orders[o].auth[m].status # "none"
      BY <1>1, <1>6, <2>4
    <3>. QED BY <2>2, <2>4, <3>1, <3>2, <3>3, Zenon DEF OrderGood
  <2>7. MayBecome(next, o)
    <3>1. ASSUME NEW m \in Name, order.auth[m].status = "pending",
                 next.orders[o].auth[m].status = "valid"
          PROVE  /\ mem.accounts[order.account].status = "valid"
                 /\ <<next.orders[o].auth[m].target, mem.accounts[order.account].key>> \in Serves
      <4>1. m = n
        BY <2>4, <3>1
      <4>2. next.orders[o].auth[m].target = v.target
        BY <1>6, <2>4, <4>1
      <4>. QED BY <1>4, <1>9, <2>5, <4>2
    <3>. QED BY <1>9, <2>2, <2>4, <3>1, Zenon DEF MayBecome, Moves
  <2>. QED BY <2>2, <2>4, <2>6, <2>7 DEF Settles
<1>10. CASE /\ ~(acc.status = "valid" /\ acc.key # v.key /\ current)
            /\ ~(v.stage = "proved" /\ active /\ current)
  <2>1. next = SetStatus(SetAuth(mem, o, n, bad), o, "invalid")
    BY <1>5, <1>10
  <2>2. /\ next \in State /\ next.accounts = mem.accounts
        /\ \A x \in OrderId \ {o} : next.orders[x] = mem.orders[x]
        /\ next.orders[o].status = "invalid" /\ next.orders[o].account = order.account
        /\ next.orders[o].auth[n] = bad
        /\ \A m \in Name \ {n} : next.orders[o].auth[m] = order.auth[m]
        /\ ~InProcess(next.orders[o].auth[n])
    BY <1>6, <1>8, <2>1, Zenon DEF GivenStatus
  <2>3. OrderGood(next, o)
    <3>1. ASSUME NEW m \in Name PROVE AuthGood(next.orders[o].auth[m])
      <4>1. CASE m = n
        <5>1. next.orders[o].auth[m] = bad /\ bad.status = "invalid"
          BY <1>6, <2>2, <4>1, Zenon
        <5>. QED BY <5>1, LiveAuth
      <4>2. CASE m # n
        BY <1>2, <2>2, <4>2 DEF OrderGood
      <4>. QED BY <4>1, <4>2
    <3>2. next.orders[o].account \in Account /\ Exists(next, next.orders[o].account)
      BY <1>2, <1>3, <2>2, Zenon DEF OrderGood, Exists
    <3>3. \E m \in Name : next.orders[o].auth[m].status # "none"
      BY <1>1, <1>6, <2>2
    <3>. QED BY <2>2, <3>1, <3>2, <3>3, Zenon DEF OrderGood, Open
  <2>4. MayBecome(next, o)
    BY <1>3, <1>6, <2>2, Zenon DEF MayBecome, Moves
  <2>. QED BY <2>2, <2>3, <2>4 DEF Settles
<1>. QED BY <1>7, <1>9, <1>10

\* Second half of challenge.
LEMMA SettleKeeps ==
    ASSUME IInv, NEW s \in Slot, settle(s) PROVE IInv' /\ StepGood
<1> DEFINE v == slots[s]
<1>1. /\ mu = None /\ v # None /\ slots' = [slots EXCEPT ![s] = None]
      /\ UNCHANGED <<late, mu, holder>>
  BY Zenon DEF settle, FreeSlot
<1>2. v \in Validation /\ CheckGood(mem, v)
  BY <1>1 DEF IInv, Types, Tracks
<1>3. PICK o \in OrderId, n \in Name : v.order = o /\ v.name = n
  BY <1>2 DEF Validation
<1>4. Checks(slots, s, o, n)
  BY <1>1, <1>3 DEF Checks
<1>5. /\ mem \in State /\ OrderGood(mem, o) /\ mem.orders[o].auth[n] \in AuthRec
      /\ mem.orders[o].status \in {"unused", "pending", "ready", "valid", "gone"}
      /\ mem.orders[o].status # "unused"
  BY <1>2, <1>3, OrderFacts DEF CheckGood
<1>6. \/ ~InProcess(mem.orders[o].auth[n]) /\ UNCHANGED <<mem, disk, idle>>
      \/ /\ InProcess(mem.orders[o].auth[n]) /\ idle' \in {idle, idle \ {v.account}}
         /\ \/ commit(Outcome(v, mem), idle')
            \/ mem' = RetryOne(mem, o, n) /\ UNCHANGED disk
  BY <1>3 DEF settle, InProcess
<1>7. idle' \in SUBSET Account
  BY <1>6 DEF IInv, Types
<1> HIDE DEF v
<1>8. CASE ~InProcess(mem.orders[o].auth[n]) /\ UNCHANGED <<mem, disk, idle>>
  <2>1. Tracks(mem, slots') /\ slots' \in [Slot -> Validation \cup {None}]
    <3>1. Ends(mem, o, n)
      BY <1>5, <1>8 DEF Ends
    <3>. QED BY <1>1, <1>3, <1>4, <3>1, FreedTracks, Zenon
  <2>2. Types' /\ MuInv'
    BY <1>1, <1>8, <2>1 DEF IInv, Types, MuInv
  <2>3. \A x \in OrderId : mem.orders[x].status = "unused" => late'[x] = 0
    BY <1>1 DEF IInv
  <2>. QED BY <1>8, <2>1, <2>2, <2>3, QuietKeeps
<1>9. CASE InProcess(mem.orders[o].auth[n]) /\ commit(Outcome(v, mem), idle')
  <2>0. PICK next : next = Outcome(v, mem)
    OBVIOUS
  <2>1. /\ next \in State /\ next.accounts = mem.accounts
        /\ \A x \in OrderId \ {o} : next.orders[x] = mem.orders[x]
        /\ next.orders[o].status # "unused"
        /\ next.orders[o].account = mem.orders[o].account
        /\ \A m \in Name \ {n} : next.orders[o].auth[m] = mem.orders[o].auth[m]
        /\ ~InProcess(next.orders[o].auth[n])
        /\ OrderGood(next, o) /\ MayBecome(next, o)
    <3>1. Settles(next, o, n)
      BY <1>2, <1>3, <1>9, <2>0, OutcomeFacts, Zenon
    <3>. QED BY <3>1, Zenon DEF Settles
  <2>2. commit(next, idle')
    BY <1>9, <2>0
  <2>3. ~Over(mem.orders[o])
    BY <1>5, <1>9 DEF InProcess, OrderGood, Over
  <2>4. Tracks(next, slots') /\ slots' \in [Slot -> Validation \cup {None}]
    <3>1. Ends(next, o, n)
      BY <2>1, <2>3 DEF Ends
    <3>. QED BY <1>1, <1>3, <1>4, <3>1, FreedTracks, Zenon
  <2>. QED BY <1>1, <1>7, <2>1, <2>2, <2>4, OneOrderCommit, Zenon
<1>10. CASE InProcess(mem.orders[o].auth[n]) /\ mem' = RetryOne(mem, o, n) /\ UNCHANGED disk
  <2> DEFINE auth == mem.orders[o].auth[n]
             off == Retry(auth)
  <2>1. off \in AuthRec /\ off.status = "pending" /\ ~InProcess(off) /\ auth.status = "pending"
    BY <1>5, <1>10, RetryFacts DEF InProcess
  <2>2. mem' = SetAuth(mem, o, n, off)
    BY <1>10 DEF RetryOne
  <2>3. disk.orders[o].auth[n] = auth
    <3>1. auth = disk.orders[o].auth[n] \/ auth = Retry(disk.orders[o].auth[n])
      BY DEF IInv, Agree
    <3>2. disk.orders[o].auth[n] \in AuthRec
      BY DEF IInv, Types, State, OrderRec
    <3>. QED BY <1>10, <3>1, <3>2, RetryFacts
  <2> HIDE DEF off
  <2>4. /\ mem' \in State /\ mem'.accounts = mem.accounts
        /\ \A x \in OrderId \ {o} : mem'.orders[x] = mem.orders[x]
        /\ mem'.orders[o].status = mem.orders[o].status
        /\ mem'.orders[o].account = mem.orders[o].account
        /\ mem'.orders[o].auth[n] = off
        /\ \A m \in Name \ {n} : mem'.orders[o].auth[m] = mem.orders[o].auth[m]
    <3>1. WithAuth(mem', mem, o, n, off)
      BY <1>5, <2>1, <2>2, SetAuthFacts, Zenon
    <3>. QED BY <3>1, Zenon DEF WithAuth
  <2>5. OrderGood(mem', o) /\ MayBecome(mem', o)
    <3>1. WithAuth(mem', mem, o, n, off) /\ StaysPending(mem', o, n)
      BY <2>1, <2>4, Zenon DEF WithAuth, StaysPending
    <3>2. OrderGood(mem', o)
      BY <1>5, <2>1, <3>1, PendingGood, Zenon
    <3>. QED BY <3>1, <3>2, PendingMayBe, Zenon
  <2>6. Good(mem') /\ Settled(mem')
    <3>1. Good(mem) /\ Settled(mem)
      BY DEF IInv
    <3>2. Good(mem')
      BY <2>4, <2>5, <3>1, OneOrder
    <3>. QED BY <2>4, <3>1, <3>2 DEF Settled
  <2>7. StepGood
    <3>1. ASSUME NEW x \in OrderId
          PROVE  MayBecome(mem', x) /\ mem'.orders[x].status # "invalid"
      BY <2>4, <2>5, <2>6, SameMayBe DEF Settled
    <3>. QED BY <3>1, StepsAreGood
  <2>8. Tracks(mem', slots') /\ slots' \in [Slot -> Validation \cup {None}]
    <3>1. Ends(mem', o, n)
      BY <1>5, <2>1, <2>4 DEF Ends, Over
    <3>. QED BY <1>1, <1>3, <1>4, <3>1, FreedTracks, Zenon
  <2>9. Agree(mem', disk)
    <3>1. Agree(mem, disk)
      BY DEF IInv
    <3>2. ASSUME NEW x \in OrderId
          PROVE  /\ mem'.orders[x].status = disk.orders[x].status
                 /\ mem'.orders[x].account = disk.orders[x].account
                 /\ \A m \in Name :
                        \/ mem'.orders[x].auth[m] = disk.orders[x].auth[m]
                        \/ mem'.orders[x].auth[m] = Retry(disk.orders[x].auth[m])
      <4>1. CASE x = o
        BY <2>3, <2>4, <3>1, <4>1 DEF Agree, off
      <4>2. CASE x # o
        BY <2>4, <3>1, <4>2 DEF Agree
      <4>. QED BY <4>1, <4>2
    <3>. QED BY <2>4, <3>1, <3>2 DEF Agree
  <2>10. \A x \in OrderId : mem'.orders[x].status = "unused" => late'[x] = 0
    <3>1. \A x \in OrderId : mem'.orders[x].status = mem.orders[x].status
      BY <2>4
    <3>. QED BY <1>1, <3>1 DEF IInv
  <2>11. Types' /\ MuInv'
    BY <1>1, <1>7, <1>10, <2>4, <2>8, Zenon DEF IInv, Types, MuInv
  <2>12. disk' = disk /\ Good(disk) /\ Settled(disk)
    BY <1>10 DEF IInv
  <2>. QED BY <2>6, <2>7, <2>8, <2>9, <2>10, <2>11, <2>12 DEF IInv
<1>. QED BY <1>6, <1>8, <1>9, <1>10

-----------------------------------------------------------------------------
(* Issuance.                                                               *)

\* finalize takes the lock.
LEMMA FinalizeKeeps ==
    ASSUME IInv, NEW a \in Account, NEW k, NEW o \in OrderId, finalize(a, k, o)
    PROVE  IInv' /\ StepGood
<1> DEFINE new == [order |-> o, left |-> Names(mem.orders[o]),
                   during |-> [n \in Name |-> {holder[n]}]]
<1>1. /\ idle' \in SUBSET Account /\ mem.orders[o].status = "ready"
      /\ mu' = new /\ UNCHANGED <<mem, disk, late, slots, holder>>
  BY EnterFacts DEF finalize
<1>2. new \in Finalizing
  BY DEF Finalizing, Names, IInv, Types
<1>3. new.order = o /\ new.left = Names(mem.orders[o]) /\ \A n \in Name : new.during[n] = {holder[n]}
  OBVIOUS
<1> HIDE DEF new
<1>4. ASSUME NEW n \in Name, mem.orders[o].auth[n].status # "none" PROVE n \in new.left
  BY <1>3, <1>4, NoAuthGood DEF Names
<1>5. Types'
  BY <1>1, <1>2 DEF IInv, Types
<1>6. MuInv'
  BY <1>1, <1>3, <1>4 DEF MuInv
<1>7. Tracks(mem, slots') /\ \A x \in OrderId : mem.orders[x].status = "unused" => late'[x] = 0
  BY <1>1 DEF IInv
<1>. QED BY <1>1, <1>5, <1>6, <1>7, QuietKeeps

\* The order finalize works on, while it holds the lock.
LEMMA MuFacts ==
    ASSUME IInv, mu # None
    PROVE  /\ mu \in Finalizing /\ mu.order \in OrderId /\ mem.orders[mu.order].status = "ready"
           /\ \A n \in Name :
                  /\ holder[n] \in mu.during[n]
                  /\ mem.orders[mu.order].auth[n].status # "none" /\ n \notin mu.left =>
                         mem.orders[mu.order].auth[n].target \in mu.during[n] \ {None}
BY Zenon DEF IInv, Types, MuInv, Finalizing

\* The lock is given up without a save.
LEMMA UnlockKeeps ==
    ASSUME IInv, mu' = None, UNCHANGED <<mem, disk, idle, late, slots, holder>>
    PROVE  IInv' /\ StepGood
<1>1. Types' /\ MuInv'
  BY Zenon DEF IInv, Types, MuInv
<1>2. Tracks(mem, slots') /\ \A x \in OrderId : mem.orders[x].status = "unused" => late'[x] = 0
  BY Zenon DEF IInv
<1>. QED BY <1>1, <1>2, QuietKeeps

\* finalize saves its order with a new status.
LEMMA EndKeeps ==
    ASSUME IInv, NEW o \in OrderId, NEW x \in {"valid", "invalid"}, mem.orders[o].status = "ready",
           commit(SetStatus(mem, o, x), idle),
           x = "valid" =>
               /\ mu # None /\ mu.order = o
               /\ \A n \in Name : mem.orders[o].auth[n].status # "none" =>
                      mem.orders[o].auth[n].target \in mu.during[n] \ {None},
           mu' = None, UNCHANGED <<idle, late, slots, holder>>
    PROVE  IInv' /\ StepGood
<1> DEFINE next == SetStatus(mem, o, x)
<1>1. /\ mem \in State /\ OrderGood(mem, o) /\ Tracks(mem, slots)
      /\ slots \in [Slot -> Validation \cup {None}] /\ idle \in SUBSET Account
  BY OrderFacts, Zenon DEF IInv, Types
<1>2. x \in GivenStatus
  BY Zenon DEF GivenStatus
<1>3. /\ next \in State /\ next.accounts = mem.accounts
      /\ \A p \in OrderId \ {o} : next.orders[p] = mem.orders[p]
      /\ next.orders[o].status = x
      /\ next.orders[o].account = mem.orders[o].account
      /\ next.orders[o].auth = mem.orders[o].auth
  <2>1. WithStatus(next, mem, o, x)
    BY <1>1, <1>2, SetStatusFacts, Zenon
  <2> HIDE DEF next
  <2>. QED BY <2>1, Zenon DEF WithStatus
<1>4. commit(next, idle)
  OBVIOUS
<1> HIDE DEF next
<1>5. OrderGood(next, o)
  <2>1. next.orders[o].account \in Account /\ Exists(next, next.orders[o].account)
    BY <1>1, <1>3, Zenon DEF OrderGood, Exists
  <2>2. \E n \in Name : next.orders[o].auth[n].status # "none"
    BY <1>1, <1>3, Zenon DEF OrderGood
  <2>3. ASSUME NEW n \in Name PROVE AuthGood(next.orders[o].auth[n])
    BY <1>1, <1>3, Zenon DEF OrderGood
  <2>. QED BY <1>3, <2>1, <2>2, <2>3, Zenon DEF OrderGood, Open
<1>6. MayBecome(next, o)
  <2>1. mem.accounts[mem.orders[o].account].status = "valid"
    BY <1>1, Zenon DEF OrderGood, Open
  <2>. QED BY <1>3, <2>1, Zenon DEF MayBecome, Moves
<1>7. Tracks(next, slots)
  <2>1. ASSUME NEW s \in Slot, slots[s] # None, slots[s].order = o PROVE CheckGood(next, slots[s])
    <3>1. CheckGood(mem, slots[s])
      BY <1>1, <2>1, Zenon DEF Tracks
    <3>. QED BY <1>3, <2>1, <3>1, Zenon DEF CheckGood
  <2>2. \A n \in Name : InProcess(next.orders[o].auth[n]) => InProcess(mem.orders[o].auth[n])
    BY <1>3
  <2>3. TracksOne(next, mem, o, slots)
    BY <1>1, <1>3, <2>1, <2>2, Zenon DEF TracksOne
  <2>. QED BY <2>3, OneOrderTracks, Zenon
<1>. QED BY <1>1, <1>3, <1>4, <1>5, <1>6, <1>7, OneOrderCommit, Zenon

\* finalize looks one lease up.
LEMMA CheckNameKeeps == ASSUME IInv, checkName PROVE IInv' /\ StepGood
<1>1. mu # None /\ UNCHANGED <<idle, late, slots, holder>>
  BY DEF checkName
<1>2. PICK n \in mu.left :
          \/ /\ holder[n] # None /\ holder[n] = mem.orders[mu.order].auth[n].target
             /\ mu' = [mu EXCEPT !.left = @ \ {n}] /\ UNCHANGED <<mem, disk>>
          \/ mu' = None /\ commit(SetStatus(mem, mu.order, "invalid"), idle)
          \/ mu' = None /\ UNCHANGED <<mem, disk>>
  BY DEF checkName
<1>3. /\ mu \in Finalizing /\ mu.order \in OrderId /\ mem.orders[mu.order].status = "ready"
      /\ \A m \in Name :
             /\ holder[m] \in mu.during[m]
             /\ mem.orders[mu.order].auth[m].status # "none" /\ m \notin mu.left =>
                    mem.orders[mu.order].auth[m].target \in mu.during[m] \ {None}
  BY <1>1, MuFacts, Zenon
<1>4. CASE /\ holder[n] # None /\ holder[n] = mem.orders[mu.order].auth[n].target
           /\ mu' = [mu EXCEPT !.left = @ \ {n}] /\ UNCHANGED <<mem, disk>>
  <2>1. /\ mu' \in Finalizing /\ mu'.order = mu.order /\ mu'.left = mu.left \ {n}
        /\ mu'.during = mu.during
    BY <1>3, <1>4 DEF Finalizing
  <2>2. Types'
    BY <1>1, <1>4, <2>1 DEF IInv, Types
  <2>3. MuInv'
    BY <1>1, <1>3, <1>4, <2>1, Zenon DEF MuInv
  <2>4. Tracks(mem, slots') /\ \A x \in OrderId : mem.orders[x].status = "unused" => late'[x] = 0
    BY <1>1 DEF IInv
  <2>. QED BY <1>4, <2>2, <2>3, <2>4, QuietKeeps
<1>5. CASE mu' = None /\ commit(SetStatus(mem, mu.order, "invalid"), idle)
  BY <1>1, <1>3, <1>5, EndKeeps
<1>6. CASE mu' = None /\ UNCHANGED <<mem, disk>>
  BY <1>1, <1>6, UnlockKeeps
<1>. QED BY <1>2, <1>4, <1>5, <1>6

\* finalize signs.
LEMMA SignKeeps == ASSUME IInv, sign PROVE IInv' /\ StepGood
<1>1. /\ mu # None /\ mu.left = {} /\ mu' = None /\ UNCHANGED <<idle, late, slots, holder>>
      /\ commit(SetStatus(mem, mu.order, "valid"), idle) \/ UNCHANGED <<mem, disk>>
  BY DEF sign
<1>2. /\ mu.order \in OrderId /\ mem.orders[mu.order].status = "ready"
      /\ \A m \in Name : mem.orders[mu.order].auth[m].status # "none" =>
             mem.orders[mu.order].auth[m].target \in mu.during[m] \ {None}
  BY <1>1, MuFacts, Zenon
<1>3. CASE commit(SetStatus(mem, mu.order, "valid"), idle)
  BY <1>1, <1>2, <1>3, EndKeeps, Zenon
<1>4. CASE UNCHANGED <<mem, disk>>
  BY <1>1, <1>4, UnlockKeeps
<1>. QED BY <1>1, <1>3, <1>4

-----------------------------------------------------------------------------
(* Time, DHCP and the process.                                             *)

\* A check goes on without the lock.
LEMMA ValidateKeeps ==
    ASSUME IInv, NEW s \in Slot, Validate(s) PROVE IInv' /\ StepGood
<1>1. slots[s] # None /\ UNCHANGED <<mem, disk, idle, late, mu, holder>>
  BY DEF Validate, FreeSlot
<1>2. /\ slots \in [Slot -> Validation \cup {None}] /\ slots[s] \in Validation
      /\ Tracks(mem, slots) /\ CheckGood(mem, slots[s]) /\ holder \in [Name -> Target \cup {None}]
  BY <1>1, Zenon DEF IInv, Types, Tracks
<1>3. PICK stage \in {"fetch", "recheck", "proved", "failed"}, target \in Target \cup {None} :
          /\ slots' = [slots EXCEPT ![s].stage = stage, ![s].target = target]
          /\ stage \in {"recheck", "proved"} => <<target, slots[s].key>> \in Serves
  <2>1. slots[s].name \in Name /\ slots[s].target \in Target \cup {None}
    BY <1>2, Zenon DEF Validation
  <2>2. holder[slots[s].name] \in Target \cup {None}
    BY <1>2, <2>1
  <2>3. slots[s].stage = "recheck" => <<slots[s].target, slots[s].key>> \in Serves
    BY <1>2, Zenon DEF CheckGood
  <2>. QED BY <2>1, <2>2, <2>3, Zenon DEF Validate
<1> DEFINE v == [slots[s] EXCEPT !.stage = stage, !.target = target]
<1>4. /\ v \in Validation /\ v.order = slots[s].order /\ v.name = slots[s].name
      /\ v.account = slots[s].account /\ v.key = slots[s].key
      /\ v.stage = stage /\ v.target = target
  BY <1>2, <1>3, Zenon DEF Validation
<1>5. slots' = [slots EXCEPT ![s] = v]
  BY <1>2, <1>3, Zenon
<1> HIDE DEF v
<1>6. v # None
  BY <1>4, ValidationAssumption
<1>7. /\ slots' \in [Slot -> Validation \cup {None}] /\ slots'[s] = v
      /\ \A u \in Slot \ {s} : slots'[u] = slots[u]
  BY <1>2, <1>4, <1>5
<1>8. CheckGood(mem, v)
  BY <1>2, <1>3, <1>4, Zenon DEF CheckGood
<1>9. ASSUME NEW u \in Slot, NEW x \in OrderId, NEW n \in Name
      PROVE  Checks(slots', u, x, n) <=> Checks(slots, u, x, n)
  BY <1>1, <1>4, <1>6, <1>7 DEF Checks
<1>10. Tracks(mem, slots')
  <2>1. ASSUME NEW u \in Slot, slots'[u] # None PROVE CheckGood(mem, slots'[u])
    BY <1>2, <1>7, <1>8, <2>1 DEF Tracks
  <2>. QED BY <1>2, <1>9, <2>1 DEF Tracks
<1>11. Types' /\ MuInv'
  BY <1>1, <1>7, Zenon DEF IInv, Types, MuInv
<1>12. \A x \in OrderId : mem.orders[x].status = "unused" => late'[x] = 0
  BY <1>1 DEF IInv
<1>. QED BY <1>1, <1>10, <1>11, <1>12, QuietKeeps

\* An order expires.
LEMMA ExpireKeeps ==
    ASSUME IInv, NEW o \in OrderId, Expire(o) PROVE IInv' /\ StepGood
<1>1. /\ mem.orders[o].status # "unused" /\ late[o] \in {0, 1}
      /\ late' = [late EXCEPT ![o] = @ + 1] /\ UNCHANGED <<mem, disk, idle, slots, mu, holder>>
  BY DEF Expire
<1>2. late' \in [OrderId -> 0..2] /\ \A x \in OrderId \ {o} : late'[x] = late[x]
  <2>1. late \in [OrderId -> 0..2]
    BY DEF IInv, Types
  <2>2. late[o] + 1 \in 0..2
    BY <1>1
  <2>. QED BY <1>1, <2>1, <2>2
<1>3. Types' /\ MuInv'
  BY <1>1, <1>2, Zenon DEF IInv, Types, MuInv
<1>4. Tracks(mem, slots') /\ \A x \in OrderId : mem.orders[x].status = "unused" => late'[x] = 0
  BY <1>1, <1>2 DEF IInv
<1>. QED BY <1>1, <1>3, <1>4, QuietKeeps

\* An account has not been used for long.
LEMMA BecomeIdleKeeps ==
    ASSUME IInv, NEW a \in Account, BecomeIdle(a) PROVE IInv' /\ StepGood
<1>1. idle' = idle \cup {a} /\ UNCHANGED <<mem, disk, late, slots, mu, holder>>
  BY DEF BecomeIdle
<1>2. Types' /\ MuInv'
  BY <1>1, Zenon DEF IInv, Types, MuInv
<1>3. Tracks(mem, slots') /\ \A x \in OrderId : mem.orders[x].status = "unused" => late'[x] = 0
  BY <1>1 DEF IInv
<1>. QED BY <1>1, <1>2, <1>3, QuietKeeps

\* A lease changes; a finalize that holds the lock may have seen either host.
LEMMA ReassignKeeps ==
    ASSUME IInv, NEW n \in Name, NEW t \in Target \cup {None}, Reassign(n, t)
    PROVE  IInv' /\ StepGood
<1>1. /\ holder' = [holder EXCEPT ![n] = t] /\ UNCHANGED <<mem, disk, idle, late, slots>>
      /\ mu' = IF mu = None THEN None ELSE [mu EXCEPT !.during[n] = @ \cup {t}]
  BY DEF Reassign
<1>2. /\ holder' \in [Name -> Target \cup {None}] /\ holder'[n] = t
      /\ \A m \in Name \ {n} : holder'[m] = holder[m]
  BY <1>1 DEF IInv, Types
<1>3. mu' \in Finalizing \cup {None} /\ MuInv'
  <2>1. CASE mu = None
    BY <1>1, <2>1 DEF MuInv
  <2>2. CASE mu # None
    <3> DEFINE d == [mu.during EXCEPT ![n] = @ \cup {t}]
    <3>1. /\ mu \in Finalizing /\ mem.orders[mu.order].status = "ready"
          /\ \A m \in Name :
                 /\ holder[m] \in mu.during[m]
                 /\ mem.orders[mu.order].auth[m].status # "none" /\ m \notin mu.left =>
                        mem.orders[mu.order].auth[m].target \in mu.during[m] \ {None}
      BY <2>2, MuFacts, Zenon
    <3>2. mu' = [mu EXCEPT !.during = d]
      BY <1>1, <2>2, <3>1 DEF Finalizing
    <3>3. /\ d \in [Name -> SUBSET (Target \cup {None})] /\ d[n] = mu.during[n] \cup {t}
          /\ \A m \in Name \ {n} : d[m] = mu.during[m]
      BY <3>1, Zenon DEF Finalizing
    <3> HIDE DEF d
    <3>4. /\ mu' \in Finalizing /\ mu'.order = mu.order /\ mu'.left = mu.left /\ mu'.during = d
      BY <3>1, <3>2, <3>3 DEF Finalizing
    <3>5. \A m \in Name : mu.during[m] \subseteq d[m] /\ holder'[m] \in d[m]
      BY <1>2, <3>1, <3>3, Zenon
    <3>. QED BY <1>1, <3>1, <3>4, <3>5, Zenon DEF MuInv
  <2>. QED BY <2>1, <2>2
<1>4. Types'
  BY <1>1, <1>2, <1>3 DEF IInv, Types
<1>5. Tracks(mem, slots') /\ \A x \in OrderId : mem.orders[x].status = "unused" => late'[x] = 0
  BY <1>1 DEF IInv
<1>. QED BY <1>1, <1>3, <1>4, <1>5, QuietKeeps

\* What the next process takes over.
LEMMA RestoreFacts ==
    ASSUME NEW st \in State
    PROVE  LET next == restore(st)
           IN  /\ next \in State /\ next.accounts = st.accounts
               /\ \A o \in OrderId :
                      /\ next.orders[o].status = st.orders[o].status
                      /\ next.orders[o].account = st.orders[o].account
                      /\ \A n \in Name : next.orders[o].auth[n] = Retry(st.orders[o].auth[n])
<1> DEFINE f(o) == [n \in Name |-> Retry(st.orders[o].auth[n])]
           r(o) == [st.orders[o] EXCEPT !.auth = f(o)]
           ord == [o \in OrderId |-> r(o)]
<1>1. restore(st) = [st EXCEPT !.orders = ord]
  BY DEF restore
<1>2. ASSUME NEW o \in OrderId
      PROVE  /\ st.orders[o] \in OrderRec
             /\ f(o) \in [Name -> AuthRec]
             /\ \A n \in Name : f(o)[n] = Retry(st.orders[o].auth[n])
  <2>1. st.orders[o] \in OrderRec /\ \A n \in Name : st.orders[o].auth[n] \in AuthRec
    BY DEF State, OrderRec
  <2>2. \A n \in Name : Retry(st.orders[o].auth[n]) \in AuthRec
    BY <2>1, RetryFacts
  <2>. QED BY <2>1, <2>2
<1> HIDE DEF f
<1>3. ASSUME NEW o \in OrderId
      PROVE  /\ r(o) \in OrderRec /\ r(o).status = st.orders[o].status
             /\ r(o).account = st.orders[o].account /\ r(o).auth = f(o)
  BY <1>2 DEF OrderRec
<1> HIDE DEF r
<1>4. ord \in [OrderId -> OrderRec] /\ \A o \in OrderId : ord[o] = r(o)
  BY <1>3
<1> HIDE DEF ord
<1>5. LET next == [st EXCEPT !.orders = ord]
      IN  next \in State /\ next.accounts = st.accounts /\ next.orders = ord
  BY <1>4 DEF State
<1>. QED BY <1>1, <1>2, <1>3, <1>4, <1>5

\* The process dies and another one takes over.
LEMMA RestartKeeps == ASSUME IInv, Restart PROVE IInv' /\ StepGood
<1> DEFINE next == restore(disk)
<1>1. /\ commit(next, idle) /\ slots' = [s \in Slot |-> None] /\ mu' = None
      /\ UNCHANGED <<idle, late, holder>>
  BY DEF Restart
<1>2. /\ disk \in State /\ Good(disk) /\ Settled(disk) /\ Agree(mem, disk) /\ mem \in State
      /\ idle \in SUBSET Account
  BY DEF IInv, Types
<1>3. /\ next \in State /\ next.accounts = disk.accounts
      /\ \A o \in OrderId :
             /\ next.orders[o].status = disk.orders[o].status
             /\ next.orders[o].account = disk.orders[o].account
             /\ \A n \in Name : next.orders[o].auth[n] = Retry(disk.orders[o].auth[n])
  BY <1>2, RestoreFacts
<1> HIDE DEF next
<1>4. ASSUME NEW o \in OrderId, NEW n \in Name
      PROVE  /\ disk.orders[o].auth[n] \in AuthRec
             /\ next.orders[o].auth[n].status = disk.orders[o].auth[n].status
             /\ \/ next.orders[o].auth[n] = disk.orders[o].auth[n]
                \/ next.orders[o].auth[n].status = "pending"
             /\ ~InProcess(next.orders[o].auth[n])
  <2>1. disk.orders[o].auth[n] \in AuthRec
    BY <1>2 DEF State, OrderRec
  <2>2. next.orders[o].auth[n] = Retry(disk.orders[o].auth[n])
    BY <1>3
  <2>. QED BY <2>1, <2>2, RetryFacts
<1>5. ASSUME NEW o \in OrderId PROVE OrderGood(next, o)
  <2>1. OrderGood(disk, o)
    BY <1>2 DEF Good
  <2>2. \A a : Exists(next, a) <=> Exists(disk, a)
    BY <1>3 DEF Exists
  <2>3. Open(next.orders[o]) <=> Open(disk.orders[o])
    BY <1>3 DEF Open
  <2>4. ASSUME NEW n \in Name PROVE AuthGood(next.orders[o].auth[n])
    <3>1. AuthGood(disk.orders[o].auth[n])
      BY <2>1 DEF OrderGood
    <3>. QED BY <1>4, <3>1, LiveAuth
  <2>5. /\ next.orders[o].status \in {"unused", "gone"} =>
               \A n \in Name : next.orders[o].auth[n].status = "none"
        /\ \A n \in Name : next.orders[o].status = "ready" =>
               next.orders[o].auth[n].status \in {"none", "valid"}
        /\ next.orders[o].status \notin {"unused", "gone"} =>
               \E n \in Name : next.orders[o].auth[n].status # "none"
    <3>1. \A n \in Name : next.orders[o].auth[n].status = disk.orders[o].auth[n].status
      BY <1>4
    <3>2. next.orders[o].status = disk.orders[o].status
      BY <1>3
    <3>. QED BY <2>1, <3>1, <3>2, Zenon DEF OrderGood
  <2>6. /\ next.orders[o].status \notin {"unused", "gone"} =>
               next.orders[o].account \in Account /\ Exists(next, next.orders[o].account)
        /\ Open(next.orders[o]) => next.accounts[next.orders[o].account].status = "valid"
    BY <1>3, <2>1, <2>2, <2>3, Zenon DEF OrderGood
  <2>. QED BY <2>4, <2>5, <2>6, Zenon DEF OrderGood
<1>6. Good(next)
  <2>1. KeysApart(disk)
    BY <1>2 DEF Good
  <2>2. KeysApart(next)
    BY <1>3, <2>1 DEF KeysApart, Exists
  <2>. QED BY <1>5, <2>2 DEF Good
<1>7. ASSUME NEW o \in OrderId PROVE MayBecome(next, o)
  <2>1. /\ next.orders[o].status = mem.orders[o].status
        /\ mem.orders[o].status \in {"unused", "pending", "ready", "valid", "gone"}
    BY <1>2, <1>3, OrderFacts, Zenon DEF Agree
  <2>2. ASSUME NEW n \in Name
        PROVE  next.orders[o].auth[n].status = mem.orders[o].auth[n].status
    <3>1. \/ mem.orders[o].auth[n] = disk.orders[o].auth[n]
          \/ mem.orders[o].auth[n] = Retry(disk.orders[o].auth[n])
      BY <1>2 DEF Agree
    <3>2. disk.orders[o].auth[n] \in AuthRec
          /\ next.orders[o].auth[n].status = disk.orders[o].auth[n].status
      BY <1>4
    <3>. QED BY <3>1, <3>2, RetryFacts
  <2>. QED BY <2>1, <2>2, Zenon DEF MayBecome, Moves
<1>8. slots' \in [Slot -> Validation \cup {None}] /\ Tracks(next, slots')
  BY <1>1, <1>4, Zenon DEF Tracks, Checks
<1>. QED BY <1>1, <1>2, <1>3, <1>6, <1>7, <1>8, CommitKeeps

-----------------------------------------------------------------------------
(* The theorems.                                                           *)

\* A fresh server.
LEMMA InitGood == ASSUME Init PROVE IInv
<1>1. /\ mem = [accounts |-> [a \in Account |-> [status |-> "unused", key |-> None]],
                orders |-> [o \in OrderId |-> NoOrder("unused")]]
      /\ disk = mem /\ idle = {} /\ late = [o \in OrderId |-> 0]
      /\ slots = [s \in Slot |-> None] /\ mu = None /\ holder \in [Name -> Target \cup {None}]
  BY DEF Init
<1>2. /\ mem \in State
      /\ \A a \in Account : mem.accounts[a].status = "unused"
      /\ \A o \in OrderId : mem.orders[o] = NoOrder("unused")
  BY <1>1, NoOrderFacts, Zenon DEF State, AccountRec
<1>3. \A o \in OrderId : /\ mem.orders[o].status = "unused"
                         /\ \A n \in Name : mem.orders[o].auth[n] = NoAuth
                         /\ \A n \in Name : mem.orders[o].auth[n].status = "none"
  BY <1>2, NoOrderFacts
<1>4. Types
  <2>1. late \in [OrderId -> 0..2] /\ slots \in [Slot -> Validation \cup {None}]
    BY <1>1
  <2>. QED BY <1>1, <1>2, <2>1, Zenon DEF Types
<1>5. Good(mem) /\ Settled(mem)
  <2>1. ASSUME NEW o \in OrderId PROVE OrderGood(mem, o)
    BY <1>3, NoAuthGood DEF OrderGood, Open
  <2>. QED BY <1>2, <1>3, <2>1 DEF Good, Settled, KeysApart, Exists
<1>6. Agree(mem, disk)
  BY <1>1 DEF Agree
<1>7. Tracks(mem, slots)
  BY <1>1, <1>3, Zenon DEF Tracks, Checks, InProcess
<1>8. MuInv /\ \A o \in OrderId : late[o] = 0
  BY <1>1, Zenon DEF MuInv
<1>. QED BY <1>1, <1>4, <1>5, <1>6, <1>7, <1>8, Zenon DEF IInv

\* A request of account a.
LEMMA RequestKeeps ==
    ASSUME IInv, NEW a \in Account, NEW k \in Key, Request(a, k) PROVE IInv' /\ StepGood
<1>1. CASE Read(a, k)
  BY <1>1, ReadKeeps
<1>2. CASE updateAccount(a, k)
  BY <1>2, UpdateAccountKeeps
<1>3. CASE deactivateAccount(a, k)
  BY <1>3, DeactivateAccountKeeps
<1>4. CASE \E new \in Key : keyChange(a, k, new)
  BY <1>4, KeyChangeKeeps
<1>5. CASE \E names \in (SUBSET Name) \ {{}} : newOrder(a, k, names)
  BY <1>5, NewOrderKeeps
<1>6. CASE \E o \in OrderId, n \in Name : deactivateAuthorization(a, k, o, n)
  BY <1>6, DeactivateAuthorizationKeeps
<1>7. CASE \E o \in OrderId, n \in Name : acknowledge(a, k, o, n)
  BY <1>7, AcknowledgeKeeps
<1>8. CASE \E o \in OrderId : finalize(a, k, o)
  BY <1>8, FinalizeKeeps
<1>. QED BY <1>1, <1>2, <1>3, <1>4, <1>5, <1>6, <1>7, <1>8 DEF Request

\* Every step keeps the invariant and does to the orders what it may.
LEMMA NextKeeps == ASSUME IInv, Next PROVE IInv' /\ StepGood
<1>1. CASE \E k \in Key : newAccount(k)
  BY <1>1, NewAccountKeeps
<1>2. CASE \E a \in Account, k \in Key : Request(a, k)
  BY <1>2, RequestKeeps
<1>3. CASE \E s \in Slot : Validate(s)
  BY <1>3, ValidateKeeps
<1>4. CASE \E s \in Slot : settle(s)
  BY <1>4, SettleKeeps
<1>5. CASE checkName
  BY <1>5, CheckNameKeeps
<1>6. CASE sign
  BY <1>6, SignKeeps
<1>7. CASE serveCRL
  BY <1>7, ServeCRLKeeps
<1>8. CASE \E o \in OrderId : Expire(o)
  BY <1>8, ExpireKeeps
<1>9. CASE \E a \in Account : BecomeIdle(a)
  BY <1>9, BecomeIdleKeeps
<1>10. CASE \E n \in Name, t \in Target \cup {None} : Reassign(n, t)
  BY <1>10, ReassignKeeps
<1>11. CASE Restart
  BY <1>11, RestartKeeps
<1>. QED BY <1>1, <1>2, <1>3, <1>4, <1>5, <1>6, <1>7, <1>8, <1>9, <1>10, <1>11 DEF Next

\* Nothing happens.
LEMMA StutterKeeps == ASSUME IInv, UNCHANGED vars PROVE IInv'
<1>1. UNCHANGED <<mem, disk, idle, late, slots, mu, holder>>
  BY DEF vars
<1>. QED BY <1>1, Zenon DEF IInv, Types, MuInv

\* The invariant holds in every state.
THEOREM OrderInvariance == Spec => []IInv
<1>1. Init => IInv
  BY InitGood
<1>2. IInv /\ [Next]_vars => IInv'
  BY NextKeeps, StutterKeeps
<1>. QED BY <1>1, <1>2, PTL DEF Spec

\* Whatever commit has saved, also by a save that reported an error, the next
\* process accepts.
THEOREM SavedStateCanBeRestored == Spec => []SavedStateIsValid
<1>1. ASSUME IInv PROVE SavedStateIsValid
  <2>1. KeysApart(disk) /\ \A o \in OrderId : OrderGood(disk, o)
    BY <1>1, Zenon DEF IInv, Good
  <2>2. ASSUME NEW o \in OrderId, disk.orders[o].status \notin {"unused", "gone"}
        PROVE  Names(disk.orders[o]) # {} /\ Exists(disk, disk.orders[o].account)
    <3>1. PICK n \in Name : disk.orders[o].auth[n].status # "none"
      BY <2>1, <2>2, Zenon DEF OrderGood
    <3>2. disk.orders[o].auth[n] # NoAuth
      BY <3>1 DEF NoAuth
    <3>3. n \in Names(disk.orders[o])
      BY <3>2 DEF Names
    <3>. QED BY <2>1, <2>2, <3>3, Zenon DEF OrderGood
  <2>3. ASSUME NEW o \in OrderId, NEW n \in Name, disk.orders[o].auth[n].status = "valid"
        PROVE  disk.orders[o].auth[n].target # None /\ disk.orders[o].auth[n].challenge = "valid"
    BY <2>1, <2>3, Zenon DEF OrderGood, AuthGood
  <2>. QED BY <2>1, <2>2, <2>3, Zenon DEF SavedStateIsValid, validateState, KeysApart
<1>. QED BY <1>1, OrderInvariance, PTL

\* No order that can still lead to a certificate outlives its account's
\* activity, and only one with all its proofs is ready.
THEOREM OpenOrdersStaySound == Spec => []OpenOrdersAreSound
<1>1. ASSUME IInv PROVE OpenOrdersAreSound
  <2>1. \A o \in OrderId : OrderGood(mem, o)
    BY <1>1, Zenon DEF IInv, Good
  <2>2. ASSUME NEW o \in OrderId, Open(mem.orders[o])
        PROVE  mem.accounts[mem.orders[o].account].status = "valid"
    BY <2>1, <2>2, Zenon DEF OrderGood
  <2>3. ASSUME NEW o \in OrderId, mem.orders[o].status = "ready", NEW n \in Names(mem.orders[o])
        PROVE  mem.orders[o].auth[n].status = "valid"
    <3>1. n \in Name /\ mem.orders[o].auth[n] # NoAuth
      BY <2>3 DEF Names
    <3>2. AuthGood(mem.orders[o].auth[n]) /\ mem.orders[o].auth[n].status \in {"none", "valid"}
      BY <2>1, <2>3, <3>1 DEF OrderGood
    <3>. QED BY <3>1, <3>2 DEF AuthGood
  <2>. QED BY <2>2, <2>3 DEF OpenOrdersAreSound
<1>. QED BY <1>1, OrderInvariance, PTL

\* challenge counts a proof only for the key the account has at that moment.
THEOREM ProofsAreCurrent == Spec => AcceptsCurrentProofs
<1>1. IInv /\ [Next]_vars => [ProofIsCurrent]_vars
  BY NextKeeps DEF StepGood
<1>2. AcceptsCurrentProofs <=> [][ProofIsCurrent]_vars
  BY DEF AcceptsCurrentProofs, ProofIsCurrent
<1>. QED BY <1>1, <1>2, OrderInvariance, PTL DEF Spec

\* finalize issues only to an active account whose hosts have had the names
\* since it took the lock.
THEOREM CertificatesGoToHolders == Spec => IssuesToHolders
<1>1. IInv /\ [Next]_vars => [IssueIsCurrent]_vars
  BY NextKeeps DEF StepGood
<1>2. IssuesToHolders <=> [][IssueIsCurrent]_vars
  BY DEF IssuesToHolders, IssueIsCurrent
<1>. QED BY <1>1, <1>2, OrderInvariance, PTL DEF Spec

\* Orders only move on, over failed saves and restarts.
THEOREM NoOrderGoesBack == Spec => OrdersMoveForward
<1>1. IInv /\ [Next]_vars => [Forward]_vars
  BY NextKeeps DEF StepGood
<1>2. OrdersMoveForward <=> [][Forward]_vars
  BY DEF OrdersMoveForward, Forward
<1>. QED BY <1>1, <1>2, OrderInvariance, PTL DEF Spec

\* A set with one element has one element.
LEMMA SingletonCardinality == ASSUME NEW x PROVE Cardinality({x}) = 1
<1> DEFINE G(f) == [T \in SUBSET {x} |-> IF T = {} THEN 0 ELSE 1 + f[T \ {CHOOSE y : y \in T}]]
           CS == CHOOSE f : f = G(f)
           one == [T \in SUBSET {x} |-> IF T = {} THEN 0 ELSE 1]
<1>1. Cardinality({x}) = CS[{x}]
  BY DEF Cardinality
<1>2. (CHOOSE y : y \in {x}) = x
  <2>1. (CHOOSE y : y \in {x}) \in {x}
    <3>1. x \in {x}
      OBVIOUS
    <3>. QED BY <3>1, Zenon
  <2>. QED BY <2>1
<1>3. ASSUME NEW T \in SUBSET {x}, T # {} PROVE T = {x} /\ T \ {CHOOSE y : y \in T} = {}
  <2>1. T = {x}
    BY <1>3
  <2>. QED BY <1>2, <2>1
<1>4. one = G(one)
  <2>1. ASSUME NEW T \in SUBSET {x}
        PROVE  one[T] = IF T = {} THEN 0 ELSE 1 + one[T \ {CHOOSE y : y \in T}]
    <3>1. one[T] = (IF T = {} THEN 0 ELSE 1) /\ one[{}] = 0
      OBVIOUS
    <3> HIDE DEF one
    <3>. QED BY <1>3, <3>1
  <2>. QED BY <2>1
<1>5. CS = G(CS)
  <2>1. \E f : f = G(f)
    BY <1>4, Zenon
  <2> HIDE DEF G
  <2>. QED BY <2>1, Zenon
<1> HIDE DEF CS
<1>6. CS[{}] = 0
  BY <1>5
<1>7. CS[{x}] = 1 + CS[{x} \ {CHOOSE y : y \in {x}}]
  BY <1>5
<1>8. {x} \ {CHOOSE y : y \in {x}} = {}
  BY <1>2
<1>. QED BY <1>1, <1>6, <1>7, <1>8

\* Each authorization in processing has exactly one check under way, so that
\* none is stranded by a failed save, a rolled over key or a restart.
THEOREM NoCheckIsStranded == Spec => []NotStranded
<1>1. ASSUME IInv PROVE NotStranded
  <2> SUFFICES ASSUME NEW o \in OrderId, NEW n \in Name, Processing(o, n)
               PROVE  Cardinality({s \in Slot : /\ slots[s] # None
                                                /\ slots[s].order = o
                                                /\ slots[s].name = n}) = 1
    BY Zenon DEF NotStranded
  <2>1. PICK u \in Slot : Checks(slots, u, o, n)
    BY <1>1, Zenon DEF IInv, Tracks, Processing, InProcess
  <2>2. {s \in Slot : slots[s] # None /\ slots[s].order = o /\ slots[s].name = n} = {u}
    <3>1. ASSUME NEW s \in Slot, Checks(slots, s, o, n) PROVE s = u
      BY <1>1, <2>1, <3>1, Zenon DEF IInv, Tracks
    <3>. QED BY <2>1, <3>1 DEF Checks
  <2>. QED BY <2>2, SingletonCardinality
<1>. QED BY <1>1, OrderInvariance, PTL

=============================================================================
