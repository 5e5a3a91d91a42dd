----------------------------- MODULE AcmeProofs -----------------------------
(***************************************************************************)
(* Proofs about AcmeRequests and AcmeRevocation.  For any number of        *)
(* handlers, accounts, certificates and messages, and any size of the      *)
(* nonce queue: a request takes effect at most once, a nonce is not lost   *)
(* before its time, and nothing is done on an authority that has ended.    *)
(* For any certificates and any last number: a confirmed revocation stays  *)
(* listed, and a number stands for one list.                               *)
(***************************************************************************)
EXTENDS AcmeRequests, AcmeRevocation, FiniteSetTheorems, WellFoundedInduction, TLAPS

Past == {"lookup", "check", "handle"}
Task == [at: {"consume"} \cup Past, nonce: Nonces]

\* A handler that consumed a nonce and has not finished.
Holds(h, n) == task[h] # None /\ task[h].at \in Past /\ task[h].nonce = n

Types ==
    /\ issued \in 0..MaxIssued /\ lapsed \in 0..issued
    /\ queue \subseteq 1..issued /\ spent \subseteq 1..issued
    /\ task \in [Handler -> Task \cup {None}]
    /\ DOMAIN signed = Nonces
    /\ applied \in [Nonces -> Nat]

\* A nonce goes from the queue to one handler, if to any, and with it the only
\* chance of its request to take effect.
OnceInv ==
    /\ queue \cap spent = {}
    /\ \A n \in Nonces : n \notin spent => applied[n] = 0
    /\ \A n \in Nonces : applied[n] <= 1
    /\ \A h \in Handler, n \in Nonces : Holds(h, n) => n \in spent /\ applied[n] = 0
    /\ \A g, h \in Handler, n \in Nonces : Holds(g, n) /\ Holds(h, n) => g = h

\* What a handler works on has been signed, and accounts are records.
RequestInv ==
    /\ \A h \in Handler : task[h] # None => signed[task[h].nonce] \in Message
    /\ account = [a \in Account |-> [status |-> account[a].status, key |-> account[a].key]]

IInv == Types /\ OnceInv /\ RequestInv /\ NoncesKept

\* A handler that looks leases up is still at work on a revocation by an account
\* that is active with its current key, since whatever would change that waits
\* for the lock; each name was proven once, or is still to be looked up.
LockInv ==
    mu # None =>
        /\ mu = [by |-> mu.by, left |-> mu.left, lease |-> mu.lease, proofs |-> mu.proofs,
                 good |-> mu.good]
        /\ mu.by \in Handler /\ At(mu.by, "handle")
        /\ Request(mu.by).kind = "revoke" /\ Request(mu.by).account # None
        /\ Active(Request(mu.by))
        /\ Proven(mu.lease, mu.proofs) \subseteq mu.good
        /\ Names[Request(mu.by).cert] \subseteq mu.good \cup mu.left

-----------------------------------------------------------------------------
(* The queue.                                                              *)

\* A set of naturals that is not empty has a least element.
LEMMA Least ==
    ASSUME NEW S \in SUBSET Nat, S # {}
    PROVE  \E n \in S : \A k \in S : n <= k
<1>1. PICK n \in S : \A k \in S : <<k, n>> \notin OpToRel(<, Nat)
  BY WFMin, NatLessThanWellFounded
<1>2. \A k \in S : ~(k < n)
  BY <1>1 DEF OpToRel
<1>. QED BY <1>2

\* Verifier.Nonce makes room for one nonce, and drops none that is live and of
\* the last maxNonces - 1.
LEMMA RoomFacts ==
    ASSUME issued \in Nat, lapsed \in Nat, queue \subseteq 1..issued
    PROVE  /\ Room(queue) \subseteq queue
           /\ IsFiniteSet(Room(queue)) /\ Cardinality(Room(queue)) < maxNonces
           /\ \A n \in queue : n > lapsed /\ issued + 1 - n < maxNonces => n \in Room(queue)
<1> DEFINE live == {n \in queue : n > lapsed}
           From(n) == {k \in live : k >= n}
<1>0. \A k \in queue : k \in Nat /\ k <= issued
  OBVIOUS
<1>1. Room(queue) = {n \in live : Cardinality(From(n)) < maxNonces}
  BY DEF Room
<1>2. IsFiniteSet(1..issued)
  BY FS_Interval
<1>3. \A n \in live : IsFiniteSet(From(n))
  BY <1>2, FS_Subset
<1>4. IsFiniteSet(Room(queue))
  <2>1. Room(queue) \in SUBSET (1..issued)
    BY <1>1
  <2>. QED BY <2>1, <1>2, FS_Subset
<1> HIDE DEF From
<1>5. Cardinality(Room(queue)) < maxNonces
  <2>1. CASE Room(queue) = {}
    BY <2>1, FS_EmptySet, RequestAssumption
  <2>2. CASE Room(queue) # {}
    <3>1. Room(queue) \in SUBSET Nat
      BY <1>0, <1>1, Zenon
    <3>2. PICK n \in Room(queue) : \A k \in Room(queue) : n <= k
      BY <2>2, <3>1, Least
    <3>3. Room(queue) \in SUBSET From(n)
      BY <3>2, <1>1 DEF From
    <3>4. Cardinality(From(n)) < maxNonces /\ IsFiniteSet(From(n))
      BY <3>2, <1>1, <1>3
    <3>5. Cardinality(Room(queue)) <= Cardinality(From(n))
      BY <3>3, <3>4, FS_Subset
    <3>6. Cardinality(Room(queue)) \in Nat /\ Cardinality(From(n)) \in Nat
      BY <1>4, <3>4, FS_CardinalityType
    <3>. QED BY <3>4, <3>5, <3>6, RequestAssumption
  <2>. QED BY <2>1, <2>2
<1>6. ASSUME NEW n \in queue, n > lapsed, issued + 1 - n < maxNonces
      PROVE  n \in Room(queue)
  <2>1. From(n) \in SUBSET (n..issued)
    <3>1. \A k \in From(n) : k \in Nat /\ k <= issued /\ k >= n
      BY <1>0, Zenon DEF From
    <3>. QED BY <1>0, <3>1
  <2>2. IsFiniteSet(n..issued) /\ Cardinality(n..issued) = issued - n + 1
    BY FS_Interval
  <2>3. Cardinality(From(n)) <= issued - n + 1
    BY <2>1, <2>2, FS_Subset
  <2>4. Cardinality(From(n)) \in Nat
    BY <1>3, <1>6, FS_CardinalityType
  <2>. QED BY <2>3, <2>4, <1>1, <1>6, RequestAssumption
<1>. QED BY <1>1, <1>4, <1>5, <1>6

\* After Verifier.Nonce the queue is as NoncesKept says.
LEMMA NonceFacts ==
    ASSUME IInv, Nonce, UNCHANGED <<lapsed, spent>>
    PROVE  /\ issued' \in 0..MaxIssued /\ lapsed' \in 0..issued'
           /\ queue' \subseteq 1..issued' /\ spent' \subseteq 1..issued'
           /\ queue' \cap spent' = {}
           /\ NoncesKept'
<1>0. /\ issued \in Nat /\ lapsed \in Nat /\ queue \subseteq 1..issued /\ MaxIssued \in Nat
      /\ lapsed <= issued /\ issued' = issued + 1 /\ issued' \in 0..MaxIssued
      /\ lapsed' = lapsed /\ spent' = spent /\ spent \subseteq 1..issued
      /\ queue' = Room(queue) \cup {issued + 1} /\ queue \cap spent = {}
  BY RequestAssumption DEF IInv, Types, OnceInv, Nonce
<1>1. /\ Room(queue) \subseteq queue
      /\ IsFiniteSet(Room(queue)) /\ Cardinality(Room(queue)) < maxNonces
      /\ \A n \in queue : n > lapsed /\ issued + 1 - n < maxNonces => n \in Room(queue)
  BY <1>0, RoomFacts
<1>2. /\ lapsed' \in 0..issued' /\ queue' \subseteq 1..issued' /\ spent' \subseteq 1..issued'
  <2>1. lapsed' \in 0..issued' /\ issued + 1 \in 1..issued' /\ 1..issued \subseteq 1..issued'
    BY <1>0
  <2>. QED BY <1>0, <1>1, <2>1, Zenon
<1>3. queue' \cap spent' = {}
  <2>1. issued + 1 \notin 1..issued
    BY <1>0
  <2>. QED BY <1>0, <1>1, <2>1, Zenon
<1>4. Cardinality(queue') <= maxNonces
  <2>1. Cardinality(Room(queue)) \in Nat
    BY <1>1, FS_CardinalityType
  <2>2. Cardinality(queue') \in {Cardinality(Room(queue)), Cardinality(Room(queue)) + 1}
    BY <1>0, <1>1, FS_AddElement
  <2>. QED BY <1>1, <2>1, <2>2, RequestAssumption
<1>5. ASSUME NEW n \in 1..issued', n \notin spent', n > lapsed', issued' - n < maxNonces
      PROVE  n \in queue'
  <2>1. CASE n = issued + 1
    BY <1>0, <2>1
  <2>2. CASE n # issued + 1
    <3>1. n \in 1..issued /\ issued - n < maxNonces
      BY <1>0, <1>5, <2>2, RequestAssumption
    <3>2. n \in queue
      BY <1>0, <1>5, <3>1 DEF IInv, NoncesKept
    <3>. QED BY <1>0, <1>1, <1>5, <3>2
  <2>. QED BY <2>1, <2>2
<1>. QED BY <1>0, <1>2, <1>3, <1>4, <1>5 DEF NoncesKept

-----------------------------------------------------------------------------
(* IInv is inductive.                                                      *)

\* The first state of the server.
LEMMA InitIInv == Init => IInv
<1> SUFFICES ASSUME Init PROVE IInv
  OBVIOUS
<1>1. Types
  BY RequestAssumption DEF Init, Types
<1>2. OnceInv
  BY DEF Init, OnceInv, Holds
<1>3. RequestInv
  BY DEF Init, RequestInv
<1>4. NoncesKept
  BY FS_EmptySet, RequestAssumption DEF Init, NoncesKept
<1>. QED BY <1>1, <1>2, <1>3, <1>4 DEF IInv

\* A request without effect.
LEMMA NewNonceKeepsIInv == ASSUME IInv, NewNonce PROVE IInv'
<1>1. Nonce /\ UNCHANGED <<lapsed, spent, signed, task, applied, account>>
  BY DEF NewNonce, state
<1>2. Types' /\ NoncesKept' /\ queue' \cap spent' = {}
  BY <1>1, NonceFacts DEF IInv, Types
<1>3. OnceInv'
  BY <1>1, <1>2 DEF IInv, OnceInv, Holds
<1>4. RequestInv'
  BY <1>1 DEF IInv, RequestInv
<1>. QED BY <1>2, <1>3, <1>4 DEF IInv

\* A request arrives: its handler holds no nonce yet.
LEMMA ArriveKeepsIInv ==
    ASSUME IInv, NEW h \in Handler, NEW n \in Nonces, NEW m \in Message, Arrive(h, n, m)
    PROVE  IInv'
<1>1. /\ Nonce /\ UNCHANGED <<lapsed, spent, applied, account>>
      /\ signed' = [signed EXCEPT ![n] = m]
      /\ task' = [task EXCEPT ![h] = [at |-> "consume", nonce |-> n]]
  BY DEF Arrive, state
<1>2. Types' /\ NoncesKept' /\ queue' \cap spent' = {}
  <2>1. task' \in [Handler -> Task \cup {None}]
    BY <1>1 DEF IInv, Types, Task
  <2>2. DOMAIN signed' = Nonces /\ applied' \in [Nonces -> Nat]
    BY <1>1 DEF IInv, Types
  <2>. QED BY <1>1, <2>1, <2>2, NonceFacts DEF Types
<1>3. \A g \in Handler, k \in Nonces : Holds(g, k)' => Holds(g, k)
  BY <1>1 DEF IInv, Types, Holds, Past
<1>4. OnceInv'
  BY <1>1, <1>2, <1>3 DEF IInv, OnceInv
<1>5. RequestInv'
  <2>1. ASSUME NEW g \in Handler, task'[g] # None PROVE signed'[task'[g].nonce] \in Message
    BY <1>1, <2>1 DEF IInv, Types, Task, RequestInv
  <2>. QED BY <1>1, <2>1 DEF IInv, RequestInv
<1>. QED BY <1>2, <1>4, <1>5 DEF IInv

\* A handler that gives its request up, and nothing else.
LEMMA RefusedFacts ==
    ASSUME Types, RequestInv, NEW h \in Handler, Refused(h), UNCHANGED signed
    PROVE  /\ task' \in [Handler -> Task \cup {None}]
           /\ \A g \in Handler, n \in Nonces : Holds(g, n)' => g # h /\ Holds(g, n)
           /\ \A g \in Handler : task'[g] # None => signed'[task'[g].nonce] \in Message
<1>1. task' = [task EXCEPT ![h] = None]
  BY DEF Refused
<1>2. task'[h] = None /\ \A g \in Handler : g # h => task'[g] = task[g]
  BY <1>1 DEF Types
<1>. QED BY <1>1, <1>2 DEF Types, RequestInv, Holds

\* A handler that goes on with its request.
LEMMA GoesFacts ==
    ASSUME Types, RequestInv, NEW h \in Handler, task[h] # None, NEW at \in Past, Goes(h, at),
           UNCHANGED signed
    PROVE  /\ task' \in [Handler -> Task \cup {None}]
           /\ \A g \in Handler, n \in Nonces : g # h /\ Holds(g, n)' => Holds(g, n)
           /\ \A n \in Nonces : Holds(h, n)' => n = task[h].nonce
           /\ \A g \in Handler : task'[g] # None => signed'[task'[g].nonce] \in Message
<1>1. task[h] \in Task
  BY DEF Types
<1>2. /\ task' = [task EXCEPT ![h] = [at |-> at, nonce |-> task[h].nonce]]
      /\ [at |-> at, nonce |-> task[h].nonce] \in Task
  <2>1. /\ [task[h] EXCEPT !.at = at] = [at |-> at, nonce |-> task[h].nonce]
        /\ [at |-> at, nonce |-> task[h].nonce] \in Task
    BY <1>1 DEF Task
  <2>2. task' = [task EXCEPT ![h] = [task[h] EXCEPT !.at = at]]
    BY DEF Goes
  <2>. QED BY <2>1, <2>2
<1>3. /\ task'[h].nonce = task[h].nonce
      /\ \A g \in Handler : g # h => task'[g] = task[g]
  BY <1>2 DEF Types
<1>4. task' \in [Handler -> Task \cup {None}]
  BY <1>2 DEF Types
<1>. QED BY <1>3, <1>4 DEF RequestInv, Holds

\* Verify takes the nonce out of the queue before anything else.
LEMMA ConsumeKeepsIInv ==
    ASSUME IInv, NEW h \in Handler, Consume(h)
    PROVE  IInv'
<1> DEFINE n == task[h].nonce
<1>1. /\ At(h, "consume") /\ queue' = queue \ {n}
      /\ spent' = IF n \in queue THEN spent \cup {n} ELSE spent
      /\ IF n \in queue /\ n > lapsed THEN Goes(h, "lookup") ELSE Refused(h)
      /\ UNCHANGED <<issued, lapsed, signed, applied, account>>
  BY DEF Consume, consume, state
<1>2. task[h] # None /\ n \in Nonces
  BY <1>1 DEF At, IInv, Types, Task
<1>3. /\ task' \in [Handler -> Task \cup {None}]
      /\ \A g \in Handler : task'[g] # None => signed'[task'[g].nonce] \in Message
      /\ \A g \in Handler, k \in Nonces : g # h /\ Holds(g, k)' => Holds(g, k)
      /\ \A k \in Nonces : Holds(h, k)' => k = n /\ n \in queue
  <2>1. CASE n \in queue /\ n > lapsed
    BY <1>1, <1>2, <2>1, GoesFacts DEF IInv, Past
  <2>2. CASE ~(n \in queue /\ n > lapsed)
    BY <1>1, <2>2, RefusedFacts DEF IInv
  <2>. QED BY <2>1, <2>2
<1>4. Types'
  <2>1. queue' \subseteq 1..issued /\ spent' \subseteq 1..issued
    BY <1>1 DEF IInv, Types
  <2>. QED BY <1>1, <1>3, <2>1 DEF IInv, Types
<1>5. OnceInv'
  <2>1. queue' \cap spent' = {} /\ spent \subseteq spent' /\ (n \in queue => n \in spent' \ spent)
    BY <1>1 DEF IInv, OnceInv
  <2>2. ASSUME n \in queue, NEW g \in Handler PROVE ~Holds(g, n)
    BY <1>2, <2>1, <2>2 DEF IInv, OnceInv
  <2>3. n \in queue => applied[n] = 0
    BY <1>2, <2>1 DEF IInv, OnceInv
  <2> HIDE DEF n
  <2>4. \A g \in Handler, k \in Nonces : Holds(g, k)' => k \in spent' /\ applied'[k] = 0
    BY <1>1, <1>3, <2>1, <2>3 DEF IInv, OnceInv
  <2>5. \A f, g \in Handler, k \in Nonces : Holds(f, k)' /\ Holds(g, k)' => f = g
    BY <1>3, <2>2 DEF IInv, OnceInv
  <2>6. \A k \in Nonces : (k \notin spent' => applied'[k] = 0) /\ applied'[k] <= 1
    BY <1>1, <2>1 DEF IInv, OnceInv
  <2>. QED BY <2>1, <2>4, <2>5, <2>6 DEF OnceInv
<1>6. RequestInv'
  BY <1>1, <1>3 DEF IInv, RequestInv
<1>7. NoncesKept'
  <2>1. IsFiniteSet(queue) /\ Cardinality(queue) \in Nat
    <3>1. IsFiniteSet(1..issued)
      BY FS_Interval DEF IInv, Types
    <3>. QED BY <3>1, FS_Subset, FS_CardinalityType DEF IInv, Types
  <2>2. Cardinality(queue') <= Cardinality(queue) /\ Cardinality(queue') \in Nat
    BY <1>1, <2>1, FS_Subset, FS_CardinalityType
  <2>3. Cardinality(queue') <= maxNonces
    BY <2>1, <2>2, RequestAssumption DEF IInv, NoncesKept
  <2>. QED BY <1>1, <2>3 DEF IInv, NoncesKept
<1>. QED BY <1>4, <1>5, <1>6, <1>7 DEF IInv

\* The steps between the nonce and the handler change only how far a request is.
LEMMA OnTheWay ==
    ASSUME IInv, NEW h \in Handler, task[h] # None, task[h].at \in Past,
           (\E at \in Past : Goes(h, at)) \/ Refused(h),
           UNCHANGED <<nonces, account, signed, applied>>
    PROVE  IInv'
<1>1. task[h].nonce \in Nonces
  BY DEF IInv, Types, Task
<1>2. Holds(h, task[h].nonce)
  BY DEF Holds
<1>3. /\ task' \in [Handler -> Task \cup {None}]
      /\ \A g \in Handler : task'[g] # None => signed'[task'[g].nonce] \in Message
      /\ \A g \in Handler, k \in Nonces : Holds(g, k)' => Holds(g, k)
  <2>1. CASE \E at \in Past : Goes(h, at)
    BY <1>2, <2>1, GoesFacts DEF IInv
  <2>2. CASE Refused(h)
    BY <2>2, RefusedFacts DEF IInv
  <2>. QED BY <2>1, <2>2
<1>4. UNCHANGED <<queue, issued, lapsed, spent>>
  BY DEF nonces
<1>5. Types'
  BY <1>3, <1>4 DEF IInv, Types
<1>6. OnceInv'
  BY <1>3, <1>4 DEF IInv, OnceInv
<1>7. RequestInv'
  BY <1>3 DEF IInv, RequestInv
<1>8. NoncesKept'
  BY <1>4 DEF IInv, NoncesKept
<1>. QED BY <1>5, <1>6, <1>7, <1>8 DEF IInv

\* lookupKey and the signature.
LEMMA LookupKeepsIInv == ASSUME IInv, NEW h \in Handler, Lookup(h) PROVE IInv'
<1>1. /\ task[h] # None /\ task[h].at \in Past
      /\ (\E at \in Past : Goes(h, at)) \/ Refused(h)
      /\ UNCHANGED <<nonces, account, signed, applied>>
  BY DEF Lookup, At, Past, state
<1>. QED BY <1>1, OnTheWay

\* ServeHTTP's check of the account.
LEMMA CheckKeepsIInv == ASSUME IInv, NEW h \in Handler, Check(h) PROVE IInv'
<1>1. /\ task[h] # None /\ task[h].at \in Past
      /\ (\E at \in Past : Goes(h, at)) \/ Refused(h)
      /\ UNCHANGED <<nonces, account, signed, applied>>
  BY DEF Check, At, Past, state
<1>. QED BY <1>1, OnTheWay

\* What is saved leaves accounts records.
LEMMA EffectFacts ==
    ASSUME RequestInv, NEW m \in Message, Effect(m)
    PROVE  account' = [a \in Account |-> [status |-> account'[a].status, key |-> account'[a].key]]
<1>1. m.kind \in Kinds /\ m.account \in Account \cup {None}
  BY RequestAssumption
<1>2. CASE m.kind \in {"revoke", "newOrder"}
  BY <1>2 DEF Effect, RequestInv
<1>3. CASE m.kind = "deactivate"
  <2>1. account' = [account EXCEPT ![m.account].status = "deactivated"] /\ m.account \in Account
    BY <1>1, <1>3, RequestAssumption DEF Effect
  <2>. QED BY <2>1 DEF RequestInv
<1>4. CASE m.kind = "keyChange"
  <2>1. account' = [account EXCEPT ![m.account].key = m.new] /\ m.account \in Account
    BY <1>1, <1>4, RequestAssumption DEF Effect
  <2>. QED BY <2>1 DEF RequestInv
<1>. QED BY <1>1, <1>2, <1>3, <1>4 DEF Kinds

\* A handler ends: its request takes effect, or not, and its nonce is gone.
LEMMA EndKeepsIInv ==
    ASSUME IInv, NEW h \in Handler, At(h, "handle"), Refused(h), UNCHANGED <<nonces, signed>>,
           applied' \in {applied, [applied EXCEPT ![task[h].nonce] = @ + 1]},
           account' = account \/ Effect(Request(h))
    PROVE  IInv'
<1> DEFINE n == task[h].nonce
<1>1. /\ task[h] # None /\ task[h].at = "handle" /\ Refused(h)
      /\ UNCHANGED <<queue, issued, lapsed, spent, signed>>
  BY DEF At, nonces
<1>2. n \in Nonces /\ Holds(h, n) /\ Request(h) \in Message
  BY <1>1 DEF IInv, Types, Task, RequestInv, Request, Holds, Past
<1>3. /\ task' \in [Handler -> Task \cup {None}]
      /\ \A g \in Handler, k \in Nonces : Holds(g, k)' => g # h /\ Holds(g, k)
      /\ \A g \in Handler : task'[g] # None => signed'[task'[g].nonce] \in Message
  BY <1>1, RefusedFacts DEF IInv
<1>4. /\ applied' \in {applied, [applied EXCEPT ![n] = @ + 1]}
      /\ account' = account \/ Effect(Request(h))
  OBVIOUS
<1>5. Types'
  BY <1>1, <1>2, <1>3, <1>4 DEF IInv, Types
<1>6. OnceInv'
  <2>1. applied[n] = 0 /\ n \in spent /\ \A g \in Handler : Holds(g, n) => g = h
    BY <1>2 DEF IInv, OnceInv
  <2>2. \A k \in Nonces : k # n => applied'[k] = applied[k]
    BY <1>4 DEF IInv, Types
  <2>3. applied'[n] <= 1
    BY <1>2, <1>4, <2>1 DEF IInv, Types
  <2> HIDE DEF n
  <2>. QED BY <1>1, <1>2, <1>3, <2>1, <2>2, <2>3 DEF IInv, OnceInv
<1>7. RequestInv'
  <2>1. account' = [a \in Account |-> [status |-> account'[a].status, key |-> account'[a].key]]
    BY <1>2, <1>4, EffectFacts DEF IInv, RequestInv
  <2>. QED BY <1>3, <2>1 DEF RequestInv
<1>8. NoncesKept'
  BY <1>1 DEF IInv, NoncesKept
<1>. QED BY <1>5, <1>6, <1>7, <1>8 DEF IInv

\* Nonces expire: what NoncesKept asks for becomes less.
LEMMA LapseKeepsIInv ==
    ASSUME IInv, NEW k \in Nonces, Lapse(k)
    PROVE  IInv'
<1>1. /\ lapsed < k /\ k <= issued /\ lapsed' = k
      /\ UNCHANGED <<queue, issued, spent, signed, task, applied, account>>
  BY DEF Lapse, state
<1>2. Types'
  BY <1>1, RequestAssumption DEF IInv, Types, Nonces
<1>3. OnceInv' /\ RequestInv'
  BY <1>1 DEF IInv, OnceInv, RequestInv, Holds
<1>4. NoncesKept'
  <2>1. \A n \in 1..issued : n > k => n > lapsed
    BY <1>1, RequestAssumption DEF IInv, Types, Nonces
  <2>. QED BY <1>1, <2>1 DEF IInv, NoncesKept
<1>. QED BY <1>2, <1>3, <1>4 DEF IInv

\* The process starts again, without nonces.
LEMMA RestartKeepsIInv == ASSUME IInv, Restart PROVE IInv'
<1>1. /\ queue' = {} /\ task' = [h \in Handler |-> None] /\ spent' = 1..issued
      /\ UNCHANGED <<issued, lapsed, signed, applied, account>>
  BY DEF Restart, state
<1>2. Types'
  BY <1>1 DEF IInv, Types
<1>3. OnceInv'
  <2>1. \A h \in Handler, n \in Nonces : ~Holds(h, n)'
    BY <1>1 DEF Holds
  <2>2. \A n \in Nonces : n \notin spent' => n \notin spent
    BY <1>1 DEF IInv, Types
  <2>. QED BY <1>1, <2>1, <2>2 DEF IInv, OnceInv
<1>4. RequestInv'
  BY <1>1 DEF IInv, RequestInv
<1>5. NoncesKept'
  BY <1>1, FS_EmptySet, RequestAssumption DEF NoncesKept
<1>. QED BY <1>2, <1>3, <1>4, <1>5 DEF IInv

\* The lock is taken, a lease changes, or nothing happens.
LEMMA RestKeepsIInv ==
    ASSUME IInv, UNCHANGED <<nonces, account, signed, task, applied>>
    PROVE  IInv'
BY DEF IInv, Types, OnceInv, RequestInv, NoncesKept, Holds, nonces

\* The handlers that need no lease.
LEMMA HandleKeepsIInv == ASSUME IInv, NEW h \in Handler, Handle(h) PROVE IInv'
<1>1. /\ At(h, "handle") /\ Refused(h) /\ UNCHANGED <<nonces, signed>>
      /\ applied' \in {applied, [applied EXCEPT ![task[h].nonce] = @ + 1]}
      /\ account' = account \/ Effect(Request(h))
  BY DEF Handle
<1>. QED BY <1>1, EndKeepsIInv

\* A name is looked up: the handler goes on, or refuses the request.
LEMMA LookupNameKeepsIInv == ASSUME IInv, LockInv, LookupName PROVE IInv'
<1>1. mu # None /\ UNCHANGED <<nonces, account, signed, applied>>
  BY DEF LookupName, state
<1>2. mu.by \in Handler /\ task[mu.by] # None /\ task[mu.by].at \in Past
  BY <1>1 DEF LockInv, At, Past
<1>3. CASE UNCHANGED task
  BY <1>1, <1>3, RestKeepsIInv
<1>4. CASE Refused(mu.by)
  BY <1>1, <1>2, <1>4, OnTheWay
<1>. QED BY <1>3, <1>4 DEF LookupName

\* The revocation that follows.
LEMMA RevokeEndKeepsIInv == ASSUME IInv, LockInv, Revoke PROVE IInv'
<1>1. /\ mu # None /\ Refused(mu.by) /\ UNCHANGED <<nonces, signed>>
      /\ applied' \in {applied, [applied EXCEPT ![task[mu.by].nonce] = @ + 1]}
      /\ account' = account \/ Effect(Request(mu.by))
  BY DEF Revoke
<1>2. mu.by \in Handler /\ At(mu.by, "handle")
  BY <1>1 DEF LockInv
<1>. QED BY <1>1, <1>2, EndKeepsIInv

\* Every step keeps IInv.
LEMMA NextKeepsIInv == IInv /\ LockInv /\ [Next]_vars => IInv'
<1> SUFFICES ASSUME IInv, LockInv, [Next]_vars PROVE IInv'
  OBVIOUS
<1>1. CASE NewNonce
  BY <1>1, NewNonceKeepsIInv
<1>2. ASSUME NEW h \in Handler, NEW n \in Nonces, NEW m \in Message, Arrive(h, n, m) PROVE IInv'
  BY <1>2, ArriveKeepsIInv
<1>3. ASSUME NEW h \in Handler, Consume(h) PROVE IInv'
  BY <1>3, ConsumeKeepsIInv
<1>4. ASSUME NEW h \in Handler, Lookup(h) PROVE IInv'
  BY <1>4, LookupKeepsIInv
<1>5. ASSUME NEW h \in Handler, Check(h) PROVE IInv'
  BY <1>5, CheckKeepsIInv
<1>6. ASSUME NEW h \in Handler, Handle(h) PROVE IInv'
  BY <1>6, HandleKeepsIInv
<1>7. ASSUME NEW n \in Nonces, Lapse(n) PROVE IInv'
  BY <1>7, LapseKeepsIInv
<1>8. ASSUME NEW n \in Name, NEW x \in Host \cup {None}, Reassign(n, x) PROVE IInv'
  BY <1>8, RestKeepsIInv DEF Reassign, state
<1>9. CASE Restart
  BY <1>9, RestartKeepsIInv
<1>10. CASE UNCHANGED vars
  BY <1>10, RestKeepsIInv DEF vars, state
<1>11. ASSUME NEW h \in Handler, authorizedForCertificate(h) PROVE IInv'
  BY <1>11, RestKeepsIInv DEF authorizedForCertificate, state
<1>12. CASE LookupName
  BY <1>12, LookupNameKeepsIInv
<1>13. CASE Revoke
  BY <1>13, RevokeEndKeepsIInv
<1>. QED BY <1>1, <1>2, <1>3, <1>4, <1>5, <1>6, <1>7, <1>8, <1>9, <1>10, <1>11, <1>12, <1>13
         DEF Next

-----------------------------------------------------------------------------
(* LockInv is inductive.                                                   *)

\* What does not concern the handler with the lock.
LEMMA LockKept ==
    ASSUME LockInv, mu' = mu, account' = account,
           mu # None => task'[mu.by] = task[mu.by] /\ signed'[task[mu.by].nonce] = signed[task[mu.by].nonce]
    PROVE  LockInv'
<1> SUFFICES ASSUME mu # None PROVE LockInv'
  BY DEF LockInv
<1>1. /\ At(mu.by, "handle")' <=> At(mu.by, "handle")
      /\ Request(mu.by)' = Request(mu.by)
  BY DEF At, Request
<1>2. Active(Request(mu.by))' <=> Active(Request(mu.by))
  BY <1>1 DEF Active
<1>. QED BY <1>1, <1>2 DEF LockInv, Proven

\* A request arrives: what was signed before stays.
LEMMA ArriveKeepsLockInv ==
    ASSUME IInv, LockInv, NEW h \in Handler, NEW n \in Nonces, NEW m \in Message, Arrive(h, n, m)
    PROVE  LockInv'
<1>1. /\ task[h] = None /\ signed[n] \in {None, m} /\ mu' = mu /\ account' = account
      /\ signed' = [signed EXCEPT ![n] = m]
      /\ task' = [task EXCEPT ![h] = [at |-> "consume", nonce |-> n]]
  BY DEF Arrive, state
<1>2. ASSUME mu # None
      PROVE  task'[mu.by] = task[mu.by] /\ signed'[task[mu.by].nonce] = signed[task[mu.by].nonce]
  <2>1. mu.by \in Handler /\ task[mu.by] # None
    BY <1>2 DEF LockInv, At
  <2>2. signed[task[mu.by].nonce] # None
    BY <2>1, RequestAssumption DEF IInv, RequestInv
  <2>. QED BY <1>1, <2>1, <2>2 DEF IInv, Types
<1>. QED BY <1>1, <1>2, LockKept

\* Another request loses its nonce, and may be refused.
LEMMA ConsumeKeepsLockInv ==
    ASSUME IInv, LockInv, NEW h \in Handler, Consume(h) PROVE LockInv'
<1>1. /\ At(h, "consume") /\ mu' = mu /\ account' = account /\ signed' = signed
      /\ Goes(h, "lookup") \/ Refused(h)
  BY DEF Consume, state
<1>2. ASSUME mu # None PROVE task'[mu.by] = task[mu.by]
  <2>1. mu.by \in Handler /\ mu.by # h
    BY <1>1, <1>2 DEF LockInv, At
  <2>. QED BY <1>1, <2>1 DEF IInv, Types, Goes, Refused
<1>. QED BY <1>1, <1>2, LockKept

\* The lock is taken, for an account that is active.
LEMMA TakenLockInv ==
    ASSUME NEW h \in Handler, authorizedForCertificate(h) PROVE LockInv'
<1>1. PICK lease, proofs :
          mu' = [by |-> h, left |-> Names[Request(h).cert],
                 lease |-> lease, proofs |-> proofs, good |-> Proven(lease, proofs)]
  BY DEF authorizedForCertificate
<1>2. /\ At(h, "handle")' /\ Request(h)' = Request(h) /\ account' = account
      /\ Request(h).kind = "revoke" /\ Request(h).account # None /\ Active(Request(h))
  BY DEF authorizedForCertificate, NeedsProofs, activeAccount, At, Request, state
<1>3. /\ mu'.by = h /\ mu'.left = Names[Request(h).cert]
      /\ mu'.lease = lease /\ mu'.proofs = proofs /\ mu'.good = Proven(lease, proofs)
  BY <1>1
<1>. QED BY <1>1, <1>2, <1>3 DEF LockInv, Active, Request, At, Proven

\* A name is looked up: it is proven at this moment, or the lock is released.
LEMMA LookupNameKeepsLockInv == ASSUME LockInv, LookupName PROVE LockInv'
<1>1. /\ mu # None /\ UNCHANGED <<account, signed>>
      /\ \/ mu' = None
         \/ /\ UNCHANGED task
            /\ \E n \in Proven(mu.lease, mu.proofs) : mu' = [mu EXCEPT !.left = @ \ {n}]
  BY DEF LookupName, state
<1>2. CASE mu' = None
  BY <1>2 DEF LockInv
<1>3. ASSUME UNCHANGED task, NEW n \in Proven(mu.lease, mu.proofs), mu' = [mu EXCEPT !.left = @ \ {n}]
      PROVE  LockInv'
  <2>1. /\ mu' = [by |-> mu.by, left |-> mu.left \ {n}, lease |-> mu.lease, proofs |-> mu.proofs,
                  good |-> mu.good]
        /\ n \in mu.good
    BY <1>1, <1>3 DEF LockInv
  <2>2. /\ mu'.by = mu.by /\ mu'.left = mu.left \ {n} /\ mu'.lease = mu.lease
        /\ mu'.proofs = mu.proofs /\ mu'.good = mu.good
    BY <2>1
  <2>. QED BY <1>1, <1>3, <2>1, <2>2 DEF LockInv, Active, Request, At, Proven
<1>. QED BY <1>1, <1>2, <1>3

\* DHCP changes a lease: what was proven stays so.
LEMMA ReassignKeepsLockInv ==
    ASSUME LockInv, NEW n, NEW x, Reassign(n, x) PROVE LockInv'
<1> DEFINE lease == [mu.lease EXCEPT ![n] = x]
           good == mu.good \cup Proven(lease, mu.proofs)
<1>1. /\ mu # None /\ UNCHANGED <<account, signed, task>>
      /\ mu' = [mu EXCEPT !.lease = lease, !.good = good]
  BY DEF Reassign, state
<1> HIDE DEF lease
<1>2. mu' = [by |-> mu.by, left |-> mu.left, lease |-> lease, proofs |-> mu.proofs, good |-> good]
  BY <1>1 DEF LockInv
<1>3. /\ mu'.by = mu.by /\ mu'.left = mu.left /\ mu'.lease = lease
      /\ mu'.proofs = mu.proofs /\ mu'.good = good
  BY <1>2
<1>. QED BY <1>1, <1>2, <1>3 DEF LockInv, Active, Request, At, Proven

\* Every step keeps LockInv.
LEMMA NextKeepsLockInv == IInv /\ LockInv /\ [Next]_vars => LockInv'
<1> SUFFICES ASSUME IInv, LockInv, [Next]_vars PROVE LockInv'
  OBVIOUS
<1>1. CASE NewNonce \/ UNCHANGED vars \/ \E n \in Nonces : Lapse(n)
  BY <1>1, LockKept DEF NewNonce, Lapse, vars, state
<1>2. ASSUME NEW h \in Handler, NEW n \in Nonces, NEW m \in Message, Arrive(h, n, m) PROVE LockInv'
  BY <1>2, ArriveKeepsLockInv
<1>3. ASSUME NEW h \in Handler, Consume(h) PROVE LockInv'
  BY <1>3, ConsumeKeepsLockInv
<1>4. ASSUME NEW h \in Handler, Lookup(h) \/ Check(h) \/ Handle(h) PROVE LockInv'
  <2>1. mu' = None
    BY <1>4 DEF Lookup, Check, Handle
  <2>. QED BY <2>1 DEF LockInv
<1>5. CASE Restart \/ Revoke
  BY <1>5 DEF Restart, Revoke, LockInv
<1>6. ASSUME NEW h \in Handler, authorizedForCertificate(h) PROVE LockInv'
  BY <1>6, TakenLockInv
<1>7. CASE LookupName
  BY <1>7, LookupNameKeepsLockInv
<1>8. ASSUME NEW n \in Name, NEW x \in Host \cup {None}, Reassign(n, x) PROVE LockInv'
  BY <1>8, ReassignKeepsLockInv
<1>. QED BY <1>1, <1>2, <1>3, <1>4, <1>5, <1>6, <1>7, <1>8 DEF Next

\* Both hold in every state, over repeated requests, lapses, changing leases and
\* restarts.
THEOREM RequestInvariance == Spec => [](IInv /\ LockInv)
<1>1. Init => LockInv
  BY DEF Init, LockInv
<1>. QED BY <1>1, InitIInv, NextKeepsIInv, NextKeepsLockInv, PTL DEF Spec

-----------------------------------------------------------------------------
(* The results.                                                            *)

\* No request takes effect twice: ServeHTTP consumes its nonce first.
THEOREM RequestsTakeEffectOnce == Spec => []AtMostOnce
<1>1. IInv => AtMostOnce
  BY DEF IInv, OnceInv, AtMostOnce
<1>. QED BY <1>1, RequestInvariance, PTL

\* Verifier.Nonce and consume keep every nonce for its time, and no more than
\* maxNonces.
THEOREM NoncesAreKept == Spec => []NoncesKept
<1>1. IInv => NoncesKept
  BY DEF IInv
<1>. QED BY <1>1, RequestInvariance, PTL

\* activeAccount and canRevoke ask for the authority of the moment.
LEMMA AdmittedIsEntitled ==
    ASSUME RequestInv, NEW m \in Message, Admitted(m)
    PROVE  Entitled(m)
<1>1. /\ m.kind \in Kinds /\ m.account \in Account \cup {None}
      /\ m.account = None => m.kind = "revoke"
  BY RequestAssumption
<1>2. ASSUME m.account \in Account, activeAccount(m)
      PROVE  account[m.account] = [status |-> "valid", key |-> m.signer]
  BY <1>2 DEF activeAccount, Active, RequestInv
<1>3. CASE m.kind = "revoke"
  <2>1. canRevoke(m)
    BY <1>3 DEF Admitted
  <2>2. CASE m.account = None
    BY <1>3, <2>1, <2>2 DEF canRevoke, Entitled
  <2>3. CASE m.account # None
    BY <1>1, <1>2, <1>3, <2>1, <2>3 DEF canRevoke, Entitled
  <2>. QED BY <2>2, <2>3
<1>4. CASE m.kind # "revoke"
  <2>1. m.account \in Account /\ activeAccount(m)
    BY <1>1, <1>4 DEF Admitted, Kinds
  <2>. QED BY <1>2, <1>4, <2>1 DEF Entitled
<1>. QED BY <1>3, <1>4

\* When the last name has been looked up, each had been proven since the lock was
\* taken, and the account is still active.
LEMMA LastNameIsProved ==
    ASSUME RequestInv, LockInv, mu # None, mu.left = {}, Request(mu.by) \in Message
    PROVE  Entitled(Request(mu.by))
<1> DEFINE m == Request(mu.by)
<1>1. /\ m.kind = "revoke" /\ m.account \in Account /\ Active(m)
      /\ Names[m.cert] \subseteq mu.good
  BY RequestAssumption DEF LockInv
<1>2. account[m.account] = [status |-> "valid", key |-> m.signer]
  BY <1>1 DEF Active, RequestInv
<1>3. ProvedSince(m)
  BY <1>1 DEF ProvedSince
<1>. QED BY <1>1, <1>2, <1>3 DEF Entitled

Authorized ==
    /\ \A n \in Nonces : applied'[n] # applied[n] => Entitled(signed[n])
    /\ <<account, revoked>>' # <<account, revoked>> => applied' # applied

\* Only a handler changes anything, with the authority of that moment.
LEMMA StepsAreAuthorized == IInv /\ LockInv /\ [Next]_vars => [Authorized]_vars
<1> SUFFICES ASSUME IInv, LockInv, [Next]_vars PROVE Authorized
  OBVIOUS
<1>1. ASSUME NEW h \in Handler, Handle(h) PROVE Authorized
  <2> DEFINE n == task[h].nonce
  <2>1. n \in Nonces /\ Request(h) = signed[n] /\ Request(h) \in Message
    BY <1>1 DEF Handle, At, IInv, Types, Task, RequestInv, Request
  <2>2. CASE Admitted(Request(h)) /\ applied' = [applied EXCEPT ![n] = @ + 1]
    <3>1. Entitled(signed[n])
      BY <2>1, <2>2, AdmittedIsEntitled DEF IInv
    <3>2. applied'[n] # applied[n] /\ \A k \in Nonces : k # n => applied'[k] = applied[k]
      BY <2>1, <2>2 DEF IInv, Types
    <3>. QED BY <3>1, <3>2 DEF Authorized
  <2>3. CASE UNCHANGED <<account, revoked, applied>>
    BY <2>3 DEF Authorized
  <2>. QED BY <1>1, <2>2, <2>3 DEF Handle
<1>2. CASE Revoke
  <2> DEFINE n == task[mu.by].nonce
  <2>1. n \in Nonces /\ Request(mu.by) = signed[n] /\ Request(mu.by) \in Message
    BY <1>2 DEF Revoke, LockInv, At, IInv, Types, Task, RequestInv, Request
  <2>2. CASE applied' = [applied EXCEPT ![n] = @ + 1]
    <3>1. Entitled(signed[n])
      BY <1>2, <2>1, LastNameIsProved DEF IInv, Revoke
    <3>2. applied'[n] # applied[n] /\ \A k \in Nonces : k # n => applied'[k] = applied[k]
      BY <2>1, <2>2 DEF IInv, Types
    <3>. QED BY <3>1, <3>2 DEF Authorized
  <2>3. CASE UNCHANGED <<account, revoked, applied>>
    BY <2>3 DEF Authorized
  <2>. QED BY <1>2, <2>2, <2>3 DEF Revoke
<1>3. CASE ~Revoke /\ ~\E h \in Handler : Handle(h)
  <2>1. UNCHANGED <<account, revoked, applied>>
    BY <1>3 DEF Next, NewNonce, Arrive, Consume, Lookup, Check, Lapse, authorizedForCertificate,
                LookupName, Reassign, Restart, vars, state
  <2>. QED BY <2>1 DEF Authorized
<1>. QED BY <1>1, <1>2, <1>3

\* What was checked before the handler had the lock is not relied on: keys
\* rolled over and accounts deactivated meanwhile have no authority left.  And
\* of the names of a certificate each was proven at some moment under the lock,
\* whatever DHCP does between the lookups.
THEOREM AuthorityIsCurrent == Spec => CurrentAuthority
<1>1. CurrentAuthority <=> [][Authorized]_vars
  BY DEF CurrentAuthority, Authorized
<1>. QED BY <1>1, RequestInvariance, StepsAreAuthorized, PTL DEF Spec

-----------------------------------------------------------------------------
(* The certificate revocation list.                                        *)

RevocationTypes ==
    /\ mem \in State
    /\ published \in [0..MaxNumber -> SUBSET SUBSET Certificate]

\* Every commit and every restart saves what is in memory.
Saved == disk = mem

\* A confirmed revocation is recorded with the certificate and in the list, so
\* that the next list, which is made of the certificates, has it too.
RevokedInv ==
    \A c \in confirmed :
        c \in Certificate /\ (c \notin expired => mem.certs[c] = "revoked" /\ c \in mem.crl)

\* Nothing has gone out under a number to come, and under the current one only
\* the current list.
PublishedInv ==
    \A i \in 0..MaxNumber : published[i] # {} =>
        i <= mem.number /\ (i = mem.number => published[i] = {mem.crl})

RevocationInv == RevocationTypes /\ Saved /\ RevokedInv /\ PublishedInv

-----------------------------------------------------------------------------
(* The operators.                                                          *)

\* prune takes out expired certificates and leaves the list alone.
LEMMA PruneFacts ==
    ASSUME NEW st \in State
    PROVE  /\ prune(st) \in State
           /\ prune(st).crl = st.crl /\ prune(st).number = st.number
           /\ \A c \in Certificate : c \notin expired => prune(st).certs[c] = st.certs[c]
<1> DEFINE kept == [c \in Certificate |->
                       IF c \in expired /\ st.certs[c] # "unused" THEN "gone" ELSE st.certs[c]]
<1>1. prune(st) = [certs |-> kept, crl |-> st.crl, number |-> st.number]
  BY DEF prune, State
<1>2. kept \in [Certificate -> {"unused", "good", "revoked", "gone"}]
  BY DEF State
<1>. QED BY <1>1, <1>2 DEF State

\* refreshCRL lists what is revoked and current, under the next number.
LEMMA RefreshFacts ==
    ASSUME NEW st \in State, CanRefresh(st)
    PROVE  /\ refreshCRL(st) \in State
           /\ refreshCRL(st).certs = st.certs
           /\ refreshCRL(st).crl = Listed(st)
           /\ refreshCRL(st).number = st.number + 1
<1> DEFINE l == Listed(st)
           k == st.number + 1
<1>1. refreshCRL(st) = [st EXCEPT !.crl = l, !.number = k]
  BY DEF refreshCRL
<1>2. k \in 0..MaxNumber /\ l \in SUBSET Certificate
  BY NumberAssumption DEF CanRefresh, State, Listed
<1> HIDE DEF l, k
<1>3. LET r == [st EXCEPT !.crl = l, !.number = k]
      IN  r \in State /\ r.certs = st.certs /\ r.crl = l /\ r.number = k
  BY <1>2 DEF State
<1>. QED BY <1>1, <1>3 DEF l, k

\* A certificate's new status changes nothing else.
LEMMA StatusFacts ==
    ASSUME NEW st \in State, NEW c \in Certificate, NEW s \in {"good", "revoked"},
           NEW next, next = [st EXCEPT !.certs[c] = s]
    PROVE  /\ next \in State
           /\ next.crl = st.crl /\ next.number = st.number
           /\ next.certs[c] = s
           /\ \A d \in Certificate : d # c => next.certs[d] = st.certs[d]
<1>1. next = [certs |-> [st.certs EXCEPT ![c] = s], crl |-> st.crl, number |-> st.number]
  BY DEF State
<1>. QED BY <1>1 DEF State

-----------------------------------------------------------------------------
(* The steps.                                                              *)

\* A commit that leaves the list and the number as they were.
LEMMA SameListKeepsIInv ==
    ASSUME RevocationInv, NEW st \in State, commit(st), st.crl = mem.crl, st.number = mem.number,
           \A c \in Certificate : mem.certs[c] = "revoked" => st.certs[c] = "revoked",
           UNCHANGED <<expired, confirmed, published>>
    PROVE  RevocationInv'
<1>1. /\ mem' \in State /\ disk' = mem' /\ mem'.crl = mem.crl /\ mem'.number = mem.number
      /\ \A c \in Certificate : c \notin expired => mem'.certs[c] = st.certs[c]
  BY PruneFacts DEF commit
<1>2. RevocationTypes' /\ Saved'
  BY <1>1 DEF RevocationInv, RevocationTypes, Saved
<1>3. RevokedInv'
  BY <1>1 DEF RevocationInv, RevokedInv
<1>4. PublishedInv'
  BY <1>1 DEF RevocationInv, PublishedInv
<1>. QED BY <1>2, <1>3, <1>4 DEF RevocationInv

\* A commit of a new list.
LEMMA NewListFacts ==
    ASSUME RevocationInv, NEW st \in State, CanRefresh(st), st.number = mem.number,
           commit(refreshCRL(st))
    PROVE  /\ mem' \in State /\ disk' = mem' /\ mem'.number = mem.number + 1
           /\ \A c \in Certificate : c \notin expired /\ st.certs[c] = "revoked"
                  => mem'.certs[c] = "revoked" /\ c \in mem'.crl
<1>1. /\ refreshCRL(st) \in State /\ refreshCRL(st).certs = st.certs
      /\ refreshCRL(st).crl = Listed(st) /\ refreshCRL(st).number = st.number + 1
  BY RefreshFacts
<1>2. mem' = prune(refreshCRL(st)) /\ disk' = mem'
  BY DEF commit
<1>. QED BY <1>1, <1>2, PruneFacts DEF Listed

\* finalize.
LEMMA IssueKeepsIInv == ASSUME RevocationInv, NEW c \in Certificate, issue(c) PROVE RevocationInv'
<1> DEFINE next == [mem EXCEPT !.certs[c] = "good"]
<1>1. /\ next \in State /\ next.crl = mem.crl /\ next.number = mem.number
      /\ \A d \in Certificate : d # c => next.certs[d] = mem.certs[d]
  <2>1. mem \in State /\ next = [mem EXCEPT !.certs[c] = "good"]
    BY DEF RevocationInv, RevocationTypes
  <2> HIDE DEF next
  <2>. QED BY <2>1, StatusFacts
<1>2. mem.certs[c] = "unused" /\ commit(next) /\ UNCHANGED <<expired, confirmed, published>>
  BY DEF issue
<1> HIDE DEF next
<1>. QED BY <1>1, <1>2, SameListKeepsIInv

\* revokeCertificate: what is confirmed is in the list saved with it.
LEMMA RevokeKeepsIInv ==
    ASSUME RevocationInv, NEW c \in Certificate, revokeCertificate(c) PROVE RevocationInv'
<1> DEFINE next == [mem EXCEPT !.certs[c] = "revoked"]
<1>1. /\ next \in State /\ next.number = mem.number /\ next.certs[c] = "revoked"
      /\ \A d \in Certificate : d # c => next.certs[d] = mem.certs[d]
  <2>1. mem \in State /\ next = [mem EXCEPT !.certs[c] = "revoked"]
    BY DEF RevocationInv, RevocationTypes
  <2> HIDE DEF next
  <2>. QED BY <2>1, StatusFacts
<1>2. /\ CanRefresh(next) /\ commit(refreshCRL(next))
      /\ confirmed' \in {confirmed, confirmed \cup {c}} /\ UNCHANGED <<expired, published>>
  BY DEF revokeCertificate
<1> HIDE DEF next
<1>3. /\ mem' \in State /\ disk' = mem' /\ mem'.number = mem.number + 1
      /\ \A d \in Certificate : d \notin expired /\ next.certs[d] = "revoked"
             => mem'.certs[d] = "revoked" /\ d \in mem'.crl
  BY <1>1, <1>2, NewListFacts
<1>4. RevocationTypes' /\ Saved'
  BY <1>2, <1>3 DEF RevocationInv, RevocationTypes, Saved
<1>5. RevokedInv'
  BY <1>1, <1>2, <1>3 DEF RevocationInv, RevokedInv
<1>6. PublishedInv'
  BY <1>2, <1>3, NumberAssumption DEF RevocationInv, RevocationTypes, State, PublishedInv
<1>. QED BY <1>4, <1>5, <1>6 DEF RevocationInv

\* serveCRL, as far as the list is concerned: renewed or not, it is committed
\* under a number of its own.
LEMMA ServeFacts ==
    ASSUME RevocationInv, serveCRL
    PROVE  /\ mem' \in State /\ disk' = mem' /\ RevokedInv'
           /\ \/ mem' = mem
              \/ mem'.number = mem.number + 1
           /\ published' \in {published, [published EXCEPT ![mem'.number] = @ \cup {mem'.crl}]}
           /\ UNCHANGED <<expired, confirmed>>
<1>1. /\ IF NeedsRefresh THEN CanRefresh(mem) /\ commit(refreshCRL(mem)) ELSE UNCHANGED <<mem, disk>>
      /\ published' \in {published, [published EXCEPT ![mem'.number] = @ \cup {mem'.crl}]}
      /\ UNCHANGED <<expired, confirmed>>
  BY DEF serveCRL
<1>2. CASE NeedsRefresh
  <2>1. /\ mem' \in State /\ disk' = mem' /\ mem'.number = mem.number + 1
        /\ \A c \in Certificate : c \notin expired /\ mem.certs[c] = "revoked"
               => mem'.certs[c] = "revoked" /\ c \in mem'.crl
    BY <1>1, <1>2, NewListFacts DEF RevocationInv, RevocationTypes
  <2>2. RevokedInv'
    BY <1>1, <2>1 DEF RevocationInv, RevokedInv
  <2>. QED BY <1>1, <2>1, <2>2
<1>3. CASE ~NeedsRefresh
  BY <1>1, <1>3 DEF RevocationInv, RevocationTypes, Saved, RevokedInv
<1>. QED BY <1>2, <1>3

\* serveCRL adds the current list under the current number, where there is none
\* or the same one.
LEMMA ServeKeepsIInv == ASSUME RevocationInv, serveCRL PROVE RevocationInv'
<1>1. /\ mem' \in State /\ disk' = mem' /\ RevokedInv'
      /\ mem' = mem \/ mem'.number = mem.number + 1
      /\ published' \in {published, [published EXCEPT ![mem'.number] = @ \cup {mem'.crl}]}
  BY ServeFacts
<1> DEFINE k == mem'.number
           l == mem'.crl
<1>2. k \in 0..MaxNumber /\ l \in SUBSET Certificate /\ mem.number \in Nat
  BY <1>1, NumberAssumption DEF RevocationInv, RevocationTypes, State
<1>3. published[k] \in {{}, {l}}
  BY <1>1, <1>2, NumberAssumption DEF RevocationInv, PublishedInv
<1> HIDE DEF k, l
<1>4. /\ published' \in [0..MaxNumber -> SUBSET SUBSET Certificate]
      /\ published'[k] \in {{}, {l}}
      /\ \A i \in 0..MaxNumber : i # k => published'[i] = published[i]
  <2>1. published \in [0..MaxNumber -> SUBSET SUBSET Certificate]
    BY DEF RevocationInv, RevocationTypes
  <2>2. CASE published' = published
    BY <1>3, <2>1, <2>2
  <2>3. CASE published' = [published EXCEPT ![k] = published[k] \cup {l}]
    <3>1. published[k] \cup {l} = {l} /\ {l} \in SUBSET SUBSET Certificate
      BY <1>2, <1>3
    <3>2. published' = [published EXCEPT ![k] = {l}]
      BY <2>3, <3>1
    <3>. QED BY <1>2, <2>1, <3>1, <3>2
  <2>. QED BY <1>1, <2>2, <2>3 DEF k, l
<1>5. RevocationTypes' /\ Saved'
  BY <1>1, <1>4 DEF RevocationTypes, Saved
<1>6. PublishedInv'
  <2>1. \A i \in 0..MaxNumber : published[i] # {} => i <= k
    BY <1>1, <1>2, NumberAssumption DEF RevocationInv, PublishedInv, k
  <2>2. \A i \in 0..MaxNumber : published'[i] # {} => i <= k /\ (i = k => published'[i] = {l})
    BY <1>2, <1>4, <2>1, NumberAssumption
  <2>. QED BY <2>2 DEF PublishedInv, k, l
<1>. QED BY <1>1, <1>5, <1>6 DEF RevocationInv

\* The initial state: no list and no confirmation.
LEMMA InitRevocation == RevocationInit => RevocationInv
<1> SUFFICES ASSUME RevocationInit PROVE RevocationInv
  OBVIOUS
<1>1. RevocationTypes
  BY NumberAssumption DEF RevocationInit, RevocationTypes, State
<1>. QED BY <1>1 DEF RevocationInit, RevocationInv, Saved, RevokedInv, PublishedInv

\* Every step, or none.
LEMMA NextKeepsRevocation == RevocationInv /\ [RevocationNext]_revocationVars => RevocationInv'
<1> SUFFICES ASSUME RevocationInv, [RevocationNext]_revocationVars PROVE RevocationInv'
  OBVIOUS
<1>1. ASSUME NEW c \in Certificate, issue(c) PROVE RevocationInv'
  BY <1>1, IssueKeepsIInv
<1>2. ASSUME NEW c \in Certificate, revokeCertificate(c) PROVE RevocationInv'
  BY <1>2, RevokeKeepsIInv
<1>3. CASE serveCRL
  BY <1>3, ServeKeepsIInv
<1>4. CASE save \/ RevocationRestart
  <2>1. commit(mem) /\ mem \in State /\ UNCHANGED <<expired, confirmed, published>>
    BY <1>4 DEF save, RevocationRestart, RevocationInv, Saved, RevocationTypes
  <2>. QED BY <2>1, SameListKeepsIInv
<1>5. ASSUME NEW c \in Certificate, ExpireCert(c) PROVE RevocationInv'
  <2>1. expired' = expired \cup {c} /\ UNCHANGED <<mem, disk, confirmed, published>>
    BY <1>5 DEF ExpireCert
  <2>. QED BY <2>1 DEF RevocationInv, RevocationTypes, Saved, RevokedInv, PublishedInv
<1>6. CASE NextUpdatePasses \/ UNCHANGED revocationVars
  <2>1. UNCHANGED <<mem, disk, expired, confirmed, published>>
    BY <1>6 DEF NextUpdatePasses, revocationVars
  <2>. QED BY <2>1 DEF RevocationInv, RevocationTypes, Saved, RevokedInv, PublishedInv
<1>. QED BY <1>1, <1>2, <1>3, <1>4, <1>5, <1>6 DEF RevocationNext

\* RevocationInv holds in every state, over failed commits, renewals and restarts.
THEOREM RevocationInvariance == RevocationSpec => []RevocationInv
BY InitRevocation, NextKeepsRevocation, PTL DEF RevocationSpec

-----------------------------------------------------------------------------
(* The results.                                                            *)

\* What revokeCertificate has confirmed is in the list of serveCRL until the
\* certificate expires.
THEOREM RevocationsStayListed == RevocationSpec => []ConfirmedIsListed
<1>1. RevocationInv => ConfirmedIsListed
  BY DEF RevocationInv, RevokedInv, ConfirmedIsListed
<1>. QED BY <1>1, RevocationInvariance, PTL

\* What OneListPerNumber says of a step.
Ordered ==
    /\ \A i \in 0..MaxNumber :
           published'[i] # published[i] => \A j \in i..MaxNumber : published[j] = {}
    /\ \A i \in 0..MaxNumber : published[i] # {} => i <= mem'.number
    /\ mem'.number <= MaxNumber

\* Only serveCRL publishes.
LEMMA OthersPublishNothing ==
    ASSUME [RevocationNext]_revocationVars, ~serveCRL
    PROVE  published' = published
BY DEF RevocationNext, revocationVars, issue, revokeCertificate, save, ExpireCert,
   NextUpdatePasses, RevocationRestart

\* refreshCRL goes to the next number, and nothing goes back.
LEMMA NumbersGrow ==
    ASSUME RevocationInv, [RevocationNext]_revocationVars
    PROVE  mem'.number \in 0..MaxNumber /\ mem.number <= mem'.number
<1>1. mem \in State /\ mem.number \in Nat
  BY NumberAssumption DEF RevocationInv, RevocationTypes, State
<1>2. mem' \in State
  BY NextKeepsRevocation DEF RevocationInv, RevocationTypes
<1>3. mem'.number \in {mem.number, mem.number + 1}
  <2>1. ASSUME NEW c \in Certificate, issue(c) PROVE mem'.number = mem.number
    <3> DEFINE next == [mem EXCEPT !.certs[c] = "good"]
    <3>1. next \in State /\ next.number = mem.number
      BY <1>1, StatusFacts
    <3>2. mem' = prune(next)
      BY <2>1 DEF issue, commit
    <3> HIDE DEF next
    <3>. QED BY <3>1, <3>2, PruneFacts
  <2>2. ASSUME NEW c \in Certificate, revokeCertificate(c) PROVE mem'.number = mem.number + 1
    <3> DEFINE next == [mem EXCEPT !.certs[c] = "revoked"]
    <3>1. next \in State /\ next.number = mem.number
      BY <1>1, StatusFacts
    <3>2. CanRefresh(next) /\ commit(refreshCRL(next))
      BY <2>2 DEF revokeCertificate
    <3> HIDE DEF next
    <3>. QED BY <3>1, <3>2, NewListFacts
  <2>3. CASE serveCRL
    BY <2>3, ServeFacts
  <2>4. CASE save \/ RevocationRestart
    BY <1>1, <2>4, PruneFacts DEF save, RevocationRestart, commit, RevocationInv, Saved
  <2>5. CASE (\E c \in Certificate : ExpireCert(c)) \/ NextUpdatePasses \/ UNCHANGED revocationVars
    BY <2>5 DEF ExpireCert, NextUpdatePasses, revocationVars
  <2>. QED BY <2>1, <2>2, <2>3, <2>4, <2>5 DEF RevocationNext
<1>. QED BY <1>1, <1>2, <1>3 DEF State

\* A list goes out under a number that was free, and with it all above it.
LEMMA StepsAreOrdered == ASSUME RevocationInv, [RevocationNext]_revocationVars PROVE Ordered
<1>1. /\ mem.number \in Nat /\ mem'.number \in 0..MaxNumber /\ mem.number <= mem'.number
      /\ \A i \in 0..MaxNumber : published[i] # {} => i <= mem.number
  BY NumbersGrow, NumberAssumption DEF RevocationInv, RevocationTypes, State, PublishedInv
<1>2. ASSUME NEW i \in 0..MaxNumber, published'[i] # published[i], NEW j \in i..MaxNumber
      PROVE  published[j] = {}
  <2>1. serveCRL
    BY <1>2, OthersPublishNothing
  <2>2. /\ mem' = mem \/ mem'.number = mem.number + 1
        /\ published' = [published EXCEPT ![mem'.number] = @ \cup {mem'.crl}]
    BY <1>2, <2>1, ServeFacts
  <2>3. i = mem'.number /\ published[i] # published[i] \cup {mem'.crl}
    BY <1>1, <1>2, <2>2 DEF RevocationInv, RevocationTypes
  <2>4. published[i] = {}
    BY <1>1, <2>2, <2>3 DEF RevocationInv, PublishedInv
  <2>5. j \in 0..MaxNumber /\ (j = i \/ j > mem.number)
    BY <1>1, <2>3, NumberAssumption
  <2>. QED BY <1>1, <2>4, <2>5, NumberAssumption
<1>3. /\ \A i \in 0..MaxNumber : published[i] # {} => i <= mem'.number
      /\ mem'.number <= MaxNumber
  BY <1>1, NumberAssumption
<1>. QED BY <1>2, <1>3 DEF Ordered

\* A client that keeps the list with the highest number has the newest, whatever
\* commits failed and however often the server was restarted.
THEOREM NumbersStandForOneList == RevocationSpec => OneListPerNumber
<1>1. OneListPerNumber <=> [][Ordered]_revocationVars
  BY DEF OneListPerNumber, Ordered
<1>. QED BY <1>1, RevocationInvariance, StepsAreOrdered, PTL DEF RevocationSpec

=============================================================================
