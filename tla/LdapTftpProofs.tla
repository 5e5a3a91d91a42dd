--------------------------- MODULE LdapTftpProofs ---------------------------
(***************************************************************************)
(* The invariants of LdapServer and TftpServer, for any connections,       *)
(* clients, slots and blocks, and that no step of them leaves them.        *)
(***************************************************************************)
EXTENDS LdapServer, TftpServer, FiniteSetTheorems, TLAPS

Context == DOMAIN Lineage

-----------------------------------------------------------------------------
(* Contexts.                                                               *)

\* Contexts that are done stay so: that of LDAP, whose closer acts on it.
Grows == cancelled' \subseteq Context /\ (Done("ldap") => Done("ldap")')

\* Cancelling a context takes nothing back.
LEMMA CancelGrows ==
    ASSUME cancelled \subseteq Context, NEW x \in Context, Cancel(x)
    PROVE  Grows
BY DEF Cancel, Grows, Done, Context, Lineage

\* A step that cancels nothing.
LEMMA UnchangedGrows ==
    ASSUME cancelled \subseteq Context, UNCHANGED cancelled
    PROVE  Grows
BY DEF Grows, Done

\* The contexts there are.
LEMMA ContextNames ==
    {"main", "ldap", "tftp", "nfs", "dns", "gateway", "https", "http"} \subseteq Context
BY DEF Context, Lineage

-----------------------------------------------------------------------------
(* LDAP.                                                                   *)

ConnRec == [at: {"none", "accepted", "handshake", "reading", "timer", "hashing", "ending", "gone"},
            open: BOOLEAN, canSearch: BOOLEAN, attempts: Nat, bind: Slow \cup {"none"}]

LdapTypes ==
    /\ ldap \in {"serving", "leaving", "returned"}
    /\ closer \in {"waiting", "plain", "secure", "swept"}
    /\ listening \subseteq Endpoints
    /\ acceptor \in [Endpoints -> Conn \cup {"accepting", "ended"}]
    /\ conn \in [Conn -> ConnRec]
    /\ IsFiniteSet(connections)

Hashing == {c \in Conn : conn[c].at = "hashing"}

\* A connection without a goroutine is in an acceptor's hand or closed.
ConnGood(c) ==
    /\ conn[c].at = "accepted" => acceptor[Endpoint[c]] = c
    /\ conn[c].at \in {"none", "gone"} => ~conn[c].open

\* The closer has got this far.
CloserGood ==
    /\ closer # "waiting" => "plain" \notin listening /\ Done("ldap")
    /\ closer \in {"secure", "swept"} => listening = {}
    /\ closer = "swept" => \A c \in connections : ~conn[c].open
    /\ ldap = "returned" => closer = "swept" /\ ~Busy

LdapInv ==
    /\ LdapTypes
    /\ \A e \in Endpoints : acceptor[e] \in Conn =>
           conn[acceptor[e]].at = "accepted" /\ Endpoint[acceptor[e]] = e
    /\ \A c \in Conn : ConnGood(c)
    /\ LdapLimits /\ CloserGood /\ RightsFromLastBind

AtWork == {"handshake", "reading", "timer", "hashing", "ending"}

\* LDAP rests while others take a step, which may cancel contexts.
LEMMA LdapRests ==
    ASSUME LdapInv, UNCHANGED ldapVars, Grows PROVE LdapInv'
<1>1. /\ UNCHANGED <<ldap, closer, listening, failed, acceptor, conn, connections, bindSlots, entitled>>
      /\ Done("ldap") => Done("ldap")'
  BY DEF ldapVars, life, Grows
<1>2. LdapTypes' /\ \A c \in Conn : ConnGood(c)'
  BY <1>1 DEF LdapInv, LdapTypes, ConnGood
<1>3. LdapLimits' /\ RightsFromLastBind'
  BY <1>1 DEF LdapInv, LdapLimits, RightsFromLastBind, Working
<1>4. CloserGood'
  BY <1>1 DEF LdapInv, CloserGood, Busy, Working
<1>. QED BY <1>1, <1>2, <1>3, <1>4 DEF LdapInv

\* A step of the goroutine of c that is not its last.
LEMMA HandlerKeeps ==
    ASSUME LdapInv, NEW c \in Conn, conn[c].at \in AtWork,
           NEW k \in ConnRec, k.at \in AtWork, k.open = conn[c].open, conn' = [conn EXCEPT ![c] = k],
           k.canSearch => c \in entitled', entitled \ {c} \subseteq entitled',
           bindSlots' = Cardinality(Hashing'), bindSlots' <= BindSlots,
           UNCHANGED <<cancelled, ldap, closer, listening, acceptor, connections>>
    PROVE  LdapInv'
<1>1. conn \in [Conn -> ConnRec] /\ conn'[c] = k /\ \A d \in Conn \ {c} : conn'[d] = conn[d]
  BY DEF LdapInv, LdapTypes
<1>2. LdapTypes'
  BY DEF LdapInv, LdapTypes
<1>3. \A d \in Conn : ConnGood(d)'
  BY <1>1 DEF LdapInv, ConnGood, AtWork
<1>4. \A e \in Endpoints : acceptor[e] \in Conn =>
          conn'[acceptor[e]].at = "accepted" /\ Endpoint[acceptor[e]] = e
  BY <1>1 DEF LdapInv, AtWork
<1>5. \A d \in Conn : Working(d)' <=> Working(d)
  BY <1>1 DEF Working, AtWork
<1>6. LdapLimits'
  BY <1>5 DEF LdapInv, LdapLimits, Hashing
<1>7. Busy /\ ldap # "returned"
  BY DEF LdapInv, CloserGood, Busy, Working, AtWork
<1>8. CloserGood'
  BY <1>1, <1>7 DEF LdapInv, CloserGood, Done
<1>9. RightsFromLastBind'
  BY <1>1 DEF LdapInv, RightsFromLastBind
<1>. QED BY <1>2, <1>3, <1>4, <1>6, <1>8, <1>9 DEF LdapInv

\* The fields of a connection that is closed.
LEMMA ClosedFacts ==
    ASSUME NEW at \in {"none", "ending", "gone"}
    PROVE  /\ Closed(at) \in ConnRec /\ Closed(at).at = at
           /\ ~Closed(at).open /\ ~Closed(at).canSearch
BY DEF Closed, ConnRec

\* Password checks are under way for connections of the table.
LEMMA HashingFacts ==
    ASSUME LdapInv
    PROVE  /\ IsFiniteSet(Hashing) /\ bindSlots = Cardinality(Hashing) /\ bindSlots \in Nat
           /\ bindSlots <= BindSlots /\ BindSlots \in Nat
<1>1. Hashing \subseteq connections /\ IsFiniteSet(connections)
  BY DEF LdapInv, LdapTypes, LdapLimits, Hashing, Working
<1>2. IsFiniteSet(Hashing) /\ Cardinality(Hashing) \in Nat
  BY <1>1, FS_Subset, FS_CardinalityType
<1>. QED BY <1>2, LdapAssumption DEF LdapInv, LdapLimits, Hashing

\* What handleConnection leaves behind.
LEMMA LeaveFacts ==
    ASSUME LdapInv, NEW c \in Conn, Leave(c)
    PROVE  \E k \in ConnRec : /\ conn' = [conn EXCEPT ![c] = k] /\ k.at = "ending"
                              /\ k.open = conn[c].open /\ ~k.canSearch
<1> DEFINE k == [Closed("ending") EXCEPT !.open = conn[c].open]
<1>1. conn[c].open \in BOOLEAN
  BY DEF LdapInv, LdapTypes, ConnRec
<1>2. k \in ConnRec /\ k.at = "ending" /\ k.open = conn[c].open /\ ~k.canSearch
  BY <1>1, Zenon DEF Closed, ConnRec
<1>3. conn' = [conn EXCEPT ![c] = k]
  BY DEF Leave
<1> HIDE DEF k
<1>. QED BY <1>2, <1>3, Zenon

\* After a request the loop goes on, or ends.
LEMMA ContinueFacts ==
    ASSUME LdapInv, NEW c \in Conn, NEW state \in ConnRec, Continue(c, state), state.open = conn[c].open
    PROVE  \E k \in ConnRec : /\ conn' = [conn EXCEPT ![c] = k] /\ k.at \in {"reading", "ending"}
                              /\ k.open = conn[c].open
                              /\ k.canSearch => k.at = "reading" /\ state.canSearch
<1>1. CASE Leave(c)
  BY <1>1, LeaveFacts
<1>2. CASE conn' = [conn EXCEPT ![c] = [state EXCEPT !.at = "reading"]]
  <2> DEFINE k == [state EXCEPT !.at = "reading"]
  <2>1. k \in ConnRec /\ k.at = "reading" /\ k.open = conn[c].open /\ k.canSearch = state.canSearch
    BY DEF ConnRec
  <2>2. conn' = [conn EXCEPT ![c] = k]
    BY <1>2
  <2> HIDE DEF k
  <2>. QED BY <2>1, <2>2, Zenon
<1>. QED BY <1>1, <1>2 DEF Continue

\* No password check begins or ends.
LEMMA HashingStays ==
    ASSUME LdapInv, NEW c \in Conn, NEW k \in ConnRec, conn' = [conn EXCEPT ![c] = k],
           conn[c].at # "hashing", k.at # "hashing", bindSlots' = bindSlots
    PROVE  bindSlots' = Cardinality(Hashing') /\ bindSlots' <= BindSlots
<1>1. Hashing' = Hashing
  BY DEF Hashing, LdapInv, LdapTypes
<1>. QED BY <1>1, HashingFacts

\* A handshake, a request or a bind that is refused: no password check begins or ends.
LEMMA QuickStepKeeps ==
    ASSUME LdapInv, NEW c \in Conn, conn[c].at \in AtWork \ {"hashing"},
           NEW k \in ConnRec, k.at \in AtWork \ {"hashing"}, k.open = conn[c].open,
           conn' = [conn EXCEPT ![c] = k],
           k.canSearch => c \in entitled', entitled \ {c} \subseteq entitled',
           UNCHANGED <<cancelled, ldap, closer, listening, acceptor, connections, bindSlots>>
    PROVE  LdapInv'
<1>1. bindSlots' = Cardinality(Hashing') /\ bindSlots' <= BindSlots
  BY HashingStays, Zenon
<1>. QED BY <1>1, HandlerKeeps, Zenon

\* The handshake.
LEMMA HandshakeKeeps == ASSUME LdapInv, NEW c \in Conn, Handshake(c) PROVE LdapInv'
<1> DEFINE k == [conn[c] EXCEPT !.at = "reading"]
<1>1. conn \in [Conn -> ConnRec] /\ (conn[c].canSearch => c \in entitled)
  BY DEF LdapInv, LdapTypes, RightsFromLastBind
<1>2. /\ k \in ConnRec /\ k.at = "reading" /\ k.open = conn[c].open /\ k.canSearch = conn[c].canSearch
      /\ conn' = [conn EXCEPT ![c] = k]
  BY <1>1, Zenon DEF ConnRec, Handshake
<1>3. /\ conn[c].at = "handshake"
      /\ UNCHANGED <<cancelled, ldap, closer, listening, acceptor, connections, bindSlots, entitled>>
  BY DEF Handshake, life
<1>4. k.canSearch => c \in entitled'
  BY <1>1, <1>2, <1>3
<1> HIDE DEF k
<1>. QED BY <1>2, <1>3, <1>4, QuickStepKeeps, Zenon DEF AtWork

\* A failed handshake or read.
LEMMA FailsKeeps == ASSUME LdapInv, NEW c \in Conn, Fails(c) PROVE LdapInv'
<1>1. /\ conn[c].at \in AtWork \ {"hashing"} /\ entitled \ {c} \subseteq entitled'
      /\ UNCHANGED <<cancelled, ldap, closer, listening, acceptor, connections, bindSlots>>
  BY DEF Fails, life, AtWork
<1>2. PICK k \in ConnRec : /\ conn' = [conn EXCEPT ![c] = k] /\ k.at = "ending"
                           /\ k.open = conn[c].open /\ ~k.canSearch
  BY LeaveFacts DEF Fails
<1>. QED BY <1>1, <1>2, QuickStepKeeps, Zenon DEF AtWork

\* A request that is answered at once: one that takes the rights away does so here too.
LEMMA RequestKeeps ==
    ASSUME LdapInv, NEW c \in Conn, NEW r \in Quick, Request(c, r) PROVE LdapInv'
<1> DEFINE reset == r \in {"bad_bind", "quick"}
           may == conn[c].canSearch /\ ~reset
           attempts == IF r = "quick" THEN conn[c].attempts + 1 ELSE conn[c].attempts
           state == [conn[c] EXCEPT !.canSearch = may, !.attempts = attempts]
<1>1. /\ conn[c].at = "reading"
      /\ UNCHANGED <<cancelled, ldap, closer, listening, acceptor, connections, bindSlots>>
      /\ entitled' = IF conn'[c].at = "ending" \/ reset THEN entitled \ {c} ELSE entitled
      /\ Leave(c) \/ Continue(c, state)
  BY DEF Request, Answer, life
<1>2. conn \in [Conn -> ConnRec]
  BY DEF LdapInv, LdapTypes
<1>3. /\ state \in ConnRec /\ state.open = conn[c].open
      /\ state.canSearch => conn[c].canSearch /\ ~reset
  <2>1. conn[c] \in ConnRec /\ may \in BOOLEAN
    BY <1>2
  <2>2. attempts \in Nat
    BY <2>1 DEF ConnRec
  <2> HIDE DEF may, attempts
  <2>3. state \in ConnRec /\ state.open = conn[c].open /\ state.canSearch = may
    BY <2>1, <2>2, Zenon DEF ConnRec
  <2>. QED BY <2>3, Zenon DEF may
<1> HIDE DEF state
<1>4. PICK k \in ConnRec : /\ conn' = [conn EXCEPT ![c] = k] /\ k.at \in {"reading", "ending"}
                           /\ k.open = conn[c].open
                           /\ k.canSearch => k.at = "reading" /\ state.canSearch
  BY <1>1, <1>3, LeaveFacts, ContinueFacts
<1>5. k.canSearch => c \in entitled'
  BY <1>1, <1>2, <1>3, <1>4 DEF LdapInv, RightsFromLastBind
<1>. QED BY <1>1, <1>4, <1>5, QuickStepKeeps, Zenon DEF AtWork

\* A bind with a password.
LEMMA BindKeeps ==
    ASSUME LdapInv, NEW c \in Conn, NEW r \in Slow, Bind(c, r) PROVE LdapInv'
<1> DEFINE attempts == conn[c].attempts + 1
           k == [conn[c] EXCEPT !.at = "timer", !.attempts = attempts, !.bind = r, !.canSearch = FALSE]
<1>1. /\ conn[c].at = "reading" /\ entitled \ {c} \subseteq entitled'
      /\ UNCHANGED <<cancelled, ldap, closer, listening, acceptor, connections, bindSlots>>
  BY DEF Bind, life
<1>2. CASE Leave(c)
  <2>1. PICK l \in ConnRec : /\ conn' = [conn EXCEPT ![c] = l] /\ l.at = "ending"
                             /\ l.open = conn[c].open /\ ~l.canSearch
    BY <1>2, LeaveFacts
  <2>. QED BY <1>1, <2>1, QuickStepKeeps, Zenon DEF AtWork
<1>3. CASE ~Leave(c)
  <2>1. conn \in [Conn -> ConnRec]
    BY DEF LdapInv, LdapTypes
  <2>2. conn' = [conn EXCEPT ![c] = k]
    BY <1>3, <2>1, Zenon DEF Bind
  <2>3. k \in ConnRec /\ k.at = "timer" /\ k.open = conn[c].open /\ ~k.canSearch
    <3>1. conn[c] \in ConnRec /\ attempts \in Nat
      BY <2>1 DEF ConnRec
    <3> HIDE DEF attempts
    <3>. QED BY <3>1, Zenon DEF ConnRec
  <2> HIDE DEF k
  <2>. QED BY <1>1, <2>2, <2>3, QuickStepKeeps, Zenon DEF AtWork
<1>. QED BY <1>2, <1>3

\* A password check begins.
LEMMA TakeSlotKeeps == ASSUME LdapInv, NEW c \in Conn, TakeSlot(c) PROVE LdapInv'
<1> DEFINE k == [conn[c] EXCEPT !.at = "hashing"]
<1>1. conn \in [Conn -> ConnRec] /\ (conn[c].canSearch => c \in entitled)
  BY DEF LdapInv, LdapTypes, RightsFromLastBind
<1>2. /\ k \in ConnRec /\ k.at = "hashing" /\ k.open = conn[c].open /\ k.canSearch = conn[c].canSearch
      /\ conn' = [conn EXCEPT ![c] = k]
  BY <1>1 DEF ConnRec, TakeSlot
<1>3. /\ conn[c].at = "timer" /\ bindSlots < BindSlots /\ bindSlots' = bindSlots + 1
      /\ UNCHANGED <<cancelled, ldap, closer, listening, acceptor, connections, entitled>>
  BY DEF TakeSlot, life
<1> HIDE DEF k
<1>4. c \notin Hashing /\ Hashing' = Hashing \cup {c}
  BY <1>1, <1>2, <1>3 DEF Hashing
<1>5. bindSlots' = Cardinality(Hashing') /\ bindSlots' <= BindSlots
  <2>1. /\ IsFiniteSet(Hashing) /\ bindSlots = Cardinality(Hashing) /\ bindSlots \in Nat
        /\ BindSlots \in Nat
    BY HashingFacts
  <2>2. Cardinality(Hashing') = Cardinality(Hashing) + 1
    BY <1>4, <2>1, FS_AddElement
  <2>. QED BY <1>3, <2>1, <2>2
<1>. QED BY <1>1, <1>2, <1>3, <1>5, HandlerKeeps, Zenon DEF AtWork

\* The server is busy, or is stopping.
LEMMA BindRefusedKeeps == ASSUME LdapInv, NEW c \in Conn, BindRefused(c) PROVE LdapInv'
<1> DEFINE state == [conn[c] EXCEPT !.bind = "none"]
<1>1. /\ conn[c].at = "timer" /\ Continue(c, state)
      /\ UNCHANGED <<cancelled, ldap, closer, listening, acceptor, connections, bindSlots, entitled>>
  BY DEF BindRefused, life
<1>2. conn \in [Conn -> ConnRec] /\ (conn[c].canSearch => c \in entitled)
  BY DEF LdapInv, LdapTypes, RightsFromLastBind
<1>3. state \in ConnRec /\ state.open = conn[c].open /\ state.canSearch = conn[c].canSearch
  BY <1>2 DEF ConnRec
<1> HIDE DEF state
<1>4. PICK k \in ConnRec : /\ conn' = [conn EXCEPT ![c] = k] /\ k.at \in {"reading", "ending"}
                           /\ k.open = conn[c].open
                           /\ k.canSearch => k.at = "reading" /\ state.canSearch
  BY <1>1, <1>3, ContinueFacts
<1>. QED BY <1>1, <1>2, <1>3, <1>4, QuickStepKeeps, Zenon DEF AtWork

\* A password check ends, and gives rights if it was that of a reader.
LEMMA BindDoneKeeps == ASSUME LdapInv, NEW c \in Conn, BindDone(c) PROVE LdapInv'
<1> DEFINE state == [conn[c] EXCEPT !.canSearch = conn[c].bind = "reader", !.bind = "none"]
<1>1. /\ conn[c].at = "hashing" /\ Continue(c, state) /\ bindSlots' = bindSlots - 1
      /\ entitled' = IF conn'[c].at = "reading" /\ conn[c].bind = "reader" THEN entitled \cup {c}
                     ELSE entitled \ {c}
      /\ UNCHANGED <<cancelled, ldap, closer, listening, acceptor, connections>>
  BY DEF BindDone, life
<1>2. conn \in [Conn -> ConnRec]
  BY DEF LdapInv, LdapTypes
<1>3. state \in ConnRec /\ state.open = conn[c].open /\ state.canSearch = (conn[c].bind = "reader")
  BY <1>2, Zenon DEF ConnRec
<1> HIDE DEF state
<1>4. PICK k \in ConnRec : /\ conn' = [conn EXCEPT ![c] = k] /\ k.at \in {"reading", "ending"}
                           /\ k.open = conn[c].open
                           /\ k.canSearch => k.at = "reading" /\ state.canSearch
  BY <1>1, <1>3, ContinueFacts
<1>5. conn'[c] = k
  BY <1>2, <1>4
<1>6. k.canSearch => c \in entitled'
  BY <1>1, <1>3, <1>4, <1>5, Zenon
<1>7. c \in Hashing /\ Hashing' = Hashing \ {c}
  BY <1>1, <1>2, <1>4 DEF Hashing
<1>8. bindSlots' = Cardinality(Hashing') /\ bindSlots' <= BindSlots
  <2>1. /\ IsFiniteSet(Hashing) /\ bindSlots = Cardinality(Hashing) /\ bindSlots \in Nat
        /\ bindSlots <= BindSlots /\ BindSlots \in Nat
    BY HashingFacts
  <2>2. Cardinality(Hashing \ {c}) = Cardinality(Hashing) - 1
    BY <1>7, <2>1, FS_RemoveElement
  <2>. QED BY <1>1, <1>7, <2>1, <2>2
<1>. QED BY <1>1, <1>4, <1>6, <1>8, HandlerKeeps, Zenon DEF AtWork

\* The goroutine of a connection ends.
LEMMA EndKeeps == ASSUME LdapInv, NEW c \in Conn, End(c) PROVE LdapInv'
<1>1. /\ conn[c].at = "ending" /\ connections' = connections \ {c}
      /\ UNCHANGED <<cancelled, ldap, closer, listening, acceptor, bindSlots, entitled>>
  BY DEF End, life
<1>2. /\ conn \in [Conn -> ConnRec] /\ conn' = [conn EXCEPT ![c] = Closed("gone")]
      /\ conn'[c] = Closed("gone") /\ \A d \in Conn \ {c} : conn'[d] = conn[d]
  BY DEF LdapInv, LdapTypes, End
<1>3. LdapTypes'
  <2>1. IsFiniteSet(connections \ {c})
    BY FS_RemoveElement DEF LdapInv, LdapTypes
  <2>2. conn' \in [Conn -> ConnRec]
    BY <1>2, ClosedFacts
  <2>. QED BY <1>1, <2>1, <2>2 DEF LdapInv, LdapTypes
<1>4. \A d \in Conn : ConnGood(d)'
  BY <1>1, <1>2, ClosedFacts DEF LdapInv, ConnGood
<1>5. \A e \in Endpoints : acceptor[e] \in Conn =>
          conn'[acceptor[e]].at = "accepted" /\ Endpoint[acceptor[e]] = e
  BY <1>1, <1>2 DEF LdapInv
<1>6. LdapLimits'
  <2>1. \A d \in Conn : Working(d)' <=> Working(d) /\ d # c
    BY <1>2, ClosedFacts DEF Working
  <2>2. connections' = {d \in Conn : Working(d)'}
    BY <1>1, <2>1, Zenon DEF LdapInv, LdapLimits
  <2>3. Cardinality(connections') <= maxConnections
    <3>1. IsFiniteSet(connections) /\ connections' \subseteq connections
      BY <1>1 DEF LdapInv, LdapTypes
    <3>2. Cardinality(connections') \in Nat /\ Cardinality(connections) \in Nat
          /\ Cardinality(connections') <= Cardinality(connections)
      BY <3>1, FS_Subset, FS_CardinalityType
    <3>3. Cardinality(connections) <= maxConnections /\ maxConnections \in Nat
      BY LdapAssumption DEF LdapInv, LdapLimits
    <3>. QED BY <3>2, <3>3
  <2>4. Hashing' = Hashing
    BY <1>1, <1>2, ClosedFacts DEF Hashing
  <2>. QED BY <1>1, <2>2, <2>3, <2>4, HashingFacts, Zenon DEF LdapLimits, Hashing
<1>7. Busy /\ ldap # "returned"
  BY <1>1, Zenon DEF LdapInv, CloserGood, Busy, Working
<1>8. CloserGood'
  BY <1>1, <1>2, <1>7, ClosedFacts DEF LdapInv, CloserGood, Done
<1>9. RightsFromLastBind'
  BY <1>1, <1>2, ClosedFacts, Zenon DEF LdapInv, RightsFromLastBind
<1>. QED BY <1>1, <1>3, <1>4, <1>5, <1>6, <1>8, <1>9, Zenon DEF LdapInv

\* An acceptor takes a connection.
LEMMA AcceptKeeps ==
    ASSUME LdapInv, NEW e \in Endpoints, NEW c \in Conn, Accept(e, c) PROVE LdapInv'
<1> DEFINE k == [conn[c] EXCEPT !.at = "accepted", !.open = TRUE]
<1>1. /\ acceptor[e] = "accepting" /\ e \in listening /\ Endpoint[c] = e /\ conn[c].at = "none"
      /\ acceptor' = [acceptor EXCEPT ![e] = c]
      /\ UNCHANGED <<cancelled, ldap, closer, listening, connections, bindSlots, entitled>>
  BY DEF Accept, life
<1>2. conn \in [Conn -> ConnRec] /\ acceptor \in [Endpoints -> Conn \cup {"accepting", "ended"}]
  BY DEF LdapInv, LdapTypes
<1>3. k \in ConnRec /\ k.at = "accepted" /\ k.canSearch = conn[c].canSearch /\ conn' = [conn EXCEPT ![c] = k]
  BY <1>2, Zenon DEF ConnRec, Accept
<1> HIDE DEF k
<1>4. /\ conn'[c] = k /\ \A d \in Conn \ {c} : conn'[d] = conn[d]
      /\ acceptor'[e] = c /\ \A f \in Endpoints \ {e} : acceptor'[f] = acceptor[f]
  BY <1>1, <1>2, <1>3
<1>5. LdapTypes'
  BY <1>1, <1>2, <1>3 DEF LdapInv, LdapTypes
<1>6. \A d \in Conn : ConnGood(d)'
  <2>1. ASSUME NEW d \in Conn, d # c, conn[d].at = "accepted" PROVE Endpoint[d] # e
    BY <1>1, <2>1, LdapAssumption DEF LdapInv, ConnGood
  <2>2. \A d \in Conn : Endpoint[d] \in Endpoints
    BY LdapAssumption DEF Endpoints
  <2>3. ConnGood(c)'
    BY <1>1, <1>3, <1>4 DEF ConnGood
  <2>4. ASSUME NEW d \in Conn, d # c PROVE ConnGood(d)'
    BY <1>4, <2>1, <2>2, <2>4 DEF LdapInv, ConnGood
  <2>. QED BY <2>3, <2>4
<1>7. \A f \in Endpoints : acceptor'[f] \in Conn =>
          conn'[acceptor'[f]].at = "accepted" /\ Endpoint[acceptor'[f]] = f
  BY <1>1, <1>3, <1>4 DEF LdapInv
<1>8. LdapLimits'
  <2>1. \A d \in Conn : (Working(d)' <=> Working(d)) /\ (conn'[d].at = "hashing" <=> conn[d].at = "hashing")
    BY <1>1, <1>3, <1>4 DEF Working
  <2>2. /\ {d \in Conn : Working(d)'} = {d \in Conn : Working(d)}
        /\ {d \in Conn : conn'[d].at = "hashing"} = {d \in Conn : conn[d].at = "hashing"}
    BY <2>1
  <2>. QED BY <1>1, <2>2, Zenon DEF LdapInv, LdapLimits
<1>9. CloserGood'
  <2>1. Busy /\ ldap # "returned"
    BY <1>1, Zenon DEF LdapInv, CloserGood, Busy
  <2>2. c \notin connections
    BY <1>1, Zenon DEF LdapInv, LdapLimits, Working
  <2>3. connections \subseteq Conn
    BY Zenon DEF LdapInv, LdapLimits
  <2>. QED BY <1>1, <1>4, <2>1, <2>2, <2>3, Zenon DEF LdapInv, CloserGood, Done
<1>10. RightsFromLastBind'
  BY <1>1, <1>3, <1>4 DEF LdapInv, RightsFromLastBind
<1>. QED BY <1>5, <1>6, <1>7, <1>8, <1>9, <1>10, Zenon DEF LdapInv

\* An acceptor ends.
LEMMA AcceptFailsKeeps == ASSUME LdapInv, NEW e \in Endpoints, AcceptFails(e) PROVE LdapInv'
<1>1. /\ acceptor[e] = "accepting" /\ acceptor' = [acceptor EXCEPT ![e] = "ended"]
      /\ UNCHANGED <<cancelled, ldap, closer, listening, conn, connections, bindSlots, entitled>>
  BY DEF AcceptFails
<1>2. /\ acceptor \in [Endpoints -> Conn \cup {"accepting", "ended"}] /\ acceptor'[e] = "ended"
      /\ \A f \in Endpoints \ {e} : acceptor'[f] = acceptor[f]
  BY <1>1 DEF LdapInv, LdapTypes
<1>3. "accepting" \notin Conn /\ "ended" \notin Conn
  BY LdapAssumption
<1>4. LdapTypes'
  BY <1>1, <1>2 DEF LdapInv, LdapTypes
<1>5. \A d \in Conn : ConnGood(d)'
  <2>1. \A d \in Conn : Endpoint[d] \in Endpoints
    BY LdapAssumption DEF Endpoints
  <2>. QED BY <1>1, <1>2, <1>3, <2>1 DEF LdapInv, ConnGood
<1>6. \A f \in Endpoints : acceptor'[f] \in Conn =>
          conn[acceptor'[f]].at = "accepted" /\ Endpoint[acceptor'[f]] = f
  BY <1>2, <1>3 DEF LdapInv
<1>7. LdapLimits' /\ RightsFromLastBind'
  BY <1>1 DEF LdapInv, LdapLimits, RightsFromLastBind, Working
<1>8. CloserGood'
  <2>1. ldap # "returned"
    BY <1>1 DEF LdapInv, CloserGood, Busy
  <2>. QED BY <1>1, <2>1 DEF LdapInv, CloserGood, Done
<1>. QED BY <1>1, <1>4, <1>5, <1>6, <1>7, <1>8, Zenon DEF LdapInv

\* Under the mutex the connection in hand is registered, or closed.
LEMMA AdmitKeeps == ASSUME LdapInv, NEW e \in Endpoints, Admit(e) PROVE LdapInv'
<1> DEFINE c == acceptor[e]
           admitted == ~Done("ldap") /\ Cardinality(connections) < maxConnections
           first == IF Endpoint[c] = "secure" THEN "handshake" ELSE "reading"
           k == IF admitted THEN [conn[c] EXCEPT !.at = first] ELSE Closed("gone")
<1>1. /\ c \in Conn /\ acceptor' = [acceptor EXCEPT ![e] = "accepting"]
      /\ connections' = IF admitted THEN connections \cup {c} ELSE connections
      /\ conn' = [conn EXCEPT ![c] = k]
      /\ UNCHANGED <<cancelled, ldap, closer, listening, bindSlots, entitled>>
  BY Zenon DEF Admit, Decide, life
<1>2. /\ conn \in [Conn -> ConnRec] /\ conn[c].at = "accepted" /\ Endpoint[c] = e
      /\ acceptor \in [Endpoints -> Conn \cup {"accepting", "ended"}]
  BY <1>1 DEF LdapInv, LdapTypes
<1>3. /\ k \in ConnRec /\ (k.canSearch => conn[c].canSearch)
      /\ admitted => k.at \in {"handshake", "reading"}
      /\ ~admitted => k.at = "gone" /\ ~k.open
  BY <1>1, <1>2, ClosedFacts DEF ConnRec
<1>4. /\ conn'[c] = k /\ \A d \in Conn \ {c} : conn'[d] = conn[d]
      /\ acceptor'[e] = "accepting" /\ \A f \in Endpoints \ {e} : acceptor'[f] = acceptor[f]
  BY <1>1, <1>2
<1>5. IsFiniteSet(connections) /\ c \notin connections /\ connections \subseteq Conn
  BY <1>2, Zenon DEF LdapInv, LdapTypes, LdapLimits, Working
<1>6. IsFiniteSet(connections') /\ Cardinality(connections') <= maxConnections
  <2>1. /\ Cardinality(connections) \in Nat /\ maxConnections \in Nat
        /\ Cardinality(connections) <= maxConnections
    BY <1>5, LdapAssumption, FS_CardinalityType DEF LdapInv, LdapLimits
  <2>2. IsFiniteSet(connections \cup {c}) /\ Cardinality(connections \cup {c}) = Cardinality(connections) + 1
    BY <1>5, FS_AddElement
  <2>3. CASE admitted
    BY <1>1, <2>1, <2>2, <2>3
  <2>4. CASE ~admitted
    BY <1>1, <1>5, <2>1, <2>4
  <2>. QED BY <2>3, <2>4
<1> HIDE DEF k, c, first
<1>7. LdapTypes'
  BY <1>1, <1>2, <1>3, <1>6 DEF LdapInv, LdapTypes
<1>8. \A d \in Conn : ConnGood(d)'
  <2>1. \A d \in Conn : Endpoint[d] \in Endpoints
    BY LdapAssumption DEF Endpoints
  <2>2. ASSUME NEW d \in Conn, d = c PROVE ConnGood(d)'
    BY <1>3, <1>4, <2>2 DEF ConnGood
  <2>3. ASSUME NEW d \in Conn, d # c PROVE ConnGood(d)'
    <3>1. ConnGood(d) /\ conn'[d] = conn[d]
      BY <1>4, <2>3 DEF LdapInv
    <3>2. conn[d].at = "accepted" => acceptor'[Endpoint[d]] = d
      BY <1>4, <2>1, <2>3, <3>1 DEF ConnGood, c
    <3>. QED BY <3>1, <3>2 DEF ConnGood
  <2>. QED BY <2>2, <2>3
<1>9. \A f \in Endpoints : acceptor'[f] \in Conn =>
          conn'[acceptor'[f]].at = "accepted" /\ Endpoint[acceptor'[f]] = f
  <2>1. "accepting" \notin Conn
    BY LdapAssumption
  <2>. QED BY <1>2, <1>4, <2>1 DEF LdapInv
<1>10. LdapLimits'
  <2>1. \A d \in Conn : Working(d)' <=> Working(d) \/ (d = c /\ admitted)
    BY <1>2, <1>3, <1>4 DEF Working
  <2>2. connections' = {d \in Conn : Working(d)'}
    BY <1>1, <2>1 DEF LdapInv, LdapLimits
  <2>3. Hashing' = Hashing
    BY <1>1, <1>2, <1>3, <1>4 DEF Hashing
  <2>. QED BY <1>1, <1>6, <2>2, <2>3, HashingFacts, Zenon DEF LdapLimits, Hashing
<1>11. CloserGood'
  <2>1. ldap # "returned"
    <3>1. c # "ended"
      BY <1>1, LdapAssumption, Zenon
    <3>. QED BY <3>1 DEF LdapInv, CloserGood, Busy, c
  <2>2. closer = "swept" => connections' = connections /\ \A d \in connections' : ~conn'[d].open
    BY <1>1, <1>4, <1>5 DEF LdapInv, CloserGood
  <2>. QED BY <1>1, <2>1, <2>2 DEF LdapInv, CloserGood, Done
<1>12. RightsFromLastBind'
  BY <1>1, <1>3, <1>4 DEF LdapInv, RightsFromLastBind
<1>. QED BY <1>7, <1>8, <1>9, <1>10, <1>11, <1>12, Zenon DEF LdapInv

\* The closer.
LEMMA CloserKeeps == ASSUME LdapInv, CloserStep PROVE LdapInv'
<1>1. /\ UNCHANGED <<cancelled, ldap, acceptor, failed, connections, bindSlots, entitled>>
      /\ conn \in [Conn -> ConnRec]
  BY DEF CloserStep, LdapInv, LdapTypes
<1>2. ldap # "returned"
  BY DEF CloserStep, LdapInv, CloserGood
<1>3. CASE closer # "secure"
  <2>1. /\ conn' = conn
        /\ \/ closer = "waiting" /\ Done("ldap") /\ closer' = "plain" /\ listening' = listening \ {"plain"}
           \/ closer = "plain" /\ closer' = "secure" /\ listening' = listening \ {"secure"}
    BY <1>3 DEF CloserStep
  <2>2. LdapTypes' /\ CloserGood'
    BY <1>1, <1>2, <2>1, Zenon DEF LdapInv, LdapTypes, CloserGood, Endpoints, Done
  <2>. QED BY <1>1, <2>1, <2>2, Zenon DEF LdapInv, LdapLimits, RightsFromLastBind, ConnGood, Working
<1>4. CASE closer = "secure"
  <2>1. /\ closer' = "swept" /\ listening' = listening
        /\ conn' = [c \in Conn |-> IF c \in connections THEN [conn[c] EXCEPT !.open = FALSE] ELSE conn[c]]
    BY <1>4 DEF CloserStep
  <2>2. /\ conn' \in [Conn -> ConnRec]
        /\ \A c \in Conn : /\ conn'[c].at = conn[c].at /\ conn'[c].canSearch = conn[c].canSearch
                           /\ conn'[c].open => conn[c].open /\ c \notin connections
    BY <1>1, <2>1, Zenon DEF ConnRec
  <2>3. LdapTypes' /\ CloserGood'
    <3>1. connections \subseteq Conn
      BY DEF LdapInv, LdapLimits
    <3>. QED BY <1>1, <1>2, <1>4, <2>1, <2>2, <3>1 DEF LdapInv, LdapTypes, CloserGood, Done
  <2>4. \A c \in Conn : ConnGood(c)'
    BY <1>1, <2>2 DEF LdapInv, ConnGood
  <2>5. LdapLimits' /\ RightsFromLastBind'
    BY <1>1, <2>2, Zenon DEF LdapInv, LdapLimits, RightsFromLastBind, Working
  <2>6. \A e \in Endpoints : acceptor[e] \in Conn =>
            conn'[acceptor[e]].at = "accepted" /\ Endpoint[acceptor[e]] = e
    BY <2>2, Zenon DEF LdapInv
  <2>. QED BY <1>1, <2>3, <2>4, <2>5, <2>6, Zenon DEF LdapInv
<1>. QED BY <1>3, <1>4 DEF CloserStep

\* serve stops, and returns.
LEMMA ServeKeeps ==
    ASSUME LdapInv, cancelled \subseteq Context, ServeStops \/ ServeReturns PROVE LdapInv'
<1>1. /\ UNCHANGED <<closer, listening, acceptor, conn, connections, bindSlots, entitled>>
      /\ ldap' \in {"leaving", "returned"}
      /\ ldap' = "returned" => closer = "swept" /\ ~Busy
  BY DEF ServeStops, ServeReturns
<1>2. Done("ldap") => Done("ldap")'
  BY ContextNames, CancelGrows, Zenon DEF ServeStops, ServeReturns, Grows, Done
<1>3. LdapTypes' /\ \A c \in Conn : ConnGood(c)'
  BY <1>1 DEF LdapInv, LdapTypes, ConnGood
<1>4. LdapLimits' /\ RightsFromLastBind'
  BY <1>1 DEF LdapInv, LdapLimits, RightsFromLastBind, Working
<1>5. CloserGood'
  BY <1>1, <1>2, Zenon DEF LdapInv, CloserGood, Busy, Working
<1>. QED BY <1>1, <1>3, <1>4, <1>5, Zenon DEF LdapInv

\* A step of the LDAP server; when serve has returned it stays so.
LEMMA LdapKeeps ==
    ASSUME LdapInv, cancelled \subseteq Context, LdapNext
    PROVE  LdapInv' /\ Grows /\ (ldap = "returned" => ldap' = "returned")
<1>1. ASSUME NEW c \in Conn, HandlerStep(c) PROVE LdapInv' /\ UNCHANGED <<cancelled, ldap>>
  <2>1. LdapInv'
    BY <1>1, HandshakeKeeps, FailsKeeps, RequestKeeps, BindKeeps, TakeSlotKeeps, BindRefusedKeeps,
       BindDoneKeeps, EndKeeps, Zenon DEF HandlerStep
  <2>2. UNCHANGED <<cancelled, ldap>>
    BY <1>1, Zenon DEF HandlerStep, Handshake, Fails, Request, Answer, Bind, TakeSlot, BindRefused, BindDone,
       End, life
  <2>. QED BY <2>1, <2>2
<1>2. ASSUME NEW e \in Endpoints, (\E c \in Conn : Accept(e, c)) \/ AcceptFails(e) \/ Admit(e)
      PROVE  LdapInv' /\ UNCHANGED <<cancelled, ldap>>
  <2>1. LdapInv'
    BY <1>2, AcceptKeeps, AcceptFailsKeeps, AdmitKeeps
  <2>2. UNCHANGED <<cancelled, ldap>>
    BY <1>2, Zenon DEF Accept, AcceptFails, Admit, Decide, life
  <2>. QED BY <2>1, <2>2
<1>3. CASE CloserStep
  BY <1>3, CloserKeeps, UnchangedGrows DEF CloserStep
<1>4. CASE ServeStops \/ ServeReturns
  <2>1. Grows
    BY <1>4, ContextNames, CancelGrows, UnchangedGrows DEF ServeStops, ServeReturns
  <2>. QED BY <1>4, <2>1, ServeKeeps DEF ServeStops, ServeReturns
<1>. QED BY <1>1, <1>2, <1>3, <1>4, UnchangedGrows DEF LdapNext


-----------------------------------------------------------------------------
(* TFTP.                                                                   *)

\* What has been sent: no data ahead of the client, no acknowledgement of what it
\* does not have.
NetGood(m) ==
    /\ m.peer \in Responds /\ m.tid \in Nat
    /\ m.kind = "data" => m.index \in 1..Blocks /\ m.index <= Len(client[m.peer].got) + 1
    /\ m.kind = "ack" => m.index \in Nat /\ m.index <= Len(client[m.peer].got)

TftpTables ==
    /\ clients \in [Address -> Nat]
    /\ worker \in [Peer -> Transfer \cup {None}]
    /\ tids \in Nat /\ IsFiniteSet(active)
    /\ SlotsMatchWorkers
    /\ serving = "returned" => \A p \in Peer : worker[p] = None

TftpInv ==
    /\ TftpTables
    /\ client \in [Peer -> [tid: Nat, got: Seq(Nat)]]
    /\ \A m \in net : NetGood(m)
    /\ \A p \in Responds : Sending(p) => worker[p].block <= Len(client[p].got) + 1
    /\ \A p \in Peer : Len(client[p].got) <= Blocks
    /\ served \subseteq Responds /\ FilesArrive

\* Block numbers wrap around, but a packet with the number of block j that has not
\* been under way for too long is not about a block before j.
LEMMA NumberTells ==
    ASSUME NEW i \in Nat, NEW j \in Nat, Number(i) = Number(j), Recent(i, j) PROVE i >= j
<1>1. Modulus \in Nat /\ Modulus > 2 /\ i + Modulus > j + 1
  BY TftpAssumption DEF Recent
<1>2. /\ i \div Modulus \in Int /\ j \div Modulus \in Int
      /\ i = Modulus * (i \div Modulus) + (i % Modulus)
      /\ j = Modulus * (j \div Modulus) + (j % Modulus)
  BY <1>1
<1> DEFINE a == i \div Modulus
           b == j \div Modulus
           r == i % Modulus
<1>3. j % Modulus = r /\ r \in Int
  BY <1>1 DEF Number
<1>4. a \in Int /\ b \in Int /\ i = Modulus * a + r /\ j = Modulus * b + r
  BY <1>2, <1>3
<1> HIDE DEF a, b, r
<1>5. ASSUME a < b PROVE FALSE
  <2>1. Modulus * (a + 1) <= Modulus * b
    BY <1>1, <1>4, <1>5
  <2>2. Modulus * (a + 1) = Modulus * a + Modulus
    BY <1>1, <1>4
  <2>. QED BY <1>1, <1>3, <1>4, <2>1, <2>2
<1>6. Modulus * b <= Modulus * a
  BY <1>1, <1>4, <1>5
<1>. QED BY <1>1, <1>3, <1>4, <1>6

\* The client of p: its blocks are those from the first on.
Blockwise(q) == /\ client[q] \in [tid: Nat, got: Seq(Nat)] /\ Len(client[q].got) \in Nat
                /\ Len(client[q].got) <= Blocks
                /\ DOMAIN client[q].got = 1..Len(client[q].got)
                /\ \A i \in DOMAIN client[q].got : client[q].got[i] = i

\* It is so in every state.
LEMMA ClientFacts == ASSUME TftpInv, NEW q \in Peer PROVE Blockwise(q)
<1>1. client[q] \in [tid: Nat, got: Seq(Nat)]
  BY DEF TftpInv
<1>2. client[q].got \in Seq(Nat)
  BY <1>1
<1>3. Len(client[q].got) \in Nat /\ DOMAIN client[q].got = 1..Len(client[q].got)
  BY <1>2
<1>. QED BY <1>1, <1>3 DEF TftpInv, FilesArrive, Blockwise

\* Nothing of TFTP changes.
LEMMA TftpRests == ASSUME TftpInv, UNCHANGED tftpVars PROVE TftpInv'
<1>1. UNCHANGED <<serving, active, clients, worker, tids, net, client, served>>
  BY DEF tftpVars, tables
<1>2. TftpTables'
  BY <1>1 DEF TftpInv, TftpTables, SlotsMatchWorkers
<1>3. \A m \in net' : NetGood(m)'
  BY <1>1, Zenon DEF TftpInv, NetGood
<1>. QED BY <1>1, <1>2, <1>3, Zenon DEF TftpInv, FilesArrive, Sending

\* What is sent is in order.
LEMMA SentKeeps ==
    ASSUME TftpInv, UNCHANGED client, NEW m, m.peer \in Responds => NetGood(m), Sent(m)
    PROVE  \A n \in net' : NetGood(n)'
<1>1. \A n \in net' : NetGood(n)
  BY Zenon DEF TftpInv, Sent
<1>. QED BY <1>1, Zenon DEF NetGood

\* The packet of a block that is due.
LEMMA DataDue ==
    ASSUME TftpInv, NEW p \in Peer, NEW tid \in Nat, NEW i \in 0..Blocks,
           p \in Responds => i <= Len(client[p].got) + 1
    PROVE  DataPacket(p, tid, i).peer \in Responds => NetGood(DataPacket(p, tid, i))
<1>1. CASE i = 0
  BY <1>1, Zenon DEF DataPacket, OptionsPacket, Packet, NetGood
<1>2. CASE i # 0
  <2>1. i \in 1..Blocks
    BY <1>2, TftpAssumption
  <2>. QED BY <1>2, <2>1, Zenon DEF DataPacket, Packet, NetGood
<1>. QED BY <1>1, <1>2, Zenon

\* A worker goes on: the tables count it as before.
LEMMA WorkerKeeps ==
    ASSUME TftpInv, NEW p \in Peer, worker[p] # None, NEW w \in Transfer,
           worker' = [worker EXCEPT ![p] = w],
           UNCHANGED <<serving, active, clients, tids, client>>,
           p \in Responds /\ w.stage = "send" => w.block <= Len(client[p].got) + 1,
           \A m \in net' : NetGood(m)',
           served' \subseteq Responds, FilesArrive'
    PROVE  TftpInv'
<1>1. /\ worker \in [Peer -> Transfer \cup {None}] /\ w # None
      /\ worker' \in [Peer -> Transfer \cup {None}] /\ worker'[p] = w
      /\ \A q \in Peer \ {p} : worker'[q] = worker[q]
  BY TransferAssumption DEF TftpInv, TftpTables
<1>2. \A q \in Peer : worker'[q] # None <=> worker[q] # None
  BY <1>1
<1>3. SlotsMatchWorkers'
  BY <1>2, Zenon DEF TftpInv, TftpTables, SlotsMatchWorkers
<1>4. TftpTables'
  BY <1>1, <1>2, <1>3 DEF TftpInv, TftpTables
<1>5. \A q \in Responds : Sending(q)' => worker'[q].block <= Len(client'[q].got) + 1
  <2>1. ASSUME NEW q \in Responds, Sending(q)' PROVE worker'[q].block <= Len(client[q].got) + 1
    <3>1. q \in Peer
      BY TftpAssumption
    <3>2. CASE q = p
      BY <1>1, <2>1, <3>2 DEF Sending
    <3>3. CASE q # p
      BY <1>1, <2>1, <3>1, <3>3 DEF TftpInv, Sending
    <3>. QED BY <3>2, <3>3
  <2>. QED BY <2>1
<1>. QED BY <1>4, <1>5, Zenon DEF TftpInv

\* A worker's record.
LEMMA WorkerRecord ==
    ASSUME TftpInv, NEW p \in Peer, worker[p] # None PROVE worker[p] \in Transfer
BY DEF TftpInv, TftpTables

\* A worker begins the exchange for a block that is due.
LEMMA BeginKeeps ==
    ASSUME TftpInv, NEW p \in Peer, worker[p] # None, NEW i \in 0..Blocks, Begin(p, i),
           p \in Responds => i <= Len(client[p].got) + 1,
           UNCHANGED <<serving, active, clients, tids, client, served>>
    PROVE  TftpInv'
<1> DEFINE w == [worker[p] EXCEPT !.stage = "send", !.block = i, !.attempts = 1]
<1>1. worker[p] \in Transfer
  BY WorkerRecord
<1>2. w \in Transfer /\ w.block = i /\ worker[p].tid \in Nat
  BY <1>1, Zenon DEF Transfer, Stage
<1>3. worker' = [worker EXCEPT ![p] = w] /\ Sent(DataPacket(p, worker[p].tid, i))
  BY Zenon DEF Begin
<1>4. \A m \in net' : NetGood(m)'
  BY <1>2, <1>3, DataDue, SentKeeps
<1>5. served' \subseteq Responds /\ FilesArrive'
  BY Zenon DEF TftpInv, FilesArrive
<1> HIDE DEF w
<1>. QED BY <1>2, <1>3, <1>4, <1>5, WorkerKeeps, Zenon

\* A worker is over, without anything being sent.
LEMMA OverKeeps ==
    ASSUME TftpInv, NEW p \in Peer, worker[p] # None, Over(p),
           UNCHANGED <<serving, active, clients, tids, client, net>>,
           served' \subseteq Responds, FilesArrive'
    PROVE  TftpInv'
<1> DEFINE w == [worker[p] EXCEPT !.stage = "over"]
<1>1. w \in Transfer /\ w.stage = "over"
  BY WorkerRecord DEF Transfer, Stage
<1>2. worker' = [worker EXCEPT ![p] = w]
  BY DEF Over
<1>3. \A m \in net' : NetGood(m)'
  BY Zenon DEF TftpInv, NetGood
<1> HIDE DEF w
<1>. QED BY <1>1, <1>2, <1>3, WorkerKeeps, Zenon

\* transfer opens the file.
LEMMA OpenKeeps == ASSUME TftpInv, NEW p \in Peer, open(p) PROVE TftpInv'
<1> DEFINE i == IF p \in Options THEN 0 ELSE 1
<1>1. i \in 0..Blocks /\ i <= 1
  BY TftpAssumption
<1>2. i <= Len(client[p].got) + 1
  BY <1>1, ClientFacts DEF Blockwise
<1>. QED BY <1>1, <1>2, BeginKeeps, Zenon DEF open

\* A deadline of exchange: the block again, or the end.
LEMMA TimeoutKeeps == ASSUME TftpInv, NEW p \in Peer, exchangeTimeout(p) PROVE TftpInv'
<1>1. /\ worker[p] # None /\ worker[p].stage = "send"
      /\ UNCHANGED <<serving, active, clients, tids, client, served>>
  BY DEF exchangeTimeout, Sending
<1>2. worker[p] \in Transfer
  BY <1>1, WorkerRecord, Zenon
<1>3. served' \subseteq Responds /\ FilesArrive'
  BY <1>1, Zenon DEF TftpInv, FilesArrive
<1>4. CASE worker[p].attempts < maxAttempts
  <2> DEFINE w == [worker[p] EXCEPT !.attempts = @ + 1]
             i == worker[p].block
  <2>1. worker' = [worker EXCEPT ![p] = w] /\ Sent(DataPacket(p, worker[p].tid, i))
    BY <1>4 DEF exchangeTimeout
  <2>2. w \in Transfer /\ w.block = i /\ worker[p].tid \in Nat /\ i \in 0..Blocks
    BY <1>2 DEF Transfer
  <2>3. p \in Responds => i <= Len(client[p].got) + 1
    BY <1>1, Zenon DEF TftpInv, Sending
  <2> HIDE DEF w
  <2>4. \A m \in net' : NetGood(m)'
    BY <1>1, <2>1, <2>2, <2>3, DataDue, SentKeeps
  <2>. QED BY <1>1, <1>3, <2>1, <2>2, <2>3, <2>4, WorkerKeeps, Zenon
<1>5. CASE ~(worker[p].attempts < maxAttempts)
  BY <1>1, <1>3, <1>5, OverKeeps DEF exchangeTimeout
<1>. QED BY <1>4, <1>5

\* An acknowledgement that counts is of a block that the client has.
LEMMA AckKeeps == ASSUME TftpInv, NEW p \in Peer, exchangeAck(p) PROVE TftpInv'
<1>1. PICK m \in net : Acknowledges(m, p)
  BY Zenon DEF exchangeAck
<1>2. /\ worker[p] # None /\ UNCHANGED <<serving, active, clients, tids, client>>
  BY Zenon DEF exchangeAck, Sending
<1>3. /\ worker[p].block \in 0..Blocks /\ worker[p].block \in Nat /\ Blocks \in Nat
  BY <1>2, WorkerRecord, TftpAssumption DEF Transfer
<1>4. /\ p \in Responds /\ m.index \in Nat /\ m.index <= Len(client[p].got)
      /\ Number(m.index) = Number(worker[p].block) /\ Recent(m.index, worker[p].block)
  BY <1>1, Zenon DEF TftpInv, NetGood, Acknowledges
<1>5. worker[p].block <= m.index
  BY <1>3, <1>4, NumberTells, Zenon
<1>6. Len(client[p].got) \in Nat /\ Len(client[p].got) <= Blocks /\ worker[p].block <= Len(client[p].got)
  <2>1. Len(client[p].got) \in Nat /\ Len(client[p].got) <= Blocks
    BY ClientFacts, Zenon DEF Blockwise
  <2>. QED BY <1>3, <1>4, <1>5, <2>1
<1>7. CASE worker[p].block = Blocks
  <2>1. Over(p) /\ served' = served \cup {p} /\ UNCHANGED net
    BY <1>7, Zenon DEF exchangeAck
  <2>2. Len(client[p].got) = Blocks
    BY <1>3, <1>6, <1>7
  <2>3. served' \subseteq Responds /\ FilesArrive'
    BY <1>2, <1>4, <2>1, <2>2, Zenon DEF TftpInv, FilesArrive
  <2>. QED BY <1>2, <2>1, <2>3, OverKeeps
<1>8. CASE worker[p].block # Blocks
  <2> DEFINE i == worker[p].block + 1
  <2>1. Begin(p, i) /\ UNCHANGED served
    BY <1>8, Zenon DEF exchangeAck
  <2>2. i \in 0..Blocks /\ i <= Len(client[p].got) + 1
    BY <1>3, <1>6, <1>8
  <2> HIDE DEF i
  <2>. QED BY <1>2, <2>1, <2>2, BeginKeeps
<1>. QED BY <1>7, <1>8

\* A request is admitted: one more worker, in all and for its client.
LEMMA ServeTftpKeeps == ASSUME TftpInv, NEW p \in Peer, Serve(p) PROVE TftpInv'
<1> DEFINE w == [tid |-> IF p \in Responds THEN tids' ELSE 0, stage |-> "open", block |-> 0,
                 attempts |-> 0]
           a == ClientOf[p]
           Of(b) == {q \in active : ClientOf[q] = b}
<1>1. /\ serving = "reading" /\ p \notin active /\ Cardinality(active) < maxTransfers
      /\ clients[a] < maxClientTransfers
      /\ tids' = IF p \in Responds THEN tids + 1 ELSE tids
      /\ active' = active \cup {p} /\ clients' = [clients EXCEPT ![a] = @ + 1]
      /\ worker' = [worker EXCEPT ![p] = w]
      /\ UNCHANGED <<serving, net, client, served>>
  BY Zenon DEF Serve, Admits
<1>2. /\ clients \in [Address -> Nat] /\ worker \in [Peer -> Transfer \cup {None}] /\ tids \in Nat
      /\ IsFiniteSet(active) /\ a \in Address /\ Cardinality(active) \in Nat
      /\ maxTransfers \in Nat /\ maxClientTransfers \in Nat /\ Blocks \in Nat
  BY FS_CardinalityType, TftpAssumption, Zenon DEF TftpInv, TftpTables, Address
<1>3. w \in Transfer /\ w # None /\ w.stage = "open" /\ tids' \in Nat
  BY <1>1, <1>2, TransferAssumption DEF Transfer, Stage
<1> HIDE DEF w
<1>4. /\ worker' \in [Peer -> Transfer \cup {None}] /\ worker'[p] = w
      /\ \A q \in Peer \ {p} : worker'[q] = worker[q]
  BY <1>1, <1>2, <1>3
<1>5. IsFiniteSet(active') /\ Cardinality(active') = Cardinality(active) + 1
  BY <1>1, <1>2, FS_AddElement, Zenon
<1>6. Cardinality(active') <= maxTransfers
  BY <1>1, <1>2, <1>5
<1>7. active' = {q \in Peer : worker'[q] # None}
  BY <1>1, <1>3, <1>4, Zenon DEF TftpInv, TftpTables, SlotsMatchWorkers
<1>8. ASSUME NEW b \in Address
      PROVE  /\ clients'[b] <= maxClientTransfers
             /\ clients'[b] = Cardinality({q \in active' : ClientOf[q] = b})
  <2>1. clients[b] = Cardinality(Of(b)) /\ clients[b] <= maxClientTransfers /\ clients[b] \in Nat
    BY <1>2, Zenon DEF TftpInv, TftpTables, SlotsMatchWorkers
  <2>2. CASE b # a
    <3>1. {q \in active' : ClientOf[q] = b} = Of(b) /\ clients'[b] = clients[b]
      BY <1>1, <1>2, <2>2
    <3>. QED BY <2>1, <3>1, Zenon
  <2>3. CASE b = a
    <3>1. /\ {q \in active' : ClientOf[q] = b} = Of(b) \cup {p} /\ p \notin Of(b)
          /\ clients'[b] = clients[b] + 1
      BY <1>1, <1>2, <2>3
    <3>2. IsFiniteSet(Of(b))
      BY <1>2, FS_Subset
    <3>3. Cardinality(Of(b) \cup {p}) = Cardinality(Of(b)) + 1
      BY <3>1, <3>2, FS_AddElement, Zenon
    <3> HIDE DEF Of
    <3>4. clients'[b] = Cardinality({q \in active' : ClientOf[q] = b})
      BY <2>1, <3>1, <3>3, Zenon
    <3>5. clients'[b] <= maxClientTransfers
      BY <1>1, <1>2, <2>1, <2>3, <3>1
    <3>. QED BY <3>4, <3>5, Zenon
  <2>. QED BY <2>2, <2>3, Zenon
<1>9. SlotsMatchWorkers'
  BY <1>6, <1>7, <1>8, Zenon DEF SlotsMatchWorkers
<1>10. clients' \in [Address -> Nat]
  BY <1>1, <1>2
<1>11. TftpTables'
  BY <1>1, <1>3, <1>4, <1>5, <1>9, <1>10, Zenon DEF TftpTables
<1>12. \A q \in Responds : Sending(q)' => worker'[q].block <= Len(client'[q].got) + 1
  <2>1. ASSUME NEW q \in Responds, Sending(q)' PROVE worker'[q].block <= Len(client[q].got) + 1
    <3>1. q \in Peer /\ q # p
      BY <1>3, <1>4, <2>1, TftpAssumption, Zenon DEF Sending
    <3>. QED BY <1>4, <2>1, <3>1, Zenon DEF TftpInv, Sending
  <2>. QED BY <1>1, <2>1
<1>13. \A m \in net' : NetGood(m)'
  BY <1>1, Zenon DEF TftpInv, NetGood
<1>. QED BY <1>1, <1>11, <1>12, <1>13, Zenon DEF TftpInv, FilesArrive

\* A worker is forgotten: one less, in all and for its client.
LEMMA ForgetKeeps == ASSUME TftpInv, NEW p \in Peer, forget(p) PROVE TftpInv'
<1> DEFINE a == ClientOf[p]
           Of(b) == {q \in active : ClientOf[q] = b}
<1>1. /\ worker[p] # None /\ worker' = [worker EXCEPT ![p] = None]
      /\ active' = active \ {p} /\ clients' = [clients EXCEPT ![a] = @ - 1]
      /\ UNCHANGED <<serving, tids, net, client, served>>
  BY Zenon DEF forget
<1>2. /\ clients \in [Address -> Nat] /\ worker \in [Peer -> Transfer \cup {None}] /\ tids \in Nat
      /\ IsFiniteSet(active) /\ a \in Address /\ Cardinality(active) \in Nat
      /\ Cardinality(active) <= maxTransfers
      /\ maxTransfers \in Nat /\ maxClientTransfers \in Nat
  BY FS_CardinalityType, TftpAssumption, Zenon DEF TftpInv, TftpTables, SlotsMatchWorkers, Address
<1>3. p \in active /\ p \in Of(a)
  BY <1>1 DEF TftpInv, TftpTables, SlotsMatchWorkers
<1>4. /\ worker' \in [Peer -> Transfer \cup {None}] /\ worker'[p] = None
      /\ \A q \in Peer \ {p} : worker'[q] = worker[q]
  BY <1>1, <1>2
<1>5. IsFiniteSet(active') /\ Cardinality(active') = Cardinality(active) - 1
  BY <1>1, <1>2, <1>3, FS_RemoveElement, Zenon
<1>6. Cardinality(active') <= maxTransfers
  BY <1>2, <1>5
<1>7. active' = {q \in Peer : worker'[q] # None}
  BY <1>1, <1>4 DEF TftpInv, TftpTables, SlotsMatchWorkers
<1>8. ASSUME NEW b \in Address
      PROVE  /\ clients'[b] \in Nat /\ clients'[b] <= maxClientTransfers
             /\ clients'[b] = Cardinality({q \in active' : ClientOf[q] = b})
  <2>1. clients[b] = Cardinality(Of(b)) /\ clients[b] <= maxClientTransfers /\ clients[b] \in Nat
    BY <1>2 DEF TftpInv, TftpTables, SlotsMatchWorkers
  <2>2. CASE b # a
    <3>1. {q \in active' : ClientOf[q] = b} = Of(b) /\ clients'[b] = clients[b]
      BY <1>1, <1>2, <2>2
    <3>. QED BY <2>1, <3>1, Zenon
  <2>3. CASE b = a
    <3>1. /\ {q \in active' : ClientOf[q] = b} = Of(b) \ {p} /\ p \in Of(b)
          /\ clients'[b] = clients[b] - 1
      BY <1>1, <1>2, <1>3, <2>3
    <3>2. IsFiniteSet(Of(b))
      BY <1>2, FS_Subset
    <3>3. IsFiniteSet(Of(b) \ {p}) /\ Cardinality(Of(b) \ {p}) = Cardinality(Of(b)) - 1
      BY <3>1, <3>2, FS_RemoveElement, Zenon
    <3>4. Cardinality(Of(b) \ {p}) \in Nat
      BY <3>3, FS_CardinalityType
    <3> HIDE DEF Of
    <3>5. clients'[b] = Cardinality({q \in active' : ClientOf[q] = b}) /\ clients'[b] \in Nat
      BY <2>1, <3>1, <3>3, <3>4, Zenon
    <3>6. clients'[b] <= maxClientTransfers
      BY <1>2, <2>1, <3>1
    <3>. QED BY <3>5, <3>6, Zenon
  <2>. QED BY <2>2, <2>3, Zenon
<1>9. SlotsMatchWorkers'
  BY <1>6, <1>7, <1>8, Zenon DEF SlotsMatchWorkers
<1>10. clients' \in [Address -> Nat]
  BY <1>1, <1>2, <1>8, Zenon
<1>11. TftpTables'
  BY <1>1, <1>2, <1>4, <1>5, <1>9, <1>10, Zenon DEF TftpInv, TftpTables
<1>12. \A q \in Responds : Sending(q)' => worker'[q].block <= Len(client'[q].got) + 1
  <2>1. ASSUME NEW q \in Responds, Sending(q)' PROVE worker'[q].block <= Len(client[q].got) + 1
    <3>1. q \in Peer /\ q # p
      BY <1>4, <2>1, TftpAssumption, Zenon DEF Sending
    <3>2. worker'[q] = worker[q] /\ Sending(q)
      BY <1>4, <2>1, <3>1 DEF Sending
    <3>. QED BY <3>2, Zenon DEF TftpInv
  <2>. QED BY <1>1, <2>1, Zenon
<1>13. \A m \in net' : NetGood(m)'
  BY <1>1, Zenon DEF TftpInv, NetGood
<1>. QED BY <1>1, <1>11, <1>12, <1>13, Zenon DEF TftpInv, FilesArrive

\* A client moves on; the tables of the server are left alone.
LEMMA ClientKeeps ==
    ASSUME TftpInv, NEW p \in Responds, NEW c \in [tid: Nat, got: Seq(Nat)],
           client' = [client EXCEPT ![p] = c], NEW m, Sent(m), m.peer \in Responds => NetGood(m)',
           UNCHANGED <<tables, served>>,
           Len(c.got) >= Len(client[p].got), Len(c.got) <= Blocks,
           \A i \in DOMAIN c.got : c.got[i] = i,
           p \in served => Len(c.got) = Blocks
    PROVE  TftpInv'
<1>1. /\ p \in Peer /\ client' \in [Peer -> [tid: Nat, got: Seq(Nat)]] /\ client'[p] = c
      /\ \A q \in Peer \ {p} : client'[q] = client[q]
      /\ UNCHANGED <<serving, active, clients, worker, tids, served>>
  BY TftpAssumption, Zenon DEF TftpInv, tables
<1>2. \A q \in Peer : /\ Len(client[q].got) \in Nat /\ Len(client'[q].got) \in Nat
                      /\ Len(client[q].got) <= Len(client'[q].got)
  <2>1. c.got \in Seq(Nat)
    BY Zenon
  <2>2. Len(c.got) \in Nat
    BY <2>1
  <2>. QED BY <1>1, <2>2, ClientFacts DEF Blockwise
<1>3. TftpTables'
  BY <1>1, Zenon DEF TftpInv, TftpTables, SlotsMatchWorkers
<1>4. ASSUME NEW n \in net PROVE NetGood(n)'
  <2>1. NetGood(n) /\ n.peer \in Peer
    BY TftpAssumption, Zenon DEF TftpInv, NetGood
  <2>2. /\ Len(client[n.peer].got) \in Nat /\ Len(client'[n.peer].got) \in Nat
        /\ Len(client[n.peer].got) <= Len(client'[n.peer].got)
    BY <1>2, <2>1, Zenon
  <2>3. n.kind = "data" => n.index \in 1..Blocks /\ n.index <= Len(client'[n.peer].got) + 1
    BY <2>1, <2>2, TftpAssumption DEF NetGood
  <2>4. n.kind = "ack" => n.index \in Nat /\ n.index <= Len(client'[n.peer].got)
    BY <2>1, <2>2 DEF NetGood
  <2>. QED BY <2>1, <2>3, <2>4, Zenon DEF NetGood
<1>5. \A n \in net' : NetGood(n)'
  BY <1>4, Zenon DEF Sent
<1>6. \A q \in Responds : Sending(q)' => worker'[q].block <= Len(client'[q].got) + 1
  <2>1. ASSUME NEW q \in Responds, Sending(q) PROVE worker[q].block <= Len(client'[q].got) + 1
    <3>1. q \in Peer /\ worker[q].block <= Len(client[q].got) + 1
      BY <2>1, TftpAssumption, Zenon DEF TftpInv
    <3>2. worker[q].block \in Nat
      BY <2>1, <3>1, WorkerRecord, TftpAssumption DEF Sending, Transfer
    <3>. QED BY <1>2, <3>1, <3>2
  <2>. QED BY <1>1, <2>1, Zenon DEF Sending
<1>7. \A q \in Peer : Len(client'[q].got) <= Blocks
  BY <1>1, Zenon DEF TftpInv
<1>8. FilesArrive' /\ served' \subseteq Responds
  <2>1. served \subseteq Responds /\ \A q \in served : q \in Peer
    BY TftpAssumption, Zenon DEF TftpInv
  <2>. QED BY <1>1, <2>1, Zenon DEF TftpInv, FilesArrive
<1>. QED BY <1>1, <1>3, <1>5, <1>6, <1>7, <1>8, Zenon DEF TftpInv

\* The block that is accepted is the one the client waits for.
LEMMA AcceptDataKeeps ==
    ASSUME TftpInv, NEW p \in Responds, NEW m \in net, AcceptData(p, m) PROVE TftpInv'
<1> DEFINE g == client[p].got
           c == [client[p] EXCEPT !.tid = m.tid, !.got = Append(@, m.index)]
<1>1. /\ m.peer = p /\ m.kind = "data"
      /\ Number(m.index) = Number(Len(g) + 1) /\ Recent(m.index, Len(g) + 1)
      /\ client' = [client EXCEPT ![p] = c] /\ UNCHANGED <<tables, served>>
  BY Zenon DEF AcceptData, Mine, Expected
<1>0. PICK k : k = Packet("ack", p, m.tid, Len(g) + 1) /\ Sent(k)
  BY DEF AcceptData, Expected
<1>2. /\ p \in Peer /\ client \in [Peer -> [tid: Nat, got: Seq(Nat)]] /\ g \in Seq(Nat) /\ Len(g) \in Nat
      /\ Len(g) <= Blocks /\ DOMAIN g = 1..Len(g) /\ \A i \in DOMAIN g : g[i] = i
  <2>1. p \in Peer
    BY TftpAssumption
  <2>2. Blockwise(p)
    BY <2>1, ClientFacts
  <2>. QED BY <2>1, <2>2, Zenon DEF TftpInv, Blockwise
<1>3. m.tid \in Nat /\ m.index \in 1..Blocks /\ m.index <= Len(g) + 1
  BY <1>1 DEF TftpInv, NetGood
<1>4. m.index \in Nat /\ m.index = Len(g) + 1 /\ Len(g) + 1 <= Blocks
  <2>1. m.index \in Nat /\ Blocks \in Nat /\ m.index <= Blocks
    BY <1>3, TftpAssumption
  <2>2. m.index >= Len(g) + 1
    BY <1>1, <1>2, <2>1, NumberTells
  <2>. QED BY <1>2, <1>3, <2>1, <2>2
<1>5. c \in [tid: Nat, got: Seq(Nat)] /\ c.got = Append(g, m.index)
  <2>1. Append(g, m.index) \in Seq(Nat) /\ client[p] \in [tid: Nat, got: Seq(Nat)]
    BY <1>2, <1>4
  <2> DEFINE h == Append(g, m.index)
  <2>2. c = [client[p] EXCEPT !.tid = m.tid, !.got = h]
    OBVIOUS
  <2> HIDE DEF h, c
  <2>3. h \in Seq(Nat)
    BY <2>1 DEF h
  <2>4. c \in [tid: Nat, got: Seq(Nat)] /\ c.got = h
    BY <1>3, <2>1, <2>2, <2>3, Zenon
  <2>. QED BY <2>4 DEF h
<1>6. /\ Len(c.got) = Len(g) + 1 /\ \A i \in DOMAIN c.got : c.got[i] = i
  BY <1>2, <1>4, <1>5
<1>7. p \notin served
  BY <1>2, <1>4, TftpAssumption DEF TftpInv, FilesArrive
<1>8. NetGood(k)'
  <2>1. client'[p].got = c.got
    BY <1>1, <1>2
  <2>. QED BY <1>2, <1>3, <1>6, <1>0, <2>1 DEF NetGood, Packet
<1> HIDE DEF c
<1>9. Len(c.got) >= Len(client[p].got) /\ Len(c.got) <= Blocks
  BY <1>2, <1>4, <1>6
<1>. QED BY <1>1, <1>5, <1>6, <1>7, <1>8, <1>9, <1>0, ClientKeeps, Zenon

\* What is acknowledged once more is there.
LEMMA RepeatDataKeeps ==
    ASSUME TftpInv, NEW p \in Responds, NEW m \in net, RepeatData(p, m) PROVE TftpInv'
<1> DEFINE g == client[p].got
           c == [client[p] EXCEPT !.tid = m.tid]
<1>1. client' = [client EXCEPT ![p] = c] /\ UNCHANGED <<tables, served>>
  BY DEF RepeatData
<1>0. PICK k : k = Packet("ack", p, m.tid, Expected(p) - 1) /\ Sent(k)
  BY DEF RepeatData
<1>2. /\ p \in Peer /\ client \in [Peer -> [tid: Nat, got: Seq(Nat)]] /\ g \in Seq(Nat) /\ Len(g) \in Nat
      /\ Len(g) <= Blocks /\ \A i \in DOMAIN g : g[i] = i
  <2>1. p \in Peer
    BY TftpAssumption
  <2>2. Blockwise(p)
    BY <2>1, ClientFacts
  <2>. QED BY <2>1, <2>2, Zenon DEF TftpInv, Blockwise
<1>3. m.tid \in Nat
  BY Zenon DEF TftpInv, NetGood
<1>4. c \in [tid: Nat, got: Seq(Nat)] /\ c.got = g
  BY <1>2, <1>3
<1>5. NetGood(k)'
  <2>1. client'[p].got = g /\ Expected(p) - 1 = Len(g)
    BY <1>1, <1>2, <1>4 DEF Expected
  <2>2. k = Packet("ack", p, m.tid, Len(g))
    BY <1>0, <2>1, Zenon
  <2>. QED BY <1>2, <1>3, <2>1, <2>2 DEF NetGood, Packet
<1>6. p \in served => Len(g) = Blocks
  BY Zenon DEF TftpInv, FilesArrive
<1> HIDE DEF c
<1>7. /\ Len(c.got) <= Blocks /\ (p \in served => Len(c.got) = Blocks)
      /\ \A i \in DOMAIN c.got : c.got[i] = i
  BY <1>2, <1>4, <1>6, Zenon
<1>8. Len(c.got) >= Len(client[p].got)
  BY <1>2, <1>4
<1>. QED BY <1>1, <1>4, <1>5, <1>7, <1>8, <1>0, ClientKeeps, Zenon

\* A step of TFTP; when Serve has returned it stays so.
LEMMA TftpKeeps ==
    ASSUME TftpInv, cancelled \subseteq Context, TftpNext
    PROVE  TftpInv' /\ Grows /\ (serving = "returned" => serving' = "returned")
<1>1. CASE leave
  <2>1. Grows
    BY <1>1, ContextNames, CancelGrows DEF leave
  <2>2. /\ serving' = "waiting" /\ serving = "reading"
        /\ UNCHANGED <<active, clients, worker, tids, net, client, served>>
    BY <1>1 DEF leave
  <2>3. TftpTables'
    BY <2>2, Zenon DEF TftpInv, TftpTables, SlotsMatchWorkers
  <2>4. \A m \in net' : NetGood(m)'
    BY <2>2, Zenon DEF TftpInv, NetGood
  <2>. QED BY <2>1, <2>2, <2>3, <2>4, Zenon DEF TftpInv, FilesArrive, Sending
<1>2. CASE return
  <2>1. /\ serving' = "returned" /\ \A p \in Peer : worker[p] = None
        /\ UNCHANGED <<cancelled, active, clients, worker, tids, net, client, served>>
    BY <1>2 DEF return
  <2>2. TftpTables'
    BY <2>1, Zenon DEF TftpInv, TftpTables, SlotsMatchWorkers
  <2>3. \A m \in net' : NetGood(m)'
    BY <2>1, Zenon DEF TftpInv, NetGood
  <2>. QED BY <2>1, <2>2, <2>3, UnchangedGrows, Zenon DEF TftpInv, FilesArrive, Sending
<1>3. ASSUME NEW p \in Peer, Serve(p) \/ work(p) \/ transferFails(p)
      PROVE  TftpInv' /\ UNCHANGED <<cancelled, serving>>
  <2>1. ASSUME transferFails(p) PROVE TftpInv'
    <3>1. worker[p] # None /\ Over(p) /\ UNCHANGED <<serving, active, clients, tids, client, net, served>>
      BY <2>1, Zenon DEF transferFails
    <3>2. served' \subseteq Responds /\ FilesArrive'
      BY <3>1, Zenon DEF TftpInv, FilesArrive
    <3>. QED BY <3>1, <3>2, OverKeeps
  <2>2. TftpInv'
    BY <1>3, <2>1, ServeTftpKeeps, OpenKeeps, TimeoutKeeps, AckKeeps, ForgetKeeps DEF work
  <2>3. UNCHANGED <<cancelled, serving>>
    BY <1>3 DEF Serve, work, open, exchangeTimeout, exchangeAck, forget, transferFails
  <2>. QED BY <2>2, <2>3
<1>4. ASSUME NEW p \in Responds, NEW m \in net, AcceptData(p, m) \/ RepeatData(p, m)
      PROVE  TftpInv' /\ UNCHANGED <<cancelled, serving>>
  <2>1. TftpInv'
    BY <1>4, AcceptDataKeeps, RepeatDataKeeps
  <2>2. UNCHANGED <<cancelled, serving>>
    BY <1>4 DEF AcceptData, RepeatData, tables
  <2>. QED BY <2>1, <2>2
<1>. QED BY <1>1, <1>2, <1>3, <1>4, UnchangedGrows DEF TftpNext, TftpProgress

=============================================================================
