-------------------------- MODULE BeaconNetProofs --------------------------
(* Proofs about BeaconNet, for every mesh, clock bound and number of        *)
(* messages.                                                                *)
EXTENDS BeaconNet, WellFoundedInduction, TLAPS

----------------------------------------------------------------------------
(* Types.                                                                   *)

\* What broadcast sends are beacon messages.
LEMMA broadcastType ==
  ASSUME TypeOK, NEW n \in Node, NEW x \in Node, NEW o \in Node,
         NEW c \in Nat, NEW h \in Nat
  PROVE  broadcast(n, x, o, c, h) \subseteq BeaconMsg
<1>1. peers[n] \subseteq Node
  BY Zenon DEF TypeOK
<1> QED
  BY <1>1 DEF broadcast, BeaconMsg

\* What send sends is a beacon message.
LEMMA sendBeaconType ==
  ASSUME TypeOK, NEW n \in Node, NEW next \in Node, NEW dst \in Node,
         NEW o \in Node, NEW c \in Nat, NEW h \in Nat
  PROVE  sendBeacon(n, next, dst, o, c, h) \subseteq BeaconMsg
<1>1. peers[n] \subseteq Node
  BY Zenon DEF TypeOK
<1> QED
  BY <1>1 DEF sendBeacon, BeaconMsg

\* What ctx.Send sends for HandleAbove and handleData is a data message.
LEMMA sendDataType ==
  ASSUME TypeOK, NEW n \in Node, NEW next \in Node, NEW src \in Node,
         NEW dst \in Node, NEW i \in DataId
  PROVE  sendData(n, next, src, dst, i) \subseteq DataMsg
<1>1. peers[n] \subseteq Node
  BY Zenon DEF TypeOK
<1> QED
  BY <1>1 DEF sendData, DataMsg

\* cleanupOnce leaves a table of peer states.
LEMMA cleanupOnceType ==
  ASSUME TypeOK, NEW n \in Node, NEW now \in Nat
  PROVE  cleanupOnce(n, now) \in [Node -> PeerState \cup {NoState}]
BY DEF cleanupOnce, TypeOK

\* The state that Reset makes is well typed.
LEMMA InitType == Init => TypeOK
BY BeaconNetAssumption DEF Init, TypeOK

\* Heartbeat preserves the types.
LEMMA HeartbeatType ==
  ASSUME TypeOK, NEW n \in Node, Heartbeat(n)
  PROVE  TypeOK'
<1> DEFINE now == clock[n] + 1
<1>1. now \in Nat /\ now <= MaxCounter[n]
  <2>1. clock[n] \in Nat /\ MaxCounter[n] \in Nat
    BY BeaconNetAssumption, Zenon DEF TypeOK
  <2>2. clock[n] < MaxCounter[n]
    BY Zenon DEF Heartbeat
  <2> QED
    BY <2>1, <2>2
<1>2. broadcast(n, n, n, now, 0) \subseteq BeaconMsg
  BY <1>1, broadcastType, Zenon
<1>3. cleanupOnce(n, now) \in [Node -> PeerState \cup {NoState}]
  BY <1>1, cleanupOnceType, Zenon
<1>4. peerStates' \in [Node -> [Node -> PeerState \cup {NoState}]]
  BY <1>3, Zenon DEF Heartbeat, TypeOK
<1>5. lastCleanup' \in [Node -> Nat]
  BY <1>1, Zenon DEF Heartbeat, TypeOK
<1> QED
  BY <1>1, <1>2, <1>4, <1>5, Zenon DEF Heartbeat, TypeOK, appVars

\* handleBeacon preserves the types.
LEMMA HandleBeaconType ==
  ASSUME TypeOK, NEW n \in Node, NEW m \in beacons, HandleBeacon(n, m)
  PROVE  TypeOK'
<1> DEFINE o       == m.origin
           created == ~Exists(n, o)
           updated == Updated(n, o, m.counter)
           known   == IF updated
                      THEN [peerStates[n] EXCEPT ![o] =
                              [next |-> m.from, counter |-> m.counter]]
                      ELSE peerStates[n]
           h       == IF updated THEN m.hops + 1 ELSE hops[n][o]
<1>1. /\ m \in BeaconMsg /\ m.from \in Node /\ m.src \in Node /\ o \in Node
      /\ m.counter \in Nat /\ m.hops \in Nat /\ m.dst \in Node \cup {broadcastAddr}
  BY Zenon DEF TypeOK, BeaconMsg
<1>2. known \in [Node -> PeerState \cup {NoState}]
  BY <1>1, Zenon DEF TypeOK, PeerState
<1>3. h \in Nat
  <2>1. hops[n][o] \in Nat
    BY <1>1, Zenon DEF TypeOK
  <2> QED
    BY <1>1, <2>1
<1>4. broadcast(n, m.from, o, m.counter, h) \subseteq BeaconMsg
  BY <1>1, <1>3, broadcastType, Zenon
<1>5. m.dst # broadcastAddr /\ known[m.dst] # NoState =>
        sendBeacon(n, known[m.dst].next, m.dst, o, m.counter, h) \subseteq BeaconMsg
  <2> HAVE m.dst # broadcastAddr /\ known[m.dst] # NoState
  <2>1. m.dst \in Node /\ known[m.dst].next \in Node
    BY <1>1, <1>2, Zenon DEF PeerState
  <2> HIDE DEF known, h
  <2> QED
    BY <1>1, <1>3, <2>1, sendBeaconType, Zenon
<1>6. peerStates' = [peerStates EXCEPT ![n] = known]
  BY Zenon DEF HandleBeacon
<1>7. hops' = [hops EXCEPT ![n][o] = h]
  BY Zenon DEF HandleBeacon
<1>8. beacons' \subseteq BeaconMsg
  <2>1. beacons' = beacons \cup
           (IF m.dst = broadcastAddr
            THEN IF updated THEN broadcast(n, m.from, o, m.counter, h) ELSE {}
            ELSE IF known[m.dst] # NoState
                 THEN sendBeacon(n, known[m.dst].next, m.dst, o, m.counter, h)
                 ELSE {})
    BY Zenon DEF HandleBeacon
  <2> HIDE DEF known, h, updated
  <2> QED
    BY <2>1, <1>4, <1>5, Zenon DEF TypeOK
<1>9. work' \in [Node -> SUBSET Handling]
  <2>1. [prev |-> m.from, src |-> m.src, origin |-> o] \in Handling
    BY <1>1, Zenon DEF Handling
  <2>2. work' = [work EXCEPT ![n] = @ \cup
                   IF created THEN {[prev |-> m.from, src |-> m.src, origin |-> o]} ELSE {}]
    BY Zenon DEF HandleBeacon
  <2>3. work \in [Node -> SUBSET Handling]
    BY Zenon DEF TypeOK
  <2> QED
    BY <2>1, <2>2, <2>3, Zenon
<1> HIDE DEF known, h
<1>10. /\ peerStates' \in [Node -> [Node -> PeerState \cup {NoState}]]
       /\ hops' \in [Node -> [Node -> Nat]]
  BY <1>1, <1>2, <1>3, <1>6, <1>7, Zenon DEF TypeOK
<1> QED
  BY <1>8, <1>9, <1>10, Zenon DEF HandleBeacon, TypeOK, appVars

\* The answer of handleBeacon to a first beacon preserves the types.
LEMMA RespondBeaconType ==
  ASSUME TypeOK, NEW n \in Node, NEW t \in work[n], RespondBeacon(n, t)
  PROVE  TypeOK'
<1>1. t.prev \in Node /\ t.src \in Node
  <2>1. work[n] \subseteq Handling
    BY Zenon DEF TypeOK
  <2> QED
    BY <2>1, Zenon DEF Handling
<1>2. sendBeacon(n, t.prev, t.src, n, ourBeacon[n], 0) \subseteq BeaconMsg
  BY <1>1, sendBeaconType, Zenon DEF TypeOK
<1> QED
  BY <1>2, Zenon DEF RespondBeacon, TypeOK, appVars

\* HandleAbove preserves the types.
LEMMA TellType ==
  ASSUME TypeOK, NEW n \in Node, NEW dst \in Node, NEW i \in DataId,
         Tell(n, dst, i)
  PROVE  TypeOK'
<1> DEFINE next == IF dst \in peers[n] THEN dst ELSE peerStates[n][dst].next
<1>1. next \in Node
  BY DEF Tell, TypeOK, Exists, PeerState
<1>2. datagrams' = datagrams \cup sendData(n, next, n, dst, i)
  BY Zenon DEF Tell
<1> HIDE DEF next
<1>3. sendData(n, next, n, dst, i) \subseteq DataMsg
  BY <1>1, sendDataType, Zenon
<1> QED
  BY <1>2, <1>3, Zenon DEF Tell, TypeOK, routerVars

\* handleData preserves the types.
LEMMA HandleDataType ==
  ASSUME TypeOK, NEW n \in Node, NEW m \in datagrams, HandleData(n, m)
  PROVE  TypeOK'
<1>1. m.src \in Node /\ m.dst \in Node /\ m.id \in DataId
  BY Zenon DEF TypeOK, DataMsg
<1>2. datagrams' \subseteq DataMsg /\ delivered' \in [DataId -> Seq([at : Node, src : Node])]
  <2>1. CASE DeliverLocal(n, m)
    <3>1. Append(delivered[m.id], [at |-> n, src |-> m.src]) \in Seq([at : Node, src : Node])
      <4>1. delivered[m.id] \in Seq([at : Node, src : Node])
        BY <1>1, Zenon DEF TypeOK
      <4>2. [at |-> n, src |-> m.src] \in [at : Node, src : Node]
        BY <1>1, Zenon
      <4> QED
        BY <4>1, <4>2
    <3> QED
      BY <2>1, <3>1, <1>1, Zenon DEF DeliverLocal, TypeOK
  <2>2. CASE ForwardNeighbor(n, m)
    BY <2>2, <1>1, sendDataType, Zenon DEF ForwardNeighbor, TypeOK
  <2>3. CASE Forward(n, m)
    <3>1. Exists(n, m.dst) => peerStates[n][m.dst].next \in Node
      BY <1>1 DEF TypeOK, Exists, PeerState
    <3>2. Exists(n, m.dst) =>
            sendData(n, peerStates[n][m.dst].next, m.src, m.dst, m.id) \subseteq DataMsg
      BY <3>1, <1>1, sendDataType, Zenon
    <3> QED
      BY <2>3, <3>2, Zenon DEF Forward, TypeOK
  <2> QED
    BY <2>1, <2>2, <2>3, Zenon DEF HandleData
<1> QED
  BY <1>2, Zenon DEF HandleData, TypeOK, routerVars

\* Changes of the peer sets and restarts preserve the types.
LEMMA EnvironmentType ==
  ASSUME TypeOK, NEW n \in Node, NEW p \in Node,
         AddPeer(n, p) \/ RemovePeer(n, p) \/ Restart(n)
  PROVE  TypeOK'
<1>1. CASE AddPeer(n, p) \/ RemovePeer(n, p)
  <2>1. changed < MaxPeerChange /\ changed' = changed + 1
    BY <1>1, Zenon DEF AddPeer, RemovePeer
  <2>2. changed \in 0..MaxPeerChange
    BY Zenon DEF TypeOK
  <2>3. changed' \in 0..MaxPeerChange
    BY <2>1, <2>2, BeaconNetAssumption
  <2>4. peers' \in [Node -> SUBSET Node]
    <3>1. peers \in [Node -> SUBSET Node]
      BY Zenon DEF TypeOK
    <3>2. \/ peers' = [peers EXCEPT ![n] = @ \cup {p}]
          \/ peers' = [peers EXCEPT ![n] = @ \ {p}]
      BY <1>1, Zenon DEF AddPeer, RemovePeer
    <3> QED
      BY <3>1, <3>2
  <2> QED
    BY <1>1, <2>3, <2>4, Zenon DEF AddPeer, RemovePeer, TypeOK, appVars
<1>2. CASE Restart(n)
  <2>1. clock[n] \in Nat /\ MaxCounter[n] \in Nat
    BY BeaconNetAssumption, Zenon DEF TypeOK
  <2>2. clock[n] < MaxCounter[n]
    BY <1>2, Zenon DEF Restart
  <2>3. clock[n] + 1 \in Nat /\ clock[n] + 1 <= MaxCounter[n]
    BY <2>1, <2>2
  <2>4. /\ clock' \in [Node -> Nat]
        /\ \A k \in Node : clock'[k] <= MaxCounter[k]
    BY <1>2, <2>3, Zenon DEF Restart, TypeOK
  <2>5. /\ peerStates' \in [Node -> [Node -> PeerState \cup {NoState}]]
        /\ hops' \in [Node -> [Node -> Nat]]
        /\ work' \in [Node -> SUBSET Handling]
    BY <1>2, Zenon DEF Restart, TypeOK
  <2>6. lastCleanup' \in [Node -> Nat] /\ ourBeacon' \in [Node -> Nat]
    BY <1>2, <2>3, Zenon DEF Restart, TypeOK
  <2> QED
    BY <1>2, <2>4, <2>5, <2>6, Zenon DEF Restart, TypeOK, appVars
<1> QED
  BY <1>1, <1>2, Zenon

\* Every step preserves the types.
LEMMA NextType == TypeOK /\ [CrashNext]_vars => TypeOK'
<1> SUFFICES ASSUME TypeOK, [CrashNext]_vars
             PROVE  TypeOK'
  BY Zenon
<1>1. ASSUME NEW n \in Node, Heartbeat(n) \/ Receive(n)
      PROVE  TypeOK'
  BY <1>1, HeartbeatType, HandleBeaconType, RespondBeaconType, HandleDataType, Zenon
     DEF Receive
<1>2. ASSUME NEW n \in Node, NEW d \in Node, NEW i \in DataId, Tell(n, d, i)
      PROVE  TypeOK'
  BY <1>2, TellType, Zenon
<1>3. ASSUME NEW n \in Node, NEW p \in Node,
             AddPeer(n, p) \/ RemovePeer(n, p) \/ Restart(n)
      PROVE  TypeOK'
  BY <1>3, EnvironmentType, Zenon
<1>4. CASE UNCHANGED vars
  BY <1>4, Zenon DEF vars, routerVars, appVars, TypeOK
<1> QED
  BY <1>1, <1>2, <1>3, <1>4, Zenon DEF CrashNext, Next

\* The state of the routers, the network and the application stays well
\* typed, restarts included.
THEOREM TypeCorrect == CrashSpec => []TypeOK
BY InitType, NextType, PTL DEF CrashSpec

----------------------------------------------------------------------------
(* Routes.                                                                  *)

\* What the invariant on routes rests on: no node is its own peer, cleanup
\* lies in the past, and a new beacon is newer than the one before.
BaseInv ==
  /\ TypeOK
  /\ \A n \in Node : n \notin peers[n]
  /\ \A n \in Node : lastCleanup[n] <= clock[n] /\ ourBeacon[n] <= clock[n]

\* Only AddPeer and RemovePeer change peers, and only Heartbeat the clocks.
LEMMA BaseSteps ==
  ASSUME [Next]_vars
  PROVE  /\ \/ peers' = peers
            \/ \E n, p \in Node : AddPeer(n, p) \/ RemovePeer(n, p)
         /\ \/ clock' = clock /\ lastCleanup' = lastCleanup /\ ourBeacon' = ourBeacon
            \/ \E n \in Node : Heartbeat(n)
<1> DEFINE Ticked == clock' = clock /\ lastCleanup' = lastCleanup /\ ourBeacon' = ourBeacon
<1>1. ASSUME NEW n \in Node, Heartbeat(n)
      PROVE  peers' = peers
  BY <1>1, Zenon DEF Heartbeat
<1>2. ASSUME NEW n \in Node, NEW m \in beacons, HandleBeacon(n, m)
      PROVE  peers' = peers /\ Ticked
  BY <1>2, Zenon DEF HandleBeacon
<1>3. ASSUME NEW n \in Node, NEW t \in work[n], RespondBeacon(n, t)
      PROVE  peers' = peers /\ Ticked
  BY <1>3, Zenon DEF RespondBeacon
<1>4. ASSUME NEW n \in Node, NEW m \in datagrams, HandleData(n, m)
      PROVE  peers' = peers /\ Ticked
  BY <1>4, Zenon DEF HandleData, routerVars
<1>5. ASSUME NEW n \in Node, NEW d \in Node, NEW i \in DataId, Tell(n, d, i)
      PROVE  peers' = peers /\ Ticked
  BY <1>5, Zenon DEF Tell, routerVars
<1>6. ASSUME NEW n \in Node, NEW p \in Node, AddPeer(n, p) \/ RemovePeer(n, p)
      PROVE  Ticked
  BY <1>6, Zenon DEF AddPeer, RemovePeer
<1>7. ASSUME UNCHANGED vars
      PROVE  peers' = peers /\ Ticked
  BY <1>7, Zenon DEF vars, routerVars
<1> HIDE DEF Ticked
<1>8. /\ \/ peers' = peers
         \/ \E n, p \in Node : AddPeer(n, p) \/ RemovePeer(n, p)
      /\ Ticked \/ \E n \in Node : Heartbeat(n)
  BY <1>1, <1>2, <1>3, <1>4, <1>5, <1>6, <1>7, Zenon DEF Next, Receive
<1> QED
  BY <1>8, Zenon DEF Ticked

\* The state that Reset makes satisfies the base invariant.
LEMMA InitBase == Init => BaseInv
BY InitType, BeaconNetAssumption DEF Init, BaseInv

\* Every step but a restart preserves the base invariant.
LEMMA NextBase == BaseInv /\ [Next]_vars => BaseInv'
<1> SUFFICES ASSUME BaseInv, [Next]_vars
             PROVE  BaseInv'
  BY Zenon
<1>1. TypeOK /\ TypeOK'
  BY NextType, Zenon DEF BaseInv, CrashNext
<1>2. \A n \in Node : n \notin peers'[n]
  <2>1. ASSUME NEW n \in Node, NEW p \in Node, AddPeer(n, p) \/ RemovePeer(n, p)
        PROVE  \A k \in Node : k \notin peers'[k]
    <3>1. peers \in [Node -> SUBSET Node]
      BY <1>1, Zenon DEF TypeOK
    <3>2. CASE AddPeer(n, p)
      BY <3>1, <3>2, BeaconNetAssumption, Zenon DEF AddPeer, BaseInv
    <3>3. CASE RemovePeer(n, p)
      BY <3>1, <3>3, Zenon DEF RemovePeer, BaseInv
    <3> QED
      BY <2>1, <3>2, <3>3, Zenon
  <2>2. CASE peers' = peers
    BY <2>2, Zenon DEF BaseInv
  <2> QED
    BY <2>1, <2>2, BaseSteps, Zenon
<1>3. \A n \in Node : lastCleanup'[n] <= clock'[n] /\ ourBeacon'[n] <= clock'[n]
  <2>1. ASSUME NEW n \in Node, Heartbeat(n)
        PROVE  \A k \in Node : lastCleanup'[k] <= clock'[k] /\ ourBeacon'[k] <= clock'[k]
    <3>1. /\ clock \in [Node -> Nat] /\ lastCleanup \in [Node -> Nat]
          /\ ourBeacon \in [Node -> Nat]
      BY <1>1, Zenon DEF TypeOK
    <3>2. /\ clock' = [clock EXCEPT ![n] = clock[n] + 1]
          /\ \/ lastCleanup' = [lastCleanup EXCEPT ![n] = clock[n] + 1]
             \/ lastCleanup' = lastCleanup
          /\ ourBeacon' = [ourBeacon EXCEPT ![n] = clock[n] + 1]
      BY <2>1, Zenon DEF Heartbeat
    <3> QED
      BY <3>1, <3>2 DEF BaseInv
  <2>2. CASE clock' = clock /\ lastCleanup' = lastCleanup /\ ourBeacon' = ourBeacon
    BY <2>2, Zenon DEF BaseInv
  <2> QED
    BY <2>1, <2>2, BaseSteps, Zenon
<1> QED
  BY <1>1, <1>2, <1>3, Zenon DEF BaseInv

\* The reversed subtraction: cleanup is never due.
LEMMA NeverCleanup ==
  ASSUME BaseInv, NEW n \in Node, Heartbeat(n)
  PROVE  peerStates' = peerStates /\ lastCleanup' = lastCleanup
<1>1. clock[n] \in Nat /\ lastCleanup[n] \in Nat /\ lastCleanup[n] <= clock[n]
  BY Zenon DEF BaseInv, TypeOK
<1>2. ~CleanupDue(n, clock[n] + 1)
  BY <1>1, BeaconNetAssumption DEF CleanupDue
<1> QED
  BY <1>2, Zenon DEF Heartbeat

\* An entry of peerStates is a next hop and a counter.
LEMMA EntryType ==
  ASSUME TypeOK, NEW n \in Node, NEW d \in Node, peerStates[n][d] # NoState
  PROVE  /\ peerStates[n][d].next \in Node
         /\ peerStates[n][d].counter \in Nat
<1>1. peerStates[n][d] \in PeerState \cup {NoState}
  BY Zenon DEF TypeOK
<1> QED
  BY <1>1, Zenon DEF PeerState

\* What handleBeacon does to the routing table.
LEMMA HandleBeaconUpdates ==
  ASSUME TypeOK, NEW n \in Node, NEW m \in beacons, HandleBeacon(n, m),
         Updated(n, m.origin, m.counter)
  PROVE  /\ peerStates' = [peerStates EXCEPT ![n] = [@ EXCEPT ![m.origin] =
                             [next |-> m.from, counter |-> m.counter]]]
         /\ hops' = [hops EXCEPT ![n][m.origin] = m.hops + 1]
BY Zenon DEF HandleBeacon

\* A beacon that is no news leaves the routing table alone.
LEMMA HandleBeaconKeeps ==
  ASSUME TypeOK, NEW n \in Node, NEW m \in beacons, HandleBeacon(n, m),
         ~Updated(n, m.origin, m.counter)
  PROVE  peerStates' = peerStates /\ hops' = hops
<1>1. /\ peerStates' = [peerStates EXCEPT ![n] = peerStates[n]]
      /\ hops' = [hops EXCEPT ![n][m.origin] = hops[n][m.origin]]
  BY Zenon DEF HandleBeacon
<1>2. /\ peerStates \in [Node -> [Node -> PeerState \cup {NoState}]]
      /\ hops \in [Node -> [Node -> Nat]]
  BY Zenon DEF TypeOK
<1> QED
  BY <1>1, <1>2, Zenon

\* handleBeacon changes no entry but the receiver's about the origin.
LEMMA HandleBeaconElsewhere ==
  ASSUME TypeOK, NEW n \in Node, NEW m \in beacons, HandleBeacon(n, m),
         NEW k \in Node, NEW d \in Node, k # n \/ d # m.origin
  PROVE  peerStates'[k][d] = peerStates[k][d] /\ hops'[k][d] = hops[k][d]
<1>1. /\ peerStates \in [Node -> [Node -> PeerState \cup {NoState}]]
      /\ hops \in [Node -> [Node -> Nat]]
  BY Zenon DEF TypeOK
<1>2. CASE Updated(n, m.origin, m.counter)
  <2>1. /\ peerStates' = [peerStates EXCEPT ![n] = [@ EXCEPT ![m.origin] =
                            [next |-> m.from, counter |-> m.counter]]]
        /\ hops' = [hops EXCEPT ![n][m.origin] = m.hops + 1]
    BY <1>2, HandleBeaconUpdates, Zenon
  <2> QED
    BY <1>1, <2>1, Zenon
<1>3. CASE ~Updated(n, m.origin, m.counter)
  BY <1>3, HandleBeaconKeeps, Zenon
<1> QED
  BY <1>2, <1>3, Zenon

\* What handleBeacon sends is about the origin of the beacon it handles.
LEMMA HandleBeaconSends ==
  ASSUME NEW n \in Node, NEW m \in beacons, HandleBeacon(n, m),
         NEW k \in beacons', k \notin beacons
  PROVE  /\ k.from = n /\ k.origin = m.origin /\ k.counter = m.counter
         /\ k.hops = IF Updated(n, m.origin, m.counter) THEN m.hops + 1
                     ELSE hops[n][m.origin]
<1> DEFINE o       == m.origin
           updated == Updated(n, o, m.counter)
           known   == IF updated
                      THEN [peerStates[n] EXCEPT ![o] =
                              [next |-> m.from, counter |-> m.counter]]
                      ELSE peerStates[n]
           h       == IF updated THEN m.hops + 1 ELSE hops[n][o]
<1>1. beacons' = beacons \cup
         (IF m.dst = broadcastAddr
          THEN IF updated THEN broadcast(n, m.from, o, m.counter, h) ELSE {}
          ELSE IF known[m.dst] # NoState
               THEN sendBeacon(n, known[m.dst].next, m.dst, o, m.counter, h)
               ELSE {})
  BY Zenon DEF HandleBeacon
<1> HIDE DEF updated, known, h
<1>2. \/ k \in broadcast(n, m.from, o, m.counter, h)
      \/ k \in sendBeacon(n, known[m.dst].next, m.dst, o, m.counter, h)
  BY <1>1, Zenon
<1>3. k.from = n /\ k.origin = o /\ k.counter = m.counter /\ k.hops = h
  BY <1>2 DEF broadcast, sendBeacon
<1> QED
  BY <1>3, Zenon DEF updated, h

\* A route that backed a beacon or another route goes on doing so.
LEMMA BacksMonotone ==
  ASSUME TypeOK, TypeOK', NEW n \in Node, NEW m \in beacons, HandleBeacon(n, m),
         NEW k \in Node, NEW d \in Node, NEW c \in Nat, NEW h \in Nat,
         Backs(k, d, c, h)
  PROVE  Backs(k, d, c, h)'
<1>1. m.from \in Node /\ m.origin \in Node /\ m.counter \in Nat
  BY Zenon DEF TypeOK, BeaconMsg
<1>2. peerStates[k][d].counter \in Nat
  BY EntryType, Zenon DEF Backs, Exists
<1>3. CASE k # n \/ d # m.origin
  <2>1. peerStates'[k][d] = peerStates[k][d] /\ hops'[k][d] = hops[k][d]
    BY <1>3, HandleBeaconElsewhere
  <2> QED
    BY <2>1, Zenon DEF Backs, Exists
<1>4. CASE ~Updated(n, m.origin, m.counter)
  <2>1. peerStates' = peerStates /\ hops' = hops
    BY <1>4, HandleBeaconKeeps, Zenon
  <2> QED
    BY <2>1, Zenon DEF Backs, Exists
<1>5. CASE k = n /\ d = m.origin /\ Updated(n, m.origin, m.counter)
  <2>1. peerStates'[k][d] = [next |-> m.from, counter |-> m.counter]
    <3>1. peerStates' = [peerStates EXCEPT ![n] = [@ EXCEPT ![m.origin] =
                           [next |-> m.from, counter |-> m.counter]]]
      BY <1>5, HandleBeaconUpdates, Zenon
    <3>2. peerStates \in [Node -> [Node -> PeerState \cup {NoState}]]
      BY Zenon DEF TypeOK
    <3> QED
      BY <1>1, <1>5, <3>1, <3>2, Zenon
  <2>2. m.counter > peerStates[k][d].counter
    BY <1>5, Zenon DEF Updated, Backs
  <2>3. peerStates'[k][d] # NoState /\ peerStates'[k][d].counter = m.counter
    BY <2>1, <1>1, BeaconNetAssumption DEF PeerState
  <2>4. m.counter > c
    BY <1>1, <1>2, <2>2 DEF Backs
  <2> QED
    BY <2>3, <2>4, Zenon DEF Backs, Exists
<1> QED
  BY <1>3, <1>4, <1>5, Zenon

\* handleBeacon preserves the backing of beacons and routes.
LEMMA HandleBeaconRoutes ==
  ASSUME BaseInv, TypeOK', BeaconInv, RouteInv,
         NEW n \in Node, NEW m \in beacons, HandleBeacon(n, m)
  PROVE  BeaconInv' /\ RouteInv'
<1> DEFINE o       == m.origin
           updated == Updated(n, o, m.counter)
<1>1. TypeOK
  BY Zenon DEF BaseInv
<1>2. m.from \in Node /\ o \in Node /\ m.counter \in Nat /\ m.hops \in Nat
  BY <1>1, Zenon DEF TypeOK, BeaconMsg
<1>3. m.from # n
  BY Zenon DEF BaseInv, HandleBeacon, Arrives
<1>4. ourBeacon' = ourBeacon
  BY Zenon DEF HandleBeacon
<1>5. updated => /\ peerStates'[n][o] = [next |-> m.from, counter |-> m.counter]
                 /\ hops'[n][o] = m.hops + 1
                 /\ peerStates'[n][o] # NoState
  <2> HAVE updated
  <2>1. /\ peerStates'[n][o] = [next |-> m.from, counter |-> m.counter]
        /\ hops'[n][o] = m.hops + 1
    <3>1. /\ peerStates' = [peerStates EXCEPT ![n] = [@ EXCEPT ![o] =
                              [next |-> m.from, counter |-> m.counter]]]
          /\ hops' = [hops EXCEPT ![n][o] = m.hops + 1]
      BY <1>1, HandleBeaconUpdates, Zenon
    <3>2. /\ peerStates \in [Node -> [Node -> PeerState \cup {NoState}]]
          /\ hops \in [Node -> [Node -> Nat]]
      BY <1>1, Zenon DEF TypeOK
    <3> QED
      BY <1>2, <3>1, <3>2, Zenon
  <2> QED
    BY <1>2, <2>1, BeaconNetAssumption DEF PeerState
<1>6. ~updated => peerStates' = peerStates /\ hops' = hops
  BY <1>1, HandleBeaconKeeps, Zenon
<1>7. RouteInv'
  <2> SUFFICES ASSUME NEW k \in Node, NEW d \in Node, peerStates'[k][d] # NoState
               PROVE  /\ peerStates'[k][d].counter <= ourBeacon'[d]
                      /\ hops'[k][d] > 0
                      /\ peerStates'[k][d].next # d =>
                           Backs(peerStates[k][d].next, d, peerStates[k][d].counter,
                                 hops[k][d] - 1)'
    BY Zenon DEF RouteInv, Exists
  <2>1. CASE k = n /\ d = o /\ updated
    <3>1. /\ peerStates'[k][d].next = m.from
          /\ peerStates'[k][d].counter = m.counter
          /\ hops'[k][d] = m.hops + 1
      BY <2>1, <1>5
    <3>2. m.counter <= ourBeacon'[d]
      BY <2>1, <1>4, Zenon DEF BeaconInv
    <3>3. ASSUME m.from # d
          PROVE  Backs(m.from, d, m.counter, m.hops)'
      <4>1. Backs(m.from, d, m.counter, m.hops)
        BY <2>1, <3>3, Zenon DEF BeaconInv
      <4> QED
        BY <4>1, <1>1, <1>2, BacksMonotone, Zenon
    <3>4. hops'[k][d] > 0 /\ hops'[k][d] - 1 = m.hops
      BY SMTT(30), <3>1, <1>2
    <3> QED
      BY <3>1, <3>2, <3>3, <3>4, Zenon DEF Backs, Exists
  <2>2. CASE ~(k = n /\ d = o /\ updated)
    <3>1. peerStates'[k][d] = peerStates[k][d] /\ hops'[k][d] = hops[k][d]
      BY <2>2, <1>1, <1>6, HandleBeaconElsewhere
    <3>2. /\ peerStates[k][d].next \in Node /\ peerStates[k][d].counter \in Nat
          /\ hops[k][d] \in Nat
      BY <3>1, <1>1, EntryType, Zenon DEF TypeOK
    <3>3. /\ peerStates[k][d].counter <= ourBeacon[d]
          /\ hops[k][d] > 0
          /\ peerStates[k][d].next # d =>
               Backs(peerStates[k][d].next, d, peerStates[k][d].counter, hops[k][d] - 1)
      BY <3>1, Zenon DEF RouteInv, Exists
    <3> DEFINE x == peerStates[k][d].next
               c == peerStates[k][d].counter
               h == hops[k][d] - 1
    <3>4. PICK x1 \in Node, c1 \in Nat, h1 \in Nat : x1 = x /\ c1 = c /\ h1 = h
      BY <3>2, <3>3
    <3>5. x # d => Backs(x1, d, c1, h1)
      BY <3>3, <3>4, Zenon
    <3>6. x # d => Backs(x1, d, c1, h1)'
      BY SMTT(30), <3>5, <1>1, BacksMonotone
    <3> QED
      BY <3>1, <3>3, <3>4, <3>6, <1>4, Zenon DEF Backs, Exists
  <2> QED
    BY <2>1, <2>2, Zenon
<1>8. BeaconInv'
  <2> SUFFICES ASSUME NEW k \in beacons'
               PROVE  /\ k.counter <= ourBeacon'[k.origin]
                      /\ k.from # k.origin =>
                           Backs(k.from, k.origin, k.counter, k.hops)'
    BY Zenon DEF BeaconInv
  <2>1. CASE k \in beacons
    <3>1. k.from \in Node /\ k.origin \in Node /\ k.counter \in Nat /\ k.hops \in Nat
      BY <2>1, <1>1, Zenon DEF TypeOK, BeaconMsg
    <3>2. /\ k.counter <= ourBeacon[k.origin]
          /\ k.from # k.origin => Backs(k.from, k.origin, k.counter, k.hops)
      BY <2>1, Zenon DEF BeaconInv
    <3> QED
      BY <3>1, <3>2, <1>1, <1>4, BacksMonotone, Zenon
  <2>2. CASE k \notin beacons
    <3>1. /\ k.from = n /\ k.origin = o /\ k.counter = m.counter
          /\ k.hops = hops'[n][o]
      BY <2>2, <1>5, <1>6, HandleBeaconSends
    <3>2. m.counter <= ourBeacon[o]
      BY Zenon DEF BeaconInv
    <3>3. Backs(n, o, m.counter, hops[n][o])'
      <4>1. hops'[n][o] \in Nat
        BY <1>2, Zenon DEF TypeOK
      <4>2. CASE updated
        BY <4>1, <4>2, <1>5, <1>2 DEF Backs, Exists
      <4>3. CASE ~updated
        <5>1. peerStates[n][o] # NoState /\ ~(m.counter > peerStates[n][o].counter)
          BY <4>3, Zenon DEF Updated, Exists
        <5>2. peerStates[n][o].counter \in Nat
          BY <5>1, <1>1, <1>2, EntryType, Zenon
        <5> QED
          BY <4>1, <4>3, <5>1, <5>2, <1>2, <1>6 DEF Backs, Exists
      <4> QED
        BY <4>2, <4>3, Zenon
    <3> QED
      BY <3>1, <3>2, <3>3, <1>4, Zenon DEF Backs, Exists
  <2> QED
    BY <2>1, <2>2, Zenon
<1> QED
  BY <1>7, <1>8, Zenon

\* Heartbeat, which never cleans up, preserves the backing.
LEMMA HeartbeatRoutes ==
  ASSUME BaseInv, BeaconInv, RouteInv, NEW n \in Node, Heartbeat(n)
  PROVE  BeaconInv' /\ RouteInv'
<1> DEFINE now == clock[n] + 1
<1>1. peerStates' = peerStates /\ hops' = hops
  BY NeverCleanup, Zenon DEF Heartbeat
<1>2. \A d \in Node : ourBeacon[d] \in Nat /\ ourBeacon'[d] \in Nat /\ ourBeacon[d] <= ourBeacon'[d]
  <2>1. ourBeacon \in [Node -> Nat] /\ clock[n] \in Nat /\ ourBeacon[n] <= clock[n]
    BY Zenon DEF BaseInv, TypeOK
  <2>2. ourBeacon' = [ourBeacon EXCEPT ![n] = now]
    BY Zenon DEF Heartbeat
  <2> QED
    BY <2>1, <2>2
<1>3. ourBeacon'[n] = now
  BY SMTT(30) DEF Heartbeat, BaseInv, TypeOK
<1>4. RouteInv'
  <2>1. ASSUME NEW k \in Node, NEW d \in Node, peerStates[k][d] # NoState
        PROVE  peerStates[k][d].counter <= ourBeacon'[d]
    <3>1. peerStates[k][d].counter \in Nat
      BY <2>1, EntryType, Zenon DEF BaseInv
    <3>2. peerStates[k][d].counter <= ourBeacon[d]
      BY <2>1, Zenon DEF RouteInv, Exists
    <3> QED
      BY <1>2, <3>1, <3>2
  <2> QED
    BY <1>1, <2>1, Zenon DEF RouteInv, Exists, Backs
<1>5. BeaconInv'
  <2> SUFFICES ASSUME NEW k \in beacons'
               PROVE  /\ k.counter <= ourBeacon'[k.origin]
                      /\ k.from # k.origin =>
                           Backs(k.from, k.origin, k.counter, k.hops)'
    BY Zenon DEF BeaconInv
  <2>1. CASE k \in beacons
    <3>1. k.origin \in Node /\ k.counter \in Nat
      BY <2>1, Zenon DEF BaseInv, TypeOK, BeaconMsg
    <3>2. k.counter <= ourBeacon'[k.origin]
      BY <2>1, <3>1, <1>2 DEF BeaconInv
    <3> QED
      BY <2>1, <3>2, <1>1, Zenon DEF BeaconInv, Backs, Exists
  <2>2. CASE k \in broadcast(n, n, n, now, 0)
    <3>1. k.from = n /\ k.origin = n /\ k.counter = now
      BY <2>2 DEF broadcast
    <3>2. now \in Nat
      BY DEF BaseInv, TypeOK
    <3> QED
      BY <3>1, <3>2, <1>3
  <2> QED
    BY <2>1, <2>2, Zenon DEF Heartbeat
<1> QED
  BY <1>4, <1>5, Zenon

\* The answer to a first beacon preserves the backing.
LEMMA RespondBeaconRoutes ==
  ASSUME BaseInv, BeaconInv, RouteInv, NEW n \in Node, NEW t \in work[n],
         RespondBeacon(n, t)
  PROVE  BeaconInv' /\ RouteInv'
<1>1. peerStates' = peerStates /\ hops' = hops /\ ourBeacon' = ourBeacon
  BY Zenon DEF RespondBeacon
<1>2. ASSUME NEW k \in sendBeacon(n, t.prev, t.src, n, ourBeacon[n], 0)
      PROVE  k.from = k.origin /\ k.counter <= ourBeacon[k.origin]
  <2>1. k.from = n /\ k.origin = n /\ k.counter = ourBeacon[n]
    BY DEF sendBeacon
  <2>2. ourBeacon[n] \in Nat
    BY Zenon DEF BaseInv, TypeOK
  <2> QED
    BY <2>1, <2>2
<1>3. BeaconInv'
  <2> SUFFICES ASSUME NEW k \in beacons'
               PROVE  /\ k.counter <= ourBeacon[k.origin]
                      /\ k.from # k.origin =>
                           Backs(k.from, k.origin, k.counter, k.hops)
    BY <1>1, Zenon DEF BeaconInv, Backs, Exists
  <2>1. CASE k \in beacons
    BY <2>1, Zenon DEF BeaconInv
  <2>2. CASE k \in sendBeacon(n, t.prev, t.src, n, ourBeacon[n], 0)
    BY SMTT(30), <2>2, <1>2
  <2> QED
    BY <2>1, <2>2, Zenon DEF RespondBeacon
<1>4. RouteInv'
  BY <1>1 DEF RouteInv, Backs, Exists
<1> QED
  BY <1>3, <1>4, Zenon

\* The inductive invariant for routes.
RoutesInv == BaseInv /\ BeaconInv /\ RouteInv

\* Empty tables and no beacons satisfy the routes invariant.
LEMMA InitRoutes == Init => RoutesInv
<1> SUFFICES ASSUME Init
             PROVE  BeaconInv /\ RouteInv
  BY InitBase, Zenon DEF RoutesInv
<1>1. beacons = {} /\ \A n, d \in Node : ~Exists(n, d)
  BY SMTT(30) DEF Init, Exists
<1> QED
  BY <1>1, Zenon DEF BeaconInv, RouteInv

\* Every step but a restart preserves the routes invariant.
LEMMA NextRoutes == RoutesInv /\ [Next]_vars => RoutesInv'
<1> SUFFICES ASSUME BaseInv, BeaconInv, RouteInv, [Next]_vars
             PROVE  BaseInv' /\ BeaconInv' /\ RouteInv'
  BY Zenon DEF RoutesInv
<1>1. BaseInv'
  BY NextBase, Zenon
<1>2. TypeOK'
  BY <1>1, Zenon DEF BaseInv
<1>3. ASSUME NEW n \in Node, Heartbeat(n)
      PROVE  BeaconInv' /\ RouteInv'
  BY <1>3, HeartbeatRoutes, Zenon
<1>4. ASSUME NEW n \in Node, NEW m \in beacons, HandleBeacon(n, m)
      PROVE  BeaconInv' /\ RouteInv'
  BY <1>4, <1>2, HandleBeaconRoutes, Zenon
<1>5. ASSUME NEW n \in Node, NEW t \in work[n], RespondBeacon(n, t)
      PROVE  BeaconInv' /\ RouteInv'
  BY <1>5, RespondBeaconRoutes, Zenon
<1>6. CASE UNCHANGED <<peerStates, hops, ourBeacon, beacons>>
  <2>1. BeaconInv'
    BY SMTT(30), <1>6 DEF BeaconInv, Backs, Exists
  <2>2. RouteInv'
    BY <1>6, Zenon DEF RouteInv, Backs, Exists
  <2> QED
    BY <1>1, <2>1, <2>2, Zenon
<1>7. ASSUME NEW n \in Node, NEW m \in datagrams, HandleData(n, m)
      PROVE  UNCHANGED <<peerStates, hops, ourBeacon, beacons>>
  BY <1>7, Zenon DEF HandleData, routerVars
<1> QED
  BY <1>1, <1>3, <1>4, <1>5, <1>6, <1>7, Zenon
     DEF Next, Receive, Tell, AddPeer, RemovePeer, vars, routerVars

\* Every beacon in flight is backed by its sender and every route by its next
\* hop, in every mesh, however beacons are lost, repeated and reordered and
\* peers come and go.
THEOREM RoutesBacked == Spec => [](BeaconInv /\ RouteInv)
<1>1. RoutesInv => BeaconInv /\ RouteInv
  BY Zenon DEF RoutesInv
<1> QED
  BY <1>1, InitRoutes, NextRoutes, PTL DEF Spec

\* Every beacon in flight is backed by the router that sent it.
THEOREM BeaconsBacked == Spec => []BeaconInv
BY RoutesBacked, PTL

\* A set of naturals that is not empty has a least element.
LEMMA NatMin ==
  ASSUME NEW T \in SUBSET Nat, T # {}
  PROVE  \E x \in T : \A y \in T : x <= y
<1>1. PICK x \in T : \A y \in T : ~(<<y, x>> \in OpToRel(<, Nat))
  BY NatLessThanWellFounded, WFMin, Zenon
<1>2. \A y \in T : x <= y
  <2> TAKE y \in T
  <2>1. ~(<<y, x>> \in OpToRel(<, Nat))
    BY <1>1, Zenon
  <2>2. x \in Nat /\ y \in Nat
    BY Zenon
  <2>3. ~(y < x)
    BY SMTT(30), <2>1, <2>2 DEF OpToRel
  <2> QED
    BY <2>2, <2>3
<1> QED
  BY <1>2, Zenon

\* In a group of routers that pass data for dst only to one another, take one
\* with the newest counter and, among those, the fewest hops: its next hop is
\* better still.
LEMMA RoutesLoopFree == RoutesInv => NoRoutingLoop
<1> SUFFICES ASSUME RoutesInv, NEW dst \in Node, NEW S \in SUBSET (Node \ {dst}),
                    S # {}, \A n \in S : NextHop(n, dst) # n /\ NextHop(n, dst) \in S
             PROVE  FALSE
  BY SMTT(30) DEF NoRoutingLoop
<1> DEFINE c(n) == peerStates[n][dst].counter
           h(n) == hops[n][dst]
           next(n) == peerStates[n][dst].next
<1>1. ASSUME NEW n \in S
      PROVE  /\ peerStates[n][dst] # NoState
             /\ next(n) \in S /\ c(n) \in Nat /\ h(n) \in Nat
             /\ c(n) <= ourBeacon[dst]
             /\ \/ c(next(n)) > c(n)
                \/ c(next(n)) = c(n) /\ h(next(n)) <= h(n) - 1
  <2>1. n \in Node /\ NextHop(n, dst) # dst
    BY Zenon
  <2>2. Exists(n, dst) /\ NextHop(n, dst) = next(n)
    BY <2>1, Zenon DEF NextHop
  <2>3. c(n) \in Nat /\ h(n) \in Nat
    <3>1. TypeOK
      BY Zenon DEF RoutesInv, BaseInv
    <3>2. c(n) \in Nat
      BY <2>1, <2>2, <3>1, EntryType, Zenon DEF Exists
    <3>3. h(n) \in Nat
      BY <2>1, <3>1 DEF TypeOK
    <3> QED
      BY <3>2, <3>3, Zenon
  <2>4. c(n) <= ourBeacon[dst] /\ Backs(next(n), dst, c(n), h(n) - 1)
    BY <2>1, <2>2, Zenon DEF RoutesInv, RouteInv
  <2> QED
    BY <2>2, <2>3, <2>4, Zenon DEF Backs, Exists
<1>2. ourBeacon[dst] \in Nat
  BY Zenon DEF RoutesInv, BaseInv, TypeOK
<1> DEFINE T == {ourBeacon[dst] - c(n) : n \in S}
<1>3. T \in SUBSET Nat /\ T # {}
  BY <1>1, <1>2
<1>4. PICK x \in T : \A y \in T : x <= y
  BY <1>3, NatMin, Zenon
<1> DEFINE U == {h(n) : n \in {k \in S : ourBeacon[dst] - c(k) = x}}
<1>5. U \in SUBSET Nat /\ U # {}
  BY <1>1, <1>4
<1>6. PICK z \in U : \A y \in U : z <= y
  BY <1>5, NatMin, Zenon
<1>7. PICK n \in S : ourBeacon[dst] - c(n) = x /\ h(n) = z
  BY SMTT(30), <1>6
<1> DEFINE k == next(n)
<1>8. /\ k \in S /\ c(n) \in Nat /\ h(n) \in Nat
      /\ c(k) > c(n) \/ (c(k) = c(n) /\ h(k) <= h(n) - 1)
  BY SMTT(30), <1>1
<1>9. c(k) \in Nat /\ h(k) \in Nat
  BY <1>1, <1>8, Zenon
<1>10. x <= ourBeacon[dst] - c(k)
  BY <1>4, <1>8, Zenon
<1>11. c(k) = c(n) /\ h(k) <= h(n) - 1
  <2>1. ourBeacon[dst] - c(n) <= ourBeacon[dst] - c(k)
    BY <1>7, <1>10, Zenon
  <2> HIDE DEF c, h, k
  <2> QED
    BY <1>2, <1>8, <1>9, <2>1
<1>12. h(k) \in U
  BY <1>7, <1>8, <1>11, Zenon
<1>13. h(n) <= h(k)
  BY SMTT(30), <1>6, <1>7, <1>12
<1> QED
  BY <1>8, <1>9, <1>11, <1>13

\* Routes are loop free in every mesh.
THEOREM LoopFree == Spec => []NoRoutingLoop
BY InitRoutes, NextRoutes, RoutesLoopFree, PTL DEF Spec

----------------------------------------------------------------------------
(* Data.                                                                    *)

\* The next hop of a route is the destination or knows it.
LEMMA NextKnows ==
  ASSUME TypeOK, RouteInv, NEW n \in Node, NEW d \in Node, Exists(n, d)
  PROVE  LET k == peerStates[n][d].next IN k = d \/ Exists(k, d)
BY SMTT(30) DEF RouteInv, Backs

\* Every step but a restart sends data only to routers that know where to.
LEMMA NextNoBlackHole ==
  RoutesInv /\ NoBlackHole /\ [Next]_vars => NoBlackHole'
<1> SUFFICES ASSUME RoutesInv, NoBlackHole, [Next]_vars
             PROVE  NoBlackHole'
  BY Zenon
<1>1. TypeOK /\ BaseInv /\ RouteInv
  BY Zenon DEF RoutesInv, BaseInv
<1>2. \A m \in datagrams : m.to \in Node /\ m.dst \in Node
  BY <1>1, Zenon DEF TypeOK, DataMsg
<1>3. ASSUME NEW n \in Node, Heartbeat(n)
      PROVE  NoBlackHole'
  <2>1. peerStates' = peerStates /\ datagrams' = datagrams
    BY <1>1, <1>3, NeverCleanup, Zenon DEF Heartbeat
  <2> QED
    BY <2>1, Zenon DEF NoBlackHole, Exists
<1>4. ASSUME NEW n \in Node, NEW m \in beacons, HandleBeacon(n, m)
      PROVE  NoBlackHole'
  <2>1. TypeOK'
    BY <1>1, NextType, Zenon DEF CrashNext
  <2>2. ASSUME NEW k \in Node, NEW d \in Node, Exists(k, d)
        PROVE  Exists(k, d)'
    <3>1. peerStates[k][d].counter \in Nat /\ hops[k][d] \in Nat
      BY <1>1, <2>2, EntryType, Zenon DEF TypeOK, Exists
    <3>2. PICK c \in Nat, h \in Nat : Backs(k, d, c, h)
      BY <3>1, <2>2 DEF Backs
    <3>3. Backs(k, d, c, h)'
      BY <1>1, <1>4, <2>1, <3>2, BacksMonotone, Zenon
    <3> QED
      BY <3>3, Zenon DEF Backs
  <2>3. datagrams' = datagrams
    BY <1>4, Zenon DEF HandleBeacon
  <2> QED
    BY <1>2, <2>2, <2>3, Zenon DEF NoBlackHole
<1>5. ASSUME NEW n \in Node, NEW dst \in Node, NEW i \in DataId, Tell(n, dst, i)
      PROVE  NoBlackHole'
  <2> DEFINE next == IF dst \in peers[n] THEN dst ELSE peerStates[n][dst].next
  <2>1. next = dst \/ Exists(next, dst)
    BY SMTT(30), <1>1, <1>5, NextKnows DEF Tell
  <2>2. peerStates' = peerStates
    BY <1>5, Zenon DEF Tell, routerVars
  <2>3. datagrams' = datagrams \cup sendData(n, next, n, dst, i)
    BY <1>5, Zenon DEF Tell
  <2> HIDE DEF next
  <2>4. \A k \in sendData(n, next, n, dst, i) : k.to = next /\ k.dst = dst
    BY DEF sendData
  <2> QED
    BY <2>1, <2>2, <2>3, <2>4, Zenon DEF NoBlackHole, Exists
<1>6. ASSUME NEW n \in Node, NEW m \in datagrams, HandleData(n, m)
      PROVE  NoBlackHole'
  <2>1. peerStates' = peerStates
    BY <1>6, Zenon DEF HandleData, routerVars
  <2>2. m.dst \in Node
    BY <1>2, Zenon
  <2>3. ASSUME NEW k \in datagrams', k \notin datagrams
        PROVE  k.to = k.dst \/ Exists(k.to, k.dst)
    <3>1. CASE DeliverLocal(n, m)
      BY SMTT(30), <3>1, <2>3 DEF DeliverLocal
    <3>2. CASE ForwardNeighbor(n, m)
      BY <3>2, <2>3 DEF ForwardNeighbor, sendData
    <3>3. CASE Forward(n, m)
      <4> DEFINE next == peerStates[n][m.dst].next
      <4>1. Exists(n, m.dst) /\ k \in sendData(n, next, m.src, m.dst, m.id)
        BY <3>3, <2>3, Zenon DEF Forward
      <4>2. k.to = next /\ k.dst = m.dst
        BY <4>1 DEF sendData
      <4> QED
        BY <4>1, <4>2, <1>1, <2>2, NextKnows, Zenon
    <3> QED
      BY <1>6, <3>1, <3>2, <3>3, Zenon DEF HandleData
  <2> QED
    BY <2>1, <2>3, Zenon DEF NoBlackHole, Exists
<1>7. CASE UNCHANGED <<peerStates, datagrams>>
  BY <1>7, Zenon DEF NoBlackHole, Exists
<1> QED
  BY <1>3, <1>4, <1>5, <1>6, <1>7, Zenon
     DEF Next, Receive, RespondBeacon, AddPeer, RemovePeer, vars, routerVars

\* No router is ever handed data for a destination that it does not know.
THEOREM NothingFallsIntoABlackHole == Spec => []NoBlackHole
<1>1. Init => NoBlackHole
  BY Zenon DEF Init, NoBlackHole
<1> QED
  BY <1>1, InitRoutes, NextRoutes, NextNoBlackHole, PTL DEF Spec

\* Routes only change to newer ones.
THEOREM RoutesMonotone == Spec => RoutesOnlyGetNewer
<1> DEFINE Newer ==
      \A n, o \in Node :
        Exists(n, o) =>
          \/ peerStates'[n][o] = peerStates[n][o]
          \/ /\ peerStates'[n][o] # NoState
             /\ peerStates'[n][o].counter > peerStates[n][o].counter
<1>1. RoutesInv /\ [Next]_vars => [Newer]_vars
  <2> SUFFICES ASSUME RoutesInv, [Next]_vars
               PROVE  Newer
    BY SMTT(30)
  <2>1. TypeOK /\ BaseInv
    BY Zenon DEF RoutesInv, BaseInv
  <2>2. ASSUME NEW n \in Node, NEW m \in beacons, HandleBeacon(n, m)
        PROVE  Newer
    <3> SUFFICES ASSUME NEW k \in Node, NEW d \in Node, Exists(k, d),
                        peerStates'[k][d] # peerStates[k][d]
                 PROVE  /\ peerStates'[k][d] # NoState
                        /\ peerStates'[k][d].counter > peerStates[k][d].counter
      BY Zenon
    <3>1. Updated(n, m.origin, m.counter)
      BY <2>1, <2>2, HandleBeaconKeeps, Zenon
    <3>2. k = n /\ d = m.origin
      BY <2>1, <2>2, HandleBeaconElsewhere
    <3>3. m.from \in Node /\ m.origin \in Node /\ m.counter \in Nat
      BY <2>1, Zenon DEF TypeOK, BeaconMsg
    <3>4. peerStates'[k][d] = [next |-> m.from, counter |-> m.counter]
      <4>1. peerStates' = [peerStates EXCEPT ![n] = [@ EXCEPT ![m.origin] =
                             [next |-> m.from, counter |-> m.counter]]]
        BY <2>1, <2>2, <3>1, HandleBeaconUpdates, Zenon
      <4>2. peerStates \in [Node -> [Node -> PeerState \cup {NoState}]]
        BY <2>1, Zenon DEF TypeOK
      <4> QED
        BY <3>2, <3>3, <4>1, <4>2, Zenon
    <3>5. m.counter > peerStates[k][d].counter
      BY <3>1, <3>2, Zenon DEF Updated
    <3> QED
      BY <3>3, <3>4, <3>5, BeaconNetAssumption DEF PeerState
  <2>3. ASSUME NEW n \in Node, Heartbeat(n)
        PROVE  peerStates' = peerStates
    BY <2>1, <2>3, NeverCleanup, Zenon
  <2>4. CASE peerStates' = peerStates
    BY <2>4, Zenon
  <2> QED
    BY <2>2, <2>3, <2>4, Zenon DEF Next, Receive, RespondBeacon, HandleData, Tell,
                            AddPeer, RemovePeer, vars, routerVars
<1> QED
  BY <1>1, InitRoutes, NextRoutes, PTL DEF Spec, RoutesOnlyGetNewer

----------------------------------------------------------------------------
(* The datagram service.                                                    *)

\* A data message is passed on as it came, and its last copy is used up.
LEMMA HandleDataEffect ==
  ASSUME NEW n \in Node, NEW m \in datagrams, HandleData(n, m)
  PROVE  /\ told' = told
         /\ \A k \in datagrams' : k \in datagrams \ {m} \/
              (m.dst # n /\ k.src = m.src /\ k.dst = m.dst /\ k.id = m.id)
         /\ \A k, k2 \in datagrams' :
              k \notin datagrams \ {m} /\ k2 \notin datagrams \ {m} => k = k2
         /\ IF m.dst = n
            THEN /\ delivered' = [delivered EXCEPT ![m.id] =
                                    Append(@, [at |-> n, src |-> m.src])]
                 /\ datagrams' = datagrams \ {m}
            ELSE delivered' = delivered
<1>1. told' = told
  BY Zenon DEF HandleData
<1>2. CASE DeliverLocal(n, m)
  BY <1>1, <1>2, Zenon DEF DeliverLocal
<1>3. ASSUME m.dst # n, NEW next,
             datagrams' = (datagrams \ {m}) \cup sendData(n, next, m.src, m.dst, m.id)
      PROVE  /\ \A k \in datagrams' : k \in datagrams \ {m} \/
                  (m.dst # n /\ k.src = m.src /\ k.dst = m.dst /\ k.id = m.id)
             /\ \A k, k2 \in datagrams' :
                  k \notin datagrams \ {m} /\ k2 \notin datagrams \ {m} => k = k2
  BY SMTT(30), <1>3 DEF sendData
<1>4. CASE ForwardNeighbor(n, m)
  BY <1>1, <1>3, <1>4, Zenon DEF ForwardNeighbor
<1>5. CASE Forward(n, m)
  <2>1. CASE Exists(n, m.dst)
    BY SMTT(30), <1>1, <1>3, <1>5, <2>1 DEF Forward
  <2>2. CASE ~Exists(n, m.dst)
    BY <1>1, <1>5, <2>2, Zenon DEF Forward
  <2> QED
    BY SMTT(30), <2>1, <2>2
<1> QED
  BY <1>2, <1>4, <1>5, Zenon DEF HandleData

\* There is at most one data message in flight for each Tell.
LEMMA OneCopy ==
  ASSUME DataInv, NEW k \in datagrams, NEW k2 \in datagrams, k2.id = k.id
  PROVE  k2 = k
BY Zenon DEF DataInv

\* handleData delivers or passes on the only copy.
LEMMA HandleDataInv ==
  ASSUME TypeOK, DataInv, NEW n \in Node, NEW m \in datagrams, HandleData(n, m)
  PROVE  DataInv'
<1>1. /\ told[m.id] = [src |-> m.src, dst |-> m.dst] /\ delivered[m.id] = <<>>
      /\ m.id \in DataId /\ m.src \in Node /\ m.dst \in Node
  BY Zenon DEF DataInv, TypeOK, DataMsg
<1>2. told' = told /\ delivered \in [DataId -> Seq([at : Node, src : Node])]
  BY HandleDataEffect, Zenon DEF TypeOK
<1>3. told[m.id] # NoState
  BY <1>1, BeaconNetAssumption
<1>4. m.dst # n => delivered' = delivered
  BY HandleDataEffect, Zenon
<1>5. \A i \in DataId : i # m.id => delivered'[i] = delivered[i]
  <2>1. CASE m.dst = n
    <3>1. delivered' = [delivered EXCEPT ![m.id] =
                          Append(@, [at |-> n, src |-> m.src])]
      BY <2>1, HandleDataEffect, Zenon
    <3> QED
      BY <1>2, <3>1, Zenon
  <2> QED
    BY <2>1, <1>4, Zenon
<1>6. \A k \in datagrams \ {m} : k.id # m.id
  BY Zenon DEF DataInv
<1>7. ASSUME NEW k \in datagrams'
      PROVE  /\ told'[k.id] = [src |-> k.src, dst |-> k.dst]
             /\ delivered'[k.id] = <<>>
             /\ \A k2 \in datagrams' : k2.id = k.id => k2 = k
  <2>1. CASE k \in datagrams \ {m}
    <3>1. k.id \in DataId
      BY <2>1, Zenon DEF TypeOK, DataMsg
    <3>2. told[k.id] = [src |-> k.src, dst |-> k.dst] /\ delivered[k.id] = <<>>
      BY <2>1, Zenon DEF DataInv
    <3>3. ASSUME NEW k2 \in datagrams', k2.id = k.id
          PROVE  k2 = k
      <4>1. k2 \in datagrams \ {m}
        BY <2>1, <3>3, <1>6, HandleDataEffect, Zenon
      <4> QED
        BY <2>1, <3>3, <4>1, OneCopy, Zenon
    <3> QED
      BY <2>1, <3>1, <3>2, <3>3, <1>2, <1>5, <1>6, Zenon
  <2>2. CASE k \notin datagrams \ {m}
    <3>1. m.dst # n /\ k.src = m.src /\ k.dst = m.dst /\ k.id = m.id
      BY <2>2, HandleDataEffect, Zenon
    <3>2. ASSUME NEW k2 \in datagrams', k2.id = k.id
          PROVE  k2 = k
      <4>1. k2 \notin datagrams \ {m}
        BY <3>1, <3>2, <1>6, Zenon
      <4>2. \A j, j2 \in datagrams' :
              j \notin datagrams \ {m} /\ j2 \notin datagrams \ {m} => j = j2
        BY HandleDataEffect, Zenon
      <4> QED
        BY <2>2, <4>1, <4>2, Zenon
    <3> QED
      BY <3>1, <3>2, <1>1, <1>2, <1>4, Zenon
  <2> QED
    BY <2>1, <2>2, Zenon
<1>8. \A i \in DataId : told'[i] = NoState => delivered'[i] = <<>>
  BY <1>2, <1>3, <1>5, Zenon DEF DataInv
<1> QED
  BY <1>7, <1>8, Zenon DEF DataInv

\* HandleAbove makes the first copy.
LEMMA TellInv ==
  ASSUME TypeOK, DataInv, NEW n \in Node, NEW dst \in Node, NEW i \in DataId,
         Tell(n, dst, i)
  PROVE  DataInv'
<1> DEFINE next == IF dst \in peers[n] THEN dst ELSE peerStates[n][dst].next
<1>1. /\ told[i] = NoState /\ delivered' = delivered
      /\ datagrams' = datagrams \cup sendData(n, next, n, dst, i)
      /\ told' = [told EXCEPT ![i] = [src |-> n, dst |-> dst]]
  BY Zenon DEF Tell
<1>2. told \in [DataId -> [src : Node, dst : Node] \cup {NoState}]
  BY Zenon DEF TypeOK
<1> HIDE DEF next
<1>3. \A k \in datagrams : k.id \in DataId /\ k.src \in Node /\ k.dst \in Node
  BY Zenon DEF TypeOK, DataMsg
<1>4. \A k \in datagrams : k.id # i
  <2> TAKE k \in datagrams
  <2>1. told[k.id] = [src |-> k.src, dst |-> k.dst]
    BY Zenon DEF DataInv
  <2>2. told[k.id] # NoState
    BY <2>1, <1>3, BeaconNetAssumption
  <2> QED
    BY <1>1, <2>2, Zenon
<1>5. delivered[i] = <<>>
  BY <1>1, Zenon DEF DataInv
<1>6. \A k \in sendData(n, next, n, dst, i) :
        /\ k.src = n /\ k.dst = dst /\ k.id = i
        /\ \A k2 \in sendData(n, next, n, dst, i) : k2 = k
  BY DEF sendData
<1>7. ASSUME NEW k \in datagrams'
      PROVE  /\ told'[k.id] = [src |-> k.src, dst |-> k.dst]
             /\ delivered'[k.id] = <<>>
             /\ \A k2 \in datagrams' : k2.id = k.id => k2 = k
  <2>1. CASE k \in datagrams
    <3>1. told'[k.id] = told[k.id]
      BY <2>1, <1>1, <1>2, <1>3, <1>4, Zenon
    <3>2. ASSUME NEW k2 \in datagrams', k2.id = k.id
          PROVE  k2 = k
      <4>1. k2 \in datagrams
        BY SMTT(30), <2>1, <3>2, <1>1, <1>4, <1>6
      <4> QED
        BY SMTT(30), <2>1, <3>2, <4>1, OneCopy
    <3> QED
      BY <2>1, <3>1, <3>2, <1>1, Zenon DEF DataInv
  <2>2. CASE k \in sendData(n, next, n, dst, i)
    BY SMTT(30), <2>2, <1>1, <1>2, <1>4, <1>5, <1>6
  <2> QED
    BY <2>1, <2>2, <1>1, Zenon
<1>8. \A j \in DataId : told'[j] = NoState => delivered'[j] = <<>>
  BY <1>1, <1>2, <1>5, Zenon DEF DataInv
<1> QED
  BY <1>7, <1>8, Zenon DEF DataInv

\* Only Tell and handleData touch data.
LEMMA DataSteps ==
  ASSUME [CrashNext]_vars
  PROVE  \/ told' = told /\ delivered' = delivered /\ datagrams' = datagrams
         \/ \E n, d \in Node, i \in DataId : Tell(n, d, i)
         \/ \E n \in Node : \E m \in datagrams : HandleData(n, m)
<1> DEFINE Same == told' = told /\ delivered' = delivered /\ datagrams' = datagrams
<1>1. ASSUME NEW n \in Node, Heartbeat(n) \/ Restart(n)
      PROVE  Same
  BY SMTT(30), <1>1 DEF Heartbeat, Restart, appVars
<1>2. ASSUME NEW n \in Node, NEW m \in beacons, HandleBeacon(n, m)
      PROVE  Same
  BY <1>2, Zenon DEF HandleBeacon, appVars
<1>3. ASSUME NEW n \in Node, NEW t \in work[n], RespondBeacon(n, t)
      PROVE  Same
  BY <1>3, Zenon DEF RespondBeacon, appVars
<1>4. ASSUME NEW n \in Node, NEW p \in Node, AddPeer(n, p) \/ RemovePeer(n, p)
      PROVE  Same
  BY <1>4, Zenon DEF AddPeer, RemovePeer, appVars
<1>5. ASSUME UNCHANGED vars
      PROVE  Same
  BY SMTT(30), <1>5 DEF vars, appVars
<1> HIDE DEF Same
<1>6. \/ Same
      \/ \E n, d \in Node, i \in DataId : Tell(n, d, i)
      \/ \E n \in Node : \E m \in datagrams : HandleData(n, m)
  BY <1>1, <1>2, <1>3, <1>4, <1>5, Zenon DEF CrashNext, Next, Receive
<1> QED
  BY SMTT(30), <1>6 DEF Same

\* Every step, restarts included, preserves the data invariant.
LEMMA NextDataInv == TypeOK /\ DataInv /\ [CrashNext]_vars => DataInv'
<1> SUFFICES ASSUME TypeOK, DataInv, [CrashNext]_vars
             PROVE  DataInv'
  BY Zenon
<1>1. ASSUME NEW n \in Node, NEW m \in datagrams, HandleData(n, m)
      PROVE  DataInv'
  BY <1>1, HandleDataInv, Zenon
<1>2. ASSUME NEW n \in Node, NEW d \in Node, NEW i \in DataId, Tell(n, d, i)
      PROVE  DataInv'
  BY <1>2, TellInv, Zenon
<1>3. CASE told' = told /\ delivered' = delivered /\ datagrams' = datagrams
  BY <1>3, Zenon DEF DataInv
<1> QED
  BY <1>1, <1>2, <1>3, DataSteps, Zenon

\* Without any data the data invariant holds.
LEMMA InitDataInv == Init => DataInv
BY Zenon DEF Init, DataInv

\* A message in flight is one that was sent, is there once, and has not been
\* delivered, restarts of routers included.
THEOREM DataOnce == CrashSpec => []DataInv
BY InitType, NextType, InitDataInv, NextDataInv, PTL DEF CrashSpec

\* A mesh of any shape, whose routers restart and whose routes and peers
\* change, delivers each message at most once, to its destination, under the
\* address of its sender.
THEOREM MeshIsDatagramService == CrashSpec => ServiceSpec
<1>1. Init => Service!Init
  BY Zenon DEF Init, Service!Init
<1>2. TypeOK /\ DataInv /\ [CrashNext]_vars => [Service!Next]_<<told, delivered>>
  <2> SUFFICES ASSUME TypeOK, DataInv, [CrashNext]_vars
               PROVE  Service!Next \/ (told' = told /\ delivered' = delivered)
    BY Zenon
  <2>1. ASSUME NEW n \in Node, NEW d \in Node, NEW i \in DataId, Tell(n, d, i)
        PROVE  Service!Next
    <3>1. Service!Tell(n, d, i)
      BY <2>1, Zenon DEF Tell, Service!Tell
    <3> QED
      BY <3>1, Zenon DEF Service!Next
  <2>2. ASSUME NEW n \in Node, NEW m \in datagrams, HandleData(n, m)
        PROVE  Service!Next \/ (told' = told /\ delivered' = delivered)
    <3>1. /\ told[m.id] = [src |-> m.src, dst |-> m.dst] /\ delivered[m.id] = <<>>
          /\ m.id \in DataId /\ m.src \in Node /\ m.dst \in Node
      BY Zenon DEF DataInv, TypeOK, DataMsg
    <3>2. CASE m.dst # n
      BY <2>2, <3>2, HandleDataEffect, Zenon
    <3>3. CASE m.dst = n
      <4>1. told[m.id] # NoState
        BY <3>1, BeaconNetAssumption
      <4>2. /\ told' = told
            /\ delivered' = [delivered EXCEPT ![m.id] =
                               Append(@, [at |-> n, src |-> m.src])]
        BY <2>2, <3>3, HandleDataEffect, Zenon
      <4>3. Append(<<>>, [at |-> n, src |-> m.src]) = <<[at |-> n, src |-> m.src]>>
        OBVIOUS
      <4>4. delivered' = [delivered EXCEPT ![m.id] =
                            <<[at |-> told[m.id].dst, src |-> told[m.id].src]>>]
        BY <3>1, <3>3, <4>2, <4>3
      <4>5. Service!Deliver(m.id)
        BY <3>1, <4>1, <4>2, <4>4, Zenon DEF Service!Deliver
      <4> QED
        BY SMTT(30), <3>1, <4>5 DEF Service!Next
    <3> QED
      BY <3>2, <3>3, Zenon
  <2> QED
    BY <2>1, <2>2, DataSteps, Zenon
<1> QED
  BY <1>1, <1>2, InitType, NextType, InitDataInv, NextDataInv, PTL
     DEF CrashSpec, ServiceSpec, Service!Spec

============================================================================
