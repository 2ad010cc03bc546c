-------------------------- MODULE LinkMonitorProofs --------------------------
(****************************************************************************)
(* Any number of peers, addresses and stores, and any expiry: the monitor's *)
(* two maps agree, and no sighting is used for too long.                    *)
(****************************************************************************)
EXTENDS LinkMonitor, TLAPS

\* The inductive invariant.
LinkInv == TypeOK /\ NoMissingAddress /\ BoundedStaleness

\* What a single sighting has to satisfy.
Age(x, since) == x \in Int \union {None} /\ (x # None /\ x > Expire => x <= Expire + since)

\* The bound on all sightings is the bound on each.
LEMMA BoundByAge ==
  ASSUME TypeOK
  PROVE  BoundedStaleness <=> \A k \in Peer, a \in Addr : Age(sightings[k][a], sinceCleanup)
<1>1. \A k \in Peer, a \in Addr : sightings[k][a] \in Int \union {None}
  BY Zenon DEF TypeOK
<1>2. sinceCleanup \in Nat /\ sinceCleanup <= Period /\ Expire \in Nat /\ Period \in Nat
  BY LinkMonitorAssumption DEF TypeOK
<1>3. ASSUME NEW k \in Peer, NEW a \in Addr, Age(sightings[k][a], sinceCleanup), a \in Seen(k)
      PROVE  /\ sightings[k][a] <= Expire + Period
             /\ sightings[k][a] > Expire => sightings[k][a] <= Expire + sinceCleanup
  <2>1. sightings[k][a] \in Int /\ sightings[k][a] # None
    BY <1>1, <1>3, Zenon DEF Seen
  <2> QED BY <1>2, <1>3, <2>1 DEF Age
<1>4. ASSUME BoundedStaleness, NEW k \in Peer, NEW a \in Addr PROVE Age(sightings[k][a], sinceCleanup)
  BY <1>1, <1>4, Zenon DEF BoundedStaleness, Seen, Age
<1>5. ASSUME \A k \in Peer, a \in Addr : Age(sightings[k][a], sinceCleanup) PROVE BoundedStaleness
  BY <1>3, <1>5, Zenon DEF BoundedStaleness, Seen
<1> QED BY <1>4, <1>5, Zenon

\* The monitor starts without sightings.
LEMMA InitLink == Init => LinkInv
<1> SUFFICES ASSUME Init PROVE LinkInv
  BY Zenon
<1>1. store \in [Store -> [Peer -> (SUBSET Addr) \cup {None}]]
  BY DEF Init
<1>2. /\ sightings \in [Peer -> [Addr -> Int \cup {None}]]
      /\ \A k \in Peer, a \in Addr : sightings[k][a] = None
  BY Zenon DEF Init
<1>3. TypeOK
  BY <1>1, <1>2, LinkMonitorAssumption DEF Init, TypeOK
<1> QED BY <1>2, <1>3, Zenon DEF LinkInv, NoMissingAddress, BoundedStaleness, Seen

\* Mark keeps the two maps in step: a new sighting's address is added.
LEMMA MarkLink ==
  ASSUME LinkInv, NEW p \in Peer, NEW b \in Addr, Mark(p, b)
  PROVE  /\ sightings' \in [Peer -> [Addr -> Int \cup {None}]]
         /\ addrs' \in SUBSET Addr
         /\ \A k \in Peer, a \in Addr : sightings'[k][a] # None => a \in addrs'
         /\ \A k \in Peer, a \in Addr : Age(sightings'[k][a], sinceCleanup)
<1>1. \A k \in Peer, a \in Addr : Age(sightings[k][a], sinceCleanup)
  BY BoundByAge, Zenon DEF LinkInv
<1>2. Age(0, sinceCleanup)
  BY LinkMonitorAssumption DEF Age
<1>3. \A k \in Peer, a \in Addr : sightings[k][a] # None => a \in addrs
  BY Zenon DEF LinkInv, NoMissingAddress, Seen
<1>4. CASE UNCHANGED <<sightings, addrs>>
  BY <1>1, <1>3, <1>4, Zenon DEF LinkInv, TypeOK
<1>5. CASE sightings' = [sightings EXCEPT ![p][b] = 0] /\ addrs' = addrs \cup {b}
  <2>1. sightings' \in [Peer -> [Addr -> Int \cup {None}]] /\ addrs' \in SUBSET Addr
    BY <1>5 DEF LinkInv, TypeOK
  <2>2. \A k \in Peer, a \in Addr :
          \/ sightings'[k][a] = sightings[k][a]
          \/ k = p /\ a = b /\ sightings'[k][a] = 0
    BY <1>5, Zenon DEF LinkInv, TypeOK
  <2> QED BY <1>1, <1>2, <1>3, <1>5, <2>1, <2>2, Zenon
<1> QED BY <1>4, <1>5, Zenon DEF Mark

\* The parts of the invariant give the invariant back.
LEMMA Rejoin ==
  ASSUME TypeOK',
         \A k \in Peer, a \in Addr : sightings'[k][a] # None => a \in addrs',
         \A k \in Peer, a \in Addr : Age(sightings'[k][a], sinceCleanup')
  PROVE  LinkInv'
<1>1. NoMissingAddress'
  BY Zenon DEF NoMissingAddress, Seen
<1>2. \A k \in Peer, a \in Addr : sightings'[k][a] \in Int \union {None}
  BY Zenon DEF TypeOK
<1>3. sinceCleanup' \in Nat /\ sinceCleanup' <= Period /\ Expire \in Nat /\ Period \in Nat
  BY LinkMonitorAssumption DEF TypeOK
<1>4. ASSUME NEW k \in Peer, NEW a \in Addr, sightings'[k][a] # None
      PROVE  /\ sightings'[k][a] <= Expire + Period
             /\ sightings'[k][a] > Expire => sightings'[k][a] <= Expire + sinceCleanup'
  <2>1. sightings'[k][a] \in Int /\ Age(sightings'[k][a], sinceCleanup')
    BY <1>2, <1>4, Zenon
  <2> QED BY <1>3, <1>4, <2>1 DEF Age
<1>5. BoundedStaleness'
  BY <1>4, Zenon DEF BoundedStaleness, Seen
<1> QED BY <1>1, <1>5, Zenon DEF LinkInv

\* Heartbeats and data are received.
LEMMA ReceiveLink ==
  ASSUME LinkInv, NEW msg \in Message, Receive(msg)
  PROVE  LinkInv'
<1>1. /\ UNCHANGED <<store, edits, sinceCleanup, loc, sent, moves, back>>
      /\ net' \in SUBSET Message
      /\ Mark(msg.from, msg.addr) \/ UNCHANGED <<sightings, addrs>>
  BY Zenon DEF Receive, ReceiveHeartbeat, ReceiveData, storeVars, LinkInv, TypeOK
<1>2. msg.from \in Peer /\ msg.addr \in Addr
  BY Zenon DEF Message
<1>3. CASE Mark(msg.from, msg.addr)
  BY <1>1, <1>2, <1>3, MarkLink, Rejoin, Zenon DEF LinkInv, TypeOK
<1>4. CASE UNCHANGED <<sightings, addrs>>
  BY <1>1, <1>4, Zenon DEF LinkInv, TypeOK, NoMissingAddress, BoundedStaleness, Seen
<1> QED BY <1>1, <1>3, <1>4, Zenon

\* cleanupOnce leaves what is not too old.
LEMMA CleanupLink ==
  ASSUME LinkInv, cleanupOnce
  PROVE  LinkInv'
<1>1. UNCHANGED <<store, edits, addrs, loc, net, sent, moves, back>> /\ sinceCleanup' = 0
  BY Zenon DEF cleanupOnce, storeVars, peerVars
<1>2. sightings' \in [Peer -> [Addr -> Int \cup {None}]]
  BY Zenon DEF cleanupOnce, LinkInv, TypeOK
<1>3. ASSUME NEW k \in Peer, NEW a \in Addr
      PROVE  sightings'[k][a] # None => sightings'[k][a] = sightings[k][a] /\ ~ (sightings[k][a] > Expire)
  BY Zenon DEF cleanupOnce
<1>4. \A k \in Peer, a \in Addr : sightings'[k][a] # None => a \in addrs'
  BY <1>1, <1>3, Zenon DEF LinkInv, NoMissingAddress, Seen
<1>5. \A k \in Peer, a \in Addr : Age(sightings'[k][a], sinceCleanup')
  BY <1>2, <1>3, Zenon DEF Age
<1>6. TypeOK'
  BY <1>1, <1>2, LinkMonitorAssumption DEF LinkInv, TypeOK
<1> QED BY <1>4, <1>5, <1>6, Rejoin, Zenon

\* The clock makes all sightings older, or younger, alike.
LEMMA OlderLink ==
  ASSUME LinkInv, NEW d \in Int, sightings' = Older(d)
  PROVE  /\ sightings' \in [Peer -> [Addr -> Int \cup {None}]]
         /\ \A k \in Peer, a \in Addr :
              sightings'[k][a] # None => sightings[k][a] # None /\ sightings[k][a] \in Int /\ sightings'[k][a] = sightings[k][a] + d
<1>1. ASSUME NEW k \in Peer, NEW a \in Addr
      PROVE  /\ sightings[k][a] \in Int \cup {None}
             /\ sightings'[k][a] = IF sightings[k][a] = None THEN None ELSE sightings[k][a] + d
  BY Zenon DEF Older, LinkInv, TypeOK
<1>2. ASSUME NEW k \in Peer, NEW a \in Addr PROVE sightings'[k][a] \in Int \cup {None}
  BY <1>1
<1>3. sightings' \in [Peer -> [Addr -> Int \cup {None}]]
  <2>1. sightings' = [k \in Peer |-> [a \in Addr |-> sightings'[k][a]]]
    BY Zenon DEF Older
  <2> QED BY <1>2, <2>1, Zenon
<1> QED BY <1>1, <1>3, Zenon

\* Time goes on.
LEMMA TickLink ==
  ASSUME LinkInv, Tick
  PROVE  LinkInv'
<1>1. /\ UNCHANGED <<store, edits, addrs, loc, net, moves, back>> /\ sent' = {}
      /\ sinceCleanup < Period /\ sinceCleanup' = sinceCleanup + 1 /\ sightings' = Older(1)
  BY Zenon DEF Tick, storeVars
<1>2. sinceCleanup \in Nat /\ sinceCleanup' \in 0 .. Period /\ Expire \in Nat
  BY <1>1, LinkMonitorAssumption DEF LinkInv, TypeOK
<1>3. /\ sightings' \in [Peer -> [Addr -> Int \cup {None}]]
      /\ \A k \in Peer, a \in Addr :
           sightings'[k][a] # None => sightings[k][a] # None /\ sightings[k][a] \in Int /\ sightings'[k][a] = sightings[k][a] + 1
  BY <1>1, OlderLink
<1>4. \A k \in Peer, a \in Addr : sightings'[k][a] # None => a \in addrs'
  BY <1>1, <1>3, Zenon DEF LinkInv, NoMissingAddress, Seen
<1>5. ASSUME NEW k \in Peer, NEW a \in Addr PROVE Age(sightings'[k][a], sinceCleanup')
  <2>1. sightings'[k][a] \in Int \cup {None}
    BY <1>3, Zenon
  <2>2. CASE sightings'[k][a] # None
    <3>1. Age(sightings[k][a], sinceCleanup)
      BY BoundByAge, Zenon DEF LinkInv
    <3> QED BY <1>1, <1>2, <1>3, <2>1, <2>2, <3>1 DEF Age
  <2> QED BY <2>1, <2>2, Zenon DEF Age
<1>6. TypeOK'
  BY <1>1, <1>2, <1>3, Zenon DEF LinkInv, TypeOK
<1> QED BY <1>4, <1>5, <1>6, Rejoin, Zenon

\* The clock is set back.
LEMMA BackLink ==
  ASSUME LinkInv, NEW d \in 1 .. MaxBack, ClockBack(d)
  PROVE  LinkInv'
<1>1. /\ UNCHANGED <<store, edits, addrs, sinceCleanup, loc, net, sent, moves>>
      /\ back + d <= MaxBack /\ back' = back + d /\ sightings' = Older(0 - d)
  BY Zenon DEF ClockBack, storeVars, peerVars
<1>2. d \in Nat /\ sinceCleanup \in Nat /\ back' \in 0 .. MaxBack /\ Expire \in Nat
  BY <1>1, LinkMonitorAssumption DEF LinkInv, TypeOK
<1>3. /\ sightings' \in [Peer -> [Addr -> Int \cup {None}]]
      /\ \A k \in Peer, a \in Addr :
           sightings'[k][a] # None => sightings[k][a] # None /\ sightings[k][a] \in Int /\ sightings'[k][a] = sightings[k][a] + (0 - d)
  BY <1>1, <1>2, OlderLink
<1>4. \A k \in Peer, a \in Addr : sightings'[k][a] # None => a \in addrs'
  BY <1>1, <1>3, Zenon DEF LinkInv, NoMissingAddress, Seen
<1>5. ASSUME NEW k \in Peer, NEW a \in Addr PROVE Age(sightings'[k][a], sinceCleanup')
  <2>1. sightings'[k][a] \in Int \cup {None}
    BY <1>3, Zenon
  <2>2. CASE sightings'[k][a] # None
    <3>1. Age(sightings[k][a], sinceCleanup)
      BY BoundByAge, Zenon DEF LinkInv
    <3> QED BY <1>1, <1>2, <1>3, <2>1, <2>2, <3>1 DEF Age
  <2> QED BY <2>1, <2>2, Zenon DEF Age
<1>6. TypeOK'
  BY <1>1, <1>2, <1>3, Zenon DEF LinkInv, TypeOK
<1> QED BY <1>4, <1>5, <1>6, Rejoin, Zenon

\* Steps that the monitor does not see.
LEMMA OtherLink ==
  ASSUME LinkInv, UNCHANGED <<sightings, addrs, sinceCleanup>>, TypeOK'
  PROVE  LinkInv'
BY Zenon DEF LinkInv, NoMissingAddress, BoundedStaleness, Seen

\* Discovery, peers and their messages do not touch the monitor.
LEMMA OutsideLink ==
  ASSUME LinkInv,
         \/ \E s \in Store, k \in Peer : Add(s, k) \/ Remove(s, k) \/ \E A \in SUBSET Addr : SetAddrs(s, k, A)
         \/ \E k \in Peer : \/ \E ch \in {"heartbeat", "data"} : Send(k, ch)
                            \/ \E a \in Addr : Move(k, a)
         \/ UNCHANGED vars
  PROVE  LinkInv'
<1>1. ASSUME NEW s \in Store, NEW k \in Peer, NEW v \in (SUBSET Addr) \cup {None}, SetStore(s, k, v)
      PROVE  LinkInv'
  <2>1. store' \in [Store -> [Peer -> (SUBSET Addr) \cup {None}]] /\ edits' \in 0 .. MaxEdits
    BY <1>1, LinkMonitorAssumption DEF SetStore, LinkInv, TypeOK
  <2>2. UNCHANGED <<sightings, addrs, sinceCleanup, loc, net, sent, moves, back>>
    BY <1>1, Zenon DEF SetStore, peerVars
  <2>3. TypeOK'
    BY <2>1, <2>2, Zenon DEF LinkInv, TypeOK
  <2> QED BY <2>2, <2>3, OtherLink, Zenon
<1>2. ASSUME NEW k \in Peer, NEW ch \in {"heartbeat", "data"}, Send(k, ch) PROVE LinkInv'
  <2>1. [from |-> k, addr |-> loc[k], ch |-> ch] \in Message
    BY Zenon DEF Message, LinkInv, TypeOK
  <2>2. TypeOK' /\ UNCHANGED <<sightings, addrs, sinceCleanup>>
    BY <1>2, <2>1 DEF Send, storeVars, LinkInv, TypeOK
  <2> QED BY <2>2, OtherLink, Zenon
<1>3. ASSUME NEW k \in Peer, NEW a \in Addr, Move(k, a) PROVE LinkInv'
  <2>1. TypeOK' /\ UNCHANGED <<sightings, addrs, sinceCleanup>>
    BY <1>3, LinkMonitorAssumption DEF Move, storeVars, LinkInv, TypeOK
  <2> QED BY <2>1, OtherLink, Zenon
<1>4. ASSUME UNCHANGED vars PROVE LinkInv'
  BY <1>4, OtherLink, Zenon DEF vars, LinkInv, TypeOK
<1>5. ASSUME NEW s \in Store, NEW k \in Peer, Add(s, k) \/ Remove(s, k) PROVE LinkInv'
  <2>1. {} \in (SUBSET Addr) \cup {None} /\ None \in (SUBSET Addr) \cup {None}
    BY Zenon
  <2> QED BY <1>1, <1>5, <2>1, Zenon DEF Add, Remove
<1>6. ASSUME NEW s \in Store, NEW k \in Peer, NEW A \in SUBSET Addr, SetAddrs(s, k, A) PROVE LinkInv'
  <2>1. A \in (SUBSET Addr) \cup {None}
    BY Zenon
  <2> QED BY <1>1, <1>6, <2>1, Zenon DEF SetAddrs
<1> QED BY <1>2, <1>3, <1>4, <1>5, <1>6, Zenon

\* The invariant is inductive.
LEMMA LinkInvariant == Spec => []LinkInv
<1>1. LinkInv /\ [Next]_vars => LinkInv'
  BY ReceiveLink, CleanupLink, TickLink, BackLink, OutsideLink, Zenon DEF Next
<1> QED BY <1>1, InitLink, PTL DEF Spec

\* The monitor's state stays well typed.
THEOREM MonitorTypes == Spec => []TypeOK
<1>1. LinkInv => TypeOK
  BY Zenon DEF LinkInv
<1> QED BY <1>1, LinkInvariant, PTL

\* PickAddr never finds a sighting whose address is missing, so it does not
\* panic.
THEOREM PickAddrFindsAddress == Spec => []NoMissingAddress
<1>1. LinkInv => NoMissingAddress
  BY Zenon DEF LinkInv
<1> QED BY <1>1, LinkInvariant, PTL

\* A sighting is used no longer than expireAfter and a cleanup period, also
\* when the clock is set back.
THEOREM SightingsExpire == Spec => []BoundedStaleness
<1>1. LinkInv => BoundedStaleness
  BY Zenon DEF LinkInv
<1> QED BY <1>1, LinkInvariant, PTL

=============================================================================
