------------------------------ MODULE BeaconNet ------------------------------
(****************************************************************************)
(* The beaconnet routing algorithm (networks/beaconnet), run by every node  *)
(* of a mesh over an unreliable one-hop network.                            *)
(*                                                                          *)
(* Each node floods a signed beacon, numbered by its clock, to its peers.   *)
(* A node that hears a beacon of some origin for the first time, or a newer *)
(* one, records the peer it came from as the next hop towards that origin   *)
(* and passes the beacon on.  Data is forwarded along those next hops.      *)
(*                                                                          *)
(* An address stands for its public key (NewID is injective), and a beacon  *)
(* is its origin and counter: every node of the model is genuine, so        *)
(* verifyBeacon succeeds.                                                   *)
(*                                                                          *)
(* A beacon message stays in `beacons' once it is sent, and may be received *)
(* never, late, in any order and again: the transports promise nothing.  A  *)
(* data message leaves `datagrams' when it is received; one that is never   *)
(* received is lost.                                                        *)
(*                                                                          *)
(* Any number of read loops of a node run handleBeacon at the same time.    *)
(* The handler takes the router's lock three times: to update the state     *)
(* about the beacon's origin, to look up the destination of a targeted      *)
(* beacon, and to read our own beacon.  The lookup is atomic with the       *)
(* update, for one that happens later is also the lookup of the same        *)
(* message received again, which no longer updates anything.  The reading   *)
(* of our own beacon is a step of its own; `work' holds the handlers that   *)
(* have still to do it.                                                     *)
(****************************************************************************)
EXTENDS Integers, Sequences, FiniteSets

CONSTANTS
  Node,            \* addresses
  Link,            \* Link[n] : the nodes that may be in n's peer set
  DataId,          \* application messages
  broadcastAddr,   \* the zero address
  NoState,         \* absence of a peerState (a nil *peerState), or of a Tell
  peerStateTTL,    \* in beacon periods
  MaxCounter,      \* MaxCounter[n] : bound on n's clock
  MaxPeerChange    \* bound on the changes of peer sets

PeerState == [next : Node, counter : Nat]

BeaconMsg ==
  [from : Node, to : Node, src : Node, dst : Node \cup {broadcastAddr},
   origin : Node, counter : Nat, hops : Nat]

DataMsg == [from : Node, to : Node, src : Node, dst : Node, id : DataId]

\* A handleBeacon call that has created a peerState and has yet to answer.
Handling == [prev : Node, src : Node, origin : Node]

ASSUME BeaconNetAssumption ==
  /\ Link \in [Node -> SUBSET Node]
  /\ \A n \in Node : n \notin Link[n]
  /\ broadcastAddr \notin Node
  /\ NoState \notin PeerState
  /\ NoState \notin [src : Node, dst : Node]
  /\ peerStateTTL \in Nat \ {0}
  /\ MaxCounter \in [Node -> Nat]
  /\ MaxPeerChange \in Nat

VARIABLES
  peers,         \* peers[n] : n's PeerSet
  clock,         \* clock[n] : the time n last read, in beacon periods
  lastCleanup,   \* lastCleanup[n] : Router.lastCleanup
  peerStates,    \* peerStates[n][d] : what n knows of d
  ourBeacon,     \* ourBeacon[n] : the counter of n's own latest beacon
  work,          \* work[n] : handleBeacon calls in progress at n
  beacons,       \* beacon messages in flight
  datagrams,     \* data messages in flight
  told,          \* told[i] : source and destination of the Tell of i
  delivered,     \* delivered[i] : the OnData calls made for i
  changed,       \* number of peer set changes so far
  hops           \* auxiliary: hops[n][d] is the length of the chain of
                 \* routers along which n's state about d was passed on

routerVars == <<peers, clock, lastCleanup, peerStates, ourBeacon, work, hops>>
appVars    == <<told, delivered>>
vars == <<routerVars, beacons, datagrams, appVars, changed>>

----------------------------------------------------------------------------
Init ==
  /\ peers = Link
  /\ clock = [n \in Node |-> 0]
  /\ lastCleanup = [n \in Node |-> 0]
  /\ peerStates = [n \in Node |-> [d \in Node |-> NoState]]
  /\ ourBeacon = [n \in Node |-> 0]
  /\ work = [n \in Node |-> {}]
  /\ beacons = {}
  /\ datagrams = {}
  /\ told = [i \in DataId |-> NoState]
  /\ delivered = [i \in DataId |-> <<>>]
  /\ changed = 0
  /\ hops = [n \in Node |-> [d \in Node |-> 0]]

----------------------------------------------------------------------------
(* Sending.  Both helpers put the sender's own address in the header, also  *)
(* when they pass on another node's beacon.  The swarm refuses a message to *)
(* an address that is not a peer.                                           *)

broadcast(n, exclude, o, c, h) ==
  {[from |-> n, to |-> p, src |-> n, dst |-> broadcastAddr,
    origin |-> o, counter |-> c, hops |-> h] : p \in peers[n] \ {exclude}}

sendBeacon(n, next, dst, o, c, h) ==
  {[from |-> n, to |-> p, src |-> n, dst |-> dst,
    origin |-> o, counter |-> c, hops |-> h] : p \in peers[n] \cap {next}}

sendData(n, next, src, dst, i) ==
  {[from |-> n, to |-> p, src |-> src, dst |-> dst, id |-> i]
     : p \in peers[n] \cap {next}}

\* multihoming.Swarm drops what comes from an address that is not a peer.
Arrives(n, m) == m.to = n /\ m.from \in peers[n]

----------------------------------------------------------------------------
(* Heartbeat.  A call that comes less than beaconPeriod after the last      *)
(* beacon changes nothing, so only the others are modelled.                 *)

cleanupOnce(n, now) ==
  [d \in Node |->
    IF peerStates[n][d] # NoState /\ now - peerStates[n][d].counter > peerStateTTL
    THEN NoState ELSE peerStates[n][d]]

\* Variant: the other way round, so that old entries do get removed.
CleanupDueForward(n, now) == now - lastCleanup[n] >= peerStateTTL

\* The subtraction is the way round that the code has it.
CleanupDue(n, now) == lastCleanup[n] - now >= peerStateTTL

Heartbeat(n) ==
  LET now == clock[n] + 1
  IN  /\ clock[n] < MaxCounter[n]
      /\ clock' = [clock EXCEPT ![n] = now]
      /\ IF CleanupDue(n, now)
         THEN /\ peerStates' = [peerStates EXCEPT ![n] = cleanupOnce(n, now)]
              /\ lastCleanup' = [lastCleanup EXCEPT ![n] = now]
         ELSE UNCHANGED <<peerStates, lastCleanup>>
      /\ ourBeacon' = [ourBeacon EXCEPT ![n] = now]
      /\ beacons' = beacons \cup broadcast(n, n, n, now, 0)
      /\ UNCHANGED <<peers, work, datagrams, appVars, changed, hops>>

----------------------------------------------------------------------------
(* Beacons from below.                                                      *)

Exists(n, o) == peerStates[n][o] # NoState

\* Variants: a beacon of the same age is news; only the first beacon is.
UpdatedSame(n, o, c) == ~Exists(n, o) \/ c >= peerStates[n][o].counter
UpdatedOnce(n, o, c) == ~Exists(n, o)

\* updatePeerState: is a beacon (o, c) news to n?
Updated(n, o, c) == ~Exists(n, o) \/ c > peerStates[n][o].counter

HandleBeacon(n, m) ==
  LET created == ~Exists(n, m.origin)
      updated == Updated(n, m.origin, m.counter)
      known   == IF updated
                 THEN [peerStates[n] EXCEPT ![m.origin] =
                         [next |-> m.from, counter |-> m.counter]]
                 ELSE peerStates[n]
      h       == IF updated THEN m.hops + 1 ELSE hops[n][m.origin]
  IN  /\ m \in beacons
      /\ Arrives(n, m)
      /\ peerStates' = [peerStates EXCEPT ![n] = known]
      /\ hops' = [hops EXCEPT ![n][m.origin] = h]
      /\ beacons' = beacons \cup
           (IF m.dst = broadcastAddr
            THEN IF updated
                 THEN broadcast(n, m.from, m.origin, m.counter, h)
                 ELSE {}
            ELSE IF known[m.dst] # NoState
                 THEN sendBeacon(n, known[m.dst].next, m.dst, m.origin, m.counter, h)
                 ELSE {})
      /\ work' = [work EXCEPT ![n] = @ \cup
           IF created THEN {[prev |-> m.from, src |-> m.src, origin |-> m.origin]} ELSE {}]
      /\ UNCHANGED <<peers, clock, lastCleanup, ourBeacon, datagrams,
                     appVars, changed>>

\* The first beacon of an origin is answered with our own.
RespondBeacon(n, t) ==
  /\ t \in work[n]
  /\ beacons' = beacons \cup sendBeacon(n, t.prev, t.src, n, ourBeacon[n], 0)
  /\ work' = [work EXCEPT ![n] = @ \ {t}]
  /\ UNCHANGED <<peers, clock, lastCleanup, peerStates, ourBeacon, hops,
                 datagrams, appVars, changed>>

----------------------------------------------------------------------------
(* Data.                                                                    *)

\* HandleAbove.  Network.Tell retries while there is no next hop.  What a node
\* sends to itself goes to its loopback swarm and never comes here.
Tell(n, dst, i) ==
  /\ told[i] = NoState
  /\ dst # n
  /\ dst \in peers[n] \/ Exists(n, dst)
  /\ told' = [told EXCEPT ![i] = [src |-> n, dst |-> dst]]
  /\ datagrams' = datagrams \cup
       sendData(n, IF dst \in peers[n] THEN dst ELSE peerStates[n][dst].next,
                n, dst, i)
  /\ UNCHANGED <<routerVars, beacons, delivered, changed>>

DeliverLocal(n, m) ==
  /\ m.dst = n
  /\ delivered' = [delivered EXCEPT ![m.id] = Append(@, [at |-> n, src |-> m.src])]
  /\ datagrams' = datagrams \ {m}

\* Variant: the header is written anew.
ForwardNeighborNewHeader(n, m) ==
  /\ m.dst # n /\ m.dst \in peers[n]
  /\ datagrams' = (datagrams \ {m}) \cup sendData(n, m.dst, n, m.dst, m.id)
  /\ UNCHANGED delivered

ForwardNeighbor(n, m) ==
  /\ m.dst # n /\ m.dst \in peers[n]
  /\ datagrams' = (datagrams \ {m}) \cup sendData(n, m.dst, m.src, m.dst, m.id)
  /\ UNCHANGED delivered

\* Variant: only neighbours are reached.
ForwardNever(n, m) ==
  /\ m.dst # n /\ m.dst \notin peers[n]
  /\ datagrams' = datagrams \ {m}
  /\ UNCHANGED delivered

\* Without a next hop handleData returns an error and the message is gone.
Forward(n, m) ==
  /\ m.dst # n /\ m.dst \notin peers[n]
  /\ datagrams' = (datagrams \ {m}) \cup
       IF Exists(n, m.dst)
       THEN sendData(n, peerStates[n][m.dst].next, m.src, m.dst, m.id)
       ELSE {}
  /\ UNCHANGED delivered

HandleData(n, m) ==
  /\ m \in datagrams
  /\ Arrives(n, m)
  /\ DeliverLocal(n, m) \/ ForwardNeighbor(n, m) \/ Forward(n, m)
  /\ UNCHANGED <<routerVars, beacons, told, changed>>

----------------------------------------------------------------------------
(* The environment: changes of the peer sets and restarts.                  *)

AddPeer(n, p) ==
  /\ changed < MaxPeerChange
  /\ p \in Link[n] \ peers[n]
  /\ changed' = changed + 1
  /\ peers' = [peers EXCEPT ![n] = @ \cup {p}]
  /\ UNCHANGED <<clock, lastCleanup, peerStates, ourBeacon, work, hops,
                 beacons, datagrams, appVars>>

RemovePeer(n, p) ==
  /\ changed < MaxPeerChange
  /\ p \in peers[n]
  /\ changed' = changed + 1
  /\ peers' = [peers EXCEPT ![n] = @ \ {p}]
  /\ UNCHANGED <<clock, lastCleanup, peerStates, ourBeacon, work, hops,
                 beacons, datagrams, appVars>>

\* A node is dropped and opened again, or its process restarts: a new Router,
\* which Reset fills in.  The wall clock goes on.
Restart(n) ==
  LET now == clock[n] + 1
  IN  /\ clock[n] < MaxCounter[n]
      /\ clock' = [clock EXCEPT ![n] = now]
      /\ lastCleanup' = [lastCleanup EXCEPT ![n] = 0]
      /\ peerStates' = [peerStates EXCEPT ![n] = [d \in Node |-> NoState]]
      /\ hops' = [hops EXCEPT ![n] = [d \in Node |-> 0]]
      /\ ourBeacon' = [ourBeacon EXCEPT ![n] = now]
      /\ work' = [work EXCEPT ![n] = {}]
      /\ UNCHANGED <<peers, beacons, datagrams, appVars, changed>>

----------------------------------------------------------------------------
Receive(n) ==
  \/ \E m \in beacons : HandleBeacon(n, m)
  \/ \E t \in work[n] : RespondBeacon(n, t)
  \/ \E m \in datagrams : HandleData(n, m)

Next ==
  \/ \E n \in Node : Heartbeat(n) \/ Receive(n)
  \/ \E n, d \in Node, i \in DataId : Tell(n, d, i)
  \/ \E n, p \in Node : AddPeer(n, p) \/ RemovePeer(n, p)

CrashNext == Next \/ \E n \in Node : Restart(n)

Spec == Init /\ [][Next]_vars

CrashSpec == Init /\ [][CrashNext]_vars

\* Every beacon of o that is news to its receiver has been received.
Settled(o) ==
  \A m \in beacons : m.origin = o => ~Updated(m.to, o, m.counter)

\* The one-hop network is faster than beaconPeriod.
TimelyNext == Next /\ \A n \in Node : clock'[n] # clock[n] => Settled(n)

\* Timers fire, read loops run and the one-hop network loses nothing.
Fairness ==
  /\ \A n \in Node : WF_vars(Settled(n) /\ Heartbeat(n))
  /\ \A n \in Node : WF_vars(\E t \in work[n] : RespondBeacon(n, t))
  /\ \A n, p \in Node : WF_vars(\E m \in beacons : m.from = p /\ HandleBeacon(n, m))
  /\ \A n \in Node : WF_vars(\E m \in datagrams : HandleData(n, m))

FairSpec == Init /\ [][TimelyNext]_vars /\ Fairness

----------------------------------------------------------------------------
TypeOK ==
  /\ peers \in [Node -> SUBSET Node]
  /\ clock \in [Node -> Nat]
  /\ \A n \in Node : clock[n] <= MaxCounter[n]
  /\ lastCleanup \in [Node -> Nat]
  /\ peerStates \in [Node -> [Node -> PeerState \cup {NoState}]]
  /\ ourBeacon \in [Node -> Nat]
  /\ work \in [Node -> SUBSET Handling]
  /\ beacons \subseteq BeaconMsg
  /\ datagrams \subseteq DataMsg
  /\ told \in [DataId -> [src : Node, dst : Node] \cup {NoState}]
  /\ delivered \in [DataId -> Seq([at : Node, src : Node])]
  /\ changed \in 0..MaxPeerChange
  /\ hops \in [Node -> [Node -> Nat]]

----------------------------------------------------------------------------
(* Why routes are loop free.  Every beacon in flight is backed by the state *)
(* of the router that sent it, and every route by the state of its next     *)
(* hop, in an order that strictly decreases towards the destination: a      *)
(* newer counter, or the same counter and fewer hops.                       *)

\* n knows of o at least as much as a beacon with counter c after h hops says.
Backs(n, o, c, h) ==
  /\ Exists(n, o)
  /\ \/ peerStates[n][o].counter > c
     \/ peerStates[n][o].counter = c /\ hops[n][o] <= h

\* A beacon in flight is not newer than its origin's own, and the router that
\* passed it on still knows at least as much as it says.
BeaconInv ==
  \A m \in beacons :
    /\ m.counter <= ourBeacon[m.origin]
    /\ m.from # m.origin => Backs(m.from, m.origin, m.counter, m.hops)

\* A route is not newer than its destination's own beacon, and its next hop is
\* the destination or knows a strictly better route: updatePeerState never
\* makes a router point at one that knows less.
RouteInv ==
  \A n, d \in Node : Exists(n, d) =>
    /\ peerStates[n][d].counter <= ourBeacon[d]
    /\ hops[n][d] > 0
    /\ peerStates[n][d].next # d =>
         Backs(peerStates[n][d].next, d, peerStates[n][d].counter, hops[n][d] - 1)

\* A message in flight is the only copy, carries what Tell gave, and has not
\* been delivered.
DataInv ==
  /\ \A m \in datagrams :
       /\ told[m.id] = [src |-> m.src, dst |-> m.dst]
       /\ delivered[m.id] = <<>>
       /\ \A m2 \in datagrams : m2.id = m.id => m2 = m
  /\ \A i \in DataId : told[i] = NoState => delivered[i] = <<>>

----------------------------------------------------------------------------
(* Properties.                                                              *)

\* The node to which n passes data for dst on, or n itself if it cannot.
NextHop(n, dst) ==
  IF dst \in peers[n] THEN dst
  ELSE IF Exists(n, dst) THEN peerStates[n][dst].next
  ELSE n

\* Data never goes round in a circle: at every instant, among any routers
\* that would all pass on data for dst and of which none is dst, one passes
\* it to a router outside of that group.  HandleAbove and handleData have no
\* hop limit and rely on it.
NoRoutingLoop ==
  \A dst \in Node : \A S \in SUBSET (Node \ {dst}) :
    S # {} /\ (\A n \in S : NextHop(n, dst) # n)
      => \E n \in S : NextHop(n, dst) \notin S

\* The "cannot forward. don't know next hop" error of handleData does not
\* happen: a data message in flight is on its way to its destination or to a
\* router that knows the destination.
NoBlackHole ==
  \A m \in datagrams : m.to = m.dst \/ Exists(m.to, m.dst)

\* updatePeerState replaces what is known about an origin only on the word of
\* a newer beacon, and nothing else removes it: a late or repeated beacon
\* never redirects a route.
RoutesOnlyGetNewer ==
  [][\A n, o \in Node :
       Exists(n, o) =>
         \/ peerStates'[n][o] = peerStates[n][o]
         \/ /\ peerStates'[n][o] # NoState
            /\ peerStates'[n][o].counter > peerStates[n][o].counter]_vars

\* The mesh provides the datagram service: each message sent with Tell
\* reaches OnData at most once, at its destination, with its true source,
\* whatever becomes of routes, peers and routers meanwhile.
Service == INSTANCE DatagramService
ServiceSpec == Service!Spec

\* In a connected mesh, a node that goes on sending beacons becomes known to
\* every other node.
Convergence ==
  \A o \in Node : []<>(MaxCounter[o] > 0 => \A n \in Node : n = o \/ Exists(n, o))

\* Data that was accepted by HandleAbove reaches its destination, although
\* the routes change under it.
Delivery == \A i \in DataId : []<>(told[i] # NoState => delivered[i] # <<>>)

============================================================================
