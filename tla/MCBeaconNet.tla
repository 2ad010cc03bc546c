----------------------------- MODULE MCBeaconNet -----------------------------
(* Small meshes for BeaconNet.                                              *)
EXTENDS BeaconNet

Node3 == 1..3
Line3 == <<{2}, {1, 3}, {2}>>

\* A triangle 2, 3, 4 to which 1 is attached through 2.
Node4 == 1..4
Kite == <<{2}, {1, 3, 4}, {2, 4}, {2, 3}>>

\* A ring, in which 1 and 3, and 2 and 4, are not neighbours.
Ring == <<{2, 4}, {1, 3}, {2, 4}, {1, 3}>>

\* How often each node's clock may advance.
Clock303 == <<3, 0, 3>>
Clock2000 == <<2, 0, 0, 0>>
Clock1100 == <<1, 1, 0, 0>>

\* A mesh that has settled: every node has heard the beacon 0 of every other
\* along a shortest path, and all of those messages are gone.
KiteNext == <<<<1, 2, 2, 2>>, <<1, 2, 3, 4>>, <<2, 2, 3, 4>>, <<2, 2, 3, 4>>>>
RingNext == <<<<1, 2, 2, 4>>, <<1, 2, 3, 1>>, <<2, 2, 3, 4>>, <<1, 1, 3, 4>>>>
WarmNext == IF Link = Ring THEN RingNext ELSE KiteNext

WarmInit ==
  /\ peers = Link
  /\ clock = [n \in Node |-> 0]
  /\ lastCleanup = [n \in Node |-> 0]
  /\ peerStates = [n \in Node |-> [o \in Node |->
       IF n = o THEN NoState ELSE [next |-> WarmNext[n][o], counter |-> 0]]]
  /\ ourBeacon = [n \in Node |-> 0]
  /\ work = [n \in Node |-> {}]
  /\ beacons = {}
  /\ datagrams = {}
  /\ told = [i \in DataId |-> NoState]
  /\ delivered = [i \in DataId |-> <<>>]
  /\ changed = 0
  /\ hops = [n \in Node |-> [o \in Node |->
       IF n = o THEN 0 ELSE IF WarmNext[n][o] = o THEN 1 ELSE 2]]

WarmSpec == WarmInit /\ [][Next]_vars

============================================================================
