--------------------------- MODULE MCBeaconService ---------------------------
(* What depends on time and on restarts: the settled Kite without failures,  *)
(* the settled Kite with restarts, and a line of three that starts with      *)
(* empty tables.  A behaviour is one of these; the line has variables of its *)
(* own.                                                                      *)
EXTENDS MCBeaconNet

VARIABLES
  part,        \* "settled", "restarts" or "boot"
  bPeers, bClock, bLastCleanup, bPeerStates, bOurBeacon, bWork, bBeacons,
  bDatagrams, bTold, bDelivered, bChanged, bHops

bVars == <<bPeers, bClock, bLastCleanup, bPeerStates, bOurBeacon, bWork, bBeacons,
           bDatagrams, bTold, bDelivered, bChanged, bHops>>

Boot == INSTANCE BeaconNet WITH
  Node <- Node3, Link <- Line3, MaxCounter <- Clock303, DataId <- {},
  peers <- bPeers, clock <- bClock, lastCleanup <- bLastCleanup,
  peerStates <- bPeerStates, ourBeacon <- bOurBeacon, work <- bWork,
  beacons <- bBeacons, datagrams <- bDatagrams, told <- bTold,
  delivered <- bDelivered, changed <- bChanged, hops <- bHops

MCInit == part \in {"settled", "restarts", "boot"} /\ WarmInit /\ Boot!Init

MCNext ==
  /\ part' = part
  /\ \/ part = "settled" /\ TimelyNext /\ UNCHANGED bVars
     \/ part = "restarts" /\ CrashNext /\ UNCHANGED bVars
     \/ part = "boot" /\ Boot!TimelyNext /\ UNCHANGED vars

\* The fairness of the part that takes steps.  The part never changes, so that
\* it is infinitely often what it is.
MCFairness ==
  \/ []<>(part = "settled") /\ Fairness
  \/ []<>(part = "restarts")
  \/ []<>(part = "boot") /\ Boot!Fairness

MCSpec == MCInit /\ [][MCNext]_<<part, vars, bVars>> /\ MCFairness

----------------------------------------------------------------------------
\* In a connected mesh, a node that goes on sending beacons becomes known to
\* every other node.
Converges == []<>(part = "boot") => Boot!Convergence

\* Data that HandleAbove accepted reaches its destination, unless routers
\* restart, although the routes change under it.
Delivers == []<>(part = "settled") => Delivery

============================================================================
