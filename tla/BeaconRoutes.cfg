SPECIFICATION WarmSpec
CONSTANTS
  Node <- Node4
  Link <- Ring
  DataId = {x}
  broadcastAddr = broadcastAddr
  NoState = NoState
  peerStateTTL = 1
  MaxCounter <- Clock2000
  MaxPeerChange = 2
INVARIANTS
  NoRoutingLoop
  NoBlackHole
PROPERTIES
  RoutesOnlyGetNewer
\* Clocks and peer changes are bounded: the model stops when both run out.
CHECK_DEADLOCK FALSE
