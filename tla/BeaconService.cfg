SPECIFICATION MCSpec
CONSTANTS
  Node <- Node4
  Link <- Kite
  DataId = {x}
  broadcastAddr = broadcastAddr
  NoState = NoState
  peerStateTTL = 1
  MaxCounter <- Clock1100
  MaxPeerChange = 0
PROPERTIES
  ServiceSpec
  Converges
  Delivers
\* Clocks are bounded: the model stops when all have run out.
CHECK_DEADLOCK FALSE
