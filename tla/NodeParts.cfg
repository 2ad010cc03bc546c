SPECIFICATION MCSpec
CONSTANTS
  Worker = {w1, w2, w3}
  MaxZeros = 3
  Goal = 2
  CheckEvery = 2
  NoKey = NoKey
  Self = self
  Other = {peer}
  peer = peer
  stranger = stranger
  Input <- MCInput
  Depth = 1
  Sender = {t1, t2}
  Msg = {m1, m2, m3}
  Count = {0, 1, 3}
  Caller = {c1, c2}
  None = None
INVARIANTS
  LoopbackExact
  InOrder
PROPERTIES
  NodePartsReturn
\* MineAddr returns, and a closed queue does nothing more.
CHECK_DEADLOCK FALSE
