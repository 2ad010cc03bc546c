SPECIFICATION MCSpec
CONSTANTS
  Peer = {p1, p2}
  Endpoint = {e1, e2, e3}
  Foreign = {e2}
  Refused = {e3}
  MaxTime = 1
  MaxRestart = 1
  MaxCalls = 2
  Call = {p1, p2}
  Reader = {r1, r2}
  Cap = 1
  Backend = {r1, r2}
  Entry = {r1, r2}
  Conn = {p1, p2}
  Self = self
  Stranger = {stranger}
  Addr = {a1, a2}
  Short = short
  MaxMove = 0
  None = None
SYMMETRY Symmetry
INVARIANTS
  BookAnnounced
  OneCopy
  CountsExact
  LanBookAnnounced
PROPERTIES
  NeverBack
\* A connection or a frontend that is over does nothing more.
CHECK_DEADLOCK FALSE
