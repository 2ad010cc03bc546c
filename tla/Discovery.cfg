SPECIFICATION MCSpec
CONSTANTS
  Peer = {p1}
  Place = {e1, e2}
  self = self
  short = short
  None = None
PROPERTIES
  CentralFinds
  LanFinds
