SPECIFICATION FairSpec
CONSTANTS
  Peer = {p1}
  Addr = {a1, a2}
  Store = {s1, s2}
  Expire = 1
  Period = 2
  MaxMoves = 2
  MaxBack = 2
  MaxEdits = 2
  None = None
INVARIANTS
  NoMissingAddress
  BoundedStaleness
PROPERTIES
  FindsPeer
