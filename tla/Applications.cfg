SPECIFICATION MCSpec
CONSTANTS
  ByteBits = 2
  WordBits = 3
  AddrBytes = 3
  IPBytes = 2
  NetBytes <- MCNetBytes
  NetBits = 1
  CountBits = 2
  Node <- MCNode
  Outside <- MCOutside
  Allowed <- MCAllowed
  TTL = 1
  Interval = 1
  Conn = {x1}
  Key = {k1, k2}
  entry = entry
  c1 = c1
  c2 = c2
  Call = {c1, c2}
  Name <- MCName
  Kind <- MCKind
  Elem <- MCElem
  Server <- MCServer
  Roots <- MCRoots
  Redirects <- MCRedirects
  Records <- MCRecords
  Custom <- MCCustom
  MaxHops = 3
  DefaultHops = 4
  root = root
  mid = mid
  two = two
  leaf = leaf
  odd = odd
  ring = ring
  Bad = Bad
  None = None
INVARIANTS
  Belongs
  FreshEnough
  BitsAgree
  ChainOfTrust
PROPERTIES
  ApplicationsSettle
\* Resolutions end, and so do frontends.
CHECK_DEADLOCK FALSE
