SPECIFICATION MCSpec
CONSTANTS
  Key = {k1, k2}
  Conn = {c1, c2}
  Disc = {s1, s2}
  Handle = {h1, h2, h3}
  MainNode = MainNode
  Thread = {t1, t2, d}
  Handler = {t1, t2}
  MaxCount = 3
  DataId = {d1, d2}
  QueueLen = 1
  None = None
INVARIANTS
  NothingAfterClose
  Accounted
  ServedIsOpen
  OneIncarnation
  EntriesMatch
PROPERTIES
  MeshIsRegistry
  MemIsService
  ServicesSettle
\* A daemon or a server that was closed does nothing more.
CHECK_DEADLOCK FALSE
