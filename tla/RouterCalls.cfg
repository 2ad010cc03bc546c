SPECIFICATION MCSpec
CONSTANTS
  r2 = r2  a1 = a1  a2 = a2  fa = fa  fab = fab  la = la  lb = lb
  Addr = {a1, a2}
  Peer = {a2}
  FindQuery = {fab}
  LookupQuery = {la, lb}
  Wants <- MCWants
  Call = {c1, c2}
  Reader = {r1, r2}
  MaxData = 1
  None = None
  Error = Error
INVARIANTS
  RightAnswer
  NoLeak
  NoLostWakeup
PROPERTIES
  CallsReturn
\* A closed Network whose calls have returned does nothing more.
CHECK_DEADLOCK FALSE
