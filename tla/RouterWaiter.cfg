SPECIFICATION FairSpec
CONSTANTS
  r2 = r2  a1 = a1  a2 = a2  fa = fa  fab = fab  la = la  lb = lb
  Addr = {a1, a2}
  Peer = {a2}
  FindQuery = {fa}
  LookupQuery = {}
  Wants <- MCWants
  Call = {c1, c2}
  Reader = {r1}
  MaxData = 0
  None = None
  Error = Error
PROPERTY
  WaiterAnswered
CHECK_DEADLOCK FALSE
