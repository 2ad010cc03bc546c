SPECIFICATION FairSpec
CONSTANTS
  Call = {q1}
  Reader = {r1}
  Cap = 1
  None = None
PROPERTY CancelReturns
\* A connection that is over, with nobody calling, does nothing more.
CHECK_DEADLOCK FALSE
