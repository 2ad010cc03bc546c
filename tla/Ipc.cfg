SPECIFICATION MCSpec
CONSTANTS
  Interval = 3
  Timeout = 9
  Delay = 5
  Call = {q1}
  Reader = {r1}
  Cap = 1
  Msg <- MCMsg
  MTU = 1
  Loop = {r1, r2}
  Buf = {b1, b2, b3}
  None = None
INVARIANTS
  NoFalseAlarm
  SilenceNoticed
  Intact
PROPERTIES
  ConnectionsEnd
\* The watchdog's error ends its part, and so does a stream that is read; a
\* connection that is over, with nobody calling, does nothing more.
CHECK_DEADLOCK FALSE
