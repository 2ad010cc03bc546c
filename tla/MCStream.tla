------------------------------- MODULE MCStream -------------------------------
(* The parts of inet256ipc below ServeNode and NodeClient: the watchdog's      *)
(* timing, and the stream of frames with two read loops.                       *)
EXTENDS KeepAlive

CONSTANTS Msg, MTU, Loop, Buf, None

VARIABLES
  todo, wmu, left, stream, crashed, rmu, rd, mem, pool, tasks, handled

streamVars == <<todo, wmu, left, stream, crashed, rmu, rd, mem, pool, tasks, handled>>

\* Data without payload, data of one byte more than the largest payload, and a
\* request.
MCMsg ==
  {[type |-> 101, addr |-> <<7, 8>>, data |-> <<>>],
   [type |-> 101, addr |-> <<7, 8>>, data |-> <<9, 9>>],
   [type |-> 103, id |-> 5, body |-> 6]}

F == INSTANCE StreamFramer WITH Reader <- Loop

\* The messages are well formed, and neither they nor the read loops are nil.
ASSUME StreamAssumption == F!WellFormed

\* StreamFramer: what is acted on is what was sent, each message once.
Intact == F!Intact

===============================================================================
