------------------------------ MODULE KeepAlive ------------------------------
(****************************************************************************)
(* The keepalives of inet256ipc, in time.  The client sends a frame every   *)
(* Interval; the server's watchdog looks every Timeout whether gotOne was   *)
(* set since it last looked.  A frame arrives within Delay of being sent,   *)
(* and the client's frames arrive in order.                                 *)
(****************************************************************************)
EXTENDS Integers, Sequences

CONSTANTS
  Interval,    \* DefaultKeepAliveInterval
  Timeout,     \* DefaultKeepAliveTimeout
  Delay        \* what the connection and the read loop take at most

ASSUME KeepAliveAssumption ==
  /\ Interval \in Nat \ {0} /\ Timeout \in Nat /\ Delay \in Nat
  /\ Interval + Delay < Timeout

VARIABLES
  ticker,      \* time until the client's ticker fires
  flight,      \* time within which each frame on its way arrives
  alive,       \* the client and its connection work
  gotOne,
  timer,       \* time until the watchdog's timer fires
  watching,    \* the watchdog has not given up on the client
  silent       \* auxiliary: time since the last frame, or since the start

vars == <<ticker, flight, alive, gotOne, timer, watching, silent>>

Init ==
  /\ ticker = Interval
  /\ flight = <<>>
  /\ alive = TRUE
  /\ gotOne = FALSE
  /\ timer = Timeout
  /\ watching = TRUE
  /\ silent = 0

\* Time passes only while nothing is due.
Tick ==
  /\ watching
  /\ timer > 0
  /\ alive => ticker > 0 /\ \A i \in DOMAIN flight : flight[i] > 0
  /\ ticker' = IF alive THEN ticker - 1 ELSE ticker
  /\ flight' = [i \in DOMAIN flight |-> flight[i] - 1]
  /\ timer' = timer - 1
  /\ silent' = silent + 1
  /\ UNCHANGED <<alive, gotOne, watching>>

\* keepAliveLoop: the first frame is sent when the ticker first fires.
ClientTick ==
  /\ alive /\ ticker = 0
  /\ flight' = Append(flight, Delay)
  /\ ticker' = Interval
  /\ UNCHANGED <<alive, gotOne, timer, watching, silent>>

\* The read loop has handled a frame.
Arrive ==
  /\ flight # <<>> /\ watching
  /\ flight' = Tail(flight)
  /\ gotOne' = TRUE
  /\ silent' = 0
  /\ UNCHANGED <<ticker, alive, timer, watching>>

\* Variant: the watchdog does not reset gotOne.
WatchdogKeeps ==
  /\ watching /\ timer = 0
  /\ IF gotOne THEN timer' = Timeout /\ UNCHANGED <<gotOne, watching>>
     ELSE watching' = FALSE /\ UNCHANGED <<gotOne, timer>>
  /\ UNCHANGED <<ticker, flight, alive, silent>>

\* Variant: the timer is reset to the interval of keepalives.
WatchdogInterval ==
  /\ watching /\ timer = 0
  /\ IF gotOne THEN gotOne' = FALSE /\ timer' = Interval /\ UNCHANGED watching
     ELSE watching' = FALSE /\ UNCHANGED <<gotOne, timer>>
  /\ UNCHANGED <<ticker, flight, alive, silent>>

Watchdog ==
  /\ watching /\ timer = 0
  /\ IF gotOne THEN gotOne' = FALSE /\ timer' = Timeout /\ UNCHANGED watching
     ELSE watching' = FALSE /\ UNCHANGED <<gotOne, timer>>
  /\ UNCHANGED <<ticker, flight, alive, silent>>

\* The client's host goes away without closing the connection.
Cut ==
  /\ alive
  /\ alive' = FALSE
  /\ flight' = <<>>
  /\ UNCHANGED <<ticker, gotOne, timer, watching, silent>>

Next == Tick \/ ClientTick \/ Arrive \/ Watchdog \/ Cut

Spec == Init /\ [][Next]_vars

----------------------------------------------------------------------------
(* Properties.                                                              *)

\* The watchdog never gives up on a client that sends its keepalives, however
\* its windows lie to the client's ticks.
NoFalseAlarm == alive => watching

\* A client that has gone silent is given up within two windows: the last frame
\* may have come just after the watchdog looked.
SilenceNoticed == watching => silent <= 2 * Timeout

============================================================================
