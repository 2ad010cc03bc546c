-------------------------------- MODULE MCIpc --------------------------------
(* inet256ipc: the watchdog's timing, the loops of ServeNode and NodeClient,  *)
(* and the stream of frames below them.  In a behaviour one part takes steps  *)
(* and the variables of the others rest.                                      *)
EXTENDS MCStream

CONSTANTS Call, Reader, Cap    \* of ServeNode and NodeClient

VARIABLES
  part,        \* "clock", "conn" or "stream"
  conn, c2s, s2c, srv, sctx, asks, served, nodeUp,
  reader, cka, cctx, closing, call, store, promise

connVars == <<conn, c2s, s2c, srv, sctx, asks, served, nodeUp,
              reader, cka, cctx, closing, call, store, promise>>

I == INSTANCE NodeIPC

MCInit == part \in {"clock", "conn", "stream"} /\ Init /\ I!Init /\ F!Init

MCNext ==
  /\ part' = part
  /\ \/ part = "clock" /\ Next /\ UNCHANGED <<connVars, streamVars>>
     \/ part = "conn" /\ I!Next /\ UNCHANGED <<vars, streamVars>>
     \/ part = "stream" /\ F!Next /\ UNCHANGED <<vars, connVars>>

\* The fairness of the part that takes steps.  The part never changes, so that
\* it is infinitely often what it is.
MCFairness == []<>(part # "conn") \/ ([]<>(part = "conn") /\ I!Fairness)

MCSpec == MCInit /\ [][MCNext]_<<part, vars, connVars, streamVars>> /\ MCFairness

----------------------------------------------------------------------------
\* inet256ipc: ServeNode returns when it can learn that the client closed, Close of
\* the client returns, and so does a call while the connection and the server stay
\* up, the node answers and the application receives.
ConnectionsEnd == I!ServeEnds /\ I!ClientCloses /\ I!CallReturns

=============================================================================
