--------------------------- MODULE MCInterleavings ---------------------------
(* Components whose goroutines share stores, buffers and counts, for safety: *)
(* central discovery with two peers, ServeNode and NodeClient of inet256ipc, *)
(* the stream balancer, and the bus of local discovery.  In a behaviour one  *)
(* part takes steps and the variables of the others rest, so that parts can  *)
(* use the same model values.                                                *)
EXTENDS CentralDisco

CONSTANTS
  Call, Reader, Cap,                      \* of inet256ipc
  Backend, Entry, Conn,                   \* of the stream balancer
  Self, Stranger, Addr, Short, MaxMove    \* of local discovery

VARIABLES
  part,        \* "central", "conn", "balancer" or "lan"
  conn, c2s, s2c, srv, sctx, asks, served, nodeUp,
  reader, cka, cctx, closing, call, store, promise,
  backends, fresh, active, lbConn, serve,
  at, moves, packets, run, ctx, bus, buf, handler, lanBook, lanCrashed, lanSaid

connVars == <<conn, c2s, s2c, srv, sctx, asks, served, nodeUp,
              reader, cka, cctx, closing, call, store, promise>>
lbVars == <<backends, fresh, active, lbConn, serve>>
lanVars == <<at, moves, packets, run, ctx, bus, buf, handler, lanBook, lanCrashed, lanSaid>>

I == INSTANCE NodeIPC
B == INSTANCE StreamBalancer WITH Key <- Backend, conn <- lbConn
L == INSTANCE LanDisco WITH book <- lanBook, crashed <- lanCrashed, said <- lanSaid

\* Calls, readers, addresses, messages and packets are no nil pointers, and a
\* balancer serves finitely many connections at a time.
ASSUME InterleavingsAssumption ==
  /\ None \notin Call \cup Reader \cup Addr \cup {"work", "ok", "error"}
  /\ IsFiniteSet(Conn)
  /\ {None, Short} \cap [from : Peer, addr : Addr] = {} /\ None \notin Announcement

\* While they rest, the two kinds of discovery have one state.
MCInit ==
  /\ part \in {"central", "conn", "balancer", "lan"}
  /\ Init /\ I!Init /\ B!Init /\ L!Init
  /\ part # "central" => local = [p \in Peer |-> CHOOSE e \in Endpoint : TRUE]
  /\ part # "lan" => at = [p \in Peer |-> CHOOSE a \in Addr : TRUE]

\* Here the connection is not cut, the node not dropped and ServeNode not
\* cancelled: MCIpc has all three.
ConnNext == I!Next /\ conn' # "cut" /\ nodeUp' /\ ~sctx'

MCNext ==
  /\ part' = part
  /\ \/ part = "central" /\ Next /\ UNCHANGED <<connVars, lbVars, lanVars>>
     \/ part = "conn" /\ ConnNext /\ UNCHANGED <<vars, lbVars, lanVars>>
     \/ part = "balancer" /\ B!Next /\ UNCHANGED <<vars, connVars, lanVars>>
     \/ part = "lan" /\ L!Next /\ UNCHANGED <<vars, connVars, lbVars>>

MCSpec == MCInit /\ [][MCNext]_<<part, vars, connVars, lbVars, lanVars>>

\* The swaps of two elements of S, which generate all of its permutations.
Swaps(S) == {[x \in S |-> IF x = y THEN z ELSE IF x = z THEN y ELSE x] : y, z \in S}
Symmetry == Swaps(Peer) \cup Swaps(Reader)

----------------------------------------------------------------------------
\* inet256ipc: a request is in one place, and is answered at most once.
OneCopy == part = "conn" => I!OneCopy

\* StreamBalancer: each count is the number of goroutines that use the entry.
CountsExact == part = "balancer" => B!CountsExact

\* Local discovery: the store holds for a peer only what that peer announced.
LanBookAnnounced == part = "lan" => L!BookAnnounced

=============================================================================
