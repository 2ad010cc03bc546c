----------------------------- MODULE MCServices -----------------------------
(* The services of nodes, each by itself: the daemon, the mesh server alone, *)
(* under rcsrv with HTTP handlers (also with Drop), and inet256mem.  In a    *)
(* behaviour one part takes steps and the variables of the others rest.      *)
EXTENDS Daemon

CONSTANTS
  Handle,      \* node objects, of mesh256 and of inet256mem
  MainNode,    \* the main node of mesh256
  Thread,      \* goroutines that call mesh256.Server
  Handler,     \* those that are HTTP handlers
  MaxCount,    \* bound on the references to one node
  DataId,      \* messages of inet256mem
  QueueLen     \* the length of its queues

\* Nodes, goroutines and keys are no nil pointers, and the server has finitely
\* many handlers at a time.
ASSUME ServicesAssumption ==
  /\ None \notin Handle \cup {MainNode} \cup Thread \cup Key
  /\ MainNode \notin Handle
  /\ Handler \subseteq Thread /\ IsFiniteSet(Handler)
  /\ MaxCount \in Nat \ {0} /\ QueueLen \in Nat
  /\ None \notin [src : Key, dst : Key]

VARIABLES
  part,        \* "daemon", "mesh", "http", "drop" or "mem"
  keyOf, meshNodes, memPeers, layers, task, mu, pending, stopped,
  rcNode, count, rcmu, served, at,
  memKeyOf, memNodes, queue, open, target, told, delivered

S == INSTANCE NodeServer WITH nodes <- meshNodes, conn <- served
M == INSTANCE MemService WITH keyOf <- memKeyOf, nodes <- memNodes

serverVars == <<keyOf, meshNodes, memPeers, layers, task, mu, pending, stopped,
                rcNode, count, rcmu, served, at>>
memVars == <<memKeyOf, memNodes, queue, open, target, told, delivered>>

MCInit ==
  /\ part \in {"daemon", "mesh", "http", "drop", "mem"}
  /\ Init /\ S!Init /\ M!Init

\* Two threads suffice where nobody counts references.
MeshAlone ==
  /\ S!MeshNext
  /\ \A t \in Thread \ Handler : task'[t] = None /\ mu' # t
  /\ UNCHANGED <<rcNode, count, rcmu, served, at>>

MCNext ==
  /\ part' = part
  /\ \/ part = "daemon" /\ Next /\ UNCHANGED <<serverVars, memVars>>
     \/ part = "mesh" /\ MeshAlone /\ UNCHANGED <<vars, memVars>>
     \/ part = "http" /\ S!HttpNext /\ UNCHANGED <<vars, memVars>>
     \/ part = "drop" /\ S!Next /\ UNCHANGED <<vars, memVars>>
     \/ part = "mem" /\ M!Next /\ UNCHANGED <<vars, serverVars>>

\* The fairness of the part that takes steps.  The part never changes, so that
\* it is infinitely often what it is.
MCFairness ==
  \/ []<>(part = "daemon") /\ Fairness
  \/ []<>(part = "mesh") /\ S!MeshFairness
  \/ []<>(part \in {"http", "drop"}) /\ S!HttpFairness
  \/ []<>(part = "mem") /\ M!Fairness

MCSpec == MCInit /\ [][MCNext]_<<part, vars, serverVars, memVars>> /\ MCFairness

----------------------------------------------------------------------------
\* mesh256.Server: no node is leaked, and none is closed by two threads at once.
Accounted == S!Accounted

\* mesh256.Server implements the registry of nodes, under each of its callers.
MeshIsRegistry == S!ImplementsRegistry

\* rcsrv: no connection loses its node because another one ends.
ServedIsOpen == part = "http" => S!ServedIsOpen

\* rcsrv, also with Drop: a key never has two nodes that are not closed.
OneIncarnation == part \in {"http", "drop"} => S!OneIncarnation

\* rcsrv, also with Drop: entries are for the nodes below.
EntriesMatch == part \in {"http", "drop"} => S!EntriesMatch

\* inet256mem implements the datagram service.
MemIsService == M!ServiceSpec

\* What is under way ends: Run of the daemon returns unless a client never finishes
\* the body of its request, a node that left the table of mesh256.Server is closed,
\* a handler that closes the last reference returns, and a message that a node of
\* inet256mem accepted is received there.
ServicesSettle ==
  RunReturns /\ S!DroppedIsReleased /\ S!ClosingReturns /\ M!AcceptedArrives

=============================================================================
