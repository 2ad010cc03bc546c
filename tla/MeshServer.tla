------------------------------ MODULE MeshServer ------------------------------
(****************************************************************************)
(* mesh256.Server: the nodes that clients open and drop beside the main     *)
(* node, and the peer store that tells the main node how to reach them.     *)
(*                                                                          *)
(* Open is one critical section.  Drop takes the node out of the table      *)
(* under the lock and closes it after the lock is released, layer by layer. *)
(* Close closes all nodes under the lock.  A handle (the *node a client     *)
(* holds) keeps only its private key, and its Close is Drop of that key.    *)
(****************************************************************************)
EXTENDS Naturals, FiniteSets

CONSTANTS
  Key,         \* private keys of clients; Open refuses the main node's
  Handle,      \* node objects
  MainNode,    \* the main node
  Thread,      \* goroutines that call the server
  None

Layers == 4

VARIABLES
  keyOf,       \* keyOf[h] : the key of node h, once it is created
  nodes,       \* nodes[k] : the table of open nodes
  memPeers,    \* memPeers[k] : whose swarm mainMemPeers has as the address of k
  layers,      \* layers[h] : how many of its swarms h has closed
  task,        \* task[t] : the node that t is closing
  mu,          \* the thread that holds the lock across steps
  pending,     \* nodes that Close has still to visit
  stopped      \* Close was called

meshVars == <<keyOf, nodes, memPeers, layers, task, mu, pending, stopped>>

MeshInit ==
  /\ keyOf = [h \in Handle |-> None]
  /\ nodes = [k \in Key |-> None]
  /\ memPeers = [k \in Key |-> None]
  /\ layers = [h \in Handle \cup {MainNode} |-> 0]
  /\ task = [t \in Thread |-> None]
  /\ mu = None
  /\ pending = {}
  /\ stopped = FALSE

----------------------------------------------------------------------------

\* Variant: the table is not asked whether the key has a node.
OpenAgain(k, h) ==
  /\ mu = None
  /\ keyOf[h] = None
  /\ keyOf' = [keyOf EXCEPT ![h] = k]
  /\ memPeers' = [memPeers EXCEPT ![k] = h]
  /\ nodes' = [nodes EXCEPT ![k] = h]
  /\ UNCHANGED <<layers, task, mu, pending, stopped>>

\* A key that has a node is refused.  The store may still hold the key (Close
\* leaves it there); SetAddrs replaces its address.
Open(k, h) ==
  /\ mu = None
  /\ nodes[k] = None
  /\ keyOf[h] = None
  /\ keyOf' = [keyOf EXCEPT ![h] = k]
  /\ memPeers' = [memPeers EXCEPT ![k] = h]
  /\ nodes' = [nodes EXCEPT ![k] = h]
  /\ UNCHANGED <<layers, task, mu, pending, stopped>>

\* Variant: the node stays in the table until it is closed.
UnregisterLate(t, k) ==
  /\ mu = None
  /\ task[t] = None
  /\ nodes[k] # None
  /\ memPeers' = [memPeers EXCEPT ![k] = None]
  /\ task' = [task EXCEPT ![t] = nodes[k]]
  /\ UNCHANGED <<keyOf, nodes, layers, mu, pending, stopped>>

\* A key without a node is only logged.  The node is closed by CloseLayer.
Unregister(t, k) ==
  /\ mu = None
  /\ task[t] = None
  /\ nodes[k] # None
  /\ nodes' = [nodes EXCEPT ![k] = None]
  /\ memPeers' = [memPeers EXCEPT ![k] = None]
  /\ task' = [task EXCEPT ![t] = nodes[k]]
  /\ UNCHANGED <<keyOf, layers, mu, pending, stopped>>

Drop(t, k) == Unregister(t, k)

\* Close of a handle goes by its key.
CloseHandle(t, h) ==
  /\ keyOf[h] # None
  /\ Unregister(t, keyOf[h])

\* node.close: topSwarm, network, mhSwarm, transportSwarm.  The main node is
\* the last one that Server.Close closes, and then the lock is released.
CloseLayer(t) ==
  LET h == task[t] IN
  /\ h # None
  /\ layers' = [layers EXCEPT ![h] = @ + 1]
  /\ task' = [task EXCEPT ![t] = IF layers[h] + 1 = Layers THEN None ELSE h]
  /\ mu' = IF h = MainNode /\ layers[h] + 1 = Layers THEN None ELSE mu
  /\ UNCHANGED <<keyOf, nodes, memPeers, pending, stopped>>

CloseBegin(t) ==
  /\ mu = None
  /\ task[t] = None
  /\ ~stopped
  /\ mu' = t
  /\ pending' = {h \in Handle : \E k \in Key : nodes[k] = h}
  /\ stopped' = TRUE
  /\ UNCHANGED <<keyOf, nodes, memPeers, layers, task>>

CloseNode(t, h) ==
  /\ mu = t
  /\ task[t] = None
  /\ h \in pending
  /\ pending' = pending \ {h}
  /\ task' = [task EXCEPT ![t] = h]
  /\ UNCHANGED <<keyOf, nodes, memPeers, layers, mu, stopped>>

\* mainMemPeers keeps the nodes that were open.
CloseMain(t) ==
  /\ mu = t
  /\ task[t] = None
  /\ pending = {}
  /\ nodes' = [k \in Key |-> None]
  /\ task' = [task EXCEPT ![t] = MainNode]
  /\ UNCHANGED <<keyOf, memPeers, layers, mu, pending, stopped>>

MeshClose(t) ==
  \/ CloseBegin(t)
  \/ \E h \in Handle : CloseNode(t, h)
  \/ CloseMain(t)

MeshNext ==
  \/ \E k \in Key, h \in Handle : Open(k, h)
  \/ \E t \in Thread : \/ \E k \in Key : Drop(t, k)
                       \/ \E h \in Handle : CloseHandle(t, h)
                       \/ CloseLayer(t)
                       \/ MeshClose(t)

MeshSpec == MeshInit /\ [][MeshNext]_meshVars

\* A thread that is closing something goes on with it.
MeshFairness ==
  \A t \in Thread :
    WF_meshVars(CloseLayer(t) \/ (mu = t /\ MeshClose(t)))

----------------------------------------------------------------------------
(* Properties.                                                              *)

\* Every variable has its type.
MeshTypeOK ==
  /\ keyOf \in [Handle -> Key \cup {None}]
  /\ nodes \in [Key -> Handle \cup {None}]
  /\ memPeers \in [Key -> Handle \cup {None}]
  /\ layers \in [Handle \cup {MainNode} -> 0 .. Layers]
  /\ task \in [Thread -> Handle \cup {MainNode, None}]
  /\ mu \in Thread \cup {None}
  /\ pending \in SUBSET Handle
  /\ stopped \in BOOLEAN

Created == {h \in Handle : keyOf[h] # None}

\* No node is leaked and none is closed by two threads at once: a node that is
\* not closed yet is in the table under its key, or one thread is closing it,
\* whatever Open, Drop, Close of handles and Close of the server do together.
Accounted ==
  /\ \A h \in Created :
       \/ layers[h] = Layers
       \/ nodes[keyOf[h]] = h
       \/ \E t \in Thread : task[t] = h
  /\ \A t, u \in Thread : task[t] = task[u] => t = u \/ task[t] = None

\* The main node reaches the current node of each key and not an earlier one;
\* until Close it has no other client peers (mainMemPeers follows nodes).
MainReaches ==
  /\ \A k \in Key : nodes[k] # None => memPeers[k] = nodes[k]
  /\ ~stopped => memPeers = nodes

\* The Service interface: mesh256.Server implements NodeRegistry.
Status(h) ==
  IF keyOf[h] = None THEN "new"
  ELSE IF layers[h] = Layers THEN "released"
  ELSE IF nodes[keyOf[h]] = h /\ layers[h] = 0 THEN "open"
  ELSE "dropped"

Registry == INSTANCE NodeRegistry
              WITH owner <- keyOf, status <- [h \in Handle |-> Status(h)]

ImplementsRegistry == Registry!Spec

\* A node that left the table is eventually closed in all its layers, also when
\* the server is closed meanwhile (Drop, Close).
DroppedIsReleased ==
  []<>(\A h \in Handle : Status(h) # "dropped")

============================================================================
