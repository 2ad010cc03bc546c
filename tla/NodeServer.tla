------------------------------ MODULE NodeServer ------------------------------
(****************************************************************************)
(* The API of the daemon: inet256http.Server over the reference counts of   *)
(* rcsrv over mesh256.Server.  Each connection is a handler that opens a    *)
(* node, serves it, and closes its reference when it returns.  Handlers of  *)
(* one key share the node.                                                  *)
(*                                                                          *)
(* rcsrv holds its lock while the node below is closed.  Its entries are    *)
(* looked up by address, and its references carry no state: what keeps the  *)
(* counts right is that each handler closes once and nobody calls Drop      *)
(* (ServeHTTP does nothing for DELETE).  Spec has Drop as well.             *)
(****************************************************************************)
EXTENDS MeshServer

CONSTANTS
  Handler,     \* goroutines of the HTTP server
  MaxCount     \* bound on the references to one node

VARIABLES
  rcNode,      \* rcNode[k] : the node of the entry for k
  count,       \* count[k] : its references
  rcmu,        \* the handler that holds rcsrv's lock while it closes a node
  conn,        \* conn[t] : the node that handler t serves
  at           \* at[t] : "idle", "serving", "closing"

vars == <<meshVars, rcNode, count, rcmu, conn, at>>

Init ==
  /\ MeshInit
  /\ rcNode = [k \in Key |-> None]
  /\ count = [k \in Key |-> 0]
  /\ rcmu = None
  /\ conn = [t \in Handler |-> None]
  /\ at = [t \in Handler |-> "idle"]

KeyOfConn(t) == keyOf[conn[t]]

----------------------------------------------------------------------------

\* Variant: a second reference is not counted.
ShareUncounted(t, k) ==
  /\ rcNode[k] # None
  /\ conn' = [conn EXCEPT ![t] = rcNode[k]]
  /\ UNCHANGED <<meshVars, rcNode, count>>

Share(t, k) ==
  /\ rcNode[k] # None
  /\ count[k] < MaxCount
  /\ count' = [count EXCEPT ![k] = @ + 1]
  /\ conn' = [conn EXCEPT ![t] = rcNode[k]]
  /\ UNCHANGED <<meshVars, rcNode>>

\* The first reference opens the node; if that fails there is no entry.
OpenFirst(t, k) ==
  /\ rcNode[k] = None
  /\ \E h \in Handle : /\ Open(k, h)
                       /\ rcNode' = [rcNode EXCEPT ![k] = h]
                       /\ conn' = [conn EXCEPT ![t] = h]
  /\ count' = [count EXCEPT ![k] = 1]

\* A request that does not parse, or whose key is not that of its address, or
\* whose node cannot be opened, ends with an error and changes nothing.
HandleOpen(t, k) ==
  /\ at[t] = "idle"
  /\ rcmu = None
  /\ Share(t, k) \/ OpenFirst(t, k)
  /\ at' = [at EXCEPT ![t] = "serving"]
  /\ UNCHANGED rcmu

\* rcNode.Close when this was not the last reference, or the entry is gone.
Unref(t) ==
  LET k == KeyOfConn(t) IN
  /\ at[t] = "serving"
  /\ rcmu = None
  /\ rcNode[k] = None \/ count[k] > 1
  /\ count' = [count EXCEPT ![k] = IF rcNode[k] = None THEN @ ELSE @ - 1]
  /\ conn' = [conn EXCEPT ![t] = None]
  /\ at' = [at EXCEPT ![t] = "idle"]
  /\ UNCHANGED <<meshVars, rcNode, rcmu>>

\* Variant: the entry is deleted and the lock released before the node closes.
DeleteEarly(t, k) ==
  /\ at' = [at EXCEPT ![t] = "idle"]
  /\ rcNode' = [rcNode EXCEPT ![k] = None]
  /\ UNCHANGED rcmu
  /\ CloseHandle(t, rcNode[k]) \/ (nodes[k] = None /\ UNCHANGED meshVars)

\* delete: the node is closed under rcsrv's lock (DeleteEnd follows).  If the
\* server below was closed there is nothing to close.
DeleteBegin(t, k) ==
  /\ at' = [at EXCEPT ![t] = "closing"]
  /\ rcmu' = t
  /\ UNCHANGED rcNode
  /\ mu = None
  /\ \/ CloseHandle(t, rcNode[k])
     \/ nodes[k] = None /\ UNCHANGED meshVars

\* rcNode.Close of the last reference.
UnrefLast(t) ==
  LET k == KeyOfConn(t) IN
  /\ at[t] = "serving"
  /\ rcmu = None
  /\ rcNode[k] # None /\ count[k] = 1
  /\ count' = [count EXCEPT ![k] = 0]
  /\ DeleteBegin(t, k)
  /\ UNCHANGED conn

\* Variant: the entry of the closed node stays.
DeleteEndKeeps(t) ==
  /\ at[t] = "closing"
  /\ task[t] = None
  /\ rcmu' = None
  /\ conn' = [conn EXCEPT ![t] = None]
  /\ at' = [at EXCEPT ![t] = "idle"]
  /\ UNCHANGED <<meshVars, count, rcNode>>

\* Variant: the lock that the handler holds is taken again.
DeleteEndRelocks(t) ==
  /\ at[t] = "closing"
  /\ rcmu = None
  /\ rcNode' = [rcNode EXCEPT ![KeyOfConn(t)] = None]
  /\ conn' = [conn EXCEPT ![t] = None]
  /\ at' = [at EXCEPT ![t] = "idle"]
  /\ UNCHANGED <<meshVars, count, rcmu>>

DeleteEnd(t) ==
  /\ at[t] = "closing"
  /\ task[t] = None
  /\ rcNode' = [rcNode EXCEPT ![KeyOfConn(t)] = None]
  /\ rcmu' = None
  /\ conn' = [conn EXCEPT ![t] = None]
  /\ at' = [at EXCEPT ![t] = "idle"]
  /\ UNCHANGED <<meshVars, count>>

\* rcsrv.Server.Drop, which no handler calls.
DropAll(t, k) ==
  /\ at[t] = "idle"
  /\ rcmu = None
  /\ rcNode[k] # None
  /\ count' = [count EXCEPT ![k] = 0]
  /\ conn' = [conn EXCEPT ![t] = rcNode[k]]
  /\ DeleteBegin(t, k)

\* The daemon closes the mesh server while handlers may still run.
ServerClose(t) == MeshClose(t) /\ UNCHANGED <<rcNode, count, rcmu, conn, at>>
Closing(t) == CloseLayer(t) /\ UNCHANGED <<rcNode, count, rcmu, conn, at>>

HttpNext ==
  \/ \E t \in Handler : \/ \E k \in Key : HandleOpen(t, k)
                        \/ Unref(t)
                        \/ UnrefLast(t)
                        \/ DeleteEnd(t)
  \/ \E t \in Thread : Closing(t)
  \/ \E t \in Thread \ Handler : ServerClose(t)

Next == HttpNext \/ \E t \in Handler, k \in Key : DropAll(t, k)

HttpSpec == Init /\ [][HttpNext]_vars
Spec == Init /\ [][Next]_vars

\* A handler that is returning, and the closing of nodes, go on.
HttpFairness ==
  /\ \A t \in Thread : WF_vars(Closing(t))
  /\ \A t \in Handler : WF_vars(DeleteEnd(t))
  /\ \A t \in Thread \ Handler : WF_vars(mu = t /\ ServerClose(t))

----------------------------------------------------------------------------
(* Properties.                                                              *)

Serving(k) == {t \in Handler : at[t] = "serving" /\ KeyOfConn(t) = k}

\* Each variable of rcsrv and of the handlers has its type.
TypeOK ==
  /\ MeshTypeOK
  /\ rcNode \in [Key -> Handle \cup {None}]
  /\ count \in [Key -> 0 .. MaxCount]
  /\ rcmu \in Handler \cup {None}
  /\ conn \in [Handler -> Handle \cup {None}]
  /\ at \in [Handler -> {"idle", "serving", "closing"}]

\* The count of an entry is the number of handlers that serve its node, and a
\* node without an entry is served by nobody (Open, rcNode.Close).
RefsCounted ==
  \A k \in Key : /\ count[k] = Cardinality(Serving(k))
                 /\ \A t \in Serving(k) : conn[t] = rcNode[k]

\* No connection loses its node because another one ends: until the server is
\* closed, the node of a handler is in the table and no layer of it is closed.
ServedIsOpen ==
  ~stopped =>
    \A t \in Handler :
      at[t] = "serving" => /\ nodes[KeyOfConn(t)] = conn[t]
                           /\ layers[conn[t]] = 0

\* The server below lets a key be opened while its last node is still closing;
\* under rcsrv's lock a key never has two nodes that are not closed.
OneIncarnation ==
  \A h, g \in Created :
    h # g /\ keyOf[h] = keyOf[g] => layers[h] = Layers \/ layers[g] = Layers

\* Also with Drop: until the server is closed, rcsrv has an entry for exactly
\* the nodes below that are in the table or being closed under its lock.
EntriesMatch ==
  ~stopped =>
    \A k \in Key :
      \/ nodes[k] = rcNode[k]
      \/ nodes[k] = None /\ \E t \in Handler : rcmu = t /\ KeyOfConn(t) = k

\* A handler that closes the last reference returns, also while the daemon
\* closes the server.
ClosingReturns == []<>(\A t \in Handler : at[t] # "closing")

============================================================================
