---------------------------- MODULE ServicesProofs ----------------------------
(****************************************************************************)
(* The services of nodes, for any number of keys, nodes, goroutines,        *)
(* clients and messages: mesh256.Server by itself and under rcsrv and the   *)
(* HTTP handlers (S), inet256mem (M), and the daemon.                       *)
(****************************************************************************)
EXTENDS MCServices, Sequences, FiniteSetTheorems, TLAPS

----------------------------------------------------------------------------
(* mesh256.Server.                                                          *)

\* The table is right: a node in it has its key, and while nobody holds the lock
\* across steps, no layer of it is closed and nobody closes it.
Table ==
  \A k \in Key : meshNodes[k] # None =>
    /\ keyOf[meshNodes[k]] = k
    /\ mu = None => /\ layers[meshNodes[k]] = 0
                    /\ \A t \in Thread : task[t] # meshNodes[k]

\* What a thread closes was created, is closed by no other and is not closed yet.
Tasks ==
  /\ \A h \in Handle : keyOf[h] = None => layers[h] = 0
  /\ \A t \in Thread : task[t] # None =>
       /\ layers[task[t]] < S!Layers
       /\ task[t] # MainNode => keyOf[task[t]] # None
       /\ \A u \in Thread : task[u] = task[t] => u = t

\* The progress of Close: the nodes it has still to visit are in the table and
\* untouched, those it has visited are closed or being closed, and the main node
\* comes last, when the table is empty.
ClosePhase ==
  /\ mu = None => pending = {}
  /\ mu # None => stopped
  /\ ~stopped => layers[MainNode] = 0
  /\ \A t \in Thread : task[t] = MainNode => mu = t
  /\ mu # None =>
       /\ task[mu] # MainNode => layers[MainNode] = 0
       /\ task[mu] = MainNode => pending = {} /\ \A k \in Key : meshNodes[k] = None
       /\ task[mu] \in Handle => meshNodes[keyOf[task[mu]]] = task[mu]
       /\ \A h \in pending : /\ layers[h] = 0 /\ keyOf[h] # None
                             /\ meshNodes[keyOf[h]] = h
                             /\ \A t \in Thread : task[t] # h
       /\ \A k \in Key : meshNodes[k] # None =>
            \/ meshNodes[k] \in pending
            \/ task[mu] = meshNodes[k]
            \/ layers[meshNodes[k]] = S!Layers

\* No node is leaked.
NotLeaked ==
  \A h \in Handle : keyOf[h] # None =>
    \/ layers[h] = S!Layers
    \/ meshNodes[keyOf[h]] = h
    \/ \E t \in Thread : task[t] = h

\* The inductive invariant of mesh256's table of nodes.
MeshInv == S!MeshTypeOK /\ Table /\ Tasks /\ ClosePhase /\ NotLeaked

\* The invariant holds in a new server.
LEMMA MeshInit == S!MeshInit => MeshInv
<1> SUFFICES ASSUME S!MeshInit PROVE MeshInv
  BY Zenon
<1> USE DEF S!MeshInit, S!Layers
<1>1. keyOf \in [Handle -> Key \cup {None}]
  BY Zenon
<1>2. meshNodes \in [Key -> Handle \cup {None}] /\ memPeers \in [Key -> Handle \cup {None}]
  BY Zenon
<1>3. layers \in [Handle \cup {MainNode} -> 0 .. S!Layers]
  OBVIOUS
<1>4. task \in [Thread -> Handle \cup {MainNode, None}]
  BY Zenon
<1>5. mu \in Thread \cup {None} /\ pending \in SUBSET Handle /\ stopped \in BOOLEAN
  BY Zenon
<1>6. S!MeshTypeOK
  BY <1>1, <1>2, <1>3, <1>4, <1>5, Zenon DEF S!MeshTypeOK
<1>7. Table /\ NotLeaked
  BY Zenon DEF Table, NotLeaked
<1>8. Tasks
  BY Zenon DEF Tasks
<1>9. ClosePhase
  BY ServicesAssumption, Zenon DEF ClosePhase
<1> QED
  BY <1>6, <1>7, <1>8, <1>9, Zenon DEF MeshInv

\* Open puts a node that was never used under a key that has none.
LEMMA OpenKeeps ==
  ASSUME MeshInv, NEW k \in Key, NEW h \in Handle, S!Open(k, h)
  PROVE  MeshInv'
<1> USE ServicesAssumption DEF MeshInv, S!Open, S!Layers
<1>1. S!MeshTypeOK'
  BY Zenon DEF S!MeshTypeOK
<1>2. Table'
  BY DEF Table, Tasks, S!MeshTypeOK
<1>3. Tasks'
  BY Zenon DEF Tasks, S!MeshTypeOK
<1>4. ClosePhase'
  BY Zenon DEF ClosePhase, S!MeshTypeOK
<1>5. NotLeaked'
  BY DEF NotLeaked, S!MeshTypeOK
<1> QED
  BY <1>1, <1>2, <1>3, <1>4, <1>5, Zenon

\* Drop, and Close of a handle, take a node out of the table, and the thread that
\* does so closes it.
LEMMA UnregisterKeeps ==
  ASSUME MeshInv, NEW t \in Thread, NEW k \in Key, S!Unregister(t, k)
  PROVE  MeshInv'
<1> USE ServicesAssumption DEF MeshInv, S!Unregister, S!Layers
<1>1. S!MeshTypeOK'
  BY Zenon DEF S!MeshTypeOK
<1>2. Table'
  BY DEF Table, S!MeshTypeOK
<1>3. Tasks'
  BY DEF Tasks, Table, S!MeshTypeOK
<1>4. ClosePhase'
  BY Zenon DEF ClosePhase, S!MeshTypeOK
<1>5. NotLeaked'
  BY DEF NotLeaked, Table, S!MeshTypeOK
<1> QED
  BY <1>1, <1>2, <1>3, <1>4, <1>5, Zenon

\* A layer is closed by the thread whose task the node is.
LEMMA CloseLayerKeeps ==
  ASSUME MeshInv, NEW t \in Thread, S!CloseLayer(t)
  PROVE  MeshInv'
<1>1. PICK h \in Handle \cup {MainNode} :
        /\ h = task[t] /\ h # None /\ layers[h] < S!Layers /\ (h # MainNode => keyOf[h] # None)
        /\ \A u \in Thread : task[u] = h => u = t
  BY ServicesAssumption, Zenon DEF MeshInv, S!CloseLayer, S!MeshTypeOK, Tasks
<1>2. /\ layers \in [Handle \cup {MainNode} -> 0 .. S!Layers]
      /\ task \in [Thread -> Handle \cup {MainNode, None}]
  BY Zenon DEF MeshInv, S!MeshTypeOK
<1>3. layers[h] + 1 \in 0 .. S!Layers /\ (layers[h] + 1 # S!Layers => layers[h] + 1 < S!Layers)
  BY <1>1, <1>2 DEF S!Layers
<1>4. /\ layers' = [layers EXCEPT ![h] = layers[h] + 1]
      /\ task' = [task EXCEPT ![t] = IF layers[h] + 1 = S!Layers THEN None ELSE h]
      /\ mu' = IF h = MainNode /\ layers[h] + 1 = S!Layers THEN None ELSE mu
      /\ UNCHANGED <<keyOf, meshNodes, memPeers, pending, stopped>>
  BY <1>1, Zenon DEF S!CloseLayer
<1>5. /\ layers'[h] = layers[h] + 1
      /\ \A g \in Handle \cup {MainNode} : g # h => layers'[g] = layers[g]
      /\ \A u \in Thread : u # t => task'[u] = task[u]
      /\ task'[t] = IF layers'[h] = S!Layers THEN None ELSE h
  BY <1>2, <1>4, Zenon
<1>6. S!MeshTypeOK'
  BY <1>2, <1>3, <1>4, Zenon DEF MeshInv, S!MeshTypeOK
<1>7. Table'
  <2>1. mu # None /\ mu' = None => \A k \in Key : meshNodes[k] = None
    BY <1>1, <1>4, ServicesAssumption, Zenon DEF MeshInv, ClosePhase
  <2> SUFFICES ASSUME NEW k \in Key, meshNodes'[k] # None
               PROVE  /\ keyOf'[meshNodes'[k]] = k
                      /\ mu' = None => /\ layers'[meshNodes'[k]] = 0
                                       /\ \A u \in Thread : task'[u] # meshNodes'[k]
    BY Zenon DEF Table
  <2>2. meshNodes' = meshNodes /\ keyOf' = keyOf /\ meshNodes[k] # None
    BY <1>4, Zenon
  <2>3. keyOf[meshNodes[k]] = k /\ meshNodes[k] \in Handle
    <3>1. Table /\ meshNodes \in [Key -> Handle \cup {None}]
      BY Zenon DEF MeshInv, S!MeshTypeOK
    <3> QED  BY <2>2, <3>1, Zenon DEF Table
  <2>4. ASSUME mu' = None
        PROVE  layers[meshNodes[k]] = 0 /\ \A u \in Thread : task[u] # meshNodes[k]
    <3>1. mu = None /\ Table
      BY <2>1, <2>4, <2>2, Zenon DEF MeshInv
    <3> QED  BY <2>2, <3>1, Zenon DEF Table
  <2>5. \A u \in Thread : task'[u] \in {task[u], None}
    BY <1>1, <1>5, Zenon
  <2> QED  BY <1>1, <1>5, <2>2, <2>3, <2>4, <2>5, Zenon
<1>8. Tasks'
  <2>1. \A g \in Handle : keyOf'[g] = None => layers'[g] = 0
    <3>1. \A g \in Handle : keyOf[g] = None => g # h /\ layers[g] = 0
      BY <1>1, ServicesAssumption, Zenon DEF MeshInv, Tasks
    <3> QED  BY <1>4, <1>5, <3>1, Zenon
  <2>2. ASSUME NEW u \in Thread, task'[u] # None
        PROVE  /\ task[u] = task'[u]
               /\ layers'[task'[u]] < S!Layers
    <3>1. CASE u = t
      BY <1>1, <1>3, <1>5, <2>2, <3>1, Zenon
    <3>2. CASE u # t
      <4>1. task'[u] = task[u] /\ task[u] # h /\ task[u] \in Handle \cup {MainNode}
        BY <1>1, <1>2, <1>5, <2>2, <3>2, Zenon
      <4> QED  BY <1>5, <2>2, <4>1, Zenon DEF MeshInv, Tasks
    <3> QED  BY <3>1, <3>2, Zenon
  <2>3. ASSUME NEW u \in Thread, task'[u] # None
        PROVE  task'[u] # MainNode => keyOf'[task'[u]] # None
    BY <1>4, <2>2, <2>3, Zenon DEF MeshInv, Tasks
  <2>4. ASSUME NEW u \in Thread, task'[u] # None, NEW v \in Thread, task'[v] = task'[u]
        PROVE  v = u
    <3>1. task[u] = task'[u] /\ task[v] = task'[v]
      BY <2>2, <2>4, Zenon
    <3> QED  BY <2>4, <3>1, Zenon DEF MeshInv, Tasks
  <2> QED  BY <2>1, <2>2, <2>3, <2>4, Zenon DEF Tasks
<1>9. ClosePhase'
  <2>1. ClosePhase /\ (task[t] = MainNode => mu = t) /\ mu \in Thread \cup {None}
    BY <1>1, Zenon DEF MeshInv, ClosePhase, S!MeshTypeOK
  <2>2. \A u \in Thread : task'[u] \in {task[u], None}
    BY <1>1, <1>5, Zenon
  <2>3. CASE mu' # mu
    <3>1. h = MainNode /\ mu = t /\ mu' = None /\ layers'[h] = S!Layers
      BY <1>1, <1>4, <1>5, <2>1, <2>3, Zenon
    <3>2. pending = {} /\ stopped
      BY <1>1, <2>1, <3>1, ServicesAssumption, Zenon DEF ClosePhase
    <3>3. \A u \in Thread : task'[u] # MainNode
      BY <1>1, <1>5, <3>1, Zenon
    <3> QED  BY <1>4, <3>1, <3>2, <3>3, Zenon DEF ClosePhase
  <2>4. CASE mu' = mu
    <3>1. (h = MainNode => stopped /\ mu = t /\ task'[t] = MainNode) /\ t # None
      <4>1. t # None
        BY ServicesAssumption, Zenon
      <4>2. h = MainNode => mu = t /\ stopped
        BY <1>1, <2>1, <4>1, Zenon DEF ClosePhase
      <4>3. h = MainNode => layers[h] + 1 # S!Layers
        BY <1>4, <2>4, <4>1, <4>2, Zenon
      <4> QED  BY <1>5, <4>1, <4>2, <4>3, Zenon
    <3>2. ~stopped => layers'[MainNode] = 0
      BY <1>5, <2>1, <3>1, Zenon DEF ClosePhase
    <3>3. ASSUME mu # None
          PROVE  /\ task'[mu] # MainNode => layers'[MainNode] = 0
                 /\ task'[mu] = MainNode => pending = {} /\ \A k \in Key : meshNodes[k] = None
                 /\ task'[mu] \in Handle => meshNodes[keyOf[task'[mu]]] = task'[mu]
      <4>1. mu \in Thread /\ task'[mu] \in {task[mu], None}
        BY <2>1, <2>2, <3>3, Zenon
      <4>2. task'[mu] # MainNode => layers'[MainNode] = 0
        <5>1. CASE h = MainNode
          BY <3>1, <5>1, Zenon
        <5>2. CASE h # MainNode
          <6>1. task[mu] # MainNode => layers[MainNode] = 0
            BY <2>1, <3>3, Zenon DEF ClosePhase
          <6>2. ASSUME task'[mu] # MainNode PROVE task[mu] # MainNode
            BY <1>1, <1>5, <4>1, <5>2, <6>2, Zenon
          <6> QED  BY <1>5, <5>2, <6>1, <6>2, Zenon
        <5> QED  BY <5>1, <5>2, Zenon
      <4> QED  BY <2>1, <3>3, <4>1, <4>2, ServicesAssumption, Zenon DEF ClosePhase
    <3>4. ASSUME mu # None, NEW g \in pending
          PROVE  /\ layers'[g] = 0 /\ keyOf[g] # None /\ meshNodes[keyOf[g]] = g
                 /\ \A u \in Thread : task'[u] # g
      <4>1. /\ layers[g] = 0 /\ keyOf[g] # None /\ meshNodes[keyOf[g]] = g
            /\ \A u \in Thread : task[u] # g
        BY <2>1, <3>4, Zenon DEF ClosePhase
      <4>2. g # h /\ g \in Handle /\ g # None
        BY <1>1, <4>1, ServicesAssumption, Zenon DEF MeshInv, S!MeshTypeOK
      <4> QED  BY <1>5, <2>2, <4>1, <4>2, Zenon
    <3>5. ASSUME mu # None, NEW k \in Key, meshNodes[k] # None
          PROVE  meshNodes[k] \in pending \/ task'[mu] = meshNodes[k] \/ layers'[meshNodes[k]] = S!Layers
      <4>1. \/ meshNodes[k] \in pending \/ task[mu] = meshNodes[k]
            \/ layers[meshNodes[k]] = S!Layers
        BY <2>1, <3>5, Zenon DEF ClosePhase
      <4>2. meshNodes[k] \in Handle /\ mu \in Thread
        BY <2>1, <3>5, Zenon DEF MeshInv, S!MeshTypeOK
      <4>3. layers[h] # S!Layers
        BY <1>1, <1>2 DEF S!Layers
      <4> QED  BY <1>1, <1>5, <4>1, <4>2, <4>3, Zenon
    <3>6. \A u \in Thread : task'[u] = MainNode => mu = u
      BY <2>1, <2>2, ServicesAssumption, Zenon DEF ClosePhase
    <3>7. (mu = None => pending = {}) /\ (mu # None => stopped)
      BY <2>1, Zenon DEF ClosePhase
    <3> QED  BY <1>4, <2>4, <3>2, <3>3, <3>4, <3>5, <3>6, <3>7, ZenonT(40) DEF ClosePhase
  <2> QED  BY <2>3, <2>4, Zenon
<1>10. NotLeaked'
  <2>1. ASSUME NEW g \in Handle, keyOf[g] # None
        PROVE  layers'[g] = S!Layers \/ meshNodes[keyOf[g]] = g \/ \E u \in Thread : task'[u] = g
    <3>1. CASE g = h
      BY <1>5, <3>1, Zenon
    <3>2. CASE g # h
      BY <1>1, <1>5, <2>1, <3>2, Zenon DEF MeshInv, NotLeaked
    <3> QED  BY <3>1, <3>2, Zenon
  <2> QED  BY <1>4, <2>1, Zenon DEF NotLeaked
<1> QED
  BY <1>6, <1>7, <1>8, <1>9, <1>10, Zenon DEF MeshInv

\* Close takes the lock, visits the nodes of the table, clears it and goes on with
\* the main node.
LEMMA MeshCloseKeeps ==
  ASSUME MeshInv, NEW t \in Thread, S!MeshClose(t)
  PROVE  MeshInv'
<1> USE ServicesAssumption DEF MeshInv, S!Layers
<1>1. CASE S!CloseBegin(t)
  <2> USE <1>1 DEF S!CloseBegin
  <2>1. S!MeshTypeOK'
    BY Zenon DEF S!MeshTypeOK
  <2>2. Table' /\ Tasks' /\ NotLeaked'
    BY Zenon DEF Table, Tasks, NotLeaked, S!MeshTypeOK
  <2>3. ClosePhase'
    BY DEF ClosePhase, S!MeshTypeOK, Table, Tasks
  <2> QED
    BY <2>1, <2>2, <2>3, Zenon
<1>2. ASSUME NEW h \in Handle, S!CloseNode(t, h)
      PROVE  MeshInv'
  <2> USE <1>2 DEF S!CloseNode
  <2>1. S!MeshTypeOK'
    BY Zenon DEF S!MeshTypeOK
  <2>2. Table' /\ NotLeaked'
    BY DEF Table, NotLeaked, S!MeshTypeOK
  <2>3. Tasks'
    BY DEF Tasks, S!MeshTypeOK, ClosePhase
  <2>4. ClosePhase'
    BY DEF ClosePhase, S!MeshTypeOK
  <2> QED
    BY <2>1, <2>2, <2>3, <2>4, Zenon
<1>3. CASE S!CloseMain(t)
  <2> USE <1>3 DEF S!CloseMain
  <2>1. S!MeshTypeOK'
    BY Zenon DEF S!MeshTypeOK
  <2>2. Table' /\ NotLeaked'
    BY DEF Table, NotLeaked, S!MeshTypeOK, ClosePhase
  <2>3. Tasks'
    BY DEF Tasks, S!MeshTypeOK, ClosePhase
  <2>4. ClosePhase'
    BY DEF ClosePhase, S!MeshTypeOK
  <2> QED
    BY <2>1, <2>2, <2>3, <2>4, Zenon
<1> QED
  BY <1>1, <1>2, <1>3, Zenon DEF S!MeshClose

\* Every step of the server keeps the invariant.
LEMMA MeshStep == MeshInv /\ [S!MeshNext]_S!meshVars => MeshInv'
<1> SUFFICES ASSUME MeshInv, [S!MeshNext]_S!meshVars PROVE MeshInv'
  BY Zenon
<1>1. ASSUME NEW k \in Key, NEW h \in Handle, S!Open(k, h) PROVE MeshInv'
  BY <1>1, OpenKeeps, Zenon
<1>2. ASSUME NEW t \in Thread, NEW k \in Key, S!Drop(t, k) PROVE MeshInv'
  BY <1>2, UnregisterKeeps, Zenon DEF S!Drop
<1>3. ASSUME NEW t \in Thread, NEW h \in Handle, S!CloseHandle(t, h) PROVE MeshInv'
  <2>1. keyOf[h] \in Key
    BY <1>3, Zenon DEF S!CloseHandle, MeshInv, S!MeshTypeOK
  <2> QED
    BY <2>1, <1>3, UnregisterKeeps, Zenon DEF S!CloseHandle
<1>4. ASSUME NEW t \in Thread, S!CloseLayer(t) PROVE MeshInv'
  BY <1>4, CloseLayerKeeps, Zenon
<1>5. ASSUME NEW t \in Thread, S!MeshClose(t) PROVE MeshInv'
  BY <1>5, MeshCloseKeeps, Zenon
<1>6. CASE UNCHANGED S!meshVars
  BY <1>6, Zenon DEF S!meshVars, MeshInv, S!MeshTypeOK, Table, Tasks, ClosePhase, NotLeaked
<1> QED
  BY <1>1, <1>2, <1>3, <1>4, <1>5, <1>6, Zenon DEF S!MeshNext

\* Accounted: a node that is not closed yet is in the table under its key or is
\* being closed, and by one thread only, whatever Open, Drop, Close of handles and
\* Close of the server do together.
THEOREM NoNodeIsLeaked == S!MeshSpec => []Accounted
<1>1. MeshInv => Accounted
  BY Zenon DEF MeshInv, Tasks, NotLeaked, Accounted, S!Accounted, S!Created
<1> QED
  BY <1>1, MeshInit, MeshStep, PTL DEF S!MeshSpec

----------------------------------------------------------------------------
(* mesh256.Server as a registry of nodes.                                   *)

\* Opening.
LEMMA OpenRegisters ==
  ASSUME MeshInv, NEW k \in Key, NEW h \in Handle, S!Open(k, h)
  PROVE  S!Registry!Open(k, h)
<1> USE ServicesAssumption DEF S!Open, S!Layers, MeshInv
<1>1. \A g \in Handle : g # h => S!Status(g)' = S!Status(g)
  BY Zenon DEF S!Status, S!MeshTypeOK, Tasks
<1>2. S!Status(h) = "new" /\ S!Status(h)' = "open"
  BY DEF S!Status, S!MeshTypeOK, Tasks
<1>3. \A g \in Handle : keyOf[g] = k => S!Status(g) # "open"
  BY Zenon DEF S!Status, S!MeshTypeOK
<1> QED
  BY <1>1, <1>2, <1>3, Zenon DEF S!Registry!Open

\* Drop takes an open node away.
LEMMA UnregisterDrops ==
  ASSUME MeshInv, NEW t \in Thread, NEW k \in Key, S!Unregister(t, k)
  PROVE  \E h \in Handle : S!Registry!Drop(h)
<1> USE ServicesAssumption DEF S!Unregister, S!Layers, MeshInv
<1>1. PICK h \in Handle : h = meshNodes[k]
  BY Zenon DEF S!MeshTypeOK
<1>2. keyOf[h] = k /\ layers[h] = 0
  BY <1>1, Zenon DEF Table
<1>3. \A g \in Handle : g # h => S!Status(g)' = S!Status(g)
  BY <1>1, Zenon DEF S!Status, S!MeshTypeOK
<1>4. S!Status(h) = "open" /\ S!Status(h)' = "dropped"
  BY <1>1, <1>2 DEF S!Status, S!MeshTypeOK
<1>5. S!Registry!Drop(h)
  BY <1>3, <1>4, Zenon DEF S!Registry!Drop
<1> QED
  BY <1>5, Zenon

\* The first layer that Close closes takes the node away, the last layer releases
\* it, and the others change nothing; nor does closing the main node.
LEMMA CloseLayerReleases ==
  ASSUME MeshInv, NEW t \in Thread, S!CloseLayer(t)
  PROVE  S!Registry!Next \/ UNCHANGED <<keyOf, [h \in Handle |-> S!Status(h)]>>
<1> USE ServicesAssumption DEF S!CloseLayer, S!Layers, MeshInv
<1>1. CASE task[t] = MainNode
  <2>1. \A g \in Handle : S!Status(g)' = S!Status(g)
    BY <1>1, Zenon DEF S!Status, S!MeshTypeOK
  <2> QED
    BY <2>1, Zenon
<1>2. CASE task[t] # MainNode
  <2>1. PICK h \in Handle : h = task[t] /\ keyOf[h] \in Key /\ layers[h] \in 0 .. 3
    BY <1>2 DEF S!MeshTypeOK, Tasks
  <2>2. \A g \in Handle : g # h => S!Status(g)' = S!Status(g)
    BY <2>1, Zenon DEF S!Status, S!MeshTypeOK
  <2>3. S!Status(h) \in {"open", "dropped"} /\ S!Status(h)' \in {"dropped", "released"}
    BY <2>1 DEF S!Status, S!MeshTypeOK
  <2>4. CASE S!Status(h)' = "released"
    <3>1. S!Registry!Release(h)
      BY <2>1, <2>2, <2>3, <2>4, Zenon DEF S!Registry!Release
    <3> QED
      BY <2>1, <3>1, Zenon DEF S!Registry!Next
  <2>5. CASE S!Status(h)' = "dropped" /\ S!Status(h) = "open"
    <3>1. S!Registry!Drop(h)
      BY <2>1, <2>2, <2>5, Zenon DEF S!Registry!Drop
    <3> QED
      BY <2>1, <3>1, Zenon DEF S!Registry!Next
  <2>6. CASE S!Status(h)' = "dropped" /\ S!Status(h) = "dropped"
    BY <2>2, <2>6, Zenon
  <2> QED
    BY <2>3, <2>4, <2>5, <2>6, Zenon
<1> QED
  BY <1>1, <1>2, Zenon

\* The other steps of Close change the status of no node: those that CloseMain
\* takes out of the table are all closed.
LEMMA MeshCloseStutters ==
  ASSUME MeshInv, NEW t \in Thread, S!MeshClose(t)
  PROVE  UNCHANGED <<keyOf, [h \in Handle |-> S!Status(h)]>>
<1> USE ServicesAssumption DEF S!Layers, MeshInv
<1>1. CASE S!CloseBegin(t)
  BY <1>1, Zenon DEF S!CloseBegin, S!Status
<1>2. CASE \E h \in Handle : S!CloseNode(t, h)
  BY <1>2, Zenon DEF S!CloseNode, S!Status
<1>3. CASE S!CloseMain(t)
  <2>1. \A h \in Handle : keyOf[h] # None /\ meshNodes[keyOf[h]] = h => layers[h] = S!Layers
    BY <1>3 DEF S!CloseMain, ClosePhase, S!MeshTypeOK
  <2>2. \A h \in Handle : S!Status(h)' = S!Status(h)
    BY <1>3, <2>1, Zenon DEF S!CloseMain, S!Status, S!MeshTypeOK
  <2> QED
    BY <1>3, <2>2, Zenon DEF S!CloseMain
<1> QED
  BY <1>1, <1>2, <1>3, Zenon DEF S!MeshClose

\* MeshIsRegistry: Open makes a node for a key that has none open, and each node
\* leaves the service once and is released once, although Drop closes a node after
\* it has released the lock and Close of an old handle goes by its key.
THEOREM MeshImplementsRegistry == S!MeshSpec => MeshIsRegistry
<1>1. S!MeshInit => S!Registry!Init
  BY Zenon DEF S!MeshInit, S!Registry!Init, S!Status
<1>2. MeshInv /\ [S!MeshNext]_S!meshVars
        => [S!Registry!Next]_<<keyOf, [h \in Handle |-> S!Status(h)]>>
  <2> SUFFICES ASSUME MeshInv, [S!MeshNext]_S!meshVars
               PROVE  S!Registry!Next \/ UNCHANGED <<keyOf, [h \in Handle |-> S!Status(h)]>>
    BY Zenon
  <2>1. ASSUME NEW k \in Key, NEW h \in Handle, S!Open(k, h) PROVE S!Registry!Next
    BY <2>1, OpenRegisters, Zenon DEF S!Registry!Next
  <2>2. ASSUME NEW t \in Thread, NEW k \in Key, S!Unregister(t, k) PROVE S!Registry!Next
    BY <2>2, UnregisterDrops, Zenon DEF S!Registry!Next
  <2>3. ASSUME NEW t \in Thread, NEW h \in Handle, S!CloseHandle(t, h) PROVE S!Registry!Next
    <3>1. keyOf[h] \in Key
      BY <2>3, Zenon DEF S!CloseHandle, MeshInv, S!MeshTypeOK
    <3> QED
      BY <2>3, <3>1, <2>2, Zenon DEF S!CloseHandle
  <2>4. CASE UNCHANGED S!meshVars
    BY <2>4, Zenon DEF S!meshVars, S!Status
  <2> QED
    BY <2>1, <2>2, <2>3, <2>4, CloseLayerReleases, MeshCloseStutters, Zenon DEF S!MeshNext, S!Drop
<1> QED
  BY <1>1, <1>2, MeshInit, MeshStep, PTL
     DEF S!MeshSpec, MeshIsRegistry, S!ImplementsRegistry, S!Registry!Spec

\* mainMemPeers follows the table: the main node reaches the current node of each
\* key and not an earlier one, and until Close it has no other client peers.
THEOREM MainNodeReaches == S!MeshSpec => []S!MainReaches
<1>1. S!MeshInit => S!MainReaches
  BY Zenon DEF S!MeshInit, S!MainReaches
<1>2. MeshInv /\ S!MainReaches /\ [S!MeshNext]_S!meshVars => S!MainReaches'
  <2> SUFFICES ASSUME MeshInv, S!MainReaches, [S!MeshNext]_S!meshVars
               PROVE  S!MainReaches'
    BY Zenon
  <2> USE DEF S!MainReaches
  <2>1. ASSUME NEW k \in Key, NEW h \in Handle, S!Open(k, h) PROVE S!MainReaches'
    BY <2>1, Zenon DEF S!Open, MeshInv, S!MeshTypeOK
  <2>2. ASSUME NEW t \in Thread, NEW k \in Key, S!Unregister(t, k) PROVE S!MainReaches'
    BY <2>2, Zenon DEF S!Unregister, MeshInv, S!MeshTypeOK
  <2>3. ASSUME NEW t \in Thread, NEW h \in Handle, S!CloseHandle(t, h) PROVE S!MainReaches'
    <3>1. keyOf[h] \in Key
      BY <2>3, Zenon DEF S!CloseHandle, MeshInv, S!MeshTypeOK
    <3> QED
      BY <2>2, <2>3, <3>1, Zenon DEF S!CloseHandle
  <2>4. ASSUME NEW t \in Thread, S!CloseLayer(t) PROVE S!MainReaches'
    BY <2>4, Zenon DEF S!CloseLayer
  <2>5. ASSUME NEW t \in Thread, S!MeshClose(t) PROVE S!MainReaches'
    BY <2>5, ServicesAssumption
       DEF S!MeshClose, S!CloseBegin, S!CloseNode, S!CloseMain, MeshInv, ClosePhase
  <2>6. CASE UNCHANGED S!meshVars
    BY <2>6, Zenon DEF S!meshVars
  <2> QED
    BY <2>1, <2>2, <2>3, <2>4, <2>5, <2>6, Zenon DEF S!MeshNext, S!Drop
<1> QED
  BY <1>1, <1>2, MeshInit, MeshStep, PTL DEF S!MeshSpec

----------------------------------------------------------------------------
(* rcsrv and the HTTP handlers over mesh256.Server.                         *)

\* A handler that closes a node does so under rcsrv's lock, and the entry it
\* deletes is that of the node it closes, which has left the table below.
Handlers ==
  \A t \in Handler :
    /\ at[t] # "idle" => served[t] \in Handle /\ keyOf[served[t]] \in Key
    /\ at[t] = "closing" <=> rcmu = t
    /\ at[t] = "closing" => /\ rcNode[keyOf[served[t]]] # None
                            /\ meshNodes[keyOf[served[t]]] = None
                            /\ task[t] \in {None, rcNode[keyOf[served[t]]]}
    /\ task[t] # None => at[t] = "closing"

\* Other goroutines only call Close, which handlers do not.
Closers ==
  /\ mu \notin Handler
  /\ \A t \in Thread \ Handler : task[t] # None => mu = t

\* An entry is of its key, each node that is not closed has its entry, and an entry
\* whose node has left the table is being deleted, until the server is closed.
Entries ==
  /\ \A k \in Key : rcNode[k] # None => keyOf[rcNode[k]] = k
  /\ \A h \in Handle : keyOf[h] # None /\ layers[h] < S!Layers => rcNode[keyOf[h]] = h
  /\ ~stopped => \A k \in Key : rcNode[k] # None /\ meshNodes[k] = None =>
                   \E t \in Handler : rcmu = t /\ keyOf[served[t]] = k

\* The same with the entries of the API server, which hold those nodes.
EntryInv == MeshInv /\ S!TypeOK /\ Handlers /\ Closers /\ Entries

\* A new server has no entries and no handlers at work.
LEMMA EntryInit == S!Init => EntryInv
<1> SUFFICES ASSUME S!Init PROVE EntryInv
  BY Zenon
<1> USE ServicesAssumption DEF S!Init
<1>1. MeshInv
  BY MeshInit, Zenon
<1>2. rcNode \in [Key -> Handle \cup {None}] /\ served \in [Handler -> Handle \cup {None}]
  BY Zenon
<1>3. count \in [Key -> 0 .. MaxCount] /\ at \in [Handler -> {"idle", "serving", "closing"}]
  OBVIOUS
<1>4. S!TypeOK
  BY <1>1, <1>2, <1>3, Zenon DEF S!TypeOK, MeshInv
<1>5. Handlers /\ Closers /\ Entries
  BY Zenon DEF Handlers, Closers, Entries, S!MeshInit
<1> QED
  BY <1>1, <1>4, <1>5, Zenon DEF EntryInv

\* The key of a handler's node, and the entry that is deleted under it.
LEMMA ServedKey ==
  ASSUME EntryInv, NEW t \in Handler, at[t] # "idle"
  PROVE  S!KeyOfConn(t) \in Key
BY Zenon DEF EntryInv, Handlers, S!KeyOfConn

\* Each step of rcsrv and its handlers, Drop included, is a step of the server
\* below, or leaves it alone.
LEMMA StepBelow ==
  ASSUME EntryInv, [S!Next]_S!vars
  PROVE  [S!MeshNext]_S!meshVars
<1> USE ServicesAssumption
<1>1. ASSUME NEW t \in Handler, NEW k \in Key, rcNode[k] # None, S!DeleteBegin(t, k)
      PROVE  [S!MeshNext]_S!meshVars
  BY <1>1, Zenon DEF S!DeleteBegin, S!MeshNext, S!TypeOK, EntryInv
<1>2. ASSUME NEW t \in Handler, NEW k \in Key, S!HandleOpen(t, k)
      PROVE  [S!MeshNext]_S!meshVars
  BY <1>2, Zenon DEF S!HandleOpen, S!Share, S!OpenFirst, S!MeshNext
<1>3. ASSUME NEW t \in Handler, S!Unref(t) \/ S!DeleteEnd(t)
      PROVE  [S!MeshNext]_S!meshVars
  BY <1>3, Zenon DEF S!Unref, S!DeleteEnd
<1>4. ASSUME NEW t \in Handler, S!UnrefLast(t)
      PROVE  [S!MeshNext]_S!meshVars
  BY <1>4, <1>1, ServedKey, Zenon DEF S!UnrefLast
<1>5. ASSUME NEW t \in Handler, NEW k \in Key, S!DropAll(t, k)
      PROVE  [S!MeshNext]_S!meshVars
  BY <1>5, <1>1, Zenon DEF S!DropAll
<1>6. ASSUME NEW t \in Thread, S!Closing(t) \/ S!ServerClose(t)
      PROVE  [S!MeshNext]_S!meshVars
  BY <1>6, Zenon DEF S!Closing, S!ServerClose, S!MeshNext
<1>7. CASE UNCHANGED S!vars
  BY <1>7, Zenon DEF S!vars
<1> QED
  BY <1>2, <1>3, <1>4, <1>5, <1>6, <1>7, Zenon DEF S!Next, S!HttpNext

\* Opening: a first reference makes the entry of a key of which every node is
\* closed.
LEMMA HandleOpenKeeps ==
  ASSUME EntryInv, MeshInv', NEW t \in Handler, NEW k \in Key, S!HandleOpen(t, k)
  PROVE  EntryInv'
<1>1. /\ at[t] = "idle" /\ rcmu = None /\ rcmu' = rcmu
      /\ at' = [at EXCEPT ![t] = "serving"]
      /\ S!Share(t, k) \/ S!OpenFirst(t, k)
  BY Zenon DEF S!HandleOpen
<1>2. /\ rcNode \in [Key -> Handle \cup {None}] /\ count \in [Key -> 0 .. MaxCount]
      /\ served \in [Handler -> Handle \cup {None}] /\ at \in [Handler -> {"idle", "serving", "closing"}]
      /\ rcmu \in Handler \cup {None}
      /\ keyOf \in [Handle -> Key \cup {None}] /\ meshNodes \in [Key -> Handle \cup {None}]
  BY Zenon DEF EntryInv, S!TypeOK, MeshInv, S!MeshTypeOK
<1>3. S!MeshTypeOK'
  BY Zenon DEF MeshInv
<1>4. \A u \in Handler : u # t => at'[u] = at[u]
  BY <1>1, <1>2, Zenon
<1>5. at'[t] = "serving" /\ t # None
  BY <1>1, <1>2, ServicesAssumption, Zenon
<1>6. task[t] = None
  BY <1>1, Zenon DEF EntryInv, Handlers
<1>7. CASE S!Share(t, k)
  <2>1. /\ rcNode[k] # None /\ count' = [count EXCEPT ![k] = count[k] + 1]
        /\ served' = [served EXCEPT ![t] = rcNode[k]] /\ count[k] < MaxCount
        /\ UNCHANGED <<keyOf, meshNodes, layers, task, mu, stopped, rcNode>>
    BY <1>7, Zenon DEF S!Share, S!meshVars
  <2>2. S!TypeOK'
    <3>1. count[k] + 1 \in 0 .. MaxCount
      BY <1>2, <2>1, ServicesAssumption
    <3> QED  BY <1>1, <1>2, <1>3, <2>1, <3>1, Zenon DEF S!TypeOK
  <2>3. served'[t] \in Handle /\ keyOf[served'[t]] \in Key
    <3>1. served'[t] = rcNode[k] /\ rcNode[k] \in Handle
      BY <1>2, <2>1, Zenon
    <3>2. keyOf[rcNode[k]] = k
      BY <2>1, Zenon DEF EntryInv, Entries
    <3> QED  BY <3>1, <3>2, Zenon
  <2>4. \A u \in Handler : u # t => served'[u] = served[u]
    BY <1>2, <2>1, Zenon
  <2>5. Handlers'
    <3> SUFFICES ASSUME NEW u \in Handler
                 PROVE  /\ at'[u] # "idle" => served'[u] \in Handle /\ keyOf[served'[u]] \in Key
                        /\ at'[u] # "closing" /\ rcmu # u /\ task[u] = None
      BY <1>1, <2>1, Zenon DEF Handlers
    <3>1. rcmu # u /\ at[u] # "closing" /\ task[u] = None
      BY <1>1, ServicesAssumption, Zenon DEF EntryInv, Handlers
    <3>2. CASE u = t
      BY <1>5, <2>3, <3>1, <3>2, Zenon
    <3>3. CASE u # t
      BY <1>4, <2>4, <3>1, <3>3, Zenon DEF EntryInv, Handlers
    <3> QED  BY <3>2, <3>3, Zenon
  <2>6. Closers'
    BY <2>1, Zenon DEF EntryInv, Closers
  <2>7. Entries'
    <3>1. \A u \in Handler : rcmu # u
      BY <1>1, ServicesAssumption, Zenon
    <3>2. Entries
      BY Zenon DEF EntryInv
    <3> QED  BY <1>1, <2>1, <3>1, <3>2, Zenon DEF Entries
  <2> QED  BY <2>2, <2>5, <2>6, <2>7, Zenon DEF EntryInv
<1>8. CASE S!OpenFirst(t, k)
  <2>1. PICK h \in Handle : /\ S!Open(k, h)
                            /\ rcNode' = [rcNode EXCEPT ![k] = h]
                            /\ served' = [served EXCEPT ![t] = h]
    BY <1>8, Zenon DEF S!OpenFirst
  <2>2. count' = [count EXCEPT ![k] = 1] /\ rcNode[k] = None
    BY <1>8, Zenon DEF S!OpenFirst
  <2>3. /\ keyOf[h] = None /\ keyOf' = [keyOf EXCEPT ![h] = k]
        /\ meshNodes' = [meshNodes EXCEPT ![k] = h] /\ UNCHANGED <<layers, task, mu, stopped>>
    BY <2>1, Zenon DEF S!Open
  <2>4. S!TypeOK'
    <3>1. 1 \in 0 .. MaxCount
      BY ServicesAssumption
    <3> QED  BY <1>1, <1>2, <1>3, <2>1, <2>2, <3>1, Zenon DEF S!TypeOK
  <2>5. /\ served'[t] = h /\ keyOf'[h] = k /\ rcNode'[k] = h /\ meshNodes'[k] = h
        /\ \A u \in Handler : u # t => served'[u] = served[u]
        /\ \A g \in Handle : g # h => keyOf'[g] = keyOf[g]
        /\ \A j \in Key : j # k => rcNode'[j] = rcNode[j] /\ meshNodes'[j] = meshNodes[j]
    BY <1>2, <2>1, <2>3, Zenon
  <2>6. Handlers'
    <3> SUFFICES ASSUME NEW u \in Handler
                 PROVE  /\ at'[u] # "idle" => served'[u] \in Handle /\ keyOf'[served'[u]] \in Key
                        /\ at'[u] # "closing" /\ rcmu # u /\ task[u] = None
      BY <1>1, <2>3, Zenon DEF Handlers
    <3>1. rcmu # u /\ at[u] # "closing" /\ task[u] = None
      BY <1>1, ServicesAssumption, Zenon DEF EntryInv, Handlers
    <3>2. CASE u = t
      BY <1>5, <2>5, <3>1, <3>2, Zenon
    <3>3. CASE u # t
      <4>1. at[u] # "idle" => served[u] \in Handle /\ keyOf[served[u]] \in Key
        BY Zenon DEF EntryInv, Handlers
      <4>2. at[u] # "idle" => keyOf'[served[u]] \in Key
        BY <2>5, <4>1, Zenon
      <4> QED  BY <1>4, <2>5, <3>1, <3>3, <4>1, <4>2, Zenon
    <3> QED  BY <3>2, <3>3, Zenon
  <2>7. Closers'
    BY <2>3, Zenon DEF EntryInv, Closers
  <2>8. Entries'
    <3>1. ASSUME NEW j \in Key, rcNode'[j] # None PROVE keyOf'[rcNode'[j]] = j
      <4>1. CASE j = k
        BY <2>5, <4>1, Zenon
      <4>2. CASE j # k
        <5>1. rcNode'[j] = rcNode[j] /\ rcNode[j] \in Handle /\ keyOf[rcNode[j]] = j
          <6>1. rcNode'[j] = rcNode[j] /\ rcNode[j] \in Handle /\ rcNode[j] # None
            BY <1>2, <2>5, <3>1, <4>2, Zenon
          <6> QED  BY <6>1, Zenon DEF EntryInv, Entries
        <5>2. rcNode[j] # h
          BY <2>3, <5>1, ServicesAssumption, Zenon
        <5> QED  BY <2>5, <5>1, <5>2, Zenon
      <4> QED  BY <4>1, <4>2, Zenon
    <3>2. ASSUME NEW g \in Handle, keyOf'[g] # None, layers'[g] < S!Layers PROVE rcNode'[keyOf'[g]] = g
      <4>1. CASE g = h
        BY <2>5, <4>1, Zenon
      <4>2. CASE g # h
        <5>1. keyOf'[g] = keyOf[g] /\ keyOf[g] \in Key /\ rcNode[keyOf[g]] = g
          <6>1. keyOf'[g] = keyOf[g] /\ keyOf[g] \in Key /\ keyOf[g] # None
            BY <1>2, <2>5, <3>2, <4>2, Zenon
          <6>2. layers[g] < S!Layers
            BY <2>3, <3>2, Zenon
          <6> QED  BY <6>1, <6>2, Zenon DEF EntryInv, Entries
        <5>2. keyOf[g] # k
          BY <2>2, <5>1, ServicesAssumption, Zenon
        <5> QED  BY <2>5, <5>1, <5>2, Zenon
      <4> QED  BY <4>1, <4>2, Zenon
    <3>3. ASSUME ~stopped', NEW j \in Key, rcNode'[j] # None, meshNodes'[j] = None PROVE FALSE
      <4>1. j # k
        BY <2>5, <3>3, ServicesAssumption, Zenon
      <4>2. rcNode[j] # None /\ meshNodes[j] = None /\ ~stopped
        BY <2>3, <2>5, <3>3, <4>1, Zenon
      <4> QED  BY <1>1, <4>2, ServicesAssumption, Zenon DEF EntryInv, Entries
    <3> QED  BY <3>1, <3>2, <3>3, Zenon DEF Entries
  <2> QED  BY <2>4, <2>6, <2>7, <2>8, Zenon DEF EntryInv
<1> QED
  BY <1>1, <1>7, <1>8, Zenon

\* A reference that is not the last one goes, or one whose entry is gone.
LEMMA UnrefKeeps ==
  ASSUME EntryInv, MeshInv', NEW t \in Handler, S!Unref(t)
  PROVE  EntryInv'
<1> USE ServicesAssumption DEF EntryInv, S!Unref, S!meshVars
<1>1. S!KeyOfConn(t) \in Key
  BY ServedKey, Zenon
<1>2. S!TypeOK'
  BY <1>1 DEF S!TypeOK, MeshInv
<1>3. Handlers'
  BY Zenon DEF Handlers, S!TypeOK
<1>4. Closers'
  BY Zenon DEF Closers
<1>5. Entries'
  BY Zenon DEF Entries, S!TypeOK, Handlers
<1> QED
  BY <1>2, <1>3, <1>4, <1>5, Zenon

\* The last reference goes, or Drop is called: nobody is closing anything, so that
\* what is in the table under the key is the node of the entry.
LEMMA DeleteBeginKeeps ==
  ASSUME EntryInv, MeshInv', NEW t \in Handler, NEW k \in Key,
         rcmu = None, rcNode[k] # None, S!DeleteBegin(t, k),
         count' \in [Key -> 0 .. MaxCount],
         served' \in [Handler -> Handle \cup {None}],
         served'[t] \in Handle, keyOf[served'[t]] = k,
         \A u \in Handler : u # t => served'[u] = served[u]
  PROVE  EntryInv'
<1> USE ServicesAssumption DEF EntryInv, S!DeleteBegin, S!Layers
<1>1. \A u \in Thread : task[u] = None
  BY Zenon DEF Handlers, Closers
<1>2. meshNodes[k] \in {None, rcNode[k]} /\ keyOf[rcNode[k]] = k
  BY DEF Entries, MeshInv, S!MeshTypeOK, Table
<1>3. /\ keyOf' = keyOf /\ layers' = layers /\ mu' = mu /\ stopped' = stopped
      /\ meshNodes' = [meshNodes EXCEPT ![k] = None]
      /\ \/ task' = [task EXCEPT ![t] = rcNode[k]]
         \/ task' = task
  <2>1. CASE S!CloseHandle(t, rcNode[k])
    BY <1>2, <2>1, Zenon DEF S!CloseHandle, S!Unregister
  <2>2. CASE meshNodes[k] = None /\ UNCHANGED S!meshVars
    BY <2>2, Zenon DEF S!meshVars, MeshInv, S!MeshTypeOK
  <2> QED
    BY <2>1, <2>2, Zenon
<1>4. S!TypeOK'
  BY Zenon DEF S!TypeOK, MeshInv
<1>5. Handlers'
  BY <1>1, <1>2, <1>3 DEF Handlers, S!TypeOK, MeshInv, S!MeshTypeOK
<1>6. Closers'
  BY <1>1, <1>3 DEF Closers, MeshInv, S!MeshTypeOK
<1>7. Entries'
  BY <1>1, <1>2, <1>3 DEF Entries, MeshInv, S!MeshTypeOK
<1> QED
  BY <1>4, <1>5, <1>6, <1>7, Zenon

\* The entry goes: its node has left the table, and nobody closes it any more, so
\* that all of its layers are closed.
LEMMA DeleteEndKeeps ==
  ASSUME EntryInv, MeshInv', NEW t \in Handler, S!DeleteEnd(t)
  PROVE  EntryInv'
<1> USE ServicesAssumption DEF EntryInv, S!DeleteEnd, S!Layers, S!meshVars
<1>1. PICK k \in Key : k = S!KeyOfConn(t)
  BY ServedKey, Zenon
<1>2. rcNode[k] \in Handle /\ meshNodes[k] = None /\ rcmu = t /\ keyOf[rcNode[k]] = k
  BY <1>1 DEF Handlers, S!KeyOfConn, S!TypeOK, Entries
<1>3. \A u \in Thread : task[u] # rcNode[k]
  <2>1. \A u \in Handler : task[u] = None
    BY <1>2, Zenon DEF Handlers
  <2>2. ASSUME NEW u \in Thread \ Handler, task[u] = rcNode[k] PROVE FALSE
    BY <1>2, <2>2 DEF Closers, MeshInv, ClosePhase
  <2> QED
    BY <1>2, <2>1, <2>2, Zenon
<1>4. layers[rcNode[k]] = S!Layers
  BY <1>2, <1>3, Zenon DEF MeshInv, NotLeaked
<1>5. S!TypeOK'
  BY Zenon DEF S!TypeOK, MeshInv
<1>6. Handlers'
  BY <1>1, <1>2, Zenon DEF Handlers, S!TypeOK
<1>7. Closers'
  BY Zenon DEF Closers
<1>8. Entries'
  BY <1>1, <1>2, <1>4 DEF Entries, S!TypeOK, Handlers, MeshInv, S!MeshTypeOK
<1> QED
  BY <1>5, <1>6, <1>7, <1>8, Zenon

\* A layer of a node is closed.
LEMMA ClosingKeeps ==
  ASSUME EntryInv, MeshInv', NEW t \in Thread, S!Closing(t)
  PROVE  EntryInv'
<1> USE ServicesAssumption DEF EntryInv, S!Closing, S!CloseLayer, S!Layers
<1>1. S!TypeOK'
  BY Zenon DEF S!TypeOK, MeshInv
<1>2. Handlers'
  BY DEF Handlers, S!TypeOK, MeshInv, S!MeshTypeOK
<1>3. Closers'
  <2>1. task[t] \in Handle \cup {MainNode} /\ (task[t] = MainNode => mu = t)
    BY Zenon DEF MeshInv, S!MeshTypeOK, ClosePhase
  <2>2. \A u \in Thread : task'[u] # None => task[u] # None /\ (u = t => mu' = mu)
    BY <2>1 DEF MeshInv, S!MeshTypeOK
  <2>3. \A u \in Thread : u # t /\ task'[u] # None /\ mu = u => mu' = u
    BY <2>1, Zenon
  <2> QED
    BY <2>2, <2>3, Zenon DEF Closers, MeshInv, S!MeshTypeOK
<1>4. Entries'
  BY DEF Entries, MeshInv, S!MeshTypeOK
<1> QED
  BY <1>1, <1>2, <1>3, <1>4, Zenon

\* The daemon closes the server.
LEMMA ServerCloseKeeps ==
  ASSUME EntryInv, MeshInv', NEW t \in Thread \ Handler, S!ServerClose(t)
  PROVE  EntryInv'
<1>1. /\ UNCHANGED <<keyOf, layers, rcNode, count, rcmu, served, at>>
      /\ mu' = t /\ task[t] = None /\ mu \in {None, t}
      /\ \A u \in Thread : u # t => task'[u] = task[u]
      /\ \A k \in Key : meshNodes[k] = None => meshNodes'[k] = None
      /\ stopped'
  <2>1. task \in [Thread -> Handle \cup {MainNode, None}] /\ (mu # None => stopped) /\ t # None
    BY ServicesAssumption, Zenon DEF EntryInv, MeshInv, S!MeshTypeOK, ClosePhase
  <2>2. CASE S!CloseBegin(t)
    BY <2>2, Zenon DEF S!CloseBegin, S!ServerClose
  <2>3. ASSUME NEW h \in Handle, S!CloseNode(t, h)
        PROVE  /\ UNCHANGED <<keyOf, layers, mu, stopped, meshNodes>> /\ mu = t /\ task[t] = None
               /\ \A u \in Thread : u # t => task'[u] = task[u]
    BY <2>1, <2>3, Zenon DEF S!CloseNode
  <2>4. CASE S!CloseMain(t)
    <3>1. /\ UNCHANGED <<keyOf, layers, mu, stopped>> /\ mu = t /\ task[t] = None
          /\ \A u \in Thread : u # t => task'[u] = task[u]
      BY <2>1, <2>4, Zenon DEF S!CloseMain
    <3>2. \A k \in Key : meshNodes'[k] = None
      BY <2>4, Zenon DEF S!CloseMain
    <3> QED  BY <2>1, <3>1, <3>2, Zenon DEF S!ServerClose
  <2> QED  BY <2>1, <2>2, <2>3, <2>4, Zenon DEF S!ServerClose, S!MeshClose
<1>2. S!TypeOK'
  BY <1>1, Zenon DEF EntryInv, S!TypeOK, MeshInv
<1>3. Handlers'
  <2> SUFFICES ASSUME NEW u \in Handler
               PROVE  /\ at[u] # "idle" => served[u] \in Handle /\ keyOf[served[u]] \in Key
                      /\ at[u] = "closing" <=> rcmu = u
                      /\ at[u] = "closing" => /\ rcNode[keyOf[served[u]]] # None
                                              /\ meshNodes'[keyOf[served[u]]] = None
                                              /\ task'[u] \in {None, rcNode[keyOf[served[u]]]}
                      /\ task'[u] # None => at[u] = "closing"
    BY <1>1, Zenon DEF Handlers
  <2>1. task'[u] = task[u]
    BY <1>1, ServicesAssumption, Zenon
  <2> QED  BY <1>1, <2>1, Zenon DEF EntryInv, Handlers
<1>4. Closers'
  <2>1. \A u \in Thread \ Handler : u # t => u # None /\ task'[u] = task[u] /\ (task[u] # None => mu = u)
    BY <1>1, ServicesAssumption, Zenon DEF EntryInv, Closers
  <2>2. \A u \in Thread \ Handler : u # t => task'[u] = None
    BY <1>1, <2>1, Zenon
  <2> QED  BY <1>1, <2>2, Zenon DEF Closers
<1>5. Entries'
  BY <1>1, Zenon DEF EntryInv, Entries
<1> QED
  BY <1>2, <1>3, <1>4, <1>5, Zenon DEF EntryInv

\* Every step of rcsrv and its handlers, Drop included, keeps the invariant.
LEMMA EntryStep == EntryInv /\ [S!Next]_S!vars => EntryInv'
<1> SUFFICES ASSUME EntryInv, [S!Next]_S!vars PROVE EntryInv'
  BY Zenon
<1>1. MeshInv'
  BY StepBelow, MeshStep, Zenon DEF EntryInv
<1>2. ASSUME NEW t \in Handler, NEW k \in Key, S!HandleOpen(t, k) PROVE EntryInv'
  BY <1>1, <1>2, HandleOpenKeeps, Zenon
<1>3. ASSUME NEW t \in Handler, S!Unref(t) PROVE EntryInv'
  BY <1>1, <1>3, UnrefKeeps, Zenon
<1>4. ASSUME NEW t \in Handler, S!UnrefLast(t) PROVE EntryInv'
  <2>1. S!KeyOfConn(t) \in Key /\ served[t] \in Handle
    BY <1>4, ServedKey, Zenon DEF S!UnrefLast, EntryInv, Handlers
  <2>2. count' \in [Key -> 0 .. MaxCount]
    BY <1>4, <2>1, ServicesAssumption DEF S!UnrefLast, EntryInv, S!TypeOK
  <2> QED
    BY <1>1, <1>4, <2>1, <2>2, DeleteBeginKeeps, Zenon DEF S!UnrefLast, EntryInv, S!TypeOK, S!KeyOfConn
<1>5. ASSUME NEW t \in Handler, NEW k \in Key, S!DropAll(t, k) PROVE EntryInv'
  <2>1. rcNode[k] \in Handle /\ keyOf[rcNode[k]] = k
    BY <1>5 DEF S!DropAll, EntryInv, S!TypeOK, Entries
  <2>2. count' \in [Key -> 0 .. MaxCount] /\ served' \in [Handler -> Handle \cup {None}]
    BY <1>5, <2>1, ServicesAssumption DEF S!DropAll, EntryInv, S!TypeOK
  <2>3. served'[t] = rcNode[k] /\ \A u \in Handler : u # t => served'[u] = served[u]
    BY <1>5, Zenon DEF S!DropAll, EntryInv, S!TypeOK
  <2> QED
    BY <1>1, <1>5, <2>1, <2>2, <2>3, DeleteBeginKeeps, Zenon DEF S!DropAll
<1>6. ASSUME NEW t \in Handler, S!DeleteEnd(t) PROVE EntryInv'
  BY <1>1, <1>6, DeleteEndKeeps, Zenon
<1>7. ASSUME NEW t \in Thread, S!Closing(t) PROVE EntryInv'
  BY <1>1, <1>7, ClosingKeeps, Zenon
<1>8. ASSUME NEW t \in Thread \ Handler, S!ServerClose(t) PROVE EntryInv'
  BY <1>1, <1>8, ServerCloseKeeps, Zenon
<1>9. CASE UNCHANGED S!vars
  BY <1>1, <1>9, Zenon DEF S!vars, S!meshVars, EntryInv, S!TypeOK, S!MeshTypeOK, Handlers, Closers, Entries
<1> QED
  BY <1>2, <1>3, <1>4, <1>5, <1>6, <1>7, <1>8, <1>9, Zenon DEF S!Next, S!HttpNext

\* mesh256.Server under rcsrv is mesh256.Server: what is proved of it above holds
\* when rcsrv and the handlers are its callers, Drop included.
THEOREM ServerUnderHandlers == S!Spec => S!MeshSpec
<1>1. S!Init => S!MeshInit
  BY Zenon DEF S!Init
<1>2. EntryInv /\ [S!Next]_S!vars => [S!MeshNext]_S!meshVars
  BY StepBelow, Zenon
<1> QED
  BY <1>1, <1>2, EntryInit, EntryStep, PTL DEF S!Spec, S!MeshSpec

\* EntriesMatch: until the server is closed, rcsrv has an entry for exactly the
\* nodes that are in the table below or are being closed under its lock, also when
\* Drop takes the node away under handlers that go on to close it.
THEOREM EntriesFollowNodes == S!Spec => []EntriesMatch
<1>1. EntryInv => EntriesMatch
  <2> SUFFICES ASSUME EntryInv, ~stopped, NEW k \in Key, meshNodes[k] # rcNode[k]
               PROVE  meshNodes[k] = None /\ \E t \in Handler : rcmu = t /\ S!KeyOfConn(t) = k
    BY Zenon DEF EntriesMatch, S!EntriesMatch
  <2>1. ASSUME meshNodes[k] # None PROVE FALSE
    BY <2>1, ServicesAssumption DEF EntryInv, MeshInv, Table, ClosePhase, S!MeshTypeOK, Entries, S!Layers
  <2> QED
    BY <2>1, Zenon DEF EntryInv, Entries, S!KeyOfConn
<1> QED
  BY <1>1, EntryInit, EntryStep, PTL DEF S!Spec

\* OneIncarnation: the server below lets a key be opened while its last node is
\* still being closed; under rcsrv's lock no key has two nodes that are not closed.
THEOREM NoTwoIncarnations == S!Spec => []OneIncarnation
<1>1. EntryInv => OneIncarnation
  <2> SUFFICES ASSUME EntryInv, NEW h \in S!Created, NEW g \in S!Created,
                      h # g, keyOf[h] = keyOf[g],
                      layers[h] # S!Layers, layers[g] # S!Layers
               PROVE  FALSE
    BY Zenon DEF OneIncarnation, S!OneIncarnation
  <2>1. layers[h] < S!Layers /\ layers[g] < S!Layers
    BY DEF EntryInv, MeshInv, S!MeshTypeOK, S!Created, S!Layers
  <2> QED
    BY <2>1, Zenon DEF EntryInv, Entries, S!Created
<1> QED
  BY <1>1, EntryInit, EntryStep, PTL DEF S!Spec

----------------------------------------------------------------------------
(* The references of the handlers, when nobody calls Drop.                  *)

\* Each count is the number of handlers that serve the node, and a node that is
\* being closed is served by none.
CountInv ==
  /\ EntryInv
  /\ S!RefsCounted
  /\ \A t \in Handler : at[t] = "closing" => count[S!KeyOfConn(t)] = 0

\* The cardinality that the instance S speaks of is that of FiniteSets.
LEMMA SameCardinality == ASSUME NEW T PROVE S!Cardinality(T) = Cardinality(T)
BY Zenon DEF S!Cardinality, Cardinality

\* The count of an entry is the number of handlers that serve it.
LEMMA CountIsCardinality ==
  ASSUME S!RefsCounted
  PROVE  \A k \in Key : count[k] = Cardinality(S!Serving(k))
BY SameCardinality, Zenon DEF S!RefsCounted

\* Handlers are finitely many.
LEMMA ServingFinite ==
  \A k \in Key : IsFiniteSet(S!Serving(k)) /\ Cardinality(S!Serving(k)) \in Nat
<1> SUFFICES ASSUME NEW k \in Key
             PROVE  IsFiniteSet(S!Serving(k)) /\ Cardinality(S!Serving(k)) \in Nat
  BY Zenon
<1>1. S!Serving(k) \subseteq Handler
  BY Zenon DEF S!Serving
<1>2. IsFiniteSet(S!Serving(k))
  BY <1>1, ServicesAssumption, FS_Subset, Zenon
<1> QED
  BY <1>2, FS_CardinalityType, Zenon

\* A key without an entry is served by no handler.
LEMMA NoneServed ==
  ASSUME CountInv, NEW k \in Key, rcNode[k] = None \/ count[k] = 0
  PROVE  S!Serving(k) = {}
<1>1. CASE rcNode[k] = None
  BY <1>1, ServicesAssumption, Zenon DEF CountInv, S!RefsCounted, S!Serving, EntryInv, Handlers
<1>2. CASE count[k] = 0
  <2>1. Cardinality(S!Serving(k)) = 0
    BY <1>2, CountIsCardinality, Zenon DEF CountInv
  <2> QED
    BY <2>1, ServingFinite, FS_EmptySet, Zenon
<1> QED
  BY <1>1, <1>2, Zenon

\* A handler that opens is one more.
LEMMA OpenCounts ==
  ASSUME CountInv, EntryInv', NEW t \in Handler, NEW k \in Key, S!HandleOpen(t, k)
  PROVE  CountInv'
<1> USE ServicesAssumption DEF CountInv
<1>1. rcNode'[k] \in Handle /\ served' = [served EXCEPT ![t] = rcNode'[k]]
  BY Zenon DEF S!HandleOpen, S!Share, S!OpenFirst, EntryInv, S!TypeOK
<1>2. keyOf'[rcNode'[k]] = k
  BY <1>1, Zenon DEF EntryInv, Entries
<1>3. \A u \in Handler : u # t /\ at[u] # "idle" => S!KeyOfConn(u)' = S!KeyOfConn(u)
  <2> SUFFICES ASSUME NEW u \in Handler, u # t, at[u] # "idle"
               PROVE  S!KeyOfConn(u)' = S!KeyOfConn(u)
    BY Zenon
  <2>1. served'[u] = served[u] /\ served[u] \in Handle /\ keyOf[served[u]] \in Key
    BY <1>1, Zenon DEF EntryInv, S!TypeOK, Handlers
  <2>2. keyOf' = keyOf \/ \E h \in Handle : keyOf[h] = None /\ keyOf' = [keyOf EXCEPT ![h] = k]
    BY Zenon DEF S!HandleOpen, S!Share, S!OpenFirst, S!Open, S!meshVars
  <2> QED
    BY <2>1, <2>2 DEF S!KeyOfConn, EntryInv, MeshInv, S!MeshTypeOK
<1>4. S!KeyOfConn(t)' = k /\ at' = [at EXCEPT ![t] = "serving"] /\ at[t] = "idle"
  BY <1>1, <1>2, Zenon DEF S!HandleOpen, S!KeyOfConn, EntryInv, S!TypeOK
<1>5. S!Serving(k)' = S!Serving(k) \cup {t} /\ t \notin S!Serving(k)
  BY <1>3, <1>4 DEF S!Serving, EntryInv, S!TypeOK
<1>6. \A j \in Key : j # k => S!Serving(j)' = S!Serving(j)
  BY <1>3, <1>4, ZenonT(40) DEF S!Serving, EntryInv, S!TypeOK
<1>7. Cardinality(S!Serving(k)') = Cardinality(S!Serving(k)) + 1
  BY <1>5, ServingFinite, FS_AddElement, Zenon
<1>8. count' = [count EXCEPT ![k] = Cardinality(S!Serving(k)) + 1]
  <2>1. CASE S!Share(t, k)
    BY <2>1, CountIsCardinality, Zenon DEF S!Share, EntryInv, S!TypeOK
  <2>2. CASE S!OpenFirst(t, k)
    <3>1. Cardinality(S!Serving(k)) = 0
      BY <2>2, NoneServed, FS_EmptySet, Zenon DEF S!OpenFirst
    <3> QED
      BY <2>2, <3>1 DEF S!OpenFirst
  <2> QED
    BY <2>1, <2>2, Zenon DEF S!HandleOpen
<1>9. \A u \in S!Serving(k) : served[u] = rcNode'[k]
  <2>1. CASE S!Share(t, k)
    BY <2>1, Zenon DEF S!Share, S!RefsCounted
  <2>2. CASE S!OpenFirst(t, k)
    BY <2>2, NoneServed, Zenon DEF S!OpenFirst
  <2> QED
    BY <2>1, <2>2, Zenon DEF S!HandleOpen
<1>10. \A j \in Key : j # k => rcNode'[j] = rcNode[j] /\ count'[j] = count[j]
  BY Zenon DEF S!HandleOpen, S!Share, S!OpenFirst, EntryInv, S!TypeOK
<1>11. \A j \in Key : count'[j] = Cardinality(S!Serving(j)')
  BY <1>6, <1>7, <1>8, <1>10, CountIsCardinality, Zenon DEF EntryInv, S!TypeOK
<1>12. \A j \in Key : \A u \in S!Serving(j)' : served'[u] = rcNode'[j]
  <2> SUFFICES ASSUME NEW j \in Key, NEW u \in Handler, u \in S!Serving(j)'
               PROVE  served'[u] = rcNode'[j]
    BY Zenon DEF S!Serving
  <2>1. CASE j = k /\ u = t
    BY <2>1, <1>1, Zenon DEF EntryInv, S!TypeOK
  <2>2. CASE j = k /\ u # t
    BY <2>2, <1>1, <1>5, <1>9, Zenon DEF EntryInv, S!TypeOK
  <2>3. CASE j # k
    BY <2>3, <1>1, <1>4, <1>6, <1>10, Zenon DEF S!RefsCounted, EntryInv, S!TypeOK, S!Serving
  <2> QED
    BY <2>1, <2>2, <2>3, Zenon
<1>13. \A u \in Handler : at'[u] # "closing"
  BY <1>4 DEF S!HandleOpen, EntryInv, Handlers, S!TypeOK
<1>14. S!RefsCounted'
  BY <1>11, <1>12, SameCardinality, Zenon DEF S!RefsCounted
<1> QED
  BY <1>13, <1>14, Zenon

\* A handler that closes its reference is one less.
LEMMA CloseCounts ==
  ASSUME CountInv, EntryInv', NEW t \in Handler, NEW k \in Key, at[t] = "serving",
         k = S!KeyOfConn(t), count' = [count EXCEPT ![k] = @ - 1],
         at'[t] # "serving", \A u \in Handler : u # t => at'[u] = at[u],
         \A u \in Handler : u # t => served'[u] = served[u],
         rcNode' = rcNode, keyOf' = keyOf
  PROVE  S!RefsCounted'
<1> USE ServicesAssumption DEF CountInv
<1>1. \A u \in Handler : u # t => S!KeyOfConn(u)' = S!KeyOfConn(u)
  BY Zenon DEF S!KeyOfConn
<1>2. S!Serving(k)' = S!Serving(k) \ {t} /\ t \in S!Serving(k)
  BY <1>1, Zenon DEF S!Serving
<1>3. \A j \in Key : j # k => S!Serving(j)' = S!Serving(j)
  BY <1>1, Zenon DEF S!Serving
<1>4. Cardinality(S!Serving(k)') = Cardinality(S!Serving(k)) - 1
  <2>1. Cardinality(S!Serving(k) \ {t}) = Cardinality(S!Serving(k)) - 1
    <3>1. \A T, x : IsFiniteSet(T) /\ x \in T => Cardinality(T \ {x}) = Cardinality(T) - 1
      BY FS_RemoveElement, Zenon
    <3> QED
      BY <1>2, <3>1, ServingFinite, Zenon
  <2> QED
    BY <1>2, <2>1, Zenon
<1>5. \A j \in Key : count'[j] = Cardinality(S!Serving(j)')
  BY <1>3, <1>4, CountIsCardinality, Zenon DEF EntryInv, S!TypeOK
<1>6. \A j \in Key : \A u \in S!Serving(j)' : u # t /\ u \in S!Serving(j)
  BY <1>2, <1>3, Zenon DEF S!Serving
<1>7. \A j \in Key : \A u \in S!Serving(j)' : served'[u] = rcNode'[j]
  BY <1>6, Zenon DEF S!RefsCounted, S!Serving
<1> QED
  BY <1>5, <1>7, SameCardinality, Zenon DEF S!RefsCounted

\* A handler that goes on closing serves the same key as before, which has no
\* references.
LEMMA OthersCount ==
  ASSUME CountInv, UNCHANGED <<rcNode, count, served, at, keyOf>>
  PROVE  S!RefsCounted' /\ \A t \in Handler : at'[t] = "closing" => count'[S!KeyOfConn(t)'] = 0
<1>1. \A k \in Key : S!Serving(k)' = S!Serving(k)
  BY Zenon DEF S!Serving, S!KeyOfConn
<1> QED
  BY <1>1, SameCardinality, Zenon DEF CountInv, S!RefsCounted, S!KeyOfConn

\* The entry that is deleted has no references.
LEMMA DeleteEndCounts ==
  ASSUME CountInv, EntryInv', NEW t \in Handler, S!DeleteEnd(t)
  PROVE  CountInv'
<1> USE ServicesAssumption DEF CountInv, S!DeleteEnd
<1>1. PICK k \in Key : k = S!KeyOfConn(t)
  BY ServedKey, Zenon
<1>2. S!Serving(k) = {}
  BY <1>1, NoneServed, Zenon
<1>3. keyOf' = keyOf /\ \A u \in Handler : u # t => served'[u] = served[u] /\ at'[u] = at[u]
  BY DEF S!meshVars, EntryInv, S!TypeOK
<1>4. at'[t] = "idle"
  BY Zenon DEF EntryInv, S!TypeOK
<1>5. \A j \in Key : S!Serving(j)' = S!Serving(j)
  BY <1>3, <1>4, Zenon DEF S!Serving, S!KeyOfConn
<1>6. \A j \in Key : j # k => rcNode'[j] = rcNode[j]
  BY <1>1, Zenon DEF EntryInv, S!TypeOK
<1>7. \A j \in Key : \A u \in S!Serving(j)' : served'[u] = rcNode'[j]
  <2> SUFFICES ASSUME NEW j \in Key, NEW u \in S!Serving(j)'
               PROVE  served'[u] = rcNode'[j]
    BY Zenon
  <2>1. u \in S!Serving(j) /\ j # k
    BY <1>2, <1>5, Zenon
  <2>2. u \in Handler /\ u # t
    BY <2>1, Zenon DEF S!Serving
  <2> QED
    BY <1>3, <1>6, <2>1, <2>2, ZenonT(40) DEF S!RefsCounted
<1>8. S!RefsCounted'
  BY <1>5, <1>7, SameCardinality, Zenon DEF S!RefsCounted
<1>9. \A u \in Handler : at'[u] # "closing"
  BY <1>3, <1>4 DEF EntryInv, Handlers
<1> QED
  BY <1>8, <1>9, Zenon

\* Every step of the handlers keeps the counts right.
LEMMA CountStep == CountInv /\ [S!HttpNext]_S!vars => CountInv'
<1> SUFFICES ASSUME CountInv, [S!HttpNext]_S!vars PROVE CountInv'
  BY Zenon
<1>1. EntryInv'
  BY EntryStep, Zenon DEF CountInv, S!Next
<1>2. ASSUME NEW t \in Handler, NEW k \in Key, S!HandleOpen(t, k) PROVE CountInv'
  BY <1>1, <1>2, OpenCounts, Zenon
<1>3. ASSUME NEW t \in Handler, S!Unref(t) PROVE CountInv'
  <2> USE <1>3 DEF S!Unref
  <2>1. PICK k \in Key : k = S!KeyOfConn(t)
    BY ServedKey, Zenon DEF CountInv
  <2>2. rcNode[k] # None
    BY <2>1, NoneServed, Zenon DEF S!Serving
  <2>3. S!RefsCounted'
    <3>1. count' = [count EXCEPT ![k] = @ - 1]
      BY <2>1, <2>2, Zenon
    <3>2. /\ at'[t] # "serving" /\ \A u \in Handler : u # t => at'[u] = at[u]
          /\ \A u \in Handler : u # t => served'[u] = served[u]
          /\ rcNode' = rcNode /\ keyOf' = keyOf
      BY Zenon DEF CountInv, EntryInv, S!TypeOK, S!meshVars
    <3> QED
      BY <1>1, <2>1, <3>1, <3>2, CloseCounts, Zenon
  <2>4. \A u \in Handler : at'[u] # "closing"
    BY ServicesAssumption, ZenonT(40) DEF CountInv, EntryInv, Handlers, S!TypeOK
  <2> QED
    BY <1>1, <2>3, <2>4, Zenon DEF CountInv
<1>4. ASSUME NEW t \in Handler, S!UnrefLast(t) PROVE CountInv'
  <2> USE <1>4 DEF S!UnrefLast, S!DeleteBegin
  <2>1. PICK k \in Key : k = S!KeyOfConn(t)
    BY ServedKey, Zenon DEF CountInv
  <2>2. keyOf' = keyOf
    BY Zenon DEF S!CloseHandle, S!Unregister, S!meshVars
  <2>3. S!RefsCounted'
    <3>1. count' = [count EXCEPT ![k] = @ - 1]
      <4>1. count[k] - 1 = 0 /\ count' = [count EXCEPT ![k] = 0]
        BY <2>1
      <4> QED
        BY <4>1, Zenon
    <3>2. /\ at'[t] # "serving" /\ \A u \in Handler : u # t => at'[u] = at[u]
          /\ \A u \in Handler : u # t => served'[u] = served[u]
          /\ rcNode' = rcNode
      BY Zenon DEF CountInv, EntryInv, S!TypeOK
    <3> QED
      BY <1>1, <2>1, <2>2, <3>1, <3>2, CloseCounts, Zenon
  <2>4. ASSUME NEW u \in Handler, at'[u] = "closing" PROVE count'[S!KeyOfConn(u)'] = 0
    <3>1. u = t
      BY <2>4, ServicesAssumption, Zenon DEF CountInv, EntryInv, Handlers, S!TypeOK
    <3> QED
      BY <2>1, <2>2, <3>1, Zenon DEF S!KeyOfConn, CountInv, EntryInv, S!TypeOK
  <2> QED
    BY <1>1, <2>3, <2>4, Zenon DEF CountInv
<1>5. ASSUME NEW t \in Handler, S!DeleteEnd(t) PROVE CountInv'
  BY <1>1, <1>5, DeleteEndCounts, Zenon
<1>6. ASSUME NEW t \in Thread, S!Closing(t) \/ S!ServerClose(t) PROVE CountInv'
  <2>1. UNCHANGED <<rcNode, count, served, at, keyOf>>
    BY <1>6, Zenon DEF S!Closing, S!CloseLayer, S!ServerClose, S!MeshClose, S!CloseBegin, S!CloseNode, S!CloseMain
  <2> QED
    BY <1>1, <2>1, OthersCount, Zenon DEF CountInv
<1>7. CASE UNCHANGED S!vars
  <2>1. UNCHANGED <<rcNode, count, served, at, keyOf>>
    BY <1>7, Zenon DEF S!vars, S!meshVars
  <2> QED
    BY <1>1, <2>1, OthersCount, Zenon DEF CountInv
<1> QED
  BY <1>2, <1>3, <1>4, <1>5, <1>6, <1>7, Zenon DEF S!HttpNext

\* A new server has no references.
LEMMA CountInit == S!Init => CountInv
<1> SUFFICES ASSUME S!Init PROVE CountInv
  BY Zenon
<1>1. EntryInv
  BY EntryInit, Zenon
<1>2. \A k \in Key : S!Serving(k) = {} /\ count[k] = 0
  BY Zenon DEF S!Serving, S!Init
<1>3. S!RefsCounted
  BY <1>2, FS_EmptySet, SameCardinality, Zenon DEF S!RefsCounted
<1> QED
  BY <1>1, <1>3, Zenon DEF CountInv, S!Init

\* ServedIsOpen: no connection loses its node because another one ends.  Until the
\* server is closed, the node of a handler that serves is the one in the table, and
\* no layer of it is closed.
THEOREM NoConnectionLosesItsNode == S!HttpSpec => []ServedIsOpen
<1>1. CountInv => ServedIsOpen
  <2> SUFFICES ASSUME CountInv, ~stopped, NEW t \in Handler, at[t] = "serving"
               PROVE  /\ meshNodes[S!KeyOfConn(t)] = served[t]
                      /\ layers[served[t]] = 0
    BY Zenon DEF ServedIsOpen, S!ServedIsOpen
  <2>1. PICK k \in Key : k = S!KeyOfConn(t)
    BY ServedKey, Zenon DEF CountInv
  <2>2. t \in S!Serving(k)
    BY <2>1, Zenon DEF S!Serving
  <2>3. served[t] = rcNode[k] /\ rcNode[k] # None
    BY <2>1, <2>2, NoneServed, Zenon DEF CountInv, S!RefsCounted
  <2>4. meshNodes[k] # None
    <3> SUFFICES ASSUME meshNodes[k] = None PROVE FALSE
      BY Zenon
    <3>1. PICK u \in Handler : rcmu = u /\ keyOf[served[u]] = k
      BY <2>3, Zenon DEF CountInv, EntryInv, Entries
    <3>2. count[k] = 0
      BY <3>1, Zenon DEF CountInv, EntryInv, Handlers, S!KeyOfConn
    <3> QED
      BY <2>2, <3>2, NoneServed, Zenon
  <2>5. mu = None /\ layers[meshNodes[k]] = 0 /\ keyOf[meshNodes[k]] = k
    BY <2>4, Zenon DEF CountInv, EntryInv, MeshInv, Table, ClosePhase
  <2>6. meshNodes[k] = rcNode[k]
    BY <2>4, <2>5, ServicesAssumption DEF CountInv, EntryInv, Entries, MeshInv, S!MeshTypeOK, S!Layers
  <2> QED
    BY <2>1, <2>3, <2>5, <2>6, Zenon
<1> QED
  BY <1>1, CountInit, CountStep, PTL DEF S!HttpSpec

----------------------------------------------------------------------------
(* inet256mem.                                                              *)

\* The table holds the open node of each key, under its key.
MemTable ==
  /\ \A k \in Key : memNodes[k] # None => memKeyOf[memNodes[k]] = k /\ memNodes[k] \in open
  /\ \A h \in open : memKeyOf[h] # None /\ memNodes[memKeyOf[h]] = h

\* A message that is between getNode and Deliver is for a node of its destination
\* and was not received; one that was not sent is nowhere.
MemSends ==
  \A i \in DataId :
    /\ told[i] = None => target[i] = None /\ delivered[i] = <<>>
    /\ target[i] # None => delivered[i] = <<>> /\ memKeyOf[target[i]] = told[i].dst

\* So is one in a queue, and it is in no Send any more.
MemQueues ==
  \A h \in Handle : \A n \in 1 .. Len(queue[h]) :
    LET m == queue[h][n] IN
    /\ told[m.id] # None /\ target[m.id] = None /\ delivered[m.id] = <<>>
    /\ m.src = told[m.id].src /\ memKeyOf[h] = told[m.id].dst

\* No message is in two queues, or in two places of one.
OnceIn(q) ==
  \A g, h \in Handle : \A n \in 1 .. Len(q[g]), p \in 1 .. Len(q[h]) :
    q[g][n].id = q[h][p].id => g = h /\ n = p

\* The queues of the service are such queues.
MemOnce == OnceIn(queue)

\* The inductive invariant of the in-memory service.
MemInv == M!TypeOK /\ MemTable /\ MemSends /\ MemQueues /\ MemOnce

\* A new service has no nodes and no messages.
LEMMA MemInit == M!Init => MemInv
<1> SUFFICES ASSUME M!Init PROVE MemInv
  BY Zenon
<1>1. queue \in [Handle -> Seq([id : DataId, src : Key])]
  BY DEF M!Init
<1>2. delivered \in [DataId -> Seq([at : Key, src : Key])]
  BY DEF M!Init
<1>3. M!TypeOK
  BY <1>1, <1>2, Zenon DEF M!TypeOK, M!Init
<1>4. MemTable /\ MemSends
  BY Zenon DEF M!Init, MemTable, MemSends
<1>5. \A h \in Handle : 1 .. Len(queue[h]) = {}
  BY DEF M!Init
<1>6. MemQueues /\ MemOnce
  BY <1>5, Zenon DEF MemQueues, MemOnce, OnceIn
<1> QED
  BY <1>3, <1>4, <1>6, Zenon DEF MemInv

\* The elements of a sequence.
LEMMA SeqElement == \A T : \A s \in Seq(T) : \A n \in 1 .. Len(s) : s[n] \in T
OBVIOUS

\* Append keeps the elements and adds the last.
LEMMA SeqAppend ==
  \A T : \A s \in Seq(T) : \A e \in T :
    /\ Append(s, e) \in Seq(T) /\ Len(Append(s, e)) = Len(s) + 1 /\ Len(s) \in Nat
    /\ \A n \in 1 .. Len(s) : Append(s, e)[n] = s[n]
    /\ Append(s, e)[Len(s) + 1] = e
OBVIOUS

\* Tail drops the first element and moves the others down.
LEMMA SeqTail ==
  \A T : \A s \in Seq(T) : s # <<>> =>
    /\ Tail(s) \in Seq(T) /\ Len(Tail(s)) = Len(s) - 1 /\ Len(s) \in Nat \ {0}
    /\ Head(s) = s[1] /\ Head(s) \in T
    /\ \A n \in 1 .. Len(s) - 1 : Tail(s)[n] = s[n + 1]
OBVIOUS

\* What a queue holds.
LEMMA MemEntry ==
  ASSUME MemInv, NEW h \in Handle, NEW n \in 1 .. Len(queue[h])
  PROVE  /\ queue[h][n] \in [id : DataId, src : Key] /\ queue[h][n].id \in DataId
         /\ told[queue[h][n].id] # None /\ told[queue[h][n].id] \in [src : Key, dst : Key]
         /\ target[queue[h][n].id] = None /\ delivered[queue[h][n].id] = <<>>
         /\ queue[h][n].src = told[queue[h][n].id].src
         /\ memKeyOf[h] = told[queue[h][n].id].dst /\ memKeyOf[h] \in Key
<1>1. queue[h] \in Seq([id : DataId, src : Key])
  BY Zenon DEF MemInv, M!TypeOK
<1>2. queue[h][n] \in [id : DataId, src : Key]
  BY <1>1, SeqElement, Zenon
<1>3. queue[h][n].id \in DataId
  BY <1>2, Zenon
<1>4. told[queue[h][n].id] # None
  BY Zenon DEF MemInv, MemQueues
<1>5. told[queue[h][n].id] \in [src : Key, dst : Key]
  BY <1>3, <1>4, Zenon DEF MemInv, M!TypeOK
<1> QED
  BY <1>2, <1>3, <1>4, <1>5, Zenon DEF MemInv, MemQueues

\* Entries of the same message are the same entry.
LEMMA MemApart ==
  ASSUME MemInv, NEW g \in Handle, NEW h \in Handle,
         NEW n \in 1 .. Len(queue[g]), NEW p \in 1 .. Len(queue[h]),
         queue[g][n].id = queue[h][p].id
  PROVE  g = h /\ n = p
<1>1. OnceIn(queue)
  BY Zenon DEF MemInv, MemOnce
<1> QED  BY <1>1 DEF OnceIn

\* Open: the nodes that messages are for keep their keys.
LEMMA MemOpenKeeps ==
  ASSUME MemInv, NEW k \in Key, NEW h \in Handle, M!Open(k, h)
  PROVE  MemInv'
<1>1. M!TypeOK'
  BY Zenon DEF MemInv, M!Open, M!TypeOK
<1>2. MemTable'
  BY ServicesAssumption DEF MemInv, M!Open, M!TypeOK, MemTable
<1>3. \A g \in Handle : memKeyOf[g] # None => memKeyOf'[g] = memKeyOf[g]
  BY Zenon DEF MemInv, M!Open, M!TypeOK
<1>4. MemSends'
  <2> SUFFICES ASSUME NEW i \in DataId, target[i] # None
               PROVE  memKeyOf'[target[i]] = told[i].dst
    BY Zenon DEF MemInv, M!Open, MemSends
  <2>1. target[i] \in Handle /\ memKeyOf[target[i]] = told[i].dst
    BY Zenon DEF MemInv, M!TypeOK, MemSends
  <2>2. told[i] \in [src : Key, dst : Key]
    BY Zenon DEF MemInv, M!TypeOK, MemSends
  <2>3. told[i].dst \in Key
    BY <2>2, Zenon
  <2> QED
    BY <1>3, <2>1, <2>3, ServicesAssumption, Zenon
<1>5. MemQueues'
  <2> SUFFICES ASSUME NEW g \in Handle, NEW n \in 1 .. Len(queue[g])
               PROVE  memKeyOf'[g] = memKeyOf[g]
    BY Zenon DEF MemQueues, MemInv, M!Open
  <2> QED
    BY <1>3, MemEntry, ServicesAssumption, Zenon
<1>6. MemOnce'
  <2>1. queue' = queue
    BY Zenon DEF M!Open
  <2> QED  BY <2>1, Zenon DEF MemInv, MemOnce
<1> QED
  BY <1>1, <1>2, <1>4, <1>5, <1>6, Zenon DEF MemInv

\* Drop and Close.
LEMMA MemDeleteKeeps ==
  ASSUME MemInv, NEW k \in Key, M!Delete(k)
  PROVE  MemInv'
<1>1. M!TypeOK'
  BY Zenon DEF MemInv, M!Delete, M!TypeOK
<1>2. MemTable'
  BY ServicesAssumption DEF MemInv, M!Delete, M!TypeOK, MemTable
<1>3. memKeyOf' = memKeyOf /\ queue' = queue /\ target' = target /\ told' = told /\ delivered' = delivered
  BY Zenon DEF M!Delete
<1>4. MemSends'
  BY <1>3, Zenon DEF MemInv, MemSends
<1>5. MemQueues'
  BY <1>3, Zenon DEF MemInv, MemQueues
<1>6. MemOnce'
  BY <1>3, Zenon DEF MemInv, MemOnce
<1> QED
  BY <1>1, <1>2, <1>4, <1>5, <1>6, Zenon DEF MemInv

\* Send, up to getNode.
LEMMA MemSendKeeps ==
  ASSUME MemInv, NEW h \in Handle, NEW k \in Key, NEW i \in DataId, M!Send(h, k, i)
  PROVE  MemInv'
<1>1. PICK r \in [src : Key, dst : Key] : r = [src |-> memKeyOf[h], dst |-> k]
  BY Zenon DEF MemInv, M!Send, M!TypeOK
<1>2. told' = [told EXCEPT ![i] = r] /\ r.dst = k /\ r # None
  BY <1>1, ServicesAssumption, Zenon DEF M!Send
<1>3. M!TypeOK'
  BY <1>2, ZenonT(40) DEF MemInv, M!TypeOK, M!Send
<1>4. MemTable'
  BY Zenon DEF MemInv, M!Send, MemTable
<1>5. MemSends'
  <2>1. memKeyOf' = memKeyOf /\ delivered' = delivered
    BY Zenon DEF M!Send
  <2>2. \A j \in DataId : j # i => told'[j] = told[j] /\ target'[j] = target[j]
    BY <1>2, Zenon DEF MemInv, M!TypeOK, M!Send
  <2>3. told'[i] = r /\ target'[i] = memNodes[k] /\ delivered[i] = <<>>
    BY <1>2, Zenon DEF MemInv, M!TypeOK, M!Send, MemSends
  <2>4. memNodes[k] # None => memKeyOf[memNodes[k]] = k
    BY Zenon DEF MemInv, MemTable
  <2> SUFFICES ASSUME NEW j \in DataId
               PROVE  /\ told'[j] = None => target'[j] = None /\ delivered[j] = <<>>
                      /\ target'[j] # None => delivered[j] = <<>> /\ memKeyOf[target'[j]] = told'[j].dst
    BY <2>1, Zenon DEF MemSends
  <2>5. CASE j = i
    BY <1>2, <2>3, <2>4, <2>5, Zenon
  <2>6. CASE j # i
    BY <2>2, <2>6, Zenon DEF MemInv, MemSends
  <2> QED
    BY <2>5, <2>6, Zenon
<1>6. MemQueues'
  <2>1. queue' = queue /\ delivered' = delivered /\ memKeyOf' = memKeyOf
    BY Zenon DEF M!Send
  <2> SUFFICES ASSUME NEW g \in Handle, NEW n \in 1 .. Len(queue'[g])
               PROVE  LET e == queue'[g][n] IN
                      /\ told'[e.id] # None /\ target'[e.id] = None /\ delivered'[e.id] = <<>>
                      /\ e.src = told'[e.id].src /\ memKeyOf'[g] = told'[e.id].dst
    BY Zenon DEF MemQueues
  <2>2. PICK e \in [id : DataId, src : Key] : /\ e = queue[g][n]
                                             /\ told[e.id] # None /\ target[e.id] = None
                                             /\ delivered[e.id] = <<>> /\ e.src = told[e.id].src
                                             /\ memKeyOf[g] = told[e.id].dst
    <3>1. n \in 1 .. Len(queue[g])
      BY <2>1, Zenon
    <3>2. queue[g][n] \in [id : DataId, src : Key]
      BY <3>1, MemEntry, Zenon
    <3> QED  BY <3>1, <3>2, MemEntry, ZenonT(40)
  <2>3. e.id # i /\ e.id \in DataId
    BY <2>2, Zenon DEF M!Send
  <2>4. told'[e.id] = told[e.id] /\ target'[e.id] = target[e.id]
    BY <2>3, Zenon DEF M!Send, MemInv, M!TypeOK
  <2> QED
    BY <2>1, <2>2, <2>4, Zenon
<1>7. MemOnce'
  <2>1. queue' = queue
    BY Zenon DEF M!Send
  <2> QED  BY <2>1, Zenon DEF MemInv, MemOnce
<1> QED
  BY <1>3, <1>4, <1>5, <1>6, <1>7, Zenon DEF MemInv

\* Deliver: a message that enters a queue was in none.
LEMMA MemDeliverKeeps ==
  ASSUME MemInv, NEW i \in DataId, M!SendDeliver(i)
  PROVE  MemInv'
<1>1. PICK h \in Handle : h = target[i]
  BY Zenon DEF MemInv, M!TypeOK, M!SendDeliver
<1>2. told[i] \in [src : Key, dst : Key] /\ memKeyOf[h] = told[i].dst /\ delivered[i] = <<>>
  BY <1>1, Zenon DEF MemInv, M!TypeOK, M!SendDeliver, MemSends
<1>3. PICK m \in [id : DataId, src : Key] : m = [id |-> i, src |-> told[i].src]
  BY <1>2, Zenon
<1>4. queue' = queue \/ queue' = [queue EXCEPT ![h] = Append(queue[h], m)]
  <2>1. queue' = [queue EXCEPT ![h] = IF M!Accepts(h) THEN Append(queue[h], m) ELSE queue[h]]
    BY <1>1, <1>3, Zenon DEF M!SendDeliver
  <2> QED
    BY <2>1, Zenon DEF MemInv, M!TypeOK
<1>5. \A g \in Handle : queue[g] \in Seq([id : DataId, src : Key])
  BY Zenon DEF MemInv, M!TypeOK
<1>6. Append(queue[h], m) \in Seq([id : DataId, src : Key])
  BY <1>5, SeqAppend, Zenon
<1>7. M!TypeOK'
  BY <1>4, <1>6, Zenon DEF MemInv, M!TypeOK, M!SendDeliver
<1>8. MemTable' /\ MemSends'
  BY Zenon DEF MemInv, M!SendDeliver, M!TypeOK, MemTable, MemSends
<1>9. \A g \in Handle : \A n \in 1 .. Len(queue'[g]) :
        \/ n \in 1 .. Len(queue[g]) /\ queue'[g][n] = queue[g][n]
        \/ g = h /\ n = Len(queue[h]) + 1 /\ queue'[g][n] = m
  <2>1. /\ Len(Append(queue[h], m)) = Len(queue[h]) + 1
        /\ \A n \in 1 .. Len(queue[h]) : Append(queue[h], m)[n] = queue[h][n]
        /\ Append(queue[h], m)[Len(queue[h]) + 1] = m
        /\ Len(queue[h]) \in Nat
    BY <1>5, SeqAppend
  <2>2. \A g \in Handle : queue'[g] = queue[g] \/ (g = h /\ queue'[g] = Append(queue[h], m))
    BY <1>4, Zenon DEF MemInv, M!TypeOK
  <2> QED
    BY <2>1, <2>2
<1>10. ASSUME NEW g \in Handle, NEW n \in 1 .. Len(queue[g]) PROVE queue[g][n].id # i
  <2>1. target[i] # None /\ target[queue[g][n].id] = None
    BY MemEntry, Zenon DEF M!SendDeliver
  <2> QED  BY <2>1, Zenon
<1>11. m.id = i /\ m.src = told[i].src
  BY <1>3, Zenon
<1>12. MemQueues'
  <2> SUFFICES ASSUME NEW g \in Handle, NEW n \in 1 .. Len(queue'[g])
               PROVE  LET e == queue'[g][n] IN
                      /\ told'[e.id] # None /\ target'[e.id] = None /\ delivered'[e.id] = <<>>
                      /\ e.src = told'[e.id].src /\ memKeyOf'[g] = told'[e.id].dst
    BY Zenon DEF MemQueues
  <2>1. UNCHANGED <<told, delivered, memKeyOf>> /\ target' = [target EXCEPT ![i] = None]
    BY Zenon DEF M!SendDeliver
  <2>2. CASE n \in 1 .. Len(queue[g]) /\ queue'[g][n] = queue[g][n]
    <3>1. queue[g][n].id # i /\ queue[g][n].id \in DataId
      BY <2>2, <1>10, MemEntry, Zenon
    <3>2. target'[queue[g][n].id] = None
      BY <2>1, <2>2, <3>1, MemEntry, Zenon DEF MemInv, M!TypeOK
    <3>3. told[queue[g][n].id] # None /\ delivered[queue[g][n].id] = <<>>
      BY <2>2, MemEntry, Zenon
    <3>4. queue[g][n].src = told[queue[g][n].id].src /\ memKeyOf[g] = told[queue[g][n].id].dst
      BY <2>2, MemEntry, Zenon
    <3> QED
      BY <2>1, <2>2, <3>2, <3>3, <3>4, Zenon
  <2>3. CASE g = h /\ queue'[g][n] = m
    <3>1. target'[i] = None
      BY <2>1, Zenon DEF MemInv, M!TypeOK
    <3> QED
      BY <2>1, <2>3, <3>1, <1>2, <1>11, ServicesAssumption, Zenon
  <2> QED
    BY <1>9, <2>2, <2>3, Zenon
<1>13. MemOnce'
  <2> SUFFICES ASSUME NEW g \in Handle, NEW f \in Handle,
                      NEW n \in 1 .. Len(queue'[g]), NEW p \in 1 .. Len(queue'[f]),
                      queue'[g][n].id = queue'[f][p].id
               PROVE  g = f /\ n = p
    BY Zenon DEF MemOnce, OnceIn
  <2>1. CASE n \in 1 .. Len(queue[g]) /\ p \in 1 .. Len(queue[f])
    <3>1. Len(queue[h]) \in Nat
      BY <1>5, <1>3, SeqAppend
    <3>2. queue'[g][n] = queue[g][n] /\ queue'[f][p] = queue[f][p]
      BY <2>1, <3>1, <1>9
    <3> QED
      BY <2>1, <3>2, MemApart
  <2>2. CASE n \notin 1 .. Len(queue[g]) \/ p \notin 1 .. Len(queue[f])
    BY <2>2, <1>9, <1>10, <1>11, Zenon
  <2> QED
    BY <2>1, <2>2, Zenon
<1> QED
  BY <1>7, <1>8, <1>12, <1>13, Zenon DEF MemInv

\* Receive: the message that is handed out leaves its only place.
LEMMA MemReceiveKeeps ==
  ASSUME MemInv, NEW h \in Handle, M!Receive(h)
  PROVE  MemInv'
<1>1. queue[h] \in Seq([id : DataId, src : Key]) /\ queue[h] # <<>>
  BY Zenon DEF MemInv, M!TypeOK, M!Receive
<1>2. PICK m \in [id : DataId, src : Key] : m = Head(queue[h]) /\ m = queue[h][1]
  BY <1>1, SeqTail, Zenon
<1>3. /\ m.id \in DataId /\ target[m.id] = None /\ delivered[m.id] = <<>>
      /\ told[m.id] \in [src : Key, dst : Key]
      /\ memKeyOf[h] \in Key /\ m.src \in Key
  <2>1. 1 \in 1 .. Len(queue[h])
    BY <1>1, SeqTail
  <2> QED
    BY <1>2, <2>1, MemEntry
<1>4. /\ UNCHANGED <<memKeyOf, memNodes, open, target, told>>
      /\ queue' = [queue EXCEPT ![h] = Tail(queue[h])]
      /\ delivered' = [delivered EXCEPT ![m.id] =
                         Append(delivered[m.id], [at |-> memKeyOf[h], src |-> m.src])]
  BY <1>2, Zenon DEF M!Receive
<1>5. \A g \in Handle : \A n \in 1 .. Len(queue'[g]) : \E q \in 1 .. Len(queue[g]) :
        /\ queue'[g][n] = queue[g][q] /\ queue[g][q].id # m.id
        /\ q = IF g = h THEN n + 1 ELSE n
  <2> SUFFICES ASSUME NEW g \in Handle, NEW n \in 1 .. Len(queue'[g])
               PROVE  \E q \in 1 .. Len(queue[g]) :
                        /\ queue'[g][n] = queue[g][q] /\ queue[g][q].id # m.id
                        /\ q = IF g = h THEN n + 1 ELSE n
    BY Zenon
  <2>1. CASE g = h
    <3>1. queue'[h] = Tail(queue[h])
      BY <1>4, Zenon DEF MemInv, M!TypeOK
    <3>2. n + 1 \in 1 .. Len(queue[h]) /\ queue'[h][n] = queue[h][n + 1]
      BY <1>1, <2>1, <3>1, SeqTail
    <3>3. queue[h][n + 1].id # m.id
      <4>1. n + 1 # 1 /\ 1 \in 1 .. Len(queue[h])
        BY <3>2
      <4> QED  BY <1>2, <3>2, <4>1, MemApart
    <3> QED
      BY <2>1, <3>2, <3>3, Zenon
  <2>2. CASE g # h
    <3>1. queue'[g] = queue[g]
      BY <1>4, <2>2, Zenon DEF MemInv, M!TypeOK
    <3>2. queue[g][n].id # m.id
      <4>1. 1 \in 1 .. Len(queue[h])
        BY <1>1, SeqTail
      <4> QED  BY <1>2, <2>2, <3>1, <4>1, MemApart
    <3> QED
      BY <2>2, <3>1, <3>2, Zenon
  <2> QED
    BY <2>1, <2>2, Zenon
<1>6. M!TypeOK'
  <2>1. queue' \in [Handle -> Seq([id : DataId, src : Key])]
    <3>1. Tail(queue[h]) \in Seq([id : DataId, src : Key])
      BY <1>1, SeqTail, Zenon
    <3> QED
      BY <1>4, <3>1, Zenon DEF MemInv, M!TypeOK
  <2>2. delivered' \in [DataId -> Seq([at : Key, src : Key])]
    <3>1. [at |-> memKeyOf[h], src |-> m.src] \in [at : Key, src : Key]
      BY <1>3, Zenon
    <3>2. delivered[m.id] \in Seq([at : Key, src : Key])
      BY <1>3, Zenon DEF MemInv, M!TypeOK
    <3>3. Append(delivered[m.id], [at |-> memKeyOf[h], src |-> m.src]) \in Seq([at : Key, src : Key])
      BY <3>1, <3>2, SeqAppend, Zenon
    <3> QED
      BY <1>4, <3>3, Zenon DEF MemInv, M!TypeOK
  <2> QED
    BY <1>4, <2>1, <2>2, Zenon DEF MemInv, M!TypeOK
<1>7. MemTable'
  BY <1>4, Zenon DEF MemInv, MemTable
<1>8. \A i \in DataId : i # m.id => delivered'[i] = delivered[i]
  BY <1>4, Zenon DEF MemInv, M!TypeOK
<1>9. MemSends'
  BY <1>3, <1>4, <1>8, ServicesAssumption, Zenon DEF MemInv, MemSends
<1>10. MemQueues'
  <2> SUFFICES ASSUME NEW g \in Handle, NEW n \in 1 .. Len(queue'[g])
               PROVE  LET e == queue'[g][n] IN
                      /\ told'[e.id] # None /\ target'[e.id] = None /\ delivered'[e.id] = <<>>
                      /\ e.src = told'[e.id].src /\ memKeyOf'[g] = told'[e.id].dst
    BY Zenon DEF MemQueues
  <2>1. PICK q \in 1 .. Len(queue[g]) : queue'[g][n] = queue[g][q] /\ queue[g][q].id # m.id
    BY <1>5, Zenon
  <2>2. delivered'[queue[g][q].id] = delivered[queue[g][q].id]
    BY <1>8, <2>1, MemEntry, Zenon
  <2>3. told[queue[g][q].id] # None /\ target[queue[g][q].id] = None /\ delivered[queue[g][q].id] = <<>>
    BY MemEntry, Zenon
  <2>4. queue[g][q].src = told[queue[g][q].id].src /\ memKeyOf[g] = told[queue[g][q].id].dst
    BY MemEntry, Zenon
  <2> QED
    BY <1>4, <2>1, <2>2, <2>3, <2>4, Zenon
<1>11. MemOnce'
  <2> SUFFICES ASSUME NEW g \in Handle, NEW f \in Handle,
                      NEW n \in 1 .. Len(queue'[g]), NEW p \in 1 .. Len(queue'[f]),
                      queue'[g][n].id = queue'[f][p].id
               PROVE  g = f /\ n = p
    BY Zenon DEF MemOnce, OnceIn
  <2>1. PICK q \in 1 .. Len(queue[g]) : /\ queue'[g][n] = queue[g][q]
                                        /\ q = IF g = h THEN n + 1 ELSE n
    BY <1>5, Zenon
  <2>2. PICK r \in 1 .. Len(queue[f]) : /\ queue'[f][p] = queue[f][r]
                                        /\ r = IF f = h THEN p + 1 ELSE p
    BY <1>5, Zenon
  <2>3. g = f /\ q = r
    BY <2>1, <2>2, MemApart
  <2> QED
    BY <2>1, <2>2, <2>3
<1> QED
  BY <1>6, <1>7, <1>9, <1>10, <1>11, Zenon DEF MemInv

\* Every step keeps the invariant.
LEMMA MemStep == MemInv /\ [M!Next]_M!vars => MemInv'
<1> SUFFICES ASSUME MemInv, [M!Next]_M!vars PROVE MemInv'
  BY Zenon
<1>1. CASE UNCHANGED M!vars
  <2>1. M!TypeOK'
    BY <1>1, Zenon DEF M!vars, MemInv, M!TypeOK
  <2>2. MemTable' /\ MemSends'
    BY <1>1, Zenon DEF M!vars, MemInv, MemTable, MemSends
  <2>3. MemQueues'
    BY <1>1, Zenon DEF M!vars, MemInv, MemQueues
  <2>4. MemOnce'
    BY <1>1, Zenon DEF M!vars, MemInv, MemOnce
  <2> QED
    BY <2>1, <2>2, <2>3, <2>4, Zenon DEF MemInv
<1> QED
  BY <1>1, MemOpenKeeps, MemDeleteKeeps, MemSendKeeps, MemDeliverKeeps, MemReceiveKeeps, Zenon DEF M!Next

\* MemIsService: whatever is dropped and opened again while a Send is between
\* getNode and Deliver, a message is delivered at most once, at the address it was
\* sent to, under its sender's address.
THEOREM MemImplementsService == M!Spec => MemIsService
<1>1. M!Init => M!Service!Init
  BY Zenon DEF M!Init, M!Service!Init
<1>2. MemInv /\ [M!Next]_M!vars => [M!Service!Next]_<<told, delivered>>
  <2> SUFFICES ASSUME MemInv, [M!Next]_M!vars
               PROVE  M!Service!Next \/ UNCHANGED <<told, delivered>>
    BY Zenon
  <2>1. ASSUME NEW h \in Handle, NEW k \in Key, NEW i \in DataId, M!Send(h, k, i)
        PROVE  M!Service!Next
    <3>1. memKeyOf[h] \in Key
      BY <2>1, Zenon DEF MemInv, M!TypeOK, M!Send
    <3>2. M!Service!Tell(memKeyOf[h], k, i)
      BY <2>1, Zenon DEF M!Send, M!Service!Tell
    <3> QED
      BY <3>1, <3>2, Zenon DEF M!Service!Next
  <2>2. ASSUME NEW h \in Handle, M!Receive(h) PROVE M!Service!Next
    <3>1. queue[h] \in Seq([id : DataId, src : Key]) /\ queue[h] # <<>>
      BY <2>2, Zenon DEF MemInv, M!TypeOK, M!Receive
    <3>2. PICK i \in DataId : /\ i = Head(queue[h]).id
                              /\ told[i] # None /\ delivered[i] = <<>>
                              /\ Head(queue[h]).src = told[i].src /\ memKeyOf[h] = told[i].dst
      <4>1. 1 \in 1 .. Len(queue[h]) /\ Head(queue[h]) = queue[h][1]
        BY <3>1, SeqTail
      <4> QED
        BY <4>1, MemEntry, ServicesAssumption
    <3>3. Append(delivered[i], [at |-> told[i].dst, src |-> told[i].src])
            = <<[at |-> told[i].dst, src |-> told[i].src]>>
      BY <3>2
    <3>4. M!Service!Deliver(i)
      BY <2>2, <3>2, <3>3, Zenon DEF M!Receive, M!Service!Deliver
    <3> QED
      BY <3>4, Zenon DEF M!Service!Next
  <2>3. ASSUME NEW k \in Key, M!Delete(k) \/ \E h \in Handle : M!Open(k, h)
        PROVE  UNCHANGED <<told, delivered>>
    BY <2>3, Zenon DEF M!Delete, M!Open
  <2>4. ASSUME NEW i \in DataId, M!SendDeliver(i) PROVE UNCHANGED <<told, delivered>>
    BY <2>4, Zenon DEF M!SendDeliver
  <2> QED
    BY <2>1, <2>2, <2>3, <2>4, Zenon DEF M!Next, M!vars
<1> QED
  BY <1>1, <1>2, MemInit, MemStep, PTL
     DEF M!Spec, MemIsService, M!ServiceSpec, M!Service!Spec

\* The registry that inet256mem implements.
LEMMA MemStatus ==
  ASSUME MemInv, [M!Next]_M!vars
  PROVE  [M!Registry!Next]_<<memKeyOf, [h \in Handle |-> IF memKeyOf[h] = None THEN "new"
                                                        ELSE IF h \in open THEN "open"
                                                        ELSE "released"]>>
<1> DEFINE St(h) == IF memKeyOf[h] = None THEN "new" ELSE IF h \in open THEN "open" ELSE "released"
<1> SUFFICES M!Registry!Next \/ UNCHANGED <<memKeyOf, [h \in Handle |-> St(h)]>>
  BY Zenon
<1>1. ASSUME NEW k \in Key, NEW h \in Handle, M!Open(k, h) PROVE M!Registry!Next
  <2>1. \A g \in Handle : memKeyOf[g] = k => g \notin open
    BY <1>1, ServicesAssumption DEF M!Open, MemInv, MemTable
  <2>2. M!Registry!Open(k, h)
    <3>1. [g \in Handle |-> St(g)]' = [[g \in Handle |-> St(g)] EXCEPT ![h] = "open"]
      BY <1>1, ServicesAssumption, Zenon DEF M!Open, MemInv, M!TypeOK
    <3>2. St(h) = "new" /\ \A g \in Handle : memKeyOf[g] = k => St(g) # "open"
      BY <1>1, <2>1, Zenon DEF M!Open
    <3> QED
      BY <1>1, <3>1, <3>2, Zenon DEF M!Open, M!Registry!Open
  <2> QED
    BY <2>2, Zenon DEF M!Registry!Next
<1>2. ASSUME NEW k \in Key, M!Delete(k) PROVE M!Registry!Next
  <2>1. PICK h \in Handle : h = memNodes[k] /\ memKeyOf[h] # None /\ h \in open
    BY <1>2, ServicesAssumption, Zenon DEF M!Delete, MemInv, M!TypeOK, MemTable
  <2>2. M!Registry!Release(h)
    <3>1. [g \in Handle |-> St(g)]' = [[g \in Handle |-> St(g)] EXCEPT ![h] = "released"]
      BY <1>2, <2>1, Zenon DEF M!Delete
    <3>2. St(h) = "open"
      BY <2>1, Zenon
    <3> QED
      BY <1>2, <3>1, <3>2, Zenon DEF M!Delete, M!Registry!Release
  <2> QED
    BY <2>2, Zenon DEF M!Registry!Next
<1>3. CASE UNCHANGED <<memKeyOf, open>>
  BY <1>3, Zenon
<1> QED
  BY <1>1, <1>2, <1>3, Zenon DEF M!Next, M!Send, M!SendDeliver, M!Receive, M!vars

\* inet256mem implements the registry of nodes too: Open makes a node for a key
\* that has none open, and a node leaves the service once.
THEOREM MemImplementsRegistry == M!Spec => M!ImplementsRegistry
<1>1. M!Init => M!Registry!Init
  BY Zenon DEF M!Init, M!Registry!Init
<1> QED
  BY <1>1, MemInit, MemStep, MemStatus, PTL DEF M!Spec, M!ImplementsRegistry, M!Registry!Spec

----------------------------------------------------------------------------
(* The daemon.                                                              *)

\* A connection is open, and a handler at work on it, only while the API is; the
\* API works only while the group runs; the server is open while the group runs.
Phases ==
  /\ DOMAIN nodes = Key
  /\ run \in {"new", "group", "closing", "returned"}
  /\ run = "new" => api = "off"
  /\ run \in {"closing", "returned"} => api = "returned"
  /\ run \in {"group", "closing"} => server = "open"
  /\ run = "returned" => server = "closed"
  /\ DOMAIN conn = Conn
  /\ accepting => api = "listening"
  /\ \A c \in Conn : conn[c] \in {"dialed", "reading", "opening"} => api \in {"listening", "shutdown"}

\* The inductive invariant of the daemon.
DaemonInv == Phases /\ NothingAfterClose

\* The invariant holds before Run.
LEMMA InitDaemon == Init => DaemonInv
BY Zenon DEF Init, DaemonInv, Phases, NothingAfterClose

\* A handler finds the server open.
LEMMA OpeningServed ==
  ASSUME Phases, NEW c \in Conn, conn[c] \in {"dialed", "reading", "opening"}
  PROVE  run = "group" /\ server = "open" /\ api \in {"listening", "shutdown"}
BY Zenon DEF Phases

\* Steps of Run, of the API and of discovery.
LEMMA RunSteps ==
  ASSUME DaemonInv,
         \/ Setup \/ DoWithServer \/ CallerCancels \/ GroupEnds \/ ServerCloses
         \/ Listen \/ ListenFails \/ ServeFails \/ Shutdown \/ ShutdownReturns
         \/ \E s \in Disc : DiscStep(s) \/ DiscEnds(s)
  PROVE  DaemonInv'
<1>0. ASSUME CallerCancels \/ ServeFails \/ \E s \in Disc : DiscStep(s) \/ DiscEnds(s)
      PROVE  UNCHANGED <<run, server, api, conn, nodes, got>> /\ (accepting' => accepting)
  <2>1. CASE CallerCancels
    BY <2>1, Zenon DEF CallerCancels, clients
  <2>2. CASE ServeFails
    BY <2>2, Zenon DEF ServeFails, clients
  <2>3. ASSUME NEW s \in Disc, DiscStep(s)
        PROVE  UNCHANGED <<run, server, api, conn, nodes, got>> /\ (accepting' => accepting)
    BY <2>3, Zenon DEF DiscStep, clients
  <2>4. ASSUME NEW s \in Disc, DiscEnds(s)
        PROVE  UNCHANGED <<run, server, api, conn, nodes, got>> /\ (accepting' => accepting)
    BY <2>4, Zenon DEF DiscEnds, clients
  <2> QED BY <1>0, <2>1, <2>2, <2>3, <2>4, Zenon
<1> USE DEF DaemonInv, Phases, NothingAfterClose, clients
<1>1. ASSUME Setup PROVE DaemonInv'
  BY <1>1, Zenon DEF Setup
<1>2. ASSUME DoWithServer PROVE DaemonInv'
  <2>1. server # None
    BY <1>2, NoneAssumption, Zenon DEF DoWithServer
  <2> QED BY <1>2, <2>1, Zenon DEF DoWithServer
<1>3. ASSUME CallerCancels \/ ServeFails \/ \E s \in Disc : DiscStep(s) \/ DiscEnds(s) PROVE DaemonInv'
  <2>1. UNCHANGED <<run, server, api, conn, nodes, got>> /\ (accepting' => accepting)
    BY <1>0, <1>3, Zenon
  <2> QED BY <2>1, Zenon
<1>4. ASSUME GroupEnds PROVE DaemonInv'
  BY <1>4, Zenon DEF GroupEnds
<1>5. ASSUME ServerCloses PROVE DaemonInv'
  <2>1. \A c \in Conn : conn[c] \notin {"dialed", "reading", "opening"}
    BY <1>5, OpeningServed, Zenon DEF ServerCloses
  <2> QED BY <1>5, <2>1, Zenon DEF ServerCloses
<1>6. ASSUME Listen \/ ListenFails \/ Shutdown PROVE DaemonInv'
  <2>1. CASE Listen
    BY <2>1, Zenon DEF Listen
  <2>2. CASE ListenFails
    <3>1. \A c \in Conn : conn[c] \notin {"dialed", "reading", "opening"}
      BY <2>2, Zenon DEF ListenFails
    <3>2. run = "group" /\ ~accepting /\ api' = "returned" /\ UNCHANGED <<run, server, accepting, clients, got>>
      BY <2>2, Zenon DEF ListenFails
    <3> QED BY <3>1, <3>2, Zenon
  <2>3. CASE Shutdown
    BY <2>3, Zenon DEF Shutdown
  <2> QED BY <1>6, <2>1, <2>2, <2>3, Zenon
<1>7. ASSUME ShutdownReturns PROVE DaemonInv'
  <2>1. \A c \in Conn : conn[c] \notin {"dialed", "reading", "opening"}
    BY <1>7, Zenon DEF ShutdownReturns, Active
  <2> QED BY <1>7, <2>1, Zenon DEF ShutdownReturns
<1> QED BY <1>1, <1>2, <1>3, <1>4, <1>5, <1>6, <1>7, Zenon

\* Steps of clients and of their handlers.
LEMMA ClientSteps ==
  ASSUME DaemonInv,
         \E c \in Conn : \/ Request(c) \/ CloseIdle(c) \/ ReadBody(c) \/ HandleOpen(c) \/ HandlerReturns(c)
                         \/ \E k \in Key : Dial(c, k)
  PROVE  DaemonInv'
<1>1. ASSUME NEW c \in Conn, NEW s, conn' = [conn EXCEPT ![c] = s],
             conn[c] \in {"dialed", "reading", "opening"} \/ s = "ended" \/ (s = "dialed" /\ api = "listening"),
             \A k \in Key : nodes'[k] \subseteq nodes[k] \/ server = "open",
             DOMAIN nodes' = Key, UNCHANGED <<run, server, api, accepting, got>>
      PROVE  DaemonInv'
  <2>1. ASSUME NEW d \in Conn, conn'[d] \in {"dialed", "reading", "opening"}
        PROVE  api \in {"listening", "shutdown"} /\ server = "open"
    <3>1. api \in {"listening", "shutdown"}
      BY <1>1, <2>1, Zenon DEF DaemonInv, Phases
    <3> QED BY <3>1, Zenon DEF DaemonInv, Phases
  <2>2. Phases'
    BY <1>1, <2>1, Zenon DEF DaemonInv, Phases
  <2>3. NothingAfterClose'
    <3>1. server # "open" => \A k \in Key : nodes'[k] = {}
      BY <1>1, Zenon DEF DaemonInv, NothingAfterClose
    <3> QED BY <1>1, <2>1, <3>1, Zenon DEF DaemonInv, NothingAfterClose
  <2> QED BY <2>2, <2>3, Zenon DEF DaemonInv
<1>2. DOMAIN nodes = Key
  BY Zenon DEF DaemonInv, Phases
<1>3. ASSUME NEW c \in Conn, Request(c) \/ CloseIdle(c) \/ ReadBody(c) PROVE DaemonInv'
  BY <1>1, <1>2, <1>3, Zenon DEF Request, CloseIdle, ReadBody
<1>4. ASSUME NEW c \in Conn, HandleOpen(c) PROVE DaemonInv'
  <2>1. server = "open"
    BY <1>4, OpeningServed, Zenon DEF HandleOpen, DaemonInv
  <2> QED BY <1>1, <1>2, <1>4, <2>1, Zenon DEF HandleOpen
<1>5. ASSUME NEW c \in Conn, HandlerReturns(c) PROVE DaemonInv'
  <2>1. \A k \in Key : nodes'[k] \subseteq nodes[k]
    BY <1>2, <1>5, Zenon DEF HandlerReturns
  <2> QED BY <1>1, <1>2, <1>5, <2>1, Zenon DEF HandlerReturns
<1>6. ASSUME NEW c \in Conn, NEW k \in Key, Dial(c, k) PROVE DaemonInv'
  <2>1. api = "listening"
    BY <1>6, Zenon DEF Dial, DaemonInv, Phases
  <2> QED BY <1>1, <1>2, <1>6, <2>1, Zenon DEF Dial
<1> QED BY <1>3, <1>4, <1>5, <1>6, Zenon

\* Handlers never work on a closed server and leave no node open on one, and
\* DoWithServer never hands out a server that is not there.
THEOREM ClosedIsQuiet == Spec => []NothingAfterClose
<1>1. DaemonInv /\ [Next]_vars => DaemonInv'
  <2>1. ASSUME DaemonInv, UNCHANGED vars PROVE DaemonInv'
    BY <2>1, Zenon DEF vars, DaemonInv, Phases, NothingAfterClose
  <2> QED BY <2>1, RunSteps, ClientSteps, Zenon DEF Next
<1>2. DaemonInv => NothingAfterClose
  BY Zenon DEF DaemonInv
<1> QED BY <1>1, <1>2, InitDaemon, PTL DEF Spec

=============================================================================
