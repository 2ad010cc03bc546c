------------------------------ MODULE MemService ------------------------------
(****************************************************************************)
(* inet256mem: the in-memory Service that the tests and tools run on.  Send *)
(* looks the destination up under the lock and puts the message into that   *)
(* node's queue after the lock is released; the node may be dropped, and    *)
(* its key opened again, in between.                                        *)
(****************************************************************************)
EXTENDS Naturals, Sequences

CONSTANTS
  Key,         \* private keys; a key stands for its address
  Handle,      \* node objects
  DataId,      \* messages
  QueueLen,    \* config.queueLen
  None

VARIABLES
  keyOf,       \* keyOf[h] : the key of node h, once it is created
  nodes,       \* nodes[k] : the table of open nodes
  queue,       \* queue[h] : its incoming messages
  open,        \* the nodes whose queue is not closed
  target,      \* target[i] : the node that the Send of i has looked up
  told,        \* told[i] : source and destination of i
  delivered    \* delivered[i] : the deliveries of i

vars == <<keyOf, nodes, queue, open, target, told, delivered>>

Init ==
  /\ keyOf = [h \in Handle |-> None]
  /\ nodes = [k \in Key |-> None]
  /\ queue = [h \in Handle |-> <<>>]
  /\ open = {}
  /\ target = [i \in DataId |-> None]
  /\ told = [i \in DataId |-> None]
  /\ delivered = [i \in DataId |-> <<>>]

----------------------------------------------------------------------------

Open(k, h) ==
  /\ nodes[k] = None
  /\ keyOf[h] = None
  /\ keyOf' = [keyOf EXCEPT ![h] = k]
  /\ nodes' = [nodes EXCEPT ![k] = h]
  /\ open' = open \cup {h}
  /\ UNCHANGED <<queue, target, told, delivered>>

\* Drop, and Close of any handle of the key.
Delete(k) ==
  /\ nodes[k] # None
  /\ open' = open \ {nodes[k]}
  /\ nodes' = [nodes EXCEPT ![k] = None]
  /\ UNCHANGED <<keyOf, queue, target, told, delivered>>

\* Send, up to getNode.  Without a node at the destination it returns nil.
\* Nothing asks whether the sender was dropped.
Send(h, k, i) ==
  /\ keyOf[h] # None
  /\ told[i] = None
  /\ told' = [told EXCEPT ![i] = [src |-> keyOf[h], dst |-> k]]
  /\ target' = [target EXCEPT ![i] = nodes[k]]
  /\ UNCHANGED <<keyOf, nodes, queue, open, delivered>>

\* Queue.Deliver: refuses a message when the queue is full or closed.
Accepts(h) == h \in open /\ Len(queue[h]) < QueueLen

\* The rest of Send.  A message that is not accepted is only logged.
SendDeliver(i) ==
  /\ target[i] # None
  /\ queue' = [queue EXCEPT ![target[i]] =
                 IF Accepts(target[i])
                 THEN Append(@, [id |-> i, src |-> told[i].src]) ELSE @]
  /\ target' = [target EXCEPT ![i] = None]
  /\ UNCHANGED <<keyOf, nodes, open, told, delivered>>

\* Variant: a message is handed out and kept.
ReceiveKeeps(h) ==
  /\ queue[h] # <<>>
  /\ LET m == Head(queue[h]) IN
       delivered' = [delivered EXCEPT ![m.id] =
                       Append(@, [at |-> keyOf[h], src |-> m.src])]
  /\ UNCHANGED <<keyOf, nodes, queue, open, target, told>>

\* Receive.  What was queued before the node was dropped may still be received.
Receive(h) ==
  /\ queue[h] # <<>>
  /\ LET m == Head(queue[h]) IN
       delivered' = [delivered EXCEPT ![m.id] =
                       Append(@, [at |-> keyOf[h], src |-> m.src])]
  /\ queue' = [queue EXCEPT ![h] = Tail(@)]
  /\ UNCHANGED <<keyOf, nodes, open, target, told>>

Next ==
  \/ \E k \in Key : Delete(k) \/ \E h \in Handle : Open(k, h)
  \/ \E h \in Handle, k \in Key, i \in DataId : Send(h, k, i)
  \/ \E i \in DataId : SendDeliver(i)
  \/ \E h \in Handle : Receive(h)

Spec == Init /\ [][Next]_vars

\* Calls return, and a node that is open is received from.
Fairness ==
  /\ \A i \in DataId : WF_vars(SendDeliver(i))
  /\ \A h \in Handle : WF_vars(h \in open /\ Receive(h))

FairSpec == Spec /\ Fairness

----------------------------------------------------------------------------
(* Properties.                                                              *)

\* Each variable has its type.
TypeOK ==
  /\ keyOf \in [Handle -> Key \cup {None}]
  /\ nodes \in [Key -> Handle \cup {None}]
  /\ queue \in [Handle -> Seq([id : DataId, src : Key])]
  /\ open \in SUBSET Handle
  /\ target \in [DataId -> Handle \cup {None}]
  /\ told \in [DataId -> [src : Key, dst : Key] \cup {None}]
  /\ delivered \in [DataId -> Seq([at : Key, src : Key])]

\* inet256mem implements the datagram service: whatever is dropped and opened
\* again while a Send is between getNode and Deliver, a message is delivered at
\* most once, at the address it was sent to, under its sender's address.
Service == INSTANCE DatagramService WITH Node <- Key, NoState <- None

ServiceSpec == Service!Spec

\* It implements the registry of nodes (Open, Drop, Close).
Registry == INSTANCE NodeRegistry
              WITH owner <- keyOf,
                   status <- [h \in Handle |-> IF keyOf[h] = None THEN "new"
                                               ELSE IF h \in open THEN "open"
                                               ELSE "released"]

ImplementsRegistry == Registry!Spec

\* A message that was accepted by a node that stays open is received there.
AcceptedArrives ==
  []<>(\A h \in open : queue[h] = <<>>)

============================================================================
