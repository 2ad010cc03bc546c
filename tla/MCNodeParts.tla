----------------------------- MODULE MCNodeParts -----------------------------
(* What a node is built from, each by itself: the swarms above the network,  *)
(* the send queue and its service group, the worker pool, and the mining of  *)
(* addresses.  In a behaviour one part takes steps and the variables of the  *)
(* others rest.                                                              *)
EXTENDS MineAddr

CONSTANTS
  Self, Other,      \* the address of the node, and those of others
  peer, stranger,   \* two of them
  Input,            \* what the network delivers to the node
  Sender,           \* goroutines that send
  Depth, Msg,       \* the length of the send queue, and what is sent through it
  Count, Caller,    \* the numbers of workers, and the goroutines that set them
  None

VARIABLES
  part,        \* "mine", "stack", "queue" or "pool"
  net, pending, loop, tell, got, phase,
  ctx, service, closer, todo, qTell, accepted, qTried, stop,
  workers, finishing, want, mu

stackVars == <<net, pending, loop, tell, got, phase>>
queueVars == <<ctx, service, closer, todo, qTell, accepted, qTried, stop>>
poolVars == <<workers, finishing, want, mu>>

\* The peer sends two messages, and something sends one under its address.
MCInput == {[src |-> peer, id |-> peer, n |-> 1], [src |-> peer, id |-> peer, n |-> 2],
            [src |-> peer, id |-> stranger, n |-> 1]}

N == INSTANCE NodeStack
Q == INSTANCE SendQueue WITH tell <- qTell, tried <- qTried
W == INSTANCE WorkerPool

\* The depth of the queue is a number, None no caller, and no message of another
\* node is authenticated with the node's own key.
ASSUME NodePartsAssumption ==
  Depth \in Nat /\ None \notin Caller /\ \A t \in Sender : N!Own(t) \notin Input

MCInit ==
  /\ part \in {"mine", "stack", "queue", "pool"}
  /\ Init /\ N!Init /\ Q!Init /\ W!Init

MCNext ==
  /\ part' = part
  /\ \/ part = "mine" /\ Next /\ UNCHANGED <<stackVars, queueVars, poolVars>>
     \/ part = "stack" /\ N!Next /\ UNCHANGED <<vars, queueVars, poolVars>>
     \/ part = "queue" /\ Q!Next /\ UNCHANGED <<vars, stackVars, poolVars>>
     \/ part = "pool" /\ W!Next /\ UNCHANGED <<vars, stackVars, queueVars>>

\* The fairness of the part that takes steps.  The part never changes, so that
\* it is infinitely often what it is.
MCFairness ==
  \/ []<>(part = "mine") /\ Fairness
  \/ []<>(part = "stack") /\ N!Fairness
  \/ []<>(part = "queue") /\ Q!Fairness
  \/ []<>(part = "pool") /\ W!Fairness

MCSpec ==
  MCInit /\ [][MCNext]_<<part, vars, stackVars, queueVars, poolVars>> /\ MCFairness

----------------------------------------------------------------------------
\* The chain: what Send to the node's own address returns is what became of the
\* message.
LoopbackExact == N!LoopbackExact

\* SendQueue: messages are sent in the order in which they were accepted.
InOrder == Q!InOrder

\* What is called returns: Close of the chain, Close of the send queue and every
\* Tell, SetCount, and MineAddr.  What may arrive does: the identity swarm passes
\* a genuine message on, and the send queue tries an accepted one, unless they are
\* closed.
NodePartsReturn ==
  /\ MineReturns
  /\ N!CloseEnds /\ N!GenuineArrives
  /\ Q!CloseAndTellReturn /\ Q!Tried
  /\ W!SetCountReturns

=============================================================================
