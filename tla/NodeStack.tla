------------------------------ MODULE NodeStack ------------------------------
(****************************************************************************)
(* The upper half of a mesh256 node: wrapNetwork puts the identity swarm    *)
(* (a p2pke channel over the network, bound to the peer's address) and the  *)
(* loopback swarm into a chain swarm, whose service group moves messages    *)
(* from both to the hub that Receive reads.                                 *)
(*                                                                          *)
(* The network below delivers messages that claim a source address; the     *)
(* channel knows the id of the key they were authenticated with.            *)
(****************************************************************************)
EXTENDS Naturals, FiniteSets

CONSTANTS
  Self, Other,   \* the node's address and the others
  Input,         \* what the network delivers: [src, id, n] records
  Sender,        \* goroutines of the application that Send, once each
  None

VARIABLES
  net,           \* messages that have arrived below the identity swarm
  pending,       \* inputs still to come
  loop,          \* loop[s] : the chain's receive loop for swarm s
  tell,          \* tell[t] : what sender t does
  got,           \* messages that the application received
  phase          \* of Close: "open", "stopping", "hubClosed", "closed"

vars == <<net, pending, loop, tell, got, phase>>

Swarms == {"loopback", "identity"}
Idle == [at |-> "receive", msg |-> None]
NoTell == [at |-> "idle", dst |-> None]

\* The message of sender t to the node itself.
Own(t) == [src |-> Self, id |-> Self, n |-> t]

Init ==
  /\ net = {} /\ pending = Input
  /\ loop = [s \in Swarms |-> Idle]
  /\ tell = [t \in Sender |-> NoTell]
  /\ got = {}
  /\ phase = "open"

----------------------------------------------------------------------------
(* Sending: chainSwarm.Tell tries the loopback swarm, then the other.       *)

TellBegin(t, dst) ==
  /\ tell[t].at = "idle"
  /\ tell' = [tell EXCEPT ![t] = [at |-> IF dst = Self THEN "loopback" ELSE "identity", dst |-> dst]]
  /\ UNCHANGED <<net, pending, loop, got, phase>>

\* The hub hands the message to the receive loop of the loopback swarm, and
\* Deliver returns once the loop's callback has.
TellLoopback(t) ==
  /\ tell[t].at = "loopback"
  /\ loop["loopback"].at = "receive"
  /\ loop' = [loop EXCEPT !["loopback"] = [at |-> "deliver", msg |-> Own(t)]]
  /\ tell' = [tell EXCEPT ![t].at = "held"]
  /\ UNCHANGED <<net, pending, got, phase>>

\* Variant: the caller's context also ends the wait for the loop's callback.
TellCancelLate(t) ==
  /\ tell[t].at \in {"loopback", "held"}
  /\ tell' = [tell EXCEPT ![t].at = "cancelled"]
  /\ UNCHANGED <<net, pending, loop, got, phase>>

\* The caller's context ends: the loopback swarm fails, and the next one is
\* tried, with the same context.
TellCancel(t) ==
  /\ tell[t].at = "loopback"
  /\ tell' = [tell EXCEPT ![t].at = "cancelled"]
  /\ UNCHANGED <<net, pending, loop, got, phase>>

TellIdentity(t) ==
  /\ tell[t].at \in {"identity", "cancelled"}
  /\ \/ /\ phase # "closed" /\ tell[t].at = "identity"
        /\ tell' = [tell EXCEPT ![t].at = "ok"]
     \/ tell' = [tell EXCEPT ![t].at = "failed"]
  /\ UNCHANGED <<net, pending, loop, got, phase>>

----------------------------------------------------------------------------
(* Receiving.                                                               *)

Arrive(m) ==
  /\ m \in pending /\ phase # "closed"
  /\ pending' = pending \ {m}
  /\ net' = net \cup {m}
  /\ UNCHANGED <<loop, tell, got, phase>>

\* identitySwarm.Receive drops what claims another address, and goes on.
IdentityReceive(m) ==
  /\ m \in net
  /\ loop["identity"].at = "receive"
  /\ net' = net \ {m}
  /\ loop' = IF m.id = m.src THEN [loop EXCEPT !["identity"] = [at |-> "deliver", msg |-> m]] ELSE loop
  /\ UNCHANGED <<pending, tell, got, phase>>

\* An error of the swarm below ends the loop; the service group restarts it
\* after a second, unless it is stopped.
LoopFails ==
  /\ loop["identity"].at = "receive" /\ phase = "open"
  /\ loop' = [loop EXCEPT !["identity"].at = "crashed"]
  /\ UNCHANGED <<net, pending, tell, got, phase>>

LoopRestarts ==
  /\ loop["identity"].at = "crashed"
  /\ loop' = [loop EXCEPT !["identity"].at = IF phase = "open" THEN "receive" ELSE "done"]
  /\ UNCHANGED <<net, pending, tell, got, phase>>

\* The application receives from the chain's hub what a loop delivers.
AppReceive(s) ==
  /\ loop[s].at = "deliver"
  /\ phase \in {"open", "stopping"}
  /\ got' = got \cup {loop[s].msg}
  /\ loop' = [loop EXCEPT ![s].at = "back"]
  /\ UNCHANGED <<net, pending, tell, phase>>

\* The loop's callback returns, and with it the Deliver of a sender on the
\* loopback, without an error whatever the hub said.
CallbackReturns(s) ==
  /\ loop[s].at = "back"
  /\ loop' = [loop EXCEPT ![s] = Idle]
  /\ tell' = [t \in Sender |-> IF s = "loopback" /\ tell[t].at = "held"
                               THEN [tell[t] EXCEPT !.at = "ok"] ELSE tell[t]]
  /\ UNCHANGED <<net, pending, got, phase>>

----------------------------------------------------------------------------
(* Close: the service group, the hub, the swarms.                           *)

CloseBegin ==
  /\ phase = "open"
  /\ phase' = "stopping"
  /\ UNCHANGED <<net, pending, loop, tell, got>>

\* Variant: Deliver does not see that the group is stopped, only that the hub is.
DeliverStopsLate(s) ==
  /\ phase \in {"hubClosed", "closed"}
  /\ loop[s].at = "deliver"
  /\ loop' = [loop EXCEPT ![s].at = "back"]
  /\ UNCHANGED <<net, pending, tell, got, phase>>

\* With its context cancelled, Deliver returns; the message is lost.
DeliverStops(s) ==
  /\ phase # "open"
  /\ loop[s].at = "deliver"
  /\ loop' = [loop EXCEPT ![s].at = "back"]
  /\ UNCHANGED <<net, pending, tell, got, phase>>

\* And so does Receive, and the loop with it.
LoopStops(s) ==
  /\ phase # "open"
  /\ loop[s].at = "receive"
  /\ loop' = [loop EXCEPT ![s].at = "done"]
  /\ UNCHANGED <<net, pending, tell, got, phase>>

CloseHub ==
  /\ phase = "stopping"
  /\ \A s \in Swarms : loop[s].at = "done"
  /\ phase' = "hubClosed"
  /\ UNCHANGED <<net, pending, loop, tell, got>>

\* The loopback swarm's Close does nothing.
CloseSwarms ==
  /\ phase = "hubClosed"
  /\ phase' = "closed"
  /\ net' = {}
  /\ UNCHANGED <<pending, loop, tell, got>>

Next ==
  \/ \E t \in Sender :
       \/ \E dst \in Other \cup {Self} : TellBegin(t, dst)
       \/ TellLoopback(t) \/ TellCancel(t) \/ TellIdentity(t)
  \/ \E m \in Input : Arrive(m) \/ IdentityReceive(m)
  \/ LoopFails \/ LoopRestarts
  \/ \E s \in Swarms : AppReceive(s) \/ CallbackReturns(s) \/ DeliverStops(s) \/ LoopStops(s)
  \/ CloseBegin \/ CloseHub \/ CloseSwarms

Spec == Init /\ [][Next]_vars

\* Goroutines go on when they can, the swarm below does not fail for ever, and
\* the application receives until it closes the node.  It need not cancel.
Fairness ==
  /\ \A t \in Sender : SF_vars(TellLoopback(t)) /\ WF_vars(TellIdentity(t))
  /\ \A m \in Input : SF_vars(IdentityReceive(m))
  /\ WF_vars(LoopRestarts) /\ WF_vars(CloseHub) /\ WF_vars(CloseSwarms)
  /\ \A s \in Swarms : /\ WF_vars(phase = "open" /\ AppReceive(s)) /\ WF_vars(CallbackReturns(s))
                       /\ WF_vars(DeliverStops(s)) /\ WF_vars(LoopStops(s))

FairSpec == Spec /\ Fairness

----------------------------------------------------------------------------
(* Properties.                                                              *)

\* Receive hands over only messages whose source address is the id of the key
\* they came with, and only those: what claims another address is dropped.
Authentic == \A m \in got : m.id = m.src

\* What Send of a message to the node itself returns says what has become of the
\* message, although the receive loop and the application take it in steps of
\* their own: without an error the application has received it, unless Close had
\* begun; with an error it has not and never will, so that it can be sent again.
LoopbackExact ==
  \A t \in Sender :
    tell[t].dst = Self =>
      /\ tell[t].at = "ok" => Own(t) \in got \/ phase # "open"
      /\ tell[t].at = "failed" => Own(t) \notin got

\* Close returns, although loops may be blocked in Deliver or waiting to restart.
CloseEnds == []<>(phase \in {"open", "closed"})

\* A genuine message is received unless the node is closed, whatever false ones
\* come before it and although the swarm below fails now and then.
GenuineArrives ==
  []<>(\A m \in Input : m.id = m.src => m \in pending \cup got \/ phase # "open")

============================================================================
