--------------------------- MODULE DatagramService ---------------------------
(****************************************************************************)
(* What an INET256 network promises about messages (doc/10_Spec.md 2.2.1,   *)
(* 2.2.2 and the Node interface): a message that was sent is delivered at   *)
(* most once, at the address it was sent to and nowhere else, under the     *)
(* address of its sender.  It may also never be delivered.                  *)
(****************************************************************************)
EXTENDS Sequences

CONSTANTS Node, DataId, NoState

VARIABLES
  told,        \* told[i] : source and destination of message i, once sent
  delivered    \* delivered[i] : the deliveries of i, in order

Init ==
  /\ told = [i \in DataId |-> NoState]
  /\ delivered = [i \in DataId |-> <<>>]

Tell(n, dst, i) ==
  /\ told[i] = NoState
  /\ told' = [told EXCEPT ![i] = [src |-> n, dst |-> dst]]
  /\ UNCHANGED delivered

Deliver(i) ==
  /\ told[i] # NoState
  /\ delivered[i] = <<>>
  /\ delivered' = [delivered EXCEPT ![i] =
                     <<[at |-> told[i].dst, src |-> told[i].src]>>]
  /\ UNCHANGED told

Next ==
  \/ \E n, dst \in Node, i \in DataId : Tell(n, dst, i)
  \/ \E i \in DataId : Deliver(i)

Spec == Init /\ [][Next]_<<told, delivered>>

============================================================================
