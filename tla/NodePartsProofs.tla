--------------------------- MODULE NodePartsProofs ---------------------------
(****************************************************************************)
(* What a node is built from, for any number of senders, messages, workers  *)
(* and callers: the chain of swarms (N), the send queue (Q), the worker     *)
(* pool (W), and the mining of addresses.                                   *)
(****************************************************************************)
EXTENDS MCNodeParts, Sequences, FiniteSetTheorems, TLAPS

----------------------------------------------------------------------------
(* The mining of addresses.                                                 *)

\* A worker's key belongs to its address, and no worker goes on after the return.
MineInv ==
  /\ best \in [Worker -> Nat]
  /\ key \in [Worker -> Nat \union {NoKey}]
  /\ at \in [Worker -> {"search", "done"}]
  /\ \A w \in Worker : best[w] > 0 => key[w] = best[w]
  /\ result # NoKey => \A w \in Worker : at[w] = "done"
  /\ BestPair

\* The invariant holds at the start.
LEMMA InitMine == Init => MineInv
BY GoalAssumption DEF Init, MineInv, BestPair

\* A worker that tries a key has not returned, and neither has MineAddr.
LEMMA TryMine ==
  ASSUME MineInv, NEW w \in Worker, NEW lz \in 0 .. MaxZeros, Try(w, lz)
  PROVE  MineInv'
<1>1. result = NoKey /\ result' = NoKey
  BY Zenon DEF Try, MineInv
<1>2. at' \in [Worker -> {"search", "done"}]
  BY Zenon DEF Try, MineInv
<1>3. CASE lz > best[w]
  <2>1. best' = [best EXCEPT ![w] = lz] /\ key' = [key EXCEPT ![w] = lz]
    BY <1>3, Zenon DEF Try, Keep
  <2>2. lz \in Nat
    BY GoalAssumption
  <2>3. \A v \in Worker : best'[v] > 0 => key'[v] = best'[v]
    BY <2>1, Zenon DEF MineInv
  <2> QED BY <1>1, <1>2, <2>1, <2>2, <2>3, Zenon DEF MineInv, BestPair
<1>4. CASE ~ (lz > best[w])
  BY <1>1, <1>2, <1>4, Zenon DEF Try, MineInv, BestPair
<1> QED BY <1>3, <1>4, Zenon

\* The pair that is returned is one worker's.
LEMMA ReturnMine ==
  ASSUME MineInv, Return
  PROVE  MineInv'
<1> DEFINE met == {w \in Worker : best[w] >= Goal}
<1>1. UNCHANGED <<best, key, at>> /\ \A w \in Worker : at[w] = "done"
  BY Zenon DEF Return
<1>2. CASE met = {}
  <2>1. result' = [addr |-> 0, key |-> NoKey]
    BY <1>2, Zenon DEF Return
  <2>2. \A w \in Worker : best[w] < Goal
    BY <1>2, GoalAssumption DEF MineInv
  <2> QED BY <1>1, <2>1, <2>2, Zenon DEF MineInv, BestPair
<1>3. CASE met # {}
  <2>1. PICK w \in met : /\ \A v \in met : best[v] <= best[w]
                         /\ result' = [addr |-> best[w], key |-> key[w]]
    BY <1>3, Zenon DEF Return
  <2>2. best[w] \in Nat /\ best[w] >= Goal /\ best[w] > 0 /\ key[w] = best[w]
    BY GoalAssumption DEF MineInv
  <2>3. \A v \in Worker : best[v] <= best[w]
    BY <2>1, <2>2, GoalAssumption DEF MineInv
  <2>4. result'.key = best[w] /\ result'.addr = best[w] /\ best[w] # NoKey
    BY <2>1, <2>2, GoalAssumption, Zenon
  <2> HIDE DEF met
  <2>5. BestPair'
    BY <1>1, <2>2, <2>3, <2>4, Zenon DEF BestPair
  <2> QED BY <1>1, <2>5, Zenon DEF MineInv
<1> QED BY <1>2, <1>3, Zenon

\* What MineAddr returns is a pair, meets the goal, and is the best there is; it
\* fails only when no worker has met the goal.
THEOREM BestPairReturned == Spec => []BestPair
<1>1. MineInv /\ [Next]_vars => MineInv'
  <2>1. ASSUME MineInv, NEW w \in Worker, Look(w) PROVE MineInv'
    BY <2>1, Zenon DEF Look, MineInv, BestPair
  <2>2. ASSUME MineInv, Cancel \/ UNCHANGED vars PROVE MineInv'
    BY <2>2, Zenon DEF Cancel, vars, MineInv, BestPair
  <2> QED BY <2>1, <2>2, TryMine, ReturnMine, Zenon DEF Next
<1>2. MineInv => BestPair
  BY Zenon DEF MineInv
<1> QED BY <1>1, <1>2, InitMine, PTL DEF Spec

----------------------------------------------------------------------------
(* The send queue.                                                          *)

\* The queue and both histories are sequences of messages.
QueueTypes == todo \in Seq(Msg) /\ accepted \in Seq(Msg) /\ qTried \in Seq(Msg)

\* A message that is accepted is the last one of both.
LEMMA AppendLast ==
  ASSUME NEW T, NEW s \in Seq(T), NEW r \in Seq(T), NEW e \in T
  PROVE  (s \o r) \o <<e>> = s \o Append(r, e)
OBVIOUS

\* The first message of the queue moves to the end of those that were tried.
LEMMA MoveFirst ==
  ASSUME NEW T, NEW s \in Seq(T), NEW r \in Seq(T), r # <<>>
  PROVE  Append(s, Head(r)) \o Tail(r) = s \o r
OBVIOUS

\* InOrder: messages are given to send in the order in which Tell accepted them,
\* each once, although the service fails and is run again; what was accepted and
\* not tried is in the queue, within its depth.
THEOREM SentInOrder == Q!Spec => []InOrder
<1>1. Q!Init => QueueTypes /\ InOrder
  BY NodePartsAssumption DEF Q!Init, QueueTypes, InOrder, Q!InOrder
<1>2. QueueTypes /\ InOrder /\ [Q!Next]_Q!vars => QueueTypes' /\ InOrder'
  <2> SUFFICES ASSUME QueueTypes, InOrder, [Q!Next]_Q!vars
               PROVE  QueueTypes' /\ InOrder'
    BY Zenon
  <2> USE DEF QueueTypes, InOrder, Q!InOrder
  <2>1. ASSUME NEW n \in Msg, Q!TellEnd(n) PROVE QueueTypes' /\ InOrder'
    <3>1. CASE UNCHANGED <<todo, accepted, qTried>>
      BY <3>1, Zenon
    <3>2. CASE /\ Len(todo) < Depth /\ todo' = Append(todo, n)
               /\ accepted' = Append(accepted, n) /\ qTried' = qTried
      <4>1. todo' \in Seq(Msg) /\ accepted' \in Seq(Msg) /\ Len(todo') <= Depth
        BY <3>2, NodePartsAssumption
      <4>2. Append(accepted, n) = accepted \o <<n>>
        OBVIOUS
      <4>3. qTried \o Append(todo, n) = Append(accepted, n)
        BY <4>2, AppendLast
      <4> QED
        BY <3>2, <4>1, <4>3, Zenon
    <3> QED
      BY <2>1, <3>1, <3>2, Zenon DEF Q!TellEnd
  <2>2. ASSUME Q!RunTakes PROVE QueueTypes' /\ InOrder'
    <3>1. todo' \in Seq(Msg) /\ qTried' \in Seq(Msg) /\ Len(todo') <= Depth
      BY <2>2, NodePartsAssumption DEF Q!RunTakes
    <3>2. qTried' \o todo' = qTried \o todo
      BY <2>2, MoveFirst, Zenon DEF Q!RunTakes
    <3> QED
      BY <2>2, <3>1, <3>2, Zenon DEF Q!RunTakes
  <2>3. CASE UNCHANGED <<todo, accepted, qTried>>
    BY <2>3, Zenon
  <2> QED
    BY <2>1, <2>2, <2>3, Zenon
       DEF Q!Next, Q!vars, Q!TellBegin, Q!RunSends, Q!RunStops, Q!Restarts, Q!CloserEnds,
           Q!CloseBegin, Q!CloseReturns
<1> QED
  BY <1>1, <1>2, PTL DEF Q!Spec

----------------------------------------------------------------------------
(* The chain of swarms.                                                     *)

\* What senders and loops are at.
StackTypes ==
  /\ tell \in [Sender -> [at : {"idle", "loopback", "identity", "held", "cancelled", "ok", "failed"},
                          dst : Other \cup {Self, None}]]
  /\ loop \in [N!Swarms -> [at : {"receive", "deliver", "back", "crashed", "done"},
                            msg : Input \cup {N!Own(t) : t \in Sender} \cup {None}]]

\* The sender whose message the loop has, if it has one, is the only one that
\* waits for it.
HeldOnce ==
  /\ \A t \in Sender : tell[t].at = "held" =>
       loop["loopback"].at \in {"deliver", "back"} /\ loop["loopback"].msg = N!Own(t)
  /\ loop["loopback"].at \in {"deliver", "back"} => \E t \in Sender : tell[t].at = "held"

\* What the loop of the identity swarm has came from the network.
FromBelow == loop["identity"].at \in {"deliver", "back"} => loop["identity"].msg \in Input

\* A message of the node to itself is received only while its sender waits, and the
\* loop goes back from it only when it was received or Close has begun.
Handed ==
  /\ \A t \in Sender : N!Own(t) \in got => tell[t].at \in {"held", "ok"}
  /\ loop["loopback"].at = "back" => loop["loopback"].msg \in got \/ phase # "open"

\* Sends to the node itself do not use the identity swarm, and those that returned
\* without an error were received.
Told ==
  /\ \A t \in Sender : tell[t].at = "identity" => tell[t].dst # Self
  /\ \A t \in Sender : tell[t].at = "ok" /\ tell[t].dst = Self => N!Own(t) \in got \/ phase # "open"

\* What a loop delivers was authenticated with the key of its source.
Genuine ==
  /\ \A s \in N!Swarms : loop[s].at = "deliver" => loop[s].msg.id = loop[s].msg.src
  /\ N!Authentic

\* The inductive invariant of the stack of swarms.
StackInv == StackTypes /\ HeldOnce /\ FromBelow /\ Handed /\ Told /\ Genuine

\* Messages of different senders differ.
LEMMA OwnDiffers == ASSUME NEW t, NEW u, N!Own(t) = N!Own(u) PROVE t = u
<1>1. N!Own(t).n = t /\ N!Own(u).n = u
  BY DEF N!Own
<1> QED
  BY <1>1, Zenon

\* Only one sender waits for the loop.
LEMMA OneHeld ==
  ASSUME HeldOnce, NEW t \in Sender, NEW u \in Sender, tell[t].at = "held", tell[u].at = "held"
  PROVE  t = u
BY OwnDiffers, Zenon DEF HeldOnce

\* A sender that does not wait for the loop goes on to where it does not either.
LEMMA TellMoves ==
  ASSUME StackInv, NEW t \in Sender, NEW r \in [at : {"loopback", "identity", "cancelled", "ok", "failed"},
                                                dst : Other \cup {Self, None}],
         tell' = [tell EXCEPT ![t] = r], UNCHANGED <<loop, got, phase>>,
         tell[t].at \notin {"held", "ok"},
         r.at = "identity" => r.dst # Self, r.at = "ok" => r.dst # Self
  PROVE  StackInv'
<1>1. StackTypes'
  BY Zenon DEF StackInv, StackTypes
<1>2. tell'[t] = r /\ r.at # "held" /\ \A u \in Sender : u # t => tell'[u] = tell[u]
  BY Zenon DEF StackInv, StackTypes
<1>3. HeldOnce'
  BY <1>2, Zenon DEF StackInv, HeldOnce
<1>4. N!Own(t) \notin got
  BY Zenon DEF StackInv, Handed
<1>5. Handed'
  BY <1>2, <1>4, Zenon DEF StackInv, Handed, N!Own
<1>6. Told'
  BY <1>2, Zenon DEF StackInv, Told, N!Own
<1> QED
  BY <1>1, <1>3, <1>5, <1>6, Zenon DEF StackInv, FromBelow, Genuine, N!Authentic

\* Steps of senders by themselves.
LEMMA TellKeeps ==
  ASSUME StackInv, NEW t \in Sender,
         \/ \E dst \in Other \cup {Self} : N!TellBegin(t, dst)
         \/ N!TellCancel(t) \/ N!TellIdentity(t)
  PROVE  StackInv'
<1>0. tell[t] \in [at : {"idle", "loopback", "identity", "held", "cancelled", "ok", "failed"},
                   dst : Other \cup {Self, None}]
  BY Zenon DEF StackInv, StackTypes
<1>1. ASSUME NEW dst \in Other \cup {Self}, N!TellBegin(t, dst) PROVE StackInv'
  <2> DEFINE r == [at |-> IF dst = Self THEN "loopback" ELSE "identity", dst |-> dst]
  <2>1. tell' = [tell EXCEPT ![t] = r] /\ UNCHANGED <<loop, got, phase>> /\ tell[t].at = "idle"
    BY <1>1, Zenon DEF N!TellBegin
  <2>2. r \in [at : {"loopback", "identity", "cancelled", "ok", "failed"}, dst : Other \cup {Self, None}]
    OBVIOUS
  <2>3. (r.at = "identity" => r.dst # Self) /\ r.at # "ok"
    OBVIOUS
  <2> HIDE DEF r
  <2> QED
    BY <2>1, <2>2, <2>3, TellMoves, Zenon
<1>2. ASSUME NEW a \in {"cancelled", "ok", "failed"}, tell' = [tell EXCEPT ![t].at = a],
             UNCHANGED <<loop, got, phase>>, tell[t].at \in {"loopback", "identity", "cancelled"},
             a = "ok" => tell[t].at = "identity"
      PROVE  StackInv'
  <2> DEFINE r == [tell[t] EXCEPT !.at = a]
  <2>1. tell' = [tell EXCEPT ![t] = r]
    BY <1>2, Zenon
  <2>2. r \in [at : {"loopback", "identity", "cancelled", "ok", "failed"}, dst : Other \cup {Self, None}]
        /\ r.at = a /\ r.dst = tell[t].dst
    BY <1>0
  <2>3. a = "ok" => tell[t].dst # Self
    BY <1>2, Zenon DEF StackInv, Told
  <2> HIDE DEF r
  <2> QED
    BY <1>2, <2>1, <2>2, <2>3, TellMoves, Zenon
<1>3. ASSUME N!TellCancel(t) PROVE StackInv'
  BY <1>2, <1>3, Zenon DEF N!TellCancel
<1>4. ASSUME N!TellIdentity(t) PROVE StackInv'
  BY <1>2, <1>4, Zenon DEF N!TellIdentity
<1> QED
  BY <1>1, <1>3, <1>4, Zenon

\* A sender hands its message to the loop.
LEMMA HandOver ==
  ASSUME StackInv, NEW t \in Sender, N!TellLoopback(t)
  PROVE  StackInv'
<1>1. /\ loop["loopback"].at = "receive" /\ tell[t].at = "loopback" /\ UNCHANGED <<got, phase>>
      /\ loop' = [loop EXCEPT !["loopback"] = [at |-> "deliver", msg |-> N!Own(t)]]
      /\ tell' = [tell EXCEPT ![t].at = "held"]
  BY Zenon DEF N!TellLoopback
<1>2. loop'["loopback"].at = "deliver" /\ loop'["loopback"].msg = N!Own(t)
  BY <1>1 DEF StackInv, StackTypes, N!Swarms
<1>3. loop'["identity"] = loop["identity"]
  BY <1>1, Zenon DEF StackInv, StackTypes, N!Swarms
<1>4. tell'[t].at = "held" /\ \A u \in Sender : u # t => tell'[u] = tell[u]
  BY <1>1 DEF StackInv, StackTypes
<1>5. \A u \in Sender : tell'[u].at = "held" <=> u = t
  BY <1>1, <1>4, Zenon DEF StackInv, HeldOnce
<1>6. StackTypes'
  BY <1>1 DEF StackInv, StackTypes, N!Swarms
<1>7. HeldOnce'
  BY <1>2, <1>5, Zenon DEF HeldOnce, N!Own
<1>8. FromBelow'
  BY <1>3, Zenon DEF StackInv, FromBelow
<1>9. Handed'
  BY <1>1, <1>2, <1>4, Zenon DEF StackInv, Handed, N!Own
<1>10. Told'
  BY <1>1, <1>4, Zenon DEF StackInv, Told, N!Own
<1>11. N!Own(t).id = N!Own(t).src
  BY DEF N!Own
<1>12. Genuine'
  BY <1>1, <1>2, <1>3, <1>11, Zenon DEF StackInv, Genuine, N!Authentic, N!Swarms
<1> QED
  BY <1>6, <1>7, <1>8, <1>9, <1>10, <1>12, Zenon DEF StackInv

\* A loop delivers, or its Deliver is cancelled.
LEMMA DeliverKeeps ==
  ASSUME StackInv, NEW s \in N!Swarms, N!AppReceive(s) \/ N!DeliverStops(s)
  PROVE  StackInv'
<1>1. /\ loop[s].at = "deliver" /\ loop' = [loop EXCEPT ![s].at = "back"] /\ UNCHANGED <<tell, phase>>
      /\ got \subseteq got' /\ got' \subseteq got \cup {loop[s].msg}
      /\ loop[s].msg \in got' \/ phase # "open"
  BY Zenon DEF N!AppReceive, N!DeliverStops
<1>2. loop'[s].at = "back" /\ loop'[s].msg = loop[s].msg
  BY <1>1 DEF StackInv, StackTypes
<1>3. \A u \in N!Swarms : u # s => loop'[u] = loop[u]
  BY <1>1, Zenon DEF StackInv, StackTypes
<1>4. "loopback" \in N!Swarms /\ "identity" \in N!Swarms
  BY DEF N!Swarms
<1>5. StackTypes'
  BY <1>1 DEF StackInv, StackTypes
<1>6. HeldOnce'
  BY <1>1, <1>2, <1>3, <1>4, Zenon DEF StackInv, HeldOnce, N!Own
<1>7. FromBelow'
  BY <1>1, <1>2, <1>3, <1>4, Zenon DEF StackInv, FromBelow
<1>8. ASSUME NEW t \in Sender, N!Own(t) \in got' PROVE tell[t].at \in {"held", "ok"}
  <2>1. CASE N!Own(t) \in got
    BY <2>1, Zenon DEF StackInv, Handed
  <2>2. CASE N!Own(t) = loop[s].msg
    <3>0. N!Own(t) \notin Input
      BY NodePartsAssumption, Zenon
    <3>1. s = "loopback"
      <4>1. s # "identity"
        BY <1>1, <2>2, <3>0, Zenon DEF StackInv, FromBelow
      <4> QED
        BY <4>1, Zenon DEF N!Swarms
    <3>2. PICK u \in Sender : tell[u].at = "held"
      BY <1>1, <3>1, Zenon DEF StackInv, HeldOnce
    <3>3. N!Own(t) = N!Own(u)
      BY <2>2, <3>1, <3>2, Zenon DEF StackInv, HeldOnce
    <3> QED
      BY <3>2, <3>3, OwnDiffers, Zenon
  <2> QED
    BY <1>1, <1>8, <2>1, <2>2, Zenon
<1>9. Handed'
  BY <1>1, <1>2, <1>3, <1>4, <1>8, Zenon DEF StackInv, Handed, N!Own
<1>10. Told'
  BY <1>1, Zenon DEF StackInv, Told, N!Own
<1>11. Genuine'
  BY <1>1, <1>2, <1>3, Zenon DEF StackInv, Genuine, N!Authentic
<1> QED
  BY <1>5, <1>6, <1>7, <1>9, <1>10, <1>11, Zenon DEF StackInv

\* The callback returns, and the sender that waits for it.
LEMMA BackKeeps ==
  ASSUME StackInv, NEW s \in N!Swarms, N!CallbackReturns(s)
  PROVE  StackInv'
<1>1. /\ loop[s].at = "back" /\ UNCHANGED <<got, phase>>
      /\ loop' = [loop EXCEPT ![s] = N!Idle]
  BY Zenon DEF N!CallbackReturns
<1>2. loop'[s].at = "receive" /\ \A u \in N!Swarms : u # s => loop'[u] = loop[u]
  BY <1>1 DEF StackInv, StackTypes, N!Idle
<1>3. "loopback" \in N!Swarms /\ "identity" \in N!Swarms
  BY DEF N!Swarms
<1>4. ASSUME NEW t \in Sender
      PROVE  IF s = "loopback" /\ tell[t].at = "held"
             THEN tell'[t].at = "ok" /\ tell'[t].dst = tell[t].dst ELSE tell'[t] = tell[t]
  <2>1. tell[t] \in [at : {"idle", "loopback", "identity", "held", "cancelled", "ok", "failed"},
                     dst : Other \cup {Self, None}]
    BY Zenon DEF StackInv, StackTypes
  <2>2. tell'[t] = IF s = "loopback" /\ tell[t].at = "held" THEN [tell[t] EXCEPT !.at = "ok"] ELSE tell[t]
    BY Zenon DEF N!CallbackReturns
  <2> QED
    BY <2>1, <2>2
<1>5. StackTypes'
  <2>1. loop' \in [N!Swarms -> [at : {"receive", "deliver", "back", "crashed", "done"},
                                msg : Input \cup {N!Own(t) : t \in Sender} \cup {None}]]
    BY <1>1 DEF StackInv, StackTypes, N!Idle
  <2>2. \A t \in Sender :
          tell'[t] \in [at : {"idle", "loopback", "identity", "held", "cancelled", "ok", "failed"},
                        dst : Other \cup {Self, None}]
    BY DEF StackInv, StackTypes, N!CallbackReturns
  <2>3. tell' = [t \in Sender |-> tell'[t]]
    BY Zenon DEF N!CallbackReturns
  <2>4. tell' \in [Sender -> [at : {"idle", "loopback", "identity", "held", "cancelled", "ok", "failed"},
                              dst : Other \cup {Self, None}]]
    BY <2>2, <2>3, Zenon
  <2> QED
    BY <2>1, <2>4, Zenon DEF StackTypes, N!Own
<1>6. HeldOnce'
  <2>1. CASE s = "loopback"
    BY <1>2, <1>4, <2>1, Zenon DEF HeldOnce
  <2>2. CASE s # "loopback"
    BY <1>2, <1>3, <1>4, <2>2, Zenon DEF StackInv, HeldOnce, N!Own
  <2> QED
    BY <2>1, <2>2, Zenon
<1>7. FromBelow'
  BY <1>2, <1>3, Zenon DEF StackInv, FromBelow
<1>8. Handed'
  <2>1. ASSUME NEW t \in Sender, N!Own(t) \in got PROVE tell'[t].at \in {"held", "ok"}
    BY <1>4, <2>1, Zenon DEF StackInv, Handed
  <2>2. loop'["loopback"].at = "back" => loop'["loopback"].msg \in got \/ phase # "open"
    <3>1. CASE s = "loopback"
      BY <1>2, <3>1, Zenon
    <3>2. CASE s # "loopback"
      BY <1>2, <1>3, <3>2, Zenon DEF StackInv, Handed
    <3> QED
      BY <3>1, <3>2, Zenon
  <2> QED
    BY <1>1, <2>1, <2>2, Zenon DEF Handed, N!Own
<1>9. Told'
  <2>1. ASSUME NEW t \in Sender, s = "loopback", tell[t].at = "held"
        PROVE  N!Own(t) \in got \/ phase # "open"
    BY <1>1, <2>1, Zenon DEF StackInv, HeldOnce, Handed
  <2> QED
    BY <1>1, <1>4, <2>1, Zenon DEF StackInv, Told, N!Own
<1>10. Genuine'
  BY <1>1, <1>2, Zenon DEF StackInv, Genuine, N!Authentic
<1> QED
  BY <1>5, <1>6, <1>7, <1>8, <1>9, <1>10, Zenon DEF StackInv

\* Loops between messages: one fails, is restarted, takes a message of the network
\* or ends.
LEMMA LoopKeeps ==
  ASSUME StackInv, NEW s \in N!Swarms, UNCHANGED <<tell, got, phase>>,
         loop[s].at \in {"receive", "crashed"}, NEW r,
         r \in [at : {"receive", "deliver", "back", "crashed", "done"},
                msg : Input \cup {N!Own(t) : t \in Sender} \cup {None}],
         loop' = [loop EXCEPT ![s] = r], r.at # "back",
         r.at = "deliver" => s = "identity" /\ r.msg \in Input /\ r.msg.id = r.msg.src
  PROVE  StackInv'
<1>1. loop'[s] = r /\ \A u \in N!Swarms : u # s => loop'[u] = loop[u]
  BY Zenon DEF StackInv, StackTypes
<1>2. "loopback" \in N!Swarms /\ "identity" \in N!Swarms /\ "loopback" # "identity"
  BY DEF N!Swarms
<1>3. StackTypes'
  BY Zenon DEF StackInv, StackTypes, N!Own
<1>4. HeldOnce'
  BY <1>1, <1>2, Zenon DEF StackInv, HeldOnce, N!Own
<1>5. FromBelow'
  BY <1>1, <1>2, Zenon DEF StackInv, FromBelow
<1>6. Handed'
  <2>1. loop'["loopback"].at = "back" => loop'["loopback"].msg \in got \/ phase # "open"
    BY <1>1, <1>2, Zenon DEF StackInv, Handed
  <2> QED
    BY <2>1, Zenon DEF StackInv, Handed, N!Own
<1>8. Told'
  BY Zenon DEF StackInv, Told, N!Own
<1>7. Genuine'
  BY <1>1, Zenon DEF StackInv, Genuine, N!Authentic
<1> QED
  BY <1>3, <1>4, <1>5, <1>6, <1>7, <1>8, Zenon DEF StackInv

\* Each of those steps is one.
LEMMA LoopSteps ==
  ASSUME StackInv,
         \/ N!LoopFails \/ N!LoopRestarts \/ \E m \in Input : N!IdentityReceive(m)
         \/ \E s \in N!Swarms : N!LoopStops(s)
  PROVE  StackInv'
<1> DEFINE Loops == [at : {"receive", "deliver", "back", "crashed", "done"},
                     msg : Input \cup {N!Own(t) : t \in Sender} \cup {None}]
<1>0. "identity" \in N!Swarms /\ \A s \in N!Swarms : loop[s] \in Loops
  BY DEF StackInv, StackTypes, N!Swarms
<1>1. ASSUME NEW s \in N!Swarms, NEW a \in {"receive", "crashed", "done"}, UNCHANGED <<tell, got, phase>>,
             loop[s].at \in {"receive", "crashed"}, loop' = [loop EXCEPT ![s].at = a]
      PROVE  StackInv'
  <2> DEFINE r == [loop[s] EXCEPT !.at = a]
  <2>1. r \in Loops /\ r.at = a
    BY <1>0
  <2>2. loop' = [loop EXCEPT ![s] = r]
    BY <1>1, Zenon
  <2> HIDE DEF r
  <2> QED
    BY <1>1, <2>1, <2>2, LoopKeeps, Zenon
<1>2. ASSUME N!LoopFails \/ N!LoopRestarts PROVE StackInv'
  BY <1>0, <1>1, <1>2, Zenon DEF N!LoopFails, N!LoopRestarts
<1>3. ASSUME NEW s \in N!Swarms, N!LoopStops(s) PROVE StackInv'
  BY <1>1, <1>3, Zenon DEF N!LoopStops
<1>4. ASSUME NEW m \in Input, N!IdentityReceive(m) PROVE StackInv'
  <2>1. CASE m.id = m.src
    <3> DEFINE r == [at |-> "deliver", msg |-> m]
    <3>1. r \in Loops /\ r.at = "deliver" /\ r.msg = m
      OBVIOUS
    <3>2. /\ loop' = [loop EXCEPT !["identity"] = r] /\ UNCHANGED <<tell, got, phase>>
          /\ loop["identity"].at = "receive"
      BY <1>4, <2>1, Zenon DEF N!IdentityReceive
    <3> HIDE DEF r
    <3> QED
      BY <1>0, <2>1, <3>1, <3>2, LoopKeeps, Zenon
  <2>2. CASE m.id # m.src
    <3>1. UNCHANGED <<tell, loop, got, phase>>
      BY <1>4, <2>2, Zenon DEF N!IdentityReceive
    <3> QED
      BY <3>1, Zenon DEF StackInv, StackTypes, HeldOnce, FromBelow, Handed, Told, Genuine, N!Authentic, N!Own
  <2> QED
    BY <2>1, <2>2, Zenon
<1> QED
  BY <1>2, <1>3, <1>4, Zenon

\* Every step of the chain keeps the invariant.
LEMMA StackStep == StackInv /\ [N!Next]_N!vars => StackInv'
<1> SUFFICES ASSUME StackInv, [N!Next]_N!vars PROVE StackInv'
  BY Zenon
<1>1. CASE UNCHANGED <<tell, loop, got, phase>>
  BY <1>1, Zenon DEF StackInv, StackTypes, HeldOnce, FromBelow, Handed, Told, Genuine, N!Authentic, N!Own
<1>2. CASE N!CloseBegin \/ N!CloseHub \/ N!CloseSwarms
  <2>1. UNCHANGED <<tell, loop, got>> /\ phase' # "open"
    BY <1>2, Zenon DEF N!CloseBegin, N!CloseHub, N!CloseSwarms
  <2> QED
    BY <2>1, Zenon DEF StackInv, StackTypes, HeldOnce, FromBelow, Handed, Told, Genuine, N!Authentic, N!Own
<1> QED
  BY <1>1, <1>2, TellKeeps, HandOver, DeliverKeeps, BackKeeps, LoopSteps, Zenon
     DEF N!Next, N!Arrive, N!vars

\* A new chain holds nothing.
LEMMA StackInit == N!Init => StackInv
<1> SUFFICES ASSUME N!Init PROVE StackInv
  BY Zenon
<1> USE DEF N!Init, N!Swarms, N!Idle, N!NoTell
<1>1. StackTypes
  BY DEF StackTypes
<1>2. \A t \in Sender : tell[t].at = "idle"
  BY Zenon
<1>3. loop["loopback"].at = "receive" /\ loop["identity"].at = "receive"
  BY Zenon
<1>4. HeldOnce /\ FromBelow /\ Handed /\ Told
  BY <1>2, <1>3, Zenon DEF HeldOnce, FromBelow, Handed, Told
<1>5. Genuine
  BY <1>3, Zenon DEF Genuine, N!Authentic
<1> QED
  BY <1>1, <1>4, <1>5, Zenon DEF StackInv

\* LoopbackExact: Send of a message to the node itself returns without an error only
\* when the application has received the message or Close has begun, and with one
\* only when it never receives it, for any number of senders and whatever is
\* cancelled, fails or is closed meanwhile.
THEOREM SendToSelfIsExact == N!Spec => []LoopbackExact
<1>1. StackInv => LoopbackExact
  BY Zenon DEF StackInv, Told, Handed, LoopbackExact, N!LoopbackExact
<1> QED
  BY <1>1, StackInit, StackStep, PTL DEF N!Spec

\* The application receives only messages whose source address is that of the key
\* they were authenticated with (identitySwarm.Receive).
THEOREM ReceivedIsAuthentic == N!Spec => []N!Authentic
<1>1. StackInv => N!Authentic
  BY Zenon DEF StackInv, Genuine
<1> QED
  BY <1>1, StackInit, StackStep, PTL DEF N!Spec


----------------------------------------------------------------------------
(* The worker pool.                                                         *)

\* NoLeftOver: whoever holds wp.mu in SetCount gives it back only when the worker
\* that it cancelled has returned, for any number of callers and of workers.
THEOREM NoWorkerIsLeft == W!Spec => []W!NoLeftOver
<1>1. W!Init => W!NoLeftOver
  BY Zenon DEF W!Init, W!NoLeftOver
<1>2. W!NoLeftOver /\ [W!Next]_W!vars => W!NoLeftOver'
  BY NodePartsAssumption, Zenon
     DEF W!NoLeftOver, W!Next, W!vars, W!SetCount, W!Lock, W!Spawn, W!Despawn, W!Unlock, W!WorkerEnds
<1> QED
  BY <1>1, <1>2, PTL DEF W!Spec

=============================================================================
