------------------------- MODULE RouterNetworkProofs -------------------------
(* The safety of routers.Network, for any number of calls, read loops,      *)
(* queries and addresses.                                                   *)
EXTENDS RouterNetwork, TLAPS

\* The inductive invariant: promises are shared only between calls of the same
\* query, so that whoever fulfils a promise gives all who wait for it an
\* address they asked for, and a promise that has been put in a store is found
\* there by every read loop that has news for it.
CallsInv == TypeOK /\ Underway /\ NoLeak /\ RightAnswer /\ NoLostWakeup

----------------------------------------------------------------------------
(* What Promise.Succeed does.                                               *)

\* Succeed gives its value to promises of the set that had none, and leaves
\* the others as they were.
LEMMA SucceedFacts ==
  ASSUME TypeOK, NEW P, NEW x \in Addr
  PROVE  /\ Succeed(P, x) \in [Call -> Addr \cup {None}]
         /\ \A p \in Call : p \in P => Succeed(P, x)[p] # None
         /\ \A p \in Call : promise[p] # None => Succeed(P, x)[p] = promise[p]
         /\ \A p \in Call : Succeed(P, x)[p] # promise[p] => p \in P /\ Succeed(P, x)[p] = x
BY RouterNetworkAssumption, Zenon DEF TypeOK, Succeed

\* The records of a read loop can be told apart.
LEMMA ReaderFacts ==
  ASSUME TypeOK, NEW r \in Reader
  PROVE  /\ Idle \in ReaderState /\ Idle.at = "receive"
         /\ [at |-> "Deliver"] \in ReaderState
         /\ [at |-> "stopped"] \in ReaderState
         /\ \A a \in Addr : /\ [at |-> "OnAddr", addr |-> a] \in ReaderState
                            /\ [at |-> "OnPublicKey", addr |-> a] \in ReaderState
         /\ reader[r].at \in {"OnAddr", "OnPublicKey"} => reader[r].addr \in Addr
BY DEF TypeOK, ReaderState, Idle

----------------------------------------------------------------------------
(* The type invariant.                                                      *)

\* A Network that NewNetwork has just made satisfies the invariant.
LEMMA InitInv == Init => CallsInv
<1> SUFFICES ASSUME Init PROVE CallsInv
  BY Zenon
<1>1. TypeOK
  BY RouterNetworkAssumption DEF Init, TypeOK, ReaderState, Idle
<1>2. Underway
  BY RouterNetworkAssumption, Zenon DEF Init, Underway, Idle
<1>3. NoLeak /\ RightAnswer /\ NoLostWakeup
  BY RouterNetworkAssumption, Zenon DEF Init, NoLeak, RightAnswer, NoLostWakeup
<1> QED BY <1>1, <1>2, <1>3, Zenon DEF CallsInv

\* Every step of a call, a read loop or Close preserves the types.
LEMMA TypeStep == TypeOK /\ Underway /\ [Next]_vars => TypeOK'
<1> SUFFICES ASSUME TypeOK, Underway, [Next]_vars PROVE TypeOK'
  BY Zenon
<1>1. ASSUME NEW c \in Call, NEW q \in Query, Begin(c, q) PROVE TypeOK'
  BY <1>1, Zenon DEF TypeOK, Begin
<1>2. ASSUME NEW c \in Call, NEW q \in Query, BeginPeer(c, q) PROVE TypeOK'
  <2>1. Wants[q] \subseteq Addr
    BY RouterNetworkAssumption, Zenon DEF Query
  <2> QED BY <1>2, <2>1, Zenon DEF TypeOK, BeginPeer
<1>3. ASSUME NEW c \in Call, AskRouter(c) PROVE TypeOK'
  <2>1. promise' \in [Call -> Addr \cup {None}]
    BY <1>3, SucceedFacts DEF AskRouter, TypeOK
  <2> QED BY <1>3, <2>1, Zenon DEF TypeOK, AskRouter
<1>4. ASSUME NEW c \in Call, Await(c) PROVE TypeOK'
  <2>1. fut[c] \in Call
    BY <1>4, Zenon DEF Await, Underway
  <2> QED BY <1>4, <2>1, Zenon DEF TypeOK, Await
<1>5. ASSUME NEW c \in Call, Delete(c) PROVE TypeOK'
  BY <1>5, Zenon DEF TypeOK, Delete
<1>6. ASSUME NEW c \in Call, Cancel(c) PROVE TypeOK'
  BY <1>6, Zenon DEF TypeOK, Cancel
<1>7. ASSUME NEW r \in Reader, NEW a \in Addr, ReceiveBeacon(r, a) PROVE TypeOK'
  BY <1>7, ReaderFacts, Zenon DEF TypeOK, ReceiveBeacon, callVars
<1>8. ASSUME NEW r \in Reader, ReceiveData(r) PROVE TypeOK'
  <2>1. data' \in 0..MaxData
    BY <1>8, RouterNetworkAssumption DEF ReceiveData, TypeOK
  <2> QED BY <1>8, <2>1, ReaderFacts, Zenon DEF TypeOK, ReceiveData, callVars
<1>9. ASSUME NEW r \in Reader, OnAddr(r) PROVE TypeOK'
  <2>1. reader[r].addr \in Addr
    BY <1>9, ReaderFacts, Zenon DEF OnAddr
  <2>2. promise' \in [Call -> Addr \cup {None}]
    BY <1>9, <2>1, SucceedFacts, Zenon DEF OnAddr
  <2> QED BY <1>9, <2>1, <2>2, ReaderFacts, Zenon DEF TypeOK, OnAddr
<1>10. ASSUME NEW r \in Reader, OnPublicKey(r) PROVE TypeOK'
  <2>1. reader[r].addr \in Addr
    BY <1>10, ReaderFacts, Zenon DEF OnPublicKey
  <2>2. promise' \in [Call -> Addr \cup {None}]
    BY <1>10, <2>1, SucceedFacts, Zenon DEF OnPublicKey
  <2> QED BY <1>10, <2>1, <2>2, ReaderFacts, Zenon DEF TypeOK, OnPublicKey
<1>11. ASSUME NEW r \in Reader, AppReceive(r) \/ DeliverClosed(r) \/ StopReader(r)
       PROVE TypeOK'
  BY <1>11, ReaderFacts, Zenon DEF TypeOK, AppReceive, DeliverClosed, StopReader, callVars
<1>12. CASE CloseHub \/ CloseStop
  BY <1>12, Zenon DEF TypeOK, CloseHub, CloseStop, callVars
<1>13. CASE UNCHANGED vars
  BY <1>13, Zenon DEF TypeOK, vars, callVars
<1> QED
  BY <1>1, <1>2, <1>3, <1>4, <1>5, <1>6, <1>7, <1>8, <1>9, <1>10, <1>11, <1>12, <1>13, Zenon
  DEF Next, CallStep, ReaderStep

----------------------------------------------------------------------------
(* The other conjuncts, one lemma each, one step per action.                *)

\* Every step keeps promises shared only between calls of one query.
LEMMA UnderwayStep ==
  TypeOK /\ Underway /\ NoLeak /\ [Next]_vars => Underway'
<1> SUFFICES ASSUME TypeOK, Underway, NoLeak, [Next]_vars PROVE Underway'
  BY Zenon
<1>1. ASSUME NEW c \in Call, NEW q \in Query, Begin(c, q) PROVE Underway'
  <2>1. \A c2 \in Call : c2 # c /\ pc[c2] \in {"query", "await", "delete"} => fut[c2] # c
    BY <1>1, RouterNetworkAssumption DEF Begin, Underway
  <2>2. store[q] # None => store[q] \in Call /\ query[store[q]] = q /\ store[q] # c
    BY <1>1 DEF Begin, NoLeak, TypeOK
  <2>3. fut'[c] \in Call /\ query'[fut'[c]] = q /\ query'[c] = q
    BY <1>1, <2>2, Zenon DEF Begin, TypeOK
  <2> QED BY <1>1, <2>1, <2>3 DEF Begin, Underway, TypeOK
<1>2. ASSUME NEW c \in Call, NEW q \in Query, BeginPeer(c, q) PROVE Underway'
  <2>1. \A c2 \in Call : c2 # c /\ pc[c2] \in {"query", "await", "delete"} => fut[c2] # c
    BY <1>2, RouterNetworkAssumption DEF BeginPeer, Underway
  <2> QED BY <1>2, <2>1, Zenon DEF BeginPeer, Underway, TypeOK
<1>3. ASSUME NEW c \in Call, AskRouter(c) PROVE Underway'
  <2>1. \A p \in Call : promise'[p] # promise[p] => p = fut[c]
    BY <1>3, SucceedFacts DEF AskRouter, TypeOK
  <2>2. pc[fut[c]] # "idle"
    BY <1>3, RouterNetworkAssumption DEF AskRouter, Underway, TypeOK
  <2> QED BY <1>3, <2>1, <2>2 DEF AskRouter, Underway, TypeOK
<1>4. ASSUME NEW c \in Call, Await(c) PROVE Underway'
  BY <1>4, Zenon DEF Await, Underway, TypeOK
<1>5. ASSUME NEW c \in Call, Delete(c) PROVE Underway'
  BY <1>5, Zenon DEF Delete, Underway, TypeOK
<1>6. ASSUME NEW c \in Call, Cancel(c) PROVE Underway'
  BY <1>6, Zenon DEF Cancel, Underway
<1>7. ASSUME NEW r \in Reader, NEW a \in Addr, ReceiveBeacon(r, a) PROVE Underway'
  BY <1>7, Zenon DEF ReceiveBeacon, Underway, TypeOK, callVars
<1>8. ASSUME NEW r \in Reader, ReceiveData(r) PROVE Underway'
  BY <1>8, Zenon DEF ReceiveData, Underway, TypeOK, callVars
<1>9. ASSUME NEW r \in Reader, OnAddr(r) \/ OnPublicKey(r) PROVE Underway'
  <2>1. \E F \in SUBSET Query : promise' = Succeed({store[q] : q \in F}, reader[r].addr)
    BY <1>9, Zenon DEF OnAddr, OnPublicKey, Query
  <2>2. PICK F \in SUBSET Query : promise' = Succeed({store[q] : q \in F}, reader[r].addr)
    BY <2>1, Zenon
  <2>3. reader[r].addr \in Addr
    BY <1>9, ReaderFacts, Zenon DEF OnAddr, OnPublicKey
  <2>4. \A p \in Call : promise'[p] # promise[p] => \E q \in Query : store[q] = p
    BY <2>2, <2>3, SucceedFacts
  <2>5. \A p \in Call : pc[p] = "idle" => promise'[p] = None
    BY <2>4, RouterNetworkAssumption DEF NoLeak, Underway
  <2> QED BY <1>9, <2>5 DEF OnAddr, OnPublicKey, Underway, TypeOK, Idle
<1>11. ASSUME NEW r \in Reader, AppReceive(r) \/ DeliverClosed(r) \/ StopReader(r)
       PROVE Underway'
  BY <1>11 DEF Underway, TypeOK, AppReceive, DeliverClosed, StopReader, callVars, Idle
<1>12. CASE CloseHub \/ CloseStop \/ UNCHANGED vars
  BY <1>12, Zenon DEF Underway, CloseHub, CloseStop, vars, callVars
<1> QED
  BY <1>1, <1>2, <1>3, <1>4, <1>5, <1>6, <1>7, <1>8, <1>9, <1>11, <1>12, Zenon
  DEF Next, CallStep, ReaderStep

\* Every step keeps the stores free of promises whose creator has returned.
LEMMA NoLeakStep ==
  TypeOK /\ Underway /\ NoLeak /\ [Next]_vars => NoLeak'
<1> SUFFICES ASSUME TypeOK, Underway, NoLeak, [Next]_vars PROVE NoLeak'
  BY Zenon
<1>1. ASSUME NEW c \in Call, NEW q \in Query, Begin(c, q) PROVE NoLeak'
  BY <1>1 DEF Begin, NoLeak, TypeOK
<1>2. ASSUME NEW c \in Call, NEW q \in Query, BeginPeer(c, q) PROVE NoLeak'
  BY <1>2 DEF BeginPeer, NoLeak, TypeOK
<1>3. ASSUME NEW c \in Call, AskRouter(c) PROVE NoLeak'
  BY <1>3 DEF AskRouter, NoLeak, TypeOK
<1>4. ASSUME NEW c \in Call, Await(c) PROVE NoLeak'
  BY <1>4 DEF Await, NoLeak, TypeOK
<1>5. ASSUME NEW c \in Call, Delete(c) PROVE NoLeak'
  BY <1>5 DEF Delete, NoLeak, Underway, TypeOK
<1>6. ASSUME NEW c \in Call, Cancel(c) PROVE NoLeak'
  BY <1>6, Zenon DEF Cancel, NoLeak
<1>7. ASSUME NEW r \in Reader, NEW a \in Addr, ReceiveBeacon(r, a) PROVE NoLeak'
  BY <1>7, Zenon DEF ReceiveBeacon, NoLeak, callVars
<1>8. ASSUME NEW r \in Reader, ReceiveData(r) \/ ReaderStep(r) PROVE NoLeak'
  BY <1>8, Zenon DEF NoLeak, ReceiveData, ReaderStep, OnAddr, OnPublicKey, AppReceive,
              DeliverClosed, StopReader, callVars
<1>9. CASE CloseHub \/ CloseStop \/ UNCHANGED vars
  BY <1>9, Zenon DEF NoLeak, CloseHub, CloseStop, vars, callVars
<1> QED
  BY <1>1, <1>2, <1>3, <1>4, <1>5, <1>6, <1>7, <1>8, <1>9, Zenon DEF Next, CallStep

\* Every step fulfils promises only with addresses that were asked for.
LEMMA RightAnswerStep ==
  TypeOK /\ Underway /\ NoLeak /\ RightAnswer /\ [Next]_vars => RightAnswer'
<1> SUFFICES ASSUME TypeOK, Underway, NoLeak, RightAnswer, [Next]_vars
             PROVE  RightAnswer'
  BY Zenon
<1>1. ASSUME NEW c \in Call, NEW q \in Query, Begin(c, q) PROVE RightAnswer'
  <2>1. promise[c] = None /\ result[c] = None
    BY <1>1, Zenon DEF Begin, Underway
  <2> QED BY <1>1, <2>1, RouterNetworkAssumption DEF Begin, RightAnswer, TypeOK
<1>2. ASSUME NEW c \in Call, NEW q \in Query, BeginPeer(c, q) PROVE RightAnswer'
  <2>1. promise[c] = None
    BY <1>2, Zenon DEF BeginPeer, Underway
  <2>2. PICK x \in Wants[q] \cup {Error} : result' = [result EXCEPT ![c] = x]
    BY <1>2, Zenon DEF BeginPeer
  <2> QED BY <1>2, <2>1, <2>2, RouterNetworkAssumption DEF BeginPeer, RightAnswer, TypeOK
<1>3. ASSUME NEW c \in Call, AskRouter(c) PROVE RightAnswer'
  <2>1. fut[c] \in Call /\ query[fut[c]] = query[c]
    BY <1>3, Zenon DEF AskRouter, Underway
  <2>2. \A p \in Call : promise'[p] # promise[p] =>
          p = fut[c] /\ promise'[p] \in known \cap Wants[query[c]]
    BY <1>3, SucceedFacts DEF AskRouter, TypeOK
  <2> QED BY <1>3, <2>1, <2>2, Zenon DEF AskRouter, RightAnswer
<1>4. ASSUME NEW c \in Call, Await(c) PROVE RightAnswer'
  <2>1. fut[c] \in Call /\ query[fut[c]] = query[c]
    BY <1>4, Zenon DEF Await, Underway
  <2>2. result'[c] \in Addr => result'[c] \in Wants[query[c]]
    BY <1>4, <2>1, RouterNetworkAssumption, Zenon DEF Await, RightAnswer, TypeOK
  <2> QED BY <1>4, <2>2 DEF Await, RightAnswer, TypeOK
<1>5. ASSUME NEW c \in Call, Delete(c) \/ Cancel(c) PROVE RightAnswer'
  BY <1>5, Zenon DEF Delete, Cancel, RightAnswer
<1>6. ASSUME NEW r \in Reader, NEW a \in Addr, ReceiveBeacon(r, a) PROVE RightAnswer'
  BY <1>6, Zenon DEF ReceiveBeacon, RightAnswer, callVars
<1>7. ASSUME NEW r \in Reader, OnAddr(r) \/ OnPublicKey(r) PROVE RightAnswer'
  <2> DEFINE a == reader[r].addr
  <2>1. a \in Addr /\ a \in known
    BY <1>7, ReaderFacts, Zenon DEF OnAddr, OnPublicKey, Underway
  <2>2. \E F \in SUBSET Query : /\ promise' = Succeed({store[q] : q \in F}, a)
                               /\ \A q \in F : a \in Wants[q]
    <3>1. CASE OnAddr(r)
      <4>1. {f \in FindQuery : a \in Wants[f]} \in SUBSET Query
        BY Zenon DEF Query
      <4> QED BY <3>1, <4>1, Zenon DEF OnAddr
    <3>2. CASE OnPublicKey(r)
      <4>1. {l \in LookupQuery : a \in Wants[l]} \in SUBSET Query
        BY Zenon DEF Query
      <4> QED BY <3>2, <4>1, Zenon DEF OnPublicKey
    <3> QED BY <1>7, <3>1, <3>2, Zenon
  <2>3. PICK F \in SUBSET Query : /\ promise' = Succeed({store[q] : q \in F}, a)
                                 /\ \A q \in F : a \in Wants[q]
    BY <2>2, Zenon
  <2> HIDE DEF a
  <2>4. \A p \in Call : promise'[p] # promise[p] =>
          promise'[p] = a /\ \E q \in F : store[q] = p
    BY <2>1, <2>3, SucceedFacts
  <2>5. \A p \in Call : promise'[p] # promise[p] =>
          promise'[p] \in known \cap Wants[query[p]]
    BY <2>1, <2>3, <2>4, RouterNetworkAssumption DEF NoLeak
  <2> QED BY <1>7, <2>5, Zenon DEF OnAddr, OnPublicKey, RightAnswer
<1>8. ASSUME NEW r \in Reader,
             ReceiveData(r) \/ AppReceive(r) \/ DeliverClosed(r) \/ StopReader(r)
      PROVE  RightAnswer'
  BY <1>8, Zenon DEF ReceiveData, AppReceive, DeliverClosed, StopReader, RightAnswer, callVars
<1>9. CASE CloseHub \/ CloseStop \/ UNCHANGED vars
  BY <1>9, Zenon DEF RightAnswer, CloseHub, CloseStop, vars, callVars
<1> QED
  BY <1>1, <1>2, <1>3, <1>4, <1>5, <1>6, <1>7, <1>8, <1>9, Zenon
  DEF Next, CallStep, ReaderStep

\* Every step leaves somebody to fulfil a promise that can be fulfilled.
LEMMA NoLostWakeupStep ==
  TypeOK /\ Underway /\ NoLostWakeup /\ [Next]_vars => NoLostWakeup'
<1> SUFFICES ASSUME TypeOK, Underway, NoLostWakeup, [Next]_vars,
                    NEW w \in Call, NEW b,
                    pc'[w] = "await", store'[query'[w]] = fut'[w],
                    promise'[fut'[w]] = None,
                    b \in known' \cap Wants[query'[w]]
             PROVE  \E r \in Reader : Announces(r, query[w], b)'
  BY DEF NoLostWakeup, Announces
<1> DEFINE Old == /\ pc[w] = "await" /\ store[query[w]] = fut[w]
                  /\ promise[fut[w]] = None /\ b \in known \cap Wants[query[w]]
           Same == UNCHANGED <<query[w], reader>>
           New == \E r \in Reader : Announces(r, query[w], b)'
<1>0. Old => \E s \in Reader : Announces(s, query[w], b)
  BY Zenon DEF NoLostWakeup, Announces
<1>1. ASSUME NEW c \in Call, NEW q \in Query, Begin(c, q) PROVE Old /\ Same
  <2>1. w # c /\ pc[w] = "await" /\ query'[w] = query[w] /\ fut'[w] = fut[w]
    BY <1>1, Zenon DEF Begin, TypeOK
  <2>2. fut[w] # c /\ fut[w] \in Call /\ query[w] \in Query
    BY <1>1, <2>1, RouterNetworkAssumption DEF Begin, Underway
  <2>3. store[query[w]] = fut[w]
    BY <1>1, <2>1, <2>2, Zenon DEF Begin, TypeOK
  <2> QED BY <1>1, <2>1, <2>3, Zenon DEF Begin
<1>2. ASSUME NEW c \in Call, NEW q \in Query, BeginPeer(c, q) PROVE Old /\ Same
  BY <1>2, Zenon DEF BeginPeer, TypeOK
<1>3. ASSUME NEW c \in Call, AskRouter(c) PROVE Old /\ Same
  <2>1. \A p \in Call : promise'[p] = None => promise[p] = None
    BY <1>3, SucceedFacts DEF AskRouter, TypeOK
  <2>2. fut[w] \in Call
    BY <1>3, Zenon DEF AskRouter, Underway, TypeOK
  <2>3. w # c
    <3>1. SUFFICES ASSUME w = c PROVE FALSE
      BY Zenon
    <3>2. PICK a \in known \cap Wants[query[c]] : promise' = Succeed({fut[c]}, a)
      BY <1>3, <3>1, Zenon DEF AskRouter
    <3>3. promise'[fut[c]] # None
      BY <2>2, <3>1, <3>2, SucceedFacts DEF TypeOK
    <3> QED BY <1>3, <3>1, <3>3, Zenon DEF AskRouter
  <2> QED BY <1>3, <2>1, <2>2, <2>3, Zenon DEF AskRouter, TypeOK
<1>4. ASSUME NEW c \in Call, Await(c) PROVE Old /\ Same
  BY <1>4, Zenon DEF Await, TypeOK
<1>5. ASSUME NEW c \in Call, Delete(c) PROVE Old /\ Same
  <2>1. pc[w] = "await" /\ fut[w] \in Call /\ query[w] \in Query
    BY <1>5, Zenon DEF Delete, TypeOK, Underway
  <2> QED BY <1>5, <2>1, RouterNetworkAssumption, Zenon DEF Delete, TypeOK
<1>6. ASSUME NEW c \in Call, Cancel(c) PROVE Old /\ Same
  BY <1>6, Zenon DEF Cancel
<1>7. ASSUME NEW r \in Reader, NEW a \in Addr, ReceiveBeacon(r, a)
      PROVE  New
  <2>1. CASE b = a
    <3>1. reader'[r].at = "OnAddr" /\ reader'[r].addr = b
      BY SMTT(30), <1>7, <2>1 DEF ReceiveBeacon, TypeOK
    <3> QED BY <1>7, <3>1 DEF Announces, ReceiveBeacon, callVars
  <2>2. CASE b # a
    <3>1. Old
      BY <1>7, <2>2, Zenon DEF ReceiveBeacon, callVars
    <3>2. PICK s \in Reader : Announces(s, query[w], b)
      BY SMTT(30), <1>0, <3>1
    <3>3. s # r
      BY SMTT(30), <1>7, <3>2 DEF ReceiveBeacon, Idle, Announces
    <3>4. reader'[s] = reader[s]
      BY SMTT(30), <1>7, <3>3 DEF ReceiveBeacon, TypeOK
    <3> QED BY <1>7, <3>2, <3>4, Zenon DEF Announces, ReceiveBeacon, callVars
  <2> QED BY <2>1, <2>2, Zenon
<1>8. ASSUME NEW r \in Reader, OnAddr(r) \/ OnPublicKey(r)
      PROVE  New
  <2>1. reader[r].addr \in Addr
    BY <1>8, ReaderFacts, Zenon DEF OnAddr, OnPublicKey
  <2>2. /\ pc[w] = "await" /\ store[query[w]] = fut[w] /\ b \in known \cap Wants[query[w]]
        /\ UNCHANGED <<query[w], fut>>
    BY <1>8, Zenon DEF OnAddr, OnPublicKey
  <2>3. fut[w] \in Call /\ query[w] \in Query
    BY <2>2, Zenon DEF Underway
  <2>4. promise[fut[w]] = None
    BY <1>8, <2>1, <2>2, <2>3, SucceedFacts DEF OnAddr, OnPublicKey
  <2>5. PICK s \in Reader : Announces(s, query[w], b)
    BY <1>0, <2>2, <2>4, Zenon
  <2>6. CASE s # r
    <3>1. reader'[s] = reader[s]
      BY <1>8, <2>6, Zenon DEF OnAddr, OnPublicKey, TypeOK
    <3> QED BY <2>2, <2>5, <3>1, Zenon DEF Announces
  <2>7. CASE s = r /\ OnAddr(r)
    <3>1. query[w] \notin FindQuery
      <4>1. SUFFICES ASSUME query[w] \in FindQuery PROVE FALSE
        BY Zenon
      <4>2. fut[w] \in {store[q] : q \in {f \in FindQuery : reader[r].addr \in Wants[f]}}
        BY <2>2, <2>5, <2>7, <4>1, Zenon DEF Announces
      <4>3. promise'[fut[w]] # None
        BY <2>1, <2>3, <2>7, <4>2, SucceedFacts, Zenon DEF OnAddr
      <4> QED BY <2>2, <4>3, Zenon
    <3>2. reader'[r].at = "OnPublicKey" /\ reader'[r].addr = b
      BY <2>5, <2>7, Zenon DEF OnAddr, TypeOK, Announces
    <3> QED BY <2>2, <3>1, <3>2, Zenon DEF Announces
  <2>8. CASE s = r /\ OnPublicKey(r)
    <3>1. query[w] \in LookupQuery
      BY <2>3, <2>5, <2>8, Zenon DEF OnPublicKey, Query, Announces
    <3>2. fut[w] \in {store[q] : q \in {l \in LookupQuery : reader[r].addr \in Wants[l]}}
      BY SMTT(30), <2>2, <2>5, <2>8, <3>1 DEF Announces
    <3>3. promise'[fut[w]] # None
      BY <2>1, <2>3, <2>8, <3>2, SucceedFacts, Zenon DEF OnPublicKey
    <3> QED BY SMTT(30), <2>2, <3>3
  <2> QED BY <1>8, <2>6, <2>7, <2>8, Zenon
<1>9. ASSUME NEW r \in Reader,
             ReceiveData(r) \/ AppReceive(r) \/ DeliverClosed(r) \/ StopReader(r)
      PROVE  New
  <2>1. Old /\ UNCHANGED <<query[w]>>
    BY SMTT(30), <1>9 DEF ReceiveData, AppReceive, DeliverClosed, StopReader, callVars
  <2>2. PICK s \in Reader : Announces(s, query[w], b)
    BY <1>0, <2>1, Zenon
  <2>3. s # r
    BY <1>9, <2>2 DEF ReceiveData, AppReceive, DeliverClosed, StopReader, Idle, Announces
  <2>4. reader'[s] = reader[s]
    BY <1>9, <2>3, Zenon DEF ReceiveData, AppReceive, DeliverClosed, StopReader, TypeOK
  <2> QED BY <2>1, <2>2, <2>4, Zenon DEF Announces
<1>10. ASSUME CloseHub \/ CloseStop \/ UNCHANGED vars PROVE New
  <2>1. Old /\ Same
    BY <1>10, Zenon DEF CloseHub, CloseStop, vars, callVars
  <2> QED BY <1>0, <2>1, Zenon DEF Announces
<1>11. Old /\ Same => New
  BY <1>0, Zenon DEF Announces
<1> HIDE DEF Old, Same, New
<1>12. New
  BY <1>1, <1>2, <1>3, <1>4, <1>5, <1>6, <1>7, <1>8, <1>9, <1>10, <1>11, Zenon
  DEF Next, CallStep, ReaderStep
<1> QED BY <1>12, Zenon DEF New

----------------------------------------------------------------------------
(* The theorems.                                                            *)

\* The invariant is inductive.
LEMMA Inductive == CallsInv /\ [Next]_vars => CallsInv'
BY TypeStep, UnderwayStep, NoLeakStep, RightAnswerStep, NoLostWakeupStep, Zenon DEF CallsInv

\* FindAddr, LookupPublicKey, the read loops and Close preserve the types and
\* all of the safety properties of the calls.
THEOREM CallsInvariant == Spec => []CallsInv
BY InitInv, Inductive, PTL DEF Spec

\* The calls, their promises and the read loops stay well typed.
THEOREM TypeCorrect == Spec => []TypeOK
<1>1. CallsInv => TypeOK
  BY Zenon DEF CallsInv
<1> QED BY <1>1, CallsInvariant, PTL

\* A call holds a promise exactly while it is under way.
THEOREM CallsUnderway == Spec => []Underway
<1>1. CallsInv => Underway
  BY Zenon DEF CallsInv
<1> QED BY <1>1, CallsInvariant, PTL

\* However calls, read loops, cancellations and Close interleave, FindAddr and
\* LookupPublicKey return only an address with the prefix, or the target, that
\* was asked for, and one that the router has learnt.
THEOREM AnswersAreRight == Spec => []RightAnswer
<1>1. CallsInv => RightAnswer
  BY Zenon DEF CallsInv
<1> QED BY <1>1, CallsInvariant, PTL

\* A promise is in findAddr or lookupPubKey only while its creator is under
\* way, so that the deferred Delete leaves nothing behind.
THEOREM StoresDoNotLeak == Spec => []NoLeak
<1>1. CallsInv => NoLeak
  BY Zenon DEF CallsInv
<1> QED BY <1>1, CallsInvariant, PTL

\* Between asking the router and waiting for the promise, a call misses no
\* beacon: a read loop that has made the answer known is still to fulfil it.
THEOREM NoWakeupIsLost == Spec => []NoLostWakeup
<1>1. CallsInv => NoLostWakeup
  BY Zenon DEF CallsInv
<1> QED BY <1>1, CallsInvariant, PTL

============================================================================
