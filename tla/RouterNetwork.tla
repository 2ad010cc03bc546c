---------------------------- MODULE RouterNetwork ----------------------------
(****************************************************************************)
(* routers.Network: one node's router with its read loops, and the calls of *)
(* FindAddr and LookupPublicKey that wait for the router to learn something.*)
(*                                                                          *)
(* A call puts a promise under its query in a store, or shares the promise  *)
(* that is there, asks the router once, and waits.  A read loop that takes  *)
(* in a beacon first updates the router, then fulfils the promises of the   *)
(* prefixes that match (OnAddr), then the one for the public key            *)
(* (OnPublicKey).  These steps of calls and read loops interleave.          *)
(*                                                                          *)
(* An address stands for its public key.  A promise is named after the call *)
(* that created it.  Tell is in BeaconNet; heartbeatLoop has no state here. *)
(****************************************************************************)
EXTENDS Naturals, FiniteSets

CONSTANTS
  Addr,           \* addresses of other nodes
  Peer,           \* those that are one-hop peers
  FindQuery,      \* prefixes given to FindAddr
  LookupQuery,    \* targets given to LookupPublicKey
  Wants,          \* Wants[q] : the addresses that have prefix q, or are target q
  Call,           \* calls of FindAddr and LookupPublicKey
  Reader,         \* read loops
  MaxData,        \* bound on the data messages from below
  None, Error

Query == FindQuery \cup LookupQuery

ASSUME RouterNetworkAssumption ==
  /\ Peer \subseteq Addr
  /\ Wants \in [Query -> SUBSET Addr]
  /\ FindQuery \cap LookupQuery = {}
  /\ \A q \in LookupQuery : \E a \in Addr : Wants[q] = {a}
  /\ None \notin Addr \cup Call \cup Query
  /\ Error \notin Addr \cup {None}
  /\ MaxData \in Nat

VARIABLES
  known,       \* the addresses in the router's table
  store,       \* store[q] : the promise that findAddr or lookupPubKey has for q
  promise,     \* promise[p] : the value of p, once fulfilled
  pc,          \* pc[c] : how far call c has come
  query,       \* query[c] : what c asks for
  fut,         \* fut[c] : the promise that c waits for
  cancelled,   \* the calls whose context is done
  result,      \* result[c] : what c returned
  reader,      \* reader[r] : what read loop r is doing
  data,        \* number of data messages received from below
  closing      \* Close: "open", then "hub" closed, then "stopped"

callVars == <<store, promise, pc, query, fut, cancelled, result>>
vars == <<known, callVars, reader, data, closing>>

Idle == [at |-> "receive"]

Init ==
  /\ known = {}
  /\ store = [q \in Query |-> None]
  /\ promise = [c \in Call |-> None]
  /\ pc = [c \in Call |-> "idle"]
  /\ query = [c \in Call |-> None]
  /\ fut = [c \in Call |-> None]
  /\ cancelled = {}
  /\ result = [c \in Call |-> None]
  /\ reader = [r \in Reader |-> Idle]
  /\ data = 0
  /\ closing = "open"

----------------------------------------------------------------------------
(* FindAddr and LookupPublicKey.                                            *)

Stopping == closing = "stopped"

\* Promise.Succeed: only the first value counts.
Succeed(P, a) == [p \in Call |-> IF p \in P /\ promise[p] = None THEN a ELSE promise[p]]

\* store.GetOrCreate.  Nothing checks whether the Network is closed.
Begin(c, q) ==
  LET created == store[q] = None
  IN  /\ pc[c] = "idle"
      /\ q \in LookupQuery => Wants[q] \cap Peer = {}
      /\ pc' = [pc EXCEPT ![c] = "query"]
      /\ query' = [query EXCEPT ![c] = q]
      /\ store' = IF created THEN [store EXCEPT ![q] = c] ELSE store
      /\ fut' = [fut EXCEPT ![c] = IF created THEN c ELSE store[q]]
      /\ UNCHANGED <<known, promise, cancelled, result, reader, data, closing>>

\* The public key of a one-hop peer comes from the swarm, if it has it.
BeginPeer(c, q) ==
  /\ pc[c] = "idle"
  /\ q \in LookupQuery /\ Wants[q] \subseteq Peer
  /\ pc' = [pc EXCEPT ![c] = "done"]
  /\ query' = [query EXCEPT ![c] = q]
  /\ \E x \in Wants[q] \cup {Error} : result' = [result EXCEPT ![c] = x]
  /\ UNCHANGED <<known, store, promise, fut, cancelled, reader, data, closing>>

\* Variant: what the router knows is not used.
AskRouterIgnored(c) ==
  /\ pc[c] = "query"
  /\ pc' = [pc EXCEPT ![c] = "await"]
  /\ UNCHANGED <<known, store, promise, query, fut, cancelled, result, reader, data, closing>>

\* The router is asked once.  RetryRet1 asks again only after Await has
\* failed, which it does when the context is done.
AskRouter(c) ==
  /\ pc[c] = "query"
  /\ pc' = [pc EXCEPT ![c] = "await"]
  /\ \/ \E a \in known \cap Wants[query[c]] : promise' = Succeed({fut[c]}, a)
     \/ known \cap Wants[query[c]] = {} /\ UNCHANGED promise
  /\ UNCHANGED <<known, store, query, fut, cancelled, result, reader, data, closing>>

Await(c) ==
  /\ pc[c] = "await"
  /\ \/ promise[fut[c]] # None /\ result' = [result EXCEPT ![c] = promise[fut[c]]]
     \/ c \in cancelled /\ result' = [result EXCEPT ![c] = Error]
  /\ pc' = [pc EXCEPT ![c] = IF fut[c] = c THEN "delete" ELSE "done"]
  /\ UNCHANGED <<known, store, promise, query, fut, cancelled, reader, data, closing>>

\* Variant: without the deferred Delete.
DeleteNothing(c) ==
  /\ pc[c] = "delete"
  /\ pc' = [pc EXCEPT ![c] = "done"]
  /\ UNCHANGED <<known, store, promise, query, fut, cancelled, result, reader, data, closing>>

\* The deferred store.Delete(q, fut) of the call that created the promise.
Delete(c) ==
  /\ pc[c] = "delete"
  /\ pc' = [pc EXCEPT ![c] = "done"]
  /\ store' = IF store[query[c]] = fut[c]
              THEN [store EXCEPT ![query[c]] = None] ELSE store
  /\ UNCHANGED <<known, promise, query, fut, cancelled, result, reader, data, closing>>

\* The caller's context is cancelled or times out.
Cancel(c) ==
  /\ pc[c] \in {"query", "await"} /\ c \notin cancelled
  /\ cancelled' = cancelled \cup {c}
  /\ UNCHANGED <<known, store, promise, pc, query, fut, result, reader, data, closing>>

----------------------------------------------------------------------------
(* readLoop and the callbacks that the router makes from handleBeacon and   *)
(* handleData.                                                              *)

ReceiveBeacon(r, a) ==
  /\ reader[r] = Idle /\ ~Stopping
  /\ known' = known \cup {a}
  /\ reader' = [reader EXCEPT ![r] = [at |-> "OnAddr", addr |-> a]]
  /\ UNCHANGED <<callVars, data, closing>>

\* handleAddr: every promise in findAddr whose prefix matches.
OnAddr(r) ==
  /\ reader[r].at = "OnAddr"
  /\ LET a == reader[r].addr
     IN  /\ promise' = Succeed({store[q] : q \in {f \in FindQuery : a \in Wants[f]}}, a)
         /\ reader' = [reader EXCEPT ![r] = [at |-> "OnPublicKey", addr |-> a]]
  /\ UNCHANGED <<known, store, pc, query, fut, cancelled, result, data, closing>>

\* Variant: the address is not compared.
OnPublicKeyAny(r) ==
  /\ reader[r].at = "OnPublicKey"
  /\ promise' = Succeed({store[q] : q \in LookupQuery}, reader[r].addr)
  /\ reader' = [reader EXCEPT ![r] = Idle]
  /\ UNCHANGED <<known, store, pc, query, fut, cancelled, result, data, closing>>

\* handlePublicKey: the promise in lookupPubKey for that address.
OnPublicKey(r) ==
  /\ reader[r].at = "OnPublicKey"
  /\ LET a == reader[r].addr
     IN  promise' = Succeed({store[q] : q \in {l \in LookupQuery : a \in Wants[l]}}, a)
  /\ reader' = [reader EXCEPT ![r] = Idle]
  /\ UNCHANGED <<known, store, pc, query, fut, cancelled, result, data, closing>>

\* handleData for the local node: OnData blocks in tellHub.Deliver.
ReceiveData(r) ==
  /\ reader[r] = Idle /\ ~Stopping
  /\ data < MaxData
  /\ data' = data + 1
  /\ reader' = [reader EXCEPT ![r] = [at |-> "Deliver"]]
  /\ UNCHANGED <<known, callVars, closing>>

\* The application calls Receive and takes the message of one read loop.
AppReceive(r) ==
  /\ reader[r].at = "Deliver" /\ closing = "open"
  /\ reader' = [reader EXCEPT ![r] = Idle]
  /\ UNCHANGED <<known, callVars, data, closing>>

\* Variant: Deliver goes on waiting for a receiver.
DeliverForever(r) ==
  /\ reader[r].at = "Deliver" /\ closing # "open"
  /\ UNCHANGED vars

\* Deliver fails once the hub is closed.
DeliverClosed(r) ==
  /\ reader[r].at = "Deliver" /\ closing # "open"
  /\ reader' = [reader EXCEPT ![r] = Idle]
  /\ UNCHANGED <<known, callVars, data, closing>>

\* Swarm.Receive fails once the service group's context is cancelled, and the
\* service group does not start the loop again.
StopReader(r) ==
  /\ reader[r] = Idle /\ Stopping
  /\ reader' = [reader EXCEPT ![r] = [at |-> "stopped"]]
  /\ UNCHANGED <<known, callVars, data, closing>>

CloseHub ==
  /\ closing = "open"
  /\ closing' = "hub"
  /\ UNCHANGED <<known, callVars, reader, data>>

\* ServiceGroup.Stop cancels the context of the read loops.
CloseStop ==
  /\ closing = "hub"
  /\ closing' = "stopped"
  /\ UNCHANGED <<known, callVars, reader, data>>

----------------------------------------------------------------------------
CallStep(c) == AskRouter(c) \/ Await(c) \/ Delete(c)

ReaderStep(r) == OnAddr(r) \/ OnPublicKey(r) \/ AppReceive(r) \/ DeliverClosed(r) \/ StopReader(r)

Next ==
  \/ \E c \in Call, q \in Query : Begin(c, q) \/ BeginPeer(c, q)
  \/ \E c \in Call : CallStep(c) \/ Cancel(c)
  \/ \E r \in Reader, a \in Addr : ReceiveBeacon(r, a)
  \/ \E r \in Reader : ReceiveData(r) \/ ReaderStep(r)
  \/ CloseHub \/ CloseStop

Spec == Init /\ [][Next]_vars

\* Goroutines run, the application receives, every node goes on sending
\* beacons, and Close, once begun, goes on.
Fairness ==
  /\ \A c \in Call : WF_vars(CallStep(c))
  /\ \A r \in Reader : WF_vars(ReaderStep(r))
  /\ \A a \in Addr : SF_vars(\E r \in Reader : ReceiveBeacon(r, a))
  /\ WF_vars(CloseStop)

FairSpec == Spec /\ Fairness

----------------------------------------------------------------------------
ReaderState ==
  {[at |-> x] : x \in {"receive", "Deliver", "stopped"}}
    \cup [at : {"OnAddr", "OnPublicKey"}, addr : Addr]

TypeOK ==
  /\ known \subseteq Addr
  /\ store \in [Query -> Call \cup {None}]
  /\ promise \in [Call -> Addr \cup {None}]
  /\ pc \in [Call -> {"idle", "query", "await", "delete", "done"}]
  /\ query \in [Call -> Query \cup {None}]
  /\ fut \in [Call -> Call \cup {None}]
  /\ cancelled \subseteq Call
  /\ result \in [Call -> Addr \cup {None, Error}]
  /\ reader \in [Reader -> ReaderState]
  /\ data \in 0..MaxData
  /\ closing \in {"open", "hub", "stopped"}

\* A call that is under way waits for the promise of a call that asked for the
\* same, one that has not begun has left no trace, and a read loop announces
\* only what the router has already learnt (handleBeacon updates its table
\* before it makes the callbacks).
Underway ==
  /\ \A c \in Call :
       /\ pc[c] = "idle" => query[c] = None /\ promise[c] = None /\ result[c] = None
       /\ pc[c] \in {"query", "await", "delete"} =>
            query[c] \in Query /\ fut[c] \in Call /\ query[fut[c]] = query[c]
  /\ \A r \in Reader :
       reader[r].at \in {"OnAddr", "OnPublicKey"} => reader[r].addr \in known

\* A call that succeeds returns an address that it asked for and that the
\* router has learnt, whichever of the router, a read loop or another call
\* fulfilled the promise.
RightAnswer ==
  /\ \A p \in Call : promise[p] # None => promise[p] \in known \cap Wants[query[p]]
  /\ \A c \in Call : result[c] \in Addr => result[c] \in Wants[query[c]]

\* The stores do not leak: a promise is in a store only while the call that
\* created it is under way and will delete it.
NoLeak ==
  \A q \in Query : store[q] # None =>
    /\ pc[store[q]] \in {"query", "await", "delete"}
    /\ query[store[q]] = q /\ fut[store[q]] = store[q]

\* Read loop r has still to tell the promise for query q of address a.
Announces(r, q, a) ==
  /\ reader[r].at \in IF q \in FindQuery THEN {"OnAddr"} ELSE {"OnAddr", "OnPublicKey"}
  /\ reader[r].addr = a

\* No wakeup is lost between asking the router and waiting: when a call waits
\* for a promise that is still in its store, and the router knows an answer,
\* then a read loop is about to fulfil the promise.
NoLostWakeup ==
  \A c \in Call :
    pc[c] = "await" /\ store[query[c]] = fut[c] /\ promise[fut[c]] = None =>
      \A a \in known \cap Wants[query[c]] : \E r \in Reader : Announces(r, query[c], a)

\* A call that created its promise returns once the router knows an answer.
CreatorAnswered ==
  \A c \in Call :
    []<>~(pc[c] = "await" /\ fut[c] = c /\ known \cap Wants[query[c]] # {})

\* Close stops all read loops, those blocked in Deliver included.
CloseStops == []<>(closing # "open" => \A r \in Reader : reader[r].at = "stopped")

\* A node that the network knows can be found ("must provide a way to find an
\* address known to the network"): every call that waits, not only the one
\* that created the promise, returns once the router knows an answer.
WaiterAnswered ==
  \A c \in Call :
    pc[c] = "await" /\ known \cap Wants[query[c]] # {}
      ~> pc[c] = "done" \/ closing # "open"

============================================================================
