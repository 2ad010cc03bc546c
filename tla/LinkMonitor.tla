----------------------------- MODULE LinkMonitor -----------------------------
(****************************************************************************)
(* multihoming.Swarm and its linkMonitor: which transport address a node    *)
(* uses to reach each of its peers.  Peers move between addresses, and are  *)
(* heard from there through heartbeats and data; discovery rewrites the     *)
(* addresses in the peer stores, which are chained.                         *)
(*                                                                          *)
(* Sightings carry the wall clock.  The model keeps the age of a sighting   *)
(* instead, in ticks; ages fall, possibly below zero, when the clock is set *)
(* back.  Of two sightings of the same tick either may be the later one.    *)
(****************************************************************************)
EXTENDS Integers, FiniteSets

CONSTANTS
  Peer,          \* other nodes
  Addr,          \* transport addresses
  Store,         \* the stores of the ChainStore
  Expire,        \* linkMonitor.expireAfter, in ticks
  Period,        \* period of cleanupLoop
  MaxMoves,      \* bound on moves of peers
  MaxBack,       \* bound on how far the clock is set back in all
  MaxEdits,      \* bound on changes of the peer stores
  None

ASSUME LinkMonitorAssumption ==
  /\ Expire \in Nat /\ Period \in Nat \ {0}
  /\ MaxMoves \in Nat /\ MaxBack \in Nat /\ MaxEdits \in Nat
  /\ None \notin Int

VARIABLES
  store,         \* store[s][k] : the addresses that store s has for k, or None
  sightings,     \* sightings[k][a] : age of the last sighting of k at a, or None
  addrs,         \* the addresses in lm.addrs
  sinceCleanup,  \* ticks since cleanupOnce ran
  loc,           \* loc[k] : where peer k is
  net,           \* messages of peers on their way to this node
  sent,          \* which peers have sent on which channel in this tick
  moves, back, edits

vars == <<store, sightings, addrs, sinceCleanup, loc, net, sent, moves, back, edits>>
storeVars == <<store, edits>>
peerVars == <<loc, net, sent, moves>>

\* The daemon starts the main node before discovery: the first store is
\* configured, with any addresses, and the others have the same peers.
Init ==
  /\ \E A \in SUBSET Addr, c \in Store :
       store = [s \in Store |-> [k \in Peer |-> IF s = c THEN A ELSE {}]]
  /\ sightings = [k \in Peer |-> [a \in Addr |-> None]]
  /\ addrs = {}
  /\ sinceCleanup = 0
  /\ loc \in [Peer -> Addr]
  /\ net = {} /\ sent = {}
  /\ moves = 0 /\ back = 0 /\ edits = 0

----------------------------------------------------------------------------
(* The peer stores.                                                         *)

\* ChainStore: a peer is in the chain when it is in one of the stores, and has
\* the addresses of all of them.
Contains(k) == \E s \in Store : store[s][k] # None
Get(k) == UNION {store[s][k] : s \in {r \in Store : store[r][k] # None}}

SetStore(s, k, v) ==
  /\ edits < MaxEdits
  /\ edits' = edits + 1
  /\ store' = [store EXCEPT ![s][k] = v]
  /\ UNCHANGED <<sightings, addrs, sinceCleanup, peerVars, back>>

Add(s, k) == store[s][k] = None /\ SetStore(s, k, {})
Remove(s, k) == store[s][k] # None /\ SetStore(s, k, None)
\* Update changes only a peer that is in the store.
SetAddrs(s, k, A) == store[s][k] # None /\ SetStore(s, k, A)

----------------------------------------------------------------------------
(* linkMonitor.                                                             *)

Seen(k) == {a \in Addr : sightings[k][a] # None}

\* Variant: an address that was seen is not marked again.
MarkOnce(k, a) ==
  LET newer == sightings[k][a] = None IN
  /\ sightings' = IF newer THEN [sightings EXCEPT ![k][a] = 0] ELSE sightings
  /\ addrs' = IF newer THEN addrs \cup {a} ELSE addrs

\* A sighting with a time in the future is kept.
Mark(k, a) ==
  LET newer == sightings[k][a] = None \/ sightings[k][a] >= 0 IN
  /\ sightings' = IF newer THEN [sightings EXCEPT ![k][a] = 0] ELSE sightings
  /\ addrs' = IF newer THEN addrs \cup {a} ELSE addrs

\* The addresses that PickAddr may return for k; none is an error.
PickAddr(k) ==
  IF ~Contains(k) THEN {}
  ELSE IF Seen(k) # {}
       THEN {a \in Seen(k) : \A b \in Seen(k) : sightings[k][a] <= sightings[k][b]}
       ELSE Get(k)

\* recvLoop: heartbeats of nodes that are not peers are marked as well.
ReceiveHeartbeat(m) ==
  /\ m.ch = "heartbeat"
  /\ Mark(m.from, m.addr)

\* Swarm.Receive passes over what does not come from a peer.
ReceiveData(m) ==
  /\ m.ch = "data"
  /\ \/ Contains(m.from) /\ Mark(m.from, m.addr)
     \/ ~Contains(m.from) /\ UNCHANGED <<sightings, addrs>>

Receive(m) ==
  /\ m \in net
  /\ ReceiveHeartbeat(m) \/ ReceiveData(m)
  /\ net' = net \ {m}
  /\ UNCHANGED <<storeVars, sinceCleanup, loc, sent, moves, back>>

\* Variant: sightings are kept.
cleanupOnceNever ==
  /\ sinceCleanup' = 0
  /\ UNCHANGED <<storeVars, sightings, addrs, peerVars, back>>

\* Variant: addrs is cleaned up as well, a tick too early.
cleanupOnceAddrs ==
  /\ sightings' = [k \in Peer |-> [a \in Addr |->
                     IF sightings[k][a] # None /\ sightings[k][a] > Expire
                     THEN None ELSE sightings[k][a]]]
  /\ addrs' = {a \in addrs : \E k \in Peer : sightings[k][a] # None /\ sightings[k][a] < Expire}
  /\ sinceCleanup' = 0
  /\ UNCHANGED <<storeVars, peerVars, back>>

\* Old sightings are deleted; addrs, and the entry of a peer without
\* sightings, remain.
cleanupOnce ==
  /\ sightings' = [k \in Peer |-> [a \in Addr |->
                     IF sightings[k][a] # None /\ sightings[k][a] > Expire
                     THEN None ELSE sightings[k][a]]]
  /\ sinceCleanup' = 0
  /\ UNCHANGED <<storeVars, addrs, peerVars, back>>

----------------------------------------------------------------------------
(* The peers, their links and the clock.                                    *)

\* A peer that knows where we are sends from where it is: heartbeats in every
\* tick, and perhaps data.
Send(k, ch) ==
  /\ <<k, ch>> \notin sent
  /\ net' = net \cup {[from |-> k, addr |-> loc[k], ch |-> ch]}
  /\ sent' = sent \cup {<<k, ch>>}
  /\ UNCHANGED <<storeVars, sightings, addrs, sinceCleanup, loc, moves, back>>

Move(k, a) ==
  /\ a # loc[k]
  /\ moves < MaxMoves
  /\ moves' = moves + 1
  /\ loc' = [loc EXCEPT ![k] = a]
  /\ UNCHANGED <<storeVars, sightings, addrs, sinceCleanup, net, sent, back>>

Older(d) == [k \in Peer |-> [a \in Addr |-> IF sightings[k][a] = None THEN None
                                            ELSE sightings[k][a] + d]]

\* A tick is longer than a period of heartbeats and their way over the link,
\* and cleanupLoop keeps to its ticker.
Tick ==
  /\ net = {} /\ \A k \in Peer : <<k, "heartbeat">> \in sent
  /\ sinceCleanup < Period
  /\ sinceCleanup' = sinceCleanup + 1
  /\ sightings' = Older(1)
  /\ sent' = {}
  /\ UNCHANGED <<storeVars, addrs, loc, net, moves, back>>

ClockBack(d) ==
  /\ back + d <= MaxBack
  /\ back' = back + d
  /\ sightings' = Older(0 - d)
  /\ UNCHANGED <<storeVars, addrs, sinceCleanup, peerVars>>

Message == [from : Peer, addr : Addr, ch : {"heartbeat", "data"}]

Next ==
  \/ \E s \in Store, k \in Peer :
       \/ Add(s, k)
       \/ Remove(s, k)
       \/ \E A \in SUBSET Addr : SetAddrs(s, k, A)
  \/ \E m \in Message : Receive(m)
  \/ cleanupOnce
  \/ \E k \in Peer :
       \/ \E ch \in {"heartbeat", "data"} : Send(k, ch)
       \/ \E a \in Addr : Move(k, a)
  \/ Tick
  \/ \E d \in 1 .. MaxBack : ClockBack(d)

Spec == Init /\ [][Next]_vars

\* The loops of the monitor run, peers send their heartbeats, and time passes.
Fairness ==
  /\ \A m \in Message : WF_vars(Receive(m))
  /\ \A k \in Peer : WF_vars(Send(k, "heartbeat"))
  /\ WF_vars(sinceCleanup = Period /\ cleanupOnce)
  /\ WF_vars(Tick)

FairSpec == Spec /\ Fairness

----------------------------------------------------------------------------
(* Properties.                                                              *)

\* Each variable has its type.
TypeOK ==
  /\ store \in [Store -> [Peer -> (SUBSET Addr) \cup {None}]]
  /\ sightings \in [Peer -> [Addr -> Int \cup {None}]]
  /\ addrs \in SUBSET Addr
  /\ sinceCleanup \in 0 .. Period
  /\ loc \in [Peer -> Addr]
  /\ net \in SUBSET Message
  /\ sent \in SUBSET (Peer \X {"heartbeat", "data"})
  /\ moves \in 0 .. MaxMoves /\ back \in 0 .. MaxBack /\ edits \in 0 .. MaxEdits

\* PickAddr does not reach its panic: the address of every sighting is known,
\* whatever cleanupOnce deletes and however the clock runs.
NoMissingAddress == \A k \in Peer : Seen(k) \subseteq addrs

\* A sighting is not used after expireAfter and one cleanup period, also when
\* the clock was set back meanwhile.
BoundedStaleness ==
  \A k \in Peer : \A a \in Seen(k) :
    /\ sightings[k][a] <= Expire + Period
    /\ sightings[k][a] > Expire => sightings[k][a] <= Expire + sinceCleanup

\* Once peer k stays at an address and in the store, that address is in the
\* end the only one that Tell uses for it, whatever it was seen at before,
\* whatever the store says, and although the clock was set back.
FindsPeer ==
  \A k \in Peer, a \in Addr :
    <>[](loc[k] = a /\ Contains(k)) => <>[](PickAddr(k) = {a})

============================================================================
