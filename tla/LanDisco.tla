------------------------------- MODULE LanDisco -------------------------------
(****************************************************************************)
(* Local discovery: peers multicast messages with their transport addresses *)
(* sealed under their id.  Bus reads packets into one buffer and hands them *)
(* to the subscriber if it is waiting; the subscriber gets the buffer       *)
(* itself, and the next packet may overwrite it before it is opened.  The   *)
(* service is run again whenever it ends with an error.                     *)
(****************************************************************************)
EXTENDS Naturals, FiniteSets

CONSTANTS
  Peer,        \* peers in the store
  Self,        \* this node's id; multicast comes back to it
  Stranger,    \* ids outside the store
  Addr,        \* transport addresses
  Short,       \* a packet too short to be a message
  MaxMove,     \* bound on moves of peers
  None

VARIABLES
  at,          \* at[p] : where peer p is
  moves,
  packets,     \* packets on the network
  run,         \* "start", "up", "ending", "stopped" : Service.Run
  ctx,         \* the daemon stops
  bus,         \* "read", "failed", "closed" : the bus's read loop
  buf,         \* what its buffer holds
  handler,     \* the service's read loop: where it is, and the message it got
  book,        \* book[p] : addresses of p in the store
  crashed,
  said         \* auxiliary: what each peer has announced

vars == <<at, moves, packets, run, ctx, bus, buf, handler, book, crashed, said>>

\* Messages; what those that no peer sealed contain does not matter.
Packet == [from : Peer, addr : Addr] \cup [from : {Self} \cup Stranger, addr : {None}]
Off == [at |-> "off", msg |-> None]
Waiting == [at |-> "wait", msg |-> None]

Init ==
  /\ at \in [Peer -> Addr] /\ moves = 0
  /\ packets = {}
  /\ run = "start" /\ ctx = FALSE
  /\ bus = "closed" /\ buf = None
  /\ handler = Off
  /\ book = [p \in Peer |-> {}]
  /\ crashed = FALSE
  /\ said = [p \in Peer |-> {}]

----------------------------------------------------------------------------
(* The network: packets get lost and overtake each other.                   *)

PeerAnnounces(p) ==
  /\ packets' = packets \cup {[from |-> p, addr |-> at[p]]}
  /\ said' = [said EXCEPT ![p] = @ \cup {at[p]}]
  /\ UNCHANGED <<at, moves, run, ctx, bus, buf, handler, book, crashed>>

OtherPacket ==
  /\ \E x \in [from : Stranger, addr : {None}] \cup {Short} : packets' = packets \cup {x}
  /\ UNCHANGED <<at, moves, run, ctx, bus, buf, handler, book, crashed, said>>

Lose(x) ==
  /\ x \in packets
  /\ packets' = packets \ {x}
  /\ UNCHANGED <<at, moves, run, ctx, bus, buf, handler, book, crashed, said>>

Move(p) ==
  /\ moves < MaxMove
  /\ moves' = moves + 1
  /\ \E a \in Addr : at' = [at EXCEPT ![p] = a]
  /\ UNCHANGED <<packets, run, ctx, bus, buf, handler, book, crashed, said>>

----------------------------------------------------------------------------
(* Bus.readLoop.                                                            *)

\* A packet is read, parsed and offered to the subscriber.  One that cannot be
\* parsed is offered as nil.
BusRead(x) ==
  /\ x \in packets /\ bus = "read" /\ ~crashed
  /\ packets' = packets \ {x}
  /\ buf' = x
  /\ handler' = IF handler.at # "wait" THEN handler
                ELSE [at |-> IF x = Short THEN "nil" ELSE "open", msg |-> x]
  /\ UNCHANGED <<at, moves, run, ctx, bus, book, crashed, said>>

\* An error of the connection ends the loop; Close will report it.
BusFails ==
  /\ bus = "read" /\ ~crashed
  /\ bus' = IF run = "ending" THEN "closed" ELSE "failed"
  /\ UNCHANGED <<at, moves, packets, run, ctx, buf, handler, book, crashed, said>>

----------------------------------------------------------------------------
(* Service.handleMessage.                                                   *)

\* What Open decrypts: the message, or, when the buffer was overwritten, the
\* packet that is there now or a mixture that does not decrypt.
Contents == IF buf = handler.msg THEN {buf} ELSE {buf, None}

\* Slicing nil panics.
OpenNil ==
  /\ handler.at = "nil" /\ ~crashed
  /\ crashed' = TRUE
  /\ UNCHANGED <<at, moves, packets, run, ctx, bus, buf, handler, book, said>>

\* Variant: the store is updated for the peer of the message that was read, with
\* what the buffer now holds.
OpenStale ==
  /\ handler.at = "open" /\ ~crashed
  /\ handler' = Waiting
  /\ \E c \in Contents :
       book' = IF c \in [from : Peer, addr : Addr] /\ handler.msg.from \in Peer
               THEN [book EXCEPT ![handler.msg.from] = {c.addr}] ELSE book
  /\ UNCHANGED <<at, moves, packets, run, ctx, bus, buf, crashed, said>>

\* Variant: addresses are added and none replaced.
OpenAdds ==
  /\ handler.at = "open" /\ ~crashed
  /\ handler' = Waiting
  /\ \E c \in Contents :
       book' = IF c \in [from : Peer, addr : Addr] THEN [book EXCEPT ![c.from] = @ \cup {c.addr}] ELSE book
  /\ UNCHANGED <<at, moves, packets, run, ctx, bus, buf, crashed, said>>

\* Own messages are ignored; else the peer whose id opens the message gets the
\* addresses in it.
Open ==
  /\ handler.at = "open" /\ ~crashed
  /\ handler' = Waiting
  /\ \E c \in Contents :
       book' = IF c \in [from : Peer, addr : Addr] THEN [book EXCEPT ![c.from] = {c.addr}] ELSE book
  /\ UNCHANGED <<at, moves, packets, run, ctx, bus, buf, crashed, said>>

----------------------------------------------------------------------------
(* Service.Run and RunForever.                                              *)

\* Where NewBus gives an error, Run is called again.
Start ==
  /\ run = "start" /\ ~crashed
  /\ \/ ctx /\ run' = "stopped" /\ UNCHANGED <<bus, handler>>
     \/ ~ctx /\ run' = "up" /\ bus' = "read" /\ handler' = Waiting
     \/ ~ctx /\ UNCHANGED <<run, bus, handler>>
  /\ UNCHANGED <<at, moves, packets, ctx, buf, book, crashed, said>>

\* Announcing, which also reaches this node, or failing to.
Announce ==
  /\ run = "up" /\ ~crashed
  /\ \/ packets' = packets \cup {[from |-> Self, addr |-> None]} /\ UNCHANGED run
     \/ run' = "ending" /\ UNCHANGED packets
  /\ UNCHANGED <<at, moves, ctx, bus, buf, handler, book, crashed, said>>

Cancel ==
  /\ ~ctx
  /\ ctx' = TRUE
  /\ run' = IF run = "up" THEN "ending" ELSE run
  /\ UNCHANGED <<at, moves, packets, bus, buf, handler, book, crashed, said>>

HandlerEnds ==
  /\ run = "ending" /\ handler.at = "wait" /\ ~crashed
  /\ handler' = Off
  /\ UNCHANGED <<at, moves, packets, run, ctx, bus, buf, book, crashed, said>>

\* All goroutines have ended; Close has waited for the bus.
RunEnds ==
  /\ run = "ending" /\ handler.at = "off" /\ bus # "read" /\ ~crashed
  /\ run' = "start"
  /\ UNCHANGED <<at, moves, packets, ctx, bus, buf, handler, book, crashed, said>>

Next ==
  \/ \E p \in Peer : PeerAnnounces(p) \/ Move(p)
  \/ OtherPacket
  \/ \E x \in Packet \cup {Short} : Lose(x) \/ BusRead(x)
  \/ BusFails \/ OpenNil \/ Open
  \/ Start \/ Announce \/ Cancel \/ HandlerEnds \/ RunEnds

Spec == Init /\ [][Next]_vars

\* Goroutines go on, and packets leave the network.  Peers announce for ever, and
\* since the periods of different nodes drift, not always while the handler is
\* busy; an announcement that is repeated is in the end read, and opened before
\* the next packet comes.  NewBus does not fail for ever.
Fairness ==
  /\ \A p \in Peer : SF_vars(PeerAnnounces(p) /\ handler.at = "wait")
  /\ \A x \in Packet : WF_vars(Lose(x) \/ BusRead(x))
  /\ \A x \in [from : Peer, addr : Addr] : /\ SF_vars(BusRead(x) /\ handler.at = "wait")
                                          /\ SF_vars(Open /\ buf = x /\ handler.msg = x)
  /\ WF_vars(OpenNil) /\ WF_vars(Open)
  /\ WF_vars(Start) /\ WF_vars(HandlerEnds) /\ WF_vars(RunEnds)
  /\ WF_vars(run = "ending" /\ BusFails)

FairSpec == Spec /\ Fairness

----------------------------------------------------------------------------
(* Properties.                                                              *)

\* The store holds for a peer only what that peer has announced, although the
\* buffer may change between reading a packet and opening it.
BookAnnounced == \A p \in Peer : book[p] \subseteq said[p]

\* A service that fails runs again, unless the daemon stops, and then Run
\* returns: the bus and both loops end.
RunsAgain == []<>(crashed \/ run \in {"up", "stopped"})

\* A peer that stays where it is becomes known there and nowhere else, as long
\* as the service runs and its bus reads.
Finds ==
  \A p \in Peer : \/ <>[](book[p] = {at[p]})
                  \/ []<>(run # "up" \/ bus # "read" \/ crashed)

============================================================================
