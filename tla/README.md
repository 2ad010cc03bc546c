# INET256 in TLA+

Specifications of the INET256 reference implementation: what its parts do, what
is checked of them with TLC, and what is proved of them with TLAPS.
`PROJECT.json` lists components, runs, the map from definitions to source
lines, hazards, findings and theorems.

## The system

An INET256 network carries messages between addresses that are hashes of public
keys. The daemon runs a main node and any number of nodes for local
applications, joined to a mesh:

| Part | Source | Specified in |
|---|---|---|
| Node service: `Open`, `Drop`, `Send`, `Receive` | `src/inet256/service.go` | `DatagramService`, `NodeRegistry` (abstract) |
| Routing algorithm | `networks/beaconnet` | `BeaconNet` |
| Router host: read loops, promises, heartbeat | `src/mesh256/routers` | `RouterNetwork` (`Tell`, heartbeat: `BeaconNet`) |
| Server and its nodes | `src/mesh256/server.go`, `node.go` | `MeshServer` |
| Chain, loopback and identity swarms of a node | `src/mesh256/*_swarm.go` | `NodeStack` |
| One-hop network over several transports, link monitor | `src/mesh256/multihoming` | `LinkMonitor` |
| Peer stores | `src/internal/peers` | `LinkMonitor`; membership in `BeaconNet` |
| Service groups, send queue, worker pool | `src/internal/netutil` | `SendQueue`, `WorkerPool` |
| Reference counts over the server, under the API | `src/internal/rcsrv`, `src/inet256http` | `NodeServer` (extends `MeshServer`) |
| In-memory service | `src/inet256mem` | `MemService` |
| IPC: calls and loops; keepalive; framing | `src/inet256ipc` | `NodeIPC`; `KeepAlive`; `StreamFramer` |
| Discovery: central with polling; LAN | `src/discovery` | `CentralDisco`; `LanDisco` |
| Daemon | `src/inet256d` | `Daemon` |
| Load balancer | `src/inet256lb` | `StreamBalancer` |
| IPv6: address map, portal, mining | `src/inet256ipv6` | `AddrMap`, `Portal`, `MineAddr` |
| Bit strings, prefixes | `src/internal/bitstr`, `src/inet256/id.go` | `BitString`, `BitBuffer`, `AddrMap` |
| DNS256 | `src/dns256` | `DNS256` |

An application talks to the daemon over HTTP and then IPC (`Daemon`,
`NodeServer`, `NodeIPC`, `KeepAlive`, `StreamFramer`). Its node sends through
the chain of loopback and identity swarms (`NodeStack`) to
`routers.Network.Tell`, which asks the router for a next hop (`BeaconNet`); the
multihoming swarm picks a transport address for it (`LinkMonitor`), which
discovery has put into a peer store (`CentralDisco`, `LanDisco`); a read loop of
the next node's `routers.Network` hands the message to its router
(`RouterNetwork`, `BeaconNet`), which delivers it or passes it on.

## Modules

A definition whose comment says "Variant" is the definition below it with one
mistake; no specification uses it. Variants show that the properties can fail.
`MC...` modules give small instances; `...Proofs` modules hold the proofs.

### Abstract specifications

`DatagramService` is messaging (doc/10_Spec.md 2.2.1, 2.2.2): each message is
delivered at most once, at the address it was sent to, under the address of its
sender. `BeaconNet` and `MemService` implement it.

`NodeRegistry` is the life of nodes: a key has at most one registered node, and
a node that was released does not come back. `MeshServer` and `MemService`
implement it.

### The mesh

`BeaconNet` runs one `beaconnet.Router` per node. Its variables are the
router's fields (`peerStates`, `ourBeacon`, `lastCleanup`, the peer set), the
messages in flight, and the `handleBeacon` calls that have yet to answer.

| Action | Code |
|---|---|
| `Heartbeat` | `Router.Heartbeat` with `cleanupOnce`, `newBeacon`, `broadcast` |
| `HandleBeacon` | `handleBeacon` up to the answer, with `updatePeerState` and the forwarding |
| `RespondBeacon` | the answer to a first beacon, with the beacon that is ours by then |
| `Tell` | `Network.Tell`, `HandleAbove` |
| `HandleData` | `handleData`: `DeliverLocal`, `ForwardNeighbor`, `Forward` |
| `AddPeer`, `RemovePeer` | the peer store changes under the router |
| `Restart` | a new router for the same key (`NewRouter`, `Reset`) |

An address stands for its public key, a beacon is an origin and a
counter, and the clock counts beacon periods. Beacons of the model are genuine,
so `verifyBeacon` succeeds. A beacon message stays receivable once it is sent:
it may be lost, delayed, reordered and received again. Sending later or looking
up the next hop later is therefore the same as being received later or again,
which is why `handleBeacon` needs only two steps. A data message may be lost,
delayed and reordered but is received once: the secure transports under the
mesh discard repetitions. `hops` is an auxiliary variable that no action reads
except to compute `hops`.

`RouterNetwork` is one `routers.Network`: the stores `findAddr` and
`lookupPubKey`, the calls that put promises there or share them, the read loops
with the callbacks `OnAddr`, `OnPublicKey` and `OnData`, and `Close`. The
router is the set of addresses it knows. The futures library and the TellHub
are external and modelled from their use: the first `Succeed` counts, `Await`
returns the value or fails with the context, `Deliver` waits for a `Receive`
or fails when the hub is closed. A call is one promise and one query; whether a
prefix matches is the constant `Wants`.

`MeshServer` has the table of `mesh256.Server` and a node per handle, with the
layers that `node.close` closes one after the other. `Drop` unregisters under
the lock and closes outside of it, which is where threads interleave.

`NodeStack` is one node above its network: `chainSwarm` with its two loops in a
service group, the loopback's hub, and `identitySwarm.Receive`, which passes
over what does not come from the address of its key. A `Send` to the node itself
is in four steps of three goroutines: the loop takes the message, the application
receives it or `Close` stops the loop, the loop's callback returns, the sender
goes on.

`LinkMonitor` has the sightings and `addrs` of one node, its chained peer
stores, and peers that move and send. It keeps the age of a sighting instead of
its time; ages fall when the wall clock is set back.

`SendQueue` is a queue, its two services and the group that restarts them;
`WorkerPool` is `SetCount` by several callers.

`MemService` is `inet256mem`: `Send` looks the node up and delivers to it later,
so that the node may be dropped between.

### The API

`NodeServer` extends `MeshServer` with the counts of `rcsrv` and with handlers of
`inet256http.Server`. `rcsrv` holds its lock while the node below is closed
(`DeleteBegin` to `DeleteEnd`).

`Daemon` is `Daemon.Run`: the mesh server, the group of API and discovery, the
shutdown of the HTTP server, clients that dial, send a request and the body of it,
and are served. How the handlers share nodes is left to `NodeServer`.

`NodeIPC` composes `ServeNode` and `NodeClient` over a connection that holds
`Cap` frames in each direction: the loops of both sides, requests and
responses, cancelled calls, a connection that is closed or cut. Over a connection
that was cut the server never reads an end: its watchdog fires, and its read loop
stays, also when the client closes its side. Time is left out; the watchdog may
fire once the client is silent. `KeepAlive` has the time:
the client's ticker, delays, and the watchdog's windows. `StreamFramer` has the
bytes: writers under a lock, readers, frames, pooled buffers, and the goroutine
that handles a request from a buffer.

### Discovery

`CentralDisco` has peers that announce with timestamps, calls that overtake each
other, a server that refuses an announcement with an endpoint that does not parse
and forgets all when it restarts, and the polling loop. `LanDisco` has the bus with
its one buffer, which later packets overwrite while a handler opens an earlier
one, and the service that is run again after errors, those of `NewBus` included.

### Applications

`StreamBalancer` has the entries of backends and their counts, picking, dialling
and `PlumbRWC` with its two copies, each of which is in a read, or in a write to an
end that may not read. `DNS256` has clients that share a node and
its read loops, servers that redirect, the resolver, and the operations on
paths. `Portal` has the three loops and the cache over the functions of
`AddrMap`, and of the router the addresses it has heard of, which it never forgets
and among which `FindAddr` looks; a lookup that finds none holds up the outbound
loop. `MineAddr` has the workers.

`BitString` and `AddrMap` are pure functions, with bytes of `ByteBits` bits,
words of `WordBits` bits and addresses of `AddrBytes` bytes; recursion is
written with recursive functions. `BitBuffer` runs the buffer against a
sequence of bits; `MCApplications` walks over all addresses.

## Runs

| Run | Instance | Shows |
|---|---|---|
| `beacon_routes` | settled ring of four, two floods of one origin beyond `peerStateTTL`, two peer changes, one message | `NoRoutingLoop`, `NoBlackHole`, `RoutesOnlyGetNewer` |
| `beacon_service` | settled kite with restarts, and without; a line of three with empty tables, three beacons from each end | `ServiceSpec` with restarts; `Delivers` without; `Converges` on the line |
| `router_calls` | two calls, two read loops, two addresses, three queries, one data message | `RightAnswer`, `NoLeak`, `NoLostWakeup`; `CallsReturn`: a call that created its promise returns, and `Close` ends the loops |
| `services` | **daemon**: two clients, two keys, two discovery services | `NothingAfterClose` |
| | **mesh**, **http**, **drop**: two threads or handlers, and the daemon; two keys, three nodes | `Accounted`: every open node is in the table or being closed by one thread; `MeshIsRegistry`; `ServedIsOpen`, `OneIncarnation`, `EntriesMatch`: no connection loses its node, one running node per key, entries match also with `Drop` |
| | **mem**: two messages, three nodes of two keys, queues of one | `MemIsService` |
| | all of them | `ServicesSettle`: `Run` returns with clients connected, unless one never finishes the body of its request; dropped nodes are released, closing returns, accepted messages arrive |
| `link_monitor` | a peer, two addresses, two stores, moves, edits, clock set back | `NoMissingAddress`: no panic in `PickAddr`; `BoundedStaleness`; `FindsPeer`: a peer that stays is found |
| `node_parts` | **stack**: two senders, genuine and wrong inputs | `LoopbackExact`: what a `Send` to the node itself returns is true of its message |
| | **queue**: three messages, depth one | `InOrder` |
| | both, **pool**: two callers, **mine**: three workers | `NodePartsReturn`: `Close`, `Tell`, `SetCount` and `MineAddr` return, genuine messages arrive, accepted ones are tried |
| `ipc` | **clock**: interval 3, timeout 9, delay 5, all phases | `NoFalseAlarm`, `SilenceNoticed` |
| | **conn**: one call, one reader, one frame each way, cut, dropped, cancelled | `ConnectionsEnd`: when the client closes, `ServeNode` returns if it learns of it and `Close` always; the call returns if the node finds and the application receives |
| | **stream**: two readers, three buffers, three messages, one beyond the MTU | `Intact`: messages are handled as they were sent, and once |
| `interleavings` | **central**: two peers, two endpoints of which one does not parse, a restart | `BookAnnounced`: the store has what the peer announced; `NeverBack`: it never goes back to an earlier announcement while the server lives |
| | **conn**: two calls and two readers, one frame each way | `OneCopy` |
| | **balancer**: two connections, two entries under one name or two | `CountsExact` |
| | **lan**: two peers, own, foreign and short packets | `LanBookAnnounced`: as for central, though the buffer is overwritten |
| `discovery` | **central**: a peer that roams, a restart, lost and overtaking calls; **lan**: a peer that moves, failures of bus and service | `CentralFinds`, `LanFinds`: the peer is found, the service runs again |
| `applications` | **portal**: three nodes that are heard of, two with one IPv6 address | `Belongs`, `FreshEnough` |
| | **map**: all addresses of six bits; **bits**: up to seven bits | `BitsAgree`: prefixes map back, comparison is bit by bit, the buffer is a sequence of bits |
| | **balancer**: two connections, one entry; **dns**, **calm**: six servers with redirects, of which one is wrong, one silent and one a circle; one call with faults, two without | `ChainOfTrust`: answers only along a chain of authorities; `ApplicationsSettle`: both ends of a stream are closed, unless a copy writes to an end that does not read; resolutions end and leave no promise and no read loop |

`router_waiter` and `ipc_cancel` are expected to find a violation, see Findings.

Parts. A run of several components (the names in bold) has a variable `part`
that is chosen at the start and never changes: in a behaviour one component takes
its own steps and the variables of the others keep their initial values. Such a
run is the union of the components' state spaces and not a composition, and
shows of each exactly what a run of its own would show. Components that
do interact are composed in their modules: `NodeServer` extends `MeshServer`,
`Portal` extends `AddrMap`, `NodeIPC` has both ends of the connection, `BeaconNet`
has all routers. Where a property is false or slow to evaluate of a component at
rest, it is stated for its part only (`part = "conn" => ...`,
`[]<>(part = "calm") => ...`).

Form of the liveness properties. Where the code owes an answer to a request that
stays until it is answered, "P leads to Q" is written `[]<>(P => Q)`, which says
the same of such a P and is cheaper to check. Where the answer also waits for
somebody who owes nothing, that is a second disjunct: `RunReturns`, `PlumbEnds` and
`CallReturns` say "or this client, this remote end, this lookup blocks for ever",
which is all that can keep the code from it.

Bounds. In `BeaconNet`, `MaxCounter` gives the number of beacons of each node
and `MaxPeerChange` the number of peer changes. A wrong route needs two floods of
one origin, one overtaking the other, a cycle, and two neighbours that both reach
the origin through others: in the ring of `beacon_routes` a router that loses its
peer is one of them and the router across the other. The "kite" of
`beacon_service` is a triangle with one more node attached. The settled start is a state that the mesh reaches when each node's beacon comes
along a shortest path first and nothing else is in flight. Two calls are enough
for sharing a promise, and two read loops for callbacks that overtake each
other. Elsewhere the sets are as small as lets the cases happen: two owners of
what is shared, one more node than there are keys so that a key has two
incarnations, queues and connections of one place so that they fill up, clocks
long enough for one expiry and one cleanup after it. Properties about two owners
(stores, buffers, counts) are in `interleavings`, which is safety only and takes
two of each; properties about what must happen are in runs with one peer, call
or reader, since liveness is checked on the whole state graph. `KeepAlive` takes an interval and a timeout that do not
divide the delay. Widths of the pure functions are small, but such that fields
begin and end inside bytes and counts of zeros overflow. `MaxTime`, `MaxCalls`
and `MaxRestart` in `CentralDisco`, and `MaxMoves`, `MaxBack` and `MaxEdits` in
`LinkMonitor`, bound how much the environment does.

Fairness. Goroutines that can go on do so (weak fairness on the steps of loops):
the Go runtime schedules them. Strong fairness stands for one of three things,
named at each specification: a mutex, channel or connection for which several
compete and which is given to each in the end (`NodeIPC`, `SendQueue`,
`WorkerPool`, `NodeStack`); something outside that is tried again and again and
does not fail for ever (`CentralDisco`, `LanDisco`); a `select` that does not
choose the same ready case for ever (`SendQueue`). `Fairness` in `BeaconNet` says
that tickers fire, that read loops get to run and that each one-hop message that
stays receivable is received; the last is an assumption on the transports
without which nothing can be promised. `TimelyNext` adds that a flood is over
before its origin's next beacon (`beaconPeriod` is much longer than a one-hop
delay).

What is assumed of others is said at each specification. Applications receive in
`RouterNetwork`, in `MemService` while their node is open, and in `NodeStack` until
they close it; nodes go on sending beacons (`RouterNetwork`) and peers announcements
(discovery); the network below `NodeStack` and `NewBus` in `LanDisco` do not fail
for ever; discovery services return when the daemon cancels them. `Calm` of DNS256
leaves out lost messages and the failures that end the component, and every
server that is asked answers.

Nothing is assumed of callers, who need not cancel or close, of clients of the
daemon, or of the streams of the balancer: `Run` of the daemon waits for ever for a
client that does not finish the body of its request (`http.go:83` has no deadline,
and the server no read timeout), and a copy of the balancer for an end that does
not read. Lookups and deliveries in `NodeIPC` are only assumed to return once they
are cancelled, since `FindAddr` of an unknown prefix waits. In a run of several
parts only the part that takes steps is fair: `MCFairness` is a disjunction over
parts.

Deadlock is not checked where bounded clocks, or a component that was closed,
let the model stop.

What the convergence run says at its boundary: with three beacons from each end
everyone is known everywhere. With two it fails: an answer to a first
beacon is not broadcast on, and when it overtakes the broadcast of the same
counter that flood ends there. The next period repairs it.

## Findings

Two runs find a violation of what a document or a comment says.

- `router_waiter`: when the call that created a promise is cancelled, it
  removes the promise from the store; a second call that shares it is then
  never answered, although the router learns the address.
- `ipc_cancel`: `ServeNode` does not return when its context is cancelled; its
  read loop stays in the connection.

The definitions show more places where the code and what is said of it differ.
They follow from one or two lines, and no run is spent on them:

- The answer to a first beacon goes to the router that passed it on, since
  `send` and `broadcast` put their own address in the header
  (`networks/beaconnet/router.go:168`).
- `FindAddr` on a closed `routers.Network` succeeds (`routers.go:141`), and in
  the in-memory service so does `Send` on a dropped node and to an address that
  no node has (`inet256mem.go:95`, `:107`); doc/10_Spec.md:68 and :92 ask for errors.
- `Close` on the handle of a node that was dropped ends the node that was opened
  since with the same key (`node.go:124`).
- Sending more than the MTU panics (`message.go:141`); service.go:9 promises
  `ErrMTUExceeded`. `StreamFramer` has it as `crashed`.
- `Send` to the own address does not return once the node is closed
  (`loopback_swarm.go:31`); the loopback's hub is never closed.
- After an error of its connection the LAN bus reads no more (`bus.go:163`), and
  a packet that does not parse is handed on as nil (`bus.go:174`).
- `PlumbRWC` ends both directions when one has ended (`inet256lb.go:78`), a
  connection for which no backend can be had is not closed (`stream.go:79`), and
  `ServeFrontend` does not look at its context while it waits
  (`net_endpoint.go:66`).
- One message with a wrong header ends the portal's inbound loop
  (`portal.go:182`); doc/31_IP6_Portal.md:16 says it is dropped.
- `Drop` over HTTP succeeds and does nothing (`inet256http/server.go:36`).

Not a failure of a property, but worth knowing: `Heartbeat` compares
`lastCleanup - now` with the TTL, so that `cleanupOnce` never runs. Loop freedom
and `NoBlackHole` depend on this (the variant `CleanupDueForward` breaks the
latter): whoever repairs the cleanup has to give routes another protection.

## Proofs

All are for every value of the constants: any number of nodes, keys, callers,
calls, read loops, connections and messages. The named assumptions say no more
than that bounds are natural numbers and that the value for "none" is not one of
the others, unless said here. Every safety property of a passing run is proved
but for one, named at the end. An `...Proofs` module extends the component or,
where components share a run, the module of that run, and speaks of each
component through its instance there (`S!Spec` is the specification of
`NodeServer`): the theorems are about the components and not about the run.

### The mesh

`BeaconNetProofs`, from `BeaconNetAssumption` (nobody is its own peer; the zero
address is not a node):

- `TypeCorrect`: `CrashSpec => []TypeOK`.
- `RoutesBacked`, `BeaconsBacked`: `Spec => [](BeaconInv /\ RouteInv)`.
- `LoopFree`, `NothingFallsIntoABlackHole`, `RoutesMonotone`.
- `DataOnce`: `CrashSpec => []DataInv`; `MeshIsDatagramService`:
  `CrashSpec => ServiceSpec`, restarts included.

The inductive invariant of the routes is `RoutesInv`. That tables only contain
what was announced is not enough for loop freedom: one needs that
each router's knowledge about an origin is at least as good as any beacon it
has ever passed on, in the order "newer counter, or same counter and fewer
hops" (`Backs`). It is kept because `updatePeerState` accepts only strictly
newer counters (`BacksMonotone`) and because nothing expires (`NeverCleanup`,
which needs `lastCleanup <= clock`). The next hop of a route then knows a strictly
better one, and in any group of routers the best is the way out
(`RoutesLoopFree`, by the least counter distance and hop count). A restart
breaks `RoutesInv`, and a mesh with restarts can have passing loops;
so the routing theorems are about `Spec`, and those on types and
messages about `CrashSpec`. The refinement needs `DataInv`: the message in
flight is the only copy, carries the header that `Tell` gave it, and has not
been delivered.

`RouterNetworkProofs`: `TypeCorrect`, `CallsUnderway`, `AnswersAreRight`,
`StoresDoNotLeak`, `NoWakeupIsLost`. The inductive invariant `CallsInv` adds
`Underway`: calls share a promise only if they ask for the same, and a read loop
announces only what the router already knows, because `handleBeacon` updates its
table before it makes the callbacks. The second part is what closes the gap
between asking and waiting.

`LinkMonitorProofs`: `MonitorTypes`, `PickAddrFindsAddress`, `SightingsExpire`.
A sighting that is too old is at most as much too old as the time since the
last cleanup, which is what a tick, a cleanup and a clock set back preserve.

`NodePartsProofs` (`MCNodeParts`):

- `SendToSelfIsExact`, `ReceivedIsAuthentic`: the invariant `StackInv` says that
  the sender that waits for the loop of the loopback is the one whose message that
  loop holds, so that it is at most one; that a message which the loop has given
  up without handing it over was given up because of `Close`; that a message is
  received only while its sender waits or after it was told so; and that what a loop
  delivers came with the key of its source.
- `SentInOrder`: what was tried, what the service holds and the queue are
  together the accepted messages, in order.
- `NoWorkerIsLeft`: whoever holds `wp.mu` waits for the worker it cancelled.
- `BestPairReturned`: a worker's key belongs to its address, and no worker goes
  on after the return (`MineInv`).

### The services

`ServicesProofs` (`MCServices`):

- `NoNodeIsLeaked`, `MainNodeReaches`, `MeshImplementsRegistry`, of
  `mesh256.Server` by itself. `MeshInv` follows `Close` of the server, which
  holds the lock over many steps: the nodes it has still to visit are in the
  table and untouched, those it has visited are closed or being closed, the main
  node comes last (`ClosePhase`); a node in the table has its key and, while
  nobody holds the lock across steps, nobody closes it (`Table`); a node that a
  thread closes is closed by no other (`Tasks`). The refinement maps the layers
  that are closed, the table and the tasks to one status per node.
- `ServerUnderHandlers`: `S!Spec => S!MeshSpec`. The server under `rcsrv` and the
  HTTP handlers takes only steps of the server, so that the three theorems hold
  there as well.
- `EntriesFollowNodes`, `NoTwoIncarnations`, with `Drop`. `EntryInv` adds that a
  handler closes a node only under `rcsrv`'s lock, that the entry it will delete
  is that of the node it closes, and that each node that is not closed has its
  entry. That is why a key cannot be opened again before its last node is closed,
  which the server below would allow.
- `NoConnectionLosesItsNode`, without `Drop` (with it, a connection does lose its
  node). `CountInv` adds that each count is the number of handlers that serve
  the node, and zero while the node is closed.
- `MemImplementsService`, `MemImplementsRegistry`, of `inet256mem`. `MemInv` says
  that a message is with its `Send`, in one place of one queue of a node of its
  destination, or received, with the source that sent it, although the node that
  `Send` looked up may have been dropped or replaced before it delivers.
- `ClosedIsQuiet`, of the daemon: a handler opens only while the API has not
  returned, the API returns before the group ends, and the server is closed after.

### IPC, discovery and the balancer

`InterleavingsProofs` (`MCInterleavings`):

- `RequestInOnePlace`, `NoFutureIsLeft`. `IpcInv` says that request `q` is in at
  most one frame on its way to the server, or with its goroutine, or in at most
  one frame on its way back; and in none of these before it is sent or once its
  future has a value. `OneCopy` counts the places; the proof shows them to be
  disjoint and each at most one, and counts at the end.
- `CountsAreExact`, for finitely many connections at a time. `BalancerInv` says
  that the count of an entry is the number of connections that were counted for
  it; a connection stays with the entry it picked, also when the backend was
  removed and added again.
- `SignedUnderAddress`, `BookIsAnnounced`, `SeenNeverGoesBack`, of central
  discovery: the invariant follows an announcement through every copy: call,
  server, answer, store. For the last, `SeenInv` puts what the store was last
  filled with, the answer under way and what the server has into one order, by
  the life of the server and then the timestamp; each step moves one of them
  forward past the next.
- `LanBookIsAnnounced`: what is in the buffer when a message is opened was
  announced by whoever sealed it, whether or not it is what was read before.

`IPCProofs` (`MCStream`, the lower part of `MCIpc`):

- `NoClientIsGivenUp`, `SilenceIsNoticed`, from the relation between interval,
  delay and timeout that `KeepAliveAssumption` states. The invariant bounds when
  the next frame of a live client is due, by the client's ticker and the frames in
  flight, and how long a silent one can still be heard.
- `SentIsActedOn`: `F!Spec => []Intact`, of `StreamFramer` (F), from
  `StreamAssumption`: messages have one of the layouts of `message.go`.
  `StreamInv` says what the bytes are: the part of a frame that the reader with
  `rmu` has already taken, the stream, and what the writer with `wmu` has still to
  write are together the frames of a sequence `q` of messages (`Framed`: a function
  from frames to positions, so that no induction is needed when a frame is added
  behind or taken in front); and where the messages are: in `q`, in a buffer with
  one owner who acts on it, not yet sent, or acted on, each in one of these
  (`Accounts`). The end needs that decoding is the inverse of encoding, which is
  proved for each type of message (`DecodeEncode`).

### Applications

`ApplicationsProofs` (`MCResolver`, the lower part of `MCApplications`):

- `CacheStaysFresh`: an entry's age and the time to the cleaner's next visit stay
  together below the TTL and an interval.
- `PacketsBelong`, under the hypothesis that the prefix of an IPv6 address
  determines it (`PrefixDetermines`), which the run `applications` checks of the
  mapping itself (`BitsAgree`).
- `ResolverTrustsTheChain`: `D!Spec => []ChainOfTrust`, of `DNS256` (D), from
  `ResolverAssumption`: what parses as a path is one, and redirects lead to
  servers. The invariant `Trust` says more of each call than the property: its
  sources are authorities that as many redirects as it has made hops, or fewer,
  lead to (`Sound`), so that the bound on hops and the length of the chain stay
  together; and that every request on its way or with a handler, every response
  on its way, and every value of a promise belongs to what the call with that
  identifier asked (`Request`, `Says`), which is why it does not matter whose read
  loop completes it. The chain is a recursive function; that it has the values
  its definition gives is proved by taking a least argument for which it would not
  (`LeastOf`, `AfterExists`), and likewise for the claims that are followed
  (`UpToExists`).

### Only model-checked

- Liveness, which is outside of what the prover does: `Converges`, `Delivers`,
  `CallsReturn`, `ServicesSettle`, `FindsPeer`, `NodePartsReturn`,
  `ConnectionsEnd`, `CentralFinds`, `LanFinds`, `ApplicationsSettle`.
- `BitsAgree`: what `BitString` and `AddrMap` compute with shifts, masks and words
  of limited width needs induction over data, and arithmetic on powers of two that
  the provers do not have.

## Not modelled

- Keys, identities, signatures (`pki.go`, `sign_product.go`): cryptography and
  encodings. Addresses stand for keys, and what is signed is genuine.
- Command line, configuration files, generated code, test support.
- Packet connections and adapters that pass calls on and have no state.
- The NAT table (`nat.go`): nothing in the repository uses it. Adding a client
  twice leaves its first node open.
- In DNS256, `LayeredHandler` (which calls itself) and `HasSuffix` (which never
  advances its index) have no callers; options are modelled as the hop limit.
- Meters of the multihoming swarm, which count bytes for the status page.
- Clocks of `BeaconNet` that step back: routes stay loop free by the same
  argument, but a node is not heard until its clock has caught up.
- The TTL of central announcements, which the server does not look at.
