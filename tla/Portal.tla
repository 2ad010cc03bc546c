-------------------------------- MODULE Portal --------------------------------
(****************************************************************************)
(* The IPv6 portal: a loop takes packets from the TUN device and sends each *)
(* to an INET256 address that its destination stands for, found once and    *)
(* then cached; a second loop writes the messages of allowed senders to the *)
(* device; a third clears old entries from the cache.  The loops are an     *)
(* errgroup: the first error cancels the context of all.  The outbound loop *)
(* waits for the device, not for the context.                               *)
(*                                                                          *)
(* A packet is its header's address, None if there is no valid header.      *)
(****************************************************************************)
EXTENDS AddrMap

CONSTANTS
  Node,        \* INET256 addresses of other nodes
  Outside,     \* IPv6 addresses that are not in the subnet
  Allowed,     \* the addresses AllowFunc allows
  TTL,         \* cacheEntryTTL
  Interval     \* time between two visits of the cleaner

ASSUME PortalAssumption == TTL \in Nat /\ Interval \in Nat \ {0}

VARIABLES
  heard,       \* the addresses in the peerStates of the node's router
  cache,       \* cache[ip] : [addr, age], or None
  timer,       \* time until the cleaner's next visit
  finding,     \* the destination that the outbound loop looks up
  sent,        \* the last packet it sent: [ip, dst]
  written,     \* the last message written to the device: [header, src]
  out, in,     \* the loops: "on" or "ended"
  cancelled    \* the group's context is cancelled

vars == <<heard, cache, timer, finding, sent, written, out, in, cancelled>>

IPs == {IPv6FromINET256(a) : a \in Node} \union Outside

Init ==
  /\ heard = {}
  /\ cache = [ip \in IPs |-> None]
  /\ timer = Interval
  /\ finding = None
  /\ sent = None /\ written = None
  /\ out = "on" /\ in = "on"
  /\ cancelled = FALSE

loops == <<out, in, cancelled>>

----------------------------------------------------------------------------
\* outboundLoop and handleOutbound

\* A destination in the cache is not looked up again.
SendCached(ip) ==
  /\ out = "on" /\ finding = None
  /\ cache[ip] # None
  /\ sent' = [ip |-> ip, dst |-> cache[ip].addr]
  /\ UNCHANGED <<heard, cache, timer, finding, written, loops>>

\* A packet without a header or to another network is dropped.
FindBegin(ip) ==
  /\ out = "on" /\ finding = None
  /\ cache[ip] = None
  /\ INET256PrefixFromIPv6(ip) # None
  /\ finding' = ip
  /\ UNCHANGED <<heard, cache, timer, sent, written, loops>>

\* What the router's FindAddr may return: any address with the prefix, also that of
\* a node that has left, as peerStates are never removed.
Found(ip) ==
  LET p == INET256PrefixFromIPv6(ip) IN {a \in heard : HasPrefix(a, p.bytes, p.nbits)}

FindReturns(a) ==
  /\ finding # None
  /\ a \in Found(finding)
  /\ cache' = [cache EXCEPT ![finding] = IF @ = None THEN [addr |-> a, age |-> 0] ELSE @]
  /\ sent' = [ip |-> finding, dst |-> a]
  /\ finding' = None
  /\ UNCHANGED <<heard, timer, written, loops>>

\* The context is cancelled or the node gives an error: the packet is dropped.
FindFails ==
  /\ finding # None
  /\ finding' = None
  /\ UNCHANGED <<heard, cache, timer, sent, written, loops>>

DeviceFails ==
  /\ out = "on" /\ finding = None
  /\ out' = "ended"
  /\ cancelled' = TRUE
  /\ UNCHANGED <<heard, cache, timer, finding, sent, written, in>>

----------------------------------------------------------------------------
\* inboundLoop and handleInbound

\* Variant: the header's source is not compared with the sender.
InboundAny(src, header) ==
  /\ in = "on"
  /\ IF header # None
       THEN written' = [header |-> header, src |-> src] /\ UNCHANGED loops
       ELSE UNCHANGED <<written, loops>>
  /\ UNCHANGED <<heard, cache, timer, finding, sent>>

Inbound(src, header) ==
  /\ in = "on"
  /\ IF src \notin Allowed THEN UNCHANGED <<written, loops>>
     ELSE IF header = IPv6FromINET256(src)
       THEN written' = [header |-> header, src |-> src] /\ UNCHANGED loops
       ELSE in' = "ended" /\ cancelled' = TRUE /\ UNCHANGED <<written, out>>
  /\ UNCHANGED <<heard, cache, timer, finding, sent>>

\* The context is cancelled, or the node gives an error.
InboundEnds ==
  /\ in = "on"
  /\ in' = "ended"
  /\ cancelled' = TRUE
  /\ UNCHANGED <<heard, cache, timer, finding, sent, written, out>>

----------------------------------------------------------------------------

Old(e) == e # None /\ e.age > TTL

\* Variant: entries that are in use are kept.
CleanSome ==
  [ip \in DOMAIN cache |-> IF Old(cache[ip]) /\ (sent = None \/ sent.ip # ip) THEN None ELSE cache[ip]]

Clean == [ip \in DOMAIN cache |-> IF Old(cache[ip]) THEN None ELSE cache[ip]]

\* Ages are not told apart beyond what matters.
Older(e) == IF e = None \/ e.age > TTL + Interval + 1 THEN e ELSE [e EXCEPT !.age = @ + 1]

\* One unit of time.  The cleaner visits the cache as its ticker says, until the
\* context is cancelled.
Tick ==
  LET visited == IF timer = 0 THEN Clean ELSE cache
  IN /\ cache' = [ip \in DOMAIN cache |-> Older(visited[ip])]
     /\ timer' = IF cancelled THEN Interval ELSE IF timer = 0 THEN Interval - 1 ELSE timer - 1
     /\ UNCHANGED <<heard, finding, sent, written, loops>>

\* A beacon of a node arrives.
Hear(a) ==
  /\ heard' = heard \union {a}
  /\ UNCHANGED <<cache, timer, finding, sent, written, loops>>

\* A lookup may last for ever, and holds up the outbound loop meanwhile.
Next ==
  \/ \E ip \in DOMAIN cache : SendCached(ip) \/ FindBegin(ip)
  \/ \E a \in Node : FindReturns(a) \/ Hear(a)
  \/ FindFails
  \/ DeviceFails
  \/ InboundEnds
  \/ \E src \in Node, header \in DOMAIN cache \union {None} : Inbound(src, header)
  \/ Tick

Spec == Init /\ [][Next]_vars

----------------------------------------------------------------------------

\* A packet is only sent to an address whose IPv6 address is the packet's
\* destination, though the address was found by a prefix and may have been cached
\* long ago; a message is only written to the device if the header's source is
\* the IPv6 address of its sender, who is allowed (doc/31_IP6_Portal.md).
Belongs ==
  /\ sent # None => IPv6FromINET256(sent.dst) = sent.ip
  /\ written # None => /\ written.header = IPv6FromINET256(written.src)
                       /\ written.src \in Allowed

\* While the loops run, no entry of the cache, and so no address a packet is sent
\* to, is older than its time to live and one interval of the cleaner.
FreshEnough ==
  ~ cancelled => \A ip \in DOMAIN cache : cache[ip] # None => cache[ip].age <= TTL + Interval

=============================================================================
