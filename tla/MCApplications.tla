---------------------------- MODULE MCApplications ----------------------------
(* What runs on top of nodes: the IPv6 portal, the address mapping and the   *)
(* bit strings below it, the stream balancer, and dns256, with faults and     *)
(* without.  In a behaviour one part takes steps and the variables of the     *)
(* others rest.                                                               *)
EXTENDS MCResolver, TLC

CONSTANTS Conn, Key, entry, c1, c2, root, mid, two, leaf, odd, ring

VARIABLES
  part,        \* "portal", "map", "bits", "balancer", "dns" or "calm"
  addr, buf, bits,
  backends, fresh, active, conn, lbServe

bitVars == <<addr, buf, bits>>
lbVars == <<backends, fresh, active, conn, lbServe>>

----------------------------------------------------------------------------
(* The portal: the first two nodes have the same IPv6 address.              *)

a1 == <<1, 2, 1>>
a2 == <<1, 2, 2>>
a3 == <<2, 0, 0>>

MCNode == {a1, a2, a3}
MCNetBytes == <<2, 0>>
MCOutside == {<<0, 0>>}
MCAllowed == {a1, a3}

(* The mapping goes through all addresses.                                  *)

WalkInit == addr = [i \in 1 .. AddrBytes |-> 0]

Walk ==
  LET count[i \in 0 .. AddrBytes] == IF i = 0 THEN 0 ELSE count[i - 1] * 2^ByteBits + addr[i]
  IN addr' = [i \in 1 .. AddrBytes |->
                ((count[AddrBytes] + 1) \div 2^(ByteBits * (AddrBytes - i))) % 2^ByteBits]

\* The mapping as a table.
Table == {[addr |-> a, ip |-> IPv6FromINET256(a)] : a \in {a \in Address : Fits(a)}}

X == INSTANCE BitBuffer WITH MaxLen <- 7
B == INSTANCE StreamBalancer WITH Entry <- {entry}, serve <- lbServe

----------------------------------------------------------------------------
(* dns256: records at the end of a chain of redirects; "www" leads in a     *)
(* circle.                                                                  *)

Redirect(path, target) == [path |-> path, target |-> target]

MCName == {<<"ex", "com">>, <<"www", "ex", "com">>, <<"com">>, <<"", "com">>, <<"ex", "org">>, <<"www">>}
MCKind == {"INET256", "IPPort"}
MCElem == {"com", "ex", "org", "www"}
MCServer == {root, mid, two, leaf, odd, ring}
MCRoots == <<root>>

MCRedirects ==
  root :> <<Redirect(<<"www">>, ring), Redirect(<<"com">>, mid), Redirect(<<"org">>, two)>>
  @@ ring :> <<Redirect(<<>>, ring)>> @@ leaf :> <<>>

MCRecords ==
  root :> <<>> @@ ring :> <<>>
  @@ leaf :> <<[IP |-> "a", port |-> "p"], [IP |-> Bad], [INET256 |-> "x"]>>

\* A server that names a target for a path that is not the one asked for, one
\* with several targets, one of which does not parse, and one that does not answer.
MCCustom ==
  mid :> [redirect |-> TRUE, claims |-> <<Redirect(<<"ex">>, leaf), Redirect(<<"ex", "www">>, odd)>>]
  @@ two :> [redirect |-> TRUE, claims |-> <<Redirect(<<>>, ring), Redirect(<<"ex">>, leaf),
                                             Redirect(<<"ex">>, Bad)>>]
  @@ odd :> None

\* What is asked for where requests may fail, and where they do not.
DnsAsks ==
  /\ call'[c1].kind # "IPPort" /\ call'[c1].path \notin {<<"org", "ex">>, <<"www">>}
  /\ call'[c2] = call[c2]
  /\ serve'[two] = "on" /\ serve'[ring] = "on"
CalmAsks ==
  /\ \A c \in Call : call'[c].kind # "INET256" /\ call'[c].path \in {<<>>, <<"org", "ex">>, <<"www">>}
  /\ call'[c2].path # <<"www">>

----------------------------------------------------------------------------
MCInit ==
  /\ part \in {"portal", "map", "bits", "balancer", "dns", "calm"}
  /\ Init /\ WalkInit /\ X!Init /\ B!Init /\ D!Init

\* With faults there is one call; without, there are two, one of which may run into
\* the circle.
MCNext ==
  /\ part' = part
  /\ \/ part = "portal" /\ Next /\ UNCHANGED <<bitVars, lbVars, dnsVars>>
     \/ part = "map" /\ Walk /\ UNCHANGED <<vars, buf, bits, lbVars, dnsVars>>
     \/ part = "bits" /\ X!Next /\ UNCHANGED <<vars, addr, lbVars, dnsVars>>
     \/ part = "balancer" /\ B!Next /\ UNCHANGED <<vars, bitVars, dnsVars>>
     \/ part = "dns" /\ D!Next /\ DnsAsks /\ UNCHANGED <<vars, bitVars, lbVars>>
     \/ part = "calm" /\ D!Calm /\ CalmAsks /\ UNCHANGED <<vars, bitVars, lbVars>>

\* The fairness of the part that takes steps.  The part never changes, so that
\* it is infinitely often what it is.
MCFairness ==
  \/ []<>(part \in {"portal", "map", "bits", "dns"})
  \/ []<>(part = "balancer") /\ B!Fairness
  \/ []<>(part = "calm") /\ D!CalmFairness

MCSpec == MCInit /\ [][MCNext]_<<part, vars, bitVars, lbVars, dnsVars>> /\ MCFairness

----------------------------------------------------------------------------
\* The IPv6 address of an INET256 address is in the subnet, and what it is
\* translated back to is a prefix of that address, of the length the tests give,
\* shared by exactly the addresses that have the same IPv6 address.  So a lookup
\* by that prefix can only find an address that belongs to the packet's
\* destination.
MapsBack ==
  Fits(addr) =>
    \E ip \in {IPv6FromINET256(addr)}, p \in {INET256PrefixFromIPv6(IPv6FromINET256(addr))} :
      /\ Len(ip) = IPBytes
      /\ p # None
      /\ p.nbits = LeadingZeros(AddrBits(addr)) + 1 + IPBytes * ByteBits - NetBits - CountBits
      /\ \A e \in Table : HasPrefix(e.addr, p.bytes, p.nbits) <=> e.ip = ip

\* inet256.HasPrefix, which compares bytes, says whether the first bits agree,
\* for every number of bits the prefix has, and not for more.
ComparesBits ==
  \A p \in UNION {[1 .. n -> Byte] : n \in 1 .. AddrBytes} :
    \A nbits \in 1 .. Len(p) * ByteBits + 1 :
      HasPrefix(addr, p, nbits) <=>
        /\ nbits <= Len(p) * ByteBits
        /\ SubSeq(BytesMSB(addr, 0, 0), 1, nbits) = SubSeq(BytesMSB(p, 0, 0), 1, nbits)

\* The address mapping, the comparison of prefixes and the buffers of bits give
\* what their definitions in terms of single bits give: MapsBack and ComparesBits
\* for every address, and SameBits (a buffer, its String and its bytes have the
\* bits that were put in) after every sequence of operations.
BitsAgree ==
  /\ part = "map" => MapsBack /\ ComparesBits
  /\ part = "bits" => X!SameBits

\* What is under way ends: while no message is lost a resolution of dns256 returns
\* and leaves nothing behind in its client, and when one end of a stream of the
\* balancer has finished both connections are closed, unless an end that does not
\* read holds a copy up.
ApplicationsSettle ==
  /\ B!PlumbEnds
  /\ []<>(part = "calm") => D!ResolveEnds

==============================================================================
