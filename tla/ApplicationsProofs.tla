-------------------------- MODULE ApplicationsProofs --------------------------
(****************************************************************************)
(* The portal's cache does not grow old, and packets go where they belong,  *)
(* for every time to live and interval, and any number of nodes.  A dns256  *)
(* resolver keeps to the chain of trust, for any servers, records, names,   *)
(* roots and number of resolutions at a time.                               *)
(****************************************************************************)
EXTENDS MCResolver, SequenceTheorems, WellFoundedInduction, TLAPS

\* Entries of the cache.
Entry == [addr : Node, age : Nat]

\* An entry is not older than the time since the cleaner's visit lets it be.
CacheInv ==
  /\ cache \in [IPs -> Entry \union {None}]
  /\ timer \in 0 .. Interval
  /\ finding \in IPs \union {None}
  /\ ~ cancelled => \A ip \in IPs : cache[ip] # None => cache[ip].age + timer <= TTL + Interval

\* The invariant holds when the portal starts.
LEMMA InitCache == Init => CacheInv
BY PortalAssumption DEF Init, CacheInv

\* One unit of time makes an entry older by one, and no entry appears.
LEMMA OlderFacts ==
  ASSUME NEW e \in Entry \union {None}
  PROVE  /\ Older(e) \in Entry \union {None}
         /\ Older(e) # None => /\ e # None /\ e \in Entry
                               /\ Older(e).age <= e.age + 1
<1>1. CASE e = None
  BY <1>1, Zenon DEF Older
<1>2. CASE e # None
  <2>1. e \in Entry /\ e.age \in Nat
    BY <1>2, Zenon DEF Entry
  <2>2. CASE e.age > TTL + Interval + 1
    BY <1>2, <2>1, <2>2 DEF Older
  <2>3. CASE ~ (e.age > TTL + Interval + 1)
    <3>1. Older(e) = [e EXCEPT !.age = @ + 1]
      BY <1>2, <2>3, Zenon DEF Older
    <3>2. Older(e) \in Entry /\ Older(e).age = e.age + 1
      BY <2>1, <3>1 DEF Entry
    <3> QED BY <1>2, <2>1, <3>2
  <2> QED BY <2>2, <2>3, Zenon
<1> QED BY <1>1, <1>2, Zenon

\* Time and the cleaner preserve the invariant.
LEMMA TickCache == CacheInv /\ Tick => CacheInv'
<1> SUFFICES ASSUME CacheInv, Tick PROVE CacheInv'
  BY Zenon
<1> USE PortalAssumption
<1> DEFINE visited == IF timer = 0 THEN Clean ELSE cache
<1>1. /\ cache' = [ip \in IPs |-> Older(visited[ip])]
      /\ cancelled' = cancelled /\ finding' = finding
      /\ timer \in 0 .. Interval
  <2>1. DOMAIN cache = IPs
    BY Zenon DEF CacheInv
  <2> QED BY <2>1, Zenon DEF Tick, loops, CacheInv
<1>2. timer' = IF cancelled THEN Interval ELSE IF timer = 0 THEN Interval - 1 ELSE timer - 1
  BY Zenon DEF Tick
<1>3. ASSUME NEW ip \in IPs
      PROVE  /\ visited[ip] \in Entry \union {None}
             /\ visited[ip] # None => visited[ip] = cache[ip]
             /\ timer = 0 /\ visited[ip] # None => visited[ip].age <= TTL
  <2>1. cache[ip] \in Entry \union {None}
    BY Zenon DEF CacheInv
  <2>2. CASE timer = 0
    <3>1. visited[ip] = IF Old(cache[ip]) THEN None ELSE cache[ip]
      BY <2>2, Zenon DEF Clean, CacheInv
    <3>2. cache[ip] # None => cache[ip].age \in Nat
      BY <2>1, Zenon DEF Entry
    <3> QED BY <2>1, <3>1, <3>2 DEF Old
  <2>3. CASE timer # 0
    BY <2>1, <2>3, Zenon
  <2> QED BY <2>2, <2>3, Zenon
<1> HIDE DEF visited
<1>4. cache' \in [IPs -> Entry \union {None}]
  BY <1>1, <1>3, OlderFacts, Zenon
<1>5. ASSUME ~ cancelled, NEW ip \in IPs, cache'[ip] # None
      PROVE  cache'[ip].age + timer' <= TTL + Interval
  <2>1. /\ visited[ip] # None /\ visited[ip] \in Entry
        /\ cache'[ip].age <= visited[ip].age + 1
        /\ cache'[ip] \in Entry
    BY <1>1, <1>3, <1>4, <1>5, OlderFacts, Zenon
  <2>2. cache'[ip].age \in Nat /\ visited[ip].age \in Nat
    BY <2>1, Zenon DEF Entry
  <2>3. CASE timer = 0
    BY <1>2, <1>3, <1>5, <2>1, <2>2, <2>3
  <2>4. CASE timer # 0
    <3>1. visited[ip].age + timer <= TTL + Interval
      BY <1>3, <1>5, <2>1, Zenon DEF CacheInv
    <3> QED BY <1>1, <1>2, <1>5, <2>1, <2>2, <2>4, <3>1
  <2> QED BY <2>3, <2>4, Zenon
<1>6. timer' \in 0 .. Interval
  BY <1>1, <1>2
<1> QED BY <1>1, <1>4, <1>5, <1>6, Zenon DEF CacheInv

\* A new entry is fresh.
LEMMA FindCache ==
  ASSUME CacheInv, NEW a \in Node, FindReturns(a)
  PROVE  CacheInv'
<1> USE PortalAssumption
<1>1. /\ finding \in IPs /\ cancelled' = cancelled /\ timer' = timer /\ finding' = None
      /\ cache' = [cache EXCEPT ![finding] = IF @ = None THEN [addr |-> a, age |-> 0] ELSE @]
  BY Zenon DEF FindReturns, CacheInv, loops
<1>2. [addr |-> a, age |-> 0] \in Entry
  BY Zenon DEF Entry
<1>3. cache' \in [IPs -> Entry \union {None}]
  BY <1>1, <1>2, Zenon DEF CacheInv
<1>4. ASSUME ~ cancelled, NEW ip \in IPs, cache'[ip] # None
      PROVE  cache'[ip].age + timer <= TTL + Interval
  <2>1. cache'[ip] = cache[ip] \/ cache'[ip] = [addr |-> a, age |-> 0]
    BY <1>1, Zenon DEF CacheInv
  <2>2. CASE cache'[ip] = cache[ip]
    BY <1>4, <2>2, Zenon DEF CacheInv
  <2>3. CASE cache'[ip] = [addr |-> a, age |-> 0]
    BY <2>3 DEF CacheInv
  <2> QED BY <2>1, <2>2, <2>3, Zenon
<1> QED BY <1>1, <1>3, <1>4, Zenon DEF CacheInv

\* Every step preserves the invariant.
LEMMA NextCache == CacheInv /\ [Next]_vars => CacheInv'
<1> SUFFICES ASSUME CacheInv, [Next]_vars PROVE CacheInv'
  BY Zenon
<1>1. ASSUME NEW a \in Node, FindReturns(a) PROVE CacheInv'
  BY <1>1, FindCache, Zenon
<1>2. ASSUME Tick PROVE CacheInv'
  BY <1>2, TickCache, Zenon
<1> DEFINE Same == /\ cache' = cache /\ timer' = timer
                   /\ finding' \in IPs \union {None}
                   /\ cancelled' = cancelled \/ cancelled'
<1>3. ASSUME NEW ip \in IPs, SendCached(ip) \/ FindBegin(ip) PROVE Same
  BY <1>3, Zenon DEF SendCached, FindBegin, loops, CacheInv
<1>4. ASSUME NEW a \in Node, Hear(a) PROVE Same
  BY <1>4, Zenon DEF Hear, loops, CacheInv
<1>5. ASSUME FindFails \/ UNCHANGED vars PROVE Same
  BY <1>5, Zenon DEF FindFails, loops, vars, CacheInv
<1>6. ASSUME DeviceFails \/ InboundEnds PROVE Same
  BY <1>6, Zenon DEF DeviceFails, InboundEnds, CacheInv
<1>7. ASSUME NEW src \in Node, NEW header, Inbound(src, header) PROVE Same
  BY <1>7, Zenon DEF Inbound, loops, CacheInv
<1>8. ASSUME Same PROVE CacheInv'
  BY <1>8 DEF CacheInv
<1> HIDE DEF Same
<1>9. DOMAIN cache = IPs
  BY Zenon DEF CacheInv
<1> QED
  BY <1>9, <1>1, <1>2, <1>3, <1>4, <1>5, <1>6, <1>7, <1>8, Zenon DEF Next

\* While the portal runs no packet is sent by an entry that is older than its
\* time to live and one interval of the cleaner.
THEOREM CacheStaysFresh == Spec => []FreshEnough
<1>1. CacheInv => FreshEnough
  <2> SUFFICES ASSUME CacheInv, ~ cancelled, NEW ip \in IPs, cache[ip] # None
               PROVE  cache[ip].age <= TTL + Interval
    BY Zenon DEF FreshEnough, CacheInv
  <2>1. cache[ip] \in Entry /\ timer \in Nat
    BY DEF CacheInv
  <2>2. cache[ip].age \in Nat /\ cache[ip].age + timer <= TTL + Interval
    BY <2>1, Zenon DEF Entry, CacheInv
  <2> QED BY <2>1, <2>2, PortalAssumption
<1> QED BY <1>1, InitCache, NextCache, PTL DEF Spec

----------------------------------------------------------------------------

\* What the mapping of addresses has to provide: an address that has the prefix
\* of an IPv6 address is mapped to it.
PrefixDetermines ==
  \A a \in Node, ip \in IPs :
    LET p == INET256PrefixFromIPv6(ip)
    IN p # None /\ HasPrefix(a, p.bytes, p.nbits) => IPv6FromINET256(a) = ip

\* The entries of the cache belong to their keys.
BelongInv ==
  /\ Belongs
  /\ heard \subseteq Node
  /\ DOMAIN cache = IPs
  /\ \A ip \in IPs : cache[ip] # None => IPv6FromINET256(cache[ip].addr) = ip
  /\ finding # None => finding \in IPs /\ INET256PrefixFromIPv6(finding) # None

\* No step makes a packet or an entry go astray.
LEMMA NextBelongs ==
  ASSUME PrefixDetermines, CacheInv, BelongInv, [Next]_vars
  PROVE  BelongInv'
<1>1. ASSUME NEW ip \in IPs, SendCached(ip) PROVE BelongInv'
  <2>1. sent' = [ip |-> ip, dst |-> cache[ip].addr] /\ cache[ip] # None
    BY <1>1, Zenon DEF SendCached
  <2>2. UNCHANGED <<heard, cache, finding, written>>
    BY <1>1, Zenon DEF SendCached
  <2> QED BY <2>1, <2>2, Zenon DEF BelongInv, Belongs
<1>2. ASSUME NEW ip \in IPs, FindBegin(ip) PROVE BelongInv'
  BY <1>2, Zenon DEF FindBegin, BelongInv, Belongs
<1>3. ASSUME NEW a \in Node, FindReturns(a) PROVE BelongInv'
  <2>1. finding \in IPs /\ INET256PrefixFromIPv6(finding) # None
    BY <1>3, Zenon DEF FindReturns, BelongInv
  <2>2. IPv6FromINET256(a) = finding
    BY <1>3, <2>1, Zenon DEF FindReturns, Found, PrefixDetermines
  <2>3. /\ sent' = [ip |-> finding, dst |-> a] /\ finding' = None
        /\ UNCHANGED <<heard, written>>
        /\ cache' = [cache EXCEPT ![finding] = IF @ = None THEN [addr |-> a, age |-> 0] ELSE @]
    BY <1>3, Zenon DEF FindReturns
  <2>4. DOMAIN cache' = IPs
    BY <2>3, Zenon DEF BelongInv
  <2>5. ASSUME NEW ip \in IPs, cache'[ip] # None PROVE IPv6FromINET256(cache'[ip].addr) = ip
    <3>1. CASE ip = finding /\ cache[ip] = None
      <4>1. cache'[ip] = [addr |-> a, age |-> 0]
        BY <2>1, <2>3, <3>1, Zenon DEF BelongInv
      <4> QED BY <2>2, <3>1, <4>1
    <3>2. CASE ~ (ip = finding /\ cache[ip] = None)
      <4>1. cache'[ip] = cache[ip]
        BY <2>1, <2>3, <3>2, Zenon DEF BelongInv
      <4> QED BY <2>5, <4>1, Zenon DEF BelongInv
    <3> QED BY <3>1, <3>2, Zenon
  <2> QED BY <2>2, <2>3, <2>4, <2>5, Zenon DEF BelongInv, Belongs
<1>4. ASSUME Tick PROVE BelongInv'
  <2> DEFINE visited == IF timer = 0 THEN Clean ELSE cache
  <2>1. cache' = [ip \in IPs |-> Older(visited[ip])] /\ UNCHANGED <<heard, finding, sent, written>>
    BY <1>4, Zenon DEF Tick, BelongInv
  <2>2. ASSUME NEW ip \in IPs, visited[ip] # None PROVE cache[ip] # None /\ visited[ip] = cache[ip]
    BY <2>2, Zenon DEF Clean, BelongInv
  <2> HIDE DEF visited
  <2>3. ASSUME NEW ip \in IPs, cache'[ip] # None PROVE IPv6FromINET256(cache'[ip].addr) = ip
    <3>1. visited[ip] # None
      BY <2>1, <2>3, Zenon DEF Older
    <3>2. cache'[ip] = cache[ip] \/ cache'[ip] = [cache[ip] EXCEPT !.age = @ + 1]
      BY <2>1, <2>2, <3>1, Zenon DEF Older
    <3>3. cache'[ip].addr = cache[ip].addr
      <4>1. cache[ip] \in Entry
        BY <2>2, <3>1, Zenon DEF CacheInv
      <4> QED BY <3>2, <4>1, Zenon DEF Entry
    <3> QED BY <2>2, <3>1, <3>3, Zenon DEF BelongInv
  <2> QED BY <2>1, <2>3, Zenon DEF BelongInv, Belongs
<1>5. ASSUME NEW src \in Node, NEW header \in IPs \union {None}, Inbound(src, header) PROVE BelongInv'
  <2>1. UNCHANGED <<heard, cache, finding, sent>>
    BY <1>5, Zenon DEF Inbound
  <2>2. \/ written' = written
        \/ /\ src \in Allowed /\ header = IPv6FromINET256(src)
           /\ written' = [header |-> header, src |-> src]
    BY <1>5, Zenon DEF Inbound
  <2> QED BY <2>1, <2>2 DEF BelongInv, Belongs
<1>6. ASSUME FindFails \/ DeviceFails \/ InboundEnds \/ UNCHANGED vars PROVE BelongInv'
  BY <1>6, Zenon DEF FindFails, DeviceFails, InboundEnds, vars, BelongInv, Belongs
<1>7. ASSUME NEW a \in Node, Hear(a) PROVE BelongInv'
  BY <1>7, Zenon DEF Hear, BelongInv, Belongs
<1>8. DOMAIN cache = IPs
  BY Zenon DEF BelongInv
<1> QED BY <1>1, <1>2, <1>3, <1>4, <1>5, <1>6, <1>7, <1>8, Zenon DEF Next

\* If the prefix of an IPv6 address is mapped back to it, as AddrMap's MapsBack
\* says, packets go to the owner of their destination, from the cache or not, and
\* messages come from the owner of their source.
THEOREM PacketsBelong == PrefixDetermines => (Spec => []Belongs)
<1> SUFFICES ASSUME PrefixDetermines PROVE Spec => []Belongs
  BY Zenon
<1>1. Init => BelongInv
  BY Zenon DEF Init, BelongInv, Belongs
<1>2. CacheInv /\ BelongInv /\ [Next]_vars => BelongInv'
  BY NextBelongs, Zenon
<1>3. BelongInv => Belongs
  BY Zenon DEF BelongInv
<1> QED BY <1>1, <1>2, <1>3, InitCache, NextCache, PTL DEF Spec

----------------------------------------------------------------------------
(* dns256: the chains of redirects, which are defined by recursion.         *)

\* A set of natural numbers that is not empty has a least element.
LEMMA LeastOf ==
  ASSUME NEW T, T \subseteq Nat, T # {}
  PROVE  \E k \in T : \A j \in T : k <= j
<1>1. PICK k \in T : \A j \in T : ~ (<<j, k>> \in OpToRel(<, Nat))
  BY NatLessThanWellFounded, WFMin, Zenon
<1>2. \A j \in T : ~ (j < k)
  BY <1>1, Zenon DEF OpToRel
<1> QED  BY <1>2

\* Whom the authorities A lead to.
Follow(path, filter, A) == UNION {D!Delegates(path, filter, a) : a \in A}

\* The authorities of the resolver itself.
RootSet == {D!Authority(<<>>, s) : s \in D!Range(Roots)}

\* f[i] : whom i redirects lead to, up to n.
IsAfter(f, path, filter, n) == f = [i \in 0 .. n |-> IF i = 0 THEN RootSet ELSE Follow(path, filter, f[i - 1])]

\* The function that Delegated defines.
After(path, filter, n) == CHOOSE f : IsAfter(f, path, filter, n)

\* Delegated, in these terms.
LEMMA DelegatedAfter ==
  ASSUME NEW path, NEW filter, NEW n
  PROVE  D!Delegated(path, filter, n) = UNION {After(path, filter, n)[i] : i \in 0 .. n}
BY Zenon DEF D!Delegated, After, IsAfter, RootSet, Follow

\* The chains of n redirects exist, by the least n for which they would not.
LEMMA AfterExists ==
  ASSUME NEW path, NEW filter, NEW n \in Nat
  PROVE  \E f : IsAfter(f, path, filter, n)
<1> DEFINE T == {k \in Nat : ~ \E f : IsAfter(f, path, filter, k)}
<1>1. SUFFICES T = {}
  BY Zenon
<1>2. SUFFICES ASSUME T # {} PROVE FALSE
  BY Zenon
<1>3. PICK k \in T : \A j \in T : k <= j
  <2>1. T \subseteq Nat
    BY Zenon
  <2> HIDE DEF T
  <2> QED  BY <1>2, <2>1, LeastOf, Zenon
<1>4. k \in Nat /\ ~ \E f : IsAfter(f, path, filter, k)
  BY Zenon
<1>5. CASE k = 0
  <2>1. IsAfter([i \in 0 .. 0 |-> RootSet], path, filter, 0)
    BY DEF IsAfter
  <2> QED  BY <1>4, <1>5, <2>1, Zenon
<1>6. CASE k # 0
  <2>1. k - 1 \in Nat /\ ~ (k <= k - 1)
    BY <1>4, <1>6
  <2>2. k - 1 \notin T
    BY <1>3, <2>1, Zenon
  <2>3. PICK f : IsAfter(f, path, filter, k - 1)
    BY <2>1, <2>2, Zenon
  <2> DEFINE g == [i \in 0 .. k |-> IF i = k THEN Follow(path, filter, f[k - 1]) ELSE f[i]]
  <2>4. \A i \in 0 .. k - 1 : f[i] = IF i = 0 THEN RootSet ELSE Follow(path, filter, f[i - 1])
    BY <2>3, Zenon DEF IsAfter
  <2>5. ASSUME NEW i \in 0 .. k PROVE g[i] = IF i = 0 THEN RootSet ELSE Follow(path, filter, g[i - 1])
    <3>1. CASE i = k
      <4>1. g[i] = Follow(path, filter, f[k - 1])
        BY <3>1, Zenon
      <4>2. g[k - 1] = f[k - 1]
        BY <2>1
      <4> QED  BY <1>6, <3>1, <4>1, <4>2, Zenon
    <3>2. CASE i # k
      <4>1. i \in 0 .. k - 1 /\ g[i] = f[i]
        BY <1>4, <3>2
      <4>2. i # 0 => i - 1 \in 0 .. k /\ i - 1 # k
        BY <1>4, <3>2
      <4>3. i # 0 => g[i - 1] = f[i - 1]
        BY <4>2, Zenon
      <4> QED  BY <2>4, <4>1, <4>3, Zenon
    <3> QED  BY <3>1, <3>2, Zenon
  <2>6. IsAfter(g, path, filter, k)
    <3>1. g = [i \in 0 .. k |-> g[i]]
      BY Zenon
    <3> HIDE DEF g
    <3> QED  BY <2>5, <3>1, Zenon DEF IsAfter
  <2> QED  BY <1>4, <2>6, Zenon
<1> QED  BY <1>5, <1>6, Zenon

\* Authority a can be reached with at most k of n redirects.
Reached(a, path, filter, k, n) == \E i \in 0 .. k : a \in After(path, filter, n)[i]

\* What one more redirect reaches.
LEMMA ReachedFacts ==
  ASSUME NEW path, NEW filter, NEW n \in Nat, NEW k \in 0 .. n, NEW a
  PROVE  /\ a \in RootSet => Reached(a, path, filter, k, n)
         /\ Reached(a, path, filter, k, n) => a \in D!Delegated(path, filter, n)
         /\ Reached(a, path, filter, k, n) /\ k < n => Reached(a, path, filter, k + 1, n)
         /\ Reached(a, path, filter, k, n) /\ k < n =>
              \A b \in D!Delegates(path, filter, a) : Reached(b, path, filter, k + 1, n)
<1> DEFINE F == After(path, filter, n)
<1>1. IsAfter(F, path, filter, n)
  BY AfterExists, Zenon DEF After
<1>2. \A i \in 0 .. n : F[i] = IF i = 0 THEN RootSet ELSE Follow(path, filter, F[i - 1])
  BY <1>1, Zenon DEF IsAfter
<1>3. D!Delegated(path, filter, n) = UNION {F[i] : i \in 0 .. n}
  BY DelegatedAfter, Zenon
<1> HIDE DEF F
<1>4. \A x, j : Reached(x, path, filter, j, n) <=> \E i \in 0 .. j : x \in F[i]
  BY Zenon DEF Reached, F
<1>5. a \in RootSet => Reached(a, path, filter, k, n)
  <2>1. 0 \in 0 .. k /\ 0 \in 0 .. n
    OBVIOUS
  <2>2. F[0] = RootSet
    BY <1>2, <2>1, Zenon
  <2> QED  BY <1>4, <2>1, <2>2, Zenon
<1>6. Reached(a, path, filter, k, n) => a \in D!Delegated(path, filter, n)
  <2>1. \A i \in 0 .. k : i \in 0 .. n
    OBVIOUS
  <2> QED  BY <1>3, <1>4, <2>1, Zenon
<1>7. Reached(a, path, filter, k, n) /\ k < n => Reached(a, path, filter, k + 1, n)
  <2>1. \A i \in 0 .. k : i \in 0 .. k + 1
    OBVIOUS
  <2> QED  BY <1>4, <2>1, Zenon
<1>8. ASSUME Reached(a, path, filter, k, n), k < n, NEW b \in D!Delegates(path, filter, a)
      PROVE  Reached(b, path, filter, k + 1, n)
  <2>1. PICK i \in 0 .. k : a \in F[i]
    BY <1>4, <1>8, Zenon
  <2>2. i + 1 \in 0 .. n /\ i + 1 \in 0 .. k + 1 /\ i + 1 # 0 /\ (i + 1) - 1 = i
    BY <1>8
  <2>3. F[i + 1] = Follow(path, filter, F[i])
    BY <1>2, <2>2, Zenon
  <2>4. b \in F[i + 1]
    BY <2>1, <2>3, Zenon DEF Follow
  <2> QED  BY <1>4, <2>2, <2>4, Zenon
<1> QED  BY <1>5, <1>6, <1>7, <1>8, Zenon

\* What the first i claims leave to follow.
IsUpTo(f, claims, n) ==
  f = [i \in 0 .. n |-> IF i = 0 THEN <<>>
                        ELSE IF claims[i].target = Bad THEN f[i - 1] ELSE Append(f[i - 1], claims[i])]

\* The function that Followed defines.
UpTo(claims, n) == CHOOSE f : IsUpTo(f, claims, n)

\* It exists, by the least number of claims for which it would not.
LEMMA UpToExists ==
  ASSUME NEW claims, NEW n \in Nat
  PROVE  \E f : IsUpTo(f, claims, n)
<1> DEFINE T == {k \in Nat : ~ \E f : IsUpTo(f, claims, k)}
           Longer(e, i) == IF claims[i].target = Bad THEN e ELSE Append(e, claims[i])
<1>1. SUFFICES T = {}
  BY Zenon
<1>2. SUFFICES ASSUME T # {} PROVE FALSE
  BY Zenon
<1>3. PICK k \in T : \A j \in T : k <= j
  <2>1. T \subseteq Nat
    BY Zenon
  <2> HIDE DEF T
  <2> QED  BY <1>2, <2>1, LeastOf, Zenon
<1>4. k \in Nat /\ ~ \E f : IsUpTo(f, claims, k)
  BY Zenon
<1>5. \A f, j : IsUpTo(f, claims, j) <=> f = [i \in 0 .. j |-> IF i = 0 THEN <<>> ELSE Longer(f[i - 1], i)]
  BY Zenon DEF IsUpTo
<1> HIDE DEF Longer
<1>6. CASE k = 0
  <2> DEFINE g == [i \in 0 .. 0 |-> <<>>]
  <2>1. \A i \in 0 .. 0 : i = 0
    OBVIOUS
  <2>2. g = [i \in 0 .. 0 |-> IF i = 0 THEN <<>> ELSE Longer(g[i - 1], i)]
    BY <2>1, Zenon
  <2>3. IsUpTo(g, claims, 0)
    BY <1>5, <2>2, Zenon
  <2> QED  BY <1>4, <1>6, <2>3, Zenon
<1>7. CASE k # 0
  <2>1. k - 1 \in Nat /\ ~ (k <= k - 1)
    BY <1>4, <1>7
  <2>2. k - 1 \notin T
    BY <1>3, <2>1, Zenon
  <2>3. PICK f : IsUpTo(f, claims, k - 1)
    BY <2>1, <2>2, Zenon
  <2> DEFINE g == [i \in 0 .. k |-> IF i = k THEN Longer(f[k - 1], k) ELSE f[i]]
  <2>4. \A i \in 0 .. k - 1 : f[i] = IF i = 0 THEN <<>> ELSE Longer(f[i - 1], i)
    <3>1. f = [i \in 0 .. k - 1 |-> IF i = 0 THEN <<>> ELSE Longer(f[i - 1], i)]
      BY <1>5, <2>3, Zenon
    <3> QED  BY <3>1, Zenon
  <2>5. ASSUME NEW i \in 0 .. k PROVE g[i] = IF i = 0 THEN <<>> ELSE Longer(g[i - 1], i)
    <3>1. CASE i = k
      <4>1. g[i] = Longer(f[k - 1], k)
        BY <3>1, Zenon
      <4>2. g[k - 1] = f[k - 1]
        BY <2>1
      <4> QED  BY <1>7, <3>1, <4>1, <4>2, Zenon
    <3>2. CASE i # k
      <4>1. i \in 0 .. k - 1 /\ g[i] = f[i]
        BY <1>4, <3>2
      <4>2. i # 0 => i - 1 \in 0 .. k /\ i - 1 # k
        BY <1>4, <3>2
      <4>3. i # 0 => g[i - 1] = f[i - 1]
        BY <4>2, Zenon
      <4> QED  BY <2>4, <4>1, <4>3, Zenon
    <3> QED  BY <3>1, <3>2, Zenon
  <2>6. IsUpTo(g, claims, k)
    <3>1. g = [i \in 0 .. k |-> g[i]]
      BY Zenon
    <3> HIDE DEF g
    <3>2. g = [i \in 0 .. k |-> IF i = 0 THEN <<>> ELSE Longer(g[i - 1], i)]
      BY <2>5, <3>1, Zenon
    <3> QED  BY <1>5, <3>2, Zenon
  <2> QED  BY <1>4, <2>6, Zenon
<1> QED  BY <1>6, <1>7, Zenon

\* Those claims are followed whose target parses.
LEMMA FollowedOf ==
  ASSUME NEW C, NEW claims \in Seq(C)
  PROVE  D!Followed(claims) \in Seq({e \in D!Range(claims) : e.target # Bad})
<1> DEFINE n == Len(claims)
           F == UpTo(claims, n)
           G == {e \in D!Range(claims) : e.target # Bad}
           T == {k \in 0 .. n : F[k] \notin Seq(G)}
<1>1. n \in Nat
  OBVIOUS
<1>2. D!Followed(claims) = F[n]
  BY Zenon DEF D!Followed, UpTo, IsUpTo
<1>3. IsUpTo(F, claims, n)
  BY <1>1, UpToExists, Zenon DEF UpTo
<1>4. \A i \in 0 .. n : F[i] = IF i = 0 THEN <<>>
                                ELSE IF claims[i].target = Bad THEN F[i - 1] ELSE Append(F[i - 1], claims[i])
  BY <1>3, Zenon DEF IsUpTo
<1>5. \A i \in 1 .. n : claims[i] \in D!Range(claims)
  BY DEF D!Range
<1>6. SUFFICES T = {}
  <2>1. n \in 0 .. n
    BY <1>1
  <2> QED  BY <1>2, <1>6, <2>1, Zenon
<1>7. SUFFICES ASSUME T # {} PROVE FALSE
  BY Zenon
<1> HIDE DEF F, G, n
<1>8. PICK k \in T : \A j \in T : k <= j
  <2>1. T \subseteq Nat
    BY <1>1
  <2> HIDE DEF T
  <2> QED  BY <1>7, <2>1, LeastOf, Zenon
<1>9. k \in 0 .. n /\ F[k] \notin Seq(G)
  BY Zenon
<1>10. k # 0
  <2>1. 0 \in 0 .. n
    BY <1>1
  <2>2. F[0] = <<>>
    BY <1>4, <2>1, Zenon
  <2>3. <<>> \in Seq(G)
    OBVIOUS
  <2> QED  BY <1>9, <2>2, <2>3, Zenon
<1>11. k - 1 \in 0 .. n /\ ~ (k <= k - 1) /\ k \in 1 .. n
  BY <1>1, <1>9, <1>10
<1>12. F[k - 1] \in Seq(G)
  BY <1>8, <1>11, Zenon
<1>13. claims[k].target # Bad => claims[k] \in G
  BY <1>5, <1>11, Zenon DEF G
<1>14. CASE claims[k].target = Bad
  <2>1. F[k] = F[k - 1]
    BY <1>4, <1>9, <1>10, <1>14, Zenon
  <2> QED  BY <1>9, <1>12, <2>1, Zenon
<1>15. CASE claims[k].target # Bad
  <2>1. F[k] = Append(F[k - 1], claims[k])
    BY <1>4, <1>9, <1>10, <1>15, Zenon
  <2>2. Append(F[k - 1], claims[k]) \in Seq(G)
    BY <1>12, <1>13, <1>15
  <2> QED  BY <1>9, <2>1, <2>2, Zenon
<1> QED  BY <1>14, <1>15, Zenon

\* A prefix, and behind it one of the rest.
LEMMA PrefixOver ==
  ASSUME NEW S, NEW path \in Seq(S), NEW p \in Seq(S), NEW q \in Seq(S),
         D!HasPrefix(path, p), D!HasPrefix(SubSeq(path, Len(p) + 1, Len(path)), q)
  PROVE  p \o q \in Seq(S) /\ D!HasPrefix(path, p \o q)
<1>1. PICK k \in Nat, l \in Nat, n \in Nat : k = Len(p) /\ l = Len(q) /\ n = Len(path)
  OBVIOUS
<1>2. k <= n /\ \A i \in 1 .. k : p[i] = path[i]
  BY <1>1, Zenon DEF D!HasPrefix
<1>3. PICK u : u = SubSeq(path, k + 1, n)
  BY Zenon
<1>4. Len(u) = n - k /\ \A i \in 1 .. n - k : u[i] = path[k + i]
  <2>1. k + 1 \in 1 .. n + 1
    BY <1>2
  <2>2. CASE k + 1 <= n
    <3>1. Len(u) = n - k
      BY <1>1, <1>3, <2>1, <2>2
    <3>2. ASSUME NEW i \in 1 .. n - k PROVE u[i] = path[k + i]
      BY <1>1, <1>3, <2>1, <2>2
    <3> QED  BY <3>1, <3>2, Zenon
  <2>3. CASE k = n
    <3>1. u = <<>>
      BY <1>1, <1>3, <2>3
    <3>2. n - k = 0
      BY <2>3
    <3> QED  BY <3>1, <3>2
  <2>4. k + 1 <= n \/ k = n
    BY <1>2
  <2> QED  BY <2>2, <2>3, <2>4, Zenon
<1>5. l <= n - k /\ \A i \in 1 .. l : q[i] = u[i]
  BY <1>1, <1>3, <1>4, Zenon DEF D!HasPrefix
<1>6. PICK c \in Seq(S) : c = p \o q
  BY ConcatProperties, Zenon
<1>7. Len(c) = k + l /\ \A i \in 1 .. k + l : c[i] = IF i <= k THEN p[i] ELSE q[i - k]
  BY <1>1, <1>6, ConcatProperties, Zenon
<1>8. k + l <= n
  BY <1>2, <1>5
<1>9. ASSUME NEW i \in 1 .. k + l PROVE c[i] = path[i]
  <2>1. CASE i <= k
    BY <1>2, <1>7, <2>1
  <2>2. CASE ~ (i <= k)
    <3>1. i - k \in 1 .. l /\ i - k \in 1 .. n - k /\ k + (i - k) = i
      BY <1>5, <2>2
    <3>2. c[i] = q[i - k] /\ q[i - k] = u[i - k] /\ u[i - k] = path[k + (i - k)]
      BY <1>4, <1>5, <1>7, <2>2, <3>1, Zenon
    <3> QED  BY <3>1, <3>2, Zenon
  <2> QED  BY <2>1, <2>2, Zenon
<1>10. D!HasPrefix(path, c)
  BY <1>1, <1>7, <1>8, <1>9, Zenon DEF D!HasPrefix
<1> QED  BY <1>6, <1>10, Zenon

\* Redirects as servers may name them.
Redirect == [path : {Bad} \cup Seq(Elem), target : {Bad} \cup Server]

\* The claims of an answer that redirects are such.
LEMMA RedirectsTyped ==
  ASSUME D!WellFormed, NEW s \in Server, NEW path, NEW filter, NEW r,
         r = D!Handle(s, path, filter), r # None, r.redirect
  PROVE  r.claims \in Seq(Redirect)
<1>1. CASE s \in DOMAIN Custom
  BY <1>1, Zenon DEF D!Handle, D!WellFormed, Redirect
<1>2. CASE s \notin DOMAIN Custom
  <2> DEFINE rs == Redirects[s]
             hits == {i \in DOMAIN rs : D!HasPrefix(path, rs[i].path)}
             first == CHOOSE i \in hits : \A j \in hits : i <= j
  <2>1. rs \in Seq([path : Seq(Elem), target : {Bad} \cup Server])
    BY <1>2, Zenon DEF D!WellFormed
  <2>2. r = IF hits # {} THEN D!Response(TRUE, <<rs[first]>>)
            ELSE D!Response(FALSE, D!Matching(s, filter))
    BY <1>2, Zenon DEF D!Handle, D!BasicHandle
  <2>3. hits # {}
    BY <2>2 DEF D!Response
  <2>4. hits \subseteq Nat
    BY <2>1
  <2>5. first \in hits
    <3>1. \E i \in hits : \A j \in hits : i <= j
      <4> HIDE DEF hits
      <4> QED  BY <2>3, <2>4, LeastOf, Zenon
    <3> QED  BY <3>1, Zenon
  <2>6. rs[first] \in Redirect
    <3>1. first \in DOMAIN rs
      BY <2>5, Zenon
    <3> HIDE DEF rs, first
    <3>2. PICK R : R = [path : Seq(Elem), target : {Bad} \cup Server]
      BY Zenon
    <3>3. rs \in Seq(R)
      BY <2>1, <3>2, Zenon
    <3>4. rs[first] \in R
      BY <3>1, <3>3
    <3> QED  BY <3>2, <3>4, Zenon DEF Redirect
  <2> HIDE DEF rs, hits, first
  <2>7. r.claims = <<rs[first]>>
    BY <2>2, <2>3 DEF D!Response
  <2> QED  BY <2>6, <2>7
<1> QED  BY <1>1, <1>2, Zenon

\* Authorities.
Auth == [path : Seq(Elem), server : Server]

\* A goroutine that resolves; its result may be anything.
IsCall(x) ==
  x \in [at : {"idle", "loop", "send", "await", "done"}, path : Seq(Elem), kind : Kind \cup {None},
         sources : Seq(Auth), hops : Nat, target : Auth \cup {None}, id : Nat \cup {None},
         result : {x.result}]

\* An authority that call x may ask after k redirects.
Sound(a, x, k) ==
  /\ a \in Auth /\ D!HasPrefix(x.path, a.path)
  /\ Reached(a, x.path, D!MustHaveKeys(x.kind), k, D!HopLimit(x.kind))

\* The answer that its target gives call x.
Answer(x) == D!Handle(x.target.server, SubSeq(x.path, Len(x.target.path) + 1, Len(x.path)),
                      D!MustHaveKeys(x.kind))

\* What call x has reached, up to its next request.
Steps(x) ==
  /\ IsCall(x)
  /\ x.at = "idle" => x = D!Idle
  /\ x.at \in {"loop", "send", "await"} =>
       /\ x.kind \in Kind /\ x.hops <= D!HopLimit(x.kind)
       /\ \A i \in 1 .. Len(x.sources) : Sound(x.sources[i], x, x.hops)
  /\ x.at = "loop" => x.target = None
  /\ x.at \in {"send", "await"} => x.hops > 0 /\ Sound(x.target, x, x.hops - 1)
  /\ x.at = "done" /\ x.result \notin {None, <<>>} =>
       \E a \in D!Delegated(x.path, D!MustHaveKeys(x.kind), D!HopLimit(x.kind)) :
         LET r == D!Handle(a.server, SubSeq(x.path, Len(a.path) + 1, Len(x.path)), D!MustHaveKeys(x.kind))
         IN r # None /\ ~ r.redirect /\ x.result = D!Result(x.kind, r.claims)

\* What a message about the request of call x says.
Says(m, x) ==
  IF m.kind = "request"
  THEN /\ m.server = x.target.server /\ m.filter = D!MustHaveKeys(x.kind)
       /\ m.path = SubSeq(x.path, Len(x.target.path) + 1, Len(x.path))
  ELSE m.response = Answer(x)

\* The request of call x, with promises rs and messages M: no other has its
\* identifier, and it is answered with what its target gives.
Request(x, rs, M) ==
  /\ x.at \in {"send", "await"} => x.id \in 1 .. Len(rs)
  /\ x.at = "send" => rs[x.id] = None /\ \A m \in M : m.id # x.id
  /\ x.at = "await" => /\ rs[x.id] # None => rs[x.id] = Answer(x)
                       /\ \A m \in M : m.id = x.id => Says(m, x)

\* Calls with a request.
Asks(x) == x.at \in {"send", "await"}

\* The inductive invariant.
Trust ==
  /\ DOMAIN call = Call
  /\ \E T : resp \in Seq(T)
  /\ nextID = Len(resp) + 1
  /\ \A m \in net \cup handling : m.id \in 1 .. Len(resp)
  /\ \A m \in handling : m.kind = "request"
  /\ \A c \in Call : Steps(call[c]) /\ Request(call[c], resp, net \cup handling)
  /\ \A c, d \in Call : Asks(call[c]) /\ Asks(call[d]) /\ call[c].id = call[d].id => c = d

\* At the start nobody has asked.
LEMMA TrustInit ==
  ASSUME D!Init
  PROVE  Trust
<1>1. /\ call = [c \in Call |-> D!Idle] /\ resp = << >> /\ nextID = 1
      /\ net = {} /\ handling = {}
  BY Zenon DEF D!Init
<1>2. D!Idle.at = "idle" /\ IsCall(D!Idle)
  BY DEF D!Idle, IsCall
<1>3. Steps(D!Idle) /\ Request(D!Idle, resp, net \cup handling) /\ ~ Asks(D!Idle)
  BY <1>2, Zenon DEF Steps, Request, Asks
<1>4. resp \in Seq({}) /\ Len(resp) = 0
  BY <1>1
<1> QED  BY <1>1, <1>2, <1>3, <1>4 DEF Trust

\* The invariant implies the property.
LEMMA TrustImplies ==
  ASSUME D!WellFormed, Trust
  PROVE  D!ChainOfTrust
<1> SUFFICES ASSUME NEW c \in Call
             PROVE  LET filter == D!MustHaveKeys(call[c].kind)
                        trusted == D!DelegatedFor(c)
                    IN /\ call[c].at \in {"loop", "send", "await"} =>
                            /\ D!Range(call[c].sources) \subseteq trusted
                            /\ call[c].target # None => call[c].target \in trusted
                       /\ call[c].at = "done" /\ call[c].result \notin {None, <<>>} =>
                            \E a \in trusted :
                              LET r == D!Handle(a.server, SubSeq(call[c].path, Len(a.path) + 1, Len(call[c].path)), filter)
                              IN /\ r # None /\ ~ r.redirect
                                 /\ call[c].result = D!Result(call[c].kind, r.claims)
  BY Zenon DEF D!ChainOfTrust
<1>1. PICK x : x = call[c]
  BY Zenon
<1>2. Steps(x)
  BY <1>1, Zenon DEF Trust
<1>3. D!DelegatedFor(c) = D!Delegated(x.path, D!MustHaveKeys(x.kind), D!HopLimit(x.kind))
  BY <1>1, Zenon DEF D!DelegatedFor
<1>4. ASSUME NEW a, NEW k \in 0 .. D!HopLimit(x.kind), Sound(a, x, k)
      PROVE  a \in D!DelegatedFor(c)
  <2>1. D!HopLimit(x.kind) \in Nat
    BY Zenon DEF D!HopLimit, D!WellFormed
  <2>2. Reached(a, x.path, D!MustHaveKeys(x.kind), k, D!HopLimit(x.kind))
    BY <1>4, Zenon DEF Sound
  <2> QED  BY <1>3, <2>1, <2>2, ReachedFacts, Zenon
<1>5. ASSUME x.at \in {"loop", "send", "await"}
      PROVE  /\ D!Range(x.sources) \subseteq D!DelegatedFor(c)
             /\ x.target # None => x.target \in D!DelegatedFor(c)
  <2>1. /\ x.hops \in Nat /\ x.hops <= D!HopLimit(x.kind) /\ x.sources \in Seq(Auth)
        /\ \A i \in 1 .. Len(x.sources) : Sound(x.sources[i], x, x.hops)
        /\ x.at = "loop" => x.target = None
        /\ x.at \in {"send", "await"} => x.hops > 0 /\ Sound(x.target, x, x.hops - 1)
    BY <1>2, <1>5, Zenon DEF Steps, IsCall
  <2>2. D!HopLimit(x.kind) \in Nat
    BY Zenon DEF D!HopLimit, D!WellFormed
  <2>3. x.hops \in 0 .. D!HopLimit(x.kind) /\ (x.hops > 0 => x.hops - 1 \in 0 .. D!HopLimit(x.kind))
    BY <2>1, <2>2
  <2>4. D!Range(x.sources) \subseteq D!DelegatedFor(c)
    <3>1. \A i \in 1 .. Len(x.sources) : x.sources[i] \in D!DelegatedFor(c)
      BY <1>4, <2>1, <2>3, Zenon
    <3> QED  BY <2>1, <3>1 DEF D!Range
  <2>5. x.target # None => x.target \in D!DelegatedFor(c)
    BY <1>4, <1>5, <2>1, <2>3, Zenon
  <2> QED  BY <2>4, <2>5, Zenon
<1>6. x.at = "done" /\ x.result \notin {None, <<>>} =>
        \E a \in D!DelegatedFor(c) :
          LET r == D!Handle(a.server, SubSeq(x.path, Len(a.path) + 1, Len(x.path)), D!MustHaveKeys(x.kind))
          IN r # None /\ ~ r.redirect /\ x.result = D!Result(x.kind, r.claims)
  BY <1>2, <1>3, Zenon DEF Steps
<1> QED  BY <1>1, <1>5, <1>6, Zenon

\* A call that goes on without a request of its own.
LEMMA CallMoves ==
  ASSUME Trust, NEW c \in Call, NEW x, D!Becomes(c, x), Steps(x), ~ Asks(x),
         resp' = resp, nextID' = nextID, net' = net, handling' = handling
  PROVE  Trust'
<1>1. DOMAIN call' = Call /\ call'[c] = x /\ \A d \in Call : d # c => call'[d] = call[d]
  BY Zenon DEF D!Becomes, Trust
<1>2. Request(x, resp, net \cup handling)
  BY Zenon DEF Asks, Request
<1>3. \A d \in Call : Steps(call'[d]) /\ Request(call'[d], resp', net' \cup handling')
  BY <1>1, <1>2, Zenon DEF Trust
<1>4. \A d, e \in Call : Asks(call'[d]) /\ Asks(call'[e]) /\ call'[d].id = call'[e].id => d = e
  BY <1>1, Zenon DEF Trust
<1> QED  BY <1>1, <1>3, <1>4, Zenon DEF Trust

\* Whatever happens to the messages, the answers fit their requests.
LEMMA MessagesMove ==
  ASSUME Trust, UNCHANGED <<call, resp, nextID>>,
         \A m \in handling' : m \in handling \/ (m \in net /\ m.kind = "request"),
         \A m \in net' : m \in net \/ \E o \in handling :
           /\ D!Handle(o.server, o.path, o.filter) # None
           /\ m = [kind |-> "response", server |-> o.server, id |-> o.id,
                   response |-> D!Handle(o.server, o.path, o.filter)]
  PROVE  Trust'
<1>1. call' = call /\ resp' = resp /\ nextID' = nextID
  BY Zenon
<1>2. \A m \in handling' : m.kind = "request"
  BY Zenon DEF Trust
<1>3. ASSUME NEW m \in net' \cup handling'
      PROVE  \/ m \in net \cup handling
             \/ \E o \in handling : /\ m.kind = "response" /\ m.id = o.id
                                    /\ m.response = D!Handle(o.server, o.path, o.filter)
  <2>1. CASE m \in handling'
    BY <2>1, Zenon
  <2>2. CASE m \in net' /\ m \notin net
    <3>1. PICK o \in handling :
            m = [kind |-> "response", server |-> o.server, id |-> o.id,
                 response |-> D!Handle(o.server, o.path, o.filter)]
      BY <2>2, Zenon
    <3>2. m.kind = "response" /\ m.id = o.id /\ m.response = D!Handle(o.server, o.path, o.filter)
      BY <3>1, Zenon
    <3> QED  BY <3>2, Zenon
  <2> QED  BY <1>3, <2>1, <2>2, Zenon
<1>4. ASSUME NEW m \in net' \cup handling' PROVE m.id \in 1 .. Len(resp)
  BY <1>3, Zenon DEF Trust
<1>5. ASSUME NEW d \in Call PROVE Request(call[d], resp, net' \cup handling')
  <2>1. PICK x : x = call[d]
    BY Zenon
  <2>2. Request(x, resp, net \cup handling)
    BY <2>1, Zenon DEF Trust
  <2>3. ASSUME x.at = "send", NEW m \in net' \cup handling' PROVE m.id # x.id
    <3>1. \A o \in net \cup handling : o.id # x.id
      BY <2>2, <2>3, Zenon DEF Request
    <3> QED  BY <1>3, <3>1, Zenon
  <2>4. ASSUME x.at = "await", NEW m \in net' \cup handling', m.id = x.id PROVE Says(m, x)
    <3>1. \A o \in net \cup handling : o.id = x.id => Says(o, x)
      BY <2>2, <2>4, Zenon DEF Request
    <3>2. CASE m \in net \cup handling
      BY <2>4, <3>1, <3>2, Zenon
    <3>3. CASE m \notin net \cup handling
      <4>1. PICK o \in handling : /\ m.kind = "response" /\ m.id = o.id
                                  /\ m.response = D!Handle(o.server, o.path, o.filter)
        BY <1>3, <3>3, Zenon
      <4>2. o.kind = "request" /\ Says(o, x)
        BY <2>4, <3>1, <4>1, Zenon DEF Trust
      <4>3. m.response = Answer(x)
        BY <4>1, <4>2, Zenon DEF Says, Answer
      <4> QED  BY <4>1, <4>3, Zenon DEF Says
    <3> QED  BY <3>2, <3>3, Zenon
  <2>5. Request(x, resp, net' \cup handling')
    BY <2>2, <2>3, <2>4, Zenon DEF Request
  <2> QED  BY <2>1, <2>5, Zenon
<1> QED  BY <1>1, <1>2, <1>4, <1>5, Zenon DEF Trust

\* Begin: the name's path, and the roots.
LEMMA BeginTrusts ==
  ASSUME D!WellFormed, Trust, NEW c \in Call, NEW n \in Name, NEW k \in Kind, D!Begin(c, n, k)
  PROVE  Trust'
<1>1. call[c] = D!Idle
  BY Zenon DEF D!Begin, Trust, Steps
<1>a. PICK y : y = D!Idle
  BY Zenon
<1>b. IsCall(y) /\ y.path = <<>> /\ y.kind = None /\ y.hops = 0 /\ y.target = None /\ y.id = None /\ y.result = None
  BY <1>a DEF D!Idle, IsCall
<1>c. IsCall(y)
  BY <1>b, Zenon
<1>2. resp' = resp /\ nextID' = nextID /\ net' = net /\ handling' = handling
  BY Zenon DEF D!Begin, D!serverVars
<1>3. CASE D!ParseDots(n) = None
  <2>0. PICK x : x = [y EXCEPT !.at = "done", !.sources = <<>>, !.target = None, !.id = None, !.result = None]
    BY Zenon
  <2>1. D!Becomes(c, x)
    BY <1>1, <1>3, <1>a, <2>0, Zenon DEF D!Begin, D!Returns
  <2>a. x = [at |-> "done", path |-> <<>>, kind |-> None, sources |-> <<>>, hops |-> 0,
             target |-> None, id |-> None, result |-> None]
    <3>1. x = [at |-> "done", path |-> y.path, kind |-> y.kind, sources |-> <<>>, hops |-> y.hops,
               target |-> None, id |-> None, result |-> None]
      BY <1>c, <2>0, Zenon DEF IsCall
    <3> QED  BY <1>b, <3>1, Zenon
  <2>b. IsCall(x)
    BY <2>a DEF IsCall
  <2>2. Steps(x) /\ ~ Asks(x)
    BY <2>a, <2>b, Zenon DEF Steps, Asks
  <2> QED  BY <1>2, <2>1, <2>2, CallMoves, Zenon
<1>4. CASE D!ParseDots(n) # None
  <2>1. PICK path : path = D!ParseDots(n)
    BY Zenon
  <2>2. path \in Seq(Elem)
    <3>1. /\ \A i \in DOMAIN n : n[i] \in Elem
          /\ path = [i \in 1 .. Len(n) |-> n[Len(n) - i + 1]]
      BY <1>4, <2>1, Zenon DEF D!ParseDots
    <3>2. DOMAIN n = 1 .. Len(n) /\ Len(n) \in Nat
      BY Zenon DEF D!WellFormed
    <3>3. PICK l \in Nat : l = Len(n)
      BY <3>2, Zenon
    <3>4. \A i \in 1 .. l : l - i + 1 \in 1 .. l
      OBVIOUS
    <3>5. path \in [1 .. l -> Elem]
      BY <3>1, <3>2, <3>3, <3>4, Zenon
    <3> QED  BY <3>5
  <2>0. PICK roots : roots = [i \in DOMAIN Roots |-> D!Authority(<<>>, Roots[i])]
    BY Zenon
  <2>x. PICK x : x = [y EXCEPT !.at = "loop", !.path = path, !.kind = k, !.sources = roots]
    BY Zenon
  <2>3. D!Becomes(c, x)
    BY <1>1, <1>4, <1>a, <2>0, <2>1, <2>x, Zenon DEF D!Begin
  <2>4. Roots \in Seq(Server) /\ D!HopLimit(k) \in Nat
    BY Zenon DEF D!WellFormed, D!HopLimit
  <2>5. \A i \in 1 .. Len(Roots) : roots[i] = D!Authority(<<>>, Roots[i]) /\ Roots[i] \in Server
    BY <2>0, <2>4
  <2>6. \A s \in Server : D!Authority(<<>>, s) \in Auth
    <3>1. <<>> \in Seq(Elem)
      OBVIOUS
    <3> QED  BY <3>1, Zenon DEF D!Authority, Auth
  <2>7. roots \in Seq(Auth) /\ Len(roots) = Len(Roots)
    <3>1. Len(Roots) \in Nat /\ DOMAIN Roots = 1 .. Len(Roots)
      BY <2>4
    <3>2. roots \in [1 .. Len(Roots) -> Auth]
      BY <2>0, <2>5, <2>6, <3>1, Zenon
    <3> QED  BY <3>1, <3>2
  <2>8. x = [at |-> "loop", path |-> path, kind |-> k, sources |-> roots, hops |-> 0,
             target |-> None, id |-> None, result |-> None]
    <3>1. x = [at |-> "loop", path |-> path, kind |-> k, sources |-> roots, hops |-> y.hops,
               target |-> y.target, id |-> y.id, result |-> y.result]
      BY <1>c, <2>x, Zenon DEF IsCall
    <3> QED  BY <1>b, <3>1, Zenon
  <2>9. ASSUME NEW i \in 1 .. Len(roots) PROVE Sound(roots[i], x, 0)
    <3>1. i \in 1 .. Len(Roots) /\ i \in DOMAIN Roots
      BY <2>4, <2>7
    <3>2. roots[i] \in RootSet /\ roots[i] \in Auth /\ roots[i].path = <<>>
      <4>1. roots[i] = D!Authority(<<>>, Roots[i]) /\ Roots[i] \in Server
        BY <2>5, <3>1, Zenon
      <4>2. Roots[i] \in D!Range(Roots)
        BY <3>1, Zenon DEF D!Range
      <4>3. roots[i] \in RootSet
        BY <4>1, <4>2, Zenon DEF RootSet
      <4>4. roots[i].path = <<>>
        BY <4>1 DEF D!Authority
      <4> QED  BY <2>6, <4>1, <4>3, <4>4, Zenon
    <3>3. D!HasPrefix(path, <<>>)
      BY <2>2 DEF D!HasPrefix
    <3>4. 0 \in 0 .. D!HopLimit(k)
      BY <2>4
    <3>5. Reached(roots[i], path, D!MustHaveKeys(k), 0, D!HopLimit(k))
      BY <2>4, <3>2, <3>4, ReachedFacts, Zenon
    <3> QED  BY <2>8, <3>2, <3>3, <3>5, Zenon DEF Sound
  <2>10. Steps(x) /\ ~ Asks(x)
    <3>1. IsCall(x)
      BY <2>2, <2>7, <2>8, Zenon DEF IsCall
    <3>2. x.at = "loop" /\ x.kind = k /\ x.hops = 0 /\ x.target = None /\ x.sources = roots
      BY <2>8, Zenon
    <3>3. x.hops <= D!HopLimit(x.kind)
      BY <2>4, <3>2
    <3> QED  BY <2>9, <3>1, <3>2, <3>3, Zenon DEF Steps, Asks
  <2> QED  BY <1>2, <2>3, <2>10, CallMoves, Zenon
<1> QED  BY <1>3, <1>4, Zenon

\* A call that returns: with nothing, or with what its target has.
LEMMA ReturnTrusts ==
  ASSUME Trust, NEW c \in Call, NEW result, D!Returns(c, result),
         \/ result \in {None, <<>>}
         \/ \E a \in D!Delegated(call[c].path, D!MustHaveKeys(call[c].kind), D!HopLimit(call[c].kind)) :
              LET r == D!Handle(a.server, SubSeq(call[c].path, Len(a.path) + 1, Len(call[c].path)),
                                D!MustHaveKeys(call[c].kind))
              IN r # None /\ ~ r.redirect /\ result = D!Result(call[c].kind, r.claims),
         resp' = resp, nextID' = nextID, net' = net, handling' = handling
  PROVE  Trust'
<1>1. PICK y : y = call[c]
  BY Zenon
<1>2. IsCall(y)
  BY <1>1, Zenon DEF Trust, Steps
<1>3. PICK x : x = [y EXCEPT !.at = "done", !.sources = <<>>, !.target = None, !.id = None, !.result = result]
  BY Zenon
<1>4. D!Becomes(c, x)
  BY <1>1, <1>3, Zenon DEF D!Returns
<1>5. IsCall(x) /\ x.at = "done" /\ x.path = y.path /\ x.kind = y.kind /\ x.result = result
  <2>1. x = [at |-> "done", path |-> y.path, kind |-> y.kind, sources |-> <<>>, hops |-> y.hops,
             target |-> None, id |-> None, result |-> result]
    BY <1>2, <1>3, Zenon DEF IsCall
  <2>2. y.path \in Seq(Elem) /\ y.kind \in Kind \cup {None} /\ y.hops \in Nat
    BY <1>2, Zenon DEF IsCall
  <2>3. x.at = "done" /\ x.path = y.path /\ x.kind = y.kind /\ x.result = result
    BY <2>1, Zenon
  <2>4. <<>> \in Seq(Auth)
    OBVIOUS
  <2>5. IsCall(x)
    BY <2>1, <2>2, <2>4, Zenon DEF IsCall
  <2> QED  BY <2>3, <2>5, Zenon
<1>6. result \notin {None, <<>>} =>
        \E a \in D!Delegated(x.path, D!MustHaveKeys(x.kind), D!HopLimit(x.kind)) :
          LET r == D!Handle(a.server, SubSeq(x.path, Len(a.path) + 1, Len(x.path)), D!MustHaveKeys(x.kind))
          IN r # None /\ ~ r.redirect /\ x.result = D!Result(x.kind, r.claims)
  BY <1>1, <1>5, Zenon
<1>7. Steps(x) /\ ~ Asks(x)
  BY <1>5, <1>6, Zenon DEF Steps, Asks
<1> QED  BY <1>4, <1>7, CallMoves, Zenon

\* GiveUp and DoFails return nothing.
LEMMA NothingTrusts ==
  ASSUME Trust, NEW c \in Call, D!GiveUp(c) \/ D!DoFails(c)
  PROVE  Trust'
<1>1. resp' = resp /\ nextID' = nextID /\ net' = net /\ handling' = handling
  BY Zenon DEF D!GiveUp, D!DoFails, D!serverVars
<1>2. \E result \in {None, <<>>} : D!Returns(c, result)
  BY Zenon DEF D!GiveUp, D!DoFails
<1> QED  BY <1>1, <1>2, ReturnTrusts, Zenon

\* What is sound stays so with more redirects.
LEMMA SoundOn ==
  ASSUME NEW a, NEW x, NEW k \in Nat, D!HopLimit(x.kind) \in Nat, k < D!HopLimit(x.kind), Sound(a, x, k)
  PROVE  Sound(a, x, k + 1)
<1>1. k \in 0 .. D!HopLimit(x.kind)
  OBVIOUS
<1> QED  BY <1>1, ReachedFacts, Zenon DEF Sound

\* Two calls that ask for the same.
LEMMA SoundFor ==
  ASSUME NEW a, NEW k, NEW x, NEW y, Sound(a, x, k), y.path = x.path, y.kind = x.kind
  PROVE  Sound(a, y, k)
BY Zenon DEF Sound

\* DoBegin: the last source becomes the target, with a new identifier.
LEMMA DoBeginTrusts ==
  ASSUME D!WellFormed, Trust, NEW c \in Call, D!DoBegin(c)
  PROVE  Trust'
<1>1. PICK y : y = call[c]
  BY Zenon
<1>2. Steps(y) /\ IsCall(y)
  BY <1>1, Zenon DEF Trust, Steps
<1>3. /\ y.at = "loop" /\ y.sources # <<>> /\ ~ (y.hops >= D!HopLimit(y.kind))
      /\ resp' = Append(resp, None) /\ nextID' = nextID + 1 /\ net' = net /\ handling' = handling
  BY <1>1, Zenon DEF D!DoBegin, D!TooFar, D!serverVars
<1>4. /\ y.kind \in Kind /\ y.hops <= D!HopLimit(y.kind)
      /\ \A i \in 1 .. Len(y.sources) : Sound(y.sources[i], y, y.hops)
  BY <1>2, <1>3, Zenon DEF Steps
<1>5. PICK h \in Nat, l \in Nat : h = y.hops /\ l = D!HopLimit(y.kind)
  BY <1>2, Zenon DEF IsCall, D!WellFormed, D!HopLimit
<1>6. PICK s \in Seq(Auth) : s = y.sources
  BY <1>2, Zenon DEF IsCall
<1>7. PICK f, t, i : f = SubSeq(s, 1, Len(s) - 1) /\ t = s[Len(s)] /\ i = nextID
  BY Zenon
<1>8. PICK x : x = [y EXCEPT !.at = "send", !.sources = f, !.target = t, !.hops = y.hops + 1, !.id = i]
  BY Zenon
<1>9. D!Becomes(c, x)
  BY <1>1, <1>6, <1>7, <1>8, Zenon DEF D!DoBegin
<1>10. x = [at |-> "send", path |-> y.path, kind |-> y.kind, sources |-> f, hops |-> y.hops + 1,
            target |-> t, id |-> i, result |-> y.result]
  BY <1>2, <1>8, Zenon DEF IsCall
<1>11. PICK n \in Nat : n = Len(s) /\ n > 0
  <2>1. s # <<>>
    BY <1>3, <1>6, Zenon
  <2> QED  BY <2>1
<1>12. /\ f \in Seq(Auth) /\ Len(f) = n - 1 /\ \A j \in 1 .. n - 1 : f[j] = s[j]
       /\ t = s[n] /\ t \in Auth
  <2>1. f = SubSeq(s, 1, n - 1) /\ t = s[n]
    BY <1>7, <1>11, Zenon
  <2>2. n \in 1 .. n /\ n - 1 \in 0 .. n
    BY <1>11
  <2>3. t \in Auth
    BY <1>11, <2>1, <2>2
  <2>4. f \in Seq(Auth) /\ Len(f) = n - 1 /\ \A j \in 1 .. n - 1 : f[j] = s[j]
    BY <1>11, <2>1, <2>2
  <2> QED  BY <2>1, <2>3, <2>4, Zenon
<1>13. h < l
  BY <1>3, <1>4, <1>5
<1>14. Sound(t, x, h)
  <2>1. n \in 1 .. Len(y.sources)
    BY <1>6, <1>11
  <2>2. Sound(t, y, h)
    BY <1>4, <1>5, <1>6, <1>12, <2>1, Zenon
  <2> QED  BY <1>10, <2>2, SoundFor, Zenon
<1>15. ASSUME NEW j \in 1 .. Len(f) PROVE Sound(f[j], x, h + 1)
  <2>1. j \in 1 .. Len(y.sources) /\ j \in 1 .. n - 1
    BY <1>6, <1>11, <1>12
  <2>2. Sound(f[j], y, h)
    BY <1>4, <1>5, <1>6, <1>12, <2>1, Zenon
  <2>3. Sound(f[j], y, h + 1)
    BY <1>5, <1>13, <2>2, SoundOn, Zenon
  <2> QED  BY <1>10, <2>3, SoundFor, Zenon
<1>16. PICK T : resp \in Seq(T)
  BY Zenon DEF Trust
<1>17. PICK m \in Nat : m = Len(resp)
  BY <1>16
<1>18. /\ resp' \in Seq(T \cup {None}) /\ Len(resp') = m + 1 /\ resp'[m + 1] = None
       /\ \A j \in 1 .. m : resp'[j] = resp[j]
  <2>1. resp' = Append(resp, None)
    BY <1>3, Zenon
  <2>2. PICK U : U = T \cup {None}
    BY Zenon
  <2>3. resp \in Seq(U) /\ None \in U
    BY <1>16, <2>2
  <2> QED  BY <1>17, <2>1, <2>2, <2>3
<1>19. i = m + 1 /\ nextID' = m + 2
  BY <1>3, <1>7, <1>17 DEF Trust
<1>20. Steps(x)
  <2>1. y.path \in Seq(Elem) /\ y.kind \in Kind \cup {None}
    BY <1>2, Zenon DEF IsCall
  <2>2. h + 1 \in Nat /\ i \in Nat
    BY <1>19
  <2>3. IsCall(x)
    BY <1>5, <1>10, <1>12, <2>1, <2>2, Zenon DEF IsCall
  <2>4. x.at = "send" /\ x.hops = h + 1 /\ x.sources = f /\ x.target = t /\ x.kind = y.kind
    BY <1>5, <1>10, Zenon
  <2>5. x.hops > 0 /\ x.hops - 1 = h /\ h + 1 <= l
    BY <1>13, <2>4
  <2> QED  BY <1>4, <1>5, <1>14, <1>15, <2>3, <2>4, <2>5, Zenon DEF Steps
<1>21. DOMAIN call' = Call /\ call'[c] = x /\ \A d \in Call : d # c => call'[d] = call[d]
  BY <1>9, Zenon DEF D!Becomes, Trust
<1>22. x.at = "send" /\ x.id = m + 1
  BY <1>10, <1>19, Zenon
<1>23. \A o \in net \cup handling : o.id \in 1 .. m
  BY <1>17, Zenon DEF Trust
<1>24. Request(x, resp', net \cup handling)
  <2>1. m + 1 \in 1 .. Len(resp') /\ m + 1 \notin 1 .. m
    BY <1>18
  <2> QED  BY <1>18, <1>22, <1>23, <2>1, Zenon DEF Request
<1>25. ASSUME NEW d \in Call, d # c PROVE Request(call[d], resp', net \cup handling)
  <2>1. PICK z : z = call[d]
    BY Zenon
  <2>2. Request(z, resp, net \cup handling)
    BY <2>1, Zenon DEF Trust
  <2>3. Asks(z) => z.id \in 1 .. m /\ z.id \in 1 .. Len(resp') /\ resp'[z.id] = resp[z.id]
    <3>1. Asks(z) => z.id \in 1 .. m
      BY <1>17, <2>2, Zenon DEF Request, Asks
    <3> QED  BY <1>18, <3>1
  <2>4. Request(z, resp', net \cup handling)
    BY <2>2, <2>3, Zenon DEF Request, Asks
  <2> QED  BY <2>1, <2>4, Zenon
<1>26. ASSUME NEW d \in Call, d # c, Asks(call[d]) PROVE call[d].id # x.id
  <2>1. call[d].id \in 1 .. m
    BY <1>17, <1>26, Zenon DEF Trust, Request, Asks
  <2> QED  BY <1>22, <2>1
<1>27. \A d \in Call : Steps(call'[d]) /\ Request(call'[d], resp', net' \cup handling')
  BY <1>3, <1>20, <1>21, <1>24, <1>25, Zenon DEF Trust
<1>28. \A d, e \in Call : Asks(call'[d]) /\ Asks(call'[e]) /\ call'[d].id = call'[e].id => d = e
  BY <1>21, <1>26, Zenon DEF Trust
<1>29. nextID' = Len(resp') + 1
  BY <1>18, <1>19
<1>30. \A o \in net' \cup handling' : o.id \in 1 .. Len(resp')
  <2>1. \A j \in 1 .. m : j \in 1 .. m + 1
    OBVIOUS
  <2> QED  BY <1>3, <1>18, <1>23, <2>1, Zenon
<1>31. \A o \in handling' : o.kind = "request"
  BY <1>3, Zenon DEF Trust
<1>32. \E U : resp' \in Seq(U)
  BY <1>18, Zenon
<1> QED  BY <1>21, <1>27, <1>28, <1>29, <1>30, <1>31, <1>32, Zenon DEF Trust

\* DoSend: the request, to the target.
LEMMA DoSendTrusts ==
  ASSUME Trust, NEW c \in Call, D!DoSend(c)
  PROVE  Trust'
<1>1. PICK y : y = call[c]
  BY Zenon
<1>2. Steps(y) /\ IsCall(y) /\ Request(y, resp, net \cup handling)
  BY <1>1, Zenon DEF Trust, Steps
<1>3. PICK q : q = [kind |-> "request", server |-> y.target.server, id |-> y.id,
                    path |-> D!TrimPrefix(y.path, y.target.path), filter |-> D!MustHaveKeys(y.kind)]
  BY Zenon
<1>4. /\ y.at = "send" /\ net' = net \cup {q}
      /\ resp' = resp /\ nextID' = nextID /\ handling' = handling
  BY <1>1, <1>3, Zenon DEF D!DoSend, D!serverVars
<1>5. PICK x : x = [y EXCEPT !.at = "await"]
  BY Zenon
<1>6. D!Becomes(c, x)
  BY <1>1, <1>5, Zenon DEF D!DoSend
<1>7. x = [at |-> "await", path |-> y.path, kind |-> y.kind, sources |-> y.sources, hops |-> y.hops,
           target |-> y.target, id |-> y.id, result |-> y.result]
  BY <1>2, <1>5, Zenon DEF IsCall
<1>8. /\ y.kind \in Kind /\ y.hops <= D!HopLimit(y.kind) /\ y.hops > 0
      /\ \A i \in 1 .. Len(y.sources) : Sound(y.sources[i], y, y.hops)
      /\ Sound(y.target, y, y.hops - 1)
  BY <1>2, <1>4, Zenon DEF Steps
<1>9. Steps(x)
  <2>1. IsCall(x)
    BY <1>2, <1>7, Zenon DEF IsCall
  <2>2. x.path = y.path /\ x.kind = y.kind /\ x.sources = y.sources /\ x.hops = y.hops /\ x.target = y.target
    BY <1>7, Zenon
  <2>3. Sound(x.target, x, x.hops - 1)
    BY <1>8, <2>2, SoundFor, Zenon
  <2>4. \A i \in 1 .. Len(x.sources) : Sound(x.sources[i], x, x.hops)
    BY <1>8, <2>2, SoundFor, Zenon
  <2> QED  BY <1>7, <1>8, <2>1, <2>2, <2>3, <2>4, Zenon DEF Steps
<1>10. DOMAIN call' = Call /\ call'[c] = x /\ \A d \in Call : d # c => call'[d] = call[d]
  BY <1>6, Zenon DEF D!Becomes, Trust
<1>11. y.id \in 1 .. Len(resp) /\ resp[y.id] = None /\ \A m \in net \cup handling : m.id # y.id
  BY <1>2, <1>4, Zenon DEF Request
<1>12. q.id = y.id /\ Says(q, x)
  <2>1. D!TrimPrefix(y.path, y.target.path) = SubSeq(y.path, Len(y.target.path) + 1, Len(y.path))
    BY <1>8, Zenon DEF Sound, D!TrimPrefix
  <2> QED  BY <1>3, <1>7, <2>1, Zenon DEF Says
<1>13. Request(x, resp, net' \cup handling)
  <2>1. x.at = "await" /\ x.id = y.id
    BY <1>7, Zenon
  <2>2. \A m \in net' \cup handling : m.id = x.id => Says(m, x)
    BY <1>4, <1>11, <1>12, <2>1, Zenon
  <2> QED  BY <1>11, <2>1, <2>2, Zenon DEF Request
<1>14. ASSUME NEW d \in Call, d # c PROVE Request(call[d], resp, net' \cup handling)
  <2>1. PICK z : z = call[d]
    BY Zenon
  <2>2. Request(z, resp, net \cup handling)
    BY <2>1, Zenon DEF Trust
  <2>3. Asks(z) => q.id # z.id
    BY <1>1, <1>4, <1>12, <1>14, <2>1, Zenon DEF Trust, Asks
  <2>4. Request(z, resp, net' \cup handling)
    BY <1>4, <2>2, <2>3, Zenon DEF Request, Asks
  <2> QED  BY <2>1, <2>4, Zenon
<1>15. \A d \in Call : Steps(call'[d]) /\ Request(call'[d], resp', net' \cup handling')
  BY <1>4, <1>9, <1>10, <1>13, <1>14, Zenon DEF Trust
<1>16. \A d, e \in Call : Asks(call'[d]) /\ Asks(call'[e]) /\ call'[d].id = call'[e].id => d = e
  <2>1. Asks(x) /\ Asks(y) /\ x.id = y.id
    BY <1>4, <1>7, Zenon DEF Asks
  <2> QED  BY <1>1, <1>10, <2>1, ZenonT(40) DEF Trust
<1>17. \A m \in net' \cup handling' : m.id \in 1 .. Len(resp')
  BY <1>4, <1>11, <1>12, Zenon DEF Trust
<1> QED  BY <1>4, <1>10, <1>15, <1>16, <1>17, Zenon DEF Trust

\* ReadLoop: whichever loop takes a response, it is the one to its request.
LEMMA ReadTrusts ==
  ASSUME Trust, NEW l, NEW m, D!ReadLoop(l, m)
  PROVE  Trust'
<1>1. /\ m \in net /\ m.kind = "response" /\ net' = net \ {m} /\ call' = call /\ nextID' = nextID
      /\ handling' = handling
      /\ resp' = [resp EXCEPT ![m.id] = IF m.id \in store /\ @ = None THEN m.response ELSE @]
  BY Zenon DEF D!ReadLoop, D!Completes, D!serverVars
<1>2. PICK T : resp \in Seq(T)
  BY Zenon DEF Trust
<1>3. m.id \in 1 .. Len(resp)
  BY <1>1, Zenon DEF Trust
<1>4. PICK v : v = IF m.id \in store /\ resp[m.id] = None THEN m.response ELSE resp[m.id]
  BY Zenon
<1>5. /\ resp' \in Seq(T \cup {v}) /\ Len(resp') = Len(resp) /\ resp'[m.id] = v
      /\ \A j \in 1 .. Len(resp) : j # m.id => resp'[j] = resp[j]
  <2>1. resp' = [resp EXCEPT ![m.id] = v]
    BY <1>1, <1>4, Zenon
  <2>2. resp \in Seq(T \cup {v})
    BY <1>2
  <2> QED  BY <1>3, <2>1, <2>2
<1>6. ASSUME NEW d \in Call PROVE Request(call[d], resp', net' \cup handling')
  <2>1. PICK z : z = call[d]
    BY Zenon
  <2>2. Request(z, resp, net \cup handling)
    BY <2>1, Zenon DEF Trust
  <2>3. ASSUME z.at = "send" PROVE resp'[z.id] = resp[z.id]
    <3>1. z.id # m.id /\ z.id \in 1 .. Len(resp)
      BY <1>1, <2>2, <2>3, Zenon DEF Request
    <3> QED  BY <1>5, <3>1, Zenon
  <2>4. ASSUME z.at = "await", resp'[z.id] # None PROVE resp'[z.id] = Answer(z)
    <3>1. z.id \in 1 .. Len(resp) /\ (resp[z.id] # None => resp[z.id] = Answer(z))
      BY <2>2, <2>4, Zenon DEF Request
    <3>2. CASE z.id # m.id
      BY <1>5, <2>4, <3>1, <3>2, Zenon
    <3>3. CASE z.id = m.id
      <4>1. m.response = Answer(z)
        BY <1>1, <2>2, <2>4, <3>3, Zenon DEF Request, Says
      <4> QED  BY <1>4, <1>5, <2>4, <3>1, <3>3, <4>1, Zenon
    <3> QED  BY <3>2, <3>3, Zenon
  <2>5. net' \cup handling' \subseteq net \cup handling
    BY <1>1, Zenon
  <2>6. Request(z, resp', net' \cup handling')
    BY <1>5, <2>2, <2>3, <2>4, <2>5, Zenon DEF Request
  <2> QED  BY <2>1, <2>6, Zenon
<1>7. \A o \in net' \cup handling' : o.id \in 1 .. Len(resp')
  BY <1>1, <1>5, Zenon DEF Trust
<1>8. nextID' = Len(resp') + 1 /\ \E U : resp' \in Seq(U)
  BY <1>1, <1>5, Zenon DEF Trust
<1> QED  BY <1>1, <1>6, <1>7, <1>8, Zenon DEF Trust

\* The authorities of a redirect: the target's path, and behind it the claim's.
LEMMA RedirectSound ==
  ASSUME D!WellFormed, NEW x, Steps(x), x.at = "await", NEW r, r = Answer(x), r # None, r.redirect,
         D!Valid(D!TrimPrefix(x.path, x.target.path), r.claims),
         NEW e \in D!Range(r.claims), e.target # Bad
  PROVE  LET a == D!Authority(D!Concat(x.target.path, e.path), e.target)
         IN a \in Auth /\ Sound(a, x, x.hops)
<1>1. IsCall(x) /\ x.hops <= D!HopLimit(x.kind) /\ x.hops > 0 /\ Sound(x.target, x, x.hops - 1)
  BY Zenon DEF Steps
<1>a. x.target \in Auth /\ x.path \in Seq(Elem) /\ x.hops \in Nat
  BY <1>1, Zenon DEF IsCall, Sound
<1>b. D!HopLimit(x.kind) \in Nat
  BY Zenon DEF D!HopLimit, D!WellFormed
<1>2a. PICK t \in Auth : t = x.target
  BY <1>a, Zenon
<1>2b. PICK path \in Seq(Elem) : path = x.path
  BY <1>a, Zenon
<1>2d. PICK filter : filter = D!MustHaveKeys(x.kind)
  BY Zenon
<1>2c. PICK h \in Nat, n \in Nat : h = x.hops /\ n = D!HopLimit(x.kind)
  BY <1>a, <1>b, Zenon
<1>2. /\ t = x.target /\ path = x.path /\ filter = D!MustHaveKeys(x.kind)
      /\ h = x.hops /\ n = D!HopLimit(x.kind)
  BY <1>2a, <1>2b, <1>2c, <1>2d, Zenon
<1>3. t.path \in Seq(Elem) /\ t.server \in Server
  BY Zenon DEF Auth
<1>4. D!HasPrefix(path, t.path) /\ Reached(t, path, filter, h - 1, n)
  BY <1>1, <1>2, Zenon DEF Sound
<1>5. PICK rest : rest = SubSeq(path, Len(t.path) + 1, Len(path))
  BY Zenon
<1>6. D!TrimPrefix(x.path, x.target.path) = rest
  BY <1>2, <1>4, <1>5, Zenon DEF D!TrimPrefix
<1>7. r = D!Handle(t.server, rest, filter)
  BY <1>2, <1>5, Zenon DEF Answer
<1>8. r.claims \in Seq(Redirect)
  BY <1>3, <1>7, RedirectsTyped, Zenon
<1>9. PICK i \in DOMAIN r.claims : e = r.claims[i]
  BY Zenon DEF D!Range
<1>10. e \in Redirect
  BY <1>8, <1>9
<1>11. e.path # Bad /\ D!HasPrefix(rest, e.path)
  BY <1>6, <1>9, Zenon DEF D!Valid
<1>12. e.path \in Seq(Elem) /\ e.target \in Server
  BY <1>10, <1>11, Zenon DEF Redirect
<1>13. t.path \o e.path \in Seq(Elem) /\ D!HasPrefix(path, t.path \o e.path)
  BY <1>3, <1>4, <1>5, <1>11, <1>12, PrefixOver, Zenon
<1>14. PICK a : a = D!Authority(t.path \o e.path, e.target)
  BY Zenon
<1>15. a \in Auth /\ a.path = t.path \o e.path
  BY <1>12, <1>13, <1>14, Zenon DEF D!Authority, Auth
<1>16. a \in D!Delegates(path, filter, t)
  BY <1>5, <1>7, <1>11, <1>13, <1>14, <1>15, Zenon DEF D!Delegates
<1>17. h - 1 \in 0 .. n /\ h - 1 < n /\ (h - 1) + 1 = h
  BY <1>1, <1>2
<1>18. Reached(a, path, filter, h, n)
  <2>1. Reached(a, path, filter, (h - 1) + 1, n)
    BY <1>4, <1>16, <1>17, ReachedFacts, Zenon
  <2> QED  BY <1>17, <2>1, Zenon
<1>19. Sound(a, x, x.hops)
  BY <1>2, <1>13, <1>15, <1>18, Zenon DEF Sound
<1> QED  BY <1>2, <1>14, <1>15, <1>19, Zenon DEF D!Concat

\* DoDone: the records of the target, or the authorities of its redirect.
LEMMA DoDoneTrusts ==
  ASSUME D!WellFormed, Trust, NEW c \in Call, D!DoDone(c)
  PROVE  Trust'
<1>1. PICK y : y = call[c]
  BY Zenon
<1>2. Steps(y) /\ IsCall(y) /\ Request(y, resp, net \cup handling)
  BY <1>1, Zenon DEF Trust, Steps
<1>3. PICK r : r = resp[y.id]
  BY Zenon
<1>4. /\ y.at = "await" /\ r # None
      /\ resp' = resp /\ nextID' = nextID /\ net' = net /\ handling' = handling
  BY <1>1, <1>3, Zenon DEF D!DoDone, D!serverVars
<1>5. r = Answer(y)
  BY <1>2, <1>3, <1>4, Zenon DEF Request
<1>6. /\ y.kind \in Kind /\ y.hops <= D!HopLimit(y.kind) /\ y.hops > 0 /\ y.hops \in Nat
      /\ y.sources \in Seq(Auth)
      /\ \A i \in 1 .. Len(y.sources) : Sound(y.sources[i], y, y.hops)
      /\ Sound(y.target, y, y.hops - 1)
  BY <1>2, <1>4, Zenon DEF Steps, IsCall
<1>7. CASE ~ r.redirect
  <2>1. D!Returns(c, D!Result(y.kind, r.claims))
    BY <1>1, <1>3, <1>7, Zenon DEF D!DoDone
  <2>2. y.target \in D!Delegated(y.path, D!MustHaveKeys(y.kind), D!HopLimit(y.kind))
    <3>1. D!HopLimit(y.kind) \in Nat
      BY Zenon DEF D!HopLimit, D!WellFormed
    <3>2. y.hops - 1 \in 0 .. D!HopLimit(y.kind)
      BY <1>6, <3>1
    <3>3. Reached(y.target, y.path, D!MustHaveKeys(y.kind), y.hops - 1, D!HopLimit(y.kind))
      BY <1>6, Zenon DEF Sound
    <3> QED  BY <3>1, <3>2, <3>3, ReachedFacts, Zenon
  <2>3. \E a \in D!Delegated(y.path, D!MustHaveKeys(y.kind), D!HopLimit(y.kind)) :
          LET q == D!Handle(a.server, SubSeq(y.path, Len(a.path) + 1, Len(y.path)), D!MustHaveKeys(y.kind))
          IN q # None /\ ~ q.redirect /\ D!Result(y.kind, r.claims) = D!Result(y.kind, q.claims)
    BY <1>4, <1>5, <1>7, <2>2, Zenon DEF Answer
  <2>4. PICK result : result = D!Result(y.kind, r.claims)
    BY Zenon
  <2>5. \E a \in D!Delegated(call[c].path, D!MustHaveKeys(call[c].kind), D!HopLimit(call[c].kind)) :
          LET q == D!Handle(a.server, SubSeq(call[c].path, Len(a.path) + 1, Len(call[c].path)),
                            D!MustHaveKeys(call[c].kind))
          IN q # None /\ ~ q.redirect /\ result = D!Result(call[c].kind, q.claims)
    BY <1>1, <2>3, <2>4, Zenon
  <2>6. D!Returns(c, result)
    BY <2>1, <2>4, Zenon
  <2> QED  BY <1>4, <2>5, <2>6, ReturnTrusts, Zenon
<1>8. CASE r.redirect /\ ~ D!Valid(D!TrimPrefix(y.path, y.target.path), r.claims)
  <2>1. D!Returns(c, None)
    BY <1>1, <1>3, <1>8, Zenon DEF D!DoDone
  <2> QED  BY <1>4, <2>1, ReturnTrusts, Zenon
<1>9. CASE r.redirect /\ D!Valid(D!TrimPrefix(y.path, y.target.path), r.claims)
  <2>1. PICK next : next = D!Followed(r.claims)
    BY Zenon
  <2>2. PICK auths : auths = [i \in DOMAIN next |-> D!Authority(D!Concat(y.target.path, next[i].path), next[i].target)]
    BY Zenon
  <2>3. PICK s : s = y.sources \o auths
    BY Zenon
  <2>4. PICK x : x = [y EXCEPT !.at = "loop", !.sources = s, !.target = None, !.id = None]
    BY Zenon
  <2>5. D!Becomes(c, x)
    BY <1>1, <1>3, <1>9, <2>1, <2>2, <2>3, <2>4, Zenon DEF D!DoDone
  <2>6. x = [at |-> "loop", path |-> y.path, kind |-> y.kind, sources |-> s, hops |-> y.hops,
             target |-> None, id |-> None, result |-> y.result]
    BY <1>2, <2>4, Zenon DEF IsCall
  <2>7. r.claims \in Seq(Redirect)
    <3>1. y.target.server \in Server
      BY <1>6, Zenon DEF Sound, Auth
    <3> QED  BY <1>4, <1>5, <1>9, <3>1, RedirectsTyped, Zenon DEF Answer
  <2>8. PICK G : G = {e \in D!Range(r.claims) : e.target # Bad}
    BY Zenon
  <2>9. next \in Seq(G)
    BY <2>1, <2>7, <2>8, FollowedOf, Zenon
  <2>10. \A i \in 1 .. Len(next) : next[i] \in D!Range(r.claims) /\ next[i].target # Bad
    BY <2>8, <2>9
  <2>11. PICK n \in Nat : n = Len(next) /\ DOMAIN next = 1 .. n
    BY <2>9
  <2>12. ASSUME NEW i \in 1 .. n PROVE auths[i] \in Auth /\ Sound(auths[i], y, y.hops)
    <3>1. auths[i] = D!Authority(D!Concat(y.target.path, next[i].path), next[i].target)
      BY <2>2, <2>11, Zenon
    <3>2. PICK e \in D!Range(r.claims) : e = next[i] /\ e.target # Bad
      BY <2>10, <2>11, Zenon
    <3> QED  BY <1>2, <1>4, <1>5, <1>9, <3>1, <3>2, RedirectSound, Zenon
  <2>13. auths \in Seq(Auth) /\ Len(auths) = n
    <3>1. auths \in [1 .. n -> Auth]
      BY <2>2, <2>11, <2>12, Zenon
    <3> QED  BY <3>1
  <2>14. PICK k \in Nat : k = Len(y.sources)
    BY <1>6
  <2>15. s \in Seq(Auth) /\ Len(s) = k + n /\ \A i \in 1 .. k + n : s[i] = IF i <= k THEN y.sources[i] ELSE auths[i - k]
    BY <1>6, <2>3, <2>13, <2>14, ConcatProperties, Zenon
  <2>16. ASSUME NEW i \in 1 .. Len(s) PROVE Sound(s[i], x, y.hops)
    <3>1. CASE i <= k
      <4>1. i \in 1 .. Len(y.sources) /\ s[i] = y.sources[i]
        BY <2>14, <2>15, <3>1
      <4>2. Sound(s[i], y, y.hops)
        BY <1>6, <4>1, Zenon
      <4> QED  BY <2>6, <4>2, SoundFor, Zenon
    <3>2. CASE ~ (i <= k)
      <4>1. i - k \in 1 .. n /\ s[i] = auths[i - k]
        BY <2>15, <3>2
      <4>2. Sound(s[i], y, y.hops)
        BY <2>12, <4>1, Zenon
      <4> QED  BY <2>6, <4>2, SoundFor, Zenon
    <3> QED  BY <3>1, <3>2, Zenon
  <2>17. Steps(x) /\ ~ Asks(x)
    <3>1. y.path \in Seq(Elem)
      BY <1>2, Zenon DEF IsCall
    <3>2. IsCall(x)
      BY <1>6, <2>6, <2>15, <3>1, Zenon DEF IsCall
    <3> QED  BY <1>6, <2>6, <2>16, <3>2, Zenon DEF Steps, Asks
  <2> QED  BY <1>4, <2>5, <2>17, CallMoves, Zenon
<1> QED  BY <1>7, <1>8, <1>9, Zenon

\* Servers, the network and the loops that end.
LEMMA ServersTrust ==
  ASSUME Trust,
         \/ \E m : D!ServeReceive(m) \/ D!ServeAnswer(m) \/ D!ServeFails(m) \/ D!Lose(m)
         \/ \E s : D!StopServe(s)
         \/ \E l : D!ReadLoopEnds(l)
         \/ D!CloseNode
  PROVE  Trust'
<1>1. UNCHANGED <<call, resp, nextID>>
  BY Zenon DEF D!ServeReceive, D!ServeAnswer, D!ServeFails, D!Lose, D!StopServe, D!ReadLoopEnds, D!CloseNode, D!clientVars
<1>2. \A m \in handling' : m \in handling \/ (m \in net /\ m.kind = "request")
  BY Zenon DEF D!ServeReceive, D!ServeAnswer, D!ServeFails, D!Lose, D!StopServe, D!ReadLoopEnds, D!CloseNode, D!serverVars
<1>3. \A m \in net' : m \in net \/ \E o \in handling :
           /\ D!Handle(o.server, o.path, o.filter) # None
           /\ m = [kind |-> "response", server |-> o.server, id |-> o.id,
                   response |-> D!Handle(o.server, o.path, o.filter)]
  <2>1. CASE net' \subseteq net
    BY <2>1, Zenon
  <2>2. CASE \E o : D!ServeAnswer(o)
    <3>1. PICK o : D!ServeAnswer(o)
      BY <2>2, Zenon
    <3> QED  BY <3>1, Zenon DEF D!ServeAnswer
  <2> QED  BY <2>1, <2>2, Zenon DEF D!ServeReceive, D!ServeFails, D!Lose, D!StopServe, D!ReadLoopEnds, D!CloseNode
<1> QED  BY <1>1, <1>2, <1>3, MessagesMove, Zenon

\* The resolver only asks, and only answers from, authorities that a chain of
\* redirects from its roots makes responsible for the name.
THEOREM ResolverTrustsTheChain == D!Spec => []ChainOfTrust
<1> DEFINE Inv == D!WellFormed /\ Trust
<1>1. D!Init => Inv
  BY TrustInit, ResolverAssumption, Zenon
<1>2. Inv /\ [D!Next]_(D!vars) => Inv'
  <2> SUFFICES ASSUME D!WellFormed, Trust, [D!Next]_(D!vars) PROVE D!WellFormed' /\ Trust'
    BY Zenon
  <2>1. D!WellFormed'
    BY Zenon DEF D!WellFormed
  <2>2. CASE UNCHANGED D!vars
    <3>1. UNCHANGED <<call, resp, nextID>> /\ net' = net /\ handling' = handling
      BY <2>2, Zenon DEF D!vars
    <3> QED  BY <3>1, MessagesMove, Zenon
  <2>3. CASE D!Next
    <3>1. CASE D!Calm
      <4>1. CASE \E c \in Call : D!CallStep(c)
        BY <4>1, NothingTrusts, DoBeginTrusts, DoSendTrusts, DoDoneTrusts, Zenon DEF D!CallStep
      <4>2. CASE \E c \in Call : \E n \in Name, k \in Kind : D!Begin(c, n, k)
        BY <4>2, BeginTrusts, Zenon
      <4>3. CASE D!ServerStep
        BY <4>3, ServersTrust, Zenon DEF D!ServerStep
      <4>4. CASE D!ReaderStep
        BY <4>4, ServersTrust, ReadTrusts, Zenon DEF D!ReaderStep
      <4>5. CASE \E c \in Call : D!DoFails(c)
        BY <4>5, NothingTrusts, Zenon
      <4> QED  BY <3>1, <4>1, <4>2, <4>3, <4>4, <4>5, Zenon DEF D!Calm
    <3>2. CASE D!CloseNode \/ (\E m \in handling : D!ServeFails(m)) \/ (\E s \in Server : D!StopServe(s)) \/ \E m \in net : D!Lose(m)
      BY <3>2, ServersTrust, Zenon
    <3> QED  BY <2>3, <3>1, <3>2, Zenon DEF D!Next
  <2> QED  BY <2>1, <2>2, <2>3, Zenon
<1>3. Inv => ChainOfTrust
  BY TrustImplies, Zenon DEF ChainOfTrust
<1> QED  BY <1>1, <1>2, <1>3, PTL DEF D!Spec

===============================================================================
