------------------------ MODULE InterleavingsProofs ------------------------
(****************************************************************************)
(* Components whose goroutines share stores, buffers and counts, for any    *)
(* number of peers, calls, readers, connections and backends: central       *)
(* discovery, inet256ipc (I), the stream balancer (B) and local discovery   *)
(* (L).                                                                     *)
(****************************************************************************)
EXTENDS MCInterleavings, Sequences, FiniteSetTheorems, TLAPS

----------------------------------------------------------------------------
(* Central discovery.                                                       *)

\* Something that p has announced.
Said(a, p, s) == a \in Announcement /\ a.signer = p /\ a.endpoint \in s[p]

\* The rest of the types, and every copy of an announcement on its way from the
\* peer to the daemon's store.
DiscoInv ==
  /\ TypeOK
  /\ BookAnnounced
  /\ said \in [Peer -> SUBSET Endpoint]
  /\ DOMAIN m = Peer
  /\ DOMAIN draft = Peer
  /\ round \subseteq Peer
  /\ \A p \in Peer : draft[p] # None => draft[p].endpoint \in Endpoint
  /\ \A a \in calls : Said(a, a.signer, said)
  /\ \A p \in Peer : m[p] # None => Said(m[p], p, said)
  /\ answer # None => /\ answer.target \in Peer
                      /\ answer.found # None => Said(answer.found, answer.target, said)

\* The invariant holds before anything was announced.
LEMMA InitDisco == Init => DiscoInv
BY CentralDiscoAssumption DEF Init, DiscoInv, TypeOK, BookAnnounced, Announcement

\* What has been announced stays so.
LEMMA SaidStays ==
  ASSUME NEW a, NEW p \in Peer, Said(a, p, said), said[p] \subseteq said'[p]
  PROVE  Said(a, p, said')
BY Zenon DEF Said

\* A peer's announcement.
LEMMA SendDisco ==
  ASSUME DiscoInv, NEW p \in Peer, AnnounceSend(p)
  PROVE  DiscoInv'
<1> DEFINE new == [signer |-> p, tai64 |-> clock[p], endpoint |-> draft[p].endpoint]
<1>1. /\ draft[p].endpoint \in Endpoint /\ clock[p] \in 0 .. MaxTime
      /\ draft' = [draft EXCEPT ![p] = None]
      /\ said' = [said EXCEPT ![p] = @ \cup {draft[p].endpoint}]
      /\ UNCHANGED <<clock, local, m, restarts, round, answer, book>>
      /\ calls' = calls \/ calls' = calls \cup {new}
  BY Zenon DEF AnnounceSend, DiscoInv, TypeOK
<1>2. new \in Announcement /\ new.signer = p
  BY <1>1, Zenon DEF Announcement
<1>3. said' \in [Peer -> SUBSET Endpoint] /\ \A q \in Peer : said[q] \subseteq said'[q]
  BY <1>1, Zenon DEF DiscoInv
<1>4. draft[p].endpoint \in said'[p]
  BY <1>1, Zenon DEF DiscoInv
<1>5. Said(new, p, said')
  BY <1>2, <1>4, Zenon DEF Said
<1> HIDE DEF new
<1>6. \A a \in calls' : a \in Announcement /\ Said(a, a.signer, said')
  <2> SUFFICES ASSUME NEW a \in calls' PROVE a \in Announcement /\ Said(a, a.signer, said')
    BY Zenon
  <2>1. CASE a = new
    BY <1>2, <1>5, <2>1, Zenon
  <2>2. CASE a \in calls
    <3>1. a \in Announcement /\ Said(a, a.signer, said)
      BY <2>2, Zenon DEF DiscoInv, TypeOK
    <3>2. a.signer \in Peer
      BY <3>1, Zenon DEF Announcement
    <3> QED BY <1>3, <3>1, <3>2, SaidStays, Zenon
  <2> QED BY <1>1, <2>1, <2>2, Zenon
<1>7. \A q \in Peer : m'[q] # None => Said(m'[q], q, said')
  BY <1>1, <1>3, Zenon DEF DiscoInv, Said
<1>8. answer' # None => /\ answer'.target \in Peer
                        /\ answer'.found # None => Said(answer'.found, answer'.target, said')
  BY <1>1, <1>3, Zenon DEF DiscoInv, Said
<1>9. TypeOK' /\ BookAnnounced'
  BY <1>1, <1>3, <1>6, Zenon DEF DiscoInv, TypeOK, BookAnnounced
<1>10. DOMAIN draft' = Peer /\ \A q \in Peer : draft'[q] # None => draft'[q].endpoint \in Endpoint
  BY <1>1, Zenon DEF DiscoInv
<1> QED BY <1>1, <1>3, <1>6, <1>7, <1>8, <1>9, <1>10, Zenon DEF DiscoInv

\* The server keeps what the signer announced under the signer's address.
LEMMA AnnounceDisco ==
  ASSUME DiscoInv, NEW a \in Announcement, Announce(a)
  PROVE  DiscoInv'
<1>1. /\ a \in calls /\ a.signer \in Peer /\ Said(a, a.signer, said)
      /\ calls' = calls \ {a}
      /\ UNCHANGED <<clock, local, draft, restarts, round, answer, book, said>>
      /\ m' = m \/ m' = [m EXCEPT ![a.signer] = a]
  BY Zenon DEF Announce, DiscoInv, Announcement
<1>2. \A x, q : Said(x, q, said') <=> Said(x, q, said)
  BY <1>1, Zenon
<1>3. \A p \in Peer : m'[p] = m[p] \/ (m'[p] = a /\ p = a.signer)
  BY <1>1, Zenon DEF DiscoInv
<1>4. \A p \in Peer : m'[p] # None => Said(m'[p], p, said)
  BY <1>1, <1>3, Zenon DEF DiscoInv
<1>5. TypeOK'
  <2>1. \A p \in Peer : m'[p] # None => m'[p] \in Announcement /\ m'[p].signer = p
    BY <1>4, Zenon DEF Said
  <2> QED BY <1>1, <2>1, Zenon DEF DiscoInv, TypeOK
<1> QED BY <1>1, <1>2, <1>4, <1>5, Zenon DEF DiscoInv, BookAnnounced

\* The daemon takes the answer into the entry of the peer it asked for.
LEMMA ApplyDisco ==
  ASSUME DiscoInv, Apply
  PROVE  DiscoInv'
<1>1. /\ answer.target \in Peer /\ answer' = None
      /\ UNCHANGED <<clock, local, draft, calls, m, restarts, said>>
      /\ round' \subseteq Peer
  BY Zenon DEF Apply, DiscoInv
<1>2. \A x, q : Said(x, q, said') <=> Said(x, q, said)
  BY <1>1, Zenon
<1>3. answer.found # None => /\ answer.found.endpoint \in Endpoint
                             /\ answer.found.endpoint \in said[answer.target]
  BY <1>1, Zenon DEF DiscoInv, Said, Announcement, Apply
<1> DEFINE new == IF answer.found = None THEN {} ELSE {answer.found.endpoint}
<1>4. book' = book \/ (book' = [book EXCEPT ![answer.target] = new] /\ new \subseteq Endpoint \ Foreign)
  BY <1>3, Zenon DEF Apply
<1>5. new \subseteq said[answer.target]
  BY <1>3, Zenon
<1> HIDE DEF new
<1>6. book' \in [Peer -> SUBSET (Endpoint \ Foreign)] /\ \A p \in Peer : book'[p] \subseteq said[p]
  BY <1>1, <1>4, <1>5, Zenon DEF DiscoInv, TypeOK, BookAnnounced
<1> QED BY <1>1, <1>2, <1>6, Zenon DEF DiscoInv, TypeOK, BookAnnounced

\* The other steps.
LEMMA OtherDisco ==
  ASSUME DiscoInv,
         \/ \E p \in Peer : AnnounceBegin(p) \/ Tick(p) \/ Move(p) \/ Lookup(p)
         \/ Restart \/ RoundBegin \/ LookupFails \/ UNCHANGED vars
  PROVE  DiscoInv'
<1>1. ASSUME UNCHANGED said PROVE \A x, q : Said(x, q, said') <=> Said(x, q, said)
  BY <1>1, Zenon
<1>2. ASSUME NEW p \in Peer, AnnounceBegin(p) PROVE DiscoInv'
  <2>1. \A q \in Peer : draft'[q] # None => draft'[q].endpoint \in Endpoint
    BY <1>2, Zenon DEF AnnounceBegin, DiscoInv, TypeOK
  <2> QED BY <1>1, <1>2, <2>1, Zenon DEF AnnounceBegin, DiscoInv, TypeOK, BookAnnounced
<1>3. ASSUME NEW p \in Peer, Tick(p) PROVE DiscoInv'
  <2>1. clock' \in [Peer -> 0 .. MaxTime]
    BY <1>3, CentralDiscoAssumption DEF Tick, DiscoInv, TypeOK
  <2> QED BY <1>1, <1>3, <2>1, Zenon DEF Tick, DiscoInv, TypeOK, BookAnnounced
<1>4. ASSUME NEW p \in Peer, Move(p) PROVE DiscoInv'
  BY <1>1, <1>4 DEF Move, DiscoInv, TypeOK, BookAnnounced
<1>5. ASSUME NEW p \in Peer, Lookup(p) PROVE DiscoInv'
  <2>1. answer' = [target |-> p, found |-> m[p], life |-> restarts] /\ UNCHANGED <<clock, local, draft, calls, m, restarts, book, said>>
    BY <1>5, Zenon DEF Lookup
  <2>2. answer'.target = p /\ (answer'.found # None => Said(answer'.found, p, said))
    BY <2>1, Zenon DEF DiscoInv
  <2>3. round' \subseteq Peer
    BY <1>5, Zenon DEF Lookup, DiscoInv
  <2> QED BY <1>1, <2>1, <2>2, <2>3, Zenon DEF DiscoInv, TypeOK, BookAnnounced
<1>6. ASSUME Restart PROVE DiscoInv'
  BY <1>1, <1>6, Zenon DEF Restart, DiscoInv, TypeOK, BookAnnounced
<1>7. ASSUME RoundBegin \/ LookupFails PROVE DiscoInv'
  BY <1>1, <1>7, Zenon DEF RoundBegin, LookupFails, DiscoInv, TypeOK, BookAnnounced
<1>8. ASSUME UNCHANGED vars PROVE DiscoInv'
  BY <1>1, <1>8, Zenon DEF vars, DiscoInv, TypeOK, BookAnnounced
<1> QED BY <1>2, <1>3, <1>4, <1>5, <1>6, <1>7, <1>8, Zenon

\* The invariant is inductive.
LEMMA DiscoInvariant == Spec => []DiscoInv
<1>1. DiscoInv /\ [Next]_vars => DiscoInv'
  BY SendDisco, AnnounceDisco, ApplyDisco, OtherDisco, Zenon DEF Next
<1> QED BY <1>1, InitDisco, PTL DEF Spec

\* What the server keeps under an address is signed with its key, and the types
\* are right.
THEOREM SignedUnderAddress == Spec => []TypeOK
<1>1. DiscoInv => TypeOK
  BY Zenon DEF DiscoInv
<1> QED BY <1>1, DiscoInvariant, PTL

\* The daemon's store has only endpoints that the peer itself announced, however
\* calls, restarts, moves and lookups interleave.
THEOREM BookIsAnnounced == Spec => []BookAnnounced
<1>1. DiscoInv => BookAnnounced
  BY Zenon DEF DiscoInv
<1> QED BY <1>1, DiscoInvariant, PTL

\* What lookups can see.
Sights == [life : Nat, stamp : Nat]

\* A sight has its type.
LEMMA SightType ==
  ASSUME NEW l \in Nat, NEW k, k # None => k \in Announcement
  PROVE  Sight(l, k) \in Sights
<1>1. k # None => k.tai64 \in Nat
  BY CentralDiscoAssumption DEF Announcement
<1> QED BY <1>1 DEF Sight, Sights

\* The order of sights is an order.
LEMMA NoLaterOrder ==
  /\ \A a \in Sights : NoLater(a, a)
  /\ \A a, b, c \in Sights : NoLater(a, b) /\ NoLater(b, c) => NoLater(a, c)
BY DEF Sights, NoLater

\* What the server has of a peer, now and in the answer under way, is no earlier than
\* what the daemon's store was last filled with.
SeenInv ==
  /\ restarts \in Nat
  /\ seen \in [Peer -> Sights]
  /\ \A p \in Peer : NoLater(seen[p], Sight(restarts, m[p]))
  /\ answer # None =>
       /\ Sight(answer.life, answer.found) \in Sights
       /\ NoLater(seen[answer.target], Sight(answer.life, answer.found))
       /\ NoLater(Sight(answer.life, answer.found), Sight(restarts, m[answer.target]))

\* The server goes forward, or begins another life.
LEMMA ServerForward ==
  ASSUME DiscoInv, SeenInv, [Next]_vars, NEW p \in Peer
  PROVE  /\ restarts' \in Nat
         /\ Sight(restarts, m[p]) \in Sights /\ Sight(restarts', m'[p]) \in Sights
         /\ NoLater(Sight(restarts, m[p]), Sight(restarts', m'[p]))
<1>0. Sight(restarts, m[p]) \in Sights /\ restarts \in Nat
  BY SightType, Zenon DEF DiscoInv, TypeOK, SeenInv
<1>1. CASE Restart
  <2>1. restarts' = restarts + 1 /\ restarts' \in Nat /\ m'[p] = None
    BY <1>0, <1>1 DEF Restart
  <2>2. Sight(restarts', m'[p]) \in Sights
    BY <2>1, SightType, Zenon
  <2>3. Sight(restarts, m[p]).life = restarts /\ Sight(restarts', m'[p]).life = restarts'
    BY DEF Sight
  <2>4. restarts < restarts'
    BY <1>0, <2>1
  <2> QED BY <1>0, <2>1, <2>2, <2>3, <2>4, Zenon DEF NoLater
<1>2. ASSUME NEW a \in Announcement, Announce(a)
      PROVE  /\ restarts' \in Nat /\ Sight(restarts', m'[p]) \in Sights
             /\ NoLater(Sight(restarts, m[p]), Sight(restarts', m'[p]))
  <2>1. CASE m'[p] = m[p]
    BY <1>0, <1>2, <2>1, NoLaterOrder, Zenon DEF Announce
  <2>2. CASE m'[p] # m[p]
    <3>1. restarts' = restarts /\ m'[p] = a /\ (m[p] = None \/ ~ (a.tai64 <= m[p].tai64))
      BY <1>2, <2>2, Zenon DEF Announce, DiscoInv
    <3>2. a # None
      BY <1>2, InterleavingsAssumption, Zenon
    <3>3. a.tai64 \in Nat /\ (m[p] # None => m[p].tai64 \in Nat)
      BY CentralDiscoAssumption DEF DiscoInv, TypeOK, Announcement
    <3>4. Sight(restarts', m'[p]) \in Sights
      BY <1>0, <3>1, SightType, Zenon
    <3>5. NoLater(Sight(restarts, m[p]), Sight(restarts', m'[p]))
      BY <1>0, <3>1, <3>2, <3>3 DEF NoLater, Sight
    <3> QED BY <1>0, <3>1, <3>4, <3>5, Zenon
  <2> QED BY <2>1, <2>2, Zenon
<1>3. CASE UNCHANGED <<m, restarts>>
  BY <1>0, <1>3, NoLaterOrder, Zenon
<1>4. UNCHANGED <<m, restarts>> \/ Restart \/ \E a \in Announcement : Announce(a)
  BY Zenon DEF Next, vars, AnnounceBegin, AnnounceSend, Tick, Move, Lookup, RoundBegin, LookupFails, Apply
<1> QED BY <1>0, <1>1, <1>2, <1>3, <1>4, Zenon

\* What a step does to the daemon's side.
LEMMA DaemonSteps ==
  ASSUME [Next]_vars
  PROVE  \/ UNCHANGED <<seen, answer>>
         \/ \E p \in Peer : Lookup(p) /\ UNCHANGED <<seen, m, restarts>>
         \/ /\ answer # None /\ answer' = None /\ UNCHANGED <<m, restarts>>
            /\ \/ UNCHANGED seen
               \/ seen' = [seen EXCEPT ![answer.target] = Sight(answer.life, answer.found)]
BY Zenon DEF Next, vars, AnnounceBegin, AnnounceSend, Tick, Move, Lookup, RoundBegin, LookupFails, Apply,
             Announce, Restart

\* The store is filled with what is no earlier, and the invariant is kept.
LEMMA SeenForward ==
  ASSUME DiscoInv, SeenInv, [Next]_vars
  PROVE  SeenInv' /\ \A p \in Peer : NoLater(seen[p], seen'[p])
<1>1. \A p \in Peer : /\ restarts' \in Nat
                      /\ Sight(restarts, m[p]) \in Sights /\ Sight(restarts', m'[p]) \in Sights
                      /\ NoLater(Sight(restarts, m[p]), Sight(restarts', m'[p]))
  BY ServerForward, Zenon
<1>2. answer # None => answer.target \in Peer
  BY Zenon DEF DiscoInv
<1>3. \A p \in Peer : seen[p] \in Sights
  BY Zenon DEF SeenInv
<1>4. restarts' \in Nat
  <2>1. restarts' = restarts \/ restarts' = restarts + 1
    BY Zenon DEF Next, vars, AnnounceBegin, AnnounceSend, Tick, Move, Lookup, RoundBegin, LookupFails,
                 Apply, Announce, Restart
  <2>2. restarts \in Nat
    BY Zenon DEF SeenInv
  <2> QED BY <2>1, <2>2
<1>5. CASE UNCHANGED <<seen, answer>>
  <2>1. \A p \in Peer : NoLater(seen[p], seen'[p]) /\ NoLater(seen'[p], Sight(restarts', m'[p]))
    BY <1>1, <1>3, <1>5, NoLaterOrder, Zenon DEF SeenInv
  <2>2. answer' # None =>
          /\ Sight(answer'.life, answer'.found) \in Sights
          /\ NoLater(seen'[answer'.target], Sight(answer'.life, answer'.found))
          /\ NoLater(Sight(answer'.life, answer'.found), Sight(restarts', m'[answer'.target]))
    <3> SUFFICES ASSUME answer' # None
                 PROVE  /\ Sight(answer'.life, answer'.found) \in Sights
                        /\ NoLater(seen'[answer'.target], Sight(answer'.life, answer'.found))
                        /\ NoLater(Sight(answer'.life, answer'.found), Sight(restarts', m'[answer'.target]))
      BY Zenon
    <3>1. PICK t \in Peer : t = answer.target
      BY <1>2, <1>5, Zenon
    <3>2. PICK g \in Sights : g = Sight(answer.life, answer.found)
      BY <1>5, Zenon DEF SeenInv
    <3>3. NoLater(seen[t], g) /\ NoLater(g, Sight(restarts, m[t]))
      BY <1>5, <3>1, <3>2, Zenon DEF SeenInv
    <3>4. NoLater(g, Sight(restarts', m'[t]))
      BY <1>1, <3>3, NoLaterOrder, Zenon
    <3> QED BY <1>5, <3>1, <3>2, <3>3, <3>4, Zenon
  <2> QED BY <1>4, <1>5, <2>1, <2>2, Zenon DEF SeenInv, Sight
<1>6. ASSUME NEW p \in Peer, Lookup(p), UNCHANGED <<seen, m, restarts>>
      PROVE  SeenInv' /\ \A q \in Peer : NoLater(seen[q], seen'[q])
  <2>1. answer' = [target |-> p, found |-> m[p], life |-> restarts]
    BY <1>6, Zenon DEF Lookup
  <2>2. answer'.target = p /\ answer'.found = m[p] /\ answer'.life = restarts
    BY <2>1, Zenon
  <2>3. Sight(answer'.life, answer'.found) = Sight(restarts, m[p])
    BY <2>2, Zenon
  <2>4. /\ Sight(answer'.life, answer'.found) \in Sights
        /\ NoLater(seen'[answer'.target], Sight(answer'.life, answer'.found))
        /\ NoLater(Sight(answer'.life, answer'.found), Sight(restarts', m'[answer'.target]))
    BY <1>1, <1>6, <2>2, <2>3, NoLaterOrder, Zenon DEF SeenInv
  <2> QED BY <1>3, <1>4, <1>6, <2>4, NoLaterOrder, Zenon DEF SeenInv, Sight
<1>7. ASSUME answer # None, answer' = None, UNCHANGED <<m, restarts>>,
             \/ UNCHANGED seen
             \/ seen' = [seen EXCEPT ![answer.target] = Sight(answer.life, answer.found)]
      PROVE  SeenInv' /\ \A q \in Peer : NoLater(seen[q], seen'[q])
  <2>1. seen' \in [Peer -> Sights]
    BY <1>2, <1>7, Zenon DEF SeenInv
  <2>2. ASSUME NEW q \in Peer
        PROVE  NoLater(seen[q], seen'[q]) /\ NoLater(seen'[q], Sight(restarts', m'[q]))
    <3>1. CASE seen'[q] = seen[q]
      BY <1>3, <1>7, <3>1, NoLaterOrder, Zenon DEF SeenInv
    <3>2. CASE q = answer.target /\ seen'[q] = Sight(answer.life, answer.found)
      BY <1>7, <3>2, Zenon DEF SeenInv
    <3>3. seen'[q] = seen[q] \/ (q = answer.target /\ seen'[q] = Sight(answer.life, answer.found))
      BY <1>7, Zenon DEF SeenInv
    <3> QED BY <3>1, <3>2, <3>3, Zenon
  <2> QED BY <1>4, <1>7, <2>1, <2>2, Zenon DEF SeenInv, Sight
<1> QED BY <1>5, <1>6, <1>7, DaemonSteps, Zenon

\* The daemon's store never goes back to an earlier announcement of a peer within a
\* life of the server, in whatever order announcements arrive and answers are put in.
THEOREM SeenNeverGoesBack == Spec => NeverBack
<1>1. Init => SeenInv
  BY SightType, NoLaterOrder DEF Init, SeenInv
<1>2. DiscoInv /\ SeenInv /\ [Next]_vars => SeenInv' /\ [\A p \in Peer : NoLater(seen[p], seen'[p])]_vars
  BY SeenForward, Zenon
<1> QED BY <1>1, <1>2, DiscoInvariant, PTL DEF Spec, NeverBack

----------------------------------------------------------------------------
(* Local discovery.                                                         *)

\* The messages that peers seal.
Sealed == [from : Peer, addr : Addr]

\* What is on the network, in the buffer of the bus, or in the store, was announced.
LanInv ==
  /\ lanSaid \in [Peer -> SUBSET Addr]
  /\ at \in [Peer -> Addr]
  /\ \A x \in packets \cup {buf} : x \in Sealed => x.addr \in lanSaid[x.from]
  /\ lanBook \in [Peer -> SUBSET Addr]
  /\ L!BookAnnounced

\* Announcing adds to what was announced.
LEMMA LanAnnounce ==
  ASSUME LanInv, NEW p \in Peer, L!PeerAnnounces(p)
  PROVE  LanInv'
<1> USE DEF LanInv, L!PeerAnnounces
<1>1. lanSaid' \in [Peer -> SUBSET Addr] /\ \A q \in Peer : lanSaid[q] \subseteq lanSaid'[q]
  BY Zenon
<1>2. ASSUME NEW x \in packets' \cup {buf'}, x \in Sealed PROVE x.addr \in lanSaid'[x.from]
  <2>1. x.from \in Peer
    BY <1>2, Zenon DEF Sealed
  <2>2. CASE x \in packets \cup {buf}
    BY <1>1, <1>2, <2>1, <2>2, Zenon
  <2>3. CASE x = [from |-> p, addr |-> at[p]]
    BY <2>3, Zenon
  <2> QED
    BY <1>2, <2>2, <2>3, Zenon
<1>3. L!BookAnnounced'
  BY <1>1, Zenon DEF L!BookAnnounced
<1> QED
  BY <1>1, <1>2, <1>3, Zenon

\* Opening a message changes the store for the peer whose seal opens.
LEMMA LanOpen ==
  ASSUME LanInv, L!Open
  PROVE  LanInv'
<1> USE DEF LanInv, L!Open
<1>1. PICK c \in L!Contents : lanBook' = IF c \in Sealed THEN [lanBook EXCEPT ![c.from] = {c.addr}] ELSE lanBook
  BY Zenon DEF Sealed
<1>2. CASE c \notin Sealed
  BY <1>1, <1>2, Zenon DEF L!BookAnnounced
<1>3. CASE c \in Sealed
  <2>1. c = buf
    BY <1>3, InterleavingsAssumption, Zenon DEF L!Contents, Sealed
  <2>2. c.from \in Peer /\ c.addr \in Addr /\ c.addr \in lanSaid[c.from]
    BY <1>3, <2>1, Zenon DEF Sealed
  <2>3. lanBook' \in [Peer -> SUBSET Addr] /\ \A p \in Peer : lanBook'[p] \subseteq lanSaid[p]
    BY <1>1, <1>3, <2>2, Zenon DEF L!BookAnnounced
  <2> QED
    BY <2>3, Zenon DEF L!BookAnnounced
<1> QED
  BY <1>2, <1>3, Zenon

\* LanBookAnnounced: the store holds for a peer only what that peer has announced,
\* although the buffer of the bus may be overwritten between the reading of a
\* packet and its opening.
THEOREM LanBookIsAnnounced == L!Spec => []LanBookAnnounced
<1>1. L!Init => LanInv
  BY InterleavingsAssumption, Zenon DEF L!Init, LanInv, L!BookAnnounced, Sealed
<1>2. LanInv /\ [L!Next]_L!vars => LanInv'
  <2> SUFFICES ASSUME LanInv, [L!Next]_L!vars PROVE LanInv'
    BY Zenon
  <2>1. ASSUME NEW p \in Peer, L!Move(p) PROVE LanInv'
    BY <2>1, Zenon DEF L!Move, LanInv, L!BookAnnounced
  <2>2. CASE L!OtherPacket
    <3>1. PICK x \in [from : Stranger, addr : {None}] \cup {Short} : packets' = packets \cup {x}
      BY <2>2, Zenon DEF L!OtherPacket
    <3>2. x \notin Sealed
      BY <3>1, InterleavingsAssumption, Zenon DEF Sealed
    <3> QED
      BY <2>2, <3>1, <3>2, Zenon DEF L!OtherPacket, LanInv, L!BookAnnounced
  <2>3. CASE L!Announce
    <3>1. [from |-> Self, addr |-> None] \notin Sealed
      BY InterleavingsAssumption, Zenon DEF Sealed
    <3> QED
      BY <2>3, <3>1, Zenon DEF L!Announce, LanInv, L!BookAnnounced
  <2>4. ASSUME NEW x \in L!Packet \cup {Short}, L!Lose(x) \/ L!BusRead(x) PROVE LanInv'
    BY <2>4, Zenon DEF L!Lose, L!BusRead, LanInv, L!BookAnnounced
  <2>5. CASE UNCHANGED <<lanSaid, at, packets, buf, lanBook>>
    BY <2>5, Zenon DEF LanInv, L!BookAnnounced
  <2> QED
    BY <2>1, <2>2, <2>3, <2>4, <2>5, LanAnnounce, LanOpen, Zenon
       DEF L!Next, L!BusFails, L!OpenNil, L!Start, L!Cancel, L!HandlerEnds, L!RunEnds, L!vars
<1>3. LanInv => LanBookAnnounced
  BY Zenon DEF LanInv, LanBookAnnounced
<1> QED
  BY <1>1, <1>2, <1>3, PTL DEF L!Spec

----------------------------------------------------------------------------
(* The stream balancer.                                                     *)

\* The goroutines that use an entry.
Users(e) == {c \in Conn : lbConn[c].best = e /\ lbConn[c].at \in {"dial", "plumb"}}

\* What the goroutine of a connection is at; one that has picked has an entry.
ConnRec ==
  [at : {"none", "pick", "scan", "picked", "dial", "plumb", "done"}, todo : SUBSET Entry,
   best : Entry \cup {None}, min : Int, f : BOOLEAN, b : BOOLEAN,
   endF : {"talks", "fin", "gone"}, endB : {"talks", "fin", "gone"},
   copyF : {"none", "read", "write", "done"}, copyB : {"none", "read", "write", "done"}]

\* The types of the counts and of the connections.
BalancerTypes ==
  /\ backends \in [Backend -> Entry \cup {None}]
  /\ fresh \subseteq Entry
  /\ active \in [Entry -> Int]
  /\ lbConn \in [Conn -> ConnRec]
  /\ \A c \in Conn : lbConn[c].at \in {"picked", "dial", "plumb"} => lbConn[c].best \in Entry

\* The inductive invariant: every count is the number of users of its entry.
BalancerInv ==
  /\ BalancerTypes
  /\ \A e \in Entry : active[e] = Cardinality(Users(e))

\* A goroutine that goes on, its entry unchanged.
LEMMA RecordAt ==
  ASSUME NEW r \in ConnRec, NEW a \in {"none", "pick", "scan", "picked", "dial", "plumb", "done"}
  PROVE  /\ [r EXCEPT !.at = a] \in ConnRec
         /\ [r EXCEPT !.at = a].at = a /\ [r EXCEPT !.at = a].best = r.best
BY Zenon DEF ConnRec

\* A connection that goes on to the entries of s.
LEMMA RecordScans ==
  ASSUME NEW r \in ConnRec, NEW s \in SUBSET Entry
  PROVE  /\ [r EXCEPT !.at = "scan", !.todo = s] \in ConnRec
         /\ [r EXCEPT !.at = "scan", !.todo = s].at = "scan"
BY Zenon DEF ConnRec

\* A connection whose backend was dialled.
LEMMA RecordPlumbs ==
  ASSUME NEW r \in ConnRec,
         NEW q, q = [r EXCEPT !.at = "plumb", !.b = TRUE, !.copyF = "read", !.copyB = "read"]
  PROVE  q \in ConnRec /\ q.at = "plumb" /\ q.best = r.best
BY Zenon DEF ConnRec

\* What an end or a copy changes in the record of a connection.
Copied(r, q) ==
  \/ \E x \in {"fin", "gone"} : q = [r EXCEPT !.endF = x] \/ q = [r EXCEPT !.endB = x]
  \/ \E x \in {"read", "write"} : q = [r EXCEPT !.copyF = x] \/ q = [r EXCEPT !.copyB = x]
  \/ q = [r EXCEPT !.copyF = "done", !.b = FALSE]
  \/ q = [r EXCEPT !.copyB = "done", !.f = FALSE]

\* A connection whose copies of the two directions go on, end or are closed.
LEMMA RecordCopies ==
  ASSUME NEW r \in ConnRec,
         NEW q, Copied(r, q)
  PROVE  q \in ConnRec /\ q.at = r.at /\ q.best = r.best
<1>1. CASE \E x \in {"fin", "gone"} : q = [r EXCEPT !.endF = x] \/ q = [r EXCEPT !.endB = x]
  BY <1>1, Zenon DEF ConnRec
<1>2. CASE \E x \in {"read", "write"} : q = [r EXCEPT !.copyF = x] \/ q = [r EXCEPT !.copyB = x]
  BY <1>2, Zenon DEF ConnRec
<1>3. CASE q = [r EXCEPT !.copyF = "done", !.b = FALSE]
  BY <1>3, Zenon DEF ConnRec
<1>4. CASE q = [r EXCEPT !.copyB = "done", !.f = FALSE]
  BY <1>4, Zenon DEF ConnRec
<1> QED
  BY <1>1, <1>2, <1>3, <1>4, Zenon DEF Copied

\* They are finitely many.
LEMMA UsersFinite ==
  \A e : IsFiniteSet(Users(e)) /\ Cardinality(Users(e)) \in Nat
<1> SUFFICES ASSUME NEW e PROVE IsFiniteSet(Users(e)) /\ Cardinality(Users(e)) \in Nat
  BY Zenon
<1>1. Users(e) \subseteq Conn
  BY Zenon DEF Users
<1>2. IsFiniteSet(Users(e))
  BY <1>1, InterleavingsAssumption, FS_Subset, Zenon
<1> QED
  BY <1>2, FS_CardinalityType, Zenon

\* A step of one goroutine that does not count: it was no user and becomes none, or
\* it was one and goes on with its entry.
LEMMA SameUsers ==
  ASSUME BalancerInv, NEW c \in Conn, NEW r \in ConnRec, B!Set(c, r),
         r.at \in {"picked", "dial", "plumb"} => r.best \in Entry,
         r.at \in {"dial", "plumb"} <=> lbConn[c].at \in {"dial", "plumb"},
         lbConn[c].at \in {"dial", "plumb"} => r.best = lbConn[c].best,
         UNCHANGED <<backends, fresh, active>>
  PROVE  BalancerInv'
<1>1. BalancerTypes'
  BY Zenon DEF BalancerInv, BalancerTypes, B!Set
<1>2. \A d \in Conn : lbConn'[d] = IF d = c THEN r ELSE lbConn[d]
  BY Zenon DEF BalancerInv, BalancerTypes, B!Set
<1>3. \A e \in Entry : Users(e)' = Users(e)
  BY <1>2, Zenon DEF Users
<1> QED
  BY <1>1, <1>3, Zenon DEF BalancerInv

\* One more user.
LEMMA OneUserMore ==
  ASSUME BalancerInv, NEW c \in Conn, B!Count(c)
  PROVE  BalancerInv'
<1>1. PICK e \in Entry : e = lbConn[c].best
  BY Zenon DEF B!Count, BalancerInv, BalancerTypes
<1>2. lbConn[c] \in ConnRec
  BY Zenon DEF BalancerInv, BalancerTypes
<1>3. PICK r \in ConnRec : B!Set(c, r) /\ r.at = "dial" /\ r.best = e
  BY <1>1, <1>2, RecordAt, ZenonT(40) DEF B!Count
<1>4. active' = [active EXCEPT ![e] = active[e] + 1] /\ UNCHANGED <<backends, fresh>>
  BY <1>1, Zenon DEF B!Count
<1>5. \A d \in Conn : lbConn'[d] = IF d = c THEN r ELSE lbConn[d]
  BY <1>3, Zenon DEF BalancerInv, BalancerTypes, B!Set
<1>6. BalancerTypes'
  BY <1>3, <1>4, <1>5 DEF BalancerInv, BalancerTypes, B!Set
<1>7. Users(e)' = Users(e) \cup {c} /\ c \notin Users(e)
  BY <1>3, <1>5, Zenon DEF Users, B!Count
<1>8. \A g \in Entry : g # e => Users(g)' = Users(g)
  BY <1>1, <1>3, <1>5, Zenon DEF Users
<1>9. Cardinality(Users(e)') = Cardinality(Users(e)) + 1
  BY <1>7, UsersFinite, FS_AddElement, Zenon
<1>10. \A g \in Entry : active'[g] = Cardinality(Users(g)')
  BY <1>4, <1>8, <1>9, Zenon DEF BalancerInv, BalancerTypes
<1> QED
  BY <1>6, <1>10, Zenon DEF BalancerInv

\* One user less.
LEMMA OneUserLess ==
  ASSUME BalancerInv, NEW c \in Conn, lbConn[c].at \in {"dial", "plumb"},
         B!Set(c, [lbConn[c] EXCEPT !.at = "done"]),
         active' = [active EXCEPT ![lbConn[c].best] = @ - 1], UNCHANGED <<backends, fresh>>
  PROVE  BalancerInv'
<1>1. PICK e \in Entry : e = lbConn[c].best
  BY Zenon DEF BalancerInv, BalancerTypes
<1>2. lbConn[c] \in ConnRec
  BY Zenon DEF BalancerInv, BalancerTypes
<1>3. PICK r \in ConnRec : B!Set(c, r) /\ r.at = "done"
  BY <1>2, RecordAt, Zenon
<1>4. active' = [active EXCEPT ![e] = active[e] - 1]
  BY <1>1, Zenon
<1>5. \A d \in Conn : lbConn'[d] = IF d = c THEN r ELSE lbConn[d]
  BY <1>3, Zenon DEF BalancerInv, BalancerTypes, B!Set
<1>6. BalancerTypes'
  BY <1>3, <1>4, <1>5 DEF BalancerInv, BalancerTypes, B!Set
<1>7. Users(e)' = Users(e) \ {c} /\ c \in Users(e)
  BY <1>1, <1>3, <1>5, Zenon DEF Users
<1>8. \A g \in Entry : g # e => Users(g)' = Users(g)
  BY <1>1, <1>3, <1>5, Zenon DEF Users
<1>9. Cardinality(Users(e)') = Cardinality(Users(e)) - 1
  <2>1. \A T, x : IsFiniteSet(T) /\ x \in T => Cardinality(T \ {x}) = Cardinality(T) - 1
    BY FS_RemoveElement, Zenon
  <2> QED
    BY <1>7, <2>1, UsersFinite, Zenon
<1>10. \A g \in Entry : active'[g] = Cardinality(Users(g)')
  BY <1>4, <1>8, <1>9, Zenon DEF BalancerInv, BalancerTypes
<1> QED
  BY <1>6, <1>10, Zenon DEF BalancerInv

\* The steps that do not count.
LEMMA ScanKeeps ==
  ASSUME BalancerInv, NEW c \in Conn,
         \/ B!Accept(c) \/ B!PickBegin(c) \/ \E e \in Entry : B!PickNext(c, e)
         \/ B!Remote(c) \/ B!CopyReads(c) \/ B!CopyWrites(c) \/ B!CopyEnds(c)
  PROVE  BalancerInv'
<1>1. lbConn[c] \in ConnRec /\ B!Listed \subseteq Entry
  BY Zenon DEF BalancerInv, BalancerTypes, B!Listed
<1>2. ASSUME B!Accept(c) PROVE BalancerInv'
  <2>1. B!Idle \in ConnRec
    BY DEF B!Idle, ConnRec
  <2>2. PICK r \in ConnRec : B!Set(c, r) /\ r.at = "pick"
    <3>1. \A r \in ConnRec : [r EXCEPT !.at = "pick", !.f = TRUE] \in ConnRec
                             /\ [r EXCEPT !.at = "pick", !.f = TRUE].at = "pick"
      BY Zenon DEF ConnRec
    <3> QED
      BY <1>2, <2>1, <3>1, Zenon DEF B!Accept
  <2>3. lbConn[c].at = "none" /\ UNCHANGED <<backends, fresh, active>>
    BY <1>2, Zenon DEF B!Accept
  <2> QED
    BY <2>2, <2>3, SameUsers, Zenon
<1>3. ASSUME B!PickBegin(c) PROVE BalancerInv'
  <2>1. PICK r \in ConnRec : B!Set(c, r) /\ r.at \in {"done", "scan"}
    <3>1. CASE B!Set(c, [lbConn[c] EXCEPT !.at = "done"])
      BY <1>1, <3>1, RecordAt, Zenon
    <3>2. CASE B!Set(c, [lbConn[c] EXCEPT !.at = "scan", !.todo = B!Listed])
      BY <1>1, <3>2, RecordScans, Zenon
    <3> QED
      BY <1>3, <3>1, <3>2, Zenon DEF B!PickBegin
  <2>2. lbConn[c].at = "pick" /\ UNCHANGED <<backends, fresh, active>>
    BY <1>3, Zenon DEF B!PickBegin
  <2> QED
    BY <2>1, <2>2, SameUsers, Zenon
<1>4. ASSUME NEW e \in Entry, B!PickNext(c, e) PROVE BalancerInv'
  <2>1. lbConn[c].todo \subseteq Entry /\ lbConn[c].best \in Entry \cup {None} /\ lbConn[c].min \in Int
    BY <1>1, Zenon DEF ConnRec
  <2>2. active[e] \in Int
    BY Zenon DEF BalancerInv, BalancerTypes
  <2>3. PICK t \in SUBSET Entry, a \in {"picked", "scan"}, x \in Entry, n \in Int :
          B!Set(c, [lbConn[c] EXCEPT !.todo = t, !.best = x, !.min = n, !.at = a])
    <3>1. PICK t \in SUBSET Entry : t = lbConn[c].todo \ {e}
      BY <2>1, Zenon
    <3>2. PICK a \in {"picked", "scan"} : a = IF t = {} THEN "picked" ELSE "scan"
      BY Zenon
    <3>3. CASE lbConn[c].best = None \/ active[e] < lbConn[c].min
      BY <1>4, <2>2, <3>1, <3>2, <3>3, Zenon DEF B!PickNext
    <3>4. CASE ~ (lbConn[c].best = None \/ active[e] < lbConn[c].min)
      BY <1>4, <2>1, <3>1, <3>2, <3>4, Zenon DEF B!PickNext
    <3> QED
      BY <3>3, <3>4, Zenon
  <2>4. PICK r \in ConnRec : B!Set(c, r) /\ r.at = a /\ r.best \in Entry
    <3>1. PICK s \in ConnRec : s = lbConn[c]
      BY <1>1, Zenon
    <3>2. PICK q : q = [s EXCEPT !.todo = t, !.best = x, !.min = n, !.at = a]
      BY Zenon
    <3>3. s \in ConnRec
      BY <3>1, Zenon
    <3>4. t \in SUBSET Entry /\ a \in {"picked", "scan"} /\ x \in Entry /\ n \in Int
      BY <2>3, Zenon
    <3>5. q \in ConnRec /\ q.at = a /\ q.best = x
      BY <3>2, <3>3, <3>4, Zenon DEF ConnRec
    <3> QED
      BY <2>3, <3>1, <3>2, <3>5, Zenon
  <2>5. lbConn[c].at = "scan" /\ UNCHANGED <<backends, fresh, active>>
    BY <1>4, Zenon DEF B!PickNext
  <2> QED
    BY <2>4, <2>5, SameUsers, Zenon
<1>5. ASSUME B!Remote(c) \/ B!CopyReads(c) \/ B!CopyWrites(c) \/ B!CopyEnds(c) PROVE BalancerInv'
  <2>1. PICK r \in ConnRec : B!Set(c, r) /\ r.at = lbConn[c].at /\ r.best = lbConn[c].best
    <3>1. PICK r : B!Set(c, r) /\ Copied(lbConn[c], r)
      <4>1. CASE B!Remote(c)
        BY <4>1, Zenon DEF B!Remote, Copied
      <4>2. CASE B!CopyReads(c) \/ B!CopyWrites(c)
        BY <4>2, Zenon DEF B!CopyReads, B!CopyWrites, Copied
      <4>3. CASE B!CopyEnds(c)
        BY <4>3, Zenon DEF B!CopyEnds, Copied
      <4> QED
        BY <1>5, <4>1, <4>2, <4>3, Zenon
    <3> QED
      BY <1>1, <3>1, RecordCopies, Zenon
  <2>2. UNCHANGED <<backends, fresh, active>>
    BY <1>5, Zenon DEF B!Remote, B!CopyReads, B!CopyWrites, B!CopyEnds
  <2>3. r.at \in {"picked", "dial", "plumb"} => r.best \in Entry
    BY <2>1, Zenon DEF BalancerInv, BalancerTypes
  <2> QED
    BY <2>1, <2>2, <2>3, SameUsers, Zenon
<1> QED
  BY <1>2, <1>3, <1>4, <1>5, Zenon

\* Every step keeps the counts.
LEMMA BalancerStep == BalancerInv /\ [B!Next]_B!vars => BalancerInv'
<1> SUFFICES ASSUME BalancerInv, [B!Next]_B!vars PROVE BalancerInv'
  BY Zenon
<1>1. ASSUME UNCHANGED <<active, lbConn>>, backends' \in [Backend -> Entry \cup {None}], fresh' \subseteq Entry
      PROVE  BalancerInv'
  BY <1>1, Zenon DEF BalancerInv, BalancerTypes, Users
<1>2. ASSUME NEW k \in Backend, B!AddBackend(k) \/ B!RemoveBackend(k) PROVE BalancerInv'
  BY <1>1, <1>2, Zenon DEF B!AddBackend, B!RemoveBackend, BalancerInv, BalancerTypes
<1>3. ASSUME NEW c \in Conn, B!Dial(c) PROVE BalancerInv'
  <2>1. CASE /\ B!Set(c, [lbConn[c] EXCEPT !.at = "plumb", !.b = TRUE, !.copyF = "read", !.copyB = "read"])
             /\ UNCHANGED active
    <3>1. lbConn[c] \in ConnRec /\ lbConn[c].at = "dial" /\ lbConn[c].best \in Entry
      BY <1>3, Zenon DEF B!Dial, BalancerInv, BalancerTypes
    <3>2. PICK r \in ConnRec : B!Set(c, r) /\ r.at = "plumb" /\ r.best = lbConn[c].best
      BY <2>1, <3>1, RecordPlumbs, Zenon
    <3>3. UNCHANGED <<backends, fresh, active>>
      BY <1>3, <2>1, Zenon DEF B!Dial
    <3> QED
      BY <3>1, <3>2, <3>3, SameUsers, Zenon
  <2>2. CASE /\ B!Set(c, [lbConn[c] EXCEPT !.at = "done"])
             /\ active' = [active EXCEPT ![lbConn[c].best] = @ - 1]
    BY <1>3, <2>2, OneUserLess, Zenon DEF B!Dial
  <2> QED
    BY <1>3, <2>1, <2>2, Zenon DEF B!Dial
<1>4. ASSUME NEW c \in Conn, B!PlumbReturns(c) PROVE BalancerInv'
  BY <1>4, OneUserLess, Zenon DEF B!PlumbReturns
<1>5. CASE B!ListenerCloses \/ B!ServeReturns \/ UNCHANGED B!vars
  BY <1>1, <1>5, Zenon DEF B!ListenerCloses, B!ServeReturns, B!vars, BalancerInv, BalancerTypes
<1> QED
  BY <1>2, <1>3, <1>4, <1>5, ScanKeeps, OneUserMore, Zenon DEF B!Next

\* CountsExact: the count of each backend is the number of goroutines that use it,
\* whatever fails, although backends are removed and added again under the same
\* name and the counts are read while others change them.
THEOREM CountsAreExact == B!Spec => []CountsExact
<1>1. B!Init => BalancerInv
  <2> SUFFICES ASSUME B!Init PROVE BalancerInv
    BY Zenon
  <2>1. B!Idle \in ConnRec /\ B!Idle.at = "none"
    BY DEF B!Idle, ConnRec
  <2>2. BalancerTypes
    BY <2>1 DEF B!Init, BalancerTypes
  <2>3. \A e \in Entry : Users(e) = {} /\ active[e] = 0
    BY <2>1, Zenon DEF B!Init, Users
  <2> QED
    BY <2>2, <2>3, FS_EmptySet, Zenon DEF BalancerInv
<1>2. BalancerInv => CountsExact
  <2>1. ASSUME NEW T PROVE B!Cardinality(T) = Cardinality(T)
    BY Zenon DEF B!Cardinality, Cardinality
  <2> QED
    BY <2>1, Zenon DEF BalancerInv, Users, CountsExact, B!CountsExact
<1> QED
  BY <1>1, <1>2, BalancerStep, PTL DEF B!Spec


----------------------------------------------------------------------------
(* inet256ipc.                                                              *)

\* The frames of a connection.
IpcFrame ==
  {f \in [type : {"req", "plain", "data", "keepalive", "ok", "error"}, id : Call \cup {None}] :
     f.type = "req" => f.id \in Call}

\* The frames with request q.
Asking(q) == {f \in IpcFrame : f.type = "req" /\ f.id = q}

\* The frames that have the id of q: the request and its answers.
Answering(q) == {f \in IpcFrame : f.id = q}

\* The places of s that hold a frame of G.
Places(s, G) == {i \in 1 .. Len(s) : s[i] \in G}

\* S has one element at most.
AtMostOne(S) == \A x, y \in S : x = y

\* What Append and Tail do to the places.
LEMMA AppendPlaces ==
  ASSUME NEW T, NEW s \in Seq(T), NEW e \in T, NEW G
  PROVE  /\ Append(s, e) \in Seq(T)
         /\ e \notin G => Places(Append(s, e), G) = Places(s, G)
         /\ Places(s, G) = {} => AtMostOne(Places(Append(s, e), G))
<1>1. /\ Append(s, e) \in Seq(T) /\ Len(Append(s, e)) = Len(s) + 1 /\ Len(s) \in Nat
      /\ \A n \in 1 .. Len(s) : Append(s, e)[n] = s[n]
      /\ Append(s, e)[Len(s) + 1] = e
  OBVIOUS
<1>2. \A n \in 1 .. Len(s) + 1 : n \in 1 .. Len(s) \/ n = Len(s) + 1
  BY <1>1
<1>3. \A n : n \in 1 .. Len(s) => n \in 1 .. Len(s) + 1
  BY <1>1
<1> QED
  BY <1>1, <1>2, <1>3, Zenon DEF Places, AtMostOne

\* Where the frames of G are after the first of a stream is read.
LEMMA TailPlaces ==
  ASSUME NEW T, NEW s \in Seq(T), s # <<>>, NEW G
  PROVE  /\ Tail(s) \in Seq(T) /\ Head(s) \in T
         /\ Head(s) \in G => Places(s, G) # {}
         /\ Places(s, G) = {} => Places(Tail(s), G) = {}
         /\ AtMostOne(Places(s, G)) => AtMostOne(Places(Tail(s), G))
         /\ AtMostOne(Places(s, G)) /\ Head(s) \in G => Places(Tail(s), G) = {}
<1>1. /\ Tail(s) \in Seq(T) /\ Len(Tail(s)) = Len(s) - 1 /\ Len(s) \in Nat \ {0}
      /\ Head(s) = s[1] /\ Head(s) \in T
      /\ \A n \in 1 .. Len(s) - 1 : Tail(s)[n] = s[n + 1]
  OBVIOUS
<1>2. \A n \in 1 .. Len(Tail(s)) : n + 1 \in 1 .. Len(s) /\ n + 1 # 1
  BY <1>1
<1>3. \A n \in Places(Tail(s), G) : n + 1 \in Places(s, G) /\ n + 1 # 1 /\ n \in Nat
  BY <1>1, <1>2 DEF Places
<1>4. Head(s) \in G => 1 \in Places(s, G)
  BY <1>1 DEF Places
<1> QED
  BY <1>1, <1>3, <1>4 DEF AtMostOne

\* A request is in one place at most: with the frames that ask, with its goroutine
\* (asks), or with the frames that answer.  It is in none before it is sent and
\* once the future has its value.
Once(q) ==
  LET out == Places(c2s, Asking(q))
      back == Places(s2c, Answering(q))
  IN /\ AtMostOne(out) /\ AtMostOne(back)
     /\ out # {} => back = {}
     /\ asks[q] # None => out = {} /\ back = {}
     /\ call[q] \in {"idle", "send"} => promise[q] = None
     /\ call[q] \in {"idle", "send"} \/ promise[q] # None
          => out = {} /\ back = {} /\ asks[q] = None

\* The types, and the stores of futures.
IpcTypes ==
  /\ c2s \in Seq(IpcFrame) /\ s2c \in Seq(IpcFrame)
  /\ asks \in [Call -> {None, "work", "ok", "error"}]
  /\ call \in [Call -> {"idle", "send", "wait", "done"}]
  /\ promise \in [Call -> {None, "ok", "error"}]
  /\ I!StoreExact

\* The inductive invariant.
IpcInv == IpcTypes /\ \A q \in Call : Once(q)

\* A call whose frames, goroutine and future stay as they are.
LEMMA OnceStays ==
  ASSUME NEW q \in Call, Once(q),
         Places(c2s, Asking(q))' = Places(c2s, Asking(q)),
         Places(s2c, Answering(q))' = Places(s2c, Answering(q)),
         asks'[q] = asks[q], call'[q] = call[q], promise'[q] = promise[q]
  PROVE  Once(q)'
BY Zenon DEF Once

\* Frames of the connection.
LEMMA FramesTyped ==
  /\ \A q \in Call, t \in {"req", "ok", "error"} :
       /\ I!Frame(t, q) \in IpcFrame
       /\ \A p \in Call : p # q => I!Frame(t, q) \notin Asking(p) \cup Answering(p)
       /\ \A p : t # "req" => I!Frame(t, q) \notin Asking(p)
  /\ \A t \in {"plain", "data", "keepalive"} :
       /\ I!Frame(t, None) \in IpcFrame
       /\ \A q \in Call : I!Frame(t, None) \notin Asking(q) \cup Answering(q)
BY InterleavingsAssumption, Zenon DEF I!Frame, IpcFrame, Asking, Answering

\* Steps that touch no request.
LEMMA IpcRests ==
  ASSUME IpcInv, UNCHANGED <<c2s, s2c, asks, call, promise, store>>
  PROVE  IpcInv'
<1>1. IpcTypes'
  BY Zenon DEF IpcInv, IpcTypes, I!StoreExact
<1>2. \A q \in Call : Once(q)'
  BY Zenon DEF IpcInv, Once
<1> QED
  BY <1>1, <1>2, Zenon DEF IpcInv

\* Data and keepalives, in both directions.
LEMMA IpcCarries ==
  ASSUME IpcInv, NEW t \in {"plain", "data", "keepalive"},
         \/ c2s' = Append(c2s, I!Frame(t, None)) /\ s2c' = s2c
         \/ s2c' = Append(s2c, I!Frame(t, None)) /\ c2s' = c2s,
         UNCHANGED <<asks, call, promise, store>>
  PROVE  IpcInv'
<1>1. PICK f \in IpcFrame :
        /\ f = I!Frame(t, None)
        /\ \A q \in Call : f \notin Asking(q) \cup Answering(q)
  BY FramesTyped, Zenon
<1>2. c2s \in Seq(IpcFrame) /\ s2c \in Seq(IpcFrame)
  BY Zenon DEF IpcInv, IpcTypes
<1>3. c2s' \in Seq(IpcFrame) /\ s2c' \in Seq(IpcFrame)
  BY <1>1, <1>2, AppendPlaces, Zenon
<1>4. ASSUME NEW q \in Call
      PROVE  /\ Places(c2s', Asking(q)) = Places(c2s, Asking(q))
             /\ Places(s2c', Answering(q)) = Places(s2c, Answering(q))
  <2>1. f \notin Asking(q) /\ f \notin Answering(q)
    BY <1>1, Zenon
  <2>2. /\ Places(Append(c2s, f), Asking(q)) = Places(c2s, Asking(q))
        /\ Places(Append(s2c, f), Answering(q)) = Places(s2c, Answering(q))
    BY <1>2, <2>1, AppendPlaces
  <2> QED
    BY <1>1, <2>2, Zenon
<1>5. IpcTypes'
  BY <1>3, Zenon DEF IpcInv, IpcTypes, I!StoreExact
<1>6. ASSUME NEW q \in Call PROVE Once(q)'
  BY <1>4, OnceStays, Zenon DEF IpcInv
<1> QED
  BY <1>5, <1>6, Zenon DEF IpcInv

\* ServeNode reads a frame: a request passes to its goroutine.
LEMMA IpcReads ==
  ASSUME IpcInv, I!ReadFrame
  PROVE  IpcInv'
<1>1. /\ c2s # <<>> /\ c2s' = Tail(c2s)
      /\ UNCHANGED <<s2c, call, promise, store>>
      /\ asks' = IF Head(c2s).type = "req" THEN [asks EXCEPT ![Head(c2s).id] = "work"] ELSE asks
  BY Zenon DEF I!ReadFrame, I!ServerReads, I!callVars
<1>2. c2s \in Seq(IpcFrame) /\ asks \in [Call -> {None, "work", "ok", "error"}]
  BY Zenon DEF IpcInv, IpcTypes
<1>3. PICK frame \in IpcFrame : frame = Head(c2s)
  BY <1>1, <1>2, TailPlaces, Zenon
<1>4. c2s' \in Seq(IpcFrame)
  BY <1>1, <1>2, TailPlaces, Zenon
<1>5. frame.type = "req" => frame.id \in Call /\ frame \in Asking(frame.id)
  BY Zenon DEF IpcFrame, Asking
<1>6. asks' \in [Call -> {None, "work", "ok", "error"}]
  BY <1>1, <1>2, <1>3, <1>5, Zenon
<1>7. IpcTypes'
  BY <1>1, <1>4, <1>6, Zenon DEF IpcInv, IpcTypes, I!StoreExact
<1>8. ASSUME NEW q \in Call PROVE Once(q)'
  <2>1. /\ Places(c2s, Asking(q)) = {} => Places(c2s', Asking(q)) = {}
        /\ AtMostOne(Places(c2s, Asking(q))) => AtMostOne(Places(c2s', Asking(q)))
        /\ frame \in Asking(q) => Places(c2s, Asking(q)) # {}
        /\ AtMostOne(Places(c2s, Asking(q))) /\ frame \in Asking(q) => Places(c2s', Asking(q)) = {}
    BY <1>1, <1>2, <1>3, TailPlaces, Zenon
  <2>2. Places(s2c', Answering(q)) = Places(s2c, Answering(q))
    BY <1>1, Zenon
  <2>3. asks'[q] = asks[q] \/ frame \in Asking(q)
    BY <1>1, <1>2, <1>3, <1>5, Zenon
  <2>4. Once(q) /\ call'[q] = call[q] /\ promise'[q] = promise[q]
    BY <1>1, Zenon DEF IpcInv
  <2> QED
    BY <2>1, <2>2, <2>3, <2>4, Zenon DEF Once
<1> QED
  BY <1>7, <1>8, Zenon DEF IpcInv

\* The goroutine of a request has its answer, which is still not sent.
LEMMA IpcAnswers ==
  ASSUME IpcInv, NEW q \in Call, I!Answer(q)
  PROVE  IpcInv'
<1>1. /\ asks[q] = "work" /\ UNCHANGED <<c2s, s2c, call, promise, store>>
      /\ \E v \in {"ok", "error"} : asks' = [asks EXCEPT ![q] = v]
  BY Zenon DEF I!Answer, I!callVars
<1>2. asks \in [Call -> {None, "work", "ok", "error"}]
  BY Zenon DEF IpcInv, IpcTypes
<1>3. asks[q] # None
  BY <1>1, InterleavingsAssumption, Zenon
<1>4. IpcTypes'
  BY <1>1, <1>2, Zenon DEF IpcInv, IpcTypes, I!StoreExact
<1>5. ASSUME NEW p \in Call PROVE Once(p)'
  <2>1. /\ Places(c2s', Asking(p)) = Places(c2s, Asking(p))
        /\ Places(s2c', Answering(p)) = Places(s2c, Answering(p))
        /\ call'[p] = call[p] /\ promise'[p] = promise[p]
    BY <1>1, Zenon
  <2>2. asks'[p] = asks[p] \/ asks[p] # None
    BY <1>1, <1>2, <1>3, Zenon
  <2>3. Once(p)
    BY Zenon DEF IpcInv
  <2> QED
    BY <2>1, <2>2, <2>3, Zenon DEF Once
<1> QED
  BY <1>4, <1>5, Zenon DEF IpcInv

\* The response leaves, or cannot be written; the goroutine ends.
LEMMA IpcResponds ==
  ASSUME IpcInv, NEW q \in Call, I!Respond(q)
  PROVE  IpcInv'
<1>1. /\ asks[q] \in {"ok", "error"} /\ UNCHANGED <<c2s, call, promise, store>>
      /\ asks' = [asks EXCEPT ![q] = None]
      /\ s2c' = Append(s2c, I!Frame(asks[q], q)) \/ s2c' = s2c
  BY Zenon DEF I!Respond, I!callVars
<1>2. s2c \in Seq(IpcFrame) /\ asks \in [Call -> {None, "work", "ok", "error"}]
  BY Zenon DEF IpcInv, IpcTypes
<1>3. asks[q] # None
  BY <1>1, InterleavingsAssumption, Zenon
<1>4. PICK f \in IpcFrame :
        /\ f = I!Frame(asks[q], q)
        /\ \A p \in Call : p # q => f \notin Answering(p)
  BY <1>1, FramesTyped
<1>5. s2c' \in Seq(IpcFrame)
  BY <1>1, <1>2, <1>4, AppendPlaces, Zenon
<1>6. IpcTypes'
  BY <1>1, <1>2, <1>5, Zenon DEF IpcInv, IpcTypes, I!StoreExact
<1>7. ASSUME NEW p \in Call, p # q PROVE Once(p)'
  <2>1. Places(s2c', Answering(p)) = Places(s2c, Answering(p))
    <3>1. f \notin Answering(p)
      BY <1>4, <1>7, Zenon
    <3>2. Places(Append(s2c, f), Answering(p)) = Places(s2c, Answering(p))
      BY <1>2, <3>1, AppendPlaces
    <3> QED
      BY <1>1, <1>4, <3>2, Zenon
  <2>2. /\ Places(c2s', Asking(p)) = Places(c2s, Asking(p))
        /\ asks'[p] = asks[p] /\ call'[p] = call[p] /\ promise'[p] = promise[p]
    BY <1>1, <1>2, <1>7, Zenon
  <2> QED
    BY <2>1, <2>2, OnceStays, Zenon DEF IpcInv
<1>8. Once(q)'
  <2>1. Places(s2c, Answering(q)) = {} => AtMostOne(Places(s2c', Answering(q)))
    <3>1. Places(s2c, Answering(q)) = {} => AtMostOne(Places(Append(s2c, f), Answering(q)))
      BY <1>2, AppendPlaces, Zenon
    <3>2. Places(s2c, Answering(q)) = {} => AtMostOne(Places(s2c, Answering(q)))
      BY Zenon DEF AtMostOne
    <3> QED
      BY <1>1, <1>4, <3>1, <3>2, Zenon
  <2>2. /\ Places(c2s', Asking(q)) = Places(c2s, Asking(q))
        /\ asks'[q] = None /\ call'[q] = call[q] /\ promise'[q] = promise[q]
    BY <1>1, <1>2, Zenon
  <2>3. Once(q)
    BY Zenon DEF IpcInv
  <2> QED
    BY <1>3, <2>1, <2>2, <2>3, Zenon DEF Once
<1> QED
  BY <1>6, <1>7, <1>8, Zenon DEF IpcInv

\* A read loop of the client takes a frame; a response gives its future a value.
LEMMA IpcTakes ==
  ASSUME IpcInv, NEW r \in Reader, I!ReaderTakes(r)
  PROVE  IpcInv'
<1>1. /\ s2c # <<>> /\ s2c' = Tail(s2c)
      /\ UNCHANGED <<c2s, asks, call, store>>
      /\ promise' = IF Head(s2c).type \in {"ok", "error"} /\ Head(s2c).id \in store /\ promise[Head(s2c).id] = None
                    THEN [promise EXCEPT ![Head(s2c).id] = Head(s2c).type] ELSE promise
  BY Zenon DEF I!ReaderTakes, I!ClientReads, I!srvVars
<1>2. s2c \in Seq(IpcFrame) /\ promise \in [Call -> {None, "ok", "error"}] /\ store \subseteq Call
  BY Zenon DEF IpcInv, IpcTypes, I!StoreExact
<1>3. PICK frame \in IpcFrame : frame = Head(s2c)
  BY <1>1, <1>2, TailPlaces, Zenon
<1>4. s2c' \in Seq(IpcFrame)
  BY <1>1, <1>2, TailPlaces, Zenon
<1>5. promise' \in [Call -> {None, "ok", "error"}]
  BY <1>1, <1>2, <1>3, Zenon
<1>6. IpcTypes'
  BY <1>1, <1>4, <1>5, Zenon DEF IpcInv, IpcTypes, I!StoreExact
<1>7. ASSUME NEW q \in Call PROVE Once(q)'
  <2>1. /\ Places(s2c, Answering(q)) = {} => Places(s2c', Answering(q)) = {}
        /\ AtMostOne(Places(s2c, Answering(q))) => AtMostOne(Places(s2c', Answering(q)))
        /\ frame \in Answering(q) => Places(s2c, Answering(q)) # {}
        /\ AtMostOne(Places(s2c, Answering(q))) /\ frame \in Answering(q)
             => Places(s2c', Answering(q)) = {}
    BY <1>1, <1>2, <1>3, TailPlaces, Zenon
  <2>2. Places(c2s', Asking(q)) = Places(c2s, Asking(q))
    BY <1>1, Zenon
  <2>3. promise'[q] = promise[q] \/ frame \in Answering(q)
    <3>1. frame \in IpcFrame /\ (frame.id = q => frame \in Answering(q))
      BY Zenon DEF Answering
    <3> QED
      BY <1>1, <1>2, <1>3, <3>1, Zenon
  <2>4. Once(q) /\ call'[q] = call[q] /\ asks'[q] = asks[q]
    BY <1>1, Zenon DEF IpcInv
  <2> QED
    BY <2>1, <2>2, <2>3, <2>4, Zenon DEF Once
<1> QED
  BY <1>6, <1>7, Zenon DEF IpcInv

\* A call puts its future into the store.
LEMMA IpcBegins ==
  ASSUME IpcInv, NEW q \in Call, I!Begin(q)
  PROVE  IpcInv'
<1>1. /\ call[q] = "idle" /\ call' = [call EXCEPT ![q] = "send"]
      /\ store' = store \cup {q} /\ UNCHANGED <<c2s, s2c, asks, promise>>
  BY Zenon DEF I!Begin, I!srvVars
<1>2. call \in [Call -> {"idle", "send", "wait", "done"}]
  BY Zenon DEF IpcInv, IpcTypes
<1>3. IpcTypes'
  BY <1>1, <1>2, Zenon DEF IpcInv, IpcTypes, I!StoreExact
<1>4. ASSUME NEW p \in Call PROVE Once(p)'
  <2>1. /\ Places(c2s', Asking(p)) = Places(c2s, Asking(p))
        /\ Places(s2c', Answering(p)) = Places(s2c, Answering(p))
        /\ asks'[p] = asks[p] /\ promise'[p] = promise[p]
    BY <1>1, Zenon
  <2>2. call'[p] \in {"idle", "send"} => call[p] \in {"idle", "send"}
    BY <1>1, <1>2, Zenon
  <2>3. Once(p)
    BY Zenon DEF IpcInv
  <2> QED
    BY <2>1, <2>2, <2>3, Zenon DEF Once
<1> QED
  BY <1>3, <1>4, Zenon DEF IpcInv

\* A call that returns: its request may be anywhere, and its future is forgotten.
LEMMA IpcReturns ==
  ASSUME IpcInv, NEW q \in Call, call[q] \in {"send", "wait"}, I!Return(q),
         UNCHANGED <<c2s, s2c, asks, promise>>
  PROVE  IpcInv'
<1>1. call' = [call EXCEPT ![q] = "done"] /\ store' = store \ {q}
  BY Zenon DEF I!Return
<1>2. call \in [Call -> {"idle", "send", "wait", "done"}]
  BY Zenon DEF IpcInv, IpcTypes
<1>3. IpcTypes'
  BY <1>1, <1>2, Zenon DEF IpcInv, IpcTypes, I!StoreExact
<1>4. ASSUME NEW p \in Call PROVE Once(p)'
  <2>1. /\ Places(c2s', Asking(p)) = Places(c2s, Asking(p))
        /\ Places(s2c', Answering(p)) = Places(s2c, Answering(p))
        /\ asks'[p] = asks[p] /\ promise'[p] = promise[p]
    BY Zenon
  <2>2. call'[p] \in {"idle", "send"} => call[p] \in {"idle", "send"}
    BY <1>1, <1>2, Zenon
  <2>3. Once(p)
    BY Zenon DEF IpcInv
  <2> QED
    BY <2>1, <2>2, <2>3, Zenon DEF Once
<1> QED
  BY <1>3, <1>4, Zenon DEF IpcInv

\* The request is written, and the call waits.
LEMMA IpcRequests ==
  ASSUME IpcInv, NEW q \in Call, call[q] = "send",
         c2s' = Append(c2s, I!Frame("req", q)), call' = [call EXCEPT ![q] = "wait"],
         UNCHANGED <<s2c, asks, promise, store>>
  PROVE  IpcInv'
<1>1. c2s \in Seq(IpcFrame) /\ call \in [Call -> {"idle", "send", "wait", "done"}]
  BY Zenon DEF IpcInv, IpcTypes
<1>2. PICK f \in IpcFrame :
        f = I!Frame("req", q) /\ \A p \in Call : p # q => f \notin Asking(p)
  BY FramesTyped, Zenon
<1>3. c2s' \in Seq(IpcFrame)
  BY <1>1, <1>2, AppendPlaces, Zenon
<1>4. IpcTypes'
  BY <1>1, <1>3, Zenon DEF IpcInv, IpcTypes, I!StoreExact
<1>5. ASSUME NEW p \in Call, p # q PROVE Once(p)'
  <2>1. Places(c2s', Asking(p)) = Places(c2s, Asking(p))
    BY <1>1, <1>2, <1>5, AppendPlaces
  <2>2. /\ Places(s2c', Answering(p)) = Places(s2c, Answering(p))
        /\ asks'[p] = asks[p] /\ call'[p] = call[p] /\ promise'[p] = promise[p]
    BY <1>1, <1>5, Zenon
  <2> QED
    BY <2>1, <2>2, OnceStays, Zenon DEF IpcInv
<1>6. Once(q)'
  <2>1. Places(c2s, Asking(q)) = {} => AtMostOne(Places(c2s', Asking(q)))
    BY <1>1, <1>2, AppendPlaces, Zenon
  <2>2. /\ Places(s2c', Answering(q)) = Places(s2c, Answering(q))
        /\ asks'[q] = asks[q] /\ call'[q] = "wait" /\ promise'[q] = promise[q]
    BY <1>1, Zenon
  <2>3. Once(q)
    BY Zenon DEF IpcInv
  <2> QED
    BY <2>1, <2>2, <2>3, Zenon DEF Once
<1> QED
  BY <1>4, <1>5, <1>6, Zenon DEF IpcInv

\* Every step of the two ends keeps the invariant.
LEMMA IpcStep == IpcInv /\ [I!Next]_I!vars => IpcInv'
<1> SUFFICES ASSUME IpcInv, [I!Next]_I!vars PROVE IpcInv'
  BY Zenon
<1>1. CASE I!Server
  <2>1. CASE I!ReadFails \/ I!NodeReceive \/ I!KeepAliveWait \/ I!Watchdog \/ I!ServeReturns
    BY <2>1, IpcRests, Zenon
       DEF I!ReadFails, I!NodeReceive, I!KeepAliveWait, I!Watchdog, I!ServeReturns, I!callVars
  <2>2. ASSUME NEW l, NEW t \in {"data", "keepalive"}, I!LoopSends(l, t) PROVE IpcInv'
    BY <2>2, IpcRests, IpcCarries, Zenon DEF I!LoopSends, I!callVars
  <2> QED
    BY <1>1, <2>1, <2>2, IpcReads, Zenon DEF I!Server
<1>2. CASE I!Client
  BY <1>2, IpcRests, IpcCarries, Zenon
     DEF I!Client, I!ClientKeepAlive, I!ClientSend, I!Close, I!CloseReturns, I!srvVars, I!callVars
<1>3. CASE I!CancelServe \/ I!DropNode \/ I!Cut \/ UNCHANGED I!vars
  BY <1>3, IpcRests, Zenon DEF I!CancelServe, I!DropNode, I!Cut, I!vars, I!srvVars, I!callVars
<1>4. ASSUME NEW q \in Call, I!Request(q) PROVE IpcInv'
  BY <1>4, IpcRequests, IpcReturns DEF I!Request, I!srvVars
<1>5. ASSUME NEW q \in Call, I!Await(q) \/ I!Cancel(q) PROVE IpcInv'
  BY <1>5, IpcReturns DEF I!Await, I!Cancel, I!srvVars
<1>6. ASSUME NEW r \in Reader, I!ReaderFails(r) \/ I!Deliver(r) PROVE IpcInv'
  BY <1>6, IpcRests, Zenon DEF I!ReaderFails, I!Deliver, I!srvVars, I!callVars
<1> QED
  BY <1>1, <1>2, <1>3, <1>4, <1>5, <1>6, IpcAnswers, IpcResponds, IpcBegins, IpcTakes, Zenon DEF I!Next

\* At first no call was made and no frame is under way.
LEMMA IpcInit == I!Init => IpcInv
<1> SUFFICES ASSUME I!Init PROVE IpcInv
  BY Zenon
<1>1. c2s = <<>> /\ s2c = <<>>
  BY Zenon DEF I!Init
<1>2. \A G : Places(<<>>, G) = {}
  BY DEF Places
<1>3. IpcTypes
  BY DEF I!Init, IpcTypes, I!StoreExact
<1>4. \A q \in Call : Once(q)
  BY <1>1, <1>2, Zenon DEF I!Init, Once, AtMostOne
<1> QED
  BY <1>3, <1>4, Zenon DEF IpcInv

\* OneCopy: a request is under way, with its goroutine, or answered, at most one of
\* these and once, so that a call gets at most one response, its own; through lost
\* connections, cancelled calls, late responses and any number of read loops.
THEOREM RequestInOnePlace == I!Spec => []OneCopy
<1>1. IpcInv => OneCopy
  <2> SUFFICES ASSUME IpcInv, NEW q \in Call
               PROVE  LET copies == I!Cardinality({i \in DOMAIN c2s : c2s[i].type = "req" /\ c2s[i].id = q})
                                    + (IF asks[q] # None THEN 1 ELSE 0)
                                    + I!Cardinality({i \in DOMAIN s2c : s2c[i].id = q})
                      IN /\ copies <= 1
                         /\ call[q] \in {"idle", "send"} \/ promise[q] # None => copies = 0
    BY Zenon DEF OneCopy, I!OneCopy
  <2>1. ASSUME NEW T PROVE I!Cardinality(T) = Cardinality(T)
    BY Zenon DEF I!Cardinality, Cardinality
  <2>2. c2s \in Seq(IpcFrame) /\ s2c \in Seq(IpcFrame)
    BY Zenon DEF IpcInv, IpcTypes
  <2>3. {i \in DOMAIN c2s : c2s[i].type = "req" /\ c2s[i].id = q} = Places(c2s, Asking(q))
    <3>1. DOMAIN c2s = 1 .. Len(c2s) /\ \A i \in 1 .. Len(c2s) : c2s[i] \in IpcFrame
      BY <2>2
    <3> QED
      BY <3>1, Zenon DEF Places, Asking
  <2>4. {i \in DOMAIN s2c : s2c[i].id = q} = Places(s2c, Answering(q))
    <3>1. DOMAIN s2c = 1 .. Len(s2c) /\ \A i \in 1 .. Len(s2c) : s2c[i] \in IpcFrame
      BY <2>2
    <3> QED
      BY <3>1, Zenon DEF Places, Answering
  <2>5. ASSUME NEW S, AtMostOne(S) PROVE Cardinality(S) \in {0, 1} /\ (S = {} <=> Cardinality(S) = 0)
    <3>1. CASE S = {}
      BY <3>1, FS_EmptySet, Zenon
    <3>2. CASE S # {}
      <4>1. PICK x : S = {x}
        BY <2>5, <3>2 DEF AtMostOne
      <4> QED
        BY <3>2, <4>1, FS_Singleton
    <3> QED
      BY <3>1, <3>2, Zenon
  <2>6. Once(q)
    BY Zenon DEF IpcInv
  <2>7. /\ Cardinality(Places(c2s, Asking(q))) \in {0, 1}
        /\ Places(c2s, Asking(q)) = {} <=> Cardinality(Places(c2s, Asking(q))) = 0
        /\ Cardinality(Places(s2c, Answering(q))) \in {0, 1}
        /\ Places(s2c, Answering(q)) = {} <=> Cardinality(Places(s2c, Answering(q))) = 0
    BY <2>5, <2>6, Zenon DEF Once
  <2>8. PICK out, back \in {0, 1} :
          out = Cardinality(Places(c2s, Asking(q))) /\ back = Cardinality(Places(s2c, Answering(q)))
    BY <2>7, Zenon
  <2>9. /\ back # 0 => out = 0
        /\ asks[q] # None => out = 0 /\ back = 0
        /\ call[q] \in {"idle", "send"} \/ promise[q] # None => out = 0 /\ back = 0 /\ asks[q] = None
    BY <2>6, <2>7, <2>8, Zenon DEF Once
  <2>10. /\ I!Cardinality({i \in DOMAIN c2s : c2s[i].type = "req" /\ c2s[i].id = q}) = out
         /\ I!Cardinality({i \in DOMAIN s2c : s2c[i].id = q}) = back
    BY <2>1, <2>3, <2>4, <2>8, Zenon
  <2> QED
    BY <2>8, <2>9, <2>10
<1> QED
  BY <1>1, IpcInit, IpcStep, PTL DEF I!Spec

\* StoreExact: the stores of futures hold exactly the calls that are under way, so
\* that no return, cancellation or late response leaves an entry behind.
THEOREM NoFutureIsLeft == I!Spec => []I!StoreExact
<1>1. IpcInv => I!StoreExact
  BY Zenon DEF IpcInv, IpcTypes
<1> QED
  BY <1>1, IpcInit, IpcStep, PTL DEF I!Spec

=============================================================================
