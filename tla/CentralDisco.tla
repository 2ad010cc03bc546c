----------------------------- MODULE CentralDisco -----------------------------
(****************************************************************************)
(* Central discovery: peers announce their endpoints to a server, signed    *)
(* and with a timestamp in seconds, and a daemon polls the server for the   *)
(* peers of its store.  Calls take time, overtake each other and get lost;  *)
(* the server keeps its map in memory.                                      *)
(*                                                                          *)
(* A signed announcement is a record that names its signer.                 *)
(****************************************************************************)
EXTENDS Naturals, FiniteSets

CONSTANTS
  Peer,        \* peers in the store of the polling daemon
  Endpoint,    \* transport addresses
  Foreign,     \* those among them that the polling daemon cannot parse
  Refused,     \* those that the server cannot parse
  MaxTime,     \* bound on the clocks
  MaxRestart,  \* bound on restarts of the server
  MaxCalls,    \* bound on announcements on their way
  None

ASSUME CentralDiscoAssumption ==
  /\ MaxTime \in Nat /\ MaxRestart \in Nat /\ MaxCalls \in Nat
  /\ Foreign \subseteq Endpoint /\ Refused \subseteq Endpoint

VARIABLES
  clock,       \* clock[p] : seconds on peer p's clock
  local,       \* local[p] : its present endpoint
  draft,       \* draft[p] : the endpoint and second p read to announce, or None
  calls,       \* announcements on their way to the server
  m,           \* m[p] : what the server keeps of p, or None
  restarts,
  round,       \* peers that the present round of lookups still has to do
  answer,      \* the answer to the lookup under way, or None
  book,        \* book[p] : the endpoints of p in the daemon's peer store
  said,        \* auxiliary: said[p] : every endpoint p has announced
  seen         \* auxiliary: seen[p] : what the lookup of p that was applied last
               \* was about

vars == <<clock, local, draft, calls, m, restarts, round, answer, book, said, seen>>
Announcement == [signer : Peer, tai64 : 0 .. MaxTime, endpoint : Endpoint]

\* What a lookup saw in the server after so many restarts: the timestamp that the
\* server kept, from 1 on, or 0 for none.
Sight(restart, kept) ==
  [life |-> restart, stamp |-> IF kept = None THEN 0 ELSE kept.tai64 + 1]

Init ==
  /\ clock = [p \in Peer |-> 0]
  /\ local \in [Peer -> Endpoint]
  /\ draft = [p \in Peer |-> None]
  /\ calls = {}
  /\ m = [p \in Peer |-> None]
  /\ restarts = 0
  /\ round = {} /\ answer = None
  /\ book = [p \in Peer |-> {}]
  /\ said = [p \in Peer |-> {}]
  /\ seen = [p \in Peer |-> Sight(0, None)]

----------------------------------------------------------------------------
(* A peer announces.                                                        *)

\* The endpoints are read before the clock, less than a second apart.
AnnounceBegin(p) ==
  /\ draft[p] = None
  /\ draft' = [draft EXCEPT ![p] = [endpoint |-> local[p], at |-> clock[p]]]
  /\ UNCHANGED <<clock, local, calls, m, restarts, round, answer, book, said, seen>>

\* Client.Announce signs; the call may get lost.
AnnounceSend(p) ==
  /\ draft[p] # None
  /\ \/ /\ Cardinality(calls) < MaxCalls
        /\ calls' = calls \cup {[signer |-> p, tai64 |-> clock[p], endpoint |-> draft[p].endpoint]}
     \/ UNCHANGED calls
  /\ said' = [said EXCEPT ![p] = @ \cup {draft[p].endpoint}]
  /\ draft' = [draft EXCEPT ![p] = None]
  /\ UNCHANGED <<clock, local, m, restarts, round, answer, book, seen>>

Tick(p) ==
  /\ clock[p] < MaxTime
  /\ draft[p] # None => draft[p].at = clock[p]
  /\ clock' = [clock EXCEPT ![p] = @ + 1]
  /\ UNCHANGED <<local, draft, calls, m, restarts, round, answer, book, said, seen>>

\* The peer roams.  Its clock goes on afterwards.
Move(p) ==
  /\ clock[p] + 1 < MaxTime
  /\ \E e \in Endpoint : local' = [local EXCEPT ![p] = e]
  /\ UNCHANGED <<clock, draft, calls, m, restarts, round, answer, book, said, seen>>

----------------------------------------------------------------------------
(* The server.                                                              *)

\* Variant: the last announcement to arrive is kept.
AnnounceLast(a) ==
  /\ a \in calls
  /\ calls' = calls \ {a}
  /\ m' = [m EXCEPT ![a.signer] = a]
  /\ UNCHANGED <<clock, local, draft, restarts, round, answer, book, said, seen>>

\* Server.Announce: an endpoint that does not parse is refused, and only a later
\* timestamp replaces what is kept.
Announce(a) ==
  /\ a \in calls
  /\ calls' = calls \ {a}
  /\ m' = IF a.endpoint \in Refused \/ (m[a.signer] # None /\ a.tai64 <= m[a.signer].tai64) THEN m
          ELSE [m EXCEPT ![a.signer] = a]
  /\ UNCHANGED <<clock, local, draft, restarts, round, answer, book, said, seen>>

Restart ==
  /\ restarts < MaxRestart
  /\ restarts' = restarts + 1
  /\ m' = [p \in Peer |-> None]
  /\ UNCHANGED <<clock, local, draft, calls, round, answer, book, said, seen>>

----------------------------------------------------------------------------
(* The daemon polls.                                                        *)

RoundBegin ==
  /\ round = {} /\ answer = None
  /\ round' = Peer
  /\ UNCHANGED <<clock, local, draft, calls, m, restarts, answer, book, said, seen>>

\* Server.Lookup: the announcement, or NotFound, which is no endpoints.  The
\* order of the store's List is not specified.
Lookup(p) ==
  /\ p \in round /\ answer = None
  /\ answer' = [target |-> p, found |-> m[p], life |-> restarts]
  /\ round' = round \ {p}
  /\ UNCHANGED <<clock, local, draft, calls, m, restarts, book, said, seen>>

\* A failed call ends the round.
LookupFails ==
  /\ round # {} /\ answer = None
  /\ round' = {}
  /\ UNCHANGED <<clock, local, draft, calls, m, restarts, answer, book, said, seen>>

\* Variant: the answer goes to the peer that is looked up next.
ApplyNext ==
  /\ answer # None
  /\ answer' = None
  /\ \E p \in round \cup {answer.target} :
       book' = [book EXCEPT ![p] = IF answer.found = None THEN {} ELSE {answer.found.endpoint}]
  /\ UNCHANGED <<clock, local, draft, calls, m, restarts, round, said, seen>>

\* Variant: a peer that is not found keeps its endpoints, and so does one whose
\* announcement is the first.
ApplyOnce ==
  /\ answer # None
  /\ answer' = None
  /\ book' = IF answer.found = None \/ book[answer.target] # {} THEN book
             ELSE [book EXCEPT ![answer.target] = {answer.found.endpoint}]
  /\ UNCHANGED <<clock, local, draft, calls, m, restarts, round, said, seen>>

\* The endpoints replace those in the store, unless one cannot be parsed, which
\* ends the round.
Apply ==
  /\ answer # None
  /\ answer' = None
  /\ IF answer.found # None /\ answer.found.endpoint \in Foreign
     THEN round' = {} /\ UNCHANGED <<book, seen>>
     ELSE /\ book' = [book EXCEPT ![answer.target] =
                        IF answer.found = None THEN {} ELSE {answer.found.endpoint}]
          /\ seen' = [seen EXCEPT ![answer.target] = Sight(answer.life, answer.found)]
          /\ UNCHANGED round
  /\ UNCHANGED <<clock, local, draft, calls, m, restarts, said>>

Next ==
  \/ \E p \in Peer : AnnounceBegin(p) \/ AnnounceSend(p) \/ Tick(p) \/ Move(p) \/ Lookup(p)
  \/ \E a \in Announcement : Announce(a)
  \/ Restart \/ RoundBegin \/ LookupFails \/ Apply

Spec == Init /\ [][Next]_vars

\* Both loops poll for ever.  Calls that are made again and again get through,
\* and so do lookups, because List iterates over a map in random order.
Fairness ==
  /\ \A p \in Peer : /\ WF_vars(AnnounceBegin(p)) /\ WF_vars(AnnounceSend(p))
                     /\ SF_vars(AnnounceSend(p) /\ calls' # calls)
                     /\ SF_vars(Tick(p))
                     /\ SF_vars(Lookup(p) /\ round = Peer)
  /\ \A a \in Announcement : WF_vars(Announce(a))
  /\ WF_vars(RoundBegin) /\ WF_vars(LookupFails) /\ WF_vars(Apply)

FairSpec == Spec /\ Fairness

----------------------------------------------------------------------------
(* Properties.                                                              *)

\* Each variable has its type; what the server keeps under an address is signed
\* with its key.
TypeOK ==
  /\ clock \in [Peer -> 0 .. MaxTime] /\ local \in [Peer -> Endpoint]
  /\ calls \in SUBSET Announcement
  /\ \A p \in Peer : m[p] # None => m[p] \in Announcement /\ m[p].signer = p
  /\ book \in [Peer -> SUBSET (Endpoint \ Foreign)]

\* The daemon's store holds for a peer only what that peer has announced.
BookAnnounced == \A p \in Peer : book[p] \subseteq said[p]

\* a is not of a later life of the server than b, nor later in the same life.
NoLater(a, b) == a.life < b.life \/ (a.life = b.life /\ a.stamp <= b.stamp)

\* The daemon never goes back: between two restarts of the server the endpoints
\* that a lookup puts into the store are never replaced by those of an earlier
\* announcement of the peer, or by none, however announcements overtake each other
\* and whenever the server answers.
NeverBack == [][\A p \in Peer : NoLater(seen[p], seen'[p])]_vars

\* "A discovery service continuously attempts to find transport addresses for
\* all of the peers" (22_Daemon_Config.md): once a peer stays where it is the
\* daemon comes to know its endpoint and no other, after restarts of the server,
\* moves and calls that fail, if both the server and the daemon can parse it.
Finds ==
  \A p \in Peer : <>[](local[p] \in Foreign \cup Refused \/ book[p] = {local[p]})

============================================================================
