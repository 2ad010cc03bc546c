----------------------------- MODULE MCDiscovery -----------------------------
(* Discovery of a peer that roams, through the central service and on the    *)
(* local network.  In a behaviour one part takes steps and the variables of  *)
(* the other rest.                                                           *)
EXTENDS Naturals

CONSTANTS Peer, Place, self, short, None

VARIABLES
  part,        \* "central" or "lan"
  clock, local, draft, calls, m, restarts, round, answer, book, said, seen,
  at, moves, packets, run, ctx, bus, buf, handler, lanBook, crashed, lanSaid

centralVars == <<clock, local, draft, calls, m, restarts, round, answer, book, said, seen>>
lanVars == <<at, moves, packets, run, ctx, bus, buf, handler, lanBook, crashed, lanSaid>>

C == INSTANCE CentralDisco
       WITH Endpoint <- Place, Foreign <- {}, Refused <- {}, MaxTime <- 2, MaxRestart <- 1,
            MaxCalls <- 3
L == INSTANCE LanDisco
       WITH Addr <- Place, Self <- self, Stranger <- {}, Short <- short, MaxMove <- 1,
            book <- lanBook, said <- lanSaid

\* While it rests, a part has one state.
MCInit ==
  /\ part \in {"central", "lan"}
  /\ C!Init /\ L!Init
  /\ part # "central" => local = [p \in Peer |-> CHOOSE a \in Place : TRUE]
  /\ part # "lan" => at = [p \in Peer |-> CHOOSE a \in Place : TRUE]

MCNext ==
  /\ part' = part
  /\ \/ part = "central" /\ C!Next /\ UNCHANGED lanVars
     \/ part = "lan" /\ L!Next /\ UNCHANGED centralVars

\* The fairness of the part that takes steps.  The part never changes, so that
\* it is infinitely often what it is.
MCFairness ==
  \/ []<>(part = "central") /\ C!Fairness
  \/ []<>(part = "lan") /\ L!Fairness

MCSpec == MCInit /\ [][MCNext]_<<part, centralVars, lanVars>> /\ MCFairness

----------------------------------------------------------------------------
\* Central discovery: the daemon comes to know where a peer is that stays there,
\* after restarts of the server, moves and calls that fail.
CentralFinds == []<>(part = "central") => C!Finds

\* Local discovery: a service that fails runs again, unless the daemon stops, and
\* a peer that stays where it is becomes known there, as long as the service runs
\* and its bus reads.
LanFinds == []<>(part = "lan") => L!RunsAgain /\ L!Finds

=============================================================================
