-------------------------------- MODULE DNS256 --------------------------------
(****************************************************************************)
(* dns256: a Resolver follows the redirects of servers, which it asks       *)
(* through one Client on one node.  Every request of the client (Do) has a  *)
(* read loop of its own on that node, and each loop completes the promises  *)
(* of all: the loop that receives a response is seldom the one of its       *)
(* request.  A server starts a goroutine for each request it receives.      *)
(*                                                                          *)
(* A record maps keys to values; Bad stands for a value of the wrong JSON   *)
(* type.  Messages are lost, delayed and reordered.  Request identifiers    *)
(* are 16 random bytes, here numbers that do not repeat.                    *)
(****************************************************************************)
EXTENDS Naturals, Sequences, Functions

CONSTANTS
  Call,         \* goroutines that resolve a name, once each
  Name,         \* the dotted names they may ask for, as sequences of parts
  Kind,         \* what they ask for: "INET256", "IP" or "IPPort"
  Elem,         \* the parts that are valid path elements
  Server,       \* the addresses that serve DNS256
  Roots,        \* the resolver's root servers, a sequence
  Redirects,    \* Redirects[s] : the sequence of [path, target] of BasicHandler
  Records,      \* Records[s] : its sequence of records
  Custom,       \* Custom[s] : the response of a server with a handler of its own
  MaxHops,      \* WithMaxHops
  DefaultHops,  \* resolveConfig.maxHops where no option is given
  Bad, None

VARIABLES
  call,         \* call[c] : what goroutine c has reached; a result of None is an error
  store,        \* Client.reqs : request identifiers with a promise
  resp,         \* resp[i] : the value of the promise of request i
  readers,      \* the read loops, by the identifier of their request
  cancelled,    \* those whose context is cancelled
  nextID,       \* the next random identifier
  net,          \* messages on their way
  handling,     \* requests that a goroutine of a server handles
  serve,        \* serve[s] : "on", "stopping" or "off"
  closed        \* the client's node is closed

vars == <<call, store, resp, readers, cancelled, nextID, net, handling, serve, closed>>

----------------------------------------------------------------------------
\* Paths

HasPrefix(x, p) == /\ Len(p) <= Len(x)
                   /\ \A i \in 1 .. Len(p) : p[i] = x[i]

TrimPrefix(x, prefix) ==
  IF HasPrefix(x, prefix) THEN SubSeq(x, Len(prefix) + 1, Len(x)) ELSE x

\* Variant: only the last redirect's prefix is kept.
ConcatLast(p, q) == q

Concat(p, q) == p \o q

\* The parts of a dotted name, the most significant first.
ParseDots(parts) ==
  IF \A i \in DOMAIN parts : parts[i] \in Elem
  THEN [i \in 1 .. Len(parts) |-> parts[Len(parts) - i + 1]] ELSE None

\* Records.  The resolver's filters are those of MustHaveKeys.

MustHaveKeys(kind) == IF kind = "IPPort" THEN {"IP", "port"} ELSE {kind}

Matches(filter, r) == filter \subseteq DOMAIN r

\* Record.AsINET256, AsIP and AsUint16 give an error for other values.
Parses(filter, r) == \A k \in filter : k \in DOMAIN r /\ r[k] # Bad

\* What ResolveINET256, ResolveIP and ResolveIPPort make of the claims.
Result(kind, claims) == SelectSeq(claims, LAMBDA r : Parses(MustHaveKeys(kind), r))

----------------------------------------------------------------------------
\* The server's handler

Response(redirect, claims) == [redirect |-> redirect, claims |-> claims]

Matching(s, filter) == SelectSeq(Records[s], LAMBDA r : Matches(filter, r))

\* BasicHandler.Handle: the first redirect of a prefix of the path, or all the
\* records that match, whatever the path.
BasicHandle(s, path, filter) ==
  LET at == {i \in DOMAIN Redirects[s] : HasPrefix(path, Redirects[s][i].path)}
      first == CHOOSE i \in at : \A j \in at : i <= j
  IN IF at # {} THEN Response(TRUE, <<Redirects[s][first]>>)
     ELSE Response(FALSE, Matching(s, filter))

Handle(s, path, filter) ==
  IF s \in DOMAIN Custom THEN Custom[s] ELSE BasicHandle(s, path, filter)

----------------------------------------------------------------------------

Idle == [at |-> "idle", path |-> <<>>, kind |-> None, sources |-> <<>>, hops |-> 0,
         target |-> None, id |-> None, result |-> None]

Authority(path, s) == [path |-> path, server |-> s]

\* Names and redirects are as Go's types have them: a path that parses is a path,
\* and redirects lead to servers.
WellFormed ==
  LET redirect(paths) == [path : paths, target : {Bad} \union Server] IN
  /\ MaxHops \in Nat /\ DefaultHops \in Nat
  /\ Roots \in Seq(Server)
  /\ \A n \in Name : DOMAIN n = 1 .. Len(n) /\ Len(n) \in Nat
  /\ \A s \in Server :
       IF s \in DOMAIN Custom
       THEN Custom[s] # None /\ Custom[s].redirect => Custom[s].claims \in Seq(redirect({Bad} \union Seq(Elem)))
       ELSE Redirects[s] \in Seq(redirect(Seq(Elem)))

Init ==
  /\ call = [c \in Call |-> Idle]
  /\ store = {}
  /\ resp = << >>
  /\ readers = {} /\ cancelled = {}
  /\ nextID = 1
  /\ net = {} /\ handling = {}
  /\ serve = [s \in Server |-> "on"]
  /\ closed = FALSE

serverVars == <<handling, serve>>

Becomes(c, new) == call' = [call EXCEPT ![c] = new]

Returns(c, result) == Becomes(c, [call[c] EXCEPT !.at = "done", !.sources = <<>>, !.target = None,
                                                 !.id = None, !.result = result])

\* ResolveINET256, ResolveIP and ResolveIPPort of a parsed name.
Begin(c, name, kind) ==
  LET path == ParseDots(name) IN
  /\ call[c].at = "idle"
  /\ IF path = None THEN Returns(c, None)
     ELSE Becomes(c, [call[c] EXCEPT !.at = "loop", !.path = path, !.kind = kind,
                                     !.sources = [i \in DOMAIN Roots |-> Authority(<<>>, Roots[i])]])
  /\ UNCHANGED <<store, resp, readers, cancelled, nextID, net, closed, serverVars>>

\* ResolveINET256 does not hand its options on.
HopLimit(kind) == IF kind = "INET256" THEN DefaultHops ELSE MaxHops

TooFar(c) == call[c].hops >= HopLimit(call[c].kind)

\* The loop has no source left, or has made too many hops.
GiveUp(c) ==
  /\ call[c].at = "loop"
  /\ call[c].sources = <<>> \/ TooFar(c)
  /\ Returns(c, IF call[c].sources = <<>> THEN <<>> ELSE None)
  /\ UNCHANGED <<store, resp, readers, cancelled, nextID, net, closed, serverVars>>

\* The last source is asked: Do makes a promise and starts a read loop.
DoBegin(c) ==
  LET sources == call[c].sources
      last == Len(sources)
  IN
  /\ call[c].at = "loop"
  /\ sources # <<>> /\ ~ TooFar(c)
  /\ Becomes(c, [call[c] EXCEPT !.at = "send", !.sources = SubSeq(sources, 1, last - 1),
                                !.target = sources[last], !.hops = @ + 1, !.id = nextID])
  /\ store' = store \union {nextID}
  /\ resp' = Append(resp, None)
  /\ readers' = readers \union {nextID}
  /\ nextID' = nextID + 1
  /\ UNCHANGED <<cancelled, net, closed, serverVars>>

DoSend(c) ==
  /\ call[c].at = "send"
  /\ ~ closed
  /\ net' = net \union {[kind |-> "request", server |-> call[c].target.server, id |-> call[c].id,
                         path |-> TrimPrefix(call[c].path, call[c].target.path),
                         filter |-> MustHaveKeys(call[c].kind)]}
  /\ Becomes(c, [call[c] EXCEPT !.at = "await"])
  /\ UNCHANGED <<store, resp, readers, cancelled, nextID, closed, serverVars>>

\* Do's deferred calls.
DoReturns(c) ==
  /\ store' = store \ {call[c].id}
  /\ cancelled' = cancelled \union ({call[c].id} \intersect readers)

\* Send fails, or the caller's context ends: Resolve returns the error.
DoFails(c) ==
  /\ call[c].at = "send" \/ (call[c].at = "await" /\ resp[call[c].id] = None)
  /\ DoReturns(c)
  /\ Returns(c, None)
  /\ UNCHANGED <<resp, readers, nextID, net, closed, serverVars>>

\* makeLookup fails for a target that does not parse: that claim is left out.
Followed(claims) ==
  LET upTo[i \in 0 .. Len(claims)] ==
        IF i = 0 THEN <<>>
        ELSE IF claims[i].target = Bad THEN upTo[i - 1] ELSE Append(upTo[i - 1], claims[i])
  IN upTo[Len(claims)]

Valid(path, claims) ==
  \A i \in DOMAIN claims : claims[i].path # Bad /\ HasPrefix(path, claims[i].path)

\* The response is there.  A redirect adds its authorities to the sources.
DoDone(c) ==
  LET target == call[c].target
      rest == TrimPrefix(call[c].path, target.path)
      r == resp[call[c].id]
      next == Followed(r.claims)
      auths == [i \in DOMAIN next |-> Authority(Concat(target.path, next[i].path), next[i].target)]
  IN /\ call[c].at = "await"
     /\ r # None
     /\ DoReturns(c)
     /\ IF ~ r.redirect
          THEN Returns(c, Result(call[c].kind, r.claims))
        ELSE IF Valid(rest, r.claims)
          THEN Becomes(c, [call[c] EXCEPT !.at = "loop", !.sources = @ \o auths,
                                          !.target = None, !.id = None])
          ELSE Returns(c, None)
     /\ UNCHANGED <<resp, readers, nextID, net, closed, serverVars>>

\* Variant: a loop completes the promise of its own request only.
CompletesOwn(l, m) ==
  resp' = [resp EXCEPT ![m.id] = IF m.id \in store /\ l = m.id THEN m.response ELSE @]

\* fut.Succeed
Completes(l, m) ==
  resp' = [resp EXCEPT ![m.id] = IF m.id \in store /\ @ = None THEN m.response ELSE @]

\* A loop may still receive a message when its context is cancelled.
ReadLoop(l, m) ==
  /\ l \in readers /\ ~ closed
  /\ m \in net /\ m.kind = "response"
  /\ net' = net \ {m}
  /\ Completes(l, m)
  /\ UNCHANGED <<call, store, readers, cancelled, nextID, closed, serverVars>>

ReadLoopEnds(l) ==
  /\ l \in readers
  /\ l \in cancelled \/ closed
  /\ readers' = readers \ {l}
  /\ cancelled' = cancelled \ {l}
  /\ UNCHANGED <<call, store, resp, nextID, net, closed, serverVars>>

CloseNode ==
  /\ ~ closed
  /\ closed' = TRUE
  /\ UNCHANGED <<call, store, resp, readers, cancelled, nextID, net, serverVars>>

----------------------------------------------------------------------------
\* Serve

clientVars == <<call, store, resp, readers, cancelled, nextID, closed>>

ServeReceive(m) ==
  /\ m \in net /\ m.kind = "request"
  /\ m.server \in Server /\ serve[m.server] = "on"
  /\ net' = net \ {m}
  /\ handling' = handling \union {m}
  /\ UNCHANGED <<clientVars, serve>>

\* The handler's answer is sent; a handler may return false.
ServeAnswer(m) ==
  LET r == Handle(m.server, m.path, m.filter) IN
  /\ m \in handling
  /\ handling' = handling \ {m}
  /\ net' = IF r = None THEN net
            ELSE net \union {[kind |-> "response", server |-> m.server, id |-> m.id, response |-> r]}
  /\ UNCHANGED <<clientVars, serve>>

\* The handler's five seconds are over, or Send fails.
ServeFails(m) ==
  /\ m \in handling
  /\ handling' = handling \ {m}
  /\ UNCHANGED <<clientVars, net, serve>>

\* Serve returns when its goroutines have.
StopServe(s) ==
  /\ serve[s] = "on" \/ (serve[s] = "stopping" /\ ~ \E m \in handling : m.server = s)
  /\ serve' = [serve EXCEPT ![s] = IF @ = "on" THEN "stopping" ELSE "off"]
  /\ UNCHANGED <<clientVars, net, handling>>

Lose(m) ==
  /\ m \in net
  /\ net' = net \ {m}
  /\ UNCHANGED <<clientVars, serverVars>>

----------------------------------------------------------------------------

CallStep(c) == GiveUp(c) \/ DoBegin(c) \/ DoSend(c) \/ DoDone(c)

ServerStep == \E m \in net \union handling : ServeReceive(m) \/ ServeAnswer(m)

ReaderStep == \E l \in readers : ReadLoopEnds(l) \/ \E m \in net : ReadLoop(l, m)

\* Nothing is lost and nobody stops, but callers may cancel.
Calm ==
  \/ \E c \in Call : CallStep(c) \/ DoFails(c) \/ \E n \in Name, k \in Kind : Begin(c, n, k)
  \/ ServerStep
  \/ ReaderStep

Next ==
  \/ Calm
  \/ CloseNode
  \/ \E m \in handling : ServeFails(m)
  \/ \E s \in Server : StopServe(s)
  \/ \E m \in net : Lose(m)

Spec == Init /\ [][Next]_vars

\* The Go runtime runs every goroutine that can go on.
CalmFairness ==
  /\ \A c \in Call : WF_vars(CallStep(c))
  /\ WF_vars(ServerStep)
  /\ WF_vars(ReaderStep)

----------------------------------------------------------------------------

\* Whom authority a names for a prefix of what is left of the path.
Delegates(path, filter, a) ==
  LET r == Handle(a.server, SubSeq(path, Len(a.path) + 1, Len(path)), filter)
  IN IF r = None \/ ~ r.redirect THEN {}
     ELSE {b \in {Authority(a.path \o e.path, e.target) :
                    e \in {e \in Range(r.claims) : e.path # Bad /\ e.target # Bad}} :
             HasPrefix(path, b.path)}

\* The authorities that a chain of at most n redirects makes responsible for a
\* path, from the roots on (doc/40_DNS256.md).
Delegated(path, filter, n) ==
  LET after[i \in 0 .. n] ==
        IF i = 0 THEN {Authority(<<>>, s) : s \in Range(Roots)}
        ELSE UNION {Delegates(path, filter, a) : a \in after[i - 1]}
  IN UNION {after[i] : i \in 0 .. n}

DelegatedFor(c) ==
  Delegated(call[c].path, MustHaveKeys(call[c].kind), HopLimit(call[c].kind))

\* The chain of trust: the resolver only ever asks, or plans to ask, authorities
\* that a chain of redirects from a root delegates the path to, and what it
\* returns are the records of such an authority that have all the keys asked
\* for.  Responses that come late, or that another request's read loop takes,
\* change none of it.
ChainOfTrust ==
  \A c \in Call :
    LET filter == MustHaveKeys(call[c].kind)
        trusted == DelegatedFor(c)
    IN /\ call[c].at \in {"loop", "send", "await"} =>
            /\ Range(call[c].sources) \subseteq trusted
            /\ call[c].target # None => call[c].target \in trusted
       /\ call[c].at = "done" /\ call[c].result \notin {None, <<>>} =>
            \E a \in trusted :
              LET r == Handle(a.server, SubSeq(call[c].path, Len(a.path) + 1, Len(call[c].path)), filter)
              IN /\ r # None /\ ~ r.redirect
                 /\ call[c].result = Result(call[c].kind, r.claims)

\* While nothing is lost and every handler answers, a resolution ends, even where
\* redirects lead in a circle: the answer to a request completes it whichever
\* read loop takes it, and also when that loop's own request has ended.  No
\* promise and no read loop is left behind, though callers cancel at any moment.
ResolveEnds ==
  []<>((\A c \in Call : call[c].at \in {"idle", "done"}) /\ store = {} /\ readers = {})

=============================================================================
