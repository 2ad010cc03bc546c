-------------------------------- MODULE Daemon --------------------------------
(****************************************************************************)
(* inet256d.Daemon.Run: it makes the mesh server, then runs the HTTP server *)
(* of the API and the discovery services in a group, and closes the mesh    *)
(* server when the group has ended.  Clients connect and open nodes; a      *)
(* handler that has hijacked its connection serves the node over it, and    *)
(* net/http knows the connection no more.  NodeServer has the counting of   *)
(* references between the handlers and the server, NodeIPC what a handler   *)
(* does while it serves.                                                    *)
(****************************************************************************)
EXTENDS Naturals, FiniteSets

CONSTANTS
  Conn,      \* connections of clients
  Key,       \* private keys of the nodes they open
  Disc,      \* discovery services
  None

ASSUME NoneAssumption == None \notin {"open", "closed"}

VARIABLES
  run,        \* Run: "new", "group", "closing" or "returned"
  server,     \* the mesh server: None, "open" or "closed"
  api,        \* runHTTPServer: "off", "listening", "shutdown" or "returned"
  accepting,  \* hSrv.Serve has not returned
  disc,       \* disc[s] : "off", "running", "waiting" for a retry, or "ended"
  cancelled,  \* the group's context
  conn,       \* conn[c] : "idle", "dialed", "reading" the body of a request,
              \*   "opening" the node, "serving", "ended"
  key,        \* key[c] : the key the client opens
  nodes,      \* nodes[k] : the connections that hold node k open
  got         \* what DoWithServer handed to a callback

vars == <<run, server, api, accepting, disc, cancelled, conn, key, nodes, got>>

Init ==
  /\ run = "new"
  /\ server = None
  /\ api = "off" /\ accepting = FALSE
  /\ disc = [s \in Disc |-> "off"]
  /\ cancelled = FALSE
  /\ conn = [c \in Conn |-> "idle"]
  /\ key = [c \in Conn |-> None]
  /\ nodes = [k \in Key |-> {}]
  /\ got = {}

clients == <<conn, key, nodes>>

----------------------------------------------------------------------------
\* Daemon.Run

\* The server is made, setupDone is closed and the group started.
Setup ==
  /\ run = "new"
  /\ server' = "open"
  /\ disc' = [s \in Disc |-> "running"]
  /\ run' = "group"
  /\ UNCHANGED <<api, accepting, cancelled, clients, got>>

\* DoWithServer returns an error when its context ends, else it waits.
DoWithServer ==
  /\ run # "new"
  /\ got' = got \union {server}
  /\ UNCHANGED <<run, server, api, accepting, disc, cancelled, clients>>

CallerCancels ==
  /\ run # "new" /\ ~ cancelled
  /\ cancelled' = TRUE
  /\ UNCHANGED <<run, server, api, accepting, disc, clients, got>>

\* eg.Wait
GroupEnds ==
  /\ run = "group"
  /\ api = "returned"
  /\ \A s \in Disc : disc[s] = "ended"
  /\ run' = "closing"
  /\ UNCHANGED <<server, api, accepting, disc, cancelled, clients, got>>

\* The deferred Close of the server closes every node.
ServerCloses ==
  /\ run = "closing"
  /\ server' = "closed"
  /\ nodes' = [k \in Key |-> {}]
  /\ run' = "returned"
  /\ UNCHANGED <<api, accepting, disc, cancelled, conn, key, got>>

----------------------------------------------------------------------------
\* runDiscovery: every service is run again until the context is cancelled.

DiscStep(s) ==
  /\ \/ disc[s] = "running" /\ disc' = [disc EXCEPT ![s] = "waiting"]
     \/ disc[s] = "waiting" /\ ~ cancelled /\ disc' = [disc EXCEPT ![s] = "running"]
  /\ UNCHANGED <<run, server, api, accepting, cancelled, clients, got>>

DiscEnds(s) ==
  /\ disc[s] \in {"running", "waiting"}
  /\ cancelled
  /\ disc' = [disc EXCEPT ![s] = "ended"]
  /\ UNCHANGED <<run, server, api, accepting, cancelled, clients, got>>

----------------------------------------------------------------------------
\* runHTTPServer

Listen ==
  /\ run = "group" /\ api = "off"
  /\ api' = "listening" /\ accepting' = TRUE
  /\ UNCHANGED <<run, server, disc, cancelled, clients, got>>

\* The endpoint does not parse or cannot be listened at: the group ends.
ListenFails ==
  /\ run = "group" /\ api = "off"
  /\ api' = "returned"
  /\ cancelled' = TRUE
  /\ UNCHANGED <<run, server, accepting, disc, clients, got>>

\* An error of Serve is logged, and runHTTPServer waits on.
ServeFails ==
  /\ api = "listening" /\ accepting
  /\ accepting' = FALSE
  /\ UNCHANGED <<run, server, api, disc, cancelled, clients, got>>

Shutdown ==
  /\ api = "listening" /\ cancelled
  /\ api' = "shutdown" /\ accepting' = FALSE
  /\ UNCHANGED <<run, server, disc, cancelled, clients, got>>

\* Variant: connections are not waited for (http.Server.Close).
ActiveNone == {}

\* The connections that Shutdown waits for: those that net/http has not closed
\* and no handler has hijacked.
Active == {c \in Conn : conn[c] \in {"dialed", "reading", "opening"}}

ShutdownReturns ==
  /\ api = "shutdown"
  /\ Active = {}
  /\ api' = "returned"
  /\ UNCHANGED <<run, server, accepting, disc, cancelled, clients, got>>

----------------------------------------------------------------------------
\* Clients, and Server.ServeHTTP

Dial(c, k) ==
  /\ conn[c] = "idle"
  /\ accepting
  /\ conn' = [conn EXCEPT ![c] = "dialed"]
  /\ key' = [key EXCEPT ![c] = k]
  /\ UNCHANGED <<run, server, api, accepting, disc, cancelled, nodes, got>>

\* The client sends the head of a request, also while Shutdown waits, and the
\* handler begins.
Request(c) ==
  /\ conn[c] = "dialed"
  /\ conn' = [conn EXCEPT ![c] = "reading"]
  /\ UNCHANGED <<run, server, api, accepting, disc, cancelled, key, nodes, got>>

\* Shutdown closes the connections on which no request has begun.
CloseIdle(c) ==
  /\ api = "shutdown"
  /\ conn[c] = "dialed"
  /\ conn' = [conn EXCEPT ![c] = "ended"]
  /\ UNCHANGED <<run, server, api, accepting, disc, cancelled, key, nodes, got>>

\* handleOpen: io.ReadAll waits for the client to send the whole body.  Nothing
\* limits how long.
ReadBody(c) ==
  /\ conn[c] = "reading"
  /\ conn' = [conn EXCEPT ![c] = "opening"]
  /\ UNCHANGED <<run, server, api, accepting, disc, cancelled, key, nodes, got>>

\* handleOpen: the node is opened and the connection hijacked.
HandleOpen(c) ==
  /\ conn[c] = "opening"
  /\ conn' = [conn EXCEPT ![c] = "serving"]
  /\ nodes' = [nodes EXCEPT ![key[c]] = @ \union {c}]
  /\ UNCHANGED <<run, server, api, accepting, disc, cancelled, key, got>>

\* The client closes or sends what does not parse, the node cannot be opened, or
\* ServeNode has ended: the reference is closed.
HandlerReturns(c) ==
  /\ conn[c] \in {"reading", "opening", "serving"}
  /\ conn' = [conn EXCEPT ![c] = "ended"]
  /\ nodes' = [nodes EXCEPT ![key[c]] = @ \ {c}]
  /\ UNCHANGED <<run, server, api, accepting, disc, cancelled, key, got>>

----------------------------------------------------------------------------

Next ==
  \/ Setup \/ DoWithServer \/ CallerCancels \/ GroupEnds \/ ServerCloses
  \/ \E s \in Disc : DiscStep(s) \/ DiscEnds(s)
  \/ Listen \/ ListenFails \/ ServeFails \/ Shutdown \/ ShutdownReturns
  \/ \E c \in Conn : \/ Request(c) \/ CloseIdle(c) \/ ReadBody(c)
                     \/ HandleOpen(c) \/ HandlerReturns(c)
                     \/ \E k \in Key : Dial(c, k)

Spec == Init /\ [][Next]_vars

\* The daemon's goroutines go on, and so does a handler that has the body and
\* has not begun to serve.  Nothing is assumed of clients: one may never send its
\* request or the body of it, and a handler that serves waits for its client.
\* Discovery services return when their context is cancelled.
Fairness ==
  /\ WF_vars(GroupEnds) /\ WF_vars(ServerCloses)
  /\ WF_vars(Listen \/ ListenFails) /\ WF_vars(Shutdown) /\ WF_vars(ShutdownReturns)
  /\ \A s \in Disc : SF_vars(DiscEnds(s))
  /\ \A c \in Conn : /\ WF_vars(CloseIdle(c))
                     /\ WF_vars(conn[c] = "opening" /\ (HandleOpen(c) \/ HandlerReturns(c)))

FairSpec == Spec /\ Fairness

----------------------------------------------------------------------------

\* No handler works on a server that has been closed: a node is never opened
\* after Close, and when Run has returned no node is open, though clients may
\* still be connected.  DoWithServer's callback always gets the server.
NothingAfterClose ==
  /\ server # "open" => /\ \A k \in Key : nodes[k] = {}
                        /\ \A c \in Conn : conn[c] \notin {"reading", "opening"}
  /\ None \notin got

\* Run returns when its context is cancelled, or when it could not listen, even
\* while clients are served or hold connections without a request, and whatever
\* they do.  The one exception is a client that never finishes the body of a
\* request: Shutdown has no deadline and the server no read timeout.
RunReturns ==
  \/ []<>(cancelled => run = "returned")
  \/ \E c \in Conn : <>[](conn[c] = "reading")

=============================================================================
