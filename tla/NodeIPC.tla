------------------------------- MODULE NodeIPC -------------------------------
(****************************************************************************)
(* inet256ipc: a node served over one connection.  ServeNode runs a read    *)
(* loop, a loop that passes on what the node receives, a keepalive loop, a  *)
(* watchdog and one goroutine per request; NodeClient runs several read     *)
(* loops and a keepalive loop, and matches responses to calls by their      *)
(* request id.                                                              *)
(*                                                                          *)
(* Reading from and writing to the connection look at no context: a loop    *)
(* that is blocked there ends only when the connection does.  A connection  *)
(* holds a bounded number of frames each way.                               *)
(****************************************************************************)
EXTENDS Naturals, Sequences, FiniteSets

CONSTANTS
  Call,        \* calls of FindAddr and LookupPublicKey; also their request ids
  Reader,      \* the client's read loops
  Cap,         \* frames that the connection holds in each direction
  None

VARIABLES
  conn,        \* "up", "clientClosed", "serverClosed", "cut" (silent for ever), or
               \*   "cutClosed" (cut, and then closed by the client)
  c2s, s2c,    \* frames under way
  srv,         \* srv[l] : what loop l of ServeNode does
  sctx,        \* the context given to ServeNode is cancelled
  asks,        \* asks[q] : the goroutine for request q
  served,      \* ServeNode has returned
  nodeUp,      \* the node was not dropped
  reader,      \* reader[r] : what client read loop r does
  cka,         \* the client's keepalive loop runs
  cctx,        \* the client's context is cancelled
  closing,     \* "open", "closing", "closed" : NodeClient.Close
  call,        \* call[q] : how far call q has come
  store,       \* the request ids in findAddrs and lookupPubs
  promise      \* promise[q] : the value of its future

srvVars == <<srv, sctx, asks, served, nodeUp>>
callVars == <<call, store, promise>>
cliVars == <<reader, cka, cctx, closing>>
vars == <<conn, c2s, s2c, srvVars, cliVars, callVars>>

Loops == {"read", "receive", "keepalive", "watchdog"}

Init ==
  /\ conn = "up"
  /\ c2s = <<>> /\ s2c = <<>>
  /\ srv = [l \in Loops |-> IF l = "keepalive" THEN "send" ELSE "wait"]
  /\ sctx = FALSE
  /\ asks = [q \in Call |-> None]
  /\ served = FALSE /\ nodeUp = TRUE
  /\ reader = [r \in Reader |-> "receive"]
  /\ cka = TRUE /\ cctx = FALSE /\ closing = "open"
  /\ call = [q \in Call |-> "idle"]
  /\ store = {}
  /\ promise = [q \in Call |-> None]

----------------------------------------------------------------------------
(* The connection: StreamFramer over a socket.                              *)

\* Data and keepalives of the client are both "plain": they ask for no answer.
Frame(type, id) == [type |-> type, id |-> id]

\* Writing blocks while the other side does not read.  A write to a connection
\* that was closed fails; one that was cut takes frames until it is full.
ServerWrites == conn \in {"up", "cut", "cutClosed"} /\ Len(s2c) < Cap
ServerWriteFails == conn \in {"clientClosed", "serverClosed"}
ClientWrites == conn \in {"up", "cut"} /\ Len(c2s) < Cap
ClientWriteFails == conn \in {"clientClosed", "serverClosed", "cutClosed"}

\* What was sent before the other side closed can still be read.  Over a
\* connection that was cut the server never learns that the client closed.
ServerReads == c2s # <<>> /\ conn \in {"up", "clientClosed"}
ServerEOF == conn = "serverClosed" \/ (conn = "clientClosed" /\ c2s = <<>>)
ClientReads == s2c # <<>> /\ conn \in {"up", "serverClosed"}
ClientEOF == conn \in {"clientClosed", "cutClosed"} \/ (conn = "serverClosed" /\ s2c = <<>>)

----------------------------------------------------------------------------
(* ServeNode.                                                               *)

\* Every loop returns an error, which cancels the context of the group.
LoopEnds(l) == srv' = [srv EXCEPT ![l] = "done"]
Cancelled == sctx \/ \E l \in Loops : srv[l] = "done"

\* Data is sent by the node, requests get a goroutine, keepalives do nothing.
ReadFrame ==
  LET m == Head(c2s) IN
  /\ srv["read"] = "wait"
  /\ ServerReads
  /\ c2s' = Tail(c2s)
  /\ asks' = IF m.type = "req" THEN [asks EXCEPT ![m.id] = "work"] ELSE asks
  /\ UNCHANGED <<conn, s2c, srv, sctx, served, nodeUp, cliVars, callVars>>

ReadFails ==
  /\ srv["read"] = "wait"
  /\ ServerEOF
  /\ LoopEnds("read")
  /\ UNCHANGED <<conn, c2s, s2c, sctx, asks, served, nodeUp, cliVars, callVars>>

\* node.Receive: a message, or an error when cancelled or dropped.
NodeReceive ==
  /\ srv["receive"] = "wait"
  /\ \/ /\ nodeUp
        /\ srv' = [srv EXCEPT !["receive"] = "send"]
     \/ /\ Cancelled \/ ~nodeUp
        /\ LoopEnds("receive")
  /\ UNCHANGED <<conn, c2s, s2c, sctx, asks, served, nodeUp, cliVars, callVars>>

\* The keepalive loop's ticker fires, or its context is done.
KeepAliveWait ==
  /\ srv["keepalive"] = "wait"
  /\ IF Cancelled THEN LoopEnds("keepalive")
     ELSE srv' = [srv EXCEPT !["keepalive"] = "send"]
  /\ UNCHANGED <<conn, c2s, s2c, sctx, asks, served, nodeUp, cliVars, callVars>>

\* transport.Send of the receive and keepalive loops.
LoopSends(l, type) ==
  /\ srv[l] = "send"
  /\ \/ /\ ServerWrites
        /\ s2c' = Append(s2c, Frame(type, None))
        /\ srv' = [srv EXCEPT ![l] = "wait"]
     \/ ServerWriteFails /\ LoopEnds(l) /\ UNCHANGED s2c
  /\ UNCHANGED <<conn, c2s, sctx, asks, served, nodeUp, cliVars, callVars>>

\* The watchdog of a client that has gone silent (KeepAlive has its timing).
Watchdog ==
  /\ srv["watchdog"] = "wait"
  /\ Cancelled \/ conn \in {"cut", "cutClosed"}
  /\ LoopEnds("watchdog")
  /\ UNCHANGED <<conn, c2s, s2c, sctx, asks, served, nodeUp, cliVars, callVars>>

\* handleAsk: the node answers, or fails, always so when cancelled.  FindAddr and
\* LookupPublicKey of a node wait until they find, or are cancelled.
Answer(q) ==
  /\ asks[q] = "work"
  /\ asks' = [asks EXCEPT ![q] = "error"] \/ (~Cancelled /\ asks' = [asks EXCEPT ![q] = "ok"])
  /\ UNCHANGED <<conn, c2s, s2c, srv, sctx, served, nodeUp, cliVars, callVars>>

\* Variant: the response carries the id of another request.
RespondWrong(q) ==
  /\ asks[q] \in {"ok", "error"}
  /\ \/ ServerWrites /\ \E p \in Call : s2c' = Append(s2c, Frame(asks[q], p))
     \/ ServerWriteFails /\ UNCHANGED s2c
  /\ asks' = [asks EXCEPT ![q] = None]
  /\ UNCHANGED <<conn, c2s, srv, sctx, served, nodeUp, cliVars, callVars>>

\* The response; a failed write is only logged.
Respond(q) ==
  /\ asks[q] \in {"ok", "error"}
  /\ \/ ServerWrites /\ s2c' = Append(s2c, Frame(asks[q], q))
     \/ ServerWriteFails /\ UNCHANGED s2c
  /\ asks' = [asks EXCEPT ![q] = None]
  /\ UNCHANGED <<conn, c2s, srv, sctx, served, nodeUp, cliVars, callVars>>

\* eg.Wait, and the HTTP handler that then closes the connection.
ServeReturns ==
  /\ ~served
  /\ \A l \in Loops : srv[l] = "done"
  /\ \A q \in Call : asks[q] = None
  /\ served' = TRUE
  /\ conn' = IF conn = "up" THEN "serverClosed" ELSE conn
  /\ UNCHANGED <<c2s, s2c, srv, sctx, asks, nodeUp, cliVars, callVars>>

----------------------------------------------------------------------------
(* NodeClient.                                                              *)

\* handleMessage.  A response without a future is dropped, and the first value
\* of a future counts.
ReaderTakes(r) ==
  LET m == Head(s2c) IN
  /\ reader[r] = "receive"
  /\ ClientReads
  /\ s2c' = Tail(s2c)
  /\ reader' = [reader EXCEPT ![r] = IF m.type = "data" THEN "deliver" ELSE @]
  /\ promise' = IF m.type \in {"ok", "error"} /\ m.id \in store /\ promise[m.id] = None
                THEN [promise EXCEPT ![m.id] = m.type] ELSE promise
  /\ UNCHANGED <<conn, c2s, srvVars, cka, cctx, closing, call, store>>

ReaderFails(r) ==
  /\ reader[r] = "receive"
  /\ ClientEOF
  /\ reader' = [reader EXCEPT ![r] = "done"]
  /\ UNCHANGED <<conn, c2s, s2c, srvVars, cka, cctx, closing, callVars>>

\* Variant: only Receive ends a Deliver.
DeliverForever(r) ==
  /\ reader[r] = "deliver"
  /\ ~cctx
  /\ reader' = [reader EXCEPT ![r] = "receive"]
  /\ UNCHANGED <<conn, c2s, s2c, srvVars, cka, cctx, closing, callVars>>

\* tellHub.Deliver returns when the application receives, or when cancelled.
Deliver(r) ==
  /\ reader[r] = "deliver"
  /\ reader' = [reader EXCEPT ![r] = "receive"]
  /\ UNCHANGED <<conn, c2s, s2c, srvVars, cka, cctx, closing, callVars>>

\* The keepalive loop cancels the client's context when it ends.
ClientKeepAlive ==
  /\ cka
  /\ \/ ClientWrites /\ c2s' = Append(c2s, Frame("plain", None)) /\ UNCHANGED <<cka, cctx>>
     \/ (ClientWriteFails \/ cctx) /\ cka' = FALSE /\ cctx' = TRUE /\ UNCHANGED c2s
  /\ UNCHANGED <<conn, s2c, srvVars, reader, closing, callVars>>

ClientSend ==
  /\ ClientWrites
  /\ c2s' = Append(c2s, Frame("plain", None))
  /\ UNCHANGED <<conn, s2c, srvVars, reader, cka, cctx, closing, callVars>>

\* FindAddr and LookupPublicKey put their future into the store first.
Begin(q) ==
  /\ call[q] = "idle"
  /\ call' = [call EXCEPT ![q] = "send"]
  /\ store' = store \cup {q}
  /\ UNCHANGED <<conn, c2s, s2c, srvVars, cliVars, promise>>

\* The call returns, and its future is deleted.
Return(q) ==
  /\ call' = [call EXCEPT ![q] = "done"]
  /\ store' = store \ {q}

Request(q) ==
  /\ call[q] = "send"
  /\ \/ /\ ClientWrites
        /\ c2s' = Append(c2s, Frame("req", q))
        /\ call' = [call EXCEPT ![q] = "wait"]
        /\ UNCHANGED store
     \/ ClientWriteFails /\ Return(q) /\ UNCHANGED c2s
  /\ UNCHANGED <<conn, s2c, srvVars, cliVars, promise>>

Await(q) ==
  /\ call[q] = "wait"
  /\ promise[q] # None
  /\ Return(q)
  /\ UNCHANGED <<conn, c2s, s2c, srvVars, cliVars, promise>>

Cancel(q) ==
  /\ call[q] = "wait"
  /\ Return(q)
  /\ UNCHANGED <<conn, c2s, s2c, srvVars, cliVars, promise>>

\* nodeClient.Close: the connection, then the context, then the loops.
Close ==
  /\ closing = "open"
  /\ closing' = "closing"
  /\ conn' = CASE conn = "up" -> "clientClosed" [] conn = "cut" -> "cutClosed" [] OTHER -> conn
  /\ cctx' = TRUE
  /\ UNCHANGED <<c2s, s2c, srvVars, reader, cka, callVars>>

CloseReturns ==
  /\ closing = "closing"
  /\ \A r \in Reader : reader[r] = "done"
  /\ ~cka
  /\ closing' = "closed"
  /\ UNCHANGED <<conn, c2s, s2c, srvVars, reader, cka, cctx, callVars>>

----------------------------------------------------------------------------
(* The surroundings.                                                        *)

\* The request's context ends: the daemon shuts down.
CancelServe == ~sctx /\ sctx' = TRUE
               /\ UNCHANGED <<conn, c2s, s2c, srv, asks, served, nodeUp, cliVars, callVars>>
DropNode == nodeUp /\ nodeUp' = FALSE
            /\ UNCHANGED <<conn, c2s, s2c, srv, sctx, asks, served, cliVars, callVars>>
Cut == conn = "up" /\ conn' = "cut"
       /\ UNCHANGED <<c2s, s2c, srvVars, cliVars, callVars>>

Server == \/ ReadFrame \/ ReadFails \/ NodeReceive \/ KeepAliveWait
          \/ LoopSends("receive", "data") \/ LoopSends("keepalive", "keepalive")
          \/ Watchdog \/ ServeReturns
Client == ClientKeepAlive \/ ClientSend \/ Close \/ CloseReturns

Next ==
  \/ Server \/ Client \/ CancelServe \/ DropNode \/ Cut
  \/ \E q \in Call : Answer(q) \/ Respond(q) \/ Begin(q) \/ Request(q) \/ Await(q) \/ Cancel(q)
  \/ \E r \in Reader : ReaderTakes(r) \/ ReaderFails(r) \/ Deliver(r)

Spec == Init /\ [][Next]_vars

\* Every goroutine goes on when it can.  A loop that competes for the
\* connection gets its turn (the locks of StreamFramer are fair).  Of the node and
\* of the application only that is assumed which the code guarantees: lookups,
\* Receive and Deliver return when their context is cancelled.
Fairness ==
  /\ WF_vars(ReadFrame) /\ WF_vars(ReadFails)
  /\ WF_vars((Cancelled \/ ~nodeUp) /\ NodeReceive)
  /\ WF_vars(KeepAliveWait) /\ WF_vars(Watchdog) /\ WF_vars(ServeReturns)
  /\ SF_vars(LoopSends("receive", "data")) /\ SF_vars(LoopSends("keepalive", "keepalive"))
  /\ WF_vars(ClientKeepAlive) /\ WF_vars(CloseReturns)
  /\ \A q \in Call : /\ WF_vars(Cancelled /\ Answer(q)) /\ SF_vars(Respond(q))
                     /\ SF_vars(Request(q)) /\ WF_vars(Await(q))
  /\ \A r \in Reader : /\ WF_vars(ReaderTakes(r)) /\ WF_vars(ReaderFails(r))
                       /\ WF_vars(cctx /\ Deliver(r))

FairSpec == Spec /\ Fairness

----------------------------------------------------------------------------
(* Properties.                                                              *)

\* Each variable has its type, and the connection does not hold more than Cap.
TypeOK ==
  /\ conn \in {"up", "clientClosed", "serverClosed", "cut", "cutClosed"}
  /\ \A c \in {c2s, s2c} : Len(c) <= Cap
  /\ srv \in [Loops -> {"wait", "send", "done"}]
  /\ asks \in [Call -> {None, "work", "ok", "error"}]
  /\ reader \in [Reader -> {"receive", "deliver", "done"}]
  /\ call \in [Call -> {"idle", "send", "wait", "done"}]
  /\ store \in SUBSET Call
  /\ promise \in [Call -> {None, "ok", "error"}]

\* The stores of futures hold exactly the calls that are under way: none is
\* left behind by an error, a cancellation or a late response.
StoreExact == store = {q \in Call : call[q] \in {"send", "wait"}}

\* A request is in one place: under way, with its goroutine, or its response
\* under way; so a call is answered at most once, and for its own request.
OneCopy ==
  \A q \in Call :
    LET copies == Cardinality({i \in DOMAIN c2s : c2s[i].type = "req" /\ c2s[i].id = q})
                  + (IF asks[q] # None THEN 1 ELSE 0)
                  + Cardinality({i \in DOMAIN s2c : s2c[i].id = q})
    IN /\ copies <= 1
       /\ call[q] \in {"idle", "send"} \/ promise[q] # None => copies = 0

\* When the client closes, all loops of ServeNode end and it returns, so that
\* the handler gives its node back, even while a lookup finds nothing.  This needs
\* the server to learn of it: over a connection that was cut the watchdog ends,
\* and the read loop stays where it is.
ServeEnds == []<>(conn = "clientClosed" => served)

\* Close of the client returns: no loop stays in the connection or the hub, though
\* the connection was cut or the application receives no more.
ClientCloses == []<>(closing # "closing")

\* A call returns while the connection stays up and the server is not cancelled,
\* although data and responses share the connection and the read loops.  It needs
\* the node to find what is looked for, and the application to receive.
CallReturns ==
  \A q \in Call :
    \/ []<>(call[q] # "wait" \/ conn # "up" \/ Cancelled)
    \/ <>[](asks[q] = "work")
    \/ \E r \in Reader : <>[](reader[r] = "deliver")

\* "If the context is cancelled ServeNode returns nil" (server.go:25).
CancelReturns == sctx ~> served

============================================================================
