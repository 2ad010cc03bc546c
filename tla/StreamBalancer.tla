---------------------------- MODULE StreamBalancer ----------------------------
(****************************************************************************)
(* inet256lb: StreamBalancer accepts connections from a frontend, gives     *)
(* each to the backend with the fewest active ones, and copies between the  *)
(* two (PlumbRWC).  Backends come and go meanwhile.  The counts are read    *)
(* one by one, while other connections change them.                         *)
(*                                                                          *)
(* An entry is one incarnation of a backend; a removed entry lives on with  *)
(* the connections that use it.                                             *)
(****************************************************************************)
EXTENDS Integers, FiniteSets

CONSTANTS
  Key,         \* names of backends
  Entry,       \* entries that AddBackend can make
  Conn,        \* connections that the frontend can accept
  None

VARIABLES
  backends,    \* backends[k] : the entry of k, or None
  fresh,       \* entries not made yet
  active,      \* active[e]
  conn,        \* conn[c] : the goroutine of connection c
  serve        \* "accept", "waiting", "returned" : ServeFrontend

vars == <<backends, fresh, active, conn, serve>>

\* f and b: the frontend's and the backend's connection are open.  endF and endB:
\* their remote ends "talk", have finished ("fin") and may still read, or are
\* "gone".  copyF copies from the frontend to the backend, copyB back: each is in
\* Read, in Write, or done.
Idle == [at |-> "none", todo |-> {}, best |-> None, min |-> 0, f |-> FALSE, b |-> FALSE,
         endF |-> "talks", endB |-> "talks", copyF |-> "none", copyB |-> "none"]

Init ==
  /\ backends = [k \in Key |-> None]
  /\ fresh = Entry
  /\ active = [e \in Entry |-> 0]
  /\ conn = [c \in Conn |-> Idle]
  /\ serve = "accept"

Listed == {backends[k] : k \in Key} \ {None}
Set(c, r) == conn' = [conn EXCEPT ![c] = r]

----------------------------------------------------------------------------
AddBackend(k) ==
  /\ backends[k] = None
  /\ \E e \in fresh : /\ backends' = [backends EXCEPT ![k] = e]
                      /\ fresh' = fresh \ {e}
  /\ UNCHANGED <<active, conn, serve>>

RemoveBackend(k) ==
  /\ backends[k] # None
  /\ backends' = [backends EXCEPT ![k] = None]
  /\ UNCHANGED <<fresh, active, conn, serve>>

\* ServeFrontend: Open of a listener accepts, or fails once it is closed; it does
\* not look at its context.
Accept(c) ==
  /\ serve = "accept" /\ conn[c].at = "none"
  /\ Set(c, [Idle EXCEPT !.at = "pick", !.f = TRUE])
  /\ UNCHANGED <<backends, fresh, active, serve>>

ListenerCloses ==
  /\ serve = "accept"
  /\ serve' = "waiting"
  /\ UNCHANGED <<backends, fresh, active, conn>>

ServeReturns ==
  /\ serve = "waiting"
  /\ \A c \in Conn : conn[c].at \in {"none", "done"}
  /\ serve' = "returned"
  /\ UNCHANGED <<backends, fresh, active, conn>>

----------------------------------------------------------------------------
(* serveFrontendConn.                                                       *)

\* pickBackend holds the read lock: backends stay, counts change.
PickBegin(c) ==
  /\ conn[c].at = "pick"
  /\ IF Listed = {} THEN Set(c, [conn[c] EXCEPT !.at = "done"])
     ELSE Set(c, [conn[c] EXCEPT !.at = "scan", !.todo = Listed])
  /\ UNCHANGED <<backends, fresh, active, serve>>

PickNext(c, e) ==
  /\ conn[c].at = "scan" /\ e \in conn[c].todo
  /\ LET better == conn[c].best = None \/ active[e] < conn[c].min
         todo == conn[c].todo \ {e}
     IN Set(c, [conn[c] EXCEPT !.todo = todo,
                               !.best = IF better THEN e ELSE @,
                               !.min = IF better THEN active[e] ELSE @,
                               !.at = IF todo = {} THEN "picked" ELSE "scan"])
  /\ UNCHANGED <<backends, fresh, active, serve>>

Count(c) ==
  /\ conn[c].at = "picked"
  /\ active' = [active EXCEPT ![conn[c].best] = @ + 1]
  /\ Set(c, [conn[c] EXCEPT !.at = "dial"])
  /\ UNCHANGED <<backends, fresh, serve>>

\* Variant: the count is not given back when the backend cannot be reached.
DialUncounted(c) ==
  /\ conn[c].at = "dial"
  /\ \/ Set(c, [conn[c] EXCEPT !.at = "plumb", !.b = TRUE, !.copyF = "read", !.copyB = "read"])
     \/ Set(c, [conn[c] EXCEPT !.at = "done"])
  /\ UNCHANGED <<backends, fresh, active, serve>>

\* backend.Open.  When it fails the goroutine returns.
Dial(c) ==
  /\ conn[c].at = "dial"
  /\ \/ /\ Set(c, [conn[c] EXCEPT !.at = "plumb", !.b = TRUE, !.copyF = "read", !.copyB = "read"])
        /\ UNCHANGED active
     \/ /\ Set(c, [conn[c] EXCEPT !.at = "done"])
        /\ active' = [active EXCEPT ![conn[c].best] = @ - 1]
  /\ UNCHANGED <<backends, fresh, serve>>

----------------------------------------------------------------------------
(* PlumbRWC: each copy closes what it writes to when it ends.  A Read ends  *)
(* when its connection is closed or its remote end has finished; a Write    *)
(* ends when the remote end reads or is gone, or when its own connection is *)
(* closed, which only the copy itself does.                                 *)

Remote(c) ==
  /\ conn[c].at = "plumb"
  /\ \E new \in {"fin", "gone"} :
       \/ conn[c].endF \notin {new, "gone"} /\ Set(c, [conn[c] EXCEPT !.endF = new])
       \/ conn[c].endB \notin {new, "gone"} /\ Set(c, [conn[c] EXCEPT !.endB = new])
  /\ UNCHANGED <<backends, fresh, active, serve>>

CopyReads(c) ==
  LET r == conn[c] IN
  /\ \/ r.copyF = "read" /\ r.f /\ r.endF = "talks" /\ Set(c, [r EXCEPT !.copyF = "write"])
     \/ r.copyB = "read" /\ r.b /\ r.endB = "talks" /\ Set(c, [r EXCEPT !.copyB = "write"])
  /\ UNCHANGED <<backends, fresh, active, serve>>

\* The remote end reads.
CopyWrites(c) ==
  LET r == conn[c] IN
  /\ \/ r.copyF = "write" /\ r.b /\ r.endB # "gone" /\ Set(c, [r EXCEPT !.copyF = "read"])
     \/ r.copyB = "write" /\ r.f /\ r.endF # "gone" /\ Set(c, [r EXCEPT !.copyB = "read"])
  /\ UNCHANGED <<backends, fresh, active, serve>>

CopyEnds(c) ==
  LET r == conn[c] IN
  /\ \/ /\ \/ r.copyF = "read" /\ (~r.f \/ r.endF # "talks")
           \/ r.copyF = "write" /\ (~r.b \/ r.endB = "gone")
        /\ Set(c, [r EXCEPT !.copyF = "done", !.b = FALSE])
     \/ /\ \/ r.copyB = "read" /\ (~r.b \/ r.endB # "talks")
           \/ r.copyB = "write" /\ (~r.f \/ r.endF = "gone")
        /\ Set(c, [r EXCEPT !.copyB = "done", !.f = FALSE])
  /\ UNCHANGED <<backends, fresh, active, serve>>

PlumbReturns(c) ==
  /\ conn[c].at = "plumb" /\ conn[c].copyF = "done" /\ conn[c].copyB = "done"
  /\ Set(c, [conn[c] EXCEPT !.at = "done"])
  /\ active' = [active EXCEPT ![conn[c].best] = @ - 1]
  /\ UNCHANGED <<backends, fresh, serve>>

Next ==
  \/ \E k \in Key : AddBackend(k) \/ RemoveBackend(k)
  \/ \E c \in Conn : \/ Accept(c) \/ PickBegin(c) \/ Count(c) \/ Dial(c) \/ Remote(c)
                     \/ CopyReads(c) \/ CopyWrites(c) \/ CopyEnds(c) \/ PlumbReturns(c)
                     \/ \E e \in Entry : PickNext(c, e)
  \/ ListenerCloses \/ ServeReturns

Spec == Init /\ [][Next]_vars

\* Goroutines go on.  Nothing is assumed of remote ends, which need neither send
\* nor read, nor answer a dial.
Fairness ==
  /\ \A c \in Conn : /\ WF_vars(PickBegin(c)) /\ WF_vars(\E e \in Entry : PickNext(c, e))
                     /\ WF_vars(Count(c)) /\ WF_vars(CopyEnds(c)) /\ WF_vars(PlumbReturns(c))
  /\ WF_vars(ServeReturns)

FairSpec == Spec /\ Fairness

----------------------------------------------------------------------------
(* Properties.                                                              *)

\* Each count is the number of goroutines that use the entry, whatever fails and
\* although backends are removed and added again under the same name.
CountsExact ==
  \A e \in Entry :
    active[e] = Cardinality({c \in Conn : conn[c].best = e /\ conn[c].at \in {"dial", "plumb"}})

\* When one end of a served stream has finished, both connections are closed and
\* the goroutine ends, unless a copy stays in Write because the end it writes to
\* does not read any more.
PlumbEnds ==
  \A c \in Conn :
    \/ []<>(conn[c].endF # "talks" \/ conn[c].endB # "talks" =>
              conn[c].at = "done" /\ ~conn[c].f /\ ~conn[c].b)
    \/ <>[](conn[c].copyF = "write")
    \/ <>[](conn[c].copyB = "write")

============================================================================
