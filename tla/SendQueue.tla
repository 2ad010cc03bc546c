------------------------------ MODULE SendQueue ------------------------------
(****************************************************************************)
(* internal/netutil: ServiceGroup restarts the services it runs, a second   *)
(* after they fail, until it is stopped; SendQueue runs two services in a   *)
(* group, one that sends what is queued and one that closes the channel     *)
(* done.                                                                    *)
(****************************************************************************)
EXTENDS Naturals, Sequences, FiniteSets

CONSTANTS
  Depth,       \* of the queue
  Msg,         \* messages; each is given to Tell by a goroutine of its own
  None

VARIABLES
  ctx,         \* the group was stopped
  service,     \* "run", "send", "crashed" or "done" : the service run
  closer,      \* the service that closes done has ended
  todo,        \* the channel
  tell,        \* tell[m] : None, "blocked", "accepted", "closed"
  accepted,    \* auxiliary: messages in the order in which Tell returned nil
  tried,       \* auxiliary: messages given to send, in order
  stop         \* "no", "waiting", "stopped" : Close

vars == <<ctx, service, closer, todo, tell, accepted, tried, stop>>

Init ==
  /\ ctx = FALSE /\ service = "run" /\ closer = FALSE
  /\ todo = <<>> /\ tell = [m \in Msg |-> None]
  /\ accepted = <<>> /\ tried = <<>>
  /\ stop = "no"

----------------------------------------------------------------------------
(* SendQueue.                                                               *)

\* Tell waits for room or for done; with both, either.
TellBegin(m) ==
  /\ tell[m] = None
  /\ tell' = [tell EXCEPT ![m] = "blocked"]
  /\ UNCHANGED <<ctx, service, closer, todo, accepted, tried, stop>>

TellEnd(m) ==
  /\ tell[m] = "blocked"
  /\ \/ /\ Len(todo) < Depth
        /\ todo' = Append(todo, m)
        /\ accepted' = Append(accepted, m)
        /\ tell' = [tell EXCEPT ![m] = "accepted"]
     \/ /\ closer
        /\ tell' = [tell EXCEPT ![m] = "closed"]
        /\ UNCHANGED <<todo, accepted>>
  /\ UNCHANGED <<ctx, service, closer, tried, stop>>

\* run takes a message and sends it, or stops; with both possible, either.
RunTakes ==
  /\ service = "run" /\ todo # <<>>
  /\ todo' = Tail(todo)
  /\ tried' = Append(tried, Head(todo))
  /\ service' = "send"
  /\ UNCHANGED <<ctx, closer, tell, accepted, stop>>

\* Variant: a message that could not be sent is queued again.
RunSendsAgain ==
  /\ service = "send"
  /\ \/ service' = "run" /\ UNCHANGED todo
     \/ service' = "crashed" /\ todo' = Append(todo, tried[Len(tried)])
  /\ UNCHANGED <<ctx, closer, tell, accepted, tried, stop>>

\* send fails or not; when it fails the message is gone.
RunSends ==
  /\ service = "send"
  /\ service' \in {"run", "crashed"}
  /\ UNCHANGED <<ctx, closer, todo, tell, accepted, tried, stop>>

\* ctx.Done: returning ctx.Err() ends the service for good.
RunStops ==
  /\ ctx /\ service = "run"
  /\ service' = "done"
  /\ UNCHANGED <<ctx, closer, todo, tell, accepted, tried, stop>>

\* ServiceGroup.Go: an error ends the service if the group is stopped; else it
\* is run again after a second, during which the group may be stopped.
Restarts ==
  /\ service = "crashed"
  /\ service' \in {"run"} \cup (IF ctx THEN {"done"} ELSE {})
  /\ UNCHANGED <<ctx, closer, todo, tell, accepted, tried, stop>>

CloserEnds ==
  /\ ctx /\ ~closer
  /\ closer' = TRUE
  /\ UNCHANGED <<ctx, service, todo, tell, accepted, tried, stop>>

CloseBegin ==
  /\ stop = "no"
  /\ ctx' = TRUE
  /\ stop' = "waiting"
  /\ UNCHANGED <<service, closer, todo, tell, accepted, tried>>

CloseReturns ==
  /\ stop = "waiting" /\ closer /\ service = "done"
  /\ stop' = "stopped"
  /\ UNCHANGED <<ctx, service, closer, todo, tell, accepted, tried>>

Next ==
  \/ \E m \in Msg : TellBegin(m) \/ TellEnd(m)
  \/ RunTakes \/ RunSends \/ RunStops \/ Restarts \/ CloserEnds
  \/ CloseBegin \/ CloseReturns

Spec == Init /\ [][Next]_vars

\* Services go on, a goroutine in Tell gets its turn, and a service that finds
\* messages and a stopped group does not choose the messages for ever.
Fairness ==
  /\ WF_vars(RunTakes \/ RunSends \/ Restarts) /\ SF_vars(RunStops)
  /\ WF_vars(CloserEnds) /\ WF_vars(CloseReturns)
  /\ \A m \in Msg : SF_vars(TellEnd(m))

FairSpec == Spec /\ Fairness

----------------------------------------------------------------------------
(* Properties.                                                              *)

\* Messages are sent in the order in which Tell accepted them, each once; what
\* was accepted and not tried is in the queue, within its depth.
InOrder == tried \o todo = accepted /\ Len(todo) <= Depth

\* An accepted message is given to send unless the queue is closed, although
\* the service may have failed before.
Tried ==
  []<>(\A m \in Msg : tell[m] = "accepted" => ctx \/ \E i \in DOMAIN tried : tried[i] = m)

\* Close returns, and so does every Tell, although the queue may be full.
CloseAndTellReturn == []<>(stop # "waiting" /\ \A m \in Msg : tell[m] # "blocked")

============================================================================
