------------------------------ MODULE WorkerPool ------------------------------
(****************************************************************************)
(* internal/netutil: WorkerPool.  SetCount changes one worker at a time,    *)
(* holding mu, and waits for a worker that it has cancelled.                *)
(****************************************************************************)
EXTENDS Naturals

CONSTANTS
  Count,       \* arguments of SetCount; Stop is SetCount(0)
  Caller,      \* goroutines that call SetCount
  None

VARIABLES
  workers,     \* the length of wp.workers
  finishing,   \* despawn waits for a worker
  want,        \* want[c] : the count that caller c wants, or None
  mu           \* the caller that holds wp.mu, or None

vars == <<workers, finishing, want, mu>>

Init ==
  /\ workers = 0 /\ finishing = FALSE
  /\ want = [c \in Caller |-> None]
  /\ mu = None

SetCount(c, n) ==
  /\ want[c] = None
  /\ want' = [want EXCEPT ![c] = n]
  /\ UNCHANGED <<workers, finishing, mu>>

Lock(c) ==
  /\ want[c] # None /\ mu = None
  /\ mu' = c
  /\ UNCHANGED <<workers, finishing, want>>

Spawn(c) ==
  /\ mu = c /\ ~finishing /\ workers < want[c]
  /\ workers' = workers + 1
  /\ UNCHANGED <<finishing, want, mu>>

Despawn(c) ==
  /\ mu = c /\ ~finishing /\ workers > want[c]
  /\ workers' = workers - 1
  /\ finishing' = TRUE
  /\ UNCHANGED <<want, mu>>

\* The worker's function returns.
WorkerEnds ==
  /\ finishing
  /\ finishing' = FALSE
  /\ UNCHANGED <<workers, want, mu>>

Unlock(c) ==
  /\ mu = c /\ ~finishing /\ workers = want[c]
  /\ mu' = None
  /\ want' = [want EXCEPT ![c] = None]
  /\ UNCHANGED <<workers, finishing>>

Next ==
  \/ \E c \in Caller :
       \/ \E n \in Count : SetCount(c, n)
       \/ Lock(c) \/ Spawn(c) \/ Despawn(c) \/ Unlock(c)
  \/ WorkerEnds

Spec == Init /\ [][Next]_vars

\* A goroutine that waits for wp.mu gets it, and cancelled workers return.
Fairness ==
  /\ \A c \in Caller : SF_vars(Lock(c)) /\ WF_vars(Spawn(c) \/ Despawn(c) \/ Unlock(c))
  /\ WF_vars(WorkerEnds)

FairSpec == Spec /\ Fairness

----------------------------------------------------------------------------
(* Properties.                                                              *)

\* Outside SetCount no worker that was cancelled still runs.
NoLeftOver == mu = None => ~finishing

\* SetCount returns, although other callers want other counts.
SetCountReturns == \A c \in Caller : []<>(want[c] = None)

============================================================================
