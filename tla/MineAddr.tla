------------------------------- MODULE MineAddr -------------------------------
(****************************************************************************)
(* inet256ipv6.MineAddr: workers generate keys until one of them has an     *)
(* address with enough leading zeros.  A worker looks at the context only   *)
(* after every CheckEvery keys, so several may reach the goal.  A key is    *)
(* the number of leading zeros of its address, which is all that counts.    *)
(****************************************************************************)
EXTENDS Naturals, FiniteSets

CONSTANTS
  Worker,       \* the goroutines
  MaxZeros,     \* the most leading zeros a key has
  Goal,         \* leading zeros asked for
  CheckEvery,   \* keys between two looks at the context
  NoKey

ASSUME GoalAssumption ==
  /\ MaxZeros \in Nat /\ Goal \in 1 .. MaxZeros
  /\ CheckEvery \in Nat \ {0}
  /\ NoKey \notin Nat

VARIABLES
  best,        \* best[w] : leading zeros of addrs[w]; all ones has none
  key,         \* key[w] : privKeys[w]
  tried,       \* tried[w] : j, the keys since the context was looked at
  at,          \* at[w] : "search" or "done"
  cancelled,   \* the group's context
  result       \* what MineAddr returned, an error with NoKey as the key; NoKey before

vars == <<best, key, tried, at, cancelled, result>>

Init ==
  /\ best = [w \in Worker |-> 0]
  /\ key = [w \in Worker |-> NoKey]
  /\ tried = [w \in Worker |-> 0]
  /\ at = [w \in Worker |-> "search"]
  /\ cancelled = FALSE
  /\ result = NoKey

Keep(w, lz) ==
  /\ best' = [best EXCEPT ![w] = lz]
  /\ key' = [key EXCEPT ![w] = lz]

\* One key is generated.
Try(w, lz) ==
  /\ at[w] = "search"
  /\ tried[w] < CheckEvery
  /\ IF lz > best[w] THEN Keep(w, lz) ELSE UNCHANGED <<best, key>>
  /\ IF lz > best[w] /\ lz >= Goal
       THEN /\ at' = [at EXCEPT ![w] = "done"]
            /\ cancelled' = TRUE
            /\ tried' = tried
       ELSE /\ tried' = [tried EXCEPT ![w] = @ + 1]
            /\ UNCHANGED <<at, cancelled>>
  /\ UNCHANGED result

Look(w) ==
  /\ at[w] = "search"
  /\ tried[w] = CheckEvery
  /\ tried' = [tried EXCEPT ![w] = 0]
  /\ at' = [at EXCEPT ![w] = IF cancelled THEN "done" ELSE @]
  /\ UNCHANGED <<best, key, cancelled, result>>

\* The caller cancels.
Cancel ==
  /\ ~ cancelled
  /\ cancelled' = TRUE
  /\ UNCHANGED <<best, key, tried, at, result>>

\* Wait returns; the best address that meets the goal is taken.
Return ==
  LET met == {w \in Worker : best[w] >= Goal} IN
  /\ result = NoKey
  /\ \A w \in Worker : at[w] = "done"
  /\ IF met = {} THEN result' = [addr |-> 0, key |-> NoKey]
     ELSE \E w \in met : /\ \A v \in met : best[v] <= best[w]
                         /\ result' = [addr |-> best[w], key |-> key[w]]
  /\ UNCHANGED <<best, key, tried, at, cancelled>>

Next ==
  \/ \E w \in Worker : Look(w) \/ \E lz \in 0 .. MaxZeros : Try(w, lz)
  \/ Cancel
  \/ Return

Fairness ==
  /\ \A w \in Worker : WF_vars(Look(w) \/ \E lz \in 0 .. MaxZeros : Try(w, lz))
  /\ WF_vars(Return)

Spec == Init /\ [][Next]_vars /\ Fairness

\* MineAddr returns an address with the key that belongs to it, of the goal's
\* length at least, and no worker had a better one; and it returns none only if
\* none had reached the goal, as when the caller cancels.
BestPair ==
  result # NoKey =>
    IF result.key = NoKey THEN \A w \in Worker : best[w] < Goal
    ELSE /\ result.key = result.addr
         /\ result.addr >= Goal
         /\ \A w \in Worker : best[w] <= result.addr

\* When one worker has found an address, or the caller cancels, MineAddr returns.
MineReturns == []<>(cancelled => result # NoKey)

=============================================================================
