--------------------------- MODULE MCRouterNetwork ---------------------------
(* Two addresses a1 and a2, a2 a one-hop peer; prefixes fa of a1 only and   *)
(* fab of both; lookups of the keys of a1 and of a2.                        *)
EXTENDS RouterNetwork

CONSTANTS a1, a2, fa, fab, la, lb, r2

MCWants == [q \in Query |-> CASE q \in {fa, la} -> {a1}
                              [] q = fab -> {a1, a2}
                              [] q = lb -> {a2}]

\* The second read loop takes no part once there is data.
MCNext == Next /\ (data' > 0 => reader'[r2].at \in {"receive", "stopped"})

MCSpec == Init /\ [][MCNext]_vars /\ Fairness

----------------------------------------------------------------------------
\* A call that created its promise returns once the router knows an answer, and
\* Close stops all read loops, those blocked in Deliver included.
CallsReturn == CreatorAnswered /\ CloseStops

============================================================================
