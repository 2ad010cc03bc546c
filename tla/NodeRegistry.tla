---------------------------- MODULE NodeRegistry ----------------------------
(****************************************************************************)
(* What a Service promises about the nodes it opens (inet256.Service,       *)
(* doc/10_Spec.md 2.1): Open makes a node that was never used before, for a *)
(* key that has no open node; a node leaves the service once, is released   *)
(* once, and neither comes back.                                            *)
(****************************************************************************)
CONSTANTS Key, Handle, None

VARIABLES
  owner,       \* owner[h] : the key that node h was opened with
  status       \* status[h] : "new", "open", "dropped", then "released"

Init ==
  /\ owner = [h \in Handle |-> None]
  /\ status = [h \in Handle |-> "new"]

Open(k, h) ==
  /\ status[h] = "new"
  /\ \A g \in Handle : owner[g] = k => status[g] # "open"
  /\ owner' = [owner EXCEPT ![h] = k]
  /\ status' = [status EXCEPT ![h] = "open"]

Drop(h) ==
  /\ status[h] = "open"
  /\ status' = [status EXCEPT ![h] = "dropped"]
  /\ UNCHANGED owner

Release(h) ==
  /\ status[h] \in {"open", "dropped"}
  /\ status' = [status EXCEPT ![h] = "released"]
  /\ UNCHANGED owner

Next == \E h \in Handle : \/ \E k \in Key : Open(k, h)
                          \/ Drop(h)
                          \/ Release(h)

Spec == Init /\ [][Next]_<<owner, status>>

============================================================================
