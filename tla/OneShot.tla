------------------------------- MODULE OneShot -------------------------------
(***************************************************************************)
(* What an async_*() call of a peer promises: the operation is started     *)
(* once, its completion handler is called once, and nothing is called for  *)
(* an operation whose peer was destroyed first.                            *)
(***************************************************************************)
CONSTANT Operations
VARIABLE status    \* operation |-> "idle", "pending", "completed" or "abandoned"

States == {"idle", "pending", "completed", "abandoned"}
Moves(S, to) == status' = [o \in Operations |-> IF o \in S THEN to ELSE status[o]]

Init == status = [o \in Operations |-> "idle"]

Start(o) == status[o] = "idle" /\ Moves({o}, "pending")

\* One handler may end several operations of its peer: stop() does.
End(S, how) == S # {} /\ (\A o \in S : status[o] = "pending") /\ Moves(S, how)

Next ==
    \/ \E o \in Operations : Start(o)
    \/ \E S \in SUBSET Operations : End(S, "completed") \/ End(S, "abandoned")

Spec == Init /\ [][Next]_status

=============================================================================
