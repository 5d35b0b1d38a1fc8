----------------------------- MODULE ServiceLife -----------------------------
(***************************************************************************)
(* What a service server promises its user and its network: it may         *)
(* advertise names until it closes, closing withdraws all of them for      *)
(* good, on_ready reports success only for an advertised service, and      *)
(* on_done comes last.                                                     *)
(***************************************************************************)
CONSTANT Names

VARIABLES
    advertised,  \* the names others may hold records of
    closed,      \* the server has stopped, or failed to claim a name
    ready,       \* what on_ready was called with
    done         \* on_done was called

vars == <<advertised, closed, ready, done>>

Init == advertised = {} /\ closed = FALSE /\ ready = "pending" /\ done = FALSE

Advertise ==
    /\ ~closed
    /\ \E n \in Names : advertised' = advertised \cup {n}
    /\ ready' = ready \/ (ready = "pending" /\ ready' = "ok")
    /\ UNCHANGED <<closed, done>>

Close ==
    /\ ~closed
    /\ closed' = TRUE
    /\ advertised' = {}
    /\ ready' = ready \/ (ready = "pending" /\ ready' = "conflict")
    /\ UNCHANGED done

Complete ==
    /\ closed
    /\ ~done
    /\ done' = TRUE
    /\ ready' = IF ready = "pending" THEN "canceled" ELSE ready
    /\ UNCHANGED <<advertised, closed>>

Next == Advertise \/ Close \/ Complete

Spec == Init /\ [][Next]_vars

=============================================================================
