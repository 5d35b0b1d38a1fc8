----------------------------- MODULE ServiceFeed -----------------------------
(***************************************************************************)
(* What basic_service_monitor promises its user: a list of services, and   *)
(* callbacks that tell every change of it.  on_found introduces a service  *)
(* that was not listed, on_updated changes one that is, and on_lost        *)
(* removes one, handing over what was last known of it.                    *)
(***************************************************************************)
VARIABLES
    known,  \* services(): instance |-> resolved service
    calls   \* the callbacks of the latest step, at most one for an instance

vars == <<known, calls>>

Of(C, kind) == {c.inst : c \in {d \in C : d.cb = kind}}

Init == known = <<>> /\ calls = {}

Legal(c) ==
    \/ c.cb = "found" /\ c.inst \notin DOMAIN known
    \/ c.cb = "updated" /\ c.inst \in DOMAIN known /\ c.svc # known[c.inst]
    \/ c.cb = "lost" /\ c.inst \in DOMAIN known /\ c.svc = known[c.inst]

Next ==
    /\ \A c \in calls' : Legal(c)
    /\ \A c, d \in calls' : c.inst = d.inst => c = d
    /\ known' = [i \in (DOMAIN known \cup Of(calls', "found")) \ Of(calls', "lost") |->
                   IF \E c \in calls' : c.inst = i
                   THEN (CHOOSE c \in calls' : c.inst = i).svc ELSE known[i]]

Spec == Init /\ [][Next]_vars

=============================================================================
