--------------------------- MODULE MCServiceMonitor ---------------------------
(***************************************************************************)
(* Two types on one host, of which the second points to an instance of the *)
(* first as well; the first instance may change its port.                  *)
(***************************************************************************)
EXTENDS ServiceMonitor

CONSTANTS t1, t2, i1, i2, h1, a1, v1, v2

Rec(rtype, name, data, ttl) ==
    [rtype |-> rtype, name |-> name, data |-> data, ttl |-> ttl, flush |-> FALSE]
Srv(i, p, ttl) == Rec("srv", i, [host |-> h1, port |-> p], ttl)

Link == {Rec("ptr", t1, i1, 1), Rec("ptr", t2, i1, 1), Rec("ptr", t2, i2, 1), Srv(i1, 1, 1),
         Srv(i1, 1, 0), Srv(i1, 2, 1), Srv(i2, 1, 1), Rec("a", h1, a1, 1),
         Rec("txt", i1, [k |-> v1], 1)}
LinkOps == {[op |-> "watch", arg |-> t1], [op |-> "unwatch", arg |-> t1],
            [op |-> "query_service_type", arg |-> t2],
            [op |-> "query_service_instance", arg |-> i1]}
LinkPackets == [observe |-> 3, ttl_refresh |-> 4, discover |-> 3]

ChangedPort == {Rec("ptr", t1, i1, 2), Srv(i1, 1, 2), Srv(i1, 2, 2), Rec("a", h1, a1, 2)}
OneInstance == {Rec("ptr", t1, i1, 2), Srv(i1, 1, 2), Srv(i1, 1, 0), Rec("a", h1, a1, 2)}
OneTypeOps == [op : {"watch", "unwatch"}, arg : {t1}]
ThreePackets == [m \in Modes |-> 3]
FourPackets == [m \in Modes |-> 4]

OneThreshold == <<80>>

=============================================================================
