----------------------------- MODULE MCNicGroup -----------------------------
(***************************************************************************)
(* Small instances of NicGroup: one interface that changes its address,    *)
(* and one that the filter lets through in one of its states only.         *)
(***************************************************************************)
EXTENDS NicGroup

CONSTANTS n1, n2, address1, address2, ipv6_only, filtered

MCNics == {n1, n2}
MCStates == {address1, address2, ipv6_only, filtered}
MCPasses == MCStates \ {filtered}
MCStatesOf == [n \in MCNics |-> IF n = n1 THEN {address1, address2} ELSE {ipv6_only, filtered}]

\* With an interface that has an IPv6 address only, as one without DHCP.
LinkLocal == [n \in MCNics |-> {address1, ipv6_only}]

MCFamilies == [s \in MCStates |->
    CASE s = address1 -> {"v4", "v6"} [] s = address2 -> {"v4"} [] s = ipv6_only -> {"v6"}
      [] s = filtered -> {}]

\* The default socket_options, and a factory that follows the interface.
DefaultGroup == [s \in MCStates |-> "v4"]
FactoryGroup == [s \in MCStates |-> IF s = ipv6_only THEN "v6" ELSE "v4"]

=============================================================================
