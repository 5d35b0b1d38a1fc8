--------------------------- MODULE MulticastSocket ---------------------------
(***************************************************************************)
(* How DefaultSocket's constructor opens and configures its socket: the    *)
(* system calls in their order, up to the first one that fails.            *)
(*                                                                         *)
(* An address is its family: "v4", "v6", or "none" when it is not given.   *)
(***************************************************************************)
EXTENDS Sequences

\* socket_options: the multicast group, the interface address, and whether some
\* interface has that address when the calls are made.
Options == [group : {"v4", "v6"}, interface : {"none", "v4", "v6"}, there : BOOLEAN]

\* The descriptor, the error code, and the interface of the membership.
NotOpen == [fd |-> FALSE, ec |-> FALSE, member |-> "none"]

Bind == <<"socket", "SO_REUSEADDR", "O_NONBLOCK", "bind">>

configure_ipv4(opts) ==
    (IF opts.interface = "none" THEN <<>> ELSE <<"inet_pton", "IP_MULTICAST_IF">>)
    \o <<"IP_ADD_MEMBERSHIP", "IP_MULTICAST_TTL", "IP_MULTICAST_LOOP">>

\* An interface address that is not found is interface 0, the default one.
configure_ipv6(opts) ==
    (IF opts.interface = "none" THEN <<>> ELSE <<"IPV6_MULTICAST_IF">>)
    \o <<"IPV6_JOIN_GROUP", "IPV6_MULTICAST_HOPS", "IPV6_MULTICAST_LOOP">>

\* The text of an IPv6 address is no IPv4 address, and the kernel knows no interface
\* by an address that is gone.
Fails(call, opts) ==
    \/ call = "inet_pton" /\ opts.interface # "v4"
    \/ call \in {"IP_MULTICAST_IF", "IP_ADD_MEMBERSHIP"} /\ opts.interface # "none" /\ ~opts.there

Member(opts) ==
    IF opts.interface = opts.group /\ opts.there THEN "interface" ELSE "default"

Opened(opts) == [fd |-> TRUE, ec |-> FALSE, member |-> Member(opts)]

cleanup_on_error(s) == [s EXCEPT !.ec = TRUE, !.fd = FALSE]

open_and_configure ==
    [opts \in Options |->
        LET calls == Bind \o IF opts.group = "v6" THEN configure_ipv6(opts) ELSE configure_ipv4(opts)
        IN  IF \E i \in DOMAIN calls : Fails(calls[i], opts) THEN cleanup_on_error(Opened(opts))
            ELSE Opened(opts)]

=============================================================================
