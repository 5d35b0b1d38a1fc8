------------------------------- MODULE MCPeers -------------------------------
(***************************************************************************)
(* Instances of Peers for TLC.                                             *)
(***************************************************************************)
EXTENDS Peers, TLC

CONSTANTS qu, ob, di

Packet(ttl, question, answer, types) ==
    [ttl |-> ttl, question |-> question, answer |-> answer, types |-> types]

\* A querier beside an observer, and a discovery.
QuerierObserver == (qu :> "querier") @@ (ob :> "observer")
QuerierDiscovery == (qu :> "querier") @@ (di :> "discovery")
OneObserver == ob :> "observer"
OneDiscovery == di :> "discovery"

QueryObserve == {<<qu, "query">>, <<ob, "observe">>}
QueryBrowse == {<<qu, "query">>, <<di, "browse">>}
OneObservation == {<<ob, "observe">>}
DiscoverEnumerate == {<<di, "discover">>, <<di, "enumerate">>}

\* A duplicate of the question, and an answer without a TTL.
QuestionOrAnswer == {Packet("enough", TRUE, FALSE, FALSE), Packet("unknown", FALSE, TRUE, TRUE)}

\* The same, and an answer from off the link.
AlsoOffLink == QuestionOrAnswer \cup {Packet("low", FALSE, TRUE, TRUE)}

=============================================================================
