---------------------------- MODULE MCNameProbing ----------------------------
(***************************************************************************)
(* Servers on hosts of their own that want the same name, with SRV data    *)
(* that differs.                                                           *)
(***************************************************************************)
EXTENDS NameProbing

CONSTANTS s1, s2, s3, n1

SameName == [s \in Servers |-> n1]
OwnHost == [s \in Servers |-> s]
Ordered == [s \in Servers |-> IF s = s1 THEN 2 ELSE IF s = s2 THEN 1 ELSE 0]

=============================================================================
