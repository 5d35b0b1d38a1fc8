------------------------------ MODULE MCDnsWire ------------------------------
(***************************************************************************)
(* Packets of up to two records for DnsWire, in bytes of four bits: labels *)
(* of up to three bytes (4 to 11 are the two reserved tags), pointers from *)
(* 12, integers of one byte.  The header takes six bytes, so <<12, 6>>     *)
(* points to the first name of the packet.                                 *)
(***************************************************************************)
EXTENDS DnsWire

\* The letter 'a' is 1, '.' is 2 and '=' is 3.
MCTypeOf == [n \in 0..255 |-> IF n \in 1..5 THEN <<"a", "ptr", "srv", "txt", "aaaa">>[n] ELSE "other"]

MCCodeOf == [a |-> 1, ptr |-> 2, srv |-> 3, txt |-> 4, aaaa |-> 5]

MCQueryName == <<1, 2>>

\* The root, one label, the longest name that is read, labels that hold dots, a label
\* that runs out of the packet, pointers to the header, to the first name, to
\* themselves and forward, and a reserved tag.
Owners == {<<0>>, <<1, 1, 0>>, <<2, 1, 1, 0>>, <<3, 1, 1, 1, 2, 1, 1, 0>>, <<2, 1, 2, 0>>, <<3, 1>>,
           <<12, 6>>, <<1, 1, 12, 6>>, <<12, 3>>, <<13, 0>>, <<12>>, <<5, 1, 1, 1, 1, 1, 0>>}

Datas == {<<>>, <<0>>, <<12>>, <<1, 1>>, <<1, 1, 0>>, <<12, 6>>, <<1, 3, 0>>, <<2, 1, 1, 5>>,
          <<1, 1, 1, 0>>, <<1, 1, 1, 1, 1, 0>>, <<1, 1, 1, 1, 1, 1, 1, 1>>, <<1, 1, 1, 12, 6>>}

\* A record whose length field is right, or says more than is left.
Record(o, t, d, more) == o \o <<t, 0, 0, 0, Len(d) + more>> \o d

Simple == {Record(<<1, 1, 0>>, 2, <<1, 1, 0>>, 0), Record(<<12, 6>>, 4, <<1, 1, 0>>, 0),
           Record(<<0>>, 1, <<1, 1>>, 0), Record(<<1, 1, 12, 6>>, 3, <<1, 1, 1, 12, 6>>, 0)}

Header(q, n) == <<0, 0, q, n, 0, 0>>

OneRecord == {Record(o, t, d, more) : o \in Owners, t \in 0..5, d \in Datas, more \in {0, 1}}

Question(o) == o \o <<0, 0>>

Whole ==
    {Header(0, 2) \o r \o s : r \in OneRecord, s \in Simple}
        \union {Header(0, 1) \o r : r \in OneRecord}
        \union {Header(0, 3) \o r \o s \o s2 : r \in Simple, s \in Simple, s2 \in Simple}
        \union {Header(1, 1) \o Question(o) \o r : o \in Owners, r \in Simple}

\* Packets that end early.
Cut == UNION {Prefixes(Header(1, 2) \o Question(o) \o r) : o \in Owners, r \in Simple}

MCFrames == Whole \union Cut

=============================================================================
