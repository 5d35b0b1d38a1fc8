------------------------------ MODULE DnsWrite ------------------------------
(***************************************************************************)
(* How a query with known answers is written: encode_dns_name(),           *)
(* append_known_answer() and the pieces of build_dns_query_tc().  What the  *)
(* functions append or return is a sequence of bytes; an empty one is the  *)
(* encoding error.                                                         *)
(***************************************************************************)
EXTENDS DnsFrame, SequencesExt

CONSTANTS
    MaxPayload,  \* max_query_payload
    CodeOf       \* the type number of a dns_type

ASSUME WirePayload == MaxPayload \in Nat /\ \A t \in Types \ {"other"} : TypeOf[CodeOf[t]] = t

\* push_u16_be().
Put(n) == IF W = 1 THEN <<n % Base>> ELSE <<(n \div Base) % Base, n % Base>>

MaxField == IF W = 1 THEN Base - 1 ELSE Base * Base - 1

Zeros(n) == [i \in 1..n |-> 0]

Prefixed(s) == <<Len(s)>> \o s

Undotted(name) == IF name # <<>> /\ Last(name) = Dot THEN Front(name) ELSE name

\* The length of the label that begins at place p of s: it ends at a dot or with s.
LabelLen(s, p) ==
    CHOOSE d \in 0..Len(s) :
        /\ p + d = Len(s) + 1 \/ s[p + d] = Dot
        /\ \A e \in 0..(d - 1) : s[p + e] # Dot

\* Each dot becomes the length byte of the label behind it.  A label that is empty
\* writes a root byte, and nothing when it is the last one.
encode_dns_name(name) ==
    LET s == Undotted(name)
        heads == {0} \union {i \in DOMAIN s : s[i] = Dot}
        labels == [i \in 1..(Len(s) + 1) |-> IF i - 1 \in heads THEN LabelLen(s, i) ELSE s[i - 1]]
        wire == IF Len(s) \in heads THEN labels ELSE Append(labels, 0)
    IN  IF (\E i \in heads : labels[i + 1] >= Tag) \/ Len(wire) > MaxNameLen THEN <<>> ELSE wire

\* An entry that is longer than a length byte can say is left out.
encode_txt_records(entries) ==
    LET fit == SelectSeq(entries, LAMBDA e : Len(e) < Base)
    IN  FlattenSeq([i \in DOMAIN fit |-> Prefixed(fit[i])])

append_dns_rr(name, type, rdata) ==
    IF name = <<>> \/ Len(rdata) > MaxField THEN <<>>
    ELSE name \o Put(CodeOf[type]) \o Zeros(3 * W) \o Put(Len(rdata)) \o rdata

\* Mutant: an SRV record is written without its priority, weight and port.
Rdata_NoIntegers(r) == CASE r.type \in {"a", "aaaa"} -> r.data[1]
                         [] r.type = "ptr" -> encode_dns_name(r.data[1])
                         [] r.type = "srv" -> encode_dns_name(r.data[2])
                         [] r.type = "txt" -> encode_txt_records(r.data)

Rdata(r) == CASE r.type \in {"a", "aaaa"} -> r.data[1]
              [] r.type = "ptr" -> encode_dns_name(r.data[1])
              [] r.type = "srv" -> r.data[1] \o encode_dns_name(r.data[2])
              [] r.type = "txt" -> encode_txt_records(r.data)

append_known_answer(r) == append_dns_rr(encode_dns_name(r.name), r.type, Rdata(r))

\* The id, the flags, and the counts; the question's type and class.
build_dns_query(name) ==
    LET encoded == encode_dns_name(name)
    IN  IF encoded = <<>> THEN <<>>
        ELSE Zeros(2 * W) \o Put(1) \o Zeros(3 * W) \o encoded \o Put(CodeOf["ptr"]) \o Put(1)

\* The packet that is being put together, and the answers that it was given.
NoPacket == [bytes |-> <<>>, answers |-> <<>>]

NewPacket(name) == [bytes |-> build_dns_query(name), answers |-> <<>>]

\* The TC bit is the lowest of the flags, the ancount is the fourth integer.
Finished(packet, tc) ==
    LET count == Put(Len(packet.answers))
        Patch(i, b) == IF i = W + 1 THEN tc
                       ELSE IF i \in (3 * W + 1)..(4 * W) THEN count[i - 3 * W] ELSE b
    IN  [packet EXCEPT !.bytes = [i \in DOMAIN @ |-> Patch(i, @[i])]]

\* Mutant: the packet is cut when the answers before this one have filled it.
Overfull_Before(packet, answer) == packet.answers # <<>> /\ Len(packet.bytes) > MaxPayload

Overfull(packet, answer) ==
    packet.answers # <<>> /\ Len(packet.bytes) + Len(answer) > MaxPayload

Add(packet, r, answer) ==
    [bytes |-> packet.bytes \o answer, answers |-> Append(packet.answers, r)]

=============================================================================
