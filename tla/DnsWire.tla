------------------------------- MODULE DnsWire -------------------------------
(***************************************************************************)
(* The reader and the writer together: the records that a packet delivers  *)
(* become the known answers of a query, and the packets of that query are  *)
(* read by whoever receives them.                                          *)
(***************************************************************************)
EXTENDS DnsWrite

CONSTANT QueryName

ASSUME WireQuery == encode_dns_name(QueryName) # <<>>

VARIABLES
    stage,   \* "frame" is read, the query is "built", "reread"
    known,   \* the known answers of the query
    packet,  \* the packet that build_dns_query_tc() is filling
    sent,    \* the packets it has finished
    read     \* how many of them have been read or are being read

wireVars == <<vars, stage, known, packet, sent, read>>

WireInit ==
    /\ Init
    /\ stage = "frame" /\ known = <<>> /\ packet = NoPacket /\ sent = <<>> /\ read = 0

Arrives(bytes) ==
    /\ buf' = bytes
    /\ pc' = "header"
    /\ offset' = 0 /\ questions' = 0 /\ rrs' = 0 /\ pos' = 0
    /\ meta' = NoMeta /\ rd' = NoName /\ data' = <<>> /\ extents' = <<>> /\ touched' = {}

\* send_ptr_query(), and build_dns_query_tc() up to its loop.
StartQuery ==
    /\ stage = "frame" /\ pc = "done"
    /\ stage' = "built"
    /\ known' = records
    /\ packet' = NewPacket(QueryName)
    /\ UNCHANGED <<vars, sent, read>>

Given == Len(FlattenSeq([i \in DOMAIN sent |-> sent[i].answers])) + Len(packet.answers)

\* One iteration of the loop over the known answers.
AddAnswer ==
    /\ stage = "built" /\ Given < Len(known)
    /\ LET r == known[Given + 1]
           answer == append_known_answer(r)
       IN  IF Overfull(packet, answer)
           THEN /\ sent' = Append(sent, Finished(packet, 1))
                /\ packet' = Add(NewPacket(QueryName), r, answer)
           ELSE packet' = Add(packet, r, answer) /\ UNCHANGED sent
    /\ UNCHANGED <<vars, stage, known, read>>

\* The last packet is finished, and the first one is sent.
FinishQuery ==
    /\ stage = "built" /\ Given = Len(known)
    /\ stage' = "reread"
    /\ sent' = Append(sent, Finished(packet, 0))
    /\ packet' = NoPacket
    /\ Arrives(sent'[1].bytes)
    /\ read' = 1
    /\ records' = <<>>
    /\ UNCHANGED known

\* send_tc_packets(): the continuation.
Continue ==
    /\ stage = "reread" /\ pc = "done" /\ read < Len(sent)
    /\ Arrives(sent[read + 1].bytes)
    /\ read' = read + 1
    /\ UNCHANGED <<stage, records, known, packet, sent>>

Walk == Next /\ UNCHANGED <<stage, known, packet, sent, read>>

WireNext == Walk \/ StartQuery \/ AddAnswer \/ FinishQuery \/ Continue

\* A walk runs to its end: it is one call.
WireSpec == WireInit /\ [][WireNext]_wireVars /\ WF_wireVars(WireNext)

-----------------------------------------------------------------------------
Finish == stage = "reread" /\ pc = "done" /\ read = Len(sent)

\* A string is a name's text when none of its labels is empty and it is not too long
\* to be written.
IsText(s) ==
    /\ encode_dns_name(s) # <<>>
    /\ \A i \in DOMAIN s : s[i] = Dot => i > 1 /\ s[i - 1] # Dot

Representable(r) ==
    /\ IsText(r.name)
    /\ r.type = "ptr" => IsText(r.data[1])
    /\ r.type = "srv" => IsText(r.data[2])

\* The known answers that a query carries are, when its packets are read again, the
\* records they were made of, in their order and across the continuation packets
\* (append_known_answer() and build_dns_query_tc() against parse::record()).
RoundTrip ==
    (Finish /\ \A i \in DOMAIN known : Representable(known[i])) => records = known

\* build_dns_query_tc() gives every known answer to one packet, in their order; no
\* packet exceeds the payload but one that carries a single answer, and the TC bit
\* says of every packet but the last that another one follows.
Split ==
    stage = "reread" =>
        /\ FlattenSeq([i \in DOMAIN sent |-> sent[i].answers]) = known
        /\ \A i \in DOMAIN sent :
              /\ Len(sent[i].bytes) > MaxPayload => Len(sent[i].answers) <= 1
              /\ (sent[i].bytes[W + 1] = 1) = (i < Len(sent))

\* Known answers arrive: each is in one packet of the series, in order and within the
\* payload, and is read there as the record it was made of.
AnswersArrive ==
    /\ Split
    /\ RoundTrip

\* Every packet is read to its end, whatever it holds: the loops over questions,
\* records, labels, pointers and strings end.
Terminates == <>Finish

\* "cycles are impossible by construction": the pointer that read_dns_name() follows
\* leads to no labels that lead back to the pointer.
NoCycle ==
    LET o == rd.offset
        LeadsBack[i \in 0..o] == i = o \/ (At(i) \in 1..(Tag - 1) /\ PastLabel(i) <= o /\ LeadsBack[PastLabel(i)])
        target == (At(o) % Tag) * Base + At(o + 1)
    IN  (pc = "read" /\ At(o) >= 3 * Tag /\ o + 1 < Size /\ target < o) => ~LeadsBack[target]

\* "Each packet header's ancount reflects the number of answers in that packet."
CountsAnswers ==
    stage = "reread" => \A i \in DOMAIN sent :
        LET there == SelectSeq(sent[i].answers, LAMBDA r : append_known_answer(r) # <<>>)
        IN  SubSeq(sent[i].bytes, 3 * W + 1, 4 * W) = Put(Len(there))

\* "Silently skips malformed records": a record is delivered when its owner name could
\* be read.
OwnerRead == [][(pc = "read" /\ records' # records /\ pc' = "record") => At(rd.offset) = 0]_wireVars

\* The reader and the writer have one limit on names: what was read can be written.
ReadIsWritable == \A i \in DOMAIN records : encode_dns_name(records[i].name) # <<>>

=============================================================================
