------------------------------ MODULE DnsFrame ------------------------------
(***************************************************************************)
(* How a received packet is read: walk_dns_frame() with the two loops over *)
(* a name, skip_dns_name() and read_dns_name(), and the parsers of the     *)
(* record types, one loop iteration to a step.                             *)
(*                                                                         *)
(* A byte is a number below Base, an integer on the wire takes W bytes     *)
(* (the code: Base = 256, Tag = 64, W = 2), and a string is a sequence of  *)
(* bytes, a '.' being the byte Dot.  Offsets count from 0, as in the code. *)
(***************************************************************************)
EXTENDS Integers, Sequences

CONSTANTS
    Tag,         \* the weight of a length byte's two upper bits: 64
    W,           \* the bytes of a wire integer: 2
    MaxHops,     \* max_hops = 4
    MaxNameLen,  \* max_name_len = 255
    Dot, Equals, \* the characters '.' and '='
    TypeOf,      \* the dns_type of a type number
    Frames       \* the packets that may arrive

ASSUME WireSizes ==
    /\ Tag \in Nat \ {0} /\ W \in {1, 2} /\ MaxHops \in Nat /\ MaxNameLen \in Nat \ {0}
    /\ Dot \in 0..(4 * Tag - 1) /\ Equals \in 0..(4 * Tag - 1) /\ Dot # Equals

Base == 4 * Tag

ASSUME WireFrames == Frames \subseteq Seq(0..(Base - 1))

HeaderLen == 6 * W
QuestionLen == 2 * W
RecordLen == 5 * W
SrvLen == 3 * W
AddressLen(type) == IF type = "a" THEN 2 * W ELSE 8 * W

Types == {"a", "aaaa", "ptr", "srv", "txt", "other"}

ASSUME WireTypes == \A n \in 0..(Base * Base - 1) : TypeOf[n] \in Types

VARIABLES
    buf,         \* the packet
    pc,          \* the place in the code
    offset,      \* walk_dns_frame's offset
    questions,   \* the questions still to skip
    rrs,         \* the records still to read
    meta,        \* the record_metadata of the record being read
    rd,          \* read_dns_name's locals, and which name it reads
    data,        \* what is parsed of the record's data
    pos,         \* txt()'s position
    records,     \* the records given to on_record
    extents,     \* the bytes that the records of this packet took: <<from, to>>
    touched      \* the offsets that the last step read

vars == <<buf, pc, offset, questions, rrs, meta, rd, data, pos, records, extents, touched>>

Size == Len(buf)

\* Reading past the end is undefined: the value is not meant to be used.
At(i) == IF i < Size THEN buf[i + 1] ELSE 0

Field(i) == IF W = 1 THEN At(i) ELSE At(i) * Base + At(i + 1)

Bytes(from, len) == from..(from + len - 1)

Slice(from, len) == [i \in 1..len |-> At(from + i - 1)]

NoMeta == [type |-> "other", name_offset |-> 0, record_offset |-> 0, record_length |-> 0]

NoName == [offset |-> 0, hops |-> 0, result |-> <<>>, of |-> "owner"]

Init ==
    /\ buf \in Frames
    /\ pc = "header"
    /\ offset = 0 /\ questions = 0 /\ rrs = 0 /\ pos = 0
    /\ meta = NoMeta /\ rd = NoName /\ data = <<>>
    /\ records = <<>> /\ extents = <<>> /\ touched = {}

-----------------------------------------------------------------------------
(* walk_dns_frame(). *)

ReadHeader ==
    /\ pc = "header"
    /\ IF Size < HeaderLen
       THEN pc' = "done" /\ touched' = {} /\ UNCHANGED <<questions, rrs, offset>>
       ELSE /\ pc' = "question"
            /\ touched' = Bytes(2 * W, 4 * W)
            /\ questions' = Field(2 * W)
            /\ rrs' = Field(3 * W) + Field(4 * W) + Field(5 * W)
            /\ offset' = HeaderLen
    /\ UNCHANGED <<buf, meta, rd, data, pos, records, extents>>

\* Mutant: the loops run once more than the header says.
More_Equal(n) == n >= 0

More(n) == n > 0

\* The head of the loop over the questions.
NextQuestion ==
    /\ pc = "question"
    /\ IF More(questions)
       THEN pc' = "skip_question" /\ questions' = questions - 1
       ELSE pc' = "record" /\ UNCHANGED questions
    /\ touched' = {}
    /\ UNCHANGED <<buf, offset, rrs, meta, rd, data, pos, records, extents>>

SkipQuestionFields ==
    /\ pc = "question_fields"
    /\ offset' = offset + QuestionLen
    /\ pc' = IF offset' > Size THEN "done" ELSE "question"
    /\ touched' = {}
    /\ UNCHANGED <<buf, questions, rrs, meta, rd, data, pos, records, extents>>

\* The head of the loop over the records.
NextRecord ==
    /\ pc = "record"
    /\ IF More(rrs)
       THEN /\ pc' = "skip_owner"
            /\ rrs' = rrs - 1
            /\ meta' = [meta EXCEPT !.name_offset = offset]
       ELSE pc' = "done" /\ UNCHANGED <<rrs, meta>>
    /\ touched' = {}
    /\ UNCHANGED <<buf, offset, questions, rd, data, pos, records, extents>>

\* Mutant: a label's length byte is not skipped.
PastLabel_NoLength(o) == o + At(o)

PastLabel(o) == o + 1 + At(o)

\* Mutant: the second byte of a pointer need not be there.
PointerFits_Half(o) == o < Size

PointerFits(o) == o + 1 < Size

\* One iteration of skip_dns_name().
SkipName ==
    /\ pc \in {"skip_question", "skip_owner"}
    /\ LET after == IF pc = "skip_owner" THEN "fields" ELSE "question_fields"
           b == At(offset)
       IN  IF offset >= Size
           THEN pc' = "done" /\ touched' = {} /\ UNCHANGED offset
           ELSE /\ touched' = {offset}
                /\ IF b >= 3 * Tag
                   THEN IF PointerFits(offset)
                        THEN offset' = offset + 2 /\ pc' = after
                        ELSE pc' = "done" /\ UNCHANGED offset
                   ELSE IF b = 0
                   THEN offset' = offset + 1 /\ pc' = after
                   ELSE offset' = PastLabel(offset) /\ pc' = IF offset' > Size THEN "done" ELSE pc
    /\ UNCHANGED <<buf, questions, rrs, meta, rd, data, pos, records, extents>>

\* Mutant: the next record is sought right behind the fixed fields.
RecordEnd_NoData(m) == m.record_offset

RecordEnd(m) == m.record_offset + m.record_length

ReadFields ==
    /\ pc = "fields"
    /\ IF offset + RecordLen > Size
       THEN pc' = "done" /\ touched' = {} /\ UNCHANGED <<offset, meta, extents>>
       ELSE LET at == offset + RecordLen
                len == Field(offset + 4 * W)
            IN  /\ touched' = Bytes(offset, RecordLen)
                /\ offset' = at
                /\ IF at + len > Size
                   THEN pc' = "done" /\ UNCHANGED <<meta, extents>>
                   ELSE /\ pc' = "parse"
                        /\ meta' = [meta EXCEPT !.type = TypeOf[Field(offset)],
                                                !.record_offset = at, !.record_length = len]
                        /\ extents' = Append(extents, <<meta.name_offset, at + len>>)
    /\ UNCHANGED <<buf, questions, rrs, rd, data, pos, records>>

\* The record is left, parsed or not.
Advance ==
    /\ pc' = "record"
    /\ offset' = RecordEnd(meta)
    /\ UNCHANGED <<buf, questions, rrs, meta, rd, pos, extents>>

SkipRecord == Advance /\ touched' = {} /\ UNCHANGED <<data, records>>

Deliver(name, content) ==
    records' = Append(records, [type |-> meta.type, name |-> name, data |-> content])

-----------------------------------------------------------------------------
(* parse::record() and read_dns_name(). *)

\* read_dns_name() is called.
ReadName(of, at) ==
    /\ pc' = "read"
    /\ rd' = [offset |-> at, hops |-> 0, result |-> <<>>, of |-> of]
    /\ UNCHANGED <<buf, offset, questions, rrs, meta, pos, records, extents>>

\* The record's parser, up to the first name that it reads.
Parse ==
    /\ pc = "parse"
    /\ LET from == meta.record_offset
           len == meta.record_length
       IN  CASE meta.type = "other" -> SkipRecord
             [] meta.type \in {"a", "aaaa"} ->
                    IF len # AddressLen(meta.type) THEN SkipRecord
                    ELSE /\ data' = <<Slice(from, AddressLen(meta.type))>>
                         /\ touched' = Bytes(from, AddressLen(meta.type))
                         /\ ReadName("owner", meta.name_offset)
             [] meta.type = "ptr" ->
                    data' = <<>> /\ touched' = {} /\ ReadName("rdata", from)
             [] meta.type = "srv" ->
                    IF len < SrvLen + 1 THEN SkipRecord
                    ELSE /\ data' = <<Slice(from, SrvLen)>>
                         /\ touched' = Bytes(from, SrvLen)
                         /\ ReadName("rdata", from + SrvLen)
             [] meta.type = "txt" ->
                    data' = <<>> /\ touched' = {} /\ ReadName("owner", meta.name_offset)

\* read_dns_name() returns: a name in the data that cannot be read ends the record,
\* an owner name that cannot be read is the empty string.
NameRead(ok, name) ==
    IF rd.of = "rdata"
    THEN IF ok
         THEN /\ data' = Append(data, name)
              /\ ReadName("owner", meta.name_offset)
         ELSE Advance /\ UNCHANGED <<data, records>>
    ELSE IF meta.type = "txt"
         THEN /\ pc' = "txt"
              /\ rd' = [rd EXCEPT !.result = IF ok THEN name ELSE <<>>]
              /\ pos' = meta.record_offset
              /\ UNCHANGED <<buf, offset, questions, rrs, meta, data, records, extents>>
         ELSE Deliver(IF ok THEN name ELSE <<>>, data) /\ Advance /\ UNCHANGED data

\* Mutant: a name may have one pointer more.
TooManyHops_OneMore(hops) == hops > MaxHops + 1

TooManyHops(hops) == hops > MaxHops

Joined(result) == IF result = <<>> THEN <<>> ELSE Append(result, Dot)

\* One iteration of read_dns_name().
ReadStep ==
    /\ pc = "read"
    /\ LET o == rd.offset
           b == At(o)
           target == (b % Tag) * Base + At(o + 1)
           name == Joined(rd.result) \o Slice(o + 1, b)
           Fail == NameRead(FALSE, <<>>)
       IN  IF o >= Size
           THEN touched' = {} /\ Fail
           ELSE IF b >= 3 * Tag
           THEN IF ~PointerFits(o)
                THEN touched' = {o} /\ Fail
                ELSE /\ touched' = {o, o + 1}
                     /\ IF target >= o \/ TooManyHops(rd.hops + 1)
                        THEN Fail
                        ELSE /\ rd' = [rd EXCEPT !.offset = target, !.hops = @ + 1]
                             /\ UNCHANGED <<buf, pc, offset, questions, rrs, meta, data, pos, records, extents>>
           ELSE IF b = 0
           THEN touched' = {o} /\ NameRead(TRUE, Joined(rd.result))
           ELSE IF b >= Tag \/ o + 1 + b > Size
           THEN touched' = {o} /\ Fail
           ELSE /\ touched' = Bytes(o, 1 + b)
                /\ IF Len(name) + 1 > MaxNameLen
                   THEN Fail
                   ELSE /\ rd' = [rd EXCEPT !.offset = o + 1 + b, !.result = name]
                        /\ UNCHANGED <<buf, pc, offset, questions, rrs, meta, data, pos, records, extents>>

\* Mutant: a string without a key is skipped without being passed.
PastEntry_Keyed(p, len, keyed) == IF keyed THEN p + 1 + len ELSE p

PastEntry(p, len, keyed) == p + 1 + len

\* One iteration of the loop of txt() over the strings.
TxtStep ==
    /\ pc = "txt"
    /\ LET len == At(pos)
           keyed == len = 0 \/ At(pos + 1) # Equals
           End == Deliver(rd.result, data) /\ Advance /\ UNCHANGED data
       IN  IF pos >= RecordEnd(meta)
           THEN touched' = {} /\ End
           ELSE IF pos + 1 + len > RecordEnd(meta)
           THEN touched' = {pos} /\ End
           ELSE /\ touched' = Bytes(pos, 1 + len)
                /\ pos' = PastEntry(pos, len, keyed)
                /\ data' = IF keyed THEN Append(data, Slice(pos + 1, len)) ELSE data
                /\ UNCHANGED <<buf, pc, offset, questions, rrs, meta, rd, records, extents>>

Next ==
    \/ ReadHeader \/ NextQuestion \/ SkipQuestionFields \/ NextRecord \/ SkipName
    \/ ReadFields \/ Parse \/ ReadStep \/ TxtStep

Spec == Init /\ [][Next]_vars

-----------------------------------------------------------------------------
Byte == 0..(Base - 1)

Strings == Seq(Byte)

Metas == [type : Types, name_offset : Nat, record_offset : Nat, record_length : Nat]

NameReads == [offset : Nat, hops : Nat, result : Strings, of : {"owner", "rdata"}]

Records == [type : Types \ {"other"}, name : Strings, data : Seq(Strings)]

\* The variables have the values that the declarations above give them.
TypeOK ==
    /\ buf \in Strings
    /\ pc \in {"header", "question", "skip_question", "question_fields", "record",
               "skip_owner", "fields", "parse", "read", "txt", "done"}
    /\ offset \in Nat /\ questions \in Nat /\ rrs \in Nat /\ pos \in Nat
    /\ meta \in Metas
    /\ rd \in NameReads
    /\ data \in Seq(Strings)
    /\ records \in Seq(Records)
    /\ extents \in Seq(Nat \X Nat)

\* No step of the walk reads a byte outside the packet, whatever the packet claims of
\* its counts, labels, pointers and lengths (the bounds checks of walk_dns_frame(),
\* the two name loops and the parsers are enough).
InBounds == touched \subseteq 0..(Size - 1)

\* The records of a packet lie one behind the other inside it: none begins before the
\* one before it has ended, and each one's data ends in the packet (the offset moves
\* past a record's data whether or not the record could be parsed).
Disjoint ==
    \A i \in DOMAIN extents :
        /\ HeaderLen <= extents[i][1] /\ extents[i][1] < extents[i][2] /\ extents[i][2] <= Size
        /\ i > 1 => extents[i - 1][2] <= extents[i][1]

\* The two loops agree on where a name ends: until its first pointer, read_dns_name()
\* stays before the fields at which skip_dns_name() stopped.
OwnerWithinName ==
    (pc = "read" /\ rd.of = "owner" /\ rd.hops = 0) =>
        rd.offset < meta.record_offset - RecordLen

\* What read_dns_name() has put together stays within its limits, so that a chain of
\* pointers ends: each hop is counted and each label lengthens the name.
NameBounded ==
    pc = "read" => rd.hops <= MaxHops /\ Len(rd.result) < MaxNameLen

\* The walk stays inside the packet: every read is in bounds, every record behind the
\* one before it, and every name within its own bytes and limits.
Confined ==
    /\ TypeOK
    /\ InBounds
    /\ Disjoint
    /\ OwnerWithinName
    /\ NameBounded

=============================================================================
