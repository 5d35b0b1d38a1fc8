--------------------------- MODULE DnsFrameProofs ---------------------------
(***************************************************************************)
(* Proofs about the reader of packets, for packets of any length and       *)
(* content, any limits and either width of a wire integer.                 *)
(***************************************************************************)
EXTENDS DnsFrame, SequenceTheorems, TLAPS

\* A byte of the packet, or what stands for one behind its end, is a byte.
LEMMA AtIsByte ==
  ASSUME buf \in Strings, NEW i \in Nat
  PROVE  At(i) \in Byte /\ At(i) \in Nat
<1>1. Byte \subseteq Nat /\ 0 \in Byte
  BY WireSizes DEF Byte, Base
<1>2. i < Len(buf) => buf[i + 1] \in Byte
  BY DEF Strings
<1> QED
  BY <1>1, <1>2 DEF At, Size

\* A wire integer indexes the table of types, whatever its bytes are.
LEMMA FieldIsInRange ==
  ASSUME buf \in Strings, NEW i \in Nat
  PROVE  Field(i) \in Nat /\ Field(i) \in 0..(Base * Base - 1)
<1>1. At(i) \in Byte /\ At(i + 1) \in Byte
  BY AtIsByte
<1>2. Base \in Nat \ {0} /\ Byte = 0..(Base - 1)
  BY WireSizes DEF Base, Byte
<1>3. At(i) * Base + At(i + 1) \in 0..(Base * Base - 1)
  <2> DEFINE b == Base  hi == At(i)  lo == At(i + 1)
  <2>1. b \in Nat \ {0} /\ hi \in 0..(b - 1) /\ lo \in 0..(b - 1)
    BY <1>1, <1>2
  <2> HIDE DEF b, hi, lo
  <2>2. hi * b <= (b - 1) * b /\ hi * b \in Nat
    BY <2>1
  <2>3. (b - 1) * b = b * b - b
    BY <2>1
  <2>4. hi * b + lo \in 0..(b * b - 1)
    BY <2>1, <2>2, <2>3
  <2> QED
    BY <2>4 DEF b, hi, lo
<1>4. At(i) \in 0..(Base * Base - 1)
  <2>1. Base <= Base * Base
    BY <1>2
  <2> QED
    BY <1>1, <1>2, <2>1
<1> QED
  BY <1>3, <1>4 DEF Field

\* What is copied out of the packet is a string of the length asked for.
LEMMA SliceIsString ==
  ASSUME buf \in Strings, NEW from \in Nat, NEW len \in Nat
  PROVE  Slice(from, len) \in Strings /\ Len(Slice(from, len)) = len
<1>1. \A i \in 1..len : At(from + i - 1) \in Byte
  BY AtIsByte
<1> QED
  BY <1>1 DEF Slice, Strings

-----------------------------------------------------------------------------
(***************************************************************************)
(* The strengthening of Confined.                                          *)
(***************************************************************************)

\* Where the walk stands in the packet: behind the header and not past the end.
Placed ==
    /\ pc \notin {"header", "parse", "read", "txt", "done"} => HeaderLen <= offset /\ offset <= Size
    /\ pc \in {"skip_owner", "fields"} => HeaderLen <= meta.name_offset /\ meta.name_offset <= offset
    /\ pc \in {"parse", "read", "txt"} => HeaderLen <= meta.record_offset /\ RecordEnd(meta) <= Size
    /\ pc \in {"read", "txt"} => meta.type # "other"
    /\ pc = "txt" => pos <= RecordEnd(meta)

\* The bytes of the records read so far end before the walk's place.
Behind ==
    \A i \in DOMAIN extents :
        /\ pc \notin {"header", "question", "skip_question", "question_fields"}
        /\ pc = "record" => extents[i][2] <= offset
        /\ pc \in {"skip_owner", "fields"} => extents[i][2] <= meta.name_offset
        /\ pc \in {"parse", "read", "txt"} => extents[i][2] <= RecordEnd(meta)

\* The places in labels are where labels begin: from is the first of them, and each
\* is followed by another one up to end.
LabelChain(labels, from, end) ==
    /\ from \in labels
    /\ \A x \in labels :
          /\ x \in Nat /\ x <= end
          /\ x # end => At(x) \in 1..(3 * Tag - 1) /\ PastLabel(x) \in labels

\* The root byte or the pointer that ends a name.
NameEnds(end, after) ==
    \/ At(end) = 0 /\ after = end + 1
    \/ At(end) >= 3 * Tag /\ after = end + 2

\* labels are those of the name that begins at from and takes the bytes up to after.
NameIs(labels, from, after) ==
    \E end \in Nat : LabelChain(labels, from, end) /\ NameEnds(end, after)

\* The fields of the record being read begin where its name ends, and until its first
\* pointer read_dns_name() stands at a label over which skip_dns_name() went.
SameName ==
    /\ pc = "skip_owner" => \E labels : LabelChain(labels, meta.name_offset, offset)
    /\ pc = "fields" => \E labels : NameIs(labels, meta.name_offset, offset)
    /\ pc \in {"parse", "read", "txt"} =>
          \E labels :
              /\ NameIs(labels, meta.name_offset, meta.record_offset - RecordLen)
              /\ (pc = "read" /\ rd.of = "owner" /\ rd.hops = 0) => rd.offset \in labels

-----------------------------------------------------------------------------
\* The fields of a record's metadata and of read_dns_name()'s locals.
LEMMA Fields ==
  ASSUME TypeOK
  PROVE  /\ meta.type \in Types /\ meta.name_offset \in Nat
         /\ meta.record_offset \in Nat /\ meta.record_length \in Nat /\ RecordEnd(meta) \in Nat
         /\ rd.offset \in Nat /\ rd.hops \in Nat /\ rd.result \in Strings
         /\ rd.of \in {"owner", "rdata"}
<1>1. meta \in Metas /\ rd \in NameReads
  BY DEF TypeOK
<1>2. /\ meta.type \in Types /\ meta.name_offset \in Nat
      /\ meta.record_offset \in Nat /\ meta.record_length \in Nat
  BY <1>1 DEF Metas
<1>3. /\ rd.offset \in Nat /\ rd.hops \in Nat /\ rd.result \in Strings
      /\ rd.of \in {"owner", "rdata"}
  BY <1>1 DEF NameReads
<1> QED
  BY <1>2, <1>3 DEF RecordEnd

\* The sizes of the fixed parts of a packet.
LEMMA Sizes ==
  /\ W \in {1, 2} /\ W \in Nat /\ Tag \in Nat \ {0} /\ Base \in Nat \ {0}
  /\ HeaderLen \in Nat /\ QuestionLen \in Nat /\ RecordLen \in Nat /\ SrvLen \in Nat
  /\ AddressLen(meta.type) \in Nat
BY WireSizes DEF Base, HeaderLen, QuestionLen, RecordLen, SrvLen, AddressLen

\* The steps after which the record is left keep the types.
LEMMA AdvanceTyped ==
  ASSUME TypeOK, Advance, data' = data,
         \/ records' = records
         \/ meta.type # "other" /\ \E name \in Strings : Deliver(name, data)
  PROVE  TypeOK'
<1>1. records' \in Seq(Records)
  <2>1. CASE records' = records
    BY <2>1 DEF TypeOK
  <2>2. CASE meta.type # "other" /\ \E name \in Strings : Deliver(name, data)
    <3>1. PICK name \in Strings : Deliver(name, data)
      BY <2>2
    <3>2. [type |-> meta.type, name |-> name, data |-> data] \in Records
      BY <2>2, Fields DEF TypeOK, Records
    <3> QED
      BY <3>1, <3>2, AppendProperties, Zenon DEF Deliver, TypeOK
  <2> QED
    BY <2>1, <2>2
<1> QED
  BY <1>1, Fields DEF TypeOK, Advance

\* So does the call of read_dns_name() with what is parsed of the data so far.
LEMMA ReadNameTyped ==
  ASSUME TypeOK, NEW of \in {"owner", "rdata"}, NEW at \in Nat, ReadName(of, at), data' \in Seq(Strings)
  PROVE  TypeOK'
<1>1. rd' \in NameReads
  BY DEF ReadName, Strings, NameReads
<1> QED
  BY <1>1 DEF TypeOK, ReadName

\* So does its return.
LEMMA NameReadTyped ==
  ASSUME TypeOK, meta.type # "other", NEW ok \in BOOLEAN, NEW name \in Strings, NameRead(ok, name)
  PROVE  TypeOK'
<1> DEFINE given == IF ok THEN name ELSE <<>>
<1>0. given \in Strings
  BY DEF Strings
<1>1. CASE rd.of = "rdata" /\ ok
  <2>1. data' = Append(data, name) /\ ReadName("owner", meta.name_offset)
    BY <1>1, Zenon DEF NameRead
  <2>2. meta.name_offset \in Nat /\ data' \in Seq(Strings)
    BY <2>1, Fields, AppendProperties DEF TypeOK
  <2> QED
    BY <2>1, <2>2, ReadNameTyped
<1>2. CASE rd.of = "rdata" /\ ~ok
  BY <1>2, AdvanceTyped, Zenon DEF NameRead
<1>3. CASE rd.of # "rdata" /\ meta.type = "txt"
  <2>1. /\ rd' = [rd EXCEPT !.result = given] /\ pc' = "txt" /\ pos' = meta.record_offset
        /\ UNCHANGED <<buf, offset, questions, rrs, meta, data, records, extents>>
    BY <1>3, Zenon DEF NameRead
  <2> HIDE DEF given
  <2>2. rd' \in NameReads
    BY <1>0, <2>1 DEF TypeOK, NameReads
  <2> QED
    BY <2>1, <2>2, Fields DEF TypeOK
<1>4. CASE rd.of # "rdata" /\ meta.type # "txt"
  <2>1. Deliver(given, data) /\ Advance /\ data' = data
    BY <1>4, Zenon DEF NameRead
  <2> QED
    BY <1>0, <2>1, AdvanceTyped
<1> QED
  BY <1>1, <1>2, <1>3, <1>4, Zenon

\* A name to which a label is to be added is a string.
LEMMA JoinedIsString ==
  ASSUME NEW result \in Strings
  PROVE  Joined(result) \in Strings
<1>1. Dot \in Byte
  BY WireSizes DEF Byte, Base
<1>2. Append(result, Dot) \in Strings /\ <<>> \in Strings
  BY <1>1 DEF Strings
<1> QED
  BY <1>2, Zenon DEF Joined

\* The locals of read_dns_name() keep their types when its loop goes on.
LEMMA NameReadUpdates ==
  ASSUME NEW r \in NameReads, NEW at \in Nat, NEW name \in Strings
  PROVE  /\ [r EXCEPT !.offset = at, !.hops = @ + 1] \in NameReads
         /\ [r EXCEPT !.offset = at, !.result = name] \in NameReads
<1>1. r.hops + 1 \in Nat
  BY DEF NameReads
<1>2. [r EXCEPT !.offset = at, !.hops = @ + 1] \in NameReads
  BY <1>1, Zenon DEF NameReads
<1>3. [r EXCEPT !.offset = at, !.result = name] \in NameReads
  BY Zenon DEF NameReads
<1> QED
  BY <1>2, <1>3

\* Every step keeps the types, given that only known records are parsed.
LEMMA TypesKept ==
  ASSUME TypeOK, pc \in {"read", "txt"} => meta.type # "other", [Next]_vars
  PROVE  TypeOK'
<1>s. /\ W \in {1, 2} /\ Tag \in Nat \ {0} /\ Base \in Nat \ {0} /\ AddressLen(meta.type) \in Nat
      /\ HeaderLen \in Nat /\ QuestionLen \in Nat /\ RecordLen \in Nat /\ SrvLen \in Nat
  BY Sizes
<1>f. /\ meta.type \in Types /\ meta.name_offset \in Nat /\ meta.record_offset \in Nat
      /\ rd.offset \in Nat /\ rd.hops \in Nat /\ rd.result \in Strings
  BY Fields
<1>z. Size \in Nat
  BY LenProperties DEF TypeOK, Strings, Size
<1>b. /\ buf \in Strings /\ offset \in Nat /\ questions \in Nat /\ rrs \in Nat /\ pos \in Nat
      /\ data \in Seq(Strings) /\ meta \in Metas /\ rd \in NameReads
  BY DEF TypeOK
<1>e. <<>> \in Seq(Strings) /\ <<>> \in Strings
  BY DEF Strings
<1>1. CASE ReadHeader
  <2>1. 2 * W \in Nat /\ 3 * W \in Nat /\ 4 * W \in Nat /\ 5 * W \in Nat
    BY <1>s
  <2>2. /\ Field(2 * W) \in Nat /\ Field(3 * W) \in Nat
        /\ Field(4 * W) \in Nat /\ Field(5 * W) \in Nat
    BY <1>b, <2>1, FieldIsInRange
  <2>3. offset' \in Nat /\ questions' \in Nat /\ rrs' \in Nat /\ pc' \in {"done", "question"}
    <3>1. HeaderLen \in Nat
      BY <1>s
    <3> QED
      BY <1>1, <1>b, <1>z, <2>2, <3>1 DEF ReadHeader
  <2> QED
    BY <1>1, <2>3 DEF ReadHeader, TypeOK
<1>2. CASE NextQuestion
  BY <1>2 DEF NextQuestion, More, TypeOK
<1>3. CASE SkipQuestionFields
  BY <1>3, <1>s DEF SkipQuestionFields, TypeOK
<1>4. CASE NextRecord
  <2>1. meta' \in Metas
    BY <1>4, <1>b DEF NextRecord, Metas
  <2>2. rrs' \in Nat /\ pc' \in {"skip_owner", "done"}
    BY <1>4, <1>b DEF NextRecord, More
  <2> QED
    BY <1>4, <2>1, <2>2 DEF NextRecord, TypeOK
<1>5. CASE SkipName
  <2>1. At(offset) \in Nat
    BY <1>b, AtIsByte
  <2>2. offset' \in Nat
    BY <1>5, <1>b, <2>1 DEF SkipName, PastLabel
  <2>3. pc' \in {"done", "fields", "question_fields", "skip_question", "skip_owner"}
    BY <1>5 DEF SkipName
  <2> QED
    BY <1>5, <2>2, <2>3 DEF SkipName, TypeOK
<1>6. CASE ReadFields
  <2> DEFINE at == offset + RecordLen
             len == Field(offset + 4 * W)
             type == TypeOf[Field(offset)]
  <2>1. at \in Nat /\ len \in Nat /\ type \in Types
    <3>1. offset + 4 * W \in Nat /\ at \in Nat
      BY <1>b, <1>s
    <3>2. len \in Nat /\ Field(offset) \in 0..(Base * Base - 1)
      BY <1>b, <3>1, FieldIsInRange, Zenon
    <3> QED
      BY <3>1, <3>2, WireTypes, Zenon
  <2>2. CASE pc' = "done" /\ UNCHANGED <<meta, extents>> /\ offset' \in {offset, at}
    BY <1>6, <2>1, <2>2 DEF ReadFields, TypeOK
  <2>3. CASE /\ pc' = "parse" /\ offset' = at
             /\ meta' = [meta EXCEPT !.type = type, !.record_offset = at, !.record_length = len]
             /\ extents' = Append(extents, <<meta.name_offset, at + len>>)
    <3> HIDE DEF at, len, type
    <3>1. meta' \in Metas
      BY <1>b, <2>1, <2>3 DEF Metas
    <3>2. <<meta.name_offset, at + len>> \in Nat \X Nat
      BY <1>f, <2>1
    <3>3. extents' \in Seq(Nat \X Nat)
      BY <2>3, <3>2, AppendProperties DEF TypeOK
    <3> QED
      BY <1>6, <2>1, <2>3, <3>1, <3>3 DEF ReadFields, TypeOK
  <2> QED
    BY <1>6, <2>2, <2>3, Zenon DEF ReadFields
<1>7. CASE Parse
  <2> DEFINE from == meta.record_offset
  <2>0. from \in Nat /\ from + SrvLen \in Nat
    BY <1>f, <1>s
  <2>1. CASE SkipRecord
    BY <2>1, AdvanceTyped DEF SkipRecord
  <2>2. CASE ReadName("owner", meta.name_offset) /\ data' = <<>>
    BY <1>e, <1>f, <2>2, ReadNameTyped
  <2>3. CASE ReadName("rdata", from) /\ data' = <<>>
    BY <1>e, <1>f, <2>3, ReadNameTyped
  <2>4. ASSUME NEW len \in Nat, data' = <<Slice(from, len)>> PROVE data' \in Seq(Strings)
    BY <1>b, <2>0, <2>4, SliceIsString
  <2>5. CASE ReadName("owner", meta.name_offset) /\ data' = <<Slice(from, AddressLen(meta.type))>>
    BY <1>f, <1>s, <2>4, <2>5, ReadNameTyped
  <2>6. CASE ReadName("rdata", from + SrvLen) /\ data' = <<Slice(from, SrvLen)>>
    BY <1>s, <2>0, <2>4, <2>6, ReadNameTyped
  <2> QED
    BY <1>7, <1>f, <2>1, <2>2, <2>3, <2>5, <2>6, Zenon DEF Parse, Types
<1>8. CASE ReadStep
  <2> DEFINE o == rd.offset
             name == Joined(rd.result) \o Slice(o + 1, At(o))
             target == (At(o) % Tag) * Base + At(o + 1)
             Stays == UNCHANGED <<buf, pc, offset, questions, rrs, meta, data, pos, records, extents>>
  <2>0. meta.type # "other"
    BY <1>8 DEF ReadStep
  <2>1. At(o) \in Nat /\ At(o + 1) \in Nat
    <3>1. o \in Nat /\ o + 1 \in Nat
      BY <1>f
    <3> QED
      BY <1>b, <3>1, AtIsByte, Zenon
  <2>2. Joined(rd.result) \in Strings
    BY <1>f, JoinedIsString
  <2>3. CASE NameRead(FALSE, <<>>)
    BY <1>e, <2>0, <2>3, NameReadTyped
  <2>4. CASE NameRead(TRUE, Joined(rd.result))
    BY <2>0, <2>2, <2>4, NameReadTyped
  <2>5. CASE rd' = [rd EXCEPT !.offset = target, !.hops = @ + 1] /\ Stays
    <3>1. target \in Nat
      <4>1. At(o) % Tag \in Nat
        BY <1>s, <2>1
      <4>2. (At(o) % Tag) * Base \in Nat
        BY <1>s, <4>1
      <4> QED
        BY <2>1, <4>2
    <3> HIDE DEF target
    <3>2. rd' \in NameReads
      BY <1>b, <1>e, <2>5, <3>1, NameReadUpdates, Zenon
    <3> QED
      BY <2>5, <3>2 DEF TypeOK
  <2>6. CASE rd' = [rd EXCEPT !.offset = o + 1 + At(o), !.result = name] /\ Stays
    <3>1. Slice(o + 1, At(o)) \in Strings
      BY <1>b, <1>f, <2>1, SliceIsString
    <3>2. name \in Strings
      BY <2>2, <3>1, ConcatProperties DEF Strings
    <3> HIDE DEF name
    <3>3. rd' \in NameReads
      <4>1. o + 1 + At(o) \in Nat
        BY <1>f, <2>1
      <4> QED
        BY <1>b, <2>6, <3>2, <4>1, NameReadUpdates, Zenon
    <3> QED
      BY <2>6, <3>3 DEF TypeOK
  <2> QED
    BY <1>8, <2>3, <2>4, <2>5, <2>6, Zenon DEF ReadStep
<1>9. CASE TxtStep
  <2> DEFINE keyed == At(pos) = 0 \/ At(pos + 1) # Equals
             entry == Slice(pos + 1, At(pos))
  <2>0. meta.type # "other" /\ pos \in Nat
    BY <1>9 DEF TxtStep, TypeOK
  <2>1. At(pos) \in Nat
    BY <1>b, <2>0, AtIsByte
  <2>2. CASE Deliver(rd.result, data) /\ Advance /\ UNCHANGED data
    BY <1>f, <2>0, <2>2, AdvanceTyped
  <2>3. CASE /\ pos' = PastEntry(pos, At(pos), keyed)
             /\ data' = IF keyed THEN Append(data, entry) ELSE data
             /\ UNCHANGED <<buf, pc, offset, questions, rrs, meta, rd, records, extents>>
    <3>1. pos' \in Nat
      BY <2>0, <2>1, <2>3 DEF PastEntry
    <3>2. Append(data, entry) \in Seq(Strings)
      BY <1>b, <2>0, <2>1, SliceIsString, AppendProperties
    <3>3. data' \in Seq(Strings)
      BY <1>b, <2>3, <3>2, Zenon
    <3> QED
      BY <2>3, <3>1, <3>3 DEF TypeOK
  <2> QED
    BY <1>9, <2>2, <2>3, Zenon DEF TxtStep
<1>10. CASE UNCHANGED vars
  BY <1>10 DEF vars, TypeOK
<1> QED
  BY <1>1, <1>2, <1>3, <1>4, <1>5, <1>6, <1>7, <1>8, <1>9, <1>10, Zenon DEF Next

-----------------------------------------------------------------------------
(***************************************************************************)
(* The steps of the parsers, by what they do to the walk: the record is    *)
(* left; read_dns_name() is called, follows a pointer, passes a label or    *)
(* returns to txt(); txt() passes a string.                                *)
(***************************************************************************)
Leaves == pc \in {"parse", "read", "txt"} /\ Advance

Calls ==
    /\ pc \in {"parse", "read"} /\ meta.type # "other"
    /\ ReadName("owner", meta.name_offset) \/ \E at \in Nat : ReadName("rdata", at)

Hops ==
    /\ pc = "read" /\ rd.hops + 1 <= MaxHops
    /\ rd' = [rd EXCEPT !.offset = (At(rd.offset) % Tag) * Base + At(rd.offset + 1), !.hops = @ + 1]
    /\ UNCHANGED <<buf, pc, offset, questions, rrs, meta, data, pos, records, extents>>

PassesLabel ==
    /\ pc = "read" /\ At(rd.offset) \in 1..(Tag - 1)
    /\ \E name \in Strings :
          /\ Len(name) < MaxNameLen
          /\ rd' = [rd EXCEPT !.offset = PastLabel(rd.offset), !.result = name]
    /\ UNCHANGED <<buf, pc, offset, questions, rrs, meta, data, pos, records, extents>>

StartsTxt ==
    /\ pc = "read" /\ pc' = "txt" /\ pos' = meta.record_offset
    /\ UNCHANGED <<buf, offset, questions, rrs, meta, extents>>

PassesEntry ==
    /\ pc = "txt" /\ pos' = pos + 1 + At(pos) /\ pos' <= RecordEnd(meta)
    /\ UNCHANGED <<buf, pc, offset, questions, rrs, meta, rd, records, extents>>

\* Returning from read_dns_name() is one of these steps.
LEMMA ReturnCases ==
  ASSUME pc = "read", meta.type # "other", NEW ok \in BOOLEAN, NEW name, NameRead(ok, name)
  PROVE  Leaves \/ Calls \/ StartsTxt
BY Zenon DEF NameRead, Leaves, Calls, StartsTxt

\* Every step of the parsers is one of these.
LEMMA ParserCases ==
  ASSUME TypeOK, pc \in {"read", "txt"} => meta.type # "other", Parse \/ ReadStep \/ TxtStep
  PROVE  Leaves \/ Calls \/ Hops \/ PassesLabel \/ StartsTxt \/ PassesEntry
<1>f. /\ meta.type \in Types /\ meta.record_offset \in Nat /\ RecordEnd(meta) \in Nat
      /\ rd.offset \in Nat /\ rd.hops \in Nat /\ rd.result \in Strings
  BY Fields
<1>b. buf \in Strings /\ pos \in Nat
  BY DEF TypeOK
<1>1. CASE Parse
  <2>1. meta.record_offset + SrvLen \in Nat
    BY <1>f, Sizes
  <2>2. CASE SkipRecord
    BY <1>1, <2>2, Zenon DEF Parse, SkipRecord, Leaves
  <2>3. CASE /\ meta.type # "other"
             /\ ReadName("owner", meta.name_offset) \/ \E at \in Nat : ReadName("rdata", at)
    BY <1>1, <2>3, Zenon DEF Parse, Calls
  <2> QED
    BY <1>1, <1>f, <2>1, <2>2, <2>3, Zenon DEF Parse, Types
<1>2. CASE ReadStep
  <2> DEFINE o == rd.offset
             b == At(o)
             name == Joined(rd.result) \o Slice(o + 1, b)
  <2>1. meta.type # "other" /\ pc = "read"
    BY <1>2 DEF ReadStep
  <2>2. CASE NameRead(FALSE, <<>>) \/ NameRead(TRUE, Joined(rd.result))
    BY <2>1, <2>2, ReturnCases
  <2>3. CASE /\ ~TooManyHops(rd.hops + 1)
             /\ rd' = [rd EXCEPT !.offset = (b % Tag) * Base + At(o + 1), !.hops = @ + 1]
             /\ UNCHANGED <<buf, pc, offset, questions, rrs, meta, data, pos, records, extents>>
    <3>1. rd.hops + 1 <= MaxHops
      BY <1>f, <2>3, WireSizes DEF TooManyHops
    <3> QED
      BY <2>1, <2>3, <3>1, Zenon DEF Hops
  <2>4. CASE /\ ~(b >= 3 * Tag) /\ b # 0 /\ ~(b >= Tag) /\ ~(Len(name) + 1 > MaxNameLen)
             /\ rd' = [rd EXCEPT !.offset = o + 1 + b, !.result = name]
             /\ UNCHANGED <<buf, pc, offset, questions, rrs, meta, data, pos, records, extents>>
    <3>1. b \in Nat /\ o + 1 \in Nat
      BY <1>b, <1>f, AtIsByte
    <3>2. b \in 1..(Tag - 1)
      BY <2>4, <3>1, Sizes
    <3>3. Slice(o + 1, b) \in Strings /\ Joined(rd.result) \in Strings
      BY <1>b, <1>f, <3>1, SliceIsString, JoinedIsString
    <3>4. name \in Strings /\ Len(name) \in Nat
      BY <3>3, ConcatProperties, LenProperties DEF Strings
    <3>5. Len(name) < MaxNameLen
      BY <2>4, <3>4, WireSizes
    <3> HIDE DEF name
    <3> QED
      BY <2>1, <2>4, <3>2, <3>4, <3>5, Zenon DEF PassesLabel, PastLabel
  <2> QED
    BY <1>2, <2>2, <2>3, <2>4, Zenon DEF ReadStep
<1>3. CASE TxtStep
  <2>1. CASE Advance
    BY <1>3, <2>1, Zenon DEF TxtStep, Leaves
  <2>2. CASE ~Advance
    <3>1. At(pos) \in Nat
      BY <1>b, AtIsByte
    <3>2. /\ pc = "txt" /\ ~(pos + 1 + At(pos) > RecordEnd(meta)) /\ pos' = pos + 1 + At(pos)
          /\ UNCHANGED <<buf, pc, offset, questions, rrs, meta, rd, records, extents>>
      BY <1>3, <2>2, Zenon DEF TxtStep, PastEntry
    <3>3. pos' <= RecordEnd(meta)
      BY <1>b, <1>f, <3>1, <3>2
    <3> QED
      BY <3>2, <3>3, Zenon DEF PassesEntry
  <2> QED
    BY <2>1, <2>2
<1> QED
  BY <1>1, <1>2, <1>3

-----------------------------------------------------------------------------
\* The lengths of the fixed parts, and the packet's own.
LEMMA Lengths ==
  ASSUME TypeOK
  PROVE  /\ W \in {1, 2} /\ Size \in Nat
         /\ HeaderLen = 6 * W /\ QuestionLen = 2 * W /\ RecordLen = 5 * W /\ SrvLen = 3 * W
<1>1. Size \in Nat
  BY LenProperties DEF TypeOK, Strings, Size
<1> QED
  BY <1>1, WireSizes DEF HeaderLen, QuestionLen, RecordLen, SrvLen

\* The packet is only read.
LEMMA SamePacket ==
  ASSUME TypeOK, Placed, [Next]_vars
  PROVE  buf' = buf /\ Size' = Size
<1>1. CASE Parse \/ ReadStep \/ TxtStep
  <2>1. pc \in {"read", "txt"} => meta.type # "other"
    BY DEF Placed
  <2>2. Leaves \/ Calls \/ Hops \/ PassesLabel \/ StartsTxt \/ PassesEntry
    BY <1>1, <2>1, ParserCases
  <2>3. buf' = buf
    BY <2>2, Zenon DEF Leaves, Calls, Hops, PassesLabel, StartsTxt, PassesEntry, Advance, ReadName
  <2> QED
    BY <2>3 DEF Size
<1>2. CASE ReadHeader \/ NextQuestion \/ SkipQuestionFields \/ NextRecord \/ SkipName
           \/ ReadFields \/ UNCHANGED vars
  <2>1. buf' = buf
    BY <1>2, Zenon DEF ReadHeader, NextQuestion, SkipQuestionFields, NextRecord, SkipName,
                       ReadFields, vars
  <2> QED
    BY <2>1 DEF Size
<1> QED
  BY <1>1, <1>2, Zenon DEF Next

\* The bounds checks keep the walk at its place in the packet.
LEMMA PlacedKept ==
  ASSUME TypeOK, TypeOK', Placed, [Next]_vars
  PROVE  Placed'
<1>l. /\ W \in {1, 2} /\ Size \in Nat
      /\ HeaderLen = 6 * W /\ QuestionLen = 2 * W /\ RecordLen = 5 * W
  BY Lengths
<1>b. offset \in Nat /\ offset' \in Nat /\ pos \in Nat
  BY DEF TypeOK
<1>f. /\ meta.name_offset \in Nat /\ meta.record_offset \in Nat /\ meta.record_length \in Nat
      /\ RecordEnd(meta) \in Nat /\ RecordEnd(meta) = meta.record_offset + meta.record_length
  BY Fields DEF RecordEnd
<1>1. CASE ReadHeader
  <2>1. Size' = Size
    BY <1>1 DEF ReadHeader, Size
  <2> QED
    BY <1>1, <1>l, <2>1 DEF ReadHeader, Placed
<1>2. CASE NextQuestion
  <2>1. Size' = Size
    BY <1>2 DEF NextQuestion, Size
  <2> QED
    BY <1>2, <2>1 DEF NextQuestion, Placed
<1>3. CASE SkipQuestionFields
  <2>1. Size' = Size
    BY <1>3 DEF SkipQuestionFields, Size
  <2>2. pc' # "done" => HeaderLen <= offset' /\ offset' <= Size
    BY <1>3, <1>b, <1>l DEF SkipQuestionFields, Placed
  <2> QED
    BY <1>3, <2>1, <2>2 DEF SkipQuestionFields, Placed
<1>4. CASE NextRecord
  <2>1. Size' = Size
    BY <1>4 DEF NextRecord, Size
  <2>2. pc' = "skip_owner" => meta'.name_offset = offset
    BY <1>4 DEF NextRecord, TypeOK, Metas
  <2> QED
    BY <1>4, <1>b, <2>1, <2>2 DEF NextRecord, Placed
<1>5. CASE SkipName
  <2>1. Size' = Size /\ meta' = meta
    BY <1>5 DEF SkipName, Size
  <2>2. At(offset) \in Nat
    BY <1>b, AtIsByte DEF TypeOK
  <2>3. pc' # "done" => offset <= offset' /\ offset' <= Size
    BY <1>5, <1>b, <1>l, <2>2 DEF SkipName, PastLabel, PointerFits
  <2>4. /\ pc' \in {"done", "question_fields", "fields", pc}
        /\ pc' = "fields" => pc = "skip_owner"
    BY <1>5 DEF SkipName
  <2>5. pc \in {"skip_question", "skip_owner"}
    BY <1>5 DEF SkipName
  <2> QED
    BY <1>b, <1>f, <1>l, <2>1, <2>3, <2>4, <2>5 DEF Placed
<1>6. CASE ReadFields
  <2>1. Size' = Size
    BY <1>6 DEF ReadFields, Size
  <2>2. CASE pc' = "done"
    BY <2>2 DEF Placed
  <2>3. CASE pc' = "parse"
    <3> DEFINE at == offset + RecordLen
               len == Field(offset + 4 * W)
               type == TypeOf[Field(offset)]
    <3>1. /\ ~(at + len > Size)
          /\ meta' = [meta EXCEPT !.type = type, !.record_offset = at, !.record_length = len]
      BY <1>6, <2>3 DEF ReadFields
    <3>2. at \in Nat /\ len \in Nat
      <4>1. offset + 4 * W \in Nat /\ at \in Nat
        BY <1>b, <1>l
      <4> QED
        BY <4>1, FieldIsInRange DEF TypeOK
    <3> HIDE DEF at, len, type
    <3>3. meta'.record_offset = at /\ meta'.record_length = len
      BY <3>1 DEF TypeOK, Metas
    <3>4. RecordEnd(meta') <= Size
      BY <1>l, <3>1, <3>2, <3>3 DEF RecordEnd
    <3>5. HeaderLen <= meta'.record_offset
      BY <1>6, <1>b, <1>l, <3>3 DEF ReadFields, Placed, at
    <3> QED
      BY <2>1, <2>3, <3>4, <3>5 DEF Placed
  <2> QED
    BY <1>6, <2>2, <2>3 DEF ReadFields
<1>7. CASE Parse \/ ReadStep \/ TxtStep
  <2>1. pc \in {"read", "txt"} => meta.type # "other"
    BY DEF Placed
  <2>2. CASE Leaves
    <3>1. Size' = Size
      BY <2>2 DEF Leaves, Advance, Size
    <3>2. HeaderLen <= RecordEnd(meta) /\ RecordEnd(meta) <= Size
      BY <1>f, <1>l, <2>2 DEF Leaves, Placed
    <3> QED
      BY <2>2, <3>1, <3>2 DEF Leaves, Advance, Placed
  <2>3. CASE Calls
    <3>1. Size' = Size /\ meta' = meta /\ pc' = "read"
      BY <2>3 DEF Calls, ReadName, Size
    <3> QED
      BY <2>3, <3>1 DEF Calls, Placed
  <2>4. CASE Hops \/ PassesLabel
    <3>1. Size' = Size /\ meta' = meta /\ pc' = "read" /\ pc = "read"
      BY <2>4 DEF Hops, PassesLabel, Size
    <3> QED
      BY <3>1 DEF Placed
  <2>5. CASE StartsTxt
    <3>1. Size' = Size /\ meta' = meta /\ pc' = "txt" /\ pc = "read" /\ pos' = meta.record_offset
      BY <2>5 DEF StartsTxt, Size
    <3> QED
      BY <1>f, <3>1 DEF Placed
  <2>6. CASE PassesEntry
    <3>1. Size' = Size /\ meta' = meta /\ pc' = "txt" /\ pc = "txt" /\ pos' <= RecordEnd(meta)
      BY <2>6 DEF PassesEntry, Size
    <3> QED
      BY <3>1 DEF Placed
  <2> QED
    BY <1>7, <2>1, <2>2, <2>3, <2>4, <2>5, <2>6, ParserCases
<1>8. CASE UNCHANGED vars
  <2>1. Size' = Size
    BY <1>8 DEF vars, Size
  <2> QED
    BY <1>8, <2>1 DEF vars, Placed
<1> QED
  BY <1>1, <1>2, <1>3, <1>4, <1>5, <1>6, <1>7, <1>8, Zenon DEF Next

\* The bounds checks come before the reads: no step reads outside the packet.
LEMMA InBoundsKept ==
  ASSUME TypeOK, Placed, InBounds, [Next]_vars
  PROVE  InBounds'
<1>l. /\ W \in {1, 2} /\ Size \in Nat
      /\ HeaderLen = 6 * W /\ RecordLen = 5 * W /\ SrvLen = 3 * W
  BY Lengths
<1>b. buf \in Strings /\ offset \in Nat /\ pos \in Nat
  BY DEF TypeOK
<1>f. /\ meta.record_offset \in Nat /\ meta.record_length \in Nat /\ rd.offset \in Nat
      /\ RecordEnd(meta) \in Nat /\ RecordEnd(meta) = meta.record_offset + meta.record_length
  BY Fields DEF RecordEnd
<1>z. Size' = Size
  BY SamePacket
<1> SUFFICES touched' \subseteq 0..(Size - 1)
  BY <1>z DEF InBounds
<1>0. CASE touched' = {}
  BY <1>0
<1>1. CASE ReadHeader
  BY <1>1, <1>l DEF ReadHeader, Bytes
<1>2. CASE SkipName
  BY <1>2, <1>b, <1>l DEF SkipName
<1>3. CASE ReadFields
  BY <1>3, <1>b, <1>l DEF ReadFields, Bytes
<1>4. CASE Parse
  <2> DEFINE from == meta.record_offset
             len == meta.record_length
             alen == AddressLen(meta.type)
  <2>1. pc = "parse" /\ from + len <= Size
    BY <1>4, <1>f DEF Parse, Placed
  <2>2. CASE touched' = Bytes(from, alen) /\ len = alen
    BY <1>f, <1>l, <2>1, <2>2 DEF Bytes
  <2>3. CASE touched' = Bytes(from, SrvLen) /\ ~(len < SrvLen + 1)
    BY <1>f, <1>l, <2>1, <2>3 DEF Bytes
  <2>4. meta.type \in Types
    BY Fields
  <2> QED
    BY <1>4, <1>0, <2>2, <2>3, <2>4, Zenon DEF Parse, SkipRecord, Types
<1>5. CASE ReadStep
  <2> DEFINE o == rd.offset
             b == At(o)
  <2>1. b \in Nat
    BY <1>b, <1>f, AtIsByte
  <2>2. CASE ~(o >= Size) /\ touched' = {o}
    BY <1>f, <1>l, <2>2
  <2>3. CASE PointerFits(o) /\ touched' = {o, o + 1}
    BY <1>f, <1>l, <2>3 DEF PointerFits
  <2>4. CASE ~(o + 1 + b > Size) /\ touched' = Bytes(o, 1 + b)
    BY <1>f, <1>l, <2>1, <2>4 DEF Bytes
  <2> QED
    BY <1>5, <1>0, <2>2, <2>3, <2>4, Zenon DEF ReadStep
<1>6. CASE TxtStep
  <2>1. At(pos) \in Nat
    BY <1>b, AtIsByte
  <2>2. RecordEnd(meta) <= Size
    BY <1>6 DEF TxtStep, Placed
  <2>3. CASE ~(pos >= RecordEnd(meta)) /\ touched' = {pos}
    BY <1>b, <1>f, <1>l, <2>2, <2>3
  <2>4. CASE ~(pos + 1 + At(pos) > RecordEnd(meta)) /\ touched' = Bytes(pos, 1 + At(pos))
    BY <1>b, <1>f, <1>l, <2>1, <2>2, <2>4 DEF Bytes
  <2> QED
    BY <1>6, <1>0, <2>3, <2>4, Zenon DEF TxtStep
<1>7. CASE NextQuestion \/ SkipQuestionFields \/ NextRecord
  BY <1>7, <1>0 DEF NextQuestion, SkipQuestionFields, NextRecord
<1>8. CASE UNCHANGED vars
  BY <1>8 DEF vars, InBounds
<1> QED
  BY <1>1, <1>2, <1>3, <1>4, <1>5, <1>6, <1>7, <1>8, Zenon DEF Next

\* What a step does to the list of the bytes taken: the fields of a record extend it.
LEMMA ExtentsStep ==
  ASSUME TypeOK, Placed, [Next]_vars
  PROVE  \/ extents' = extents
         \/ /\ ReadFields /\ pc' = "parse"
            /\ extents' = Append(extents, <<meta.name_offset, RecordEnd(meta')>>)
            /\ offset + RecordLen <= RecordEnd(meta') /\ RecordEnd(meta') \in Nat
<1>1. CASE Parse \/ ReadStep \/ TxtStep
  <2>1. pc \in {"read", "txt"} => meta.type # "other"
    BY DEF Placed
  <2>2. Leaves \/ Calls \/ Hops \/ PassesLabel \/ StartsTxt \/ PassesEntry
    BY <1>1, <2>1, ParserCases
  <2> QED
    BY <2>2, Zenon DEF Leaves, Calls, Hops, PassesLabel, StartsTxt, PassesEntry, Advance, ReadName
<1>2. CASE ReadHeader \/ NextQuestion \/ SkipQuestionFields \/ NextRecord \/ SkipName
           \/ UNCHANGED vars
  BY <1>2, Zenon DEF ReadHeader, NextQuestion, SkipQuestionFields, NextRecord, SkipName, vars
<1>3. CASE ReadFields /\ extents' # extents
  <2> DEFINE at == offset + RecordLen
             len == Field(offset + 4 * W)
             type == TypeOf[Field(offset)]
  <2>1. /\ pc' = "parse"
        /\ meta' = [meta EXCEPT !.type = type, !.record_offset = at, !.record_length = len]
        /\ extents' = Append(extents, <<meta.name_offset, at + len>>)
    BY <1>3, Zenon DEF ReadFields
  <2>2. at \in Nat /\ len \in Nat
    <3>1. W \in {1, 2} /\ RecordLen = 5 * W /\ offset \in Nat
      BY Lengths DEF TypeOK
    <3>2. offset + 4 * W \in Nat /\ at \in Nat
      BY <3>1
    <3> QED
      BY <3>2, FieldIsInRange DEF TypeOK
  <2>3. meta'.record_offset = at /\ meta'.record_length = len
    <3> HIDE DEF at, len, type
    <3> QED
      BY <2>1 DEF TypeOK, Metas
  <2>4. RecordEnd(meta') = at + len
    BY <2>3 DEF RecordEnd
  <2>5. at <= at + len /\ at + len \in Nat
    <3> HIDE DEF at, len
    <3> QED
      BY <2>2
  <2> QED
    BY <1>3, <2>1, <2>4, <2>5
<1> QED
  BY <1>1, <1>2, <1>3, Zenon DEF Next

\* The walk moves on, so the bytes taken stay behind it.
LEMMA BehindKept ==
  ASSUME TypeOK, TypeOK', Placed, Behind, [Next]_vars
  PROVE  Behind'
<1> DEFINE Questions == {"header", "question", "skip_question", "question_fields"}
<1>t. /\ extents \in Seq(Nat \X Nat) /\ offset \in Nat
      /\ \A i \in DOMAIN extents : extents[i][2] \in Nat
  BY DEF TypeOK
<1>f. meta.name_offset \in Nat /\ RecordEnd(meta) \in Nat
  BY Fields
<1>1. CASE /\ ReadFields /\ pc' = "parse"
           /\ extents' = Append(extents, <<meta.name_offset, RecordEnd(meta')>>)
           /\ offset + RecordLen <= RecordEnd(meta') /\ RecordEnd(meta') \in Nat
  <2>1. pc = "fields" /\ meta.name_offset <= offset /\ RecordLen \in Nat
    BY <1>1, Sizes DEF ReadFields, Placed
  <2>2. \A i \in DOMAIN extents : extents[i][2] <= RecordEnd(meta')
    BY <1>1, <1>f, <1>t, <2>1 DEF Behind
  <2>3. \A i \in DOMAIN extents' : extents'[i][2] <= RecordEnd(meta')
    <3> TAKE i \in DOMAIN extents'
    <3>1. <<meta.name_offset, RecordEnd(meta')>> \in Nat \X Nat
      BY <1>1, <1>f
    <3>2. i \in 1..(Len(extents) + 1) /\ DOMAIN extents = 1..Len(extents) /\ Len(extents) \in Nat
      BY <1>1, <1>t, <3>1, AppendProperties, LenProperties
    <3>3. CASE i <= Len(extents)
      BY <1>1, <1>t, <2>2, <3>1, <3>2, <3>3, AppendProperties
    <3>4. CASE i = Len(extents) + 1
      BY <1>1, <1>t, <3>1, <3>4, AppendProperties
    <3> QED
      BY <3>2, <3>3, <3>4
  <2> QED
    BY <1>1, <2>3 DEF Behind
<1>2. CASE extents' = extents
  <2> SUFFICES ASSUME NEW i \in DOMAIN extents
               PROVE  /\ pc' \notin Questions
                      /\ pc' = "record" => extents[i][2] <= offset'
                      /\ pc' \in {"skip_owner", "fields"} => extents[i][2] <= meta'.name_offset
                      /\ pc' \in {"parse", "read", "txt"} => extents[i][2] <= RecordEnd(meta')
    BY <1>2 DEF Behind
  <2>i. /\ pc \notin Questions
        /\ pc = "record" => extents[i][2] <= offset
        /\ pc \in {"skip_owner", "fields"} => extents[i][2] <= meta.name_offset
        /\ pc \in {"parse", "read", "txt"} => extents[i][2] <= RecordEnd(meta)
    BY DEF Behind
  <2>1. CASE ReadHeader \/ NextQuestion \/ SkipQuestionFields
    BY <2>1, <2>i DEF ReadHeader, NextQuestion, SkipQuestionFields
  <2>2. CASE NextRecord
    <3>1. pc' = "skip_owner" => meta'.name_offset = offset
      BY <2>2 DEF NextRecord, TypeOK, Metas
    <3> QED
      BY <2>2, <2>i, <3>1 DEF NextRecord
  <2>3. CASE SkipName
    <3>1. meta' = meta /\ pc = "skip_owner" /\ pc' \in {"done", "fields", "skip_owner"}
      BY <2>3, <2>i DEF SkipName
    <3> QED
      BY <2>i, <3>1
  <2>4. CASE ReadFields
    <3>1. CASE pc' = "done"
      BY <3>1
    <3>2. CASE pc' = "parse"
      <4>1. extents' = Append(extents, <<meta.name_offset, offset + RecordLen + Field(offset + 4 * W)>>)
        BY <2>4, <3>2, Zenon DEF ReadFields
      <4>2. ASSUME NEW e PROVE Append(extents, e) # extents
        BY <1>t
      <4> QED
        BY <1>2, <4>1, <4>2
    <3> QED
      BY <2>4, <3>1, <3>2 DEF ReadFields
  <2>5. CASE Parse \/ ReadStep \/ TxtStep
    <3>1. pc \in {"read", "txt"} => meta.type # "other"
      BY DEF Placed
    <3>2. CASE Leaves
      BY <2>i, <3>2 DEF Leaves, Advance
    <3>3. CASE Calls
      <4>1. pc' = "read" /\ meta' = meta
        BY <3>3 DEF Calls, ReadName
      <4> QED
        BY <2>i, <3>3, <4>1 DEF Calls
    <3>4. CASE Hops \/ PassesLabel \/ StartsTxt \/ PassesEntry
      <4>1. pc' \in {"read", "txt"} /\ pc \in {"read", "txt"} /\ meta' = meta
        BY <3>4 DEF Hops, PassesLabel, StartsTxt, PassesEntry
      <4> QED
        BY <2>i, <4>1
    <3> QED
      BY <2>5, <3>1, <3>2, <3>3, <3>4, ParserCases
  <2>6. CASE UNCHANGED vars
    BY <2>6, <2>i DEF vars
  <2> QED
    BY <2>1, <2>2, <2>3, <2>4, <2>5, <2>6, Zenon DEF Next
<1> QED
  BY <1>1, <1>2, ExtentsStep

\* So each record is behind the one before it.
LEMMA DisjointKept ==
  ASSUME TypeOK, TypeOK', Placed, Placed', Behind, Disjoint, [Next]_vars
  PROVE  Disjoint'
<1>z. Size' = Size
  BY SamePacket
<1>1. CASE extents' = extents
  BY <1>1, <1>z DEF Disjoint
<1>2. CASE /\ ReadFields /\ pc' = "parse"
           /\ extents' = Append(extents, <<meta.name_offset, RecordEnd(meta')>>)
           /\ offset + RecordLen <= RecordEnd(meta') /\ RecordEnd(meta') \in Nat
  <2> DEFINE new == <<meta.name_offset, RecordEnd(meta')>>
             n == Len(extents)
  <2>1. /\ extents \in Seq(Nat \X Nat) /\ offset \in Nat /\ Size \in Nat /\ meta.name_offset \in Nat
        /\ W \in {1, 2} /\ RecordLen = 5 * W /\ HeaderLen = 6 * W /\ n \in Nat
    BY Fields, Lengths, LenProperties DEF TypeOK
  <2>2. pc = "fields" /\ HeaderLen <= meta.name_offset /\ meta.name_offset <= offset
    BY <1>2 DEF ReadFields, Placed
  <2>3. RecordEnd(meta') <= Size
    BY <1>2, <1>z DEF Placed
  <2>4. /\ HeaderLen <= new[1] /\ new[1] < new[2] /\ new[2] <= Size /\ new \in Nat \X Nat
    BY <1>2, <2>1, <2>2, <2>3
  <2>5. \A i \in DOMAIN extents : extents[i][2] <= new[1]
    BY <2>2 DEF Behind
  <2> HIDE DEF new
  <2>6. /\ DOMAIN extents = 1..n /\ DOMAIN extents' = 1..(n + 1)
        /\ \A i \in 1..n : extents'[i] = extents[i]
        /\ extents'[n + 1] = new
    BY <1>2, <2>1, <2>4, AppendProperties, LenProperties DEF new
  <2> HIDE DEF n
  <2>7. ASSUME NEW i \in DOMAIN extents'
        PROVE  /\ HeaderLen <= extents'[i][1] /\ extents'[i][1] < extents'[i][2]
               /\ extents'[i][2] <= Size
               /\ i > 1 => extents'[i - 1][2] <= extents'[i][1]
    <3>1. CASE i \in 1..n
      <4>1. extents'[i] = extents[i] /\ (i > 1 => extents'[i - 1] = extents[i - 1])
        <5>1. i \in Nat /\ (i > 1 => i - 1 \in 1..n)
          BY <2>1, <3>1
        <5> QED
          BY <2>6, <3>1, <5>1
      <4> QED
        BY <2>6, <3>1, <4>1 DEF Disjoint
    <3>2. CASE i = n + 1
      <4>1. i > 1 => n \in DOMAIN extents /\ extents'[i - 1] = extents[n]
        BY <2>1, <2>6, <3>2
      <4>2. extents'[i] = new
        BY <2>6, <3>2
      <4> QED
        BY <2>4, <2>5, <4>1, <4>2
    <3> QED
      BY <2>1, <2>6, <2>7, <3>1, <3>2
  <2> QED
    BY <1>z, <2>7 DEF Disjoint
<1> QED
  BY <1>1, <1>2, ExtentsStep

-----------------------------------------------------------------------------
\* A step outside the parsers, and where it leads.
LEMMA OuterSteps ==
  ASSUME ReadHeader \/ NextQuestion \/ SkipQuestionFields
  PROVE  pc' \in {"done", "question", "skip_question", "record"}
BY DEF ReadHeader, NextQuestion, SkipQuestionFields

\* Each pointer is counted against max_hops, each label against max_name_len.
LEMMA NameBoundedKept ==
  ASSUME TypeOK, Placed, NameBounded, [Next]_vars
  PROVE  NameBounded'
<1>1. CASE Parse \/ ReadStep \/ TxtStep
  <2>f. rd \in NameReads
    BY DEF TypeOK
  <2>1. pc \in {"read", "txt"} => meta.type # "other"
    BY DEF Placed
  <2>2. CASE Leaves \/ StartsTxt \/ PassesEntry
    BY <2>2 DEF Leaves, Advance, StartsTxt, PassesEntry, NameBounded
  <2>3. CASE Calls
    <3>1. rd'.hops = 0 /\ rd'.result = <<>>
      BY <2>3 DEF Calls, ReadName
    <3> QED
      BY <3>1, WireSizes DEF NameBounded
  <2>4. CASE Hops
    <3>1. rd'.hops = rd.hops + 1 /\ rd'.result = rd.result
      BY <2>f, <2>4, Zenon DEF Hops, NameReads
    <3> QED
      BY <2>4, <3>1 DEF Hops, NameBounded
  <2>5. CASE PassesLabel
    <3>1. PICK name \in Strings :
             /\ Len(name) < MaxNameLen
             /\ rd' = [rd EXCEPT !.offset = PastLabel(rd.offset), !.result = name]
      BY <2>5 DEF PassesLabel
    <3>2. rd'.hops = rd.hops /\ rd'.result = name
      BY <2>f, <3>1, Zenon DEF NameReads
    <3> QED
      BY <2>5, <3>1, <3>2 DEF PassesLabel, NameBounded
  <2> QED
    BY <1>1, <2>1, <2>2, <2>3, <2>4, <2>5, ParserCases
<1>2. CASE ReadHeader \/ NextQuestion \/ SkipQuestionFields
  BY <1>2, OuterSteps DEF NameBounded
<1>3. CASE NextRecord \/ SkipName \/ ReadFields
  <2>1. pc' # "read"
    BY <1>3 DEF NextRecord, SkipName, ReadFields
  <2> QED
    BY <2>1 DEF NameBounded
<1>4. CASE UNCHANGED vars
  BY <1>4 DEF vars, NameBounded
<1> QED
  BY <1>1, <1>2, <1>3, <1>4, Zenon DEF Next

\* skip_dns_name() goes from label to label.
LEMMA ChainGrows ==
  ASSUME buf \in Strings, NEW from, NEW end \in Nat, At(end) \in 1..(3 * Tag - 1),
         NEW labels, LabelChain(labels, from, end)
  PROVE  LabelChain(labels \union {PastLabel(end)}, from, PastLabel(end))
<1>1. PastLabel(end) \in Nat /\ end < PastLabel(end)
  BY AtIsByte DEF PastLabel
<1>2. ASSUME NEW x \in labels \union {PastLabel(end)}
      PROVE  /\ x \in Nat /\ x <= PastLabel(end)
             /\ x # PastLabel(end) => At(x) \in 1..(3 * Tag - 1)
                                     /\ PastLabel(x) \in labels \union {PastLabel(end)}
  <2>1. CASE x = PastLabel(end)
    BY <1>1, <2>1
  <2>2. CASE x \in labels /\ x # PastLabel(end)
    <3>1. x \in Nat /\ x <= end /\ (x # end => At(x) \in 1..(3 * Tag - 1) /\ PastLabel(x) \in labels)
      BY <2>2 DEF LabelChain
    <3>2. x <= PastLabel(end)
      BY <1>1, <3>1
    <3> QED
      BY <2>2, <3>1, <3>2
  <2> QED
    BY <1>2, <2>1, <2>2
<1>3. from \in labels
  BY DEF LabelChain
<1> QED
  BY <1>2, <1>3, Zenon DEF LabelChain

\* read_dns_name() follows the labels of the name, and stays before its end.
LEMMA ChainFollowed ==
  ASSUME buf \in Strings, NEW from, NEW after \in Int, NEW labels, NameIs(labels, from, after), NEW x \in labels
  PROVE  /\ x \in Nat /\ x < after
         /\ At(x) \in 1..(Tag - 1) => PastLabel(x) \in labels
<1>1. PICK end \in Nat : LabelChain(labels, from, end) /\ NameEnds(end, after)
  BY DEF NameIs
<1>2. x \in Nat /\ x <= end /\ (x # end => PastLabel(x) \in labels)
  BY <1>1 DEF LabelChain
<1>3. x < after
  BY <1>1, <1>2 DEF NameEnds
<1>4. At(x) \in 1..(Tag - 1) => x # end
  <2>1. At(end) = 0 \/ At(end) >= 3 * Tag
    BY <1>1 DEF NameEnds
  <2>2. At(end) \in Nat
    BY AtIsByte
  <2> QED
    BY <1>2, <2>1, <2>2, WireSizes
<1> QED
  BY <1>2, <1>3, <1>4

\* The labels of a packet do not change with the walk's place in it.
LEMMA SameLabels ==
  ASSUME buf' = buf
  PROVE  /\ \A labels, from, end : LabelChain(labels, from, end)' <=> LabelChain(labels, from, end)
         /\ \A labels, from, after : NameIs(labels, from, after)' <=> NameIs(labels, from, after)
BY DEF LabelChain, NameIs, NameEnds, PastLabel, At, Size

\* skip_dns_name() and read_dns_name() go over the same labels.
LEMMA SameNameKept ==
  ASSUME TypeOK, TypeOK', Placed, SameName, [Next]_vars
  PROVE  SameName'
<1>b. buf \in Strings /\ offset \in Nat /\ meta \in Metas /\ rd \in NameReads /\ buf' = buf
  BY SamePacket DEF TypeOK
<1>l. RecordLen \in Nat
  BY Sizes
<1>f. /\ meta.record_offset \in Nat /\ meta.record_offset - RecordLen \in Int
      /\ rd.offset \in Nat /\ rd.hops \in Nat
  BY <1>l, Fields
<1>1. CASE ReadHeader \/ NextQuestion \/ SkipQuestionFields
  BY <1>1, OuterSteps DEF SameName
<1>2. CASE NextRecord
  <2>1. CASE pc' = "done"
    BY <2>1 DEF SameName
  <2>2. CASE pc' = "skip_owner"
    <3>1. meta'.name_offset = offset /\ offset' = offset
      BY <1>2, <1>b, <2>2 DEF NextRecord, Metas
    <3>2. LabelChain({offset}, offset, offset)
      BY <1>b DEF LabelChain
    <3> QED
      BY <1>b, <2>2, <3>1, <3>2, SameLabels DEF SameName
  <2> QED
    BY <1>2, <2>1, <2>2 DEF NextRecord
<1>3. CASE SkipName
  <2>1. CASE pc' \notin {"skip_owner", "fields"}
    BY <1>3, <2>1 DEF SkipName, SameName
  <2>2. CASE pc' \in {"skip_owner", "fields"}
    <3>1. pc = "skip_owner" /\ meta' = meta
      BY <1>3, <2>2 DEF SkipName
    <3>2. PICK labels : LabelChain(labels, meta.name_offset, offset)
      BY <3>1 DEF SameName
    <3>3. At(offset) \in Nat /\ 3 * Tag \in Nat
      BY <1>b, AtIsByte, WireSizes
    <3>4. CASE pc' = "skip_owner"
      <4>1. ~(At(offset) >= 3 * Tag) /\ At(offset) # 0 /\ offset' = PastLabel(offset)
        BY <1>3, <3>1, <3>4 DEF SkipName
      <4>2. At(offset) \in 1..(3 * Tag - 1)
        BY <3>3, <4>1
      <4>3. LabelChain(labels \union {PastLabel(offset)}, meta.name_offset, PastLabel(offset))
        BY <1>b, <3>2, <4>2, ChainGrows
      <4> QED
        BY <1>b, <3>1, <3>4, <4>1, <4>3, SameLabels DEF SameName
    <3>5. CASE pc' = "fields"
      <4>1. NameEnds(offset, offset')
        BY <1>3, <3>1, <3>5 DEF SkipName, NameEnds
      <4>2. NameIs(labels, meta.name_offset, offset')
        BY <1>b, <3>2, <4>1, Zenon DEF NameIs
      <4> QED
        BY <1>b, <3>1, <3>5, <4>2, SameLabels DEF SameName
    <3> QED
      BY <2>2, <3>4, <3>5
  <2> QED
    BY <2>1, <2>2
<1>4. CASE ReadFields
  <2>1. CASE pc' = "done"
    BY <2>1 DEF SameName
  <2>2. CASE pc' = "parse"
    <3> DEFINE at == offset + RecordLen
               len == Field(offset + 4 * W)
               type == TypeOf[Field(offset)]
    <3>1. /\ pc = "fields"
          /\ meta' = [meta EXCEPT !.type = type, !.record_offset = at, !.record_length = len]
      BY <1>4, <2>2, Zenon DEF ReadFields
    <3>2. meta'.record_offset = at /\ meta'.name_offset = meta.name_offset
      <4> HIDE DEF at, len, type
      <4> QED
        BY <1>b, <3>1 DEF Metas
    <3>3. meta'.record_offset - RecordLen = offset
      BY <1>b, <1>l, <3>2
    <3>4. PICK labels : NameIs(labels, meta.name_offset, offset)
      BY <3>1 DEF SameName
    <3>5. NameIs(labels, meta.name_offset, meta.record_offset - RecordLen)'
      BY <1>b, <3>2, <3>3, <3>4, SameLabels
    <3> QED
      BY <2>2, <3>5 DEF SameName
  <2> QED
    BY <1>4, <2>1, <2>2 DEF ReadFields
<1>5. CASE Parse \/ ReadStep \/ TxtStep
  <2>1. pc \in {"read", "txt"} => meta.type # "other"
    BY DEF Placed
  <2>2. CASE Leaves
    BY <2>2 DEF Leaves, Advance, SameName
  <2> DEFINE after == meta.record_offset - RecordLen
  <2>3. ASSUME NEW labels, NameIs(labels, meta.name_offset, after), meta' = meta,
               pc' \in {"read", "txt"},
               (pc' = "read" /\ rd'.of = "owner" /\ rd'.hops = 0) => rd'.offset \in labels
        PROVE  SameName'
    <3>1. NameIs(labels, meta.name_offset, after)'
      BY <1>b, <2>3, SameLabels
    <3> QED
      BY <2>3, <3>1 DEF SameName
  <2>4. CASE Calls
    <3>1. PICK labels : NameIs(labels, meta.name_offset, after)
      BY <2>4 DEF Calls, SameName
    <3>2. meta.name_offset \in labels
      BY <3>1, Zenon DEF NameIs, LabelChain
    <3>3. /\ pc' = "read" /\ meta' = meta
          /\ rd'.of = "owner" => rd'.offset = meta.name_offset
      BY <2>4 DEF Calls, ReadName
    <3> QED
      BY <2>3, <3>1, <3>2, <3>3
  <2>5. CASE Hops
    <3>1. PICK labels : NameIs(labels, meta.name_offset, after)
      BY <2>5 DEF Hops, SameName
    <3>2. rd'.hops = rd.hops + 1 /\ pc' = "read" /\ meta' = meta
      BY <1>b, <2>5, Zenon DEF Hops, NameReads
    <3>3. rd'.hops # 0
      BY <1>f, <3>2
    <3> QED
      BY <2>3, <3>1, <3>2, <3>3
  <2>6. CASE PassesLabel
    <3>1. PICK labels : /\ NameIs(labels, meta.name_offset, after)
                        /\ (rd.of = "owner" /\ rd.hops = 0) => rd.offset \in labels
      BY <2>6 DEF PassesLabel, SameName
    <3>2. PICK name : rd' = [rd EXCEPT !.offset = PastLabel(rd.offset), !.result = name]
      BY <2>6 DEF PassesLabel
    <3>3. rd'.offset = PastLabel(rd.offset) /\ rd'.of = rd.of /\ rd'.hops = rd.hops
      BY <1>b, <3>2, Zenon DEF NameReads
    <3>4. At(rd.offset) \in 1..(Tag - 1) /\ pc' = "read" /\ meta' = meta
      BY <2>6 DEF PassesLabel
    <3>5. (rd.of = "owner" /\ rd.hops = 0) => PastLabel(rd.offset) \in labels
      BY <1>b, <1>f, <3>1, <3>4, ChainFollowed
    <3> QED
      BY <2>3, <3>1, <3>3, <3>4, <3>5
  <2>7. CASE StartsTxt \/ PassesEntry
    <3>1. PICK labels : NameIs(labels, meta.name_offset, after)
      BY <2>7 DEF StartsTxt, PassesEntry, SameName
    <3>2. pc' = "txt" /\ meta' = meta
      BY <2>7 DEF StartsTxt, PassesEntry
    <3> QED
      BY <2>3, <3>1, <3>2
  <2> QED
    BY <1>5, <2>1, <2>2, <2>4, <2>5, <2>6, <2>7, ParserCases
<1>6. CASE UNCHANGED vars
  <2>1. pc' = pc /\ offset' = offset /\ meta' = meta /\ rd' = rd
    BY <1>6 DEF vars
  <2> QED
    BY <1>b, <2>1, SameLabels DEF SameName
<1> QED
  BY <1>1, <1>2, <1>3, <1>4, <1>5, <1>6, Zenon DEF Next

-----------------------------------------------------------------------------
Inv == TypeOK /\ InBounds /\ Placed /\ Behind /\ Disjoint /\ SameName /\ NameBounded

\* Inv holds of a packet that has just arrived.
LEMMA InvAtFirst == Init => Inv
<1> SUFFICES ASSUME Init PROVE Inv
  OBVIOUS
<1>1. TypeOK
  <2>1. buf \in Strings
    BY WireFrames DEF Init, Strings, Byte
  <2>2. meta \in Metas
    BY DEF Init, NoMeta, Metas, Types
  <2>3. rd \in NameReads
    BY DEF Init, NoName, NameReads, Strings
  <2> QED
    BY <2>1, <2>2, <2>3 DEF Init, TypeOK
<1>2. pc = "header" /\ extents = <<>> /\ touched = {}
  BY DEF Init
<1>3. InBounds /\ Placed /\ SameName /\ NameBounded
  BY <1>2 DEF InBounds, Placed, SameName, NameBounded
<1>4. Behind /\ Disjoint
  BY <1>2 DEF Behind, Disjoint
<1> QED
  BY <1>1, <1>3, <1>4 DEF Inv

(***************************************************************************)
(* Whatever packet arrives, of whatever length: walk_dns_frame() and the   *)
(* parsers read no byte outside it, the records they deliver take bytes of *)
(* their own one behind the other, and read_dns_name() stays within the     *)
(* bytes that skip_dns_name() passed until it follows a pointer and within *)
(* its limits on pointers and on length.                                   *)
(***************************************************************************)
THEOREM WalkIsConfined == Spec => []Confined
<1>1. Inv /\ [Next]_vars => Inv'
  <2> SUFFICES ASSUME Inv, [Next]_vars PROVE Inv'
    OBVIOUS
  <2>1. TypeOK'
    BY TypesKept DEF Inv, Placed
  <2>2. Placed' /\ InBounds' /\ NameBounded'
    BY <2>1, PlacedKept, InBoundsKept, NameBoundedKept DEF Inv
  <2>3. Behind' /\ Disjoint' /\ SameName'
    BY <2>1, <2>2, BehindKept, DisjointKept, SameNameKept DEF Inv
  <2> QED
    BY <2>1, <2>2, <2>3 DEF Inv
<1>2. Inv => Confined
  <2> SUFFICES ASSUME Inv, pc = "read", rd.of = "owner", rd.hops = 0
               PROVE  rd.offset < meta.record_offset - RecordLen
    BY DEF Inv, Confined, OwnerWithinName
  <2>1. PICK labels : /\ NameIs(labels, meta.name_offset, meta.record_offset - RecordLen)
                      /\ rd.offset \in labels
    BY DEF Inv, SameName
  <2>2. buf \in Strings /\ meta.record_offset - RecordLen \in Int
    BY Fields, Sizes DEF Inv, TypeOK
  <2> QED
    BY <2>1, <2>2, ChainFollowed
<1> QED
  BY <1>1, <1>2, InvAtFirst, PTL DEF Spec
=============================================================================
