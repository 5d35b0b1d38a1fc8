-------------------------- MODULE RecordCacheProofs --------------------------
(***************************************************************************)
(* For any keys, data, origins, times to live and grace period, and any    *)
(* number of insertions: the cache stores a record once, and an entry is   *)
(* expired exactly when its record is dead.                                *)
(***************************************************************************)
EXTENDS RecordCache, TLAPS

\* The entry insert() stores, and what its cache-flush step makes of another.
NewEntry(k, d, o, ttl, flush) ==
    [key |-> k, data |-> d, origin |-> o, cache_flush |-> flush,
     wire_ttl |-> EffectiveTtl(ttl), inserted_at |-> now, flush_deadline |-> None]

Touched(e, k, o, flush) ==
    IF flush /\ e.key = k /\ e.origin # o
    THEN [e EXCEPT !.flush_deadline = FlushDeadline(e)] ELSE e

Others(k, d) == {e \in m_entries : ~(e.key = k /\ e.data = d)}

(***************************************************************************)
(* What insert() does to a cache that stores every record once: the record *)
(* is replaced by its new entry, all others are kept or touched.           *)
(***************************************************************************)
LEMMA InsertedEntries ==
    ASSUME OneEntryPerIdentity,
           NEW k \in Keys, NEW d \in Data, NEW o \in Origins, NEW ttl \in TTLs,
           NEW flush \in BOOLEAN, Insert(k, d, o, ttl, flush)
    PROVE  m_entries' = {Touched(e, k, o, flush) : e \in Others(k, d)}
                          \cup {NewEntry(k, d, o, ttl, flush)}
<1> DEFINE new == NewEntry(k, d, o, ttl, flush)
           S == Others(k, d) \cup {new}
<1>1. Stored(k, d, o, ttl, flush) = {S}
  <2>1. CASE {e \in m_entries : Same(e, k, d, o)} = {}
    <3>1. Others(k, d) = m_entries
      BY <2>1 DEF Others, Same
    <3> QED BY <2>1, <3>1 DEF Stored, NewEntry
  <2>2. CASE {e \in m_entries : Same(e, k, d, o)} # {}
    <3>1. PICK x \in m_entries : Same(x, k, d, o)
      BY <2>2
    <3>2. {e \in m_entries : Same(e, k, d, o)} = {x}
      BY <3>1 DEF OneEntryPerIdentity, Same
    <3>3. Others(k, d) = m_entries \ {x}
      BY <3>1, <3>2 DEF Others, Same, OneEntryPerIdentity
    <3> QED BY <2>2, <3>2, <3>3 DEF Stored, NewEntry
  <2> QED BY <2>1, <2>2
<1>2. m_entries' = IF flush THEN Flush(S, k, o) ELSE S
  BY <1>1 DEF Insert
<1>3. Touched(new, k, o, flush) = new
  BY DEF Touched, NewEntry
<1>4. CASE flush
  <2>1. m_entries' = {Touched(e, k, o, flush) : e \in S}
    BY <1>2, <1>4 DEF Flush, Touched
  <2> QED BY <2>1, <1>3
<1>5. CASE ~flush
  <2>1. \A e : Touched(e, k, o, flush) = e
    BY <1>5 DEF Touched
  <2> QED BY <1>2, <1>5, <2>1
<1> QED BY <1>4, <1>5

(***************************************************************************)
(* Touching an entry changes its flush deadline only.                      *)
(***************************************************************************)
LEMMA TouchedFields ==
    ASSUME TypeOK, NEW e \in m_entries, NEW k, NEW o, NEW flush \in BOOLEAN
    PROVE  LET t == Touched(e, k, o, flush) IN
           /\ t \in Entries
           /\ t.key = e.key /\ t.data = e.data /\ t.origin = e.origin
           /\ t.inserted_at = e.inserted_at /\ t.wire_ttl = e.wire_ttl
           /\ t.flush_deadline = IF flush /\ e.key = k /\ e.origin # o
                                 THEN FlushDeadline(e) ELSE e.flush_deadline
<1>1. e \in Entries /\ now \in Nat /\ GoodbyeGrace \in Nat
  BY Durations DEF TypeOK
<1>2. FlushDeadline(e) \in Nat \cup {None}
  BY <1>1 DEF FlushDeadline, Entries, None
<1> QED BY <1>1, <1>2 DEF Touched, Entries

\* The entry insert() makes is an entry, and not marked.
LEMMA NewFields ==
    ASSUME TypeOK, NEW k \in Keys, NEW d \in Data, NEW o \in Origins,
           NEW ttl \in TTLs, NEW flush \in BOOLEAN
    PROVE  NewEntry(k, d, o, ttl, flush) \in Entries
<1>1. EffectiveTtl(ttl) \in Nat /\ now \in Nat
  BY Durations DEF EffectiveTtl, TypeOK
<1> QED BY <1>1 DEF NewEntry, Entries, None

(***************************************************************************)
(* The types, and that a record is stored once whoever announces it.  The  *)
(* two are proved together: replacing "the first identical entry" replaces *)
(* the record only if there is no second one.                              *)
(***************************************************************************)
THEOREM StoredOnce == Spec => [](TypeOK /\ OneEntryPerIdentity)
<1>1. Init => TypeOK /\ OneEntryPerIdentity
  BY DEF Init, TypeOK, OneEntryPerIdentity, Heard, Identities, None
<1>2. TypeOK /\ OneEntryPerIdentity /\ [Next]_vars
        => TypeOK' /\ OneEntryPerIdentity'
  <2> SUFFICES ASSUME TypeOK, OneEntryPerIdentity, [Next]_vars
               PROVE  TypeOK' /\ OneEntryPerIdentity'
    OBVIOUS
  <2>1. ASSUME NEW k \in Keys, NEW d \in Data, NEW o \in Origins,
               NEW ttl \in TTLs, NEW flush \in BOOLEAN,
               Insert(k, d, o, ttl, flush)
        PROVE  TypeOK' /\ OneEntryPerIdentity'
    <3> DEFINE new == NewEntry(k, d, o, ttl, flush)
    <3>1. m_entries' = {Touched(e, k, o, flush) : e \in Others(k, d)} \cup {new}
      BY <2>1, InsertedEntries
    <3>2. new \in Entries
      BY NewFields
    <3>3. \A e \in Others(k, d) :
            /\ e \in m_entries
            /\ Touched(e, k, o, flush) \in Entries
            /\ Touched(e, k, o, flush).key = e.key
            /\ Touched(e, k, o, flush).data = e.data
            /\ Touched(e, k, o, flush).inserted_at = e.inserted_at
      BY TouchedFields DEF Others
    <3>4. m_entries' \subseteq Entries
      BY <3>1, <3>2, <3>3
    <3>5. \A e \in m_entries' : e.inserted_at <= now'
      <4>1. now' = now /\ now \in Nat
        BY <2>1 DEF Insert, TypeOK
      <4>2. new.inserted_at = now
        BY DEF NewEntry
      <4> QED BY <3>1, <3>3, <4>1, <4>2 DEF TypeOK
    <3>6. now' \in Nat /\ inserts' \in Nat
      BY <2>1 DEF Insert, TypeOK
    <3>7. heard' \in [Identities -> Heard]
      BY <2>1, <3>6 DEF Insert, TypeOK, Heard
    <3>8. flushes' \subseteq Flushes
      BY <2>1, <3>6 DEF Insert, TypeOK, Flushes
    <3>9. OneEntryPerIdentity'
      <4>1. new.key = k /\ new.data = d
        BY DEF NewEntry
      <4> QED BY <3>1, <3>3, <4>1 DEF OneEntryPerIdentity, Others
    <3> QED BY <3>4, <3>5, <3>6, <3>7, <3>8, <3>9 DEF TypeOK
  <2>2. CASE EraseExpired
    BY <2>2 DEF EraseExpired, TypeOK, OneEntryPerIdentity
  <2>3. CASE Advance
    <3>1. now' = now + 1 /\ now \in Nat /\ m_entries' = m_entries
      BY <2>3 DEF Advance, TypeOK
    <3>2. \A e \in m_entries : e.inserted_at \in Nat /\ e.inserted_at <= now
      BY DEF TypeOK, Entries
    <3> QED BY <2>3, <3>1, <3>2 DEF Advance, TypeOK, OneEntryPerIdentity
  <2>4. CASE UNCHANGED vars
    BY <2>4 DEF vars, TypeOK, OneEntryPerIdentity
  <2> QED BY <2>1, <2>2, <2>3, <2>4 DEF Next
<1> QED BY <1>1, <1>2, PTL DEF Spec

-----------------------------------------------------------------------------
(***************************************************************************)
(* The strengthening: what an entry holds is what was heard last, its      *)
(* flush deadline is that of a flush heard since, and no flush heard since *)
(* is earlier.                                                             *)
(***************************************************************************)
Id(e) == <<e.key, e.data>>

HoldsLatest(e) ==
    /\ heard[Id(e)].n # 0
    /\ e.inserted_at = heard[Id(e)].at
    /\ e.wire_ttl = EffectiveTtl(heard[Id(e)].ttl)
    /\ e.origin = heard[Id(e)].origin

DeadlineIsAFlush(e) ==
    e.flush_deadline # None =>
      \E f \in flushes : FlushedAfter(Id(e), f) /\ e.flush_deadline = f.at + GoodbyeGrace

DeadlineIsFirst(e) ==
    \A f \in flushes : FlushedAfter(Id(e), f) =>
      e.flush_deadline # None /\ e.flush_deadline <= f.at + GoodbyeGrace

Numbered ==
    /\ \A f \in flushes : f.n <= inserts
    /\ \A i \in Identities : heard[i].n <= inserts

Traced ==
    /\ Numbered
    /\ \A e \in m_entries : HoldsLatest(e) /\ DeadlineIsAFlush(e) /\ DeadlineIsFirst(e)

\* An empty cache is traceable.
LEMMA TracedInit == Init => Traced
BY DEF Init, Traced, Numbered

(***************************************************************************)
(* The two ways an entry can look after insert(): as the new one ...       *)
(***************************************************************************)
LEMMA NewIsTraced ==
    ASSUME TypeOK, Traced,
           NEW k \in Keys, NEW d \in Data, NEW o \in Origins, NEW ttl \in TTLs,
           NEW flush \in BOOLEAN, Insert(k, d, o, ttl, flush),
           NEW e, e = NewEntry(k, d, o, ttl, flush)
    PROVE  HoldsLatest(e)' /\ DeadlineIsAFlush(e)' /\ DeadlineIsFirst(e)'
<1>1. e.key = k /\ e.data = d /\ e.origin = o /\ e.inserted_at = now
      /\ e.wire_ttl = EffectiveTtl(ttl) /\ e.flush_deadline = None
  BY DEF NewEntry
<1>2. <<k, d>> \in Identities /\ Id(e) = <<k, d>>
  BY <1>1 DEF Identities, Id
<1>3. heard'[<<k, d>>] = [n |-> inserts + 1, at |-> now, ttl |-> ttl, origin |-> o]
  BY <1>2 DEF Insert, TypeOK
<1>4. inserts \in Nat
  BY DEF TypeOK
<1>5. HoldsLatest(e)'
  BY <1>1, <1>2, <1>3, <1>4 DEF HoldsLatest, Id, EffectiveTtl
<1>6. DeadlineIsAFlush(e)'
  BY <1>1 DEF DeadlineIsAFlush, None
<1>7. ASSUME NEW f \in flushes' PROVE ~FlushedAfter(Id(e), f)'
  <2>1. CASE f \in flushes
    <3>1. f.n <= inserts /\ f.n \in Nat
      BY <2>1 DEF Traced, Numbered, TypeOK, Flushes
    <3> QED BY <3>1, <1>1, <1>2, <1>3, <1>4 DEF FlushedAfter, Id
  <2>2. CASE f \notin flushes
    <3>1. f.origin = o
      BY <2>2, <1>7 DEF Insert
    <3> QED BY <3>1, <1>1, <1>2, <1>3 DEF FlushedAfter, Id
  <2> QED BY <2>1, <2>2
<1> QED BY <1>5, <1>6, <1>7 DEF DeadlineIsFirst

(***************************************************************************)
(* ... or as an entry of another record, possibly touched by the flush.    *)
(***************************************************************************)
LEMMA TouchedIsTraced ==
    ASSUME TypeOK, Traced,
           NEW k \in Keys, NEW d \in Data, NEW o \in Origins, NEW ttl \in TTLs,
           NEW flush \in BOOLEAN, Insert(k, d, o, ttl, flush),
           NEW e \in Others(k, d), NEW t, t = Touched(e, k, o, flush)
    PROVE  HoldsLatest(t)' /\ DeadlineIsAFlush(t)' /\ DeadlineIsFirst(t)'
<1>1. e \in m_entries /\ e \in Entries /\ ~(e.key = k /\ e.data = d)
  BY DEF Others, TypeOK
<1>2. /\ t.key = e.key /\ t.data = e.data /\ t.origin = e.origin
      /\ t.inserted_at = e.inserted_at /\ t.wire_ttl = e.wire_ttl
      /\ t.flush_deadline = IF flush /\ e.key = k /\ e.origin # o
                            THEN FlushDeadline(e) ELSE e.flush_deadline
  BY <1>1, TouchedFields
<1>3. Id(t) = Id(e) /\ Id(e) \in Identities /\ Id(e)[1] = e.key
  BY <1>1, <1>2 DEF Id, Identities, Entries
<1>4. heard'[Id(e)] = heard[Id(e)]
  BY <1>1, <1>3 DEF Insert, TypeOK, Id, Identities
<1>5. HoldsLatest(e) /\ DeadlineIsAFlush(e) /\ DeadlineIsFirst(e)
  BY <1>1 DEF Traced
<1>6. HoldsLatest(t)'
  BY <1>2, <1>3, <1>4, <1>5 DEF HoldsLatest, Id, EffectiveTtl
<1>0. PICK g : g = [n |-> inserts + 1, at |-> now, key |-> k, origin |-> o]
  OBVIOUS
<1>7. flushes' = flushes \cup (IF flush THEN {g} ELSE {})
  BY <1>0 DEF Insert
<1>8. \A f : FlushedAfter(Id(t), f)' <=> FlushedAfter(Id(e), f)
  BY <1>3, <1>4, <1>2 DEF FlushedAfter, Id
<1>9. FlushedAfter(Id(e), g) <=> e.key = k /\ e.origin # o
  <2>1. heard[Id(e)].n <= inserts /\ heard[Id(e)].n \in Nat /\ inserts \in Nat
    BY <1>3 DEF Traced, Numbered, TypeOK, Heard
  <2>2. heard[Id(e)].origin = e.origin
    BY <1>5 DEF HoldsLatest
  <2> QED BY <2>1, <2>2, <1>0, <1>3 DEF FlushedAfter
<1>10. /\ now \in Nat /\ GoodbyeGrace \in Nat
       /\ e.flush_deadline \in Nat \cup {None}
       /\ \A f \in flushes : f.at \in Nat
  BY <1>1, Durations DEF TypeOK, Entries, Flushes
<1>11. CASE flush /\ e.key = k /\ e.origin # o
  <2>1. t.flush_deadline = FlushDeadline(e) /\ g \in flushes'
    BY <1>2, <1>7, <1>11
  <2>2. FlushedAfter(Id(t), g)'
    BY <1>8, <1>9, <1>11
  <2>3. g.at = now
    BY <1>0
  <2>4. DeadlineIsAFlush(t)'
    <3>1. CASE FlushDeadline(e) = now + GoodbyeGrace
      BY <3>1, <2>1, <2>2, <2>3 DEF DeadlineIsAFlush
    <3>2. CASE FlushDeadline(e) # now + GoodbyeGrace
      <4>1. FlushDeadline(e) = e.flush_deadline /\ e.flush_deadline # None
        BY <3>2 DEF FlushDeadline
      <4>2. PICK f \in flushes : /\ FlushedAfter(Id(e), f)
                                 /\ e.flush_deadline = f.at + GoodbyeGrace
        BY <4>1, <1>5 DEF DeadlineIsAFlush
      <4> QED BY <4>1, <4>2, <2>1, <1>7, <1>8 DEF DeadlineIsAFlush
    <3> QED BY <3>1, <3>2
  <2>5. DeadlineIsFirst(t)'
    <3>1. FlushDeadline(e) # None /\ FlushDeadline(e) <= now + GoodbyeGrace
      BY <1>10 DEF FlushDeadline, None
    <3>2. e.flush_deadline # None => FlushDeadline(e) <= e.flush_deadline
      BY <1>10 DEF FlushDeadline, None
    <3>3. FlushDeadline(e) \in Nat
      BY <1>10 DEF FlushDeadline, None
    <3>4. ASSUME NEW f \in flushes', FlushedAfter(Id(t), f)'
          PROVE  t.flush_deadline # None /\ t.flush_deadline <= f.at + GoodbyeGrace
      <4>1. CASE f = g
        BY <4>1, <3>1, <2>1, <2>3
      <4>2. CASE f # g
        <5>1. f \in flushes /\ FlushedAfter(Id(e), f)
          BY <4>2, <3>4, <1>7, <1>8
        <5>2. e.flush_deadline # None /\ e.flush_deadline <= f.at + GoodbyeGrace
          BY <5>1, <1>5 DEF DeadlineIsFirst
        <5> QED BY <5>1, <5>2, <3>1, <3>2, <3>3, <2>1, <1>10
      <4> QED BY <4>1, <4>2
    <3> QED BY <3>4 DEF DeadlineIsFirst
  <2> QED BY <1>6, <2>4, <2>5
<1>12. CASE ~(flush /\ e.key = k /\ e.origin # o)
  <2>1. t.flush_deadline = e.flush_deadline
    BY <1>2, <1>12
  <2>2. \A f : f \in flushes' /\ FlushedAfter(Id(t), f)'
              <=> f \in flushes /\ FlushedAfter(Id(e), f)
    BY <1>7, <1>8, <1>9, <1>12
  <2>3. DeadlineIsAFlush(t)'
    BY <2>1, <2>2, <1>5 DEF DeadlineIsAFlush
  <2>4. DeadlineIsFirst(t)'
    BY <2>1, <2>2, <1>5 DEF DeadlineIsFirst
  <2> QED BY <1>6, <2>3, <2>4
<1> QED BY <1>11, <1>12

\* insert(), erase_expired() and the passing of time keep every entry traceable
\* to the insertions that made it.
LEMMA TracedStep ==
    ASSUME TypeOK, OneEntryPerIdentity, Traced, [Next]_vars
    PROVE  Traced'
<1>1. ASSUME NEW k \in Keys, NEW d \in Data, NEW o \in Origins, NEW ttl \in TTLs,
             NEW flush \in BOOLEAN, Insert(k, d, o, ttl, flush)
      PROVE  Traced'
  <2>1. Numbered'
    <3>1. inserts \in Nat /\ inserts' = inserts + 1
      BY <1>1 DEF Insert, TypeOK
    <3>2. \A f \in flushes' : f.n <= inserts'
      BY <1>1, <3>1 DEF Insert, Traced, Numbered, TypeOK, Flushes
    <3>3. \A i \in Identities : heard'[i].n <= inserts'
      BY <1>1, <3>1 DEF Insert, Traced, Numbered, TypeOK, Heard
    <3> QED BY <3>2, <3>3 DEF Numbered
  <2>2. ASSUME NEW t \in m_entries'
        PROVE  HoldsLatest(t)' /\ DeadlineIsAFlush(t)' /\ DeadlineIsFirst(t)'
    <3>1. \/ t = NewEntry(k, d, o, ttl, flush)
          \/ \E e \in Others(k, d) : t = Touched(e, k, o, flush)
      BY <1>1, <2>2, InsertedEntries
    <3> QED BY <1>1, <3>1, NewIsTraced, TouchedIsTraced
  <2> QED BY <2>1, <2>2 DEF Traced
<1>2. CASE EraseExpired
  BY <1>2 DEF EraseExpired, Traced, Numbered, HoldsLatest, DeadlineIsAFlush,
              DeadlineIsFirst, FlushedAfter, Id
<1>3. CASE Advance
  BY <1>3 DEF Advance, Traced, Numbered, HoldsLatest, DeadlineIsAFlush,
              DeadlineIsFirst, FlushedAfter, Id
<1>4. CASE UNCHANGED vars
  BY <1>4 DEF vars, Traced, Numbered, HoldsLatest, DeadlineIsAFlush,
              DeadlineIsFirst, FlushedAfter, Id
<1> QED BY <1>1, <1>2, <1>3, <1>4 DEF Next

\* is_expired() of a traceable entry agrees with the history of its record.
LEMMA TracedAgrees == TypeOK /\ Traced => ExpiresWhenDead
<1> SUFFICES ASSUME TypeOK, Traced, NEW e \in m_entries
             PROVE  IsExpired(e) <=> Dead(Id(e))
  BY DEF ExpiresWhenDead, Id
<1>1. HoldsLatest(e) /\ DeadlineIsAFlush(e) /\ DeadlineIsFirst(e)
  BY DEF Traced
<1>2. /\ now \in Nat /\ GoodbyeGrace \in Nat
      /\ e.flush_deadline \in Nat \cup {None}
      /\ \A f \in flushes : f.at \in Nat
  BY Durations DEF TypeOK, Entries, Flushes
<1>3. (e.flush_deadline # None /\ now >= e.flush_deadline)
      <=> \E f \in flushes : FlushedAfter(Id(e), f) /\ now >= f.at + GoodbyeGrace
  <2>1. ASSUME e.flush_deadline # None, now >= e.flush_deadline
        PROVE  \E f \in flushes : FlushedAfter(Id(e), f) /\ now >= f.at + GoodbyeGrace
    BY <2>1, <1>1 DEF DeadlineIsAFlush
  <2>2. ASSUME NEW f \in flushes, FlushedAfter(Id(e), f), now >= f.at + GoodbyeGrace
        PROVE  e.flush_deadline # None /\ now >= e.flush_deadline
    <3>1. e.flush_deadline # None /\ e.flush_deadline <= f.at + GoodbyeGrace
      BY <2>2, <1>1 DEF DeadlineIsFirst
    <3> QED BY <3>1, <2>2, <1>2
  <2> QED BY <2>1, <2>2
<1> QED BY <1>1, <1>3 DEF IsExpired, Dead, HoldsLatest

(***************************************************************************)
(* An entry is expired exactly when its record is dead, whatever mix of    *)
(* refreshes, goodbyes and cache flushes from whatever origins came before *)
(* (is_expired() against the history of insert()).                         *)
(***************************************************************************)
THEOREM ExpiryIsExact == Spec => []ExpiresWhenDead
<1>1. Init => Traced
  BY TracedInit
<1>2. TypeOK /\ OneEntryPerIdentity /\ Traced /\ [Next]_vars => Traced'
  BY TracedStep
<1>3. TypeOK /\ Traced => ExpiresWhenDead
  BY TracedAgrees
<1>4. Spec => [](TypeOK /\ OneEntryPerIdentity)
  BY StoredOnce
<1> QED BY <1>1, <1>2, <1>3, <1>4, PTL DEF Spec

(***************************************************************************)
(* A record that was heard and is not dead is in the cache: neither        *)
(* insert() nor erase_expired() loses it.                                  *)
(***************************************************************************)
THEOREM NoLiveRecordLost == Spec => []LiveRecordsKept
<1>1. Init => LiveRecordsKept
  BY DEF Init, LiveRecordsKept
<1>2. ASSUME TypeOK, OneEntryPerIdentity, ExpiresWhenDead, LiveRecordsKept, [Next]_vars
      PROVE  LiveRecordsKept'
  <2> SUFFICES ASSUME NEW i \in Identities, heard'[i].n # 0, ~Dead(i)'
               PROVE  \E e \in m_entries' : Id(e) = i
    BY DEF LiveRecordsKept, Id
  <2>1. ASSUME NEW k \in Keys, NEW d \in Data, NEW o \in Origins, NEW ttl \in TTLs,
               NEW flush \in BOOLEAN, Insert(k, d, o, ttl, flush)
        PROVE  \E e \in m_entries' : Id(e) = i
    <3>1. m_entries' = {Touched(e, k, o, flush) : e \in Others(k, d)}
                         \cup {NewEntry(k, d, o, ttl, flush)}
      BY <1>2, <2>1, InsertedEntries
    <3>2. CASE i = <<k, d>>
      <4>1. Id(NewEntry(k, d, o, ttl, flush)) = i
        BY <3>2 DEF NewEntry, Id
      <4>2. NewEntry(k, d, o, ttl, flush) \in m_entries'
        BY <3>1
      <4> QED BY <4>1, <4>2
    <3>3. CASE i # <<k, d>>
      <4>1. heard'[i] = heard[i] /\ now' = now /\ flushes \subseteq flushes'
        BY <1>2, <2>1, <3>3 DEF Insert, TypeOK
      <4>2. ~Dead(i)
        BY <4>1 DEF Dead, FlushedAfter, EffectiveTtl
      <4>3. PICK e \in m_entries : Id(e) = i
        BY <1>2, <4>1, <4>2 DEF LiveRecordsKept, Id
      <4>4. e \in Others(k, d)
        BY <4>3, <3>3 DEF Others, Id
      <4>5. Id(Touched(e, k, o, flush)) = i
        BY <1>2, <4>3, TouchedFields DEF Id
      <4> QED BY <3>1, <4>4, <4>5
    <3> QED BY <3>2, <3>3
  <2>2. CASE EraseExpired
    <3>1. heard' = heard /\ now' = now /\ flushes' = flushes
      BY <2>2 DEF EraseExpired
    <3>2. ~Dead(i) /\ heard[i].n # 0
      BY <3>1 DEF Dead, FlushedAfter, EffectiveTtl
    <3>3. PICK e \in m_entries : Id(e) = i
      BY <1>2, <3>2 DEF LiveRecordsKept, Id
    <3>4. ~IsExpired(e)
      BY <1>2, <3>2, <3>3 DEF ExpiresWhenDead, Id
    <3> QED BY <2>2, <3>3, <3>4 DEF EraseExpired
  <2>3. CASE Advance
    <3>1. heard' = heard /\ now' = now + 1 /\ flushes' = flushes
          /\ m_entries' = m_entries
      BY <2>3 DEF Advance
    <3>2. /\ now \in Nat /\ GoodbyeGrace \in Nat
          /\ heard[i].at \in Nat /\ EffectiveTtl(heard[i].ttl) \in Nat
          /\ \A f \in flushes : f.at \in Nat
      BY <1>2, Durations DEF TypeOK, Heard, Flushes, EffectiveTtl
    <3>3. ~(now >= heard[i].at + EffectiveTtl(heard[i].ttl))
      <4>1. ~(now' >= heard'[i].at + EffectiveTtl(heard'[i].ttl))
        BY DEF Dead, EffectiveTtl
      <4> QED BY <4>1, <3>1, <3>2
    <3>4. ASSUME NEW f \in flushes, FlushedAfter(i, f), now >= f.at + GoodbyeGrace
          PROVE  FALSE
      <4>1. FlushedAfter(i, f)'
        BY <3>4, <3>1 DEF FlushedAfter
      <4>2. now' >= f.at + GoodbyeGrace
        BY <3>4, <3>1, <3>2
      <4> QED BY <4>1, <4>2, <3>1, <3>4 DEF Dead
    <3>5. ~Dead(i)
      BY <3>3, <3>4 DEF Dead
    <3> QED BY <1>2, <3>1, <3>5 DEF LiveRecordsKept, Id
  <2>4. CASE UNCHANGED vars
    BY <1>2, <2>4 DEF vars, LiveRecordsKept, Dead, FlushedAfter, EffectiveTtl, Id
  <2> QED BY <1>2, <2>1, <2>2, <2>3, <2>4 DEF Next
<1>3. TypeOK /\ OneEntryPerIdentity /\ ExpiresWhenDead /\ LiveRecordsKept
        /\ [Next]_vars => LiveRecordsKept'
  BY <1>2
<1>4. Spec => [](TypeOK /\ OneEntryPerIdentity) /\ []ExpiresWhenDead
  BY StoredOnce, ExpiryIsExact
<1> QED BY <1>1, <1>3, <1>4, PTL DEF Spec

=============================================================================
