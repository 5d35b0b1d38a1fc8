----------------------------- MODULE RecordCache -----------------------------
(***************************************************************************)
(* record_cache: records heard on the link, with their time to live.       *)
(*                                                                         *)
(* A key is a (name, type) pair, data stands for class and rdata; the two  *)
(* are the identity of a record.  Time counts in seconds.  insert() and    *)
(* erase_expired() hold the exclusive lock for all their work and release  *)
(* it only to call back, so each is one step whatever thread calls it.     *)
(***************************************************************************)
EXTENDS Integers, FiniteSets

CONSTANTS
    Keys,          \* (name, type) pairs
    Data,          \* (class, rdata) pairs
    Origins,       \* endpoints records are heard from
    TTLs,          \* times to live on the wire
    GoodbyeGrace,  \* cache_options::goodbye_grace
    MaxTime,       \* bound on the clock
    MaxInserts     \* bound on the calls of insert()

ASSUME Durations == TTLs \subseteq Nat /\ GoodbyeGrace \in Nat
ASSUME Bounds == MaxTime \in Nat /\ MaxInserts \in Nat

VARIABLES
    m_entries,  \* the multimap, as a set of entries
    now,        \* Clock::now()
    inserts,    \* how many records were inserted
    heard,      \* history: for each identity its latest insertion
    flushes     \* history: the insertions that had the cache-flush bit

vars == <<m_entries, now, inserts, heard, flushes>>

None == -1
Identities == Keys \X Data
Entries == [key : Keys, data : Data, origin : Origins, cache_flush : BOOLEAN,
            wire_ttl : Nat, inserted_at : Nat, flush_deadline : Nat \cup {None}]

Init ==
    /\ m_entries = {}
    /\ now = 0
    /\ inserts = 0
    /\ heard = [i \in Identities |-> [n |-> 0, at |-> 0, ttl |-> 0, origin |-> None]]
    /\ flushes = {}

-----------------------------------------------------------------------------
\* A goodbye is kept for goodbye_grace.
EffectiveTtl(ttl) == IF ttl = 0 THEN GoodbyeGrace ELSE ttl

\* Mutant: the origin is part of the identity.
Same_PerOrigin(e, k, d, o) == e.key = k /\ e.data = d /\ e.origin = o

\* record_identity_equal(): the origin does not count.
Same(e, k, d, o) == e.key = k /\ e.data = d

\* apply_cache_flush(): the deadline of one entry of another origin.
\* Mutant: a later flush postpones the deadline of an earlier one.
FlushDeadline_Latest(e) == now + GoodbyeGrace

FlushDeadline(e) ==
    IF e.flush_deadline = None \/ e.flush_deadline > now + GoodbyeGrace
    THEN now + GoodbyeGrace ELSE e.flush_deadline

\* Mutant: entries of the flushing origin are marked as well.
Flush_OwnToo(S, k, o) ==
    {IF e.key = k THEN [e EXCEPT !.flush_deadline = FlushDeadline(e)] ELSE e : e \in S}

Flush(S, k, o) ==
    {IF e.key = k /\ e.origin # o
     THEN [e EXCEPT !.flush_deadline = FlushDeadline(e)] ELSE e : e \in S}

(***************************************************************************)
(* insert(): the first identical entry is overwritten, its flush deadline  *)
(* cleared; if there is none an entry is added.  A record with the         *)
(* cache-flush bit then marks the entries of other origins.                *)
(***************************************************************************)
Stored(k, d, o, ttl, flush) ==
    LET old == {e \in m_entries : Same(e, k, d, o)}
        new == [key |-> k, data |-> d, origin |-> o, cache_flush |-> flush,
                wire_ttl |-> EffectiveTtl(ttl), inserted_at |-> now,
                flush_deadline |-> None]
    IN  IF old = {} THEN {m_entries \cup {new}}
        ELSE {(m_entries \ {e}) \cup {new} : e \in old}

Insert(k, d, o, ttl, flush) ==
    /\ inserts < MaxInserts
    /\ \E S \in Stored(k, d, o, ttl, flush) :
         m_entries' = IF flush THEN Flush(S, k, o) ELSE S
    /\ inserts' = inserts + 1
    /\ heard' = [heard EXCEPT ![<<k, d>>] =
                   [n |-> inserts', at |-> now, ttl |-> ttl, origin |-> o]]
    /\ flushes' = flushes \cup (IF flush THEN {[n |-> inserts', at |-> now, key |-> k,
                                              origin |-> o]} ELSE {})
    /\ UNCHANGED now

\* is_expired()
IsExpired(e) ==
    \/ now >= e.inserted_at + e.wire_ttl
    \/ e.flush_deadline # None /\ now >= e.flush_deadline

\* erase_expired(): what it removes is what it returns and reports.
EraseExpired ==
    /\ m_entries' = {e \in m_entries : ~IsExpired(e)}
    /\ UNCHANGED <<now, inserts, heard, flushes>>

Advance ==
    /\ now < MaxTime
    /\ now' = now + 1
    /\ UNCHANGED <<m_entries, inserts, heard, flushes>>

Next ==
    \/ \E k \in Keys, d \in Data, o \in Origins, ttl \in TTLs, flush \in BOOLEAN :
         Insert(k, d, o, ttl, flush)
    \/ EraseExpired
    \/ Advance

Spec == Init /\ [][Next]_vars

-----------------------------------------------------------------------------
Heard == [n : Nat, at : Nat, ttl : TTLs \cup {0}, origin : Origins \cup {None}]
Flushes == [n : Nat, at : Nat, key : Keys, origin : Origins]

(***************************************************************************)
(* Types; nothing in the cache comes from the future.                      *)
(***************************************************************************)
TypeOK ==
    /\ m_entries \subseteq Entries
    /\ now \in Nat
    /\ inserts \in Nat
    /\ heard \in [Identities -> Heard]
    /\ flushes \subseteq Flushes
    /\ \A e \in m_entries : e.inserted_at <= now

(***************************************************************************)
(* A record is stored once, whoever announces it and how often: insert()   *)
(* refreshes, it never duplicates (record-cache.md).                       *)
(***************************************************************************)
OneEntryPerIdentity ==
    \A e, f \in m_entries : e.key = f.key /\ e.data = f.data => e = f

(***************************************************************************)
(* When a record is dead, told from what was heard and not from the        *)
(* fields of its entry: its latest announcement has run out, or after it   *)
(* another origin announced the key with the cache-flush bit and the grace *)
(* period has passed since.                                                *)
(***************************************************************************)
FlushedAfter(i, f) ==
    f.key = i[1] /\ f.n > heard[i].n /\ f.origin # heard[i].origin

Dead(i) ==
    \/ now >= heard[i].at + EffectiveTtl(heard[i].ttl)
    \/ \E f \in flushes : FlushedAfter(i, f) /\ now >= f.at + GoodbyeGrace

(***************************************************************************)
(* An entry is expired exactly when its record is dead: refreshes and      *)
(* flushes from any origins in any order neither keep a dead record nor    *)
(* evict a live one (record-cache.md, cache-flush.md).                     *)
(***************************************************************************)
ExpiresWhenDead ==
    \A e \in m_entries : IsExpired(e) <=> Dead(<<e.key, e.data>>)

(***************************************************************************)
(* What leaves the cache was dead, and what was heard and is not dead is   *)
(* in the cache.                                                           *)
(***************************************************************************)
LiveRecordsKept ==
    \A i \in Identities :
      heard[i].n # 0 /\ ~Dead(i) => \E e \in m_entries : <<e.key, e.data>> = i

=============================================================================
