------------------------- MODULE ServiceServerProofs -------------------------
(***************************************************************************)
(* The safety properties of ServiceServer, for any counts of probes and    *)
(* announcements, any names, record types and senders, and any number of   *)
(* updates and conflicts.                                                  *)
(***************************************************************************)
EXTENDS ServiceServer, TLAPS

-----------------------------------------------------------------------------
(***************************************************************************)
(* The invariant of the executor's handlers, the one response timer and    *)
(* the state machine.                                                      *)
(***************************************************************************)
ControlTyped ==
    /\ m_stopped \in BOOLEAN
    /\ state \in {"probing", "announcing", "live", "stopped"}
    /\ probe_count \in 0..AtLeastOne(ProbeCount)
    /\ announce_count \in 0..AtLeastOne(AnnounceCount)
    /\ response_timer \in Handlers \cup {"off"}
    /\ socket_open \in BOOLEAN /\ alive \in BOOLEAN /\ done \in BOOLEAN
    /\ ready \in {"pending", "ok", "conflict", "canceled"}
    /\ busy \in Handlers \cup {"none", "name", "tiebreak", "reply"}
    /\ stopper \in {"idle", "exchanged", "said_goodbye", "returned"}
    /\ probed \in [Names -> 0..255]
    /\ updates \in 0..MaxUpdates
    /\ conflicts \in 0..MaxConflicts

\* A handler that will send again has not sent all: probe_count and announce_count are
\* counted up once more without passing the configured counts.
CountsBelow ==
    /\ response_timer = "probe" \/ busy = "probe" => probe_count < AtLeastOne(ProbeCount)
    /\ response_timer \in {"announce", "update"} => announce_count < AnnounceCount /\ 1 < AnnounceCount
    /\ busy \in {"announce", "update"} => announce_count < AtLeastOne(AnnounceCount)
    /\ busy = "update" /\ response_timer \in {"announce", "update"} => announce_count = 0

\* The handler that m_response_timer ran has not armed it again; only an update is run
\* beside a timer that waits.
OneHandler == busy \in {"probe", "claim", "announce", "respond", "reprobe"} => response_timer = "off"

\* What each handler, and the timer, belongs to.
HandlerState ==
    /\ busy \in {"probe", "claim", "reprobe", "name", "tiebreak"} => state = "probing"
    /\ response_timer \in {"probe", "claim", "reprobe"} => state = "probing"
    /\ busy = "announce" => state = "announcing"
    /\ busy \in {"update", "respond", "reply"} => state = "live"

\* on_ready is called when probing and announcing are over.
ReadyPending == ready = "pending" => state \in {"probing", "announcing"}

Control == ControlTyped /\ CountsBelow /\ OneHandler /\ HandlerState /\ ReadyPending

\* One more probe or announcement is counted exactly: the uint8_t does not wrap.
LEMMA CountedUp ==
    ASSUME NEW n \in 0..255, NEW c \in Nat, c < AtLeastOne(n)
    PROVE  Mod256(c + 1) = c + 1 /\ c + 1 \in 0..AtLeastOne(n) /\ AtLeastOne(n) \in 0..255
BY DEF Mod256, AtLeastOne

\* Every action, one by one.
LEMMA Steps ==
    ASSUME Next
    PROVE  \/ SendProbe \/ StartAnnouncing \/ SendAnnounce \/ SendUpdateAnnounce
           \/ Reprobe \/ DeferAndReprobe \/ FailOnConflict \/ Reply \/ FirePendingResponse
           \/ \E n \in Names : RenameAndReprobe(n)
           \/ FireResponseTimer
           \/ \E ct \in {"name", "tiebreak"} : ReceiveConflict(ct)
           \/ \E asks \in Questions, known \in SUBSET KnownAnswers : HandleQuery(asks, known)
           \/ ReceiveDirectQuery
           \/ \E rs \in SUBSET Have : ObserveResponse(rs)
           \/ \E s \in Senders, known \in SUBSET KnownAnswers : HandleTcQuery(s, known)
           \/ \E s \in Senders, known \in SUBSET KnownAnswers : HandleLastOfSeries(s, known)
           \/ \E s \in Senders : OnTcWaitExpired(s)
           \/ RunUpdate \/ RunTeardown \/ RunOrphan
           \/ \E n \in UpdateNames : PostUpdate(n)
           \/ StopOnExecutor \/ StopExchange \/ Destroy \/ StopGoodbye \/ StopPost
BY DEF Next, Packets, Act, FireTcTimer, RunPosted, Callers, StopSteps

\* The control state is kept by every step.
LEMMA ControlKept ==
    ASSUME Control, Next
    PROVE  Control'
<1> USE DEF Control, ControlTyped, CountsBelow, OneHandler, HandlerState, ReadyPending, Handlers
<1>1. CASE UNCHANGED <<m_stopped, state, probe_count, announce_count, response_timer, socket_open, alive,
                       done, ready, busy, stopper, probed, updates, conflicts>>
  BY <1>1
<1>2. CASE SendProbe
  <2>1. probe_count < AtLeastOne(ProbeCount) /\ probe_count \in Nat
    BY <1>2 DEF SendProbe, AtLeastOne
  <2>2. probe_count' = probe_count + 1 /\ probe_count' \in 0..AtLeastOne(ProbeCount)
    BY <1>2, <2>1, Counts, CountedUp, Zenon DEF SendProbe
  <2>3. probe_count' < ProbeCount => probe_count' < AtLeastOne(ProbeCount)
    BY <2>2, Counts DEF AtLeastOne
  <2>4. probed' \in [Names -> 0..255]
    <3>1. probed \in [Names -> 0..255] /\ probed' = [probed EXCEPT ![m_info.name] = Mod256(@ + 1)]
      BY <1>2 DEF SendProbe
    <3>2. \A c \in 0..255 : Mod256(c + 1) \in 0..255
      BY DEF Mod256
    <3> QED
      BY <3>1, <3>2, Zenon
  <2>5. busy = "probe" /\ busy' = "none" /\ response_timer' = IF probe_count' < ProbeCount THEN "probe" ELSE "claim"
    BY <1>2 DEF SendProbe
  <2>6. UNCHANGED <<m_stopped, state, announce_count, ready, updates, conflicts, stopper, socket_open, alive, done>>
    BY <1>2 DEF SendProbe, answering, calls, life
  <2> QED
    BY <2>2, <2>3, <2>4, <2>5, <2>6
<1>3. CASE StartAnnouncing
  <2>1. AtLeastOne(AnnounceCount) \in Nat \ {0}
    BY Counts DEF AtLeastOne
  <2>2. /\ busy = "claim" /\ state' = "announcing" /\ announce_count' = 0
        /\ busy' \in {"none", "announce"}
        /\ UNCHANGED <<m_stopped, probe_count, response_timer, ready, updates, conflicts, probed, stopper,
                       socket_open, alive, done>>
    BY <1>3 DEF StartAnnouncing, answering, calls, life
  <2> QED
    BY <2>1, <2>2
<1>4. CASE SendAnnounce
  <2>1. announce_count < AtLeastOne(AnnounceCount) /\ announce_count \in Nat /\ response_timer = "off"
    BY <1>4 DEF SendAnnounce, AtLeastOne
  <2>2. announce_count' = announce_count + 1 /\ announce_count' \in 0..AtLeastOne(AnnounceCount)
    BY <1>4, <2>1, Counts, CountedUp, Zenon DEF SendAnnounce
  <2>3. announce_count' < AnnounceCount => 1 < AnnounceCount
    BY <2>1, <2>2, Counts
  <2>4. /\ busy = "announce" /\ busy' = "none"
        /\ IF announce_count' < AnnounceCount
           THEN response_timer' = "announce" /\ UNCHANGED <<state, ready>>
           ELSE /\ state' = "live" /\ UNCHANGED response_timer
                /\ ready' = IF ready = "pending" THEN "ok" ELSE ready
        /\ UNCHANGED <<m_stopped, probe_count, updates, conflicts, probed, stopper, socket_open, alive, done>>
    BY <1>4 DEF SendAnnounce, answering, calls, life
  <2> QED
    BY <2>1, <2>2, <2>3, <2>4
<1>5. CASE SendUpdateAnnounce
  <2>1. announce_count < AtLeastOne(AnnounceCount) /\ announce_count \in Nat
    BY <1>5 DEF SendUpdateAnnounce, AtLeastOne
  <2>2. announce_count' = announce_count + 1 /\ announce_count' \in 0..AtLeastOne(AnnounceCount)
    BY <1>5, <2>1, Counts, CountedUp, Zenon DEF SendUpdateAnnounce
  <2>3. announce_count' < AnnounceCount => 1 < AnnounceCount
    BY <2>1, <2>2, Counts
  <2>4. /\ busy = "update" /\ busy' = "none"
        /\ response_timer' = IF announce_count' < AnnounceCount THEN "update" ELSE response_timer
        /\ UNCHANGED <<m_stopped, state, ready, probe_count, updates, conflicts, probed, stopper, socket_open,
                       alive, done>>
    BY <1>5 DEF SendUpdateAnnounce, answering, calls, life
  <2> QED
    BY <2>1, <2>2, <2>3, <2>4
<1>6. ASSUME StartProbing, busy \in {"reprobe", "name"}, busy' = "none",
             UNCHANGED <<m_stopped, announce_count, ready, updates, conflicts, stopper, socket_open, alive, done>>
      PROVE  Control'
  <2>1. AtLeastOne(ProbeCount) \in Nat \ {0}
    BY Counts DEF AtLeastOne
  <2>2. state' = "probing" /\ probe_count' = 0 /\ response_timer' = "probe" /\ probed' \in [Names -> 0..255]
    BY <1>6 DEF StartProbing
  <2> QED
    BY <1>6, <2>1, <2>2
<1>7. CASE Reprobe
  BY <1>6, <1>7 DEF Reprobe, answering, calls, life
<1>8. ASSUME NEW n \in Names, RenameAndReprobe(n) PROVE Control'
  BY <1>6, <1>8 DEF RenameAndReprobe, answering, calls, life
<1>9. CASE DeferAndReprobe
  <2>1. AtLeastOne(ProbeCount) \in Nat \ {0}
    BY Counts DEF AtLeastOne
  <2>2. /\ busy = "tiebreak" /\ busy' = "none" /\ state' = "probing" /\ probe_count' = 0
        /\ response_timer' = "reprobe"
        /\ UNCHANGED <<m_stopped, announce_count, ready, updates, conflicts, probed, stopper, socket_open, alive, done>>
    BY <1>9 DEF DeferAndReprobe, answering, calls, life
  <2> QED
    BY <2>1, <2>2
<1>10. CASE FailOnConflict
  BY <1>10 DEF FailOnConflict, answering, calls, life
<1>11. CASE Reply \/ FirePendingResponse
  BY <1>11 DEF Reply, FirePendingResponse, claim, answering, calls, life
<1>12. CASE FireResponseTimer
  <2>1. /\ response_timer # "off" /\ response_timer' = "off"
        /\ busy' = IF ~m_stopped /\ state \in WaitsIn(response_timer) THEN response_timer ELSE "none"
        /\ UNCHANGED <<m_stopped, state, probe_count, announce_count, ready, updates, conflicts, probed, stopper,
                       socket_open, alive, done>>
    BY <1>12 DEF FireResponseTimer, claim, calls, life
  <2>2. busy' # "none" => busy' = response_timer /\ state \in WaitsIn(response_timer)
    BY <2>1
  <2>3. /\ busy' = "announce" => state = "announcing"
        /\ busy' \in {"update", "respond"} => state = "live"
    BY <2>2 DEF WaitsIn
  <2>4. announce_count < AnnounceCount => announce_count < AtLeastOne(AnnounceCount)
    BY Counts DEF AtLeastOne
  <2> QED
    BY <2>1, <2>2, <2>3, <2>4
<1>13. ASSUME NEW ct \in {"name", "tiebreak"}, ReceiveConflict(ct) PROVE Control'
  BY <1>13, Bounds DEF ReceiveConflict, Idle, answering, calls, life
<1>14. ASSUME response_timer' \in {response_timer, "respond"}, busy = "none", state = "live",
              UNCHANGED <<m_stopped, state, probe_count, announce_count, socket_open, alive, done, ready, busy, stopper,
                          probed, updates, conflicts>>
       PROVE  Control'
  BY <1>14
<1>15. ASSUME NEW asks \in Questions, NEW known \in SUBSET KnownAnswers, HandleQuery(asks, known) PROVE Control'
  BY <1>14, <1>15 DEF HandleQuery, Listening, Idle, Schedule, claim, calls, life
<1>16. CASE ReceiveDirectQuery
  BY <1>16 DEF ReceiveDirectQuery, Listening, Idle, claim, calls, life
<1>17. ASSUME NEW rs \in SUBSET Have, ObserveResponse(rs) PROVE Control'
  BY <1>1, <1>17 DEF ObserveResponse, claim, calls, life
<1>18. ASSUME NEW s \in Senders, NEW known \in SUBSET KnownAnswers,
              HandleTcQuery(s, known) \/ HandleLastOfSeries(s, known)
       PROVE  Control'
  BY <1>1, <1>18 DEF HandleTcQuery, HandleLastOfSeries, claim, calls, life
<1>19. ASSUME NEW s \in Senders, OnTcWaitExpired(s) PROVE Control'
  BY <1>1, <1>14, <1>19, Zenon DEF OnTcWaitExpired, Idle, Schedule, claim, calls, life
<1>20. CASE RunUpdate
  <2>1. AtLeastOne(AnnounceCount) \in Nat \ {0}
    BY Counts DEF AtLeastOne
  <2>2. /\ busy = "none"
        /\ \/ UNCHANGED <<announce_count, busy>>
           \/ announce_count' = 0 /\ busy' = IF state = "live" THEN "update" ELSE "none"
        /\ UNCHANGED <<m_stopped, state, probe_count, response_timer, ready, updates, conflicts, probed, stopper,
                       socket_open, alive, done>>
    BY <1>20 DEF RunUpdate, Idle, life
  <2>3. response_timer \in {"announce", "update"} => 0 < AnnounceCount
    BY Counts
  <2> QED
    BY <2>1, <2>2, <2>3
<1>21. CASE RunTeardown
  BY <1>21, Zenon DEF RunTeardown, Idle
<1>22. CASE RunOrphan
  BY <1>1, <1>22 DEF RunOrphan, claim, life
<1>23. ASSUME NEW n \in UpdateNames, PostUpdate(n) PROVE Control'
  BY <1>23, Bounds DEF PostUpdate, claim, life
<1>24. CASE StopOnExecutor
  <2>1. /\ m_stopped' \in {m_stopped, TRUE} /\ stopper' = "returned"
        /\ UNCHANGED <<state, probe_count, announce_count, response_timer, socket_open, alive, done, ready, busy,
                       probed, updates, conflicts>>
    BY <1>24, Zenon DEF StopOnExecutor, claim, life
  <2>2. m_stopped \in BOOLEAN
    OBVIOUS
  <2>3. m_stopped' \in BOOLEAN
    BY <2>1, <2>2, Zenon
  <2> QED
    BY <2>1, <2>3
<1>25. CASE StopExchange
  BY <1>25 DEF StopExchange, claim, life
<1>26. CASE Destroy
  BY <1>26, Zenon DEF Destroy, Idle, claim
<1>27. CASE StopGoodbye \/ StopPost
  BY <1>27 DEF StopGoodbye, StopPost, claim, life
<1> QED
  BY <1>2, <1>3, <1>4, <1>5, <1>7, <1>8, <1>9, <1>10, <1>11, <1>12, <1>13, <1>15, <1>16, <1>17, <1>18, <1>19,
     <1>20, <1>21, <1>22, <1>23, <1>24, <1>25, <1>26, <1>27, Steps, Zenon

-----------------------------------------------------------------------------
(***************************************************************************)
(* The data: what is pending, accumulated and posted.                      *)
(***************************************************************************)
DataTyped ==
    /\ m_info \in Infos /\ tc_timer \in SUBSET Senders /\ m_pending \in Pendings
    /\ m_seen \subseteq Have \X Infos
    /\ DOMAIN m_tc_acc \subseteq Senders /\ \A s \in DOMAIN m_tc_acc : m_tc_acc[s] \subseteq KnownAnswers
    /\ posted \in Seq(Posts) /\ advertised \subseteq Names /\ owed \subseteq RR \cup {"nsec"}
    /\ given \in [Senders -> SUBSET KnownAnswers]

\* The type invariant is the conjunction of the two parts.
LEMMA TypeParts == TypeOK <=> ControlTyped /\ DataTyped
BY Zenon DEF TypeOK, ControlTyped, DataTyped

\* The type that a query is answered by.
LEMMA QtypeKnown ==
    ASSUME NEW asks \in Questions
    PROVE  Qtype(asks) \in RR \cup {"any"} /\ ((Qtype(asks) # "any") => asks = {Qtype(asks)})
<1>1. CASE \E q \in asks : asks = {q}
  <2>1. PICK q \in asks : asks = {q}
    BY <1>1
  <2>2. Qtype(asks) = q
    BY <1>1, <2>1 DEF Qtype
  <2>3. q \in RR \cup {"any"}
    BY <2>1 DEF Questions
  <2> QED
    BY <2>1, <2>2, <2>3
<1>2. CASE ~\E q \in asks : asks = {q}
  BY <1>2 DEF Qtype
<1> QED
  BY <1>1, <1>2

\* Known answers, and answers, are of types that the service has.
LEMMA OfOurTypes ==
    /\ \A known \in SUBSET KnownAnswers : Mask(known) \subseteq Have /\ Ours(known) \subseteq Have
                                          /\ Ours(known) \subseteq Mask(known)
    /\ \A q : Answers(q) \subseteq Have /\ Matching(q) \subseteq Have
<1>1. ASSUME NEW known \in SUBSET KnownAnswers
      PROVE  Mask(known) \subseteq Have /\ Ours(known) \subseteq Have /\ Ours(known) \subseteq Mask(known)
  <2>1. \A k \in known : k[1] \in Have
    BY Types, Zenon DEF KnownAnswers
  <2>2. \A t : <<t, TRUE>>[1] = t
    OBVIOUS
  <2>3. Ours(known) \subseteq Mask(known)
    BY <2>2, Zenon DEF Mask, Ours
  <2> QED
    BY <2>1, <2>3, Zenon DEF Mask, Ours
<1>2. \A q : Answers(q) \subseteq Have /\ Matching(q) \subseteq Have
  BY DEF Answers, Matching
<1> QED
  BY <1>1, <1>2

\* pending_response::merge() makes a response.
LEMMA Merged ==
    ASSUME m_pending \in Pendings, NEW q \in RR \cup {"any"}, NEW nsec \in BOOLEAN, NEW mask \in SUBSET Have
    PROVE  /\ Merge(q, nsec, mask) \in Pendings /\ Merge(q, nsec, mask).armed
           /\ Merge(q, nsec, mask).qtype = IF m_pending.armed /\ m_pending.qtype # q THEN "any" ELSE q
           /\ Merge(q, nsec, mask).suppression = IF m_pending.armed THEN m_pending.suppression \cap mask ELSE mask
BY DEF Merge, Pendings

\* The data types are kept by every step.
LEMMA DataKept ==
    ASSUME ControlTyped, DataTyped, Next
    PROVE  DataTyped'
<1>1. /\ m_info \in Infos /\ tc_timer \in SUBSET Senders /\ m_pending \in Pendings
      /\ m_seen \subseteq Have \X Infos
      /\ DOMAIN m_tc_acc \subseteq Senders /\ \A s \in DOMAIN m_tc_acc : m_tc_acc[s] \subseteq KnownAnswers
      /\ posted \in Seq(Posts) /\ advertised \subseteq Names /\ owed \subseteq RR \cup {"nsec"}
      /\ given \in [Senders -> SUBSET KnownAnswers]
  BY DEF DataTyped
<1>2. m_info.name \in Names
  BY <1>1 DEF Infos
<1> USE DEF DataTyped
<1>3. ASSUME UNCHANGED <<m_info, answering, posted>>, advertised' \subseteq advertised \cup {m_info.name}
      PROVE  DataTyped'
  BY <1>1, <1>2, <1>3 DEF answering
<1>4. CASE SendProbe \/ StartAnnouncing \/ Reprobe \/ DeferAndReprobe \/ FailOnConflict \/ FireResponseTimer
           \/ ReceiveDirectQuery
  BY <1>3, <1>4, Zenon DEF SendProbe, StartAnnouncing, Reprobe, DeferAndReprobe, FailOnConflict, FireResponseTimer,
                    ReceiveDirectQuery, calls
<1>5. CASE SendAnnounce \/ SendUpdateAnnounce \/ Reply
  BY <1>3, <1>5 DEF SendAnnounce, SendUpdateAnnounce, Reply, Advertise, calls
<1>6. CASE FirePendingResponse
  <2>1. /\ m_pending' = Unarmed /\ m_seen' = {} /\ owed' \subseteq owed
        /\ advertised' \subseteq advertised \cup {m_info.name}
        /\ UNCHANGED <<m_info, tc_timer, m_tc_acc, posted, given>>
    BY <1>6 DEF FirePendingResponse, Advertise, calls
  <2>2. Unarmed \in Pendings
    BY DEF Unarmed, Pendings
  <2> QED
    BY <1>1, <1>2, <2>1, <2>2
<1>7. ASSUME NEW n \in Names, RenameAndReprobe(n) PROVE DataTyped'
  <2>1. m_info' = [m_info EXCEPT !.name = n] /\ UNCHANGED <<advertised, answering, posted>>
    BY <1>7 DEF RenameAndReprobe, calls
  <2>2. m_info' \in Infos
    BY <1>1, <2>1 DEF Infos
  <2> QED
    BY <1>1, <2>1, <2>2 DEF answering
<1>8. ASSUME NEW ct \in {"name", "tiebreak"}, ReceiveConflict(ct) PROVE DataTyped'
  BY <1>3, <1>8 DEF ReceiveConflict, calls
<1>9. ASSUME NEW asks \in Questions, NEW known \in SUBSET KnownAnswers, HandleQuery(asks, known) PROVE DataTyped'
  <2>1. Qtype(asks) \in RR \cup {"any"} /\ NeedsNsec(asks) \in BOOLEAN /\ Mask(known) \in SUBSET Have
    BY QtypeKnown, OfOurTypes DEF NeedsNsec
  <2>2. Merge(Qtype(asks), NeedsNsec(asks), Mask(known)) \in Pendings
    BY <1>1, <2>1, Merged, Zenon
  <2>3. m_pending' \in {m_pending, Merge(Qtype(asks), NeedsNsec(asks), Mask(known))}
    BY <1>9 DEF HandleQuery, Schedule
  <2>4. owed' \subseteq owed \cup Have \cup {"nsec"}
    BY <1>9, OfOurTypes DEF HandleQuery
  <2>5. UNCHANGED <<m_info, tc_timer, m_seen, m_tc_acc, posted, advertised, given>>
    BY <1>9 DEF HandleQuery, calls
  <2> QED
    BY <1>1, <2>2, <2>3, <2>4, <2>5, Types
<1>10. ASSUME NEW rs \in SUBSET Have, ObserveResponse(rs) PROVE DataTyped'
  BY <1>1, <1>10 DEF ObserveResponse, calls
<1>11. ASSUME NEW s \in Senders, NEW known \in SUBSET KnownAnswers, HandleTcQuery(s, known) PROVE DataTyped'
  <2>1. UNCHANGED <<m_info, m_pending, m_seen, posted, advertised, owed>>
    BY <1>11 DEF HandleTcQuery, calls
  <2>2. CASE s \in DOMAIN m_tc_acc
    <3>1. /\ m_tc_acc' = [m_tc_acc EXCEPT ![s] = @ \cup known] /\ given' = [given EXCEPT ![s] = @ \cup known]
          /\ tc_timer' = tc_timer
      BY <1>11, <2>2 DEF HandleTcQuery
    <3> QED
      BY <1>1, <2>1, <2>2, <3>1
  <2>3. CASE s \notin DOMAIN m_tc_acc
    <3>1. /\ m_tc_acc' = [x \in DOMAIN m_tc_acc \cup {s} |-> IF x = s THEN known ELSE m_tc_acc[x]]
          /\ given' = [given EXCEPT ![s] = known] /\ tc_timer' = {s}
      BY <1>11, <2>3 DEF HandleTcQuery
    <3> QED
      BY <1>1, <2>1, <2>3, <3>1
  <2> QED
    BY <2>2, <2>3
<1>12. ASSUME NEW s \in Senders, NEW known \in SUBSET KnownAnswers, HandleLastOfSeries(s, known) PROVE DataTyped'
  BY <1>1, <1>12 DEF HandleLastOfSeries, calls
<1>13. ASSUME NEW s \in Senders, OnTcWaitExpired(s) PROVE DataTyped'
  <2>1. UNCHANGED <<m_info, m_seen, posted, advertised, given>> /\ tc_timer' = {}
    BY <1>13 DEF OnTcWaitExpired, calls
  <2>2. CASE UNCHANGED <<m_tc_acc, owed, m_pending>>
    BY <1>1, <2>1, <2>2
  <2>3. CASE s \in DOMAIN m_tc_acc /\ ~UNCHANGED <<m_tc_acc, owed, m_pending>>
    <3>1. /\ m_tc_acc' = [x \in DOMAIN m_tc_acc \ {s} |-> m_tc_acc[x]]
          /\ owed' \subseteq owed \cup Answers("any")
          /\ m_pending' \in {m_pending, Merge("any", FALSE, Mask(m_tc_acc[s]))}
      BY <1>13, <2>3, Zenon DEF OnTcWaitExpired, Schedule
    <3>2. Mask(m_tc_acc[s]) \in SUBSET Have /\ Answers("any") \subseteq RR
      BY <1>1, <2>3, OfOurTypes, Types
    <3>3. Merge("any", FALSE, Mask(m_tc_acc[s])) \in Pendings
      BY <1>1, <3>2, Merged, Zenon
    <3> QED
      BY <1>1, <2>1, <3>1, <3>2, <3>3, Zenon
  <2> QED
    BY <1>13, <2>2, <2>3, Zenon DEF OnTcWaitExpired
<1>14. ASSUME posted # <<>> PROVE Head(posted) \in Posts /\ Tail(posted) \in Seq(Posts)
  BY <1>1, <1>14
<1>15. CASE RunUpdate
  <2>1. /\ posted # <<>> /\ Head(posted).fn = "update" /\ posted' = Tail(posted)
        /\ m_info' \in {m_info, Head(posted).info} /\ UNCHANGED <<advertised, answering>>
    BY <1>15 DEF RunUpdate
  <2>2. Head(posted).info \in Infos
    <3>1. Head(posted) \in Posts
      BY <1>14, <2>1
    <3>2. Head(posted) \in [fn : {"update"}, info : Infos]
      BY <2>1, <3>1 DEF Posts
    <3> QED
      BY <3>2
  <2> QED
    BY <1>1, <1>14, <2>1, <2>2 DEF answering
<1>16. CASE RunTeardown
  <2>1. /\ posted # <<>> /\ posted' = Tail(posted) /\ m_pending' = [m_pending EXCEPT !.armed = FALSE]
        /\ tc_timer' = {} /\ m_tc_acc' = [s \in {} |-> {}]
        /\ UNCHANGED <<m_info, advertised, m_seen, owed, given>>
    BY <1>16 DEF RunTeardown
  <2>2. m_pending' \in Pendings
    BY <1>1, <2>1, Zenon DEF Pendings
  <2> QED
    BY <1>1, <1>14, <2>1, <2>2
<1>17. CASE RunOrphan
  BY <1>1, <1>14, <1>17 DEF RunOrphan, answering
<1>18. ASSUME NEW n \in UpdateNames, PostUpdate(n) PROVE DataTyped'
  <2> DEFINE post == [fn |-> "update", info |-> [name |-> n, rev |-> updates + 1]]
  <2>1. updates < MaxUpdates /\ posted' = Append(posted, post) /\ UNCHANGED <<m_info, advertised, answering>>
    BY <1>18 DEF PostUpdate
  <2>2. n \in Names /\ updates + 1 \in 0..MaxUpdates
    BY <2>1, Parties, Bounds DEF ControlTyped
  <2>3. post \in Posts
    BY <2>2 DEF Posts, Infos
  <2> HIDE DEF post
  <2> QED
    BY <1>1, <2>1, <2>3 DEF answering
<1>19. [fn |-> "teardown"] \in Posts
  BY DEF Posts
<1>20. ASSUME UNCHANGED <<m_info, answering>>, advertised' \subseteq advertised,
              posted' \in {posted, Append(posted, [fn |-> "teardown"])}
       PROVE  DataTyped'
  <2>1. posted' \in Seq(Posts)
    BY <1>1, <1>19, <1>20
  <2> QED
    BY <1>1, <1>20, <2>1 DEF answering
<1>21. CASE StopOnExecutor \/ StopExchange \/ StopGoodbye \/ StopPost
  BY <1>20, <1>21 DEF StopOnExecutor, StopExchange, StopGoodbye, StopPost, Goodbye, PostTeardown, calls
<1>22. CASE Destroy
  <2>1. /\ UNCHANGED <<m_info, advertised, m_pending, m_seen, m_tc_acc, owed, given>> /\ tc_timer' = {}
        /\ posted' \in {posted, Append(posted, [fn |-> "teardown"])}
    BY <1>22 DEF Destroy, PostTeardown
  <2>2. posted' \in Seq(Posts)
    BY <1>1, <1>19, <2>1
  <2> QED
    BY <1>1, <2>1, <2>2
<1> QED
  BY <1>4, <1>5, <1>6, <1>7, <1>8, <1>9, <1>10, <1>11, <1>12, <1>13, <1>15, <1>16, <1>17, <1>18, <1>21, <1>22, Steps, Zenon

-----------------------------------------------------------------------------
(***************************************************************************)
(* What stop() has posted, and what is left once it ran.                   *)
(***************************************************************************)
\* A teardown is posted, and on_done called, only once m_stopped is set.
StopPosted ==
    /\ \A i \in DOMAIN posted : posted[i].fn = "teardown" => m_stopped
    /\ stopper \in {"exchanged", "said_goodbye"} => m_stopped
    /\ done => m_stopped

\* m_stopped, once set, stays set.
LEMMA StaysStopped ==
    ASSUME Next
    PROVE  m_stopped => m_stopped'
BY Steps, Zenon DEF FireResponseTimer, SendProbe, StartAnnouncing, SendAnnounce, SendUpdateAnnounce, Reprobe,
             ReceiveConflict, DeferAndReprobe, RenameAndReprobe, FailOnConflict, HandleQuery, ReceiveDirectQuery,
             Reply, ObserveResponse, FirePendingResponse, HandleTcQuery, HandleLastOfSeries, OnTcWaitExpired,
             PostUpdate, RunUpdate, StopOnExecutor, StopExchange, StopGoodbye, StopPost, RunTeardown, Destroy,
             RunOrphan

\* The functions posted, after one was run, and after one more was posted.
LEMMA PostedAfter ==
    ASSUME NEW S, NEW q \in Seq(S)
    PROVE  /\ q # <<>> => /\ \A i \in DOMAIN Tail(q) : i + 1 \in DOMAIN q /\ Tail(q)[i] = q[i + 1]
                          /\ 1 \in DOMAIN q /\ Head(q) = q[1]
           /\ \A e \in S : /\ DOMAIN Append(q, e) = 1..(Len(q) + 1) /\ Append(q, e)[Len(q) + 1] = e
                           /\ \A i \in DOMAIN q : Append(q, e)[i] = q[i]
<1>1. DOMAIN q = 1..Len(q) /\ Len(q) \in Nat
  OBVIOUS
<1>2. ASSUME q # <<>>
      PROVE  /\ \A i \in DOMAIN Tail(q) : i + 1 \in DOMAIN q /\ Tail(q)[i] = q[i + 1]
             /\ 1 \in DOMAIN q /\ Head(q) = q[1]
  BY <1>1, <1>2
<1>3. ASSUME NEW e \in S
      PROVE  /\ DOMAIN Append(q, e) = 1..(Len(q) + 1) /\ Append(q, e)[Len(q) + 1] = e
             /\ \A i \in DOMAIN q : Append(q, e)[i] = q[i]
  BY <1>1, <1>3
<1> QED
  BY <1>2, <1>3

\* No step posts a teardown, or calls on_done, before m_stopped is set.
LEMMA StopPostedKept ==
    ASSUME DataTyped, StopPosted, Next
    PROVE  StopPosted'
<1>1. posted \in Seq(Posts)
  BY DEF DataTyped
<1>2. m_stopped => m_stopped'
  BY StaysStopped
<1>3. ASSUME posted' = posted, stopper' \in {"exchanged", "said_goodbye"} => m_stopped', done' = done
      PROVE  StopPosted'
  BY <1>2, <1>3 DEF StopPosted
<1>4. ASSUME posted' = Append(posted, [fn |-> "teardown"]), m_stopped', done' = done
      PROVE  StopPosted'
  BY <1>4 DEF StopPosted
<1>5. ASSUME posted # <<>>, posted' = Tail(posted), stopper' = stopper, done' \in {done, TRUE},
             done' # done => Head(posted).fn = "teardown"
      PROVE  StopPosted'
  <2>1. \A i \in DOMAIN posted' : i + 1 \in DOMAIN posted /\ posted'[i] = posted[i + 1]
    BY <1>1, <1>5, PostedAfter
  <2>2. 1 \in DOMAIN posted /\ Head(posted) = posted[1]
    BY <1>1, <1>5, PostedAfter
  <2> QED
    BY <1>2, <1>5, <2>1, <2>2 DEF StopPosted
<1>6. CASE FireResponseTimer \/ SendProbe \/ StartAnnouncing \/ SendAnnounce \/ SendUpdateAnnounce \/ Reprobe
           \/ DeferAndReprobe \/ FailOnConflict \/ ReceiveDirectQuery \/ Reply \/ FirePendingResponse
  <2>1. posted' = posted /\ stopper' = stopper /\ done' = done
    BY <1>6, Zenon DEF FireResponseTimer, SendProbe, StartAnnouncing, SendAnnounce, SendUpdateAnnounce, Reprobe,
                DeferAndReprobe, FailOnConflict, ReceiveDirectQuery, Reply, FirePendingResponse, calls, life
  <2> QED
    BY <1>2, <1>3, <2>1 DEF StopPosted
<1>7. CASE \/ \E ct \in {"name", "tiebreak"} : ReceiveConflict(ct)
           \/ \E n \in Names : RenameAndReprobe(n)
           \/ \E asks \in Questions, known \in SUBSET KnownAnswers : HandleQuery(asks, known)
           \/ \E rs \in SUBSET Have : ObserveResponse(rs)
           \/ \E s \in Senders, known \in SUBSET KnownAnswers : HandleTcQuery(s, known) \/ HandleLastOfSeries(s, known)
           \/ \E s \in Senders : OnTcWaitExpired(s)
  <2>1. posted' = posted /\ stopper' = stopper /\ done' = done
    BY <1>7, Zenon DEF ReceiveConflict, RenameAndReprobe, HandleQuery, ObserveResponse, HandleTcQuery, HandleLastOfSeries,
                OnTcWaitExpired, calls, life
  <2> QED
    BY <1>2, <1>3, <2>1 DEF StopPosted
<1>8. CASE RunUpdate \/ RunTeardown \/ RunOrphan
  BY <1>5, <1>8, Zenon DEF RunUpdate, RunTeardown, RunOrphan, life
<1>9. ASSUME NEW n \in UpdateNames, PostUpdate(n) PROVE StopPosted'
  <2> DEFINE post == [fn |-> "update", info |-> [name |-> n, rev |-> updates + 1]]
  <2>1. posted' = Append(posted, post) /\ UNCHANGED <<m_stopped, stopper, done>>
    BY <1>9 DEF PostUpdate, life
  <2>2. post.fn = "update"
    OBVIOUS
  <2> HIDE DEF post
  <2>3. DOMAIN posted' = 1..(Len(posted) + 1) /\ DOMAIN posted = 1..Len(posted) /\ Len(posted) \in Nat
    BY <1>1, <2>1
  <2>4. \A i \in DOMAIN posted' : posted'[i] = post \/ (i \in DOMAIN posted /\ posted'[i] = posted[i])
    BY <1>1, <2>1, <2>3
  <2> QED
    BY <2>1, <2>2, <2>4 DEF StopPosted
<1>10. CASE StopOnExecutor
  <2>1. /\ done' = done /\ stopper' = "returned"
        /\ posted' = posted \/ (posted' = Append(posted, [fn |-> "teardown"]) /\ m_stopped')
    BY <1>10 DEF StopOnExecutor, PostTeardown, life
  <2> QED
    BY <1>3, <1>4, <2>1
<1>11. CASE StopExchange
  BY <1>3, <1>11 DEF StopExchange, life
<1>12. CASE StopGoodbye
  BY <1>3, <1>12 DEF StopGoodbye, StopPosted, life
<1>13. CASE StopPost
  <2>1. m_stopped
    BY <1>13 DEF StopPost, StopPosted
  <2> QED
    BY <1>4, <1>13, <2>1 DEF StopPost, PostTeardown, life
<1>14. CASE Destroy
  <2>1. /\ done' = done /\ stopper' = stopper /\ m_stopped'
        /\ posted' = posted \/ (posted' = Append(posted, [fn |-> "teardown"]) /\ m_stopped')
    BY <1>14 DEF Destroy, PostTeardown
  <2> QED
    BY <1>3, <1>4, <2>1
<1> QED
  BY <1>6, <1>7, <1>8, <1>9, <1>10, <1>11, <1>12, <1>13, <1>14, Steps

\* Nothing is left once on_done was called: every handler of a server that is done returns.
LEMMA NothingAfterDoneKept ==
    ASSUME Control, DataTyped, StopPosted, NothingAfterDone, Next
    PROVE  NothingAfterDone'
<1>1. CASE RunTeardown
  <2>1. /\ response_timer' = "off" /\ tc_timer' = {} /\ busy' = "none" /\ ~socket_open'
        /\ m_tc_acc' = [s \in {} |-> {}] /\ m_pending' = [m_pending EXCEPT !.armed = FALSE]
    BY <1>1 DEF RunTeardown, Idle
  <2>2. ready' # "pending"
    BY <1>1 DEF RunTeardown, Control, ReadyPending
  <2>3. ~m_pending'.armed
    BY <2>1 DEF DataTyped, Pendings
  <2> QED
    BY <2>1, <2>2, <2>3 DEF NothingAfterDone
<1>2. CASE done /\ ~RunTeardown
  <2>1. /\ response_timer = "off" /\ tc_timer = {} /\ busy = "none" /\ DOMAIN m_tc_acc = {} /\ ~m_pending.armed
        /\ ~socket_open /\ ready # "pending" /\ m_stopped
    BY <1>2 DEF NothingAfterDone, StopPosted
  <2>2. RunUpdate \/ RunOrphan \/ StopOnExecutor \/ StopExchange \/ StopGoodbye \/ StopPost \/ Destroy
    BY <1>2, <2>1, Steps, Zenon
    DEF FireResponseTimer, SendProbe, StartAnnouncing, SendAnnounce, SendUpdateAnnounce, Reprobe,
        ReceiveConflict, DeferAndReprobe, RenameAndReprobe, FailOnConflict, HandleQuery, ReceiveDirectQuery,
        Reply, ObserveResponse, FirePendingResponse, HandleTcQuery, HandleLastOfSeries, OnTcWaitExpired,
        PostUpdate, Listening
  <2>3. /\ response_timer' \in {response_timer, "off"} /\ tc_timer' \in {tc_timer, {}} /\ busy' = busy
        /\ m_tc_acc' = m_tc_acc /\ m_pending' = m_pending /\ socket_open' \in {socket_open, FALSE} /\ ready' = ready
    <3>1. CASE RunUpdate \/ RunOrphan
      BY <2>1, <3>1, Zenon DEF RunUpdate, RunOrphan, answering, life
    <3>2. CASE StopOnExecutor \/ StopExchange \/ StopGoodbye \/ StopPost
      BY <3>2, Zenon DEF StopOnExecutor, StopExchange, StopGoodbye, StopPost, answering, life
    <3>3. CASE Destroy
      BY <3>3, Zenon DEF Destroy
    <3> QED
      BY <2>2, <3>1, <3>2, <3>3, Zenon
  <2>4. ~socket_open'
    BY <2>1, <2>3, Zenon
  <2> QED
    BY <2>1, <2>3, <2>4 DEF NothingAfterDone
<1>3. CASE ~done /\ ~RunTeardown
  <2>1. done' = done
    BY <1>3, Steps, Zenon
    DEF FireResponseTimer, SendProbe, StartAnnouncing, SendAnnounce, SendUpdateAnnounce, Reprobe,
        ReceiveConflict, DeferAndReprobe, RenameAndReprobe, FailOnConflict, HandleQuery, ReceiveDirectQuery,
        Reply, ObserveResponse, FirePendingResponse, HandleTcQuery, HandleLastOfSeries, OnTcWaitExpired,
        PostUpdate, RunUpdate, StopOnExecutor, StopExchange, StopGoodbye, StopPost, Destroy, RunOrphan, life
  <2> QED
    BY <1>3, <2>1 DEF NothingAfterDone
<1> QED
  BY <1>1, <1>2, <1>3

\* Everything above.
Inv == Control /\ DataTyped /\ StopPosted /\ NothingAfterDone /\ SeenInWindowOnly

\* What others multicast is forgotten when the window closes: by the response, which
\* forgets it, or by the teardown of a server that has stopped.
LEMMA SeenKept ==
    ASSUME DataTyped, StopPosted, SeenInWindowOnly, Next
    PROVE  SeenInWindowOnly'
<1>1. m_stopped => m_stopped'
  BY StaysStopped
<1>2. m_pending \in Pendings
  BY DEF DataTyped
<1>3. ASSUME UNCHANGED <<m_pending, m_seen>> PROVE SeenInWindowOnly'
  BY <1>1, <1>3 DEF SeenInWindowOnly
<1>4. CASE \/ FireResponseTimer \/ SendProbe \/ StartAnnouncing \/ SendAnnounce \/ SendUpdateAnnounce \/ Reprobe
           \/ DeferAndReprobe \/ FailOnConflict \/ ReceiveDirectQuery \/ Reply \/ RunUpdate \/ RunOrphan
           \/ StopOnExecutor \/ StopExchange \/ StopGoodbye \/ StopPost \/ Destroy
           \/ \E ct \in {"name", "tiebreak"} : ReceiveConflict(ct)
           \/ \E n \in Names : RenameAndReprobe(n)
           \/ \E s \in Senders, known \in SUBSET KnownAnswers : HandleTcQuery(s, known) \/ HandleLastOfSeries(s, known)
           \/ \E n \in UpdateNames : PostUpdate(n)
  BY <1>3, <1>4, Zenon DEF FireResponseTimer, SendProbe, StartAnnouncing, SendAnnounce, SendUpdateAnnounce, Reprobe,
        ReceiveConflict, DeferAndReprobe, RenameAndReprobe, FailOnConflict, ReceiveDirectQuery,
        Reply, HandleTcQuery, HandleLastOfSeries,
        PostUpdate, RunUpdate, StopOnExecutor, StopExchange, StopGoodbye, StopPost, Destroy, RunOrphan, answering
<1>5. ASSUME m_pending' = m_pending \/ m_pending'.armed, m_seen' = m_seen PROVE SeenInWindowOnly'
  BY <1>1, <1>5 DEF SeenInWindowOnly
<1>6. ASSUME NEW asks \in Questions, NEW known \in SUBSET KnownAnswers, HandleQuery(asks, known)
      PROVE  SeenInWindowOnly'
  BY <1>5, <1>6 DEF HandleQuery, Schedule, Merge
<1>7. ASSUME NEW s \in Senders, OnTcWaitExpired(s) PROVE SeenInWindowOnly'
  BY <1>5, <1>7 DEF OnTcWaitExpired, Schedule, Merge
<1>8. ASSUME NEW rs \in SUBSET Have, ObserveResponse(rs) PROVE SeenInWindowOnly'
  BY <1>8 DEF ObserveResponse, SeenInWindowOnly
<1>9. CASE FirePendingResponse
  BY <1>9 DEF FirePendingResponse, SeenInWindowOnly
<1>10. CASE RunTeardown
  <2>1. 1 \in DOMAIN posted /\ Head(posted) = posted[1] /\ Head(posted).fn = "teardown"
    BY <1>10, PostedAfter DEF RunTeardown, DataTyped
  <2> QED
    BY <1>1, <2>1 DEF StopPosted, SeenInWindowOnly
<1> QED
  BY <1>4, <1>6, <1>7, <1>8, <1>9, <1>10, Steps

\* The initial state satisfies all of it.
LEMMA InvInit ==
    ASSUME Init
    PROVE  Inv
<1> USE DEF Init
<1>1. ControlTyped
  <2>1. AtLeastOne(ProbeCount) \in Nat /\ AtLeastOne(AnnounceCount) \in Nat
    BY Counts DEF AtLeastOne
  <2>2. probe_count \in 0..AtLeastOne(ProbeCount) /\ announce_count \in 0..AtLeastOne(AnnounceCount)
    BY <2>1
  <2>3. updates \in 0..MaxUpdates /\ conflicts \in 0..MaxConflicts
    BY Bounds
  <2>4. probed \in [Names -> 0..255]
    OBVIOUS
  <2> QED
    BY <2>2, <2>3, <2>4, Zenon DEF ControlTyped, Handlers
<1>2. CountsBelow /\ OneHandler /\ HandlerState /\ ReadyPending
  BY Counts DEF CountsBelow, OneHandler, HandlerState, ReadyPending, AtLeastOne
<1>3. m_info \in Infos /\ m_pending \in Pendings
  BY Parties, Bounds DEF Infos, Pendings, Unarmed
<1>4. posted \in Seq(Posts) /\ DOMAIN posted = {}
  OBVIOUS
<1>5. DataTyped
  BY <1>3, <1>4 DEF DataTyped
<1>6. StopPosted /\ NothingAfterDone /\ SeenInWindowOnly
  BY <1>4 DEF StopPosted, NothingAfterDone, SeenInWindowOnly
<1> QED
  BY <1>1, <1>2, <1>5, <1>6 DEF Inv, Control

\* Every reachable state satisfies all of it.
LEMMA InvInvariant == Spec => []Inv
<1>1. Init => Inv
  BY InvInit
<1>2. Inv /\ [Next]_vars => Inv'
  <2>1. ASSUME Inv, Next PROVE Inv'
    <3>1. Control /\ ControlTyped /\ DataTyped /\ StopPosted /\ NothingAfterDone /\ SeenInWindowOnly
      BY <2>1 DEF Inv, Control
    <3>2. Control'
      BY <2>1, <3>1, ControlKept
    <3>3. DataTyped' /\ StopPosted' /\ NothingAfterDone' /\ SeenInWindowOnly'
      BY <2>1, <3>1, DataKept, StopPostedKept, NothingAfterDoneKept, SeenKept
    <3> QED
      BY <3>2, <3>3 DEF Inv
  <2>2. ASSUME Inv, UNCHANGED vars PROVE Inv'
    <3>1. UNCHANGED <<m_stopped, m_info, response_timer, ready, busy, advertised, claim, answering, calls, life>>
      BY <2>2 DEF vars
    <3>2. Control'
      BY <2>2, <3>1 DEF Inv, Control, ControlTyped, CountsBelow, OneHandler, HandlerState, ReadyPending,
                        claim, calls, life
    <3>3. DataTyped'
      BY <2>2, <3>1 DEF Inv, DataTyped, answering, calls
    <3>4. StopPosted' /\ NothingAfterDone' /\ SeenInWindowOnly'
      BY <2>2, <3>1 DEF Inv, StopPosted, NothingAfterDone, SeenInWindowOnly, answering, calls, life
    <3> QED
      BY <3>2, <3>3, <3>4 DEF Inv
  <2> QED
    BY <2>1, <2>2
<1> QED
  BY <1>1, <1>2, PTL DEF Spec

\* A server keeps its types and, once on_done has fired, has no timer, response, series,
\* socket or on_ready left to act on, wherever stop() and the destructor were called from.
THEOREM EndsClean == Spec => []CleanEnd
<1>1. Inv => CleanEnd
  BY TypeParts DEF Inv, Control, CleanEnd
<1> QED
  BY <1>1, InvInvariant, PTL

\* Records that other responders multicast are remembered for one response window: no
\* answer is suppressed because of a window that is over.
THEOREM SeenForOneWindow == Spec => []SeenInWindowOnly
<1>1. Inv => SeenInWindowOnly
  BY DEF Inv
<1> QED
  BY <1>1, InvInvariant, PTL

-----------------------------------------------------------------------------
(***************************************************************************)
(* Answers.  The TXT records are not empty and nobody else holds records   *)
(* of our names: otherwise an answer may be missing (the runs show how).   *)
(***************************************************************************)
\* A response being delayed will carry, or another responder has multicast, every record
\* that is owed: the merged type covers it and the merged mask does not.
OwedCovered ==
    m_stopped \/ (IF m_pending.armed
                  THEN /\ owed \subseteq Answers(m_pending.qtype) \cup {"nsec"}
                       /\ owed \cap m_pending.suppression = {}
                  ELSE owed \subseteq {"nsec"})

\* Pairs with a given second element.
LEMMA PairsWith ==
    ASSUME NEW H, NEW v
    PROVE  \A k \in H \X {v} : k[1] \in H /\ k = <<k[1], v>>
OBVIOUS

\* When all known answers are ours, masking their types masks just the known records.
LEMMA MaskIsOurs ==
    ASSUME Foreign = {}, NEW known \in SUBSET KnownAnswers
    PROVE  Mask(known) = Ours(known)
<1>1. \A k \in known : k = <<k[1], TRUE>> /\ k[1] \in Have
  <2>1. \A k \in Foreign \X {FALSE} : k[1] \in Foreign
    OBVIOUS
  <2>2. known \subseteq Have \X {TRUE}
    BY <2>1, Zenon DEF KnownAnswers
  <2>3. \A k \in Have \X {TRUE} : k[1] \in Have /\ k = <<k[1], TRUE>>
    BY PairsWith, Zenon
  <2> QED
    BY <2>2, <2>3, Zenon
<1>2. Mask(known) \subseteq Ours(known)
  BY <1>1, Zenon DEF Mask, Ours
<1> QED
  BY <1>2, OfOurTypes

\* The type that a query with several questions is answered by covers every question, and
\* so does the type of a merged response.
LEMMA WidenedType ==
    ASSUME ~EmptyTxt
    PROVE  /\ \A q : Answers(q) = Matching(q) /\ Answers(q) \subseteq Answers("any")
           /\ \A asks \in Questions : \A q \in asks : Answers(q) \subseteq Answers(Qtype(asks))
<1>1. \A q : Answers(q) = Matching(q) /\ Answers(q) \subseteq Answers("any")
  BY DEF Answers, Matching
<1>2. ASSUME NEW asks \in Questions, NEW q \in asks PROVE Answers(q) \subseteq Answers(Qtype(asks))
  BY <1>1, QtypeKnown
<1> QED
  BY <1>1, <1>2

\* One more query: what it wants is covered by the response it is merged into.
LEMMA ScheduledCovered ==
    ASSUME ~EmptyTxt, OwedCovered, ~m_stopped, m_pending \in Pendings, owed \subseteq RR \cup {"nsec"},
           NEW q \in RR \cup {"any"}, NEW nsec \in BOOLEAN, NEW mask \in SUBSET Have,
           NEW wanted \in SUBSET Answers(q), wanted \cap mask = {},
           m_pending' = Merge(q, nsec, mask), owed' \subseteq owed \cup wanted \cup {"nsec"}
    PROVE  OwedCovered'
<1>1. m_pending' \in Pendings /\ m_pending'.armed
  BY Merged, Zenon
<1>2. Answers(q) \subseteq Answers(m_pending'.qtype)
  <2>1. m_pending'.qtype = q \/ m_pending'.qtype = "any"
    BY DEF Merge
  <2> QED
    BY <2>1, WidenedType
<1>3. "nsec" \notin Have
  BY Types
<1>4. CASE m_pending.armed
  <2>1. Answers(m_pending.qtype) \subseteq Answers(m_pending'.qtype)
    BY <1>4, Merged, WidenedType
  <2>2. m_pending'.suppression = m_pending.suppression \cap mask
    BY <1>4, Merged
  <2>3. owed \subseteq Answers(m_pending.qtype) \cup {"nsec"} /\ owed \cap m_pending.suppression = {}
    BY <1>4 DEF OwedCovered
  <2>4. owed' \subseteq Answers(m_pending'.qtype) \cup {"nsec"}
    BY <1>2, <2>1, <2>3
  <2>5. owed' \cap m_pending'.suppression = {}
    BY <1>3, <2>2, <2>3
  <2> QED
    BY <1>1, <2>4, <2>5 DEF OwedCovered, Answers, Matching
<1>5. CASE ~m_pending.armed
  <2>1. m_pending'.suppression = mask /\ owed \subseteq {"nsec"}
    BY <1>5, Merged DEF OwedCovered
  <2>2. owed' \subseteq Answers(m_pending'.qtype) \cup {"nsec"} /\ owed' \cap m_pending'.suppression = {}
    BY <1>2, <1>3, <2>1, Zenon
  <2> QED
    BY <1>1, <2>2 DEF OwedCovered, Answers, Matching
<1> QED
  BY <1>4, <1>5

\* Every step keeps what is owed covered.
LEMMA OwedKept ==
    ASSUME ~EmptyTxt, Foreign = {}, DataTyped, StopPosted, OwedCovered, Next
    PROVE  OwedCovered'
<1>1. m_stopped => m_stopped'
  BY StaysStopped
<1>2. m_pending \in Pendings /\ owed \subseteq RR \cup {"nsec"}
  BY DEF DataTyped
<1>3. ASSUME UNCHANGED <<m_pending, owed>> PROVE OwedCovered'
  BY <1>1, <1>3 DEF OwedCovered, Answers, Matching
<1>4. CASE \/ FireResponseTimer \/ SendProbe \/ StartAnnouncing \/ SendAnnounce \/ SendUpdateAnnounce \/ Reprobe
           \/ DeferAndReprobe \/ FailOnConflict \/ ReceiveDirectQuery \/ Reply \/ RunUpdate \/ RunOrphan
           \/ StopOnExecutor \/ StopExchange \/ StopGoodbye \/ StopPost \/ Destroy
           \/ \E ct \in {"name", "tiebreak"} : ReceiveConflict(ct)
           \/ \E n \in Names : RenameAndReprobe(n)
           \/ \E rs \in SUBSET Have : ObserveResponse(rs)
           \/ \E s \in Senders, known \in SUBSET KnownAnswers : HandleTcQuery(s, known) \/ HandleLastOfSeries(s, known)
           \/ \E n \in UpdateNames : PostUpdate(n)
  BY <1>3, <1>4, Zenon DEF FireResponseTimer, SendProbe, StartAnnouncing, SendAnnounce, SendUpdateAnnounce, Reprobe,
        ReceiveConflict, DeferAndReprobe, RenameAndReprobe, FailOnConflict, ReceiveDirectQuery, ObserveResponse,
        Reply, HandleTcQuery, HandleLastOfSeries,
        PostUpdate, RunUpdate, StopOnExecutor, StopExchange, StopGoodbye, StopPost, Destroy, RunOrphan, answering
<1>5. ASSUME NEW asks \in Questions, NEW known \in SUBSET KnownAnswers, HandleQuery(asks, known)
      PROVE  OwedCovered'
  <2> DEFINE wanted == (UNION {Answers(q) : q \in asks}) \ Ours(known)
  <2>1. wanted \subseteq Answers(Qtype(asks)) \ Mask(known)
    BY <1>5, MaskIsOurs, WidenedType
  <2>2. wanted \cap Mask(known) = {} /\ Mask(known) \in SUBSET Have
    BY <1>5, <2>1, OfOurTypes
  <2>3. Qtype(asks) \in RR \cup {"any"} /\ NeedsNsec(asks) \in BOOLEAN
    BY <1>5, QtypeKnown DEF NeedsNsec
  <2>4. CASE AllSuppressed(Mask(known), Qtype(asks))
    <3>1. wanted = {}
      BY <2>1, <2>4, WidenedType DEF AllSuppressed
    <3>2. m_pending' = m_pending /\ owed' = owed \cup wanted
      BY <1>5, <2>4 DEF HandleQuery
    <3> QED
      BY <1>3, <3>1, <3>2
  <2>5. CASE ~AllSuppressed(Mask(known), Qtype(asks))
    <3>1. /\ m_pending' = Merge(Qtype(asks), NeedsNsec(asks), Mask(known))
          /\ owed' \subseteq owed \cup wanted \cup {"nsec"} /\ ~m_stopped
      BY <1>5, <2>5 DEF HandleQuery, Schedule, Listening
    <3> HIDE DEF wanted
    <3> QED
      BY <1>2, <2>1, <2>2, <2>3, <3>1, ScheduledCovered, Zenon
  <2> QED
    BY <2>4, <2>5
<1>6. ASSUME NEW s \in Senders, OnTcWaitExpired(s) PROVE OwedCovered'
  <2> DEFINE known == m_tc_acc[s]
  <2>1. CASE UNCHANGED <<m_pending, owed>>
    BY <1>3, <2>1
  <2>2. CASE ~UNCHANGED <<m_pending, owed>>
    <3> DEFINE wanted == Answers("any") \ Ours(known)
    <3>1. s \in DOMAIN m_tc_acc /\ ~m_stopped /\ owed' = owed \cup wanted
      BY <1>6, <2>2, Zenon DEF OnTcWaitExpired
    <3>2. known \in SUBSET KnownAnswers
      BY <3>1 DEF DataTyped
    <3>3. Mask(known) = Ours(known) /\ Mask(known) \in SUBSET Have
      BY <3>2, MaskIsOurs, OfOurTypes
    <3>4. CASE AllSuppressed(Mask(known), "any")
      <4>1. wanted = {}
        BY <3>3, <3>4, WidenedType DEF AllSuppressed
      <4>2. m_pending' = m_pending
        BY <1>6, <3>1, <3>4 DEF OnTcWaitExpired
      <4> QED
        BY <1>3, <3>1, <4>1, <4>2
    <3>5. CASE ~AllSuppressed(Mask(known), "any")
      <4>1. m_pending' = Merge("any", FALSE, Mask(known))
        BY <1>6, <2>2, <3>5, Zenon DEF OnTcWaitExpired, Schedule
      <4>2. wanted \in SUBSET Answers("any") /\ wanted \cap Mask(known) = {}
        BY <3>3
      <4> HIDE DEF wanted, known
      <4>3. owed' \subseteq owed \cup wanted \cup {"nsec"}
        BY <3>1
      <4> QED
        BY <1>2, <3>1, <3>3, <4>1, <4>2, <4>3, ScheduledCovered, Zenon
    <3> QED
      BY <3>4, <3>5
  <2> QED
    BY <2>1, <2>2
<1>7. CASE FirePendingResponse
  <2> DEFINE sent == Response(m_pending.qtype, m_pending.needs_nsec, Combined)
  <2>1. owed' = owed \ (sent \cup Duplicates) /\ m_pending' = Unarmed
    BY <1>7 DEF FirePendingResponse
  <2>2. CASE m_stopped
    BY <1>1, <2>2 DEF OwedCovered
  <2>3. CASE ~m_stopped /\ ~m_pending.armed
    BY <2>1, <2>3 DEF OwedCovered, Unarmed
  <2>4. CASE ~m_stopped /\ m_pending.armed
    <3>1. owed \subseteq Answers(m_pending.qtype) \cup {"nsec"} /\ owed \cap m_pending.suppression = {}
      BY <2>4 DEF OwedCovered
    <3>2. CASE m_pending.qtype # "any" /\ m_pending.qtype \in Combined
      <4>1. Answers(m_pending.qtype) \subseteq m_pending.suppression \cup Duplicates
        BY <3>2 DEF Combined, Answers, Matching
      <4> QED
        BY <2>1, <3>1, <4>1 DEF OwedCovered, Unarmed
    <3>3. CASE ~(m_pending.qtype # "any" /\ m_pending.qtype \in Combined)
      <4>1. Answers(m_pending.qtype) \subseteq sent
        BY <3>3 DEF Response
      <4> QED
        BY <2>1, <3>1, <4>1 DEF OwedCovered, Unarmed
    <3> QED
      BY <3>2, <3>3
  <2> QED
    BY <2>2, <2>3, <2>4
<1>8. CASE RunTeardown
  <2>1. 1 \in DOMAIN posted /\ Head(posted) = posted[1] /\ Head(posted).fn = "teardown"
    BY <1>8, PostedAfter DEF RunTeardown, DataTyped
  <2> QED
    BY <1>1, <2>1 DEF StopPosted, OwedCovered
<1> QED
  BY <1>4, <1>5, <1>6, <1>7, <1>8, Steps

\* Outside a response window no record is owed to anybody, whatever queries were merged
\* into one delayed response, provided that the TXT record has strings and the names are ours alone.
THEOREM EveryAnswerIsSent ==
    ASSUME ~EmptyTxt, Foreign = {}
    PROVE  Spec => []AnswersOwed
<1>1. Init => OwedCovered
  BY DEF Init, OwedCovered, Unarmed
<1>2. Inv /\ OwedCovered /\ [Next]_vars => OwedCovered'
  <2>1. ASSUME Inv, OwedCovered, Next PROVE OwedCovered'
    BY <2>1, OwedKept DEF Inv
  <2>2. ASSUME OwedCovered, UNCHANGED vars PROVE OwedCovered'
    BY <2>2, Zenon DEF OwedCovered, Answers, Matching, vars, answering
  <2> QED
    BY <2>1, <2>2
<1>3. OwedCovered => AnswersOwed
  BY DEF OwedCovered, AnswersOwed
<1> QED
  BY <1>1, <1>2, <1>3, InvInvariant, PTL DEF Spec

-----------------------------------------------------------------------------
(***************************************************************************)
(* Claiming a name.  An update may give the service a name that was not    *)
(* probed for, which the server does not see; so the updates keep it.      *)
(***************************************************************************)
UpdatesKeepName == UpdateNames # {} => UpdateNames = {FirstName} /\ (TRUE \in Verdicts => Names = {FirstName})

\* The name that the posted updates carry is the one the service has.
NameKept ==
    IF UpdateNames = {} THEN \A i \in DOMAIN posted : posted[i].fn # "update"
    ELSE /\ m_info.name = FirstName
         /\ \A i \in DOMAIN posted : posted[i].fn = "update" => posted[i].info.name = FirstName

\* While probing, probe_count counts the probes for the present name; the name is claimed
\* when there were enough.
ProbesCounted ==
    /\ response_timer = "probe" \/ busy = "probe" => probed[m_info.name] = probe_count
    /\ response_timer = "claim" \/ busy = "claim" => probed[m_info.name] >= ProbeCount
    /\ ProbedBeforeClaim

\* The posted functions of the next state come from the present ones and from one more.
LEMMA PostedNext ==
    ASSUME DataTyped, Next
    PROVE  \/ \A i \in DOMAIN posted' : \E j \in DOMAIN posted : posted'[i] = posted[j]
           \/ /\ posted' = Append(posted, [fn |-> "teardown"])
              /\ StopOnExecutor \/ StopPost \/ Destroy
           \/ \E n \in UpdateNames : PostUpdate(n)
<1>1. posted \in Seq(Posts)
  BY DEF DataTyped
<1>2. ASSUME posted' = posted PROVE \A i \in DOMAIN posted' : \E j \in DOMAIN posted : posted'[i] = posted[j]
  BY <1>2
<1>3. CASE posted # <<>> /\ posted' = Tail(posted)
  <2>1. \A i \in DOMAIN posted' : i + 1 \in DOMAIN posted /\ posted'[i] = posted[i + 1]
    BY <1>1, <1>3, PostedAfter
  <2> QED
    BY <2>1
<1>4. CASE \/ FireResponseTimer \/ SendProbe \/ StartAnnouncing \/ SendAnnounce \/ SendUpdateAnnounce \/ Reprobe
           \/ DeferAndReprobe \/ FailOnConflict \/ ReceiveDirectQuery \/ Reply \/ FirePendingResponse
           \/ StopExchange \/ StopGoodbye
           \/ \E ct \in {"name", "tiebreak"} : ReceiveConflict(ct)
           \/ \E n \in Names : RenameAndReprobe(n)
           \/ \E asks \in Questions, known \in SUBSET KnownAnswers : HandleQuery(asks, known)
           \/ \E rs \in SUBSET Have : ObserveResponse(rs)
           \/ \E s \in Senders, known \in SUBSET KnownAnswers : HandleTcQuery(s, known) \/ HandleLastOfSeries(s, known)
           \/ \E s \in Senders : OnTcWaitExpired(s)
  <2>1. posted' = posted
    BY <1>4, Zenon DEF FireResponseTimer, SendProbe, StartAnnouncing, SendAnnounce, SendUpdateAnnounce, Reprobe,
        DeferAndReprobe, FailOnConflict, ReceiveDirectQuery, Reply, FirePendingResponse, StopExchange, StopGoodbye,
        ReceiveConflict, RenameAndReprobe, HandleQuery, ObserveResponse, HandleTcQuery, HandleLastOfSeries,
        OnTcWaitExpired, calls
  <2> QED
    BY <1>2, <2>1
<1>5. CASE RunUpdate \/ RunTeardown \/ RunOrphan
  BY <1>3, <1>5 DEF RunUpdate, RunTeardown, RunOrphan
<1>6. CASE StopOnExecutor
  BY <1>2, <1>6 DEF StopOnExecutor, PostTeardown
<1>7. CASE StopPost
  BY <1>7 DEF StopPost, PostTeardown
<1>8. CASE Destroy
  BY <1>2, <1>8 DEF Destroy, PostTeardown
<1> QED
  BY <1>4, <1>5, <1>6, <1>7, <1>8, Steps, Zenon

\* What a step does to the name.
LEMMA NameNext ==
    ASSUME Next
    PROVE  \/ m_info' = m_info
           \/ RunUpdate /\ m_info' = Head(posted).info
           \/ \E n \in Names : RenameAndReprobe(n)
BY Steps, Zenon DEF FireResponseTimer, SendProbe, StartAnnouncing, SendAnnounce, SendUpdateAnnounce, Reprobe,
             ReceiveConflict, DeferAndReprobe, FailOnConflict, HandleQuery, ReceiveDirectQuery,
             Reply, ObserveResponse, FirePendingResponse, HandleTcQuery, HandleLastOfSeries, OnTcWaitExpired,
             PostUpdate, RunUpdate, StopOnExecutor, StopExchange, StopGoodbye, StopPost, RunTeardown, Destroy,
             RunOrphan

\* An update that is run keeps the name.
LEMMA UpdateRunKeepsName ==
    ASSUME DataTyped, NameKept, RunUpdate
    PROVE  UpdateNames # {} /\ Head(posted).info.name = FirstName /\ m_info.name = FirstName
<1>1. 1 \in DOMAIN posted /\ Head(posted) = posted[1] /\ Head(posted).fn = "update"
  BY PostedAfter DEF RunUpdate, DataTyped
<1> QED
  BY <1>1 DEF NameKept

\* Every step keeps the name that posted updates carry.
LEMMA NameKeptNext ==
    ASSUME UpdatesKeepName, DataTyped, NameKept, Next
    PROVE  NameKept'
<1>1. posted \in Seq(Posts) /\ m_info \in Infos
  BY DEF DataTyped
<1>2. UpdateNames # {} => m_info'.name = FirstName
  <2>1. CASE m_info' = m_info
    BY <2>1 DEF NameKept
  <2>2. CASE RunUpdate /\ m_info' = Head(posted).info
    BY <2>2, UpdateRunKeepsName
  <2>3. ASSUME NEW n \in Names, RenameAndReprobe(n), UpdateNames # {} PROVE m_info'.name = FirstName
    <3>1. n = FirstName
      BY <2>3 DEF RenameAndReprobe, UpdatesKeepName
    <3> QED
      BY <1>1, <2>3, <3>1 DEF RenameAndReprobe, Infos
  <2> QED
    BY <2>1, <2>2, <2>3, NameNext
<1>3. CASE \A i \in DOMAIN posted' : \E j \in DOMAIN posted : posted'[i] = posted[j]
  BY <1>2, <1>3 DEF NameKept
<1>4. ASSUME NEW post \in Posts, posted' = Append(posted, post),
             post.fn = "update" => UpdateNames # {} /\ post.info.name = FirstName
      PROVE  NameKept'
  <2>1. DOMAIN posted' = 1..(Len(posted) + 1) /\ DOMAIN posted = 1..Len(posted) /\ Len(posted) \in Nat
    BY <1>1, <1>4
  <2>2. \A i \in DOMAIN posted' : posted'[i] = post \/ (i \in DOMAIN posted /\ posted'[i] = posted[i])
    BY <1>1, <1>4, <2>1
  <2> QED
    BY <1>2, <1>4, <2>2 DEF NameKept
<1>5. CASE posted' = Append(posted, [fn |-> "teardown"])
  <2>1. [fn |-> "teardown"] \in Posts
    BY DEF Posts
  <2> QED
    BY <1>4, <1>5, <2>1
<1>6. ASSUME NEW n \in UpdateNames, PostUpdate(n) PROVE NameKept'
  <2> DEFINE post == [fn |-> "update", info |-> [name |-> n, rev |-> updates + 1]]
  <2>1. posted' = Append(posted, post) /\ m_info' = m_info /\ n = FirstName
    BY <1>6, Zenon DEF PostUpdate, UpdatesKeepName
  <2>2. post.fn = "update" /\ post.info.name = FirstName
    BY <2>1
  <2> HIDE DEF post
  <2>3. DOMAIN posted' = 1..(Len(posted) + 1) /\ DOMAIN posted = 1..Len(posted) /\ Len(posted) \in Nat
    BY <1>1, <2>1
  <2>4. \A i \in DOMAIN posted' : posted'[i] = post \/ (i \in DOMAIN posted /\ posted'[i] = posted[i])
    BY <1>1, <2>1, <2>3
  <2> QED
    BY <1>2, <1>6, <2>2, <2>4 DEF NameKept
<1> QED
  BY <1>3, <1>5, <1>6, PostedNext

\* No step loses count of the probes for the present name, or claims it too early.
LEMMA ProbesCountedNext ==
    ASSUME Control, DataTyped, NameKept, ProbesCounted, Next
    PROVE  ProbesCounted'
<1>1. m_info \in Infos /\ m_info.name \in Names /\ probed \in [Names -> 0..255]
  BY DEF DataTyped, Infos, Control, ControlTyped
<1>2. ASSUME m_info'.name = m_info.name, probed' = probed, probe_count' = probe_count, state' \in {state, "stopped"},
             response_timer' \in {"probe", "claim"} => response_timer' = response_timer,
             busy' \in {"probe", "claim"} => busy' \in {response_timer, busy}
      PROVE  ProbesCounted'
  BY <1>2 DEF ProbesCounted, ProbedBeforeClaim
<1>3. CASE SendProbe
  <2>1. /\ busy = "probe" /\ busy' = "none" /\ probe_count' = Mod256(probe_count + 1) /\ m_info' = m_info
        /\ probed' = [probed EXCEPT ![m_info.name] = Mod256(@ + 1)] /\ state' = state
        /\ response_timer' = IF probe_count' < ProbeCount THEN "probe" ELSE "claim"
    BY <1>3 DEF SendProbe
  <2>2. state = "probing" /\ probed[m_info.name] = probe_count /\ probe_count < AtLeastOne(ProbeCount)
    BY <2>1 DEF Control, HandlerState, ProbesCounted, CountsBelow
  <2>3. probe_count \in Nat /\ ProbeCount \in 0..255
    BY Counts DEF Control, ControlTyped
  <2>4. probed'[m_info.name] = Mod256(probe_count + 1)
    BY <1>1, <2>1, <2>2
  <2>5. probe_count' \in Nat
    BY <2>1, <2>3 DEF Mod256
  <2> QED
    BY <2>1, <2>2, <2>3, <2>4, <2>5 DEF ProbesCounted, ProbedBeforeClaim
<1>4. CASE StartAnnouncing
  <2>1. busy = "claim" /\ busy' \in {"none", "announce"} /\ response_timer' = response_timer /\ m_info' = m_info
        /\ probed' = probed
    BY <1>4 DEF StartAnnouncing
  <2>2. response_timer = "off"
    BY <2>1 DEF Control, OneHandler
  <2> QED
    BY <2>1, <2>2 DEF ProbesCounted, ProbedBeforeClaim
<1>5. CASE SendAnnounce
  <2>1. /\ busy = "announce" /\ busy' = "none" /\ m_info' = m_info /\ probed' = probed /\ probe_count' = probe_count
        /\ state' \in {state, "live"} /\ response_timer' \in {response_timer, "announce"}
    BY <1>5 DEF SendAnnounce
  <2>2. state = "announcing"
    BY <2>1 DEF Control, HandlerState
  <2> QED
    BY <2>1, <2>2 DEF ProbesCounted, ProbedBeforeClaim
<1>6. CASE Reprobe
  BY <1>1, <1>6 DEF Reprobe, StartProbing, ProbesCounted, ProbedBeforeClaim
<1>7. ASSUME NEW n \in Names, RenameAndReprobe(n) PROVE ProbesCounted'
  <2>1. m_info'.name \in Names
    BY <1>1, <1>7 DEF RenameAndReprobe, Infos
  <2> QED
    BY <1>7, <2>1 DEF RenameAndReprobe, StartProbing, ProbesCounted, ProbedBeforeClaim
<1>8. CASE DeferAndReprobe
  BY <1>8 DEF DeferAndReprobe, ProbesCounted, ProbedBeforeClaim
<1>9. CASE RunUpdate
  <2>1. m_info'.name = m_info.name
    BY <1>9, UpdateRunKeepsName DEF RunUpdate
  <2> QED
    BY <1>2, <1>9, <2>1 DEF RunUpdate, Idle
<1>10. CASE FireResponseTimer \/ SendUpdateAnnounce \/ FailOnConflict \/ ReceiveDirectQuery \/ Reply
            \/ FirePendingResponse \/ RunTeardown
  BY <1>2, <1>10, Zenon DEF FireResponseTimer, SendUpdateAnnounce, FailOnConflict, ReceiveDirectQuery, Reply,
                     FirePendingResponse, RunTeardown, Idle, claim
<1>11. CASE RunOrphan \/ StopOnExecutor \/ StopExchange \/ StopGoodbye \/ StopPost \/ Destroy
            \/ \E n \in UpdateNames : PostUpdate(n)
  BY <1>2, <1>11, Zenon DEF RunOrphan, StopOnExecutor, StopExchange, StopGoodbye, StopPost, Destroy, PostUpdate, claim
<1>12. CASE \/ \E ct \in {"name", "tiebreak"} : ReceiveConflict(ct)
            \/ \E asks \in Questions, known \in SUBSET KnownAnswers : HandleQuery(asks, known)
            \/ \E rs \in SUBSET Have : ObserveResponse(rs)
            \/ \E s \in Senders, known \in SUBSET KnownAnswers : HandleTcQuery(s, known) \/ HandleLastOfSeries(s, known)
            \/ \E s \in Senders : OnTcWaitExpired(s)
  BY <1>2, <1>12, Zenon DEF ReceiveConflict, HandleQuery, Schedule, ObserveResponse, HandleTcQuery, HandleLastOfSeries,
                     OnTcWaitExpired, claim
<1> QED
  BY <1>3, <1>4, <1>5, <1>6, <1>7, <1>8, <1>9, <1>10, <1>11, <1>12, Steps

\* The two together.
Claimed == NameKept /\ ProbesCounted

\* Both hold in every reachable state.
LEMMA ClaimedInvariant ==
    ASSUME UpdatesKeepName
    PROVE  Spec => []Claimed
<1>1. Init => Claimed
  <2>1. ASSUME Init PROVE Claimed
    <3>1. DOMAIN posted = {} /\ m_info.name = FirstName /\ probed[FirstName] = 0
      BY <2>1, Parties DEF Init
    <3> QED
      BY <2>1, <3>1 DEF Init, Claimed, NameKept, ProbesCounted, ProbedBeforeClaim
  <2> QED
    BY <2>1
<1>2. Inv /\ Claimed /\ [Next]_vars => Claimed'
  <2>1. ASSUME Inv, Claimed, Next PROVE Claimed'
    BY <2>1, NameKeptNext, ProbesCountedNext DEF Inv, Claimed
  <2>2. ASSUME Claimed, UNCHANGED vars PROVE Claimed'
    BY <2>2 DEF Claimed, NameKept, ProbesCounted, ProbedBeforeClaim, vars, claim, calls
  <2> QED
    BY <2>1, <2>2
<1> QED
  BY <1>1, <1>2, InvInvariant, PTL DEF Spec

\* A name is announced and answered for only after ProbeCount probes for that very name
\* since the last conflict, whatever renames and deferrals came between, when updates keep the name.
THEOREM ClaimsAfterProbing ==
    ASSUME UpdatesKeepName
    PROVE  Spec => []ProbedBeforeClaim
<1>1. Claimed => ProbedBeforeClaim
  BY DEF Claimed, ProbesCounted
<1> QED
  BY <1>1, ClaimedInvariant, PTL

-----------------------------------------------------------------------------
(***************************************************************************)
(* The life of a service whose stop() runs on the executor.  The goodbye   *)
(* is sent by the thread that calls stop(), and only there is it certain   *)
(* that no handler sends after it.                                         *)
(***************************************************************************)
OnExecutor == StopCallers \subseteq {"executor"}

\* Nobody else is inside stop() or destroys the server.
NoOtherCaller == alive /\ stopper \in {"idle", "returned"}

\* Until stop() only the present name is advertised, and only once it was claimed; after
\* it no name is, and no handler is past its test of m_stopped.
OpenOrClosed ==
    IF m_stopped THEN advertised = {} /\ busy = "none"
    ELSE /\ socket_open /\ state # "stopped" /\ advertised \subseteq {m_info.name}
         /\ state = "probing" => advertised = {}

\* One teardown is posted, and it is the one that calls on_done.
OneTeardown ==
    /\ \A i, j \in DOMAIN posted : posted[i].fn = "teardown" /\ posted[j].fn = "teardown" => i = j
    /\ done => \A i \in DOMAIN posted : posted[i].fn # "teardown"

LifeInv == NoOtherCaller /\ OpenOrClosed /\ OneTeardown

\* What a step may do to what the user and the network see.
Unseen == UNCHANGED <<m_stopped, advertised, ready, done>>
Advertises == /\ ~m_stopped /\ advertised' = advertised \cup {m_info.name}
              /\ ready' = ready \/ (ready = "pending" /\ ready' = "ok")
              /\ UNCHANGED <<m_stopped, done>>
Closes == /\ ~m_stopped /\ m_stopped' /\ advertised' = {}
          /\ ready' = ready \/ (ready = "pending" /\ ready' = "conflict")
          /\ UNCHANGED done
Completes == /\ m_stopped /\ ~done /\ done'
             /\ ready' = IF ready = "pending" THEN "canceled" ELSE ready
             /\ UNCHANGED <<m_stopped, advertised>>

\* Without other callers, only these steps are taken.
LEMMA ExecutorSteps ==
    ASSUME OnExecutor, NoOtherCaller, Next
    PROVE  NoOtherCaller' /\ ~StopExchange /\ ~StopGoodbye /\ ~StopPost /\ ~Destroy /\ ~RunOrphan
<1>1. ~StopExchange /\ ~StopGoodbye /\ ~StopPost /\ ~Destroy /\ ~RunOrphan
  BY DEF OnExecutor, NoOtherCaller, StopExchange, StopGoodbye, StopPost, Destroy, RunOrphan
<1>2. alive' = alive /\ stopper' \in {stopper, "returned"}
  BY <1>1, Steps, Zenon
  DEF FireResponseTimer, SendProbe, StartAnnouncing, SendAnnounce, SendUpdateAnnounce, Reprobe,
      ReceiveConflict, DeferAndReprobe, RenameAndReprobe, FailOnConflict, HandleQuery, ReceiveDirectQuery,
      Reply, ObserveResponse, FirePendingResponse, HandleTcQuery, HandleLastOfSeries, OnTcWaitExpired,
      PostUpdate, RunUpdate, StopOnExecutor, RunTeardown, calls, life
<1> QED
  BY <1>1, <1>2 DEF NoOtherCaller

\* A handler past its test of m_stopped runs in a server that has not stopped.
LEMMA BusyIsOpen ==
    ASSUME OpenOrClosed, busy # "none"
    PROVE  ~m_stopped
BY DEF OpenOrClosed

\* The teardown at the head of the queue is the only one, and on_done was not called.
LEMMA FirstTeardown ==
    ASSUME DataTyped, StopPosted, OneTeardown, RunTeardown
    PROVE  /\ m_stopped /\ ~done
           /\ \A i \in DOMAIN posted' : posted'[i].fn # "teardown"
<1>1. posted # <<>> /\ posted \in Seq(Posts) /\ posted' = Tail(posted) /\ Head(posted).fn = "teardown"
  BY DEF RunTeardown, DataTyped
<1>2. /\ \A i \in DOMAIN posted' : i + 1 \in DOMAIN posted /\ posted'[i] = posted[i + 1]
      /\ 1 \in DOMAIN posted /\ Head(posted) = posted[1] /\ DOMAIN posted' \subseteq Nat \ {0}
  BY <1>1, PostedAfter
<1>3. m_stopped /\ ~done
  BY <1>1, <1>2 DEF StopPosted, OneTeardown
<1>4. ASSUME NEW i \in DOMAIN posted', posted'[i].fn = "teardown" PROVE FALSE
  <2>1. i + 1 = 1
    BY <1>1, <1>2, <1>4 DEF OneTeardown
  <2> QED
    BY <1>2, <2>1
<1> QED
  BY <1>3, <1>4

\* The teardowns posted: one more only in the step that sets m_stopped.
LEMMA OneTeardownKept ==
    ASSUME OnExecutor, NoOtherCaller, DataTyped, StopPosted, OneTeardown, Next
    PROVE  OneTeardown'
<1>1. posted \in Seq(Posts)
  BY DEF DataTyped
<1>2. CASE RunTeardown
  BY <1>2, FirstTeardown DEF OneTeardown
<1>3. ~RunTeardown => done' = done
  BY ExecutorSteps, Steps, Zenon
  DEF FireResponseTimer, SendProbe, StartAnnouncing, SendAnnounce, SendUpdateAnnounce, Reprobe,
      ReceiveConflict, DeferAndReprobe, RenameAndReprobe, FailOnConflict, HandleQuery, ReceiveDirectQuery,
      Reply, ObserveResponse, FirePendingResponse, HandleTcQuery, HandleLastOfSeries, OnTcWaitExpired,
      PostUpdate, RunUpdate, StopOnExecutor, life
<1>4. ASSUME posted' = posted, done' = done PROVE OneTeardown'
  BY <1>4 DEF OneTeardown
<1>5. CASE RunUpdate
  <2>1. posted # <<>> /\ posted' = Tail(posted)
    BY <1>5 DEF RunUpdate
  <2>2. \A i \in DOMAIN posted' : i \in Nat /\ i + 1 \in DOMAIN posted /\ posted'[i] = posted[i + 1]
    BY <1>1, <2>1, PostedAfter
  <2>3. ~RunTeardown
    BY <1>5 DEF RunUpdate, RunTeardown
  <2> QED
    BY <1>3, <2>2, <2>3 DEF OneTeardown
<1>6. CASE StopOnExecutor
  <2>1. done' = done
    BY <1>6 DEF StopOnExecutor, life
  <2>2. CASE m_stopped
    BY <1>4, <1>6, <2>1, <2>2 DEF StopOnExecutor
  <2>3. CASE ~m_stopped
    <3> DEFINE post == [fn |-> "teardown"]
    <3>1. posted' = Append(posted, post) /\ ~done /\ \A i \in DOMAIN posted : posted[i].fn # "teardown"
      BY <1>6, <2>3 DEF StopOnExecutor, PostTeardown, StopPosted
    <3>2. DOMAIN posted' = 1..(Len(posted) + 1) /\ DOMAIN posted = 1..Len(posted) /\ Len(posted) \in Nat
      BY <1>1, <3>1
    <3>3. \A i \in DOMAIN posted' : i = Len(posted) + 1 \/ (i \in DOMAIN posted /\ posted'[i] = posted[i])
      BY <1>1, <3>1, <3>2
    <3> QED
      BY <2>1, <3>1, <3>3 DEF OneTeardown
  <2> QED
    BY <2>2, <2>3
<1>7. ASSUME NEW n \in UpdateNames, PostUpdate(n) PROVE OneTeardown'
  <2> DEFINE post == [fn |-> "update", info |-> [name |-> n, rev |-> updates + 1]]
  <2>1. posted' = Append(posted, post) /\ done' = done
    BY <1>7 DEF PostUpdate, life
  <2>2. post.fn # "teardown"
    OBVIOUS
  <2> HIDE DEF post
  <2>3. DOMAIN posted' = 1..(Len(posted) + 1) /\ DOMAIN posted = 1..Len(posted) /\ Len(posted) \in Nat
    BY <1>1, <2>1
  <2>4. \A i \in DOMAIN posted' : posted'[i] = post \/ (i \in DOMAIN posted /\ posted'[i] = posted[i])
    BY <1>1, <2>1, <2>3
  <2> QED
    BY <2>1, <2>2, <2>4 DEF OneTeardown
<1>8. CASE ~RunTeardown /\ ~RunUpdate /\ ~StopOnExecutor /\ ~\E n \in UpdateNames : PostUpdate(n)
  <2>1. posted' = posted
    BY <1>8, ExecutorSteps, Steps, Zenon
    DEF FireResponseTimer, SendProbe, StartAnnouncing, SendAnnounce, SendUpdateAnnounce, Reprobe,
        ReceiveConflict, DeferAndReprobe, RenameAndReprobe, FailOnConflict, HandleQuery, ReceiveDirectQuery,
        Reply, ObserveResponse, FirePendingResponse, HandleTcQuery, HandleLastOfSeries, OnTcWaitExpired, calls
  <2> QED
    BY <1>3, <1>4, <1>8, <2>1
<1> QED
  BY <1>2, <1>5, <1>6, <1>7, <1>8

\* Every step is one that ServiceLife allows, and keeps OpenOrClosed.
LEMMA LifeStep ==
    ASSUME OnExecutor, UpdatesKeepName, Control, DataTyped, StopPosted, NameKept, LifeInv, Next
    PROVE  (Unseen \/ Advertises \/ Closes \/ Completes) /\ OpenOrClosed'
<1>1. NoOtherCaller /\ OpenOrClosed /\ OneTeardown /\ HandlerState /\ ReadyPending
  BY DEF LifeInv, Control
<1>2. m_info \in Infos /\ m_info.name \in Names
  BY DEF DataTyped, Infos
<1>4. ASSUME Unseen, busy' = busy \/ ~m_stopped, m_info'.name = m_info.name \/ advertised = {},
             socket_open' = socket_open, state' = state
      PROVE  Unseen /\ OpenOrClosed'
  BY <1>1, <1>4 DEF Unseen, OpenOrClosed
<1>5. busy # "none" => ~m_stopped
  BY <1>1, BusyIsOpen
<1>6. CASE FireResponseTimer
  <2>1. Unseen /\ (busy' = busy \/ ~m_stopped) /\ m_info' = m_info /\ socket_open' = socket_open /\ state' = state
    BY <1>6 DEF FireResponseTimer, Unseen, Idle, claim, life
  <2> QED
    BY <1>4, <2>1
<1>7. CASE SendProbe \/ Reprobe \/ DeferAndReprobe
  <2>1. busy # "none" /\ state = "probing"
    BY <1>1, <1>7 DEF SendProbe, Reprobe, DeferAndReprobe, HandlerState
  <2>2. Unseen /\ m_info' = m_info /\ socket_open' = socket_open /\ state' = state
    BY <1>7, <2>1 DEF SendProbe, Reprobe, DeferAndReprobe, StartProbing, Unseen, life
  <2> QED
    BY <1>4, <1>5, <2>1, <2>2
<1>8. ASSUME NEW n \in Names, RenameAndReprobe(n) PROVE Unseen /\ OpenOrClosed'
  <2>1. busy = "name" /\ state = "probing" /\ ~m_stopped /\ advertised = {}
    BY <1>1, <1>5, <1>8 DEF RenameAndReprobe, HandlerState, OpenOrClosed
  <2>2. Unseen /\ socket_open' = socket_open /\ state' = state
    BY <1>8, <2>1 DEF RenameAndReprobe, StartProbing, Unseen, life
  <2> QED
    BY <1>4, <2>1, <2>2
<1>9. CASE StartAnnouncing
  <2>1. busy = "claim" /\ ~m_stopped /\ state = "probing" /\ advertised = {} /\ socket_open
    BY <1>1, <1>5, <1>9 DEF StartAnnouncing, HandlerState, OpenOrClosed
  <2>2. Unseen /\ m_info' = m_info /\ socket_open' = socket_open /\ state' = "announcing"
    BY <1>9 DEF StartAnnouncing, Unseen, life
  <2> QED
    BY <2>1, <2>2 DEF OpenOrClosed, Unseen
<1>10. CASE SendAnnounce \/ SendUpdateAnnounce \/ Reply \/ FirePendingResponse
  <2>1. busy # "none" /\ state \in {"announcing", "live"} /\ ~m_stopped
    BY <1>1, <1>5, <1>10 DEF SendAnnounce, SendUpdateAnnounce, Reply, FirePendingResponse, HandlerState
  <2>2. /\ \/ advertised' = advertised /\ ready' = ready
           \/ /\ advertised' = advertised \cup {m_info.name}
              /\ ready' = ready \/ (ready = "pending" /\ ready' = "ok")
        /\ m_stopped' = m_stopped /\ done' = done /\ socket_open' = socket_open /\ m_info' = m_info
        /\ state' \in {state, "live"}
    <3>1. socket_open
      BY <1>1, <2>1 DEF OpenOrClosed
    <3> QED
      BY <1>10, <3>1, Zenon DEF SendAnnounce, SendUpdateAnnounce, Reply, FirePendingResponse, Advertise, life, claim
  <2>3. Unseen \/ Advertises
    BY <2>1, <2>2 DEF Unseen, Advertises
  <2>4. OpenOrClosed'
    BY <1>1, <2>1, <2>2 DEF OpenOrClosed
  <2> QED
    BY <2>3, <2>4
<1>11. CASE FailOnConflict
  <2>1. busy = "name" /\ ~m_stopped /\ state = "probing" /\ advertised = {}
    BY <1>1, <1>5, <1>11 DEF FailOnConflict, HandlerState, OpenOrClosed
  <2>2. /\ m_stopped' = TRUE /\ advertised' = advertised /\ busy' = "none" /\ done' = done
        /\ ready' = IF ready = "pending" THEN "conflict" ELSE ready
    BY <1>11 DEF FailOnConflict, life
  <2>3. Closes
    BY <2>1, <2>2 DEF Closes
  <2>4. OpenOrClosed'
    BY <2>1, <2>2 DEF OpenOrClosed
  <2> QED
    BY <2>3, <2>4
<1>12. CASE StopOnExecutor
  <2>1. /\ busy' = busy /\ ready' = ready /\ done' = done /\ busy = "none" /\ m_info' = m_info /\ state' = state
        /\ socket_open' = socket_open
    BY <1>12 DEF StopOnExecutor, Idle, life, claim
  <2>2. CASE m_stopped
    <3>1. m_stopped' = m_stopped /\ advertised' = advertised
      BY <1>12, <2>2 DEF StopOnExecutor
    <3> QED
      BY <1>4, <2>1, <3>1 DEF Unseen
  <2>3. CASE ~m_stopped
    <3>1. /\ socket_open /\ state # "stopped" /\ advertised \subseteq {m_info.name}
          /\ state = "probing" => advertised = {}
      BY <1>1, <2>3 DEF OpenOrClosed
    <3>2. state \in {"probing", "announcing", "live"}
      BY <3>1 DEF Control, ControlTyped
    <3>3. m_stopped' = TRUE /\ Goodbye
      BY <1>12, <2>3 DEF StopOnExecutor
    <3>4. advertised' = {}
      BY <3>1, <3>2, <3>3 DEF Goodbye
    <3>5. Closes
      BY <2>1, <2>3, <3>3, <3>4 DEF Closes
    <3>6. OpenOrClosed'
      BY <2>1, <3>3, <3>4 DEF OpenOrClosed
    <3> QED
      BY <3>5, <3>6
  <2> QED
    BY <2>2, <2>3
<1>13. CASE RunTeardown
  <2>1. m_stopped /\ ~done
    BY <1>1, <1>13, FirstTeardown
  <2>2. /\ done' = TRUE /\ m_stopped' = m_stopped /\ advertised' = advertised /\ busy' = busy
        /\ ready' = IF ready = "pending" /\ state \in {"probing", "announcing"} THEN "canceled" ELSE ready
    BY <1>13 DEF RunTeardown
  <2>3. ready' = IF ready = "pending" THEN "canceled" ELSE ready
    BY <1>1, <2>2 DEF ReadyPending
  <2>4. Completes
    BY <2>1, <2>2, <2>3 DEF Completes
  <2>5. OpenOrClosed'
    BY <1>1, <2>1, <2>2 DEF OpenOrClosed
  <2> QED
    BY <2>4, <2>5
<1>14. CASE RunUpdate
  <2>1. m_info'.name = m_info.name
    BY <1>14, UpdateRunKeepsName DEF RunUpdate
  <2>2. Unseen /\ (busy' = busy \/ ~m_stopped) /\ socket_open' = socket_open /\ state' = state
    BY <1>14 DEF RunUpdate, Unseen, life
  <2> QED
    BY <1>4, <2>1, <2>2
<1>15. CASE \/ \E ct \in {"name", "tiebreak"} : ReceiveConflict(ct)
            \/ \E asks \in Questions, known \in SUBSET KnownAnswers : HandleQuery(asks, known)
            \/ ReceiveDirectQuery
            \/ \E rs \in SUBSET Have : ObserveResponse(rs)
            \/ \E s \in Senders, known \in SUBSET KnownAnswers : HandleTcQuery(s, known) \/ HandleLastOfSeries(s, known)
            \/ \E s \in Senders : OnTcWaitExpired(s)
            \/ \E n \in UpdateNames : PostUpdate(n)
  <2>1. Unseen /\ (busy' = busy \/ ~m_stopped) /\ socket_open' = socket_open /\ state' = state /\ m_info' = m_info
    BY <1>15, Zenon DEF ReceiveConflict, HandleQuery, ReceiveDirectQuery, ObserveResponse, HandleTcQuery, HandleLastOfSeries,
                 OnTcWaitExpired, PostUpdate, Unseen, Listening, claim, life
  <2> QED
    BY <1>4, <2>1
<1> QED
  BY <1>1, <1>6, <1>7, <1>8, <1>9, <1>10, <1>11, <1>12, <1>13, <1>14, <1>15, ExecutorSteps, Steps

\* It holds in every reachable state.
LEMMA LifeInvariant ==
    ASSUME OnExecutor, UpdatesKeepName
    PROVE  Spec => []LifeInv
<1>1. Init => LifeInv
  <2>1. ASSUME Init PROVE LifeInv
    <3>1. DOMAIN posted = {}
      BY <2>1 DEF Init
    <3> QED
      BY <2>1, <3>1 DEF Init, LifeInv, NoOtherCaller, OpenOrClosed, OneTeardown
  <2> QED
    BY <2>1
<1>2. Inv /\ Claimed /\ LifeInv /\ [Next]_vars => LifeInv'
  <2>1. ASSUME Inv, Claimed, LifeInv, Next PROVE LifeInv'
    <3>1. Control /\ DataTyped /\ StopPosted /\ NameKept /\ NoOtherCaller /\ OneTeardown
      BY <2>1 DEF Inv, Claimed, LifeInv
    <3>2. NoOtherCaller' /\ OneTeardown' /\ OpenOrClosed'
      BY <2>1, <3>1, ExecutorSteps, OneTeardownKept, LifeStep
    <3> QED
      BY <3>2 DEF LifeInv
  <2>2. ASSUME LifeInv, UNCHANGED vars PROVE LifeInv'
    BY <2>2, Zenon DEF LifeInv, NoOtherCaller, OpenOrClosed, OneTeardown, vars, claim, calls, life
  <2> QED
    BY <2>1, <2>2
<1> QED
  BY <1>1, <1>2, InvInvariant, ClaimedInvariant, PTL DEF Spec

\* When on_done has fired no name that the server ever advertised is left in others'
\* caches, if stop() runs on the executor and updates keep the name: the goodbye came last.
THEOREM NamesWithdrawn ==
    ASSUME OnExecutor, UpdatesKeepName
    PROVE  Spec => []Withdrawn
<1>1. Inv /\ LifeInv => Withdrawn
  BY DEF Inv, StopPosted, LifeInv, NoOtherCaller, OpenOrClosed, Withdrawn
<1> QED
  BY <1>1, InvInvariant, LifeInvariant, PTL

\* The server keeps the promise of ServiceLife, step by step, if stop() runs on the executor
\* and updates keep the name: names are advertised until it closes, closing withdraws them
\* for good, and on_ready and on_done fire once, in order.
THEOREM KeepsServiceLife ==
    ASSUME OnExecutor, UpdatesKeepName
    PROVE  Spec => ImplementsServiceLife
<1>1. Init => SL!Init
  BY DEF Init, SL!Init
<1>2. Inv /\ Claimed /\ LifeInv /\ [Next]_vars => [SL!Next]_(SL!vars)
  <2>1. ASSUME Inv, Claimed, LifeInv, Next PROVE [SL!Next]_(SL!vars)
    <3>1. Unseen \/ Advertises \/ Closes \/ Completes
      BY <2>1, LifeStep DEF Inv, Claimed
    <3>2. m_info.name \in Names /\ m_stopped \in BOOLEAN /\ done \in BOOLEAN
      BY <2>1 DEF Inv, DataTyped, Infos, Control, ControlTyped
    <3>3. m_stopped' \in BOOLEAN /\ done' \in BOOLEAN
      BY <2>1, <3>2, ControlKept DEF Inv, Control, ControlTyped
    <3>4. CASE Unseen
      BY <3>4 DEF Unseen, SL!vars
    <3>5. CASE Advertises
      BY <3>2, <3>5 DEF Advertises, SL!Next, SL!Advertise
    <3>6. CASE Closes
      BY <3>3, <3>6 DEF Closes, SL!Next, SL!Close
    <3>7. CASE Completes
      BY <3>3, <3>7 DEF Completes, SL!Next, SL!Complete
    <3> QED
      BY <3>1, <3>4, <3>5, <3>6, <3>7
  <2>2. ASSUME UNCHANGED vars PROVE UNCHANGED SL!vars
    BY <2>2 DEF vars, life, SL!vars
  <2> QED
    BY <2>1, <2>2
<1> QED
  BY <1>1, <1>2, InvInvariant, ClaimedInvariant, LifeInvariant, PTL DEF Spec, ImplementsServiceLife, SL!Spec

=============================================================================
