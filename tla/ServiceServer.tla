---------------------------- MODULE ServiceServer ----------------------------
(***************************************************************************)
(* basic_service_server: probe, announce, answer, update, say goodbye.     *)
(*                                                                         *)
(* All handlers run on the executor; stop() may also run on a user thread. *)
(* A handler first tests m_stopped and then acts, so a handler that sends  *)
(* takes two steps: the test leaves its name in busy, the act clears it.   *)
(* Handlers that neither send nor write what stop() reads take one step.   *)
(*                                                                         *)
(* Records are abstracted to their types.  An answer somebody else lists   *)
(* or multicasts is a type of ours and whether its data is ours too; those *)
(* with a TTL below the suppression thresholds are left out.               *)
(* service_options has its defaults (send_goodbye, suppress_known_answers  *)
(* are true); probe_count and announce_count are parameters.               *)
(***************************************************************************)
EXTENDS Naturals, Sequences, FiniteSets

CONSTANTS
    ProbeCount,     \* service_options::probe_count
    AnnounceCount,  \* service_options::announce_count
    Names,          \* service names
    FirstName,      \* the name async_start() is called with
    UpdateNames,    \* the names update_service_info() may pass
    RR,             \* record types that queries ask for
    Have,           \* the types m_info has a record of
    EmptyTxt,       \* m_info.txt_records is empty
    Foreign,        \* types others hold records of, under our names
    Senders,        \* endpoints that send truncated (TC) queries
    StopCallers,    \* where stop() is called: "executor", "user", "destructor"
    Verdicts,       \* what on_conflict may return ({FALSE}: not installed)
    MaxUpdates,     \* bound on the calls of update_service_info()
    MaxConflicts    \* bound on the conflicting packets received while probing

ASSUME Counts == ProbeCount \in 0..255 /\ AnnounceCount \in 0..255
ASSUME Parties == FirstName \in Names /\ UpdateNames \subseteq Names
ASSUME Types == /\ Have \subseteq RR /\ "any" \notin RR /\ "nsec" \notin RR
                /\ Foreign \subseteq Have /\ EmptyTxt \in BOOLEAN
ASSUME Environment == Verdicts \subseteq BOOLEAN
ASSUME Bounds == MaxUpdates \in Nat /\ MaxConflicts \in Nat

VARIABLES
    m_stopped,       \* std::atomic<bool>
    state,           \* m_pa_state.state
    probe_count,     \* m_pa_state.probe_count, a uint8_t
    announce_count,  \* m_pa_state.announce_count, a uint8_t
    m_info,          \* the service: its name and a revision of the rest
    response_timer,  \* what m_response_timer waits for, or "off"
    tc_timer,        \* the sender m_tc_timer waits for ({}: off)
    m_pending,       \* the multicast response being delayed
    m_seen,          \* m_dup_suppression: records seen in others' responses
    m_tc_acc,        \* known answers accumulated per sender
    socket_open,     \* the receive loop runs and the socket is open
    alive,           \* the m_alive sentinel
    ready,           \* what on_ready was called with
    done,            \* on_done was called
    posted,          \* functions posted to the executor and not yet run
    busy,            \* the handler past its m_stopped test, or "none"
    stopper,         \* where the caller of stop() is
    probed,          \* history: probes of this round, by name
    advertised,      \* history: names others hold records of
    owed,            \* history: answers multicast queries still wait for
    given,           \* history: known answers each sender gave in its series
    updates,         \* calls of update_service_info() so far
    conflicts        \* conflicting packets so far

claim == <<state, probe_count, announce_count, probed, conflicts>>
answering == <<m_pending, m_seen, m_tc_acc, tc_timer, owed, given>>
calls == <<posted, stopper, updates>>
life == <<socket_open, alive, done>>

vars == <<m_stopped, m_info, response_timer, ready, busy, advertised,
          claim, answering, calls, life>>

Handlers == {"probe", "claim", "announce", "update", "respond", "reprobe"}
Mod256(n) == n % 256
Unarmed == [armed |-> FALSE, qtype |-> "none", needs_nsec |-> FALSE,
            suppression |-> {}]

-----------------------------------------------------------------------------
(***************************************************************************)
(* async_start(): open the receive loop and enter start_probing(), which   *)
(* arms m_response_timer with the random initial delay.                    *)
(***************************************************************************)
Init ==
    /\ m_stopped = FALSE
    /\ state = "probing"
    /\ probe_count = 0
    /\ announce_count = 0
    /\ m_info = [name |-> FirstName, rev |-> 0]
    /\ response_timer = "probe"
    /\ tc_timer = {}
    /\ m_pending = Unarmed
    /\ m_seen = {}
    /\ m_tc_acc = [s \in {} |-> {}]
    /\ socket_open = TRUE
    /\ alive = TRUE
    /\ ready = "pending"
    /\ done = FALSE
    /\ posted = <<>>
    /\ busy = "none"
    /\ stopper = "idle"
    /\ probed = [n \in Names |-> 0]
    /\ advertised = {}
    /\ owed = {}
    /\ given = [s \in Senders |-> {}]
    /\ updates = 0
    /\ conflicts = 0

Idle == alive /\ busy = "none"

(***************************************************************************)
(* m_response_timer expires: the handler that armed it last runs.  Each    *)
(* one returns unless the server is still in the state it waited in.       *)
(***************************************************************************)
WaitsIn(h) == CASE h \in {"probe", "claim"} -> {"probing"}
                [] h = "announce" -> {"announcing"}
                [] h \in {"update", "respond"} -> {"live"}
                [] h = "reprobe" -> {"probing", "announcing", "live", "stopped"}

FireResponseTimer ==
    /\ Idle
    /\ response_timer # "off"
    /\ response_timer' = "off"
    /\ busy' = IF ~m_stopped /\ state \in WaitsIn(response_timer)
               THEN response_timer ELSE "none"
    /\ UNCHANGED <<m_stopped, m_info, ready, advertised, claim, answering,
                   calls, life>>

\* m_socket.send() of records with a positive TTL: others may cache them.
Advertise == advertised' = IF socket_open THEN advertised \cup {m_info.name}
                           ELSE advertised

-----------------------------------------------------------------------------
(***************************************************************************)
(* Probing and announcing.                                                 *)
(***************************************************************************)
StartProbing ==
    /\ state' = "probing"
    /\ probe_count' = 0
    /\ response_timer' = "probe"
    /\ probed' = [n \in Names |-> 0]

\* Mutant: advance_probe() compares with <=.
SendProbe_OneMore ==
    /\ busy = "probe"
    /\ busy' = "none"
    /\ probe_count' = Mod256(probe_count + 1)
    /\ probed' = [probed EXCEPT ![m_info.name] = Mod256(@ + 1)]
    /\ response_timer' = IF probe_count' <= ProbeCount THEN "probe" ELSE "claim"
    /\ UNCHANGED <<m_stopped, state, announce_count, m_info, conflicts, ready,
                   advertised, answering, calls, life>>

SendProbe ==
    /\ busy = "probe"
    /\ busy' = "none"
    /\ probe_count' = Mod256(probe_count + 1)
    /\ probed' = [probed EXCEPT ![m_info.name] = Mod256(@ + 1)]
    /\ response_timer' = IF probe_count' < ProbeCount THEN "probe" ELSE "claim"
    /\ UNCHANGED <<m_stopped, state, announce_count, m_info, conflicts, ready,
                   advertised, answering, calls, life>>

\* start_announcing(), up to the test of m_stopped in send_announce().
StartAnnouncing ==
    /\ busy = "claim"
    /\ state' = "announcing"
    /\ announce_count' = 0
    /\ busy' = IF m_stopped THEN "none" ELSE "announce"
    /\ UNCHANGED <<m_stopped, probe_count, m_info, probed, conflicts,
                   response_timer, ready, advertised, answering, calls, life>>

\* Mutant: the last announcement does not make the server live.
SendAnnounce_NotLive ==
    /\ busy = "announce"
    /\ busy' = "none"
    /\ Advertise
    /\ announce_count' = Mod256(announce_count + 1)
    /\ response_timer' = IF announce_count' < AnnounceCount THEN "announce"
                         ELSE response_timer
    /\ UNCHANGED <<m_stopped, state, ready, probe_count, m_info, probed,
                   conflicts, answering, calls, life>>

SendAnnounce ==
    /\ busy = "announce"
    /\ busy' = "none"
    /\ Advertise
    /\ announce_count' = Mod256(announce_count + 1)
    /\ IF announce_count' < AnnounceCount
       THEN /\ response_timer' = "announce"
            /\ UNCHANGED <<state, ready>>
       ELSE /\ state' = "live"
            /\ ready' = IF ready = "pending" THEN "ok" ELSE ready
            /\ UNCHANGED response_timer
    /\ UNCHANGED <<m_stopped, probe_count, m_info, probed, conflicts,
                   answering, calls, life>>

SendUpdateAnnounce ==
    /\ busy = "update"
    /\ busy' = "none"
    /\ Advertise
    /\ announce_count' = Mod256(announce_count + 1)
    /\ response_timer' = IF announce_count' < AnnounceCount THEN "update"
                         ELSE response_timer
    /\ UNCHANGED <<m_stopped, state, probe_count, m_info, probed, conflicts,
                   ready, answering, calls, life>>

\* The end of probe_defer_delay.
Reprobe ==
    /\ busy = "reprobe"
    /\ busy' = "none"
    /\ StartProbing
    /\ UNCHANGED <<m_stopped, announce_count, m_info, conflicts, ready,
                   advertised, answering, calls, life>>

-----------------------------------------------------------------------------
(***************************************************************************)
(* A packet that conflicts with our name while probing: a response, or a   *)
(* probe without SRV authority data, is a "name" conflict; a probe that    *)
(* ties with or beats our SRV data is a lost "tiebreak".                   *)
(***************************************************************************)
ReceiveConflict(ct) ==
    /\ Idle
    /\ socket_open
    /\ ~m_stopped
    /\ state = "probing"
    /\ conflicts < MaxConflicts
    /\ conflicts' = conflicts + 1
    /\ busy' = ct
    /\ UNCHANGED <<m_stopped, state, probe_count, announce_count, m_info,
                   probed, response_timer, ready, advertised, answering,
                   calls, life>>

\* handle_conflict(tiebreak_deferred): the verdict of on_conflict is ignored.
DeferAndReprobe ==
    /\ busy = "tiebreak"
    /\ busy' = "none"
    /\ state' = "probing"
    /\ probe_count' = 0
    /\ response_timer' = "reprobe"
    /\ UNCHANGED <<m_stopped, announce_count, m_info, probed, conflicts, ready,
                   advertised, answering, calls, life>>

\* handle_conflict(name_conflict), on_conflict chose another name.
\* Mutant: the new name inherits the probe count of the old one.
RenameAndReprobe_KeepCount(new_name) ==
    /\ busy = "name"
    /\ busy' = "none"
    /\ TRUE \in Verdicts
    /\ m_info' = [m_info EXCEPT !.name = new_name]
    /\ probed' = [n \in Names |-> 0]
    /\ response_timer' = "probe"
    /\ UNCHANGED <<m_stopped, state, probe_count, announce_count, conflicts,
                   ready, advertised, answering, calls, life>>

RenameAndReprobe(new_name) ==
    /\ busy = "name"
    /\ busy' = "none"
    /\ TRUE \in Verdicts
    /\ m_info' = [m_info EXCEPT !.name = new_name]
    /\ StartProbing
    /\ UNCHANGED <<m_stopped, announce_count, conflicts, ready, advertised,
                   answering, calls, life>>

\* handle_conflict(name_conflict), no on_conflict or it returned false.
FailOnConflict ==
    /\ busy = "name"
    /\ busy' = "none"
    /\ FALSE \in Verdicts
    /\ response_timer' = "off"
    /\ state' = "stopped"
    /\ m_stopped' = TRUE
    /\ ready' = IF ready = "pending" THEN "conflict" ELSE ready
    /\ UNCHANGED <<probe_count, announce_count, m_info, probed, conflicts,
                   advertised, answering, calls, life>>

-----------------------------------------------------------------------------
(***************************************************************************)
(* Answering queries.  Matching(q) are the records q asks for, Answers(q)  *)
(* those build_dns_response(q) answers with: an empty TXT record is not    *)
(* among the answers to "any".                                             *)
(***************************************************************************)
Matching(q) == IF q = "any" THEN Have ELSE {q} \cap Have
Answers(q) == IF q = "any" /\ EmptyTxt THEN Have \ {"txt"} ELSE Matching(q)

\* A query with several questions of different types becomes "any".
Questions == (SUBSET RR \ {{}}) \cup {{"any"}}
Qtype(asks) == IF \E q \in asks : asks = {q} THEN CHOOSE q \in asks : TRUE
               ELSE "any"
NeedsNsec(asks) == \E q \in asks : q # "any" /\ q \notin Have

(***************************************************************************)
(* parse_known_answers() masks the type of a known answer that bears one   *)
(* of our names, without looking at its data.                              *)
(***************************************************************************)
KnownAnswers == (Have \X {TRUE}) \cup (Foreign \X {FALSE})
Mask(known) == {k[1] : k \in known}
Ours(known) == {t \in Have : <<t, TRUE>> \in known}

AllSuppressed(mask, q) == Matching(q) # {} /\ Matching(q) \subseteq mask

\* Mutant: a second query of another type does not widen the response.
Merge_FirstTypeWins(q, nsec, mask) ==
    [armed |-> TRUE,
     qtype |-> IF m_pending.armed THEN m_pending.qtype ELSE q,
     needs_nsec |-> nsec \/ (m_pending.armed /\ m_pending.needs_nsec),
     suppression |-> IF m_pending.armed THEN m_pending.suppression \cap mask
                     ELSE mask]

\* pending_response::merge()
Merge(q, nsec, mask) ==
    [armed |-> TRUE,
     qtype |-> IF m_pending.armed /\ m_pending.qtype # q THEN "any" ELSE q,
     needs_nsec |-> nsec \/ (m_pending.armed /\ m_pending.needs_nsec),
     suppression |-> IF m_pending.armed THEN m_pending.suppression \cap mask
                     ELSE mask]

\* schedule_multicast_response(): only the first query of a window arms the timer.
Schedule(q, nsec, mask) ==
    /\ m_pending' = Merge(q, nsec, mask)
    /\ response_timer' = IF m_pending.armed THEN response_timer ELSE "respond"

Listening == Idle /\ socket_open /\ ~m_stopped /\ state = "live"

(***************************************************************************)
(* A query on port 5353 whose answer is multicast.  The types it asks for, *)
(* less those of our records it lists as known, are owed from here on.     *)
(***************************************************************************)
HandleQuery(asks, known) ==
    /\ Listening
    /\ LET wanted == (UNION {Answers(q) : q \in asks}) \ Ours(known) IN
       IF AllSuppressed(Mask(known), Qtype(asks))
       THEN /\ owed' = owed \cup wanted
            /\ UNCHANGED <<m_pending, response_timer>>
       ELSE /\ owed' = owed \cup wanted
                            \cup (IF NeedsNsec(asks) THEN {"nsec"} ELSE {})
            /\ Schedule(Qtype(asks), NeedsNsec(asks), Mask(known))
    /\ UNCHANGED <<m_stopped, m_info, ready, busy, advertised, claim, m_seen,
                   m_tc_acc, tc_timer, given, calls, life>>

(***************************************************************************)
(* A query answered on the spot: a legacy or a QU query, a service type    *)
(* enumeration, a subtype query.                                           *)
(***************************************************************************)
ReceiveDirectQuery ==
    /\ Listening
    /\ busy' = "reply"
    /\ UNCHANGED <<m_stopped, m_info, response_timer, ready, advertised, claim,
                   answering, calls, life>>

Reply ==
    /\ busy = "reply"
    /\ busy' = "none"
    /\ Advertise
    /\ UNCHANGED <<m_stopped, m_info, response_timer, ready, claim, answering,
                   calls, life>>

\* observe_multicast_response(): another responder multicast our records rs.
\* Mutant: answers are observed outside the response window too.
ObserveResponse_AnyTime(rs) ==
    /\ Listening
    /\ m_seen' = m_seen \cup (rs \X {m_info})
    /\ UNCHANGED <<m_stopped, m_info, response_timer, ready, busy, advertised,
                   claim, m_pending, m_tc_acc, tc_timer, owed, given, calls,
                   life>>

ObserveResponse(rs) ==
    /\ Listening
    /\ m_pending.armed
    /\ m_seen' = m_seen \cup (rs \X {m_info})
    /\ UNCHANGED <<m_stopped, m_info, response_timer, ready, busy, advertised,
                   claim, m_pending, m_tc_acc, tc_timer, owed, given, calls,
                   life>>

\* build_combined_suppression(): only records equal to our current ones count.
Duplicates == {r \in Have : <<r, m_info>> \in m_seen}
Combined == m_pending.suppression \cup Duplicates

\* build_response_with_nsec(): the mask applies to one type, never to "any".
Response(q, nsec, mask) ==
    IF q # "any" /\ q \in mask THEN {}
    ELSE Answers(q) \cup (IF nsec /\ q # "any" THEN {"nsec"} ELSE {})

\* Mutant: m_pending.reset() is missing.
FirePendingResponse_NoReset ==
    /\ busy = "respond"
    /\ busy' = "none"
    /\ LET sent == Response(m_pending.qtype, m_pending.needs_nsec, Combined)
       IN  /\ owed' = owed \ (sent \cup Duplicates)
           /\ IF sent = {} THEN UNCHANGED advertised ELSE Advertise
    /\ m_seen' = {}
    /\ UNCHANGED <<m_stopped, m_info, response_timer, ready, claim, m_pending,
                   m_tc_acc, tc_timer, given, calls, life>>

FirePendingResponse ==
    /\ busy = "respond"
    /\ busy' = "none"
    /\ LET sent == Response(m_pending.qtype, m_pending.needs_nsec, Combined)
       IN  /\ owed' = owed \ (sent \cup Duplicates)
           /\ IF sent = {} THEN UNCHANGED advertised ELSE Advertise
    /\ m_pending' = Unarmed
    /\ m_seen' = {}
    /\ UNCHANGED <<m_stopped, m_info, response_timer, ready, claim, m_tc_acc,
                   tc_timer, given, calls, life>>

-----------------------------------------------------------------------------
(***************************************************************************)
(* Truncated queries.  The first packet of a sender opens its entry and    *)
(* arms the one m_tc_timer for it; later ones only add known answers.      *)
(***************************************************************************)
\* Mutant: the first packet of a series does not arm the timer.
HandleTcQuery_TimerNotArmed(s, known) ==
    /\ Listening
    /\ m_tc_acc' = [x \in DOMAIN m_tc_acc \cup {s} |->
                      IF x # s THEN m_tc_acc[x]
                      ELSE known \cup (IF s \in DOMAIN m_tc_acc THEN m_tc_acc[s]
                                      ELSE {})]
    /\ given' = [given EXCEPT ![s] = known]
    /\ UNCHANGED tc_timer
    /\ UNCHANGED <<m_stopped, m_info, response_timer, ready, busy, advertised,
                   claim, m_pending, m_seen, owed, calls, life>>

HandleTcQuery(s, known) ==
    /\ Listening
    /\ IF s \in DOMAIN m_tc_acc
       THEN /\ m_tc_acc' = [m_tc_acc EXCEPT ![s] = @ \cup known]
            /\ given' = [given EXCEPT ![s] = @ \cup known]
            /\ UNCHANGED tc_timer
       ELSE /\ m_tc_acc' = [x \in DOMAIN m_tc_acc \cup {s} |->
                              IF x = s THEN known ELSE m_tc_acc[x]]
            /\ given' = [given EXCEPT ![s] = known]
            /\ tc_timer' = {s}
    /\ UNCHANGED <<m_stopped, m_info, response_timer, ready, busy, advertised,
                   claim, m_pending, m_seen, owed, calls, life>>

(***************************************************************************)
(* The last packet of a series has no questions and a clear TC bit:        *)
(* on_packet() takes it for a normal query, which matches nothing.         *)
(***************************************************************************)
HandleLastOfSeries(s, known) ==
    /\ Listening
    /\ s \in DOMAIN m_tc_acc
    /\ given' = [given EXCEPT ![s] = @ \cup known]
    /\ UNCHANGED <<m_stopped, m_info, response_timer, ready, busy, advertised,
                   claim, m_pending, m_seen, m_tc_acc, tc_timer, owed, calls,
                   life>>

\* m_tc_timer expires for s: on_tc_wait_expired() answers the whole series.
OnTcWaitExpired(s) ==
    /\ Idle
    /\ s \in tc_timer
    /\ tc_timer' = {}
    /\ IF m_stopped \/ state # "live" \/ s \notin DOMAIN m_tc_acc
       THEN UNCHANGED <<m_tc_acc, owed, m_pending, response_timer>>
       ELSE /\ m_tc_acc' = [x \in DOMAIN m_tc_acc \ {s} |-> m_tc_acc[x]]
            /\ owed' = owed \cup (Answers("any") \ Ours(m_tc_acc[s]))
            /\ IF AllSuppressed(Mask(m_tc_acc[s]), "any")
               THEN UNCHANGED <<m_pending, response_timer>>
               ELSE Schedule("any", FALSE, Mask(m_tc_acc[s]))
    /\ UNCHANGED <<m_stopped, m_info, ready, busy, advertised, claim, m_seen,
                   given, calls, life>>

-----------------------------------------------------------------------------
(***************************************************************************)
(* update_service_info(): any thread posts the replacement of m_info.      *)
(***************************************************************************)
PostUpdate(name) ==
    /\ alive
    /\ ~m_stopped
    /\ updates < MaxUpdates
    /\ updates' = updates + 1
    /\ posted' = Append(posted, [fn |-> "update",
                                 info |-> [name |-> name, rev |-> updates + 1]])
    /\ UNCHANGED <<m_stopped, m_info, response_timer, ready, busy, advertised,
                   claim, answering, stopper, life>>

\* Mutant: the posted update does not test m_stopped.
RunUpdate_EvenStopped ==
    /\ Idle
    /\ posted # <<>> /\ Head(posted).fn = "update"
    /\ posted' = Tail(posted)
    /\ m_info' = Head(posted).info
    /\ announce_count' = 0
    /\ busy' = IF state = "live" THEN "update" ELSE "none"
    /\ UNCHANGED <<m_stopped, state, probe_count, probed, conflicts,
                   response_timer, ready, advertised, answering, stopper,
                   updates, life>>

\* The posted function, up to the tests at the top of send_update_announce().
RunUpdate ==
    /\ Idle
    /\ posted # <<>> /\ Head(posted).fn = "update"
    /\ posted' = Tail(posted)
    /\ IF m_stopped
       THEN UNCHANGED <<m_info, announce_count, busy>>
       ELSE /\ m_info' = Head(posted).info
            /\ announce_count' = 0
            /\ busy' = IF state = "live" THEN "update" ELSE "none"
    /\ UNCHANGED <<m_stopped, state, probe_count, probed, conflicts,
                   response_timer, ready, advertised, answering, stopper,
                   updates, life>>

(***************************************************************************)
(* stop(): exchange m_stopped, send the goodbye, post the teardown.  On    *)
(* the executor nothing comes between the three; a user thread runs them   *)
(* while handlers run.                                                     *)
(***************************************************************************)
PostTeardown == posted' = Append(posted, [fn |-> "teardown"])

\* send_goodbye_if_needed()
Goodbye == advertised' = IF state \in {"live", "announcing"} /\ socket_open
                         THEN advertised \ {m_info.name} ELSE advertised

\* Mutant: stop() sends no goodbye.
StopOnExecutor_NoGoodbye ==
    /\ "executor" \in StopCallers
    /\ Idle
    /\ stopper = "idle"
    /\ stopper' = "returned"
    /\ IF m_stopped
       THEN UNCHANGED <<m_stopped, posted>>
       ELSE m_stopped' = TRUE /\ PostTeardown
    /\ UNCHANGED <<m_info, response_timer, ready, busy, advertised, claim,
                   answering, updates, life>>

StopOnExecutor ==
    /\ "executor" \in StopCallers
    /\ Idle
    /\ stopper = "idle"
    /\ stopper' = "returned"
    /\ IF m_stopped
       THEN UNCHANGED <<m_stopped, advertised, posted>>
       ELSE m_stopped' = TRUE /\ Goodbye /\ PostTeardown
    /\ UNCHANGED <<m_info, response_timer, ready, busy, claim, answering,
                   updates, life>>

StopExchange ==
    /\ "user" \in StopCallers
    /\ alive
    /\ stopper = "idle"
    /\ stopper' = IF m_stopped THEN "returned" ELSE "exchanged"
    /\ m_stopped' = TRUE
    /\ UNCHANGED <<m_info, response_timer, ready, busy, advertised, claim,
                   answering, posted, updates, life>>

StopGoodbye ==
    /\ stopper = "exchanged"
    /\ stopper' = "said_goodbye"
    /\ Goodbye
    /\ UNCHANGED <<m_stopped, m_info, response_timer, ready, busy, claim,
                   answering, posted, updates, life>>

StopPost ==
    /\ stopper = "said_goodbye"
    /\ stopper' = "returned"
    /\ PostTeardown
    /\ UNCHANGED <<m_stopped, m_info, response_timer, ready, busy, advertised,
                   claim, answering, updates, life>>

\* Mutant: a pending on_ready is not cancelled.
RunTeardown_ReadyDropped ==
    /\ Idle
    /\ posted # <<>> /\ Head(posted).fn = "teardown"
    /\ posted' = Tail(posted)
    /\ state' = "stopped"
    /\ m_pending' = [m_pending EXCEPT !.armed = FALSE]
    /\ response_timer' = "off"
    /\ tc_timer' = {}
    /\ m_tc_acc' = [s \in {} |-> {}]
    /\ socket_open' = FALSE
    /\ done' = TRUE
    /\ UNCHANGED <<m_stopped, m_info, busy, ready, advertised, probe_count,
                   announce_count, probed, conflicts, m_seen, owed, given,
                   stopper, updates, alive>>

\* Mutant: the posted teardown returns because m_stopped is set.
RunTeardown_IfRunning ==
    /\ Idle
    /\ posted # <<>> /\ Head(posted).fn = "teardown"
    /\ posted' = Tail(posted)
    /\ UNCHANGED <<m_stopped, m_info, response_timer, ready, busy, advertised,
                   claim, answering, stopper, updates, life>>

\* The posted teardown.
RunTeardown ==
    /\ Idle
    /\ posted # <<>> /\ Head(posted).fn = "teardown"
    /\ posted' = Tail(posted)
    /\ ready' = IF ready = "pending" /\ state \in {"probing", "announcing"}
                THEN "canceled" ELSE ready
    /\ state' = "stopped"
    /\ m_pending' = [m_pending EXCEPT !.armed = FALSE]
    /\ response_timer' = "off"
    /\ tc_timer' = {}
    /\ m_tc_acc' = [s \in {} |-> {}]
    /\ socket_open' = FALSE
    /\ done' = TRUE
    /\ UNCHANGED <<m_stopped, m_info, busy, advertised, probe_count,
                   announce_count, probed, conflicts, m_seen, owed, given,
                   stopper, updates, alive>>

(***************************************************************************)
(* ~basic_service_server(), on the executor: m_alive is reset, the receive *)
(* loop closes the socket, stop() runs, the members are destroyed.         *)
(***************************************************************************)
Destroy ==
    /\ "destructor" \in StopCallers
    /\ Idle
    /\ stopper \in {"idle", "returned"}
    /\ alive' = FALSE
    /\ socket_open' = FALSE
    /\ response_timer' = "off"
    /\ tc_timer' = {}
    /\ m_stopped' = TRUE
    /\ IF m_stopped THEN UNCHANGED posted ELSE PostTeardown
    /\ UNCHANGED <<m_info, ready, busy, advertised, claim, m_pending, m_seen,
                   m_tc_acc, owed, given, stopper, updates, done>>

\* A function posted before the destructor: guard.lock() fails.
RunOrphan ==
    /\ ~alive
    /\ posted # <<>>
    /\ posted' = Tail(posted)
    /\ UNCHANGED <<m_stopped, m_info, response_timer, ready, busy, advertised,
                   claim, answering, stopper, updates, life>>

-----------------------------------------------------------------------------
Packets ==
    \/ \E ct \in {"name", "tiebreak"} : ReceiveConflict(ct)
    \/ \E asks \in Questions, known \in SUBSET KnownAnswers : HandleQuery(asks, known)
    \/ ReceiveDirectQuery
    \/ \E rs \in SUBSET Have : ObserveResponse(rs)
    \/ \E s \in Senders, known \in SUBSET KnownAnswers :
         HandleTcQuery(s, known) \/ HandleLastOfSeries(s, known)

Act ==
    \/ SendProbe \/ StartAnnouncing \/ SendAnnounce \/ SendUpdateAnnounce
    \/ Reprobe \/ DeferAndReprobe \/ FailOnConflict \/ Reply
    \/ FirePendingResponse
    \/ \E n \in Names : RenameAndReprobe(n)

FireTcTimer == \E s \in Senders : OnTcWaitExpired(s)

RunPosted == RunUpdate \/ RunTeardown \/ RunOrphan

Callers ==
    \/ \E n \in UpdateNames : PostUpdate(n)
    \/ StopOnExecutor \/ StopExchange \/ Destroy

StopSteps == StopGoodbye \/ StopPost

Next == Packets \/ Act \/ FireResponseTimer \/ FireTcTimer \/ RunPosted
        \/ Callers \/ StopSteps

Spec == Init /\ [][Next]_vars

(***************************************************************************)
(* Handlers return and a thread inside stop() goes on.  An iteration of    *)
(* the event loop receives at most once per socket and then runs every     *)
(* expired timer and every posted function, so a stream of packets starves *)
(* neither: strong fairness.  Packets and callers are not fair.            *)
(***************************************************************************)
Fairness ==
    /\ WF_vars(Act) /\ WF_vars(StopSteps)
    /\ SF_vars(FireResponseTimer) /\ SF_vars(FireTcTimer) /\ SF_vars(RunPosted)

FairSpec == Spec /\ Fairness

-----------------------------------------------------------------------------
(***************************************************************************)
(* The server keeps the promise of ServiceLife when stop() runs on the     *)
(* executor and updates keep the name: the goodbye of stop() withdraws     *)
(* every name for good, and on_ready and on_done fire once, in order.      *)
(***************************************************************************)
SL == INSTANCE ServiceLife WITH closed <- m_stopped
ImplementsServiceLife == SL!Spec

AtLeastOne(n) == IF n = 0 THEN 1 ELSE n

Infos == [name : Names, rev : 0..MaxUpdates]
Pendings == [armed : BOOLEAN, qtype : RR \cup {"any", "none"}, needs_nsec : BOOLEAN,
             suppression : SUBSET Have]
Posts == [fn : {"teardown"}] \cup [fn : {"update"}, info : Infos]

(***************************************************************************)
(* Types.  The probe and announcement counters never pass the configured   *)
(* counts (a count of 0 still sends one packet), so the uint8_t counters   *)
(* never wrap.                                                             *)
(***************************************************************************)
TypeOK ==
    /\ m_stopped \in BOOLEAN
    /\ state \in {"probing", "announcing", "live", "stopped"}
    /\ probe_count \in 0..AtLeastOne(ProbeCount)
    /\ announce_count \in 0..AtLeastOne(AnnounceCount)
    /\ m_info \in Infos
    /\ response_timer \in Handlers \cup {"off"}
    /\ tc_timer \in SUBSET Senders
    /\ m_pending \in Pendings
    /\ m_seen \subseteq Have \X Infos
    /\ DOMAIN m_tc_acc \subseteq Senders
    /\ \A s \in DOMAIN m_tc_acc : m_tc_acc[s] \subseteq KnownAnswers
    /\ socket_open \in BOOLEAN /\ alive \in BOOLEAN /\ done \in BOOLEAN
    /\ ready \in {"pending", "ok", "conflict", "canceled"}
    /\ posted \in Seq(Posts)
    /\ busy \in Handlers \cup {"none", "name", "tiebreak", "reply"}
    /\ stopper \in {"idle", "exchanged", "said_goodbye", "returned"}
    /\ probed \in [Names -> 0..255]
    /\ advertised \subseteq Names
    /\ owed \subseteq RR \cup {"nsec"}
    /\ given \in [Senders -> SUBSET KnownAnswers]
    /\ updates \in 0..MaxUpdates
    /\ conflicts \in 0..MaxConflicts

(***************************************************************************)
(* A name is announced and answered for only after ProbeCount probes for   *)
(* that very name since the last conflict, whatever renames, deferrals and *)
(* updates came between (probing.md: the server probes before claiming).   *)
(***************************************************************************)
ProbedBeforeClaim ==
    state \in {"announcing", "live"} => probed[m_info.name] >= ProbeCount

(***************************************************************************)
(* When on_done has fired, or the server is destroyed, no name it ever     *)
(* advertised is left in others' caches: the goodbye came last.            *)
(***************************************************************************)
Withdrawn == done \/ ~alive => advertised = {}

(***************************************************************************)
(* Outside a response window no record is owed to anybody: whatever        *)
(* queries were merged into one delayed response, it carried every record  *)
(* they asked for and did not know, or another responder multicast it      *)
(* during the window (section 6 aggregation, 7.1 and 7.4 suppression).     *)
(***************************************************************************)
AnswersOwed == ~m_pending.armed /\ ~m_stopped => owed \subseteq {"nsec"}

(***************************************************************************)
(* The same for negative answers: when the server responds to a query that *)
(* asks for a type the host lacks, the response carries the NSEC record,   *)
(* also when the query is a combined one (negative-responses.md).          *)
(***************************************************************************)
NegativeAnswered == ~m_pending.armed /\ ~m_stopped => "nsec" \notin owed

(***************************************************************************)
(* Duplicate answers are remembered for one response window only.          *)
(***************************************************************************)
SeenInWindowOnly == m_seen # {} => m_pending.armed \/ m_stopped

(***************************************************************************)
(* Once on_done has fired nothing of the server is left: no wait on either *)
(* timer, no accumulated query, no pending response, no open socket, and   *)
(* on_ready has fired before it.                                           *)
(***************************************************************************)
NothingAfterDone ==
    done => /\ response_timer = "off" /\ tc_timer = {} /\ busy = "none"
            /\ DOMAIN m_tc_acc = {} /\ ~m_pending.armed /\ ~socket_open
            /\ ready # "pending"

\* A server keeps its types and, once on_done has fired (the teardown that stop()
\* posts), has no timer, response, series, socket or on_ready left to act on.
CleanEnd ==
    /\ TypeOK
    /\ NothingAfterDone

(***************************************************************************)
(* The accumulated known answers of a sender are all those it gave in its  *)
(* series (tc-handling.md: continuation packets are appended).             *)
(***************************************************************************)
SeriesComplete == \A s \in DOMAIN m_tc_acc : m_tc_acc[s] = given[s]

(***************************************************************************)
(* probe_count 0 sends no probe (service_options.h).                       *)
(***************************************************************************)
ZeroSkipsProbing == ProbeCount = 0 => \A n \in Names : probed[n] = 0

(***************************************************************************)
(* A scheduled multicast response is sent, unless the server stops.        *)
(***************************************************************************)
ResponsesSent == m_pending.armed ~> (~m_pending.armed \/ m_stopped)

(***************************************************************************)
(* Every sender's truncated query is processed, unless the server stops.   *)
(***************************************************************************)
SeriesAnswered ==
    \A s \in Senders :
      (s \in DOMAIN m_tc_acc) ~> (s \notin DOMAIN m_tc_acc \/ m_stopped)

(***************************************************************************)
(* Once stop() was called, on_done fires (or the server is destroyed).     *)
(***************************************************************************)
StopCompletes == (stopper # "idle") ~> (done \/ ~alive)

(***************************************************************************)
(* on_ready fires: with success, with a conflict or because of stop().     *)
(***************************************************************************)
ReadyFires == <>(ready # "pending" \/ ~alive)

(***************************************************************************)
(* An update of a live server is announced announce_count times.           *)
(***************************************************************************)
UpdateAnnounced ==
    (state = "live" /\ announce_count < AnnounceCount)
      ~> (announce_count >= AnnounceCount \/ m_stopped)

=============================================================================
