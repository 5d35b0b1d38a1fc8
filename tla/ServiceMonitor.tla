---------------------------- MODULE ServiceMonitor ----------------------------
(***************************************************************************)
(* basic_service_monitor: watches service types, puts instances together   *)
(* from PTR, SRV, address and TXT records, and reports them found, updated *)
(* and lost.                                                               *)
(*                                                                         *)
(* Everything but the posting of work runs on the executor's thread, one   *)
(* handler after the other; the only handler that is cut into steps is the *)
(* scheduler tick, whose expired records are handled one by one.  A packet *)
(* of several records is handled as that many packets of one record.       *)
(*                                                                         *)
(* Times are relative to the present: the cache is RecordCache with its    *)
(* clock at 0, and Elapse moves every time one unit into the past.         *)
(***************************************************************************)
EXTENDS Integers, FiniteSets, Sequences, FiniteSetsExt

CONSTANTS
    Records,          \* what the link may carry: [rtype, name, data, ttl, flush]
    Origins,          \* who sends
    GoodbyeGrace,     \* cache_options::goodbye_grace
    Modes,            \* the monitor_mode values considered
    SweepInterval,    \* the one second of arm_scheduler()
    InitialInterval,  \* mdns_options::initial_interval
    Multiplier,       \* mdns_options::backoff_multiplier
    MaxInterval,      \* mdns_options::max_interval
    Thresholds,       \* mdns_options::ttl_refresh_thresholds, in percent
    JitterPct,        \* mdns_options::refresh_jitter_pct, in percent
    KaPct,            \* mdns_options::ka_suppression_fraction, in percent
    PerPacket,        \* known answers that fit max_query_payload
    TcDelay,          \* mdns_options::tc_continuation_delay
    Watched,          \* the types watched before async_start()
    Ops,              \* the calls users make after it: [op, arg]
    MaxCalls,         \* bound on those calls
    MaxPackets        \* bound, for each mode, on the relevant records received

ASSUME MonitorTimes ==
    /\ \A r \in Records : r.ttl \in Nat
    /\ GoodbyeGrace \in Nat /\ TcDelay \in Nat
    /\ SweepInterval \in Nat \ {0} /\ InitialInterval \in Nat \ {0}
    /\ Multiplier \in Nat \ {0} /\ MaxInterval \in Nat \ {0}
ASSUME MonitorShares ==
    /\ Thresholds \in Seq(Nat) /\ JitterPct \in Nat /\ KaPct \in Nat
    /\ PerPacket \in Nat \ {0}
ASSUME MonitorBounds == MaxCalls \in Nat /\ MaxPackets \in [Modes -> Nat]

VARIABLES
    m_cache,              \* the entries of the record_cache
    mode,                 \* m_opts.mode
    m_watches,            \* watched type |-> query_backoff_state
    m_partial,            \* instance |-> incomplete_instance
    m_live_services,      \* instance |-> resolved_service
    m_instance_type,      \* instance |-> type of the PTR that introduced it
    m_known_hostnames,
    m_goodbye_instances,
    m_refresh_schedules,  \* instance |-> the fire points not yet consumed
    m_services_snapshot,  \* what services() returns
    m_scheduler_timer,    \* time left, or None
    m_tc_send_timer,      \* the packets still to send and the time left, or Idle
    loop,                 \* m_loop: "none", "running" or "stopped"
    m_stopped,
    m_alive,
    posts,                \* the posted lambdas, in order
    expiring,             \* the rest of handle_expired()'s vector
    sweeping,             \* on_scheduler_tick() is in erase_expired()
    calls,                \* history: the callbacks of the latest step
    done,                 \* history: how often on_done was called
    called,               \* how many calls were made
    received              \* how many relevant records were received

cacheVars == <<m_watches, m_partial, m_live_services, m_instance_type, m_known_hostnames,
               m_goodbye_instances, m_services_snapshot>>
runVars == <<loop, m_stopped, m_alive, posts, done, called>>
sweepVars == <<expiring, sweeping>>
vars == <<m_cache, mode, cacheVars, m_refresh_schedules, m_scheduler_timer, m_tc_send_timer,
          runVars, sweepVars, calls, received>>

None == -1
Idle == [type |-> None, rest |-> 0, left |-> None]
Names == {r.name : r \in Records}
Types == {r.name : r \in {q \in Records : q.rtype = "ptr"}}
Instances == {r.data : r \in {q \in Records : q.rtype = "ptr"}}
Keys == {<<r.name, r.rtype>> : r \in Records}
Data == {r.data : r \in Records}
TTLs == {r.ttl : r \in Records}

Cache == INSTANCE RecordCache
           WITH m_entries <- m_cache, now <- 0, inserts <- 0, heard <- <<>>, flushes <- {},
                MaxTime <- 0, MaxInserts <- 0

\* A map with an entry set, and with entries erased.
With(f, x, v) == [y \in DOMAIN f \cup {x} |-> IF y = x THEN v ELSE f[y]]
Without(f, S) == [y \in DOMAIN f \ S |-> f[y]]
Override(f, g) == [y \in DOMAIN f \cup DOMAIN g |-> IF y \in DOMAIN g THEN g[y] ELSE f[y]]

NoService == [hostname |-> None, port |-> None, addrs |-> {}, txt |-> <<>>]
Tracked == DOMAIN m_partial \cup DOMAIN m_live_services

Init ==
    /\ m_cache = {} /\ mode \in Modes
    /\ m_watches = [t \in Watched |-> [first |-> TRUE, current |-> 0]]
    /\ m_partial = <<>> /\ m_live_services = <<>>
    /\ m_instance_type = <<>> /\ m_known_hostnames = {} /\ m_goodbye_instances = {}
    /\ m_refresh_schedules = <<>> /\ m_services_snapshot = <<>>
    /\ m_scheduler_timer = None /\ m_tc_send_timer = Idle
    /\ loop = "none" /\ m_stopped = FALSE /\ m_alive = TRUE /\ posts = <<>>
    /\ expiring = {} /\ sweeping = FALSE
    /\ calls = {} /\ done = 0 /\ called = 0 /\ received = 0

-----------------------------------------------------------------------------
(***************************************************************************)
(* Scheduling.                                                             *)
(***************************************************************************)
\* advance_backoff(), and the peek at it in arm_scheduler().
NextInterval(b) ==
    IF b.first THEN InitialInterval
    ELSE IF b.current * Multiplier < MaxInterval THEN b.current * Multiplier ELSE MaxInterval

AdvanceBackoff(b) == [first |-> FALSE, current |-> NextInterval(b)]

\* make_refresh_schedule(): each threshold gets a jitter of its own.
FirePoints(ttl) ==
    {s \in [DOMAIN Thresholds -> 0..(2 * ttl)] :
       \A k \in DOMAIN Thresholds :
         s[k] \in (ttl * Thresholds[k]) \div 100 .. (ttl * (Thresholds[k] + JitterPct)) \div 100}

\* rebuild_refresh_schedule(), called only for ttl > 0.
RebuildRefreshSchedule(i, ttl) ==
    IF ttl = 0 \/ mode = "observe" \/ Thresholds = <<>> THEN UNCHANGED m_refresh_schedules
    ELSE \E s \in FirePoints(ttl) : m_refresh_schedules' = With(m_refresh_schedules, i, s)

\* arm_scheduler(): the delays it takes the minimum of.  One second is used
\* only if there is no other.
Delays(W, R) ==
    (IF mode = "discover" THEN {NextInterval(W[t]) : t \in DOMAIN W} ELSE {})
    \cup (IF mode = "observe" THEN {}
          ELSE {R[i][1] : i \in {j \in DOMAIN R : R[j] # <<>>}})

\* Mutant: without an event the timer is not armed.
ArmScheduler_NoFloor(W, R) ==
    m_scheduler_timer' = IF Delays(W, R) = {} THEN None ELSE Min(Delays(W, R))

ArmScheduler(W, R) ==
    m_scheduler_timer' = IF Delays(W, R) = {} THEN SweepInterval ELSE Min(Delays(W, R))

(***************************************************************************)
(* send_ptr_query(): PTR records with enough time left are listed as known *)
(* answers, over as many packets as they need; the first goes out at once. *)
(***************************************************************************)
KnownAnswers(t) ==
    {e \in m_cache : e.key = <<t, "ptr">> /\ 100 * (e.inserted_at + e.wire_ttl) > KaPct * e.wire_ttl}

Packets(t) ==
    LET n == Cardinality(KnownAnswers(t)) IN IF n = 0 THEN 1 ELSE (n + PerPacket - 1) \div PerPacket

\* Queries for the types T are sent in any order.  A query in several packets takes the
\* one timer there is for them, whoever waits on it.
SendPtrQueries(T) ==
    LET split == {t \in T : Packets(t) > 1}
    IN  IF m_stopped \/ TcDelay = 0 \/ split = {} THEN UNCHANGED m_tc_send_timer
        ELSE \E t \in split :
               m_tc_send_timer' = [type |-> t, rest |-> Packets(t) - 1, left |-> TcDelay]

-----------------------------------------------------------------------------
(***************************************************************************)
(* handle_packet(): a relevant record is put into the cache, then          *)
(* processed.  The others are dropped, which changes nothing.              *)
(***************************************************************************)
IsRelevant(r) ==
    \/ r.rtype = "ptr" /\ r.name \in DOMAIN m_watches
    \/ r.rtype \in {"srv", "txt"} /\ r.name \in Tracked
    \/ r.rtype \in {"a", "aaaa"} /\ r.name \in m_known_hostnames

Accept(r, o) ==
    /\ loop = "running" /\ m_alive /\ ~sweeping
    /\ received < MaxPackets[mode]
    /\ IsRelevant(r)
    /\ \E S \in Cache!Stored(<<r.name, r.rtype>>, r.data, o, r.ttl, r.flush) :
         m_cache' = IF r.flush THEN Cache!Flush(S, <<r.name, r.rtype>>, o) ELSE S
    /\ received' = received + 1
    /\ UNCHANGED <<mode, runVars, sweepVars, m_scheduler_timer, m_tc_send_timer>>

Found(i, s) == [cb |-> "found", inst |-> i, svc |-> s, why |-> "resolved"]
Updated(i, s, ev) == [cb |-> "updated", inst |-> i, svc |-> s, why |-> ev]
Lost(i, s, reason) == [cb |-> "lost", inst |-> i, svc |-> s, why |-> reason]

\* Mutant: the list is taken before the change.
UpdateSnapshot_Before(changed) ==
    m_services_snapshot' = IF changed THEN m_live_services ELSE m_services_snapshot

\* Mutant: an empty list is not published.
UpdateSnapshot_NotEmpty(changed) ==
    m_services_snapshot' = IF changed /\ m_live_services' # <<>> THEN m_live_services'
                           ELSE m_services_snapshot

\* update_snapshot() after a change of m_live_services; the time-to-live fields it adds
\* are left out.
UpdateSnapshot(changed) ==
    m_services_snapshot' = IF changed THEN m_live_services' ELSE m_services_snapshot

\* check_resolved() for the instances I of the partial instances P, with L the live ones.
Resolved(P, I) == {i \in I \cap DOMAIN P : P[i].has_srv /\ P[i].has_address}

\* Mutant: the partial instance stays when it is promoted.
CheckResolved_KeepPartial(P, I, L) ==
    /\ m_partial' = P
    /\ m_live_services' = Override([i \in Resolved(P, I) |-> P[i].svc], L)

CheckResolved(P, I, L) ==
    /\ m_partial' = Without(P, Resolved(P, I))
    /\ m_live_services' = Override([i \in Resolved(P, I) |-> P[i].svc], L)

\* process_ptr()
ProcessPtr(r, o) ==
    /\ r.rtype = "ptr"
    /\ Accept(r, o)
    /\ IF r.data \in Tracked
       THEN UNCHANGED <<m_partial, m_instance_type>>
       ELSE /\ m_partial' = With(m_partial, r.data,
                 [service_type |-> r.name, has_srv |-> FALSE, has_address |-> FALSE,
                  svc |-> NoService])
            /\ m_instance_type' = With(m_instance_type, r.data, r.name)
    /\ calls' = {}
    /\ UNCHANGED <<m_watches, m_live_services, m_known_hostnames, m_goodbye_instances,
                   m_services_snapshot, m_refresh_schedules>>

\* process_srv(): a goodbye is marked and then processed like any other record.
ProcessSrv(r, o) ==
    LET i == r.name
        Set(s) == [s EXCEPT !.hostname = r.data.host, !.port = r.data.port]
    IN
    /\ r.rtype = "srv"
    /\ Accept(r, o)
    /\ m_goodbye_instances' = m_goodbye_instances \cup (IF r.ttl = 0 THEN {i} ELSE {})
    /\ RebuildRefreshSchedule(i, r.ttl)
    /\ \/ /\ i \in DOMAIN m_partial
          /\ LET P == [m_partial EXCEPT ![i].has_srv = TRUE, ![i].svc = Set(@)]
             IN  /\ CheckResolved(P, {i}, m_live_services)
                 /\ UpdateSnapshot(Resolved(P, {i}) # {})
                 /\ calls' = {Found(j, P[j].svc) : j \in Resolved(P, {i})}
          /\ m_known_hostnames' = m_known_hostnames \cup {r.data.host}
       \/ /\ i \notin DOMAIN m_partial
          /\ LET s == Set(m_live_services[i])
             IN  IF s = m_live_services[i]
                 THEN /\ calls' = {}
                      /\ UNCHANGED <<m_live_services, m_known_hostnames, m_services_snapshot>>
                 ELSE /\ m_live_services' = [m_live_services EXCEPT ![i] = s]
                      /\ m_known_hostnames' = m_known_hostnames \cup {r.data.host}
                      /\ UpdateSnapshot(TRUE)
                      /\ calls' = {Updated(i, s, "added")}
          /\ UNCHANGED m_partial
    /\ UNCHANGED <<m_watches, m_instance_type>>

\* process_address_record(): partial instances first, then live services.
ProcessAddress(r, o) ==
    LET addr == <<r.rtype, r.data>>
        Gets(s) == s.hostname = r.name /\ addr \notin s.addrs
        new == {i \in DOMAIN m_partial : Gets(m_partial[i].svc)}
        P == [i \in DOMAIN m_partial |->
                IF i \in new THEN [m_partial[i] EXCEPT !.has_address = TRUE,
                                                       !.svc.addrs = @ \cup {addr}]
                ELSE m_partial[i]]
        check == IF new = {} THEN {} ELSE {i \in DOMAIN P : P[i].svc.hostname = r.name}
        upd == {i \in DOMAIN m_live_services : Gets(m_live_services[i])}
        L == [i \in DOMAIN m_live_services |->
                IF i \in upd THEN [m_live_services[i] EXCEPT !.addrs = @ \cup {addr}]
                ELSE m_live_services[i]]
    IN
    /\ r.rtype \in {"a", "aaaa"}
    /\ Accept(r, o)
    /\ CheckResolved(P, check, L)
    /\ UpdateSnapshot(Resolved(P, check) \cup upd # {})
    /\ calls' = {Found(i, P[i].svc) : i \in Resolved(P, check)}
                \cup {Updated(i, L[i], "added") : i \in upd}
    /\ UNCHANGED <<m_watches, m_instance_type, m_known_hostnames, m_goodbye_instances,
                   m_refresh_schedules>>

\* process_txt() and merge_txt(): the last value of a key wins.
ProcessTxt(r, o) ==
    LET i == r.name IN
    /\ r.rtype = "txt"
    /\ Accept(r, o)
    /\ \/ /\ i \in DOMAIN m_partial
          /\ m_partial' = [m_partial EXCEPT ![i].svc.txt = Override(@, r.data)]
          /\ calls' = {}
          /\ UNCHANGED <<m_live_services, m_services_snapshot>>
       \/ /\ i \notin DOMAIN m_partial
          /\ m_live_services' = [m_live_services EXCEPT ![i].txt = Override(@, r.data)]
          /\ UpdateSnapshot(m_live_services' # m_live_services)
          /\ calls' = IF m_live_services' = m_live_services THEN {}
                      ELSE {Updated(i, m_live_services'[i], "added")}
          /\ UNCHANGED m_partial
    /\ UNCHANGED <<m_watches, m_instance_type, m_known_hostnames, m_goodbye_instances,
                   m_refresh_schedules>>

Receive ==
    \E r \in Records, o \in Origins :
      \/ ProcessPtr(r, o)
      \/ ProcessSrv(r, o)
      \/ ProcessAddress(r, o)
      \/ ProcessTxt(r, o)

-----------------------------------------------------------------------------
(***************************************************************************)
(* on_scheduler_tick(): erase_expired() takes the expired entries out of   *)
(* the cache, its callback handles them, then the queries go out and the   *)
(* timer is armed again.                                                   *)
(***************************************************************************)
Tick ==
    /\ m_scheduler_timer = 0 /\ m_alive /\ ~sweeping
    /\ m_scheduler_timer' = None
    /\ IF m_stopped THEN UNCHANGED <<m_cache, sweepVars>>
       ELSE /\ expiring' = {e \in m_cache : Cache!IsExpired(e)}
            /\ m_cache' = m_cache \ expiring'
            /\ sweeping' = TRUE
    /\ calls' = {}
    /\ UNCHANGED <<mode, cacheVars, m_refresh_schedules, m_tc_send_timer, runVars, received>>

\* handle_expired_srv(): whatever its data, an expired SRV record ends its instance.
\* Mutant: nothing is erased for an instance that is not live.
PartialEnded_LiveOnly(i) == {i} \cap DOMAIN m_live_services

PartialEnded(i) == {i}

HandleExpiredSrv(e) ==
    LET i == e.key[1] IN
    /\ m_partial' = Without(m_partial, PartialEnded(i))
    /\ m_goodbye_instances' = m_goodbye_instances \ {i}
    /\ m_live_services' = Without(m_live_services, {i})
    /\ UpdateSnapshot(i \in DOMAIN m_live_services)
    /\ calls' = IF i \notin DOMAIN m_live_services THEN {}
                ELSE {Lost(i, m_live_services[i],
                           IF i \in m_goodbye_instances THEN "goodbye" ELSE "timeout")}

\* handle_expired_address(): live services only.
HandleExpiredAddress(e) ==
    LET addr == <<e.key[2], e.data>>
        upd == {i \in DOMAIN m_live_services :
                  m_live_services[i].hostname = e.key[1] /\ addr \in m_live_services[i].addrs}
    IN
    /\ m_live_services' = [i \in DOMAIN m_live_services |->
                             IF i \in upd THEN [m_live_services[i] EXCEPT !.addrs = @ \ {addr}]
                             ELSE m_live_services[i]]
    /\ UpdateSnapshot(upd # {})
    /\ calls' = {Updated(i, m_live_services'[i], "removed") : i \in upd}
    /\ UNCHANGED <<m_partial, m_goodbye_instances>>

\* handle_expired_txt(): keys are erased whatever their value is now.
HandleExpiredTxt(e) ==
    LET i == e.key[1]
        upd == {j \in DOMAIN m_live_services :
                  j = i /\ DOMAIN m_live_services[j].txt \cap DOMAIN e.data # {}}
    IN
    /\ m_live_services' = [j \in DOMAIN m_live_services |->
                             IF j \in upd THEN [m_live_services[j] EXCEPT
                                                  !.txt = Without(@, DOMAIN e.data)]
                             ELSE m_live_services[j]]
    /\ UpdateSnapshot(upd # {})
    /\ calls' = {Updated(j, m_live_services'[j], "removed") : j \in upd}
    /\ UNCHANGED <<m_partial, m_goodbye_instances>>

HandleExpired(e) ==
    /\ expiring' = expiring \ {e}
    /\ \/ e.key[2] = "srv" /\ HandleExpiredSrv(e)
       \/ e.key[2] \in {"a", "aaaa"} /\ HandleExpiredAddress(e)
       \/ e.key[2] = "txt" /\ HandleExpiredTxt(e)
       \/ /\ e.key[2] = "ptr"
          /\ calls' = {}
          /\ UNCHANGED <<m_partial, m_goodbye_instances, m_live_services, m_services_snapshot>>
    /\ UNCHANGED <<m_cache, mode, m_watches, m_instance_type, m_known_hostnames,
                   m_refresh_schedules, m_scheduler_timer, m_tc_send_timer, runVars, sweeping,
                   received>>

\* The fire points that are due leave the schedule from its front.
Undue(s) ==
    LET n == Max({k \in 0..Len(s) : \A j \in 1..k : s[j] <= 0}) IN SubSeq(s, n + 1, Len(s))

FinishTick ==
    /\ sweeping /\ expiring = {}
    /\ sweeping' = FALSE
    /\ m_watches' = IF mode # "discover" THEN m_watches
                    ELSE [t \in DOMAIN m_watches |-> AdvanceBackoff(m_watches[t])]
    /\ IF mode = "discover" THEN SendPtrQueries(DOMAIN m_watches) ELSE UNCHANGED m_tc_send_timer
    /\ m_refresh_schedules' = [i \in DOMAIN m_refresh_schedules |-> Undue(m_refresh_schedules[i])]
    /\ ArmScheduler(m_watches', m_refresh_schedules')
    /\ calls' = {}
    /\ UNCHANGED <<m_cache, mode, m_partial, m_live_services, m_instance_type, m_known_hostnames,
                   m_goodbye_instances, m_services_snapshot, runVars, expiring, received>>

\* send_tc_packets() from the timer: the next packet, and the timer again if there are more.
TcTimerFires ==
    /\ m_tc_send_timer.left = 0 /\ m_alive /\ ~sweeping
    /\ m_tc_send_timer' = IF m_stopped \/ m_tc_send_timer.rest = 1 THEN Idle
                          ELSE [m_tc_send_timer EXCEPT !.rest = @ - 1, !.left = TcDelay]
    /\ calls' = {}
    /\ UNCHANGED <<m_cache, mode, cacheVars, m_refresh_schedules, m_scheduler_timer, runVars,
                   sweepVars, received>>

Sweep == sweeping /\ ((\E e \in expiring : HandleExpired(e)) \/ FinishTick)

-----------------------------------------------------------------------------
(***************************************************************************)
(* The user's calls.  async_start() runs on the executor's thread; the     *)
(* others may come from any thread, at any moment, and post their work.    *)
(***************************************************************************)
AsyncStart ==
    /\ loop = "none" /\ ~m_stopped /\ m_alive
    /\ loop' = "running"
    /\ ArmScheduler(m_watches, m_refresh_schedules)
    /\ calls' = {}
    /\ UNCHANGED <<m_cache, mode, cacheVars, m_refresh_schedules, m_tc_send_timer, m_stopped,
                   m_alive, posts, done, called, sweepVars, received>>

\* watch(), unwatch(), query_service_type(), query_service_instance()
Call(op) ==
    /\ m_alive /\ called < MaxCalls
    /\ called' = called + 1
    /\ posts' = Append(posts, op)
    /\ calls' = {}
    /\ UNCHANGED <<m_cache, mode, cacheVars, m_refresh_schedules, m_scheduler_timer,
                   m_tc_send_timer, loop, m_stopped, m_alive, done, sweepVars, received>>

\* stop(): the first call posts the teardown.
Stop ==
    /\ m_alive /\ ~m_stopped
    /\ m_stopped' = TRUE
    /\ posts' = Append(posts, [op |-> "teardown", arg |-> None])
    /\ calls' = {}
    /\ UNCHANGED <<m_cache, mode, cacheVars, m_refresh_schedules, m_scheduler_timer,
                   m_tc_send_timer, loop, m_alive, done, called, sweepVars, received>>

\* The destructor, between two handlers: timers and socket go, posted work finds the weak
\* pointer empty.
Destroy ==
    /\ m_alive /\ ~sweeping
    /\ m_stopped' = TRUE /\ m_alive' = FALSE
    /\ m_scheduler_timer' = None /\ m_tc_send_timer' = Idle
    /\ m_cache' = {} /\ m_watches' = <<>> /\ m_partial' = <<>> /\ m_live_services' = <<>>
    /\ m_instance_type' = <<>> /\ m_known_hostnames' = {} /\ m_goodbye_instances' = {}
    /\ m_refresh_schedules' = <<>>
    /\ calls' = {}
    /\ UNCHANGED <<mode, m_services_snapshot, loop, posts, done, called, sweepVars, received>>

\* Mutant: expires_after() drops the pending wait and no new one is started.
DoWatch_NoWait(t) ==
    /\ m_watches' = IF t \in DOMAIN m_watches THEN m_watches
                    ELSE With(m_watches, t, [first |-> TRUE, current |-> 0])
    /\ m_scheduler_timer' = None

\* do_watch()
DoWatch(t) ==
    /\ m_watches' = IF t \in DOMAIN m_watches THEN m_watches
                    ELSE With(m_watches, t, [first |-> TRUE, current |-> 0])
    /\ IF loop # "none" THEN ArmScheduler(m_watches', m_refresh_schedules)
       ELSE UNCHANGED m_scheduler_timer

(***************************************************************************)
(* do_unwatch(): the live services of the type are reported lost; partial  *)
(* instances, types of instances and hostnames nobody else uses are        *)
(* forgotten.  All goodbye marks go, cache and refresh schedules stay.     *)
(***************************************************************************)
HostsOf(P, L) ==
    ({P[i].svc.hostname : i \in DOMAIN P} \cup {L[i].hostname : i \in DOMAIN L}) \ {None}

\* Mutant: hostnames of partial instances are forgotten.
KnownHostnames_LiveOnly(P, L) == HostsOf(<<>>, L)

KnownHostnames(P, L) == HostsOf(P, L)

\* Mutant: partial instances of the type stay.
PartialOfType_None(t) == {}

PartialOfType(t) == {i \in DOMAIN m_partial : m_partial[i].service_type = t}

DoUnwatch(t) ==
    LET gone == {i \in DOMAIN m_live_services \cap DOMAIN m_instance_type : m_instance_type[i] = t}
    IN
    /\ m_live_services' = Without(m_live_services, gone)
    /\ m_partial' = Without(m_partial, PartialOfType(t))
    /\ m_instance_type' = Without(m_instance_type,
                                  {i \in DOMAIN m_instance_type : m_instance_type[i] = t})
    /\ m_known_hostnames' = KnownHostnames(m_partial', m_live_services')
    /\ m_watches' = Without(m_watches, {t})
    /\ m_goodbye_instances' = {}
    /\ UpdateSnapshot(TRUE)
    /\ calls' = {Lost(i, m_live_services[i], "unwatched") : i \in gone}

\* The teardown of stop()
Teardown ==
    /\ m_scheduler_timer' = None /\ m_tc_send_timer' = Idle
    /\ loop' = IF loop = "none" THEN "none" ELSE "stopped"
    /\ done' = IF loop = "none" THEN done ELSE done + 1

\* What a posted lambda does, if the monitor is still there.
Run(op) ==
    \/ /\ op.op = "watch" /\ DoWatch(op.arg)
       /\ calls' = {}
       /\ UNCHANGED <<m_partial, m_live_services, m_instance_type, m_known_hostnames,
                      m_goodbye_instances, m_services_snapshot, m_tc_send_timer, loop, done>>
    \/ /\ op.op = "unwatch" /\ op.arg \in DOMAIN m_watches /\ DoUnwatch(op.arg)
       /\ UNCHANGED <<m_scheduler_timer, m_tc_send_timer, loop, done>>
    \/ /\ op.op = "query_service_type" /\ SendPtrQueries({op.arg})
       /\ calls' = {}
       /\ UNCHANGED <<cacheVars, m_scheduler_timer, loop, done>>
    \/ /\ \/ op.op = "unwatch" /\ op.arg \notin DOMAIN m_watches
          \/ op.op = "query_service_instance"
       /\ calls' = {}
       /\ UNCHANGED <<cacheVars, m_scheduler_timer, m_tc_send_timer, loop, done>>
    \/ /\ op.op = "teardown" /\ Teardown
       /\ calls' = {}
       /\ UNCHANGED cacheVars

\* Mutant: posted work is skipped once stop() was called.
GuardLocks_NotStopped == m_alive /\ ~m_stopped

\* guard.lock()
GuardLocks == m_alive

RunPost ==
    /\ posts # <<>> /\ ~sweeping
    /\ posts' = Tail(posts)
    /\ IF GuardLocks THEN Run(Head(posts))
       ELSE /\ calls' = {}
            /\ UNCHANGED <<cacheVars, m_scheduler_timer, m_tc_send_timer, loop, done>>
    /\ UNCHANGED <<m_cache, mode, m_refresh_schedules, m_stopped, m_alive, called, sweepVars,
                   received>>

\* One unit of time passes.  What is expired or due stays so.  Time counts only while the
\* monitor runs.
Down(n) == IF n > 0 THEN n - 1 ELSE n
Elapse ==
    /\ m_alive /\ (loop = "running" \/ m_scheduler_timer # None)
    /\ m_cache' = {[e EXCEPT !.inserted_at = IF @ + e.wire_ttl > 0 THEN @ - 1 ELSE @,
                             !.flush_deadline = Down(@)] : e \in m_cache}
    /\ m_refresh_schedules' = [i \in DOMAIN m_refresh_schedules |->
                                 [k \in DOMAIN m_refresh_schedules[i] |->
                                    Down(m_refresh_schedules[i][k])]]
    /\ m_scheduler_timer' = Down(m_scheduler_timer)
    /\ m_tc_send_timer' = [m_tc_send_timer EXCEPT !.left = Down(@)]
    /\ calls' = {}
    /\ UNCHANGED <<mode, cacheVars, runVars, sweepVars, received>>

Next ==
    \/ AsyncStart
    \/ \E op \in Ops : Call(op)
    \/ Stop
    \/ Destroy
    \/ RunPost
    \/ Receive
    \/ Tick
    \/ Sweep
    \/ TcTimerFires
    \/ Elapse

(***************************************************************************)
(* Fairness: the loop runs posted work and due timers in every round,      *)
(* finishes the handlers it starts, and time passes.                       *)
(***************************************************************************)
Fairness ==
    /\ SF_vars(RunPost) /\ SF_vars(Tick) /\ SF_vars(TcTimerFires)
    /\ WF_vars(Sweep) /\ WF_vars(Elapse)

Spec == Init /\ [][Next]_vars /\ Fairness

-----------------------------------------------------------------------------
Hosts == {r.data.host : r \in {q \in Records : q.rtype = "srv"}}
IsService(s) ==
    /\ s.hostname \in Hosts \cup {None}
    /\ s.addrs \subseteq {"a", "aaaa"} \X Data
    /\ s.txt # <<>> => \E r \in Records : r.rtype = "txt" /\ DOMAIN r.data \cap DOMAIN s.txt # {}

(***************************************************************************)
(* Types; no instance is partial and live at once, and only a tick has     *)
(* expired entries in hand.                                                *)
(***************************************************************************)
TypeOK ==
    /\ mode \in Modes
    /\ DOMAIN m_partial \cap DOMAIN m_live_services = {}
    /\ DOMAIN m_watches \subseteq Types
    /\ Tracked \subseteq Instances
    /\ \A i \in DOMAIN m_partial : IsService(m_partial[i].svc)
    /\ \A i \in DOMAIN m_live_services : IsService(m_live_services[i])
    /\ m_known_hostnames \subseteq Hosts
    /\ m_scheduler_timer \in Nat \cup {None}
    /\ loop \in {"none", "running", "stopped"}
    /\ sweeping \/ expiring = {}

(***************************************************************************)
(* The user's view: what the callbacks told is what services() returns,    *)
(* each service found before it is updated or lost.                        *)
(***************************************************************************)
Feed == INSTANCE ServiceFeed WITH known <- m_services_snapshot
UserView == Feed!Spec

(***************************************************************************)
(* Between two handlers services() is the list of live services.           *)
(***************************************************************************)
SnapshotIsLive == m_alive => m_services_snapshot = m_live_services

(***************************************************************************)
(* Every instance with an SRV record, live or partial, has one in the      *)
(* cache or among the entries being expired: it is the expiry of that      *)
(* record that ends the instance, so none can outlive its records.         *)
(***************************************************************************)
SrvOf(i) == {e \in m_cache \cup expiring : e.key = <<i, "srv">>}

Anchored ==
    \A i \in Tracked :
      i \in DOMAIN m_live_services \/ m_partial[i].has_srv => SrvOf(i) # {}

(***************************************************************************)
(* Every tracked instance belongs to a watched type, the one unwatch()     *)
(* looks it up by, however often types are unwatched and watched again     *)
(* and whichever types point to the same instance.                         *)
(***************************************************************************)
TrackedIsWatched ==
    \A i \in Tracked :
      /\ i \in DOMAIN m_instance_type
      /\ m_instance_type[i] \in DOMAIN m_watches
      /\ i \in DOMAIN m_partial => m_partial[i].service_type = m_instance_type[i]

(***************************************************************************)
(* The host of a tracked instance is known, so that its addresses are      *)
(* accepted, also after another type on the same host was unwatched.       *)
(***************************************************************************)
HostsKnown == HostsOf(m_partial, m_live_services) \subseteq m_known_hostnames

(***************************************************************************)
(* While the monitor runs its scheduler is armed or in a tick, and never   *)
(* further ahead than the longest backoff interval or time to live: each   *)
(* tick, watch() and packet leaves the loop of expires_after() and         *)
(* async_wait() closed.                                                    *)
(***************************************************************************)
Horizon == Max(TTLs \cup {MaxInterval, InitialInterval, SweepInterval})

SchedulerArmed ==
    loop = "running" /\ ~m_stopped => sweeping \/ m_scheduler_timer \in 0..Horizon

\* The members of a monitor agree after every handler: the maps of partial and live
\* services with each other, with the cache, the watches, the host names and the
\* published vector, and the scheduler timer with what has still to expire.
MembersAgree ==
    /\ TypeOK
    /\ SnapshotIsLive
    /\ Anchored
    /\ TrackedIsWatched
    /\ HostsKnown
    /\ SchedulerArmed

(***************************************************************************)
(* A service whose records are not announced again is reported lost,       *)
(* unless the monitor is stopped.                                          *)
(***************************************************************************)
LossReported ==
    \A i \in Instances :
      i \in DOMAIN m_live_services ~> i \notin DOMAIN m_live_services \/ m_stopped

(***************************************************************************)
(* In discover mode a watched type is queried, unless it is unwatched or   *)
(* the monitor stopped first.                                              *)
(***************************************************************************)
WatchedIsQueried ==
    \A t \in Types :
      t \in DOMAIN m_watches /\ mode = "discover" /\ loop = "running"
        ~> t \notin DOMAIN m_watches \/ ~m_watches[t].first \/ m_stopped

(***************************************************************************)
(* on_done is called once for a started monitor that is stopped, unless    *)
(* the monitor is destroyed before the teardown runs.                      *)
(***************************************************************************)
StopCompletes == m_stopped /\ loop # "none" ~> done = 1 \/ ~m_alive

-----------------------------------------------------------------------------
(***************************************************************************)
(* What the comments and documents say.                                    *)
(***************************************************************************)
\* monitor_options.h: timeout means the SRV record expired without a refresh.
LostWhenSrvExpired ==
    [][\A c \in calls' : c.cb = "lost" /\ c.why = "timeout" =>
         \A e \in m_cache : e.key = <<c.inst, "srv">> => Cache!IsExpired(e)]_vars

\* basic_service_monitor.h: unwatch() purges the cache entries of the services it reports.
UnwatchPurges ==
    [][\A c \in calls' : c.why = "unwatched" =>
         \A e \in m_cache' : e.key[1] # c.inst]_vars

\* basic_service_monitor.h: the sweep for expired records is at most one second away.
SweepScheduled ==
    loop = "running" /\ ~m_stopped => sweeping \/ m_scheduler_timer <= SweepInterval

=============================================================================
