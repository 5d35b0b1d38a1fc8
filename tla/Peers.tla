-------------------------------- MODULE Peers --------------------------------
(***************************************************************************)
(* basic_querier, basic_observer and basic_service_discovery on one        *)
(* DefaultContext: each owns a socket and timers of the context, and runs  *)
(* its operations through recv_loop, which ends one when no relevant       *)
(* packet came for the silence timeout.                                    *)
(*                                                                         *)
(* Users call stop() from any thread.  The application starts operations   *)
(* and destroys peers on the executor's thread, in work it has posted,     *)
(* because both touch the tables of the context.  The records that an      *)
(* operation collects are left out: nothing it does depends on them.       *)
(***************************************************************************)
EXTENDS PollContext

CONSTANTS
    Kind,             \* peer |-> "querier", "observer" or "discovery"
    Wanted,           \* the operations that users start
    Modes,            \* the response_mode values used
    Packets,          \* what arrives: [ttl, question, answer, types]
    UnknownTtl,       \* mdns_options::unknown_ttl_policy
    Silence,          \* query_options::silence_timeout
    InfiniteSilence,  \* the 365 days of an observer
    Delays,           \* the response_delay_min .. response_delay_max drawn from
    Lateness,         \* bound on how late the loop serves a timer
    HandlersIn,       \* where the completion handlers destroy other peers
    MaxPackets        \* bound on the datagrams that arrive

OpsOf(k) == CASE k = "querier" -> {"query"}
              [] k = "observer" -> {"observe"}
              [] k = "discovery" -> {"discover", "browse", "enumerate"}

Operations == {o \in Peers \X {"query", "observe", "discover", "browse", "enumerate"} :
                 o[2] \in OpsOf(Kind[o[1]])}

ASSUME PeerKinds == /\ Kind \in [Peers -> {"querier", "observer", "discovery"}]
                    /\ Wanted \subseteq Operations /\ Modes \subseteq {"multicast", "unicast"}
                    /\ UnknownTtl \in {"accept", "reject"} /\ HandlersIn \subseteq {"work", "timers"}
ASSUME PeerTimes == /\ Silence \in Nat \ {0} /\ InfiniteSilence \in Nat \ {0}
                    /\ Delays \subseteq Nat /\ Lateness \in Nat /\ MaxPackets \in Nat

VARIABLES
    m_work_queue,  \* the peers whose teardown is posted, in order
    local,         \* the rest of drain_work_queue()'s local deque
    m_stopped,     \* peer |-> stop() was called
    alive,         \* peer |-> it is not destroyed
    loop,          \* operation |-> its recv_loop: "none", "running" or "stopped"
    receiver,      \* peer |-> the operation whose handler async_receive() was given
    handler,       \* operation |-> its completion handler is set
    calls,         \* history: how often the completion handler was called
    mode,          \* m_query_mode of each querier
    m_query_sent,
    m_duplicate_seen,
    calling,       \* the peer whose completion handler is running, or Nobody
    arrived        \* how many datagrams arrived

ops == <<loop, receiver, handler, calls>>
query == <<mode, m_query_sent, m_duplicate_seen>>
work == <<m_work_queue, local>>
users == <<m_stopped, arrived>>
vars == <<tables, pollVars, phase, inbox, fault, work, users, alive, ops, query, calling>>

Nobody == "nobody"

Peer(o) == o[1]
Recv(p) == <<p, "recv">>
Delay(p) == <<p, "delay">>
Of(p) == {o \in Operations : Peer(o) = p}
Running(p) == {o \in Of(p) : loop[o] = "running"}
Set(f, S, v) == [x \in DOMAIN f |-> IF x \in S THEN v ELSE f[x]]

Init ==
    /\ ContextInit
    /\ m_work_queue = <<>> /\ local = <<>>
    /\ m_stopped = [p \in Peers |-> FALSE] /\ alive = [p \in Peers |-> TRUE]
    /\ loop = [o \in Operations |-> "none"] /\ receiver = [p \in Peers |-> NoWait]
    /\ handler = [o \in Operations |-> FALSE] /\ calls = [o \in Operations |-> 0]
    /\ mode = [p \in Peers |-> "multicast"]
    /\ m_query_sent = [p \in Peers |-> FALSE] /\ m_duplicate_seen = [p \in Peers |-> FALSE]
    /\ calling = Nobody /\ arrived = 0

-----------------------------------------------------------------------------
(***************************************************************************)
(* recv_loop.                                                              *)
(***************************************************************************)
SilenceOf(o) == IF o[2] = "observe" THEN InfiniteSilence ELSE Silence

\* Mutant: async_wait() is forgotten.
ArmSilenceTimer_NoWait(T, o) == [T EXCEPT ![Recv(Peer(o))] = Off]

\* expires_after() drops the handler that waits; async_wait() sets this one.
ArmSilenceTimer(T, o) == [T EXCEPT ![Recv(Peer(o))] = [wait |-> o, left |-> SilenceOf(o)]]

Cancel(C) ==
    /\ m_timers' = EraseIf(m_timers, C)
    /\ timer' = Set(timer, C, Off)

\* stop() of the running recv_loops S of peer p, and of the timers C: a loop's timer and
\* socket are its peer's, whichever loop armed them.  A cancelled handler returns at once.
LoopStop(S, p, C) ==
    /\ loop' = Set(loop, S, "stopped")
    /\ Cancel(IF S = {} THEN C ELSE C \cup {Recv(p)})
    /\ IF S = {} THEN UNCHANGED <<m_sockets, open>> ELSE Close(p)

\* Mutant: the handler is called but not taken.
Complete_Again(S) ==
    /\ calls' = [o \in Operations |-> IF o \in S /\ handler[o] THEN calls[o] + 1 ELSE calls[o]]
    /\ UNCHANGED handler

\* std::exchange(m_on_completion, nullptr), and the call.
Complete(S) ==
    /\ calls' = [o \in Operations |-> IF o \in S /\ handler[o] THEN calls[o] + 1 ELSE calls[o]]
    /\ handler' = Set(handler, S, FALSE)

Calls(p, S) == calling' = IF \E o \in S : handler[o] THEN p ELSE Nobody

-----------------------------------------------------------------------------
(***************************************************************************)
(* What users call.                                                        *)
(***************************************************************************)
Post(p) == m_work_queue' = Append(m_work_queue, p)

\* stop(), from any thread: the first call posts the teardown.
Stop(p) ==
    /\ alive[p] /\ ~m_stopped[p]
    /\ m_stopped' = [m_stopped EXCEPT ![p] = TRUE] /\ Post(p)
    /\ UNCHANGED <<tables, pollVars, phase, inbox, fault, local, arrived, alive, ops, query,
                   calling>>

-----------------------------------------------------------------------------
(***************************************************************************)
(* Posted work.                                                            *)
(***************************************************************************)
\* drain_work_queue(): the queue is swapped out, and its calls are run one by one.
DrainWorkQueue ==
    /\ phase = "wakeup" /\ phase' = "work"
    /\ local' = m_work_queue /\ m_work_queue' = <<>>
    /\ UNCHANGED <<tables, pollVars, inbox, fault, users, alive, ops, query, calling>>

Working == phase = "work" /\ calling = Nobody /\ UNCHANGED <<phase, pollVars, inbox, fault>>

WorkDone ==
    /\ phase = "work" /\ calling = Nobody /\ local = <<>> /\ phase' = "dispatch"
    /\ UNCHANGED <<tables, pollVars, inbox, fault, work, users, alive, ops, query, calling>>

\* A QM query waits for a random delay, a QU query goes out at once.
Delayed(o, m) == o[2] = "query" /\ m = "multicast"

\* init_query_state(), and the query that is not delayed.
InitQueryState(o, m) ==
    LET p == Peer(o)
    IN  /\ mode' = [mode EXCEPT ![p] = m]
        /\ m_query_sent' = [m_query_sent EXCEPT ![p] = o[2] = "query" /\ ~Delayed(o, m)]
        /\ m_duplicate_seen' = [m_duplicate_seen EXCEPT ![p] = FALSE]

\* start() of a new recv_loop: the receive handler, and the silence timer.
StartLoop(o) ==
    /\ loop' = [loop EXCEPT ![o] = "running"]
    /\ receiver' = [receiver EXCEPT ![Peer(o)] = o]
    /\ m_sockets' = RegisterSocket(m_sockets, Fd(Peer(o)), Peer(o))

\* do_query(), do_observe(), do_enumerate().  The application calls each once; that QU
\* may also be asked for in a discovery makes no difference here.
StartOperation(o, m, d) ==
    LET p == Peer(o)
        silence == RegisterTimer(m_timers, Recv(p))
        armed == ArmSilenceTimer(timer, o)
    IN  /\ Working /\ alive[p] /\ loop[o] = "none" /\ (o[2] = "query" \/ m = "multicast")
        /\ handler' = [handler EXCEPT ![o] = TRUE]
        /\ InitQueryState(o, m) /\ StartLoop(o)
        /\ IF Delayed(o, m)
           THEN /\ m_timers' = RegisterTimer(silence, Delay(p))
                /\ timer' = [armed EXCEPT ![Delay(p)] = [wait |-> o, left |-> d]]
           ELSE m_timers' = silence /\ timer' = armed
        /\ UNCHANGED <<work, users, alive, open, calls, calling>>

\* Mutant: the delayed query is left to its timer.
Waits_Silence(p) == {}

\* The timers of a peer that stop() cancels besides that of a running loop.
Waits(p) == IF Kind[p] = "querier" THEN {Delay(p)} ELSE {}

\* Mutant: nothing is done for a peer that was told to stop.
GuardLocks_NotStopped(p) == alive[p] /\ ~m_stopped[p]

\* weak_ptr::lock() of m_alive.
GuardLocks(p) == alive[p]

\* The teardown that stop() posted, for a peer that still exists.
RunTeardown ==
    LET p == Head(local)
        started == {o \in Of(p) : loop[o] # "none"}
    IN  /\ Working /\ local # <<>> /\ local' = Tail(local)
        /\ IF GuardLocks(p)
           THEN /\ LoopStop(Running(p), p, Waits(p))
                /\ Complete(started) /\ Calls(p, started)
           ELSE UNCHANGED <<tables, loop, handler, calls, calling>>
        /\ UNCHANGED <<m_work_queue, users, alive, receiver, query>>

\* The destructor: m_alive first, then stop(), then the members with their loops,
\* timers and socket.  Completion handlers are destroyed uncalled.
Destroy(p) ==
    /\ alive[p] /\ alive' = [alive EXCEPT ![p] = FALSE]
    /\ m_stopped' = [m_stopped EXCEPT ![p] = TRUE]
    /\ IF m_stopped[p] THEN UNCHANGED m_work_queue ELSE Post(p)
    /\ loop' = Set(loop, Running(p), "stopped") /\ handler' = Set(handler, Of(p), FALSE)
    /\ Cancel({Recv(p), Delay(p)}) /\ Close(p)
    /\ UNCHANGED <<local, arrived, receiver, calls, query>>

AppDestroys(p) == Working /\ Destroy(p) /\ UNCHANGED calling

\* A completion handler destroys another peer, or does nothing, and returns.
HandlerDestroys(p) ==
    /\ calling # Nobody /\ calling' = Nobody
    /\ phase \in HandlersIn /\ p # calling /\ Destroy(p)
    /\ UNCHANGED <<phase, pollVars, inbox, fault>>

HandlerReturns ==
    /\ calling # Nobody /\ calling' = Nobody
    /\ UNCHANGED <<tables, pollVars, phase, inbox, fault, work, users, alive, ops, query>>

-----------------------------------------------------------------------------
(***************************************************************************)
(* Packets.                                                                *)
(***************************************************************************)
Arrive(p, k) ==
    /\ open[p] /\ arrived < MaxPackets /\ arrived' = arrived + 1
    /\ inbox' = [inbox EXCEPT ![p] = Append(@, k)]
    /\ UNCHANGED <<tables, pollVars, phase, fault, work, m_stopped, alive, ops, query, calling>>

\* The test of the received TTL in arm_receive().
TtlAccepted(k) == k.ttl = "enough" \/ (k.ttl = "unknown" /\ UnknownTtl = "accept")

\* check_duplicate_question()
IsDuplicate(p, k) == k.question /\ ~m_query_sent[p] /\ mode[p] = "multicast"

\* process_response_packet(), which a stopped querier does not reach.
Answered(p, k) == k.answer /\ ~m_stopped[p]

\* What the on_packet handler of each peer returns.
IsRelevant(o, k) ==
    CASE o[2] = "query" -> Answered(Peer(o), k)
      [] o[2] = "observe" -> TRUE
      [] o[2] \in {"discover", "browse"} -> k.answer
      [] o[2] = "enumerate" -> k.types

\* The handler of arm_receive(): it is given up if its loop has stopped, and armed
\* again after each packet.
ReceivePacket(p) ==
    LET o == receiver[p]
        k == Head(inbox[p])
        heard == loop[o] = "running" /\ TtlAccepted(k)
        suppressed == heard /\ o[2] = "query" /\ ~m_stopped[p] /\ IsDuplicate(p, k)
        kept == IF suppressed THEN DeregisterTimer(m_timers, Delay(p)) ELSE m_timers
        cancelled == IF suppressed THEN [timer EXCEPT ![Delay(p)] = Off] ELSE timer
        rearmed == heard /\ IsRelevant(o, k)
    IN  /\ Receives(p) /\ calling = Nobody
        /\ timer' = IF rearmed THEN ArmSilenceTimer(cancelled, o) ELSE cancelled
        /\ m_timers' = IF rearmed THEN RegisterTimer(kept, Recv(p)) ELSE kept
        /\ m_sockets' = IF loop[o] = "running" THEN RegisterSocket(m_sockets, Fd(p), p)
                        ELSE m_sockets
        /\ m_duplicate_seen' = [m_duplicate_seen EXCEPT ![p] = @ \/ suppressed]
        /\ UNCHANGED <<open, work, users, alive, ops, mode, m_query_sent, calling>>

-----------------------------------------------------------------------------
(***************************************************************************)
(* Timers.                                                                 *)
(***************************************************************************)
Due(t) == HasPending(t) /\ timer[t].left <= 0
FiresNext == phase = "timers" /\ calling = Nobody /\ firing # <<>> /\ firing' = Tail(firing)

\* fire_if_expired() of a timer that is not due.  It is a fault to reach one whose
\* owner is gone: the copy of m_timers holds bare pointers.
SkipTimer ==
    /\ FiresNext /\ ~Due(Head(firing))
    /\ fault' = (fault \/ ~alive[Owner(Head(firing))])
    /\ UNCHANGED <<tables, m_pollfds, timeout, at, phase, inbox, work, users, alive, ops, query,
                   calling>>

\* The silence timer of a running loop: the operation completes.  An observer's
\* on_silence does nothing, and its timer is not armed again.
SilenceFires ==
    LET t == Head(firing)
        o == timer[t].wait
    IN  /\ FiresNext /\ Due(t) /\ t[2] = "recv"
        /\ IF o[2] = "observe"
           THEN /\ timer' = [timer EXCEPT ![t] = Off]
                /\ UNCHANGED <<m_sockets, m_timers, open, loop, handler, calls, calling>>
           ELSE /\ LoopStop({o}, Peer(o), {t})
                /\ Complete({o}) /\ Calls(Peer(o), {o})
        /\ UNCHANGED <<m_pollfds, timeout, at, phase, inbox, fault, work, users, alive, receiver,
                       query>>

\* Mutant: the test is the wrong way round.
Sends_IfDuplicate(p) == m_duplicate_seen[p]

Sends(p) == ~m_duplicate_seen[p]

\* The delayed QM query goes out, unless somebody else has asked.
DelayFires ==
    LET t == Head(firing)
        p == Owner(t)
    IN  /\ FiresNext /\ Due(t) /\ t[2] = "delay"
        /\ timer' = [timer EXCEPT ![t] = Off]
        /\ m_query_sent' = [m_query_sent EXCEPT ![p] = @ \/ Sends(p)]
        /\ UNCHANGED <<m_sockets, m_timers, open, m_pollfds, timeout, at, phase, inbox, fault,
                       work, users, alive, ops, mode, m_duplicate_seen, calling>>

\* A unit of time passes, while the loop is in poll: a slow handler shows as a poll that
\* returns late.  The loop serves no timer more than Lateness late.
Elapse ==
    /\ phase = "blocked"
    /\ \A t \in Timers : HasPending(t) => timer[t].left > -Lateness
    /\ \E t \in Timers : HasPending(t)
    /\ timer' = [t \in Timers |-> IF HasPending(t) THEN [timer[t] EXCEPT !.left = @ - 1]
                                  ELSE timer[t]]
    /\ timeout' = IF timeout > 0 THEN timeout - 1 ELSE timeout
    /\ UNCHANGED <<m_sockets, m_timers, open, m_pollfds, at, firing, phase, inbox, fault, work,
                   users, alive, ops, query, calling>>

-----------------------------------------------------------------------------
\* Either a teardown is posted, or the application has posted work of its own.
Polls ==
    /\ \E posted \in {m_work_queue # <<>>, TRUE} : PollReturns(posted)
    /\ UNCHANGED <<work, users, alive, ops, query, calling>>

Iterate ==
    /\ DoPoll \/ Interrupted \/ SkipReceive \/ StartFiring \/ EndIteration
    /\ calling = Nobody /\ UNCHANGED <<work, users, alive, ops, query, calling>>

LoopStep ==
    \/ DrainWorkQueue \/ RunTeardown \/ WorkDone \/ HandlerReturns
    \/ \E p \in Peers : ReceivePacket(p)
    \/ SkipTimer \/ SilenceFires \/ DelayFires

Application ==
    \/ \E o \in Wanted, m \in Modes, d \in Delays : StartOperation(o, m, d)
    \/ \E p \in Peers : AppDestroys(p) \/ HandlerDestroys(p)
    \/ \E p \in Peers : Stop(p)

Arrives == \E p \in Peers, k \in Packets : Arrive(p, k)

Next == Polls \/ Iterate \/ LoopStep \/ Application \/ Arrives \/ Elapse

Spec == Init /\ [][Next]_vars

\* The loop's thread runs, poll is not interrupted for ever, and time passes.
FairSpec ==
    Spec /\ WF_vars(Iterate) /\ WF_vars(LoopStep) /\ SF_vars(Polls) /\ SF_vars(Elapse)

-----------------------------------------------------------------------------
(***************************************************************************)
(* Properties.                                                             *)
(***************************************************************************)
Status(o) ==
    IF loop[o] = "none" THEN "idle"
    ELSE CASE calls[o] = 1 /\ ~handler[o] -> "completed"
           [] calls[o] = 0 /\ handler[o] -> "pending"
           [] calls[o] = 0 /\ ~handler[o] -> "abandoned"
           [] OTHER -> "called_again"

SocketEntries == [fd : Peers \cup {Closed}, owner : Peers]
PollFds == [fd : Peers \cup {Closed}, ready : BOOLEAN]
TimerStates == [wait : Operations \cup {NoWait}, left : Int]

\* The types, and every timer that is waited on is registered with the context.
TypeOK ==
    /\ m_sockets \in Seq(SocketEntries) /\ open \in [Peers -> BOOLEAN]
    /\ m_timers \in Seq(Timers) /\ firing \in Seq(Timers) /\ timer \in [Timers -> TimerStates]
    /\ \A t \in Timers : timer[t].left >= -Lateness /\ (HasPending(t) => t \in Range(m_timers))
    /\ phase \in {"top", "blocked", "wakeup", "work", "dispatch", "timers"}
    /\ m_pollfds \in Seq(PollFds) /\ at \in 0..Len(m_pollfds) + 1
    /\ timeout \in Nat \cup {Forever} /\ inbox \in [Peers -> Seq(Packets)] /\ fault \in BOOLEAN
    /\ m_work_queue \in Seq(Peers) /\ local \in Seq(Peers) /\ arrived \in 0..MaxPackets
    /\ m_stopped \in [Peers -> BOOLEAN] /\ alive \in [Peers -> BOOLEAN]
    /\ loop \in [Operations -> {"none", "running", "stopped"}]
    /\ receiver \in [Peers -> Operations \cup {NoWait}]
    /\ handler \in [Operations -> BOOLEAN] /\ calls \in [Operations -> Nat]
    /\ mode \in [Peers -> {"multicast", "unicast"}] /\ calling \in Peers \cup {Nobody}
    /\ m_query_sent \in [Peers -> BOOLEAN] /\ m_duplicate_seen \in [Peers -> BOOLEAN]

Shots == INSTANCE OneShot WITH status <- [o \in Operations |-> Status(o)]

\* Every operation is started once and its completion handler called once, whatever
\* the order of the silence timer, stop(), and the destruction of the peer.
CompletesOnce == Shots!Spec

\* dispatch_receives() never looks up an entry that work or an earlier handler has
\* removed, and fire_expired_timers() never reaches a timer that was destroyed.
NoFault == ~fault

\* While an operation is pending its handler gets the peer's packets and, for all but
\* an observer, its silence timer is running: it will end without stop().
ArmedWhilePending ==
    \A o \in Operations : Status(o) = "pending" =>
      /\ receiver[Peer(o)] = o /\ \E i \in DOMAIN m_sockets : m_sockets[i].fd = Peer(o)
      /\ o[2] = "observe" \/ (timer[Recv(Peer(o))].wait = o /\ Recv(Peer(o)) \in Range(m_timers))

\* A peer whose operation has ended leaves nothing behind in the context: no entry
\* for its socket, and no timer that is waited on.
QuietAfterwards ==
    \A o \in Operations : Status(o) \in {"completed", "abandoned"} =>
      /\ \A i \in DOMAIN m_sockets : m_sockets[i].owner # Peer(o)
      /\ \A t \in Timers : Owner(t) = Peer(o) => ~HasPending(t)

\* The tables of the context hold what the operations need and nothing else: their
\* receive handlers and timers while they are pending, none of them afterwards.
TablesAgree ==
    /\ TypeOK
    /\ ArmedWhilePending
    /\ QuietAfterwards

\* run() sleeps until the earliest deadline: not longer, and not for ever while a
\* timer is waited on; and it does not spin when there is nothing to wait for.
WakesForTimers ==
    phase = "blocked" =>
      LET left == {timer[t].left : t \in {u \in Range(m_timers) : HasPending(u)}}
      IN  IF left = {} THEN timeout = Forever
          ELSE LET first == CHOOSE n \in left : \A m \in left : n <= m
               IN  timeout = IF first > 0 THEN first ELSE 0

\* A query that ended in silence was asked, by this querier or by another one: the
\* delay of RFC 6762 section 5.2 ends before the silence timeout.
AskedBeforeSilence ==
    \A o \in Operations : o[2] = "query" /\ Status(o) = "completed" /\ ~m_stopped[Peer(o)] =>
      m_query_sent[Peer(o)] \/ m_duplicate_seen[Peer(o)]

\* No query goes out for an operation that has ended.
SentWhilePending ==
    \A p \in Peers : m_query_sent'[p] /\ ~m_query_sent[p] =>
      Status(<<p, "query">>)' = "pending"

\* The delayed query goes out in its time (start_multicast_query() beside the silence
\* timer): before the operation ends in silence, and never after its end.
QueriesInTime == [][AskedBeforeSilence' /\ SentWhilePending]_vars

\* stop() ends what is pending: its completion handler is called, or the peer is
\* destroyed before the posted teardown runs.
StopCompletes ==
    \A o \in Operations :
      (Peer(o) \in Range(m_work_queue) \cup Range(local) /\ Status(o) = "pending")
        ~> Status(o) # "pending"

\* A peer that was told to stop does not stay pending, whether stop() came before or
\* after the start of the operation.
StoppedEnds ==
    \A o \in Operations :
      (m_stopped[Peer(o)] /\ Status(o) = "pending") ~> Status(o) # "pending"

\* Queries and discoveries end by themselves once the packets stop.
SilenceCompletes ==
    \A o \in Operations : o[2] # "observe" => (Status(o) = "pending" ~> Status(o) # "pending")

\* A datagram for a pending operation is handled, even if its pollfd was skipped
\* because the table had shifted under dispatch_receives().
PacketsHandled ==
    \A o \in Operations : (Status(o) = "pending" /\ inbox[Peer(o)] # <<>>)
                            ~> (Status(o) # "pending" \/ inbox[Peer(o)] = <<>>)


=============================================================================
