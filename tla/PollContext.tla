----------------------------- MODULE PollContext -----------------------------
(***************************************************************************)
(* The tables of DefaultContext that its sockets and timers are kept in,   *)
(* and how one iteration of run() goes through them: compute the time to   *)
(* the next deadline, poll, dispatch what is readable, fire what is due.   *)
(* The wakeup descriptor and the queue of posted work are EventLoop's; a   *)
(* non-empty queue makes poll return here.                                 *)
(*                                                                         *)
(* Times are relative to the present: a timer holds the time left, which   *)
(* is negative once it is overdue.                                         *)
(***************************************************************************)
EXTENDS Integers, Sequences, Functions

CONSTANTS
    Peers,     \* the peers; each has one socket, named after it
    IntBits    \* the width of int

\* int is at least a bit wide; the rest is arithmetic that the provers do not know.
ASSUME ContextBits == /\ IntBits \in Nat \ {0}
                      /\ 2^(IntBits - 1) \in Nat \ {0} /\ 2^IntBits = 2 * 2^(IntBits - 1)

VARIABLES
    m_sockets,  \* the socket_entry vector: the descriptor, and whose handler
    m_timers,   \* the registered timers, in order
    timer,      \* timer |-> the operation that waits on it and the time left
    m_pollfds,  \* the pollfd array without the wakeup descriptor
    timeout,    \* what is left of the timeout poll was called with, or Forever
    phase,      \* where run() is
    at,         \* the index dispatch_receives() is at
    firing,     \* the rest of fire_expired_timers()' copy of m_timers
    open,       \* peer |-> its DefaultSocket is open
    inbox,      \* peer |-> the datagrams in its socket's buffer
    fault       \* an access outside a table, or to a timer that is gone

tables == <<m_sockets, m_timers, timer, open>>
pollVars == <<m_pollfds, timeout, at, firing>>

Closed == "closed"    \* detail::invalid_socket
Forever == -1         \* poll's timeout that never ends
NoWait == <<>>        \* a timer without a pending handler
Off == [wait |-> NoWait, left |-> 0]

Timers == Peers \X {"recv", "delay"}
Owner(t) == t[1]
Fd(p) == IF open[p] THEN p ELSE Closed
HasPending(t) == timer[t].wait # NoWait

ContextInit ==
    /\ m_sockets = <<>> /\ m_timers = <<>> /\ timer = [t \in Timers |-> Off]
    /\ m_pollfds = <<>> /\ timeout = 0 /\ phase = "top" /\ at = 0 /\ firing = <<>>
    /\ open = [p \in Peers |-> TRUE] /\ inbox = [p \in Peers |-> <<>>] /\ fault = FALSE

-----------------------------------------------------------------------------
(***************************************************************************)
(* register_socket() and the rest of the internal interface.               *)
(***************************************************************************)
\* std::erase_if(): the elements of S outside G, in their order.
EraseIf(S, G) ==
    LET Kept[i \in 0..Len(S)] ==
          IF i = 0 THEN <<>>
          ELSE IF S[i] \in G THEN Kept[i - 1] ELSE Append(Kept[i - 1], S[i])
    IN  Kept[Len(S)]

\* The first entry with this descriptor gets the new handler; otherwise one is added.
RegisterSocket(S, fd, p) ==
    LET same == {i \in DOMAIN S : S[i].fd = fd}
    IN  IF same = {} THEN Append(S, [fd |-> fd, owner |-> p])
        ELSE [S EXCEPT ![CHOOSE i \in same : \A j \in same : i <= j].owner = p]

\* Mutant: erases the first entry instead.
DeregisterSocket_First(S, fd) == IF S = <<>> THEN S ELSE Tail(S)

DeregisterSocket(S, fd) == EraseIf(S, {e \in Range(S) : e.fd = fd})

\* Mutant: only an empty table takes a timer.
RegisterTimer_Empty(T, t) == IF T # <<>> THEN T ELSE Append(T, t)

RegisterTimer(T, t) == IF t \in Range(T) THEN T ELSE Append(T, t)

DeregisterTimer(T, t) == EraseIf(T, {t})

\* DefaultSocket::close(): idempotent, and a closed socket deregisters nothing.
Close(p) ==
    /\ m_sockets' = IF open[p] THEN DeregisterSocket(m_sockets, p) ELSE m_sockets
    /\ open' = [open EXCEPT ![p] = FALSE]

-----------------------------------------------------------------------------
(***************************************************************************)
(* One iteration of run().                                                 *)
(***************************************************************************)
\* static_cast<int>: two's complement of IntBits bits.
ToInt(n) == LET m == n % 2^IntBits IN IF m < 2^(IntBits - 1) THEN m ELSE m - 2^IntBits

\* Mutant: an overdue timer is not clamped to 0.
Millis_Unclamped(t) == ToInt(timer[t].left)

Millis(t) == ToInt(IF timer[t].left > 0 THEN timer[t].left ELSE 0)

Sooner(min, ms) == IF min < 0 \/ ms < min THEN ms ELSE min

\* compute_next_timeout_ms(): min_ms after each timer of m_timers in turn.
ComputeNextTimeout ==
    LET MinMs[i \in 0..Len(m_timers)] ==
          IF i = 0 THEN Forever
          ELSE IF HasPending(m_timers[i]) THEN Sooner(MinMs[i - 1], Millis(m_timers[i]))
          ELSE MinMs[i - 1]
    IN  MinMs[Len(m_timers)]

\* A negative timeout makes poll wait for a descriptor.
DoPoll ==
    /\ phase = "top" /\ phase' = "blocked"
    /\ timeout' = IF ComputeNextTimeout < 0 THEN Forever ELSE ComputeNextTimeout
    /\ m_pollfds' = [i \in DOMAIN m_sockets |-> [fd |-> m_sockets[i].fd, ready |-> FALSE]]
    /\ UNCHANGED <<tables, at, firing, inbox, fault>>

Readable(fd) == fd \in Peers /\ inbox[fd] # <<>>

\* poll() returns; with work queued the wakeup descriptor is readable too.
PollReturns(work) ==
    /\ phase = "blocked"
    /\ m_pollfds' = [i \in DOMAIN m_pollfds |->
                       [m_pollfds[i] EXCEPT !.ready = Readable(m_pollfds[i].fd)]]
    /\ work \/ timeout = 0 \/ \E i \in DOMAIN m_pollfds' : m_pollfds'[i].ready
    /\ phase' = IF work THEN "wakeup" ELSE "dispatch"
    /\ timeout' = 0 /\ at' = 1
    /\ UNCHANGED <<tables, firing, inbox, fault>>

\* poll() is interrupted by a signal, and run() starts over.
Interrupted ==
    /\ phase = "blocked" /\ phase' = "top" /\ timeout' = 0
    /\ UNCHANGED <<tables, m_pollfds, at, firing, inbox, fault>>

\* dispatch_receives() has seen every pollfd; fire_expired_timers() copies m_timers.
StartFiring ==
    /\ phase = "dispatch" /\ at > Len(m_pollfds)
    /\ phase' = "timers" /\ firing' = m_timers /\ m_pollfds' = <<>> /\ at' = 0
    /\ UNCHANGED <<tables, timeout, inbox, fault>>

EndIteration ==
    /\ phase = "timers" /\ firing = <<>> /\ phase' = "top"
    /\ UNCHANGED <<tables, pollVars, inbox, fault>>

\* Mutant: the pollfd array's own length as the limit.
InTable_Polled(i) == i <= Len(m_pollfds)

\* The index that poll filled in may have no entry any more: work that ran in
\* between, or the handler of an earlier socket, has closed sockets.
InTable(i) == i <= Len(m_sockets)

HasData(i) == i <= Len(m_sockets) /\ Readable(m_sockets[i].fd)

\* A pollfd that is not ready, has no entry, or whose entry has nothing to read:
\* recvmsg() fails with EAGAIN on the non-blocking socket, EBADF on a closed one.
\* It is a fault to look an entry up where there is none.
SkipReceive ==
    /\ phase = "dispatch" /\ at <= Len(m_pollfds)
    /\ ~(m_pollfds[at].ready /\ HasData(at))
    /\ fault' = (fault \/ (m_pollfds[at].ready /\ InTable(at) /\ at > Len(m_sockets)))
    /\ at' = at + 1
    /\ UNCHANGED <<tables, phase, m_pollfds, timeout, firing, inbox>>

\* The datagram recvmsg() returns for index at goes to that entry's handler.
Receives(p) ==
    /\ phase = "dispatch" /\ at <= Len(m_pollfds) /\ m_pollfds[at].ready
    /\ InTable(at) /\ HasData(at) /\ m_sockets[at].owner = p
    /\ inbox' = [inbox EXCEPT ![m_sockets[at].fd] = Tail(@)]
    /\ at' = at + 1
    /\ UNCHANGED <<phase, m_pollfds, timeout, firing, fault>>

=============================================================================
