----------------------------- MODULE NicMonitor -----------------------------
(***************************************************************************)
(* basic_nic_monitor: a snapshot of the network interfaces, compared with  *)
(* the kernel's list by the platform's backend, and the differences posted *)
(* to the executor as calls of on_removed and on_added.                    *)
(*                                                                         *)
(* "netlink" polls an AF_NETLINK socket with a 100 ms timer, "callback"    *)
(* (macOS, Windows) is called by the system on a thread of its own, and    *)
(* "poll" enumerates the interfaces with a timer when there is no native   *)
(* backend.                                                                *)
(*                                                                         *)
(* A std::weak_ptr to m_alive is a flag of the lambda that captured it:    *)
(* resetting m_alive clears the flag of every lambda that is queued.       *)
(***************************************************************************)
EXTENDS Integers, Sequences, SequencesExt

CONSTANTS
    Nics,           \* interface indices
    States,         \* what is compared of an interface: is_up and the addresses
    StatesOf,       \* interface |-> the states it takes
    Absent,         \* the interface does not exist
    NoSnapshot,     \* m_snapshot holds no list
    Backends,       \* the backends the platform may have
    FailsOn,        \* those with which a later enumerate_interfaces() may fail
    StaleOn,        \* those with which start() may find an outdated snapshot
    InitialFails,   \* the constructor's enumerate_interfaces() may fail
    MaxPosts        \* bound: updates are not applied to a longer queue than this

ASSUME NicKinds ==
    /\ Absent \notin States /\ StatesOf \in [Nics -> SUBSET States]
    /\ Backends \subseteq {"netlink", "callback", "poll"}
    /\ FailsOn \subseteq Backends /\ StaleOn \subseteq Backends
    /\ InitialFails \in BOOLEAN /\ MaxPosts \in Nat

VARIABLES
    actual,      \* the kernel's interfaces
    backend,     \* the backend start() gets
    event,       \* a notification waits: in the netlink socket, or to be called
    m_snapshot,  \* the last list applied, or NoSnapshot
    m_halted,    \* the monitor's m_stopped
    m_handle,    \* the netlink socket, path monitor or change handle is held
    handles,     \* how many of them are open in the system
    m_timer,     \* the 100 ms timer or the poll timer is waited on
    m_posts,     \* the queue of the executor
    polling      \* the executor is in the timer's handler, past its checks

system == <<actual, backend>>
monitorVars == <<event, m_snapshot, m_halted, m_handle, handles, m_timer, polling>>

Lists == {list \in [Nics -> States \cup {Absent}] :
            \A n \in Nics : list[n] \in StatesOf[n] \cup {Absent}}
Nothing == [n \in Nics |-> Absent]

MonitorInit ==
    /\ actual \in Lists /\ backend \in Backends
    /\ m_snapshot \in {actual} \cup (IF InitialFails THEN {NoSnapshot} ELSE {})
    /\ event = FALSE /\ m_halted = TRUE /\ m_handle = FALSE /\ handles = 0
    /\ m_timer = FALSE /\ m_posts = <<>> /\ polling = FALSE

current == IF m_snapshot = NoSnapshot THEN Nothing ELSE m_snapshot

Removed(n, s) == [kind |-> "removed", nic |-> n, state |-> s, alive |-> TRUE]
Added(n, s) == [kind |-> "added", nic |-> n, state |-> s, alive |-> TRUE]
Update == [kind |-> "update", nic |-> CHOOSE n \in Nics : TRUE, state |-> Absent, alive |-> TRUE]

\* Mutant: a changed interface is added, and the old one not removed.
Changed_NoRemoval(n, old, new) ==
    CASE old[n] = Absent -> <<>>
      [] new[n] = Absent -> <<Removed(n, old[n])>>
      [] OTHER -> IF new[n] # old[n] THEN <<Added(n, new[n])>> ELSE <<>>

\* What is posted for an interface of the old snapshot.
Changed(n, old, new) ==
    CASE old[n] = Absent -> <<>>
      [] new[n] = Absent -> <<Removed(n, old[n])>>
      [] OTHER -> IF new[n] # old[n] THEN <<Removed(n, old[n]), Added(n, new[n])>> ELSE <<>>

Appeared(n, old, new) ==
    IF old[n] = Absent /\ new[n] # Absent THEN <<Added(n, new[n])>> ELSE <<>>

\* The interfaces are taken in one order; another order changes nothing, as every
\* callback looks at its own interface only.
Diff(old, new) ==
    LET vector == SetToSeq(Nics)
    IN  FlattenSeq([i \in DOMAIN vector |-> Changed(vector[i], old, new)])
        \o FlattenSeq([i \in DOMAIN vector |-> Appeared(vector[i], old, new)])

\* apply_diff() after enumerate_interfaces(), which may have failed.  Without an old
\* snapshot nothing is posted.  "rest" is the queue it appends to.
EnumerateAndApply(rest) ==
    \/ /\ m_snapshot' = actual
       /\ m_posts' = rest \o IF m_snapshot = NoSnapshot THEN <<>> ELSE Diff(m_snapshot, actual)
    \/ backend \in FailsOn /\ m_posts' = rest /\ UNCHANGED m_snapshot

-----------------------------------------------------------------------------
\* start_native_backend(), or else schedule_poll().  A second start() overwrites the
\* handle.  A new netlink socket holds no message yet.
StartBackend ==
    /\ m_halted' = FALSE /\ event' = FALSE
    /\ IF backend = "poll" THEN UNCHANGED <<m_handle, handles>>
       ELSE m_handle' = TRUE /\ handles' = handles + 1
    /\ m_timer' = (backend # "callback")

\* Mutant: the native handle stays open.
CloseHandle_Kept == UNCHANGED <<m_handle, handles>>

\* Mutant: the handle is closed without the test that there is one.
CloseHandle_Always == m_handle' = FALSE /\ handles' = handles - 1

CloseHandle ==
    /\ m_handle' = FALSE
    /\ handles' = IF m_handle THEN handles - 1 ELSE handles

\* m_alive.reset(): the queued lambdas find their weak_ptr expired.
Expire(queue) == [i \in DOMAIN queue |-> [queue[i] EXCEPT !.alive = FALSE]]

StopMonitor ==
    IF m_halted THEN UNCHANGED <<monitorVars, m_posts>>
    ELSE /\ m_halted' = TRUE /\ m_timer' = FALSE /\ event' = FALSE
         /\ CloseHandle
         /\ m_posts' = Expire(m_posts)
         /\ UNCHANGED <<m_snapshot, polling>>

-----------------------------------------------------------------------------
(***************************************************************************)
(* The executor's thread and the system's.                                 *)
(***************************************************************************)
\* The timer's handler checks its weak_ptr, which cancel() has not let expire.
TimerFires ==
    /\ m_timer /\ ~polling /\ Len(m_posts) <= MaxPosts
    /\ m_timer' = FALSE /\ polling' = TRUE
    /\ UNCHANGED <<system, event, m_snapshot, m_halted, m_handle, handles, m_posts>>

\* Mutant: the timer is not armed again after a failed enumeration.
Rearms_IfApplied == ~m_halted /\ m_snapshot' = actual

\* schedule_poll() and arm().
Rearms == ~m_halted /\ (backend = "netlink" => m_handle)

\* The netlink socket is drained, the list only looked at if there was a message.
Looks == backend = "poll" \/ (event /\ m_handle)

Poll ==
    /\ polling /\ polling' = FALSE
    /\ IF Looks THEN EnumerateAndApply(m_posts) ELSE UNCHANGED <<m_snapshot, m_posts>>
    /\ event' = FALSE /\ m_timer' = Rearms
    /\ UNCHANGED <<system, m_halted, m_handle, handles>>

\* The update handler of macOS and the callback of Windows post to the executor.
CallbackFires ==
    /\ backend = "callback" /\ event /\ m_handle /\ Len(m_posts) <= MaxPosts
    /\ event' = FALSE /\ m_posts' = Append(m_posts, Update)
    /\ UNCHANGED <<system, m_snapshot, m_halted, m_handle, handles, m_timer, polling>>

\* External: an interface appears, disappears or changes; the system notifies whoever
\* has a handle.
KernelChange(list) ==
    /\ \E n \in Nics : list[n] # actual[n] /\ \A m \in Nics \ {n} : list[m] = actual[m]
    /\ actual' = list
    /\ event' = (m_handle \/ event)
    /\ UNCHANGED <<backend, m_snapshot, m_halted, m_handle, handles, m_timer, m_posts, polling>>

=============================================================================
