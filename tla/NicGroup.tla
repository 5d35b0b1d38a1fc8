------------------------------ MODULE NicGroup ------------------------------
(***************************************************************************)
(* basic_nic_group over a basic_nic_monitor: one slot of peers for every   *)
(* interface that passes the filter, created and destroyed by the          *)
(* monitor's callbacks, and a set of watched service types that every      *)
(* slot's service monitors follow.  dynamic_nic_group builds such a group  *)
(* when it is started.                                                     *)
(*                                                                         *)
(* start() and stop() are taken apart at the points where the executor's   *)
(* thread can come in between; what they do under m_mutex is one step.     *)
(***************************************************************************)
EXTENDS NicMonitor, MulticastSocket, FiniteSets

CONSTANTS
    Passes,       \* the states of an interface the interface_filter lets through
    Families,     \* state |-> the families the interface has an address of
    GroupOf,      \* state |-> the multicast group's family: "v4", unless a factory says
    GoneFails,    \* the address of an interface that is gone is refused by the kernel
    Types,        \* service types
    Names,        \* instance names of services
    OnExecutor,   \* start() and stop() are called on the executor's thread
    Dynamic,      \* the group is a dynamic_nic_group
    StartTwice,   \* start() is called when the group runs already
    NoItem        \* the executor is in no callback

ASSUME GroupKinds ==
    /\ Passes \subseteq States /\ GoneFails \in BOOLEAN
    /\ Families \in [States -> SUBSET {"v4", "v6"}] /\ GroupOf \in [States -> {"v4", "v6"}]
    /\ OnExecutor \in BOOLEAN /\ Dynamic \subseteq BOOLEAN /\ StartTwice \in BOOLEAN

VARIABLES
    m_stopped,    \* the group's m_stopped
    m_instances,  \* interface |-> its nic_slot, or Empty
    m_watch_set,  \* the watched types
    m_callbacks,  \* the group's weak_ptr in the monitor's callbacks is alive
    caller,       \* where the thread in start() or stop() is
    item,         \* the callback the executor is in, past its checks of weak_ptr
    dynamic,      \* this is a dynamic_nic_group
    m_impl,       \* the dynamic group has built its basic_nic_group
    m_peer_opts   \* the options: given, or moved from

groupVars == <<m_stopped, m_instances, m_watch_set, m_callbacks>>
dynamicVars == <<dynamic, m_impl, m_peer_opts>>
vars == <<system, monitorVars, m_posts, groupVars, dynamicVars, caller, item>>

Empty == [nic |-> Absent, peers |-> FALSE, watches |-> {}, socket |-> NotOpen]
Sockets == [fd : BOOLEAN, ec : BOOLEAN, member : {"none", "interface", "default"}]
Slots == [nic : States, peers : BOOLEAN, watches : SUBSET Types, socket : Sockets] \cup {Empty}
NoInstances == [n \in Nics |-> Empty]
Present(inst) == {n \in Nics : inst[n] # Empty}

Init ==
    /\ MonitorInit
    /\ dynamic \in Dynamic /\ m_impl = ~dynamic /\ m_peer_opts = "given"
    /\ m_stopped = TRUE /\ m_instances = NoInstances /\ m_watch_set = {}
    /\ m_callbacks = FALSE /\ caller = "out" /\ item = NoItem

-----------------------------------------------------------------------------
(***************************************************************************)
(* The handlers of the interfaces, under m_mutex.                          *)
(***************************************************************************)
\* start_peer_instance(): the watches so far.
Watches == m_watch_set

\* Mutant: the IPv6 address comes first.
SocketOptions_V6First(n, s) ==
    [group |-> GroupOf[s],
     interface |-> IF "v6" \in Families[s] THEN "v6" ELSE IF "v4" \in Families[s] THEN "v4" ELSE "none",
     there |-> GoneFails => actual[n] = s]

\* The socket_options: the interface's IPv4 address, or else its IPv6 address.
SocketOptions(n, s) ==
    [group |-> GroupOf[s],
     interface |-> IF "v4" \in Families[s] THEN "v4" ELSE IF "v6" \in Families[s] THEN "v6" ELSE "none",
     there |-> GoneFails => actual[n] = s]

\* create_instances_for_nic(): a slot without peers if the options have been moved
\* away, or if the constructor of the first one throws for want of a socket.
Created(n, s) ==
    LET socket == IF m_peer_opts = "given" THEN open_and_configure[SocketOptions(n, s)] ELSE NotOpen
    IN  [nic |-> s, socket |-> socket, peers |-> socket.fd,
         watches |-> IF socket.fd THEN Watches ELSE {}]

\* Not present yet, and not filtered out; the filter is moved away with the options.
Accepted(inst, n, s) == inst[n] = Empty /\ (s \in Passes \/ m_peer_opts = "moved")

OnNicAdded(inst, n, s) ==
    IF Accepted(inst, n, s) THEN [inst EXCEPT ![n] = Created(n, s)] ELSE inst

\* The peers are stopped and destroyed.
OnNicRemoved(inst, n) == [inst EXCEPT ![n] = Empty]

Apply(inst, e) ==
    CASE e.kind = "added" -> OnNicAdded(inst, e.nic, e.state)
      [] e.kind = "removed" -> OnNicRemoved(inst, e.nic)
      [] OTHER -> inst

\* The loop of start() over current(), up to the first interface that throws.
Throws(inst, n, s) == Accepted(inst, n, s) /\ Created(n, s).socket.ec

Seed(inst, list) ==
    LET vector == SelectSeq(SetToSeq(Nics), LAMBDA n : list[n] # Absent)
        bad == {i \in DOMAIN vector : Throws(inst, vector[i], list[vector[i]])}
        done == IF bad = {} THEN DOMAIN vector
                ELSE {i \in DOMAIN vector : \A j \in bad : i <= j}
        seeded == {vector[i] : i \in done}
    IN  [n \in Nics |-> IF n \in seeded THEN OnNicAdded(inst, n, list[n])[n] ELSE inst[n]]

-----------------------------------------------------------------------------
(***************************************************************************)
(* The caller of the group.                                                *)
(***************************************************************************)
Idle == caller = "out" /\ (OnExecutor => item = NoItem /\ ~polling)

\* start(): the callbacks get the group's weak_ptr, and the monitor starts.
Start ==
    /\ Idle /\ ~dynamic /\ (m_stopped \/ StartTwice) /\ (current = actual \/ backend \in StaleOn)
    /\ m_stopped' = FALSE /\ m_callbacks' = TRUE /\ StartBackend
    /\ caller' = "seeding"
    /\ UNCHANGED <<system, m_snapshot, polling, m_posts, m_instances, m_watch_set, dynamicVars, item>>

\* The old monitor's destructor, and the new one's start().
RestartBackend ==
    /\ m_halted' = FALSE /\ event' = FALSE /\ m_timer' = (backend # "callback")
    /\ m_handle' = (backend # "poll")
    /\ handles' = handles - (IF m_handle THEN 1 ELSE 0) + (IF backend = "poll" THEN 0 ELSE 1)

\* dynamic_nic_group::start(): a new group, with a new snapshot, of which the options
\* are moved from the builder's.  The group before it is stopped and destroyed.
DynamicStart ==
    /\ Idle /\ dynamic /\ (m_impl => StartTwice)
    /\ m_impl' = TRUE
    /\ m_peer_opts' = IF m_impl THEN "moved" ELSE "given"
    /\ m_stopped' = FALSE /\ m_callbacks' = TRUE /\ RestartBackend
    /\ m_snapshot' = actual /\ m_instances' = NoInstances /\ m_watch_set' = {}
    /\ m_posts' = Expire(m_posts) /\ polling' = FALSE
    /\ caller' = "seeding"
    /\ UNCHANGED <<system, dynamic, item>>

SeedInstances ==
    /\ caller = "seeding" /\ caller' = "out"
    /\ m_instances' = Seed(m_instances, current)
    /\ UNCHANGED <<system, monitorVars, m_posts, m_stopped, m_watch_set, m_callbacks, dynamicVars, item>>

Stop ==
    /\ Idle /\ m_impl /\ ~m_stopped
    /\ m_stopped' = TRUE /\ StopMonitor
    /\ caller' = "clearing"
    /\ UNCHANGED <<system, m_instances, m_watch_set, m_callbacks, dynamicVars, item>>

\* Mutant: the slots are left to be taken over by the next start().
Cleared_Not == m_instances

\* stop_all_instances() and clear().
Cleared == NoInstances

ClearInstances ==
    /\ caller = "clearing" /\ caller' = "resetting"
    /\ m_instances' = Cleared
    /\ UNCHANGED <<system, monitorVars, m_posts, m_stopped, m_watch_set, m_callbacks, dynamicVars, item>>

ResetAlive ==
    /\ caller = "resetting" /\ caller' = "out" /\ m_callbacks' = FALSE
    /\ UNCHANGED <<system, monitorVars, m_posts, m_stopped, m_instances, m_watch_set, dynamicVars, item>>

\* Mutant: only the set is changed, for the interfaces to come.
ForEachMonitor_None(W) == m_instances

\* for_each_monitor_instance(): watch() or unwatch() on every instance.
ForEachMonitor(W) ==
    [n \in Nics |-> IF m_instances[n].peers THEN [m_instances[n] EXCEPT !.watches = W]
                    ELSE m_instances[n]]

\* watch() and unwatch(), from any thread: the set after the call.
SetWatches(W) ==
    /\ m_impl /\ W # m_watch_set
    /\ m_watch_set' = W /\ m_instances' = ForEachMonitor(W)
    /\ UNCHANGED <<system, monitorVars, m_posts, m_stopped, m_callbacks, dynamicVars, caller, item>>

Watch(t) == SetWatches(m_watch_set \cup {t})
Unwatch(t) == SetWatches(m_watch_set \ {t})

-----------------------------------------------------------------------------
(***************************************************************************)
(* The executor's thread.                                                  *)
(***************************************************************************)
ExecutorFree == item = NoItem /\ ~polling /\ (OnExecutor => caller = "out")

\* A posted lambda: the monitor's weak_ptr, then, in the callback, the group's.
RunPost ==
    /\ ExecutorFree /\ m_posts # <<>>
    /\ LET e == Head(m_posts)
           rest == Tail(m_posts)
       IN  IF e.kind = "update" /\ e.alive
           THEN EnumerateAndApply(rest) /\ UNCHANGED item
           ELSE /\ m_posts' = rest /\ UNCHANGED m_snapshot
                /\ item' = IF e.alive /\ m_callbacks THEN e ELSE NoItem
    /\ UNCHANGED <<system, event, m_halted, m_handle, handles, m_timer, polling, groupVars,
                   dynamicVars, caller>>

\* The callback has m_mutex.  An exception leaves run() and takes the posts it was
\* to run with it.
RunCallback ==
    /\ item # NoItem /\ item' = NoItem
    /\ m_instances' = Apply(m_instances, item)
    /\ m_posts' = IF item.kind = "added" /\ Throws(m_instances, item.nic, item.state) THEN <<>>
                  ELSE m_posts
    /\ UNCHANGED <<system, monitorVars, m_stopped, m_watch_set, m_callbacks, dynamicVars, caller>>

Timer == ExecutorFree /\ TimerFires /\ UNCHANGED <<groupVars, dynamicVars, caller, item>>

TimerHandler == Poll /\ UNCHANGED <<groupVars, dynamicVars, caller, item>>

Callback == CallbackFires /\ UNCHANGED <<groupVars, dynamicVars, caller, item>>

Kernel ==
    /\ \E list \in Lists : KernelChange(list)
    /\ UNCHANGED <<groupVars, dynamicVars, caller, item>>

User ==
    \/ Start \/ DynamicStart \/ Stop
    \/ \E t \in Types : Watch(t) \/ Unwatch(t)

Executor == RunPost \/ RunCallback \/ Timer \/ TimerHandler

Proceed == SeedInstances \/ ClearInstances \/ ResetAlive

Next == User \/ Proceed \/ Executor \/ Callback \/ Kernel

Spec == Init /\ [][Next]_vars

\* The executor and the system's thread run, a call of start() or stop() goes on, and
\* enumerate_interfaces() does not fail for ever.
FairSpec ==
    /\ Spec /\ WF_vars(Proceed) /\ WF_vars(Executor) /\ WF_vars(Callback)
    /\ SF_vars(TimerHandler /\ m_snapshot' = actual)
    /\ SF_vars(RunPost /\ m_snapshot' = actual)

-----------------------------------------------------------------------------
(***************************************************************************)
(* services().                                                             *)
(***************************************************************************)
\* Mutant: every interface starts with an empty map.
Merge_Last(by, n, found) == [x \in Names |-> IF x \in found[n] THEN n ELSE NoItem]

\* by_name[key] = svc, stamped with the slot's interface, for one interface.
Merge(by, n, found) == [x \in Names |-> IF x \in found[n] THEN n ELSE by[x]]

\* The map of collect_merged(), of which m_instances' order of iteration is arbitrary:
\* name |-> source_interface.
CollectMerged(order, found) ==
    FoldLeft(LAMBDA by, n : Merge(by, n, found), [x \in Names |-> NoItem], order)

CollectPerInterface(order, found) ==
    FlattenSeq([i \in DOMAIN order |->
        LET names == SetToSeq(found[order[i]])
        IN  [j \in DOMAIN names |-> <<names[j], order[i]>>]])

-----------------------------------------------------------------------------
(***************************************************************************)
(* Properties.                                                             *)
(***************************************************************************)
TypeOK ==
    /\ actual \in Lists /\ backend \in Backends /\ event \in BOOLEAN
    /\ m_snapshot \in Lists \cup {NoSnapshot} /\ m_halted \in BOOLEAN
    /\ m_handle \in BOOLEAN /\ handles \in Nat /\ m_timer \in BOOLEAN /\ polling \in BOOLEAN
    /\ m_stopped \in BOOLEAN /\ m_instances \in [Nics -> Slots] /\ m_watch_set \subseteq Types
    /\ m_callbacks \in BOOLEAN /\ m_peer_opts \in {"given", "moved"}
    /\ caller \in {"out", "seeding", "clearing", "resetting"}
    /\ m_halted = m_stopped

NicOf(inst) == [n \in Nics |-> inst[n].nic]
WantedOf(list) == [n \in Nics |-> IF list[n] \in Passes THEN list[n] ELSE Absent]

\* What the interface's slot will be made for when the executor has run what is posted:
\* after the last removal the first addition that passes the filter counts.
Final(n) ==
    LET queue == (IF item = NoItem THEN <<>> ELSE <<item>>) \o m_posts
        of(kind) == {i \in DOMAIN queue : queue[i].alive /\ queue[i].nic = n /\ queue[i].kind = kind}
        kept == IF of("removed") = {} THEN m_instances[n].nic ELSE Absent
        adds == {i \in of("added") : queue[i].state \in Passes /\ \A j \in of("removed") : j < i}
    IN  IF kept # Absent \/ adds = {} THEN kept
        ELSE queue[CHOOSE i \in adds : \A j \in adds : i <= j].state

\* While the group runs, its slots are those of the snapshot, up to the callbacks that
\* are still queued: no order of starts, stops, differences and callbacks loses an
\* interface, keeps one that is gone, or keeps a slot with old addresses.
FollowsSnapshot ==
    ~m_stopped /\ caller = "out" => \A n \in Nics : Final(n) = WantedOf(current)[n]

\* A stopped group has no slots, no timer and no native handle, and nothing that is
\* queued makes a slot.
StoppedIsQuiet ==
    m_stopped /\ caller = "out" =>
      /\ Present(m_instances) = {} /\ item = NoItem /\ ~m_timer /\ handles = 0
      /\ \A i \in DOMAIN m_posts : ~m_posts[i].alive

\* The slots are those of the snapshot while the group runs, and none when it has
\* stopped, whatever events were posted before.
SlotsFollow ==
    /\ FollowsSnapshot
    /\ StoppedIsQuiet

\* Every open native handle is the one that stop() will close.
HandleHeld == handles = IF m_handle THEN 1 ELSE 0

\* Every slot has its peers, with a socket that is a member of the group on the slot's
\* own interface, if that has an address.
PeersMade ==
    \A n \in Present(m_instances) :
      LET slot == m_instances[n]
      IN  /\ slot.peers /\ slot.socket.fd
          /\ Families[slot.nic] # {} => slot.socket.member = "interface"

\* The service monitors of every interface, whenever it came, watch the same types.
WatchesAgree ==
    \A n \in Present(m_instances) : m_instances[n].peers => m_instances[n].watches = m_watch_set

\* services(), for whatever the monitors have found and in whatever order the slots
\* are visited: merged, every name once and from an interface that has it; else, every
\* pair of a name and an interface once.
ServicesAgree ==
    LET present == Present(m_instances)
        Injective(f) == \A i, j \in DOMAIN f : f[i] = f[j] => i = j
        orders == {f \in [1..Cardinality(present) -> present] : Injective(f)}
    IN  \A found \in [present -> SUBSET Names], order \in orders :
          LET merged == CollectMerged(order, found)
              all == CollectPerInterface(order, found)
          IN  /\ \A x \in Names : IF \E n \in present : x \in found[n]
                                   THEN merged[x] \in present /\ x \in found[merged[x]]
                                   ELSE merged[x] = NoItem
              /\ Injective(all)
              /\ ToSet(all) = {p \in Names \X present : p[1] \in found[p[2]]}

\* Whatever slots there are, they are alike: peers on the slot's own interface that
\* watch what the group watches, all of whose services the group collects; and the
\* monitor below holds one native handle at most.
SlotsAgree ==
    /\ TypeOK
    /\ HandleHeld
    /\ PeersMade
    /\ WatchesAgree
    /\ ServicesAgree

\* Once the interfaces stay as they are, a running group comes to have a slot for
\* each of them that passes the filter, with its present addresses, and no other.
Converges ==
    (<>[][actual' = actual]_vars /\ <>[](~m_stopped))
      => <>[](NicOf(m_instances) = WantedOf(actual))

=============================================================================
