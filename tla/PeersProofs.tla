----------------------------- MODULE PeersProofs -----------------------------
(***************************************************************************)
(* The safety properties of Peers, from the invariant of PeersInvariant,   *)
(* for any number of peers and operations: every operation completes once, *)
(* the tables are used safely, run() sleeps until the first deadline.      *)
(***************************************************************************)
EXTENDS PeersInvariant

-----------------------------------------------------------------------------
(***************************************************************************)
(* Every operation completes once.                                         *)
(***************************************************************************)
\* The shot that the step takes, or none.
LEMMA ShotTaken ==
    ASSUME Inv, Inv', Next
    PROVE  Shots!Next \/ UNCHANGED [o \in Operations |-> Status(o)]
<1> DEFINE status == [o \in Operations |-> Status(o)]
<1> SUFFICES Shots!Next \/ UNCHANGED status
  OBVIOUS
<1>1. SocketsTyped /\ TimersTyped /\ OpsTyped /\ UsersTyped /\ PollTyped /\ TypeOK /\ Listening /\ Rewound
  BY TypeParts DEF Inv
<1>2. \A o \in Operations : status[o] = Stage(o)
  BY StatusIsStage
<1>3. \A o \in Operations : status'[o] = Stage(o)'
  <2>1. (\A o \in Operations : Status(o) = Stage(o))'
    BY StatusIsStage, PTL
  <2> QED
    BY <2>1
<1>4. \A o \in Operations : /\ loop[o] \in {"none", "running", "stopped"} /\ handler[o] \in BOOLEAN /\ calls[o] \in Nat
                            /\ handler[o] <=> loop[o] = "running"
                            /\ calls[o] <= 1 /\ (loop[o] # "stopped" => calls[o] = 0)
  BY DEF Inv, TypeOK, HandlerPerLoop
<1>5. ASSUME UNCHANGED <<loop, calls>> PROVE UNCHANGED status
  BY <1>2, <1>3, <1>5 DEF Stage
<1>6. ASSUME NEW S \in SUBSET Operations, NEW H, NEW p, NEW C, LoopStop(S, p, C), Complete(H), p \in Peers,
             \A o \in Operations : /\ o \in H /\ loop[o] = "running" => o \in S
                                   /\ o \in S => o \in H /\ loop[o] # "none"
      PROVE  Shots!Next \/ UNCHANGED status
  <2> DEFINE R == {o \in S : loop[o] = "running"}
  <2>1. \A o \in Operations : loop'[o] = IF o \in S THEN "stopped" ELSE loop[o]
    BY <1>1, <1>6, LoopsStopped
  <2>2. \A o \in Operations : calls'[o] = IF o \in H /\ handler[o] THEN calls[o] + 1 ELSE calls[o]
    BY <1>1, <1>6, Completed
  <2>3. ASSUME NEW o \in Operations PROVE status'[o] = IF o \in R THEN "completed" ELSE status[o]
    BY <1>2, <1>3, <1>4, <1>6, <2>1, <2>2 DEF Stage
  <2>4. \A o \in R : status[o] = "pending"
    BY <1>2 DEF Stage
  <2>5. R \in SUBSET Operations
    OBVIOUS
  <2> HIDE DEF R
  <2>6. status' = [o \in Operations |-> IF o \in R THEN "completed" ELSE status[o]]
    BY <2>3
  <2>7. CASE R = {}
    BY <2>3, <2>7
  <2>8. CASE R # {}
    <3>1. Shots!End(R, "completed")
      BY <2>4, <2>6, <2>8 DEF Shots!End, Shots!Moves
    <3> QED
      BY <2>5, <3>1 DEF Shots!Next
  <2> QED
    BY <2>7, <2>8
<1>7. CASE UNCHANGED <<tables, ops, query, alive>>
  BY <1>5, <1>7 DEF ops
<1>8. CASE Starting
  <2>1. PICK o \in Operations, m \in Modes, d \in Delays : StartOperation(o, m, d)
    BY <1>8, PeerKinds DEF Starting
  <2>2. calls' = calls /\ loop[o] = "none" /\ loop' = [loop EXCEPT ![o] = "running"]
    BY <1>1, <2>1, Started
  <2>3. loop \in [Operations -> {"none", "running", "stopped"}]
    BY <1>1 DEF OpsTyped
  <2>4. ASSUME NEW x \in Operations PROVE status'[x] = IF x = o THEN "pending" ELSE status[x]
    BY <1>2, <1>3, <2>2, <2>3 DEF Stage
  <2>5. status' = [x \in Operations |-> IF x \in {o} THEN "pending" ELSE status[x]]
    BY <2>4
  <2>6. status[o] = "idle"
    BY <1>2, <2>2 DEF Stage
  <2>7. Shots!Start(o)
    BY <2>5, <2>6 DEF Shots!Start, Shots!Moves
  <2> QED
    BY <2>7 DEF Shots!Next
<1>9. CASE RunTeardown
  <2>1. CASE UNCHANGED <<tables, loop, handler, calls>>
    BY <1>5, <2>1
  <2>2. CASE \E p \in Peers : /\ LoopStop(Running(p), p, Waits(p))
                              /\ Complete({o \in Of(p) : loop[o] # "none"})
    <3>1. PICK p \in Peers : /\ LoopStop(Running(p), p, Waits(p))
                             /\ Complete({o \in Of(p) : loop[o] # "none"})
      BY <2>2
    <3>2. \A o \in Operations :
            /\ o \in {x \in Of(p) : loop[x] # "none"} /\ loop[o] = "running" => o \in Running(p)
            /\ o \in Running(p) => o \in {x \in Of(p) : loop[x] # "none"} /\ loop[o] # "none"
      BY DEF Running
    <3>3. Running(p) \in SUBSET Operations
      BY DEF Running, Of
    <3> DEFINE H == {x \in Of(p) : loop[x] # "none"}
    <3>4. Complete(H)
      BY <3>1
    <3> HIDE DEF status, H
    <3> QED
      BY <1>6, <3>1, <3>2, <3>3, <3>4, Zenon DEF H
  <2> QED
    BY <1>1, <1>9, <2>1, <2>2, TornDown
<1>10. CASE Destroys
  <2>1. PICK p \in Peers : Destroy(p)
    BY <1>10 DEF Destroys
  <2>2. /\ calls' = calls
        /\ \A o \in Operations : loop'[o] = IF Peer(o) = p /\ loop[o] = "running" THEN "stopped" ELSE loop[o]
    BY <1>1, <2>1, Destroyed
  <2> DEFINE R == {o \in Operations : Peer(o) = p /\ loop[o] = "running"}
  <2>3. ASSUME NEW o \in Operations PROVE status'[o] = IF o \in R THEN "abandoned" ELSE status[o]
    BY <1>2, <1>3, <1>4, <2>2 DEF Stage
  <2>4. \A o \in R : status[o] = "pending"
    BY <1>2 DEF Stage
  <2>5. R \in SUBSET Operations
    OBVIOUS
  <2> HIDE DEF R
  <2>6. status' = [o \in Operations |-> IF o \in R THEN "abandoned" ELSE status[o]]
    BY <2>3
  <2>7. CASE R = {}
    BY <2>3, <2>7
  <2>8. CASE R # {}
    <3>1. Shots!End(R, "abandoned")
      BY <2>4, <2>6, <2>8 DEF Shots!End, Shots!Moves
    <3> QED
      BY <2>5, <3>1 DEF Shots!Next
  <2> QED
    BY <2>7, <2>8
<1>11. CASE Receiving
  BY <1>1, <1>5, <1>11, ReceiverKnown, Received DEF Receiving, ops
<1>12. CASE SilenceFires
  <2>1. PICK t \in Timers, o \in Operations :
             \/ UNCHANGED <<loop, calls>>
             \/ timer[t].wait = o /\ LoopStop({o}, Peer(o), {t}) /\ Complete({o})
    BY <1>1, <1>12, SilenceFired, Zenon
  <2>2. CASE timer[t].wait = o /\ LoopStop({o}, Peer(o), {t}) /\ Complete({o})
    <3>1. loop[o] # "none"
      BY <2>2, Names DEF Inv, WaitsForStarted, HasPending
    <3>2. Peer(o) \in Peers /\ {o} \in SUBSET Operations
      BY Names
    <3>3. \A x \in Operations : /\ x \in {o} /\ loop[x] = "running" => x \in {o}
                                /\ x \in {o} => x \in {o} /\ loop[x] # "none"
      BY <3>1
    <3> HIDE DEF status
    <3> QED
      BY <1>6, <2>2, <3>2, <3>3, Zenon
  <2> QED
    BY <1>5, <2>1, <2>2
<1>13. CASE DelayFires
  BY <1>1, <1>5, <1>13, DelayFired DEF ops
<1>14. CASE Elapse
  BY <1>1, <1>5, <1>14, Elapsed DEF ops
<1> QED
  BY <1>7, <1>8, <1>9, <1>10, <1>11, <1>12, <1>13, <1>14, TableSteps

\* Every operation is started once and its completion handler called once, or never when
\* its peer is destroyed first: the peers implement OneShot, whatever the order of the
\* silence timer, stop() and the destructor, and whichever peers the handlers destroy.
THEOREM OperationsCompleteOnce == Spec => CompletesOnce
<1> DEFINE status == [o \in Operations |-> Status(o)]
<1>1. Init => Shots!Init
  <2> SUFFICES ASSUME Init PROVE Shots!Init
    OBVIOUS
  <2>1. \A o \in Operations : Status(o) = "idle"
    BY DEF Init, Status
  <2> QED
    BY <2>1 DEF Shots!Init
<1>2. ASSUME Inv, Inv', [Next]_vars PROVE [Shots!Next]_status
  <2>1. CASE Next
    BY <1>2, <2>1, ShotTaken
  <2>2. CASE UNCHANGED vars
    BY <2>2 DEF vars, ops, Status
  <2> QED
    BY <1>2, <2>1, <2>2
<1> HIDE DEF status
<1> QED
  BY <1>1, <1>2, InvInvariant, PTL DEF Spec, CompletesOnce, Shots!Spec, status

-----------------------------------------------------------------------------
(***************************************************************************)
(* The tables of the context are never used after they have changed.       *)
(***************************************************************************)
\* The timers in m_timers, and those left in its copy, are of peers that still exist.
TimersAlive == \A t \in Range(m_timers) : alive[Owner(t)]
FiringAlive == phase = "timers" => \A t \in Range(firing) : alive[Owner(t)]

\* A timer leaves m_timers before its owner is gone.
LEMMA TimersAliveKept ==
    ASSUME Inv, TimersAlive, Next
    PROVE  TimersAlive'
<1>1. SocketsTyped /\ TimersTyped /\ OpsTyped /\ UsersTyped /\ PollTyped /\ TypeOK /\ Listening /\ Rewound
  BY TypeParts DEF Inv
<1>2. m_timers \in Seq(Timers) /\ timer \in [Timers -> TimerStates] /\ alive \in [Peers -> BOOLEAN]
  BY <1>1 DEF TimersTyped, UsersTyped
<1>3. \A t \in Range(m_timers) : t \in Timers /\ Owner(t) \in Peers
  BY <1>2, InRange, Names
<1>4. ASSUME Range(m_timers') \subseteq Range(m_timers), alive' = alive PROVE TimersAlive'
  BY <1>4 DEF TimersAlive
<1>5. ASSUME NEW S, NEW p \in Peers, NEW C, LoopStop(S, p, C), alive' = alive PROVE TimersAlive'
  <2>1. Range(m_timers') = Range(m_timers) \ Stopping(S, p, C)
    BY <1>1, <1>5, LoopsStopped
  <2> QED
    BY <1>4, <1>5, <2>1
<1>6. CASE UNCHANGED <<tables, ops, query, alive>>
  BY <1>4, <1>6 DEF tables
<1>7. CASE Starting
  <2>1. PICK o \in Operations, m \in Modes, d \in Delays : StartOperation(o, m, d)
    BY <1>7, PeerKinds DEF Starting
  <2>2. /\ alive' = alive /\ alive[Peer(o)]
        /\ Range(m_timers') = Range(m_timers) \cup {Recv(Peer(o))}
                                \cup (IF Delayed(o, m) THEN {Delay(Peer(o))} ELSE {})
    BY <1>1, <2>1, Started
  <2>3. Owner(Recv(Peer(o))) = Peer(o) /\ Owner(Delay(Peer(o))) = Peer(o)
    BY Names
  <2> QED
    BY <2>2, <2>3 DEF TimersAlive
<1>8. CASE RunTeardown
  <2>1. alive' = alive
    BY <1>1, <1>8, TornDown
  <2>2. CASE UNCHANGED <<tables, loop, handler, calls>>
    BY <1>4, <2>1, <2>2 DEF tables
  <2> QED
    BY <1>1, <1>5, <1>8, <2>1, <2>2, TornDown, Zenon
<1>9. CASE Destroys
  <2>1. PICK p \in Peers : Destroy(p)
    BY <1>9 DEF Destroys
  <2>2. /\ alive' = [alive EXCEPT ![p] = FALSE]
        /\ Range(m_timers') = Range(m_timers) \ {Recv(p), Delay(p)}
    BY <1>1, <2>1, Destroyed
  <2>3. ASSUME NEW t \in Range(m_timers') PROVE alive'[Owner(t)]
    <3>1. t \in Range(m_timers) /\ t # Recv(p) /\ t # Delay(p)
      BY <2>2
    <3>2. Owner(t) # p /\ Owner(t) \in Peers
      BY <1>3, <3>1, Names
    <3> QED
      BY <1>2, <2>2, <3>1, <3>2 DEF TimersAlive
  <2> QED
    BY <2>3 DEF TimersAlive
<1>10. CASE Receiving
  <2>1. PICK p \in Peers : ReceivePacket(p)
    BY <1>10 DEF Receiving
  <2>2. receiver[p] \in Of(p)
    BY <1>1, <2>1, ReceiverKnown
  <2>3. /\ alive' = alive
        /\ Range(m_timers') = (Range(m_timers) \ (IF Suppressed(p) THEN {Delay(p)} ELSE {}))
                                \cup (IF Rearmed(p) THEN {Recv(p)} ELSE {})
    BY <1>1, <2>1, <2>2, Received
  <2>4. Rearmed(p) => alive[p]
    BY <2>2 DEF Rearmed, Heard, Inv, HandlerPerLoop, Of
  <2>5. Owner(Recv(p)) = p
    BY Names
  <2> QED
    BY <2>3, <2>4, <2>5 DEF TimersAlive
<1>11. CASE SilenceFires
  <2>1. PICK t \in Timers, o \in Operations :
             alive' = alive /\ (m_timers' = m_timers \/ LoopStop({o}, Peer(o), {t}))
    BY <1>1, <1>11, SilenceFired, Zenon
  <2>2. CASE m_timers' = m_timers
    BY <1>4, <2>1, <2>2
  <2>3. CASE LoopStop({o}, Peer(o), {t})
    BY <1>5, <2>1, <2>3, Names
  <2> QED
    BY <2>1, <2>2, <2>3
<1>12. CASE DelayFires
  BY <1>1, <1>4, <1>12, DelayFired
<1>13. CASE Elapse
  BY <1>1, <1>4, <1>13, Elapsed
<1> QED
  BY <1>6, <1>7, <1>8, <1>9, <1>10, <1>11, <1>12, <1>13, TableSteps

\* No peer is destroyed while fire_expired_timers() goes through its copy.
LEMMA FiringAliveKept ==
    ASSUME HandlersIn \subseteq {"work"}, Inv, TimersAlive, FiringAlive, Next
    PROVE  FiringAlive'
<1>1. firing \in Seq(Timers)
  BY DEF Inv, TypeOK
<1>2. ASSUME alive' = alive, phase' = phase, firing' = firing PROVE FiringAlive'
  BY <1>2 DEF FiringAlive
<1>3. ASSUME phase' # "timers" PROVE FiringAlive'
  BY <1>3 DEF FiringAlive
<1>4. ASSUME FiresNext, alive' = alive, phase' = phase PROVE FiringAlive'
  <2>1. phase = "timers" /\ firing # <<>> /\ firing' = Tail(firing)
    BY <1>4 DEF FiresNext
  <2>2. Range(firing') \subseteq Range(firing)
    BY <1>1, <2>1, HeadAndTail
  <2> QED
    BY <1>4, <2>1, <2>2 DEF FiringAlive
<1>5. CASE Polls
  BY <1>3, <1>5 DEF Polls, PollReturns
<1>6. CASE Iterate
  <2>1. CASE DoPoll \/ Interrupted \/ EndIteration
    BY <1>3, <2>1 DEF DoPoll, Interrupted, EndIteration
  <2>2. CASE SkipReceive
    BY <1>2, <1>6, <2>2 DEF SkipReceive, Iterate
  <2>3. CASE StartFiring
    BY <1>6, <2>3 DEF StartFiring, Iterate, FiringAlive, TimersAlive
  <2> QED
    BY <1>6, <2>1, <2>2, <2>3 DEF Iterate
<1>7. CASE LoopStep
  <2>1. CASE DrainWorkQueue \/ WorkDone
    BY <1>3, <2>1 DEF DrainWorkQueue, WorkDone
  <2>2. CASE RunTeardown
    BY <1>3, <2>2 DEF RunTeardown, Working
  <2>3. CASE HandlerReturns
    BY <1>2, <2>3 DEF HandlerReturns, pollVars
  <2>4. ASSUME NEW p \in Peers, ReceivePacket(p) PROVE FiringAlive'
    BY <1>3, <2>4, Zenon DEF ReceivePacket, Receives
  <2>5. CASE SkipTimer
    BY <1>4, <2>5 DEF SkipTimer
  <2>6. CASE SilenceFires
    BY <1>4, <2>6, Zenon DEF SilenceFires
  <2>7. CASE DelayFires
    BY <1>4, <2>7 DEF DelayFires
  <2> QED
    BY <1>7, <2>1, <2>2, <2>3, <2>4, <2>5, <2>6, <2>7 DEF LoopStep
<1>8. CASE Application
  <2>1. ASSUME NEW o, NEW m, NEW d, StartOperation(o, m, d) PROVE phase' # "timers"
    BY <2>1 DEF StartOperation, Working
  <2>2. ASSUME NEW p, AppDestroys(p) \/ HandlerDestroys(p) PROVE phase' # "timers"
    BY <2>2 DEF AppDestroys, Working, HandlerDestroys
  <2>3. ASSUME NEW p, Stop(p) PROVE FiringAlive'
    BY <1>2, <2>3 DEF Stop, pollVars
  <2> QED
    BY <1>3, <1>8, <2>1, <2>2, <2>3 DEF Application
<1>9. CASE Arrives
  BY <1>2, <1>9 DEF Arrives, Arrive, pollVars
<1>10. CASE Elapse
  BY <1>2, <1>10 DEF Elapse
<1> QED
  BY <1>5, <1>6, <1>7, <1>8, <1>9, <1>10 DEF Next

\* An entry is looked up only where there is one, and a timer only while it exists.
LEMMA NoFaultKept ==
    ASSUME Inv, FiringAlive, NoFault, Next
    PROVE  NoFault'
<1> USE DEF NoFault
<1>1. firing \in Seq(Timers) /\ m_sockets \in Seq(SocketEntries) /\ at \in Nat
  BY DEF Inv, TypeOK
<1>2. CASE Polls
  BY <1>2 DEF Polls, PollReturns
<1>3. CASE Iterate
  <2>1. CASE SkipReceive
    <3>1. fault' = (fault \/ (m_pollfds[at].ready /\ at <= Len(m_sockets) /\ at > Len(m_sockets)))
      BY <2>1 DEF SkipReceive, InTable
    <3>2. ~(at <= Len(m_sockets) /\ at > Len(m_sockets))
      BY <1>1
    <3> QED
      BY <3>1, <3>2, Zenon
  <2> QED
    BY <1>3, <2>1 DEF Iterate, DoPoll, Interrupted, StartFiring, EndIteration
<1>4. CASE LoopStep
  <2>1. CASE SkipTimer
    <3>1. phase = "timers" /\ firing # <<>> /\ fault' = (fault \/ ~alive[Owner(Head(firing))])
      BY <2>1 DEF SkipTimer, FiresNext
    <3>2. Head(firing) \in Range(firing)
      BY <1>1, <3>1, HeadAndTail
    <3> QED
      BY <3>1, <3>2, Zenon DEF FiringAlive
  <2>2. CASE DrainWorkQueue \/ WorkDone \/ HandlerReturns
    BY <2>2 DEF DrainWorkQueue, WorkDone, HandlerReturns
  <2>3. CASE RunTeardown
    BY <2>3 DEF RunTeardown, Working
  <2>4. ASSUME NEW p \in Peers, ReceivePacket(p) PROVE NoFault'
    BY <2>4, Zenon DEF ReceivePacket, Receives
  <2>5. CASE SilenceFires \/ DelayFires
    BY <2>5 DEF SilenceFires, DelayFires
  <2> QED
    BY <1>4, <2>1, <2>2, <2>3, <2>4, <2>5 DEF LoopStep
<1>5. CASE Application
  <2>1. ASSUME NEW o, NEW m, NEW d, StartOperation(o, m, d) PROVE NoFault'
    BY <2>1 DEF StartOperation, Working
  <2>2. ASSUME NEW p, AppDestroys(p) \/ HandlerDestroys(p) \/ Stop(p) PROVE NoFault'
    BY <2>2 DEF AppDestroys, Working, HandlerDestroys, Stop
  <2> QED
    BY <1>5, <2>1, <2>2 DEF Application
<1>6. CASE Arrives \/ Elapse
  BY <1>6 DEF Arrives, Arrive, Elapse
<1> QED
  BY <1>2, <1>3, <1>4, <1>5, <1>6 DEF Next

\* dispatch_receives() and fire_expired_timers() never use an entry or a timer that is
\* gone, as long as completion handlers destroy other peers only from posted work.
THEOREM TablesUsedSafely ==
    ASSUME HandlersIn \subseteq {"work"}
    PROVE  Spec => []NoFault
<1> DEFINE Safe == TimersAlive /\ FiringAlive /\ NoFault
<1>1. Init => Safe
  <2> SUFFICES ASSUME Init PROVE Safe
    OBVIOUS
  <2>1. m_timers = <<>> /\ phase = "top" /\ fault = FALSE
    BY DEF Init, ContextInit
  <2>2. Range(m_timers) = {}
    BY <2>1 DEF Range
  <2> QED
    BY <2>1, <2>2 DEF TimersAlive, FiringAlive, NoFault
<1>2. ASSUME Inv, Safe, [Next]_vars PROVE Safe'
  <2>1. CASE Next
    BY <1>2, <2>1, TimersAliveKept, FiringAliveKept, NoFaultKept
  <2>2. CASE UNCHANGED vars
    BY <1>2, <2>2 DEF TimersAlive, FiringAlive, NoFault, vars, tables, pollVars
  <2> QED
    BY <1>2, <2>1, <2>2
<1> QED
  BY <1>1, <1>2, InvInvariant, PTL DEF Spec

-----------------------------------------------------------------------------
(***************************************************************************)
(* run() sleeps until the first deadline.                                  *)
(***************************************************************************)
\* The waits of the operations that are started fit into the int that poll() is given.
\* They do for a query or a discovery; the 365 days of an observer are too long for 32 bits.
WaitsFit == /\ \A o \in Wanted : SilenceOf(o) < 2^(IntBits - 1)
            /\ \A d \in Delays : d < 2^(IntBits - 1)

\* What poll() was called with, less the time that has passed.
SleepsExactly == phase = "blocked" => Earliest(timeout, Lefts(DOMAIN m_timers))

\* Only wanted operations are started, and the timers run for them.
LEMMA TimesKept ==
    ASSUME WaitsFit, Inv, StartedWanted, TimesFit, Next
    PROVE  StartedWanted' /\ TimesFit'
<1> DEFINE H == 2^(IntBits - 1)
<1>1. SocketsTyped /\ TimersTyped /\ OpsTyped /\ UsersTyped /\ PollTyped /\ TypeOK /\ Listening /\ Rewound
  BY TypeParts DEF Inv
<1>2. loop \in [Operations -> {"none", "running", "stopped"}] /\ timer \in [Timers -> TimerStates]
  BY <1>1 DEF TypeOK
<1>3. Off.left = 0 /\ H \in Nat \ {0} /\ \A o, l : Wait(o, l).left = l
  BY ContextBits DEF Off, Wait
<1>4. ASSUME \A o \in Operations : loop'[o] # "none" => loop[o] # "none",
             \A t \in Timers : timer'[t] \in {timer[t], Off}
      PROVE  StartedWanted' /\ TimesFit'
  <2>1. TimesFit'
    <3>1. ASSUME NEW t \in Timers PROVE timer'[t].left < H
      BY <1>3, <1>4 DEF TimesFit
    <3> QED
      BY <3>1 DEF TimesFit
  <2> QED
    BY <1>4, <2>1 DEF StartedWanted
<1>5. CASE UNCHANGED <<tables, ops, query, alive>>
  BY <1>4, <1>5 DEF tables, ops
<1>6. CASE Starting
  <2>1. PICK o \in Wanted, m \in Modes, d \in Delays : StartOperation(o, m, d)
    BY <1>6 DEF Starting
  <2>2. o \in Operations
    BY PeerKinds
  <2>3. /\ loop' = [loop EXCEPT ![o] = "running"]
        /\ \A t \in Timers : timer'[t] = IF t = Recv(Peer(o)) THEN Wait(o, SilenceOf(o))
                                         ELSE IF Delayed(o, m) /\ t = Delay(Peer(o)) THEN Wait(o, d)
                                         ELSE timer[t]
    BY <1>1, <2>1, <2>2, Started, Zenon
  <2>4. SilenceOf(o) < H /\ d < H
    BY DEF WaitsFit
  <2>5. TimesFit'
    <3>1. ASSUME NEW t \in Timers PROVE timer'[t].left < H
      <4> HIDE DEF H
      <4> QED
        BY <1>3, <2>3, <2>4 DEF TimesFit, H
    <3> QED
      BY <3>1 DEF TimesFit
  <2>6. StartedWanted'
    BY <1>2, <2>2, <2>3 DEF StartedWanted
  <2> QED
    BY <2>5, <2>6
<1>7. CASE RunTeardown
  <2>1. CASE UNCHANGED <<tables, loop, handler, calls>>
    BY <1>4, <2>1 DEF tables
  <2>2. ASSUME NEW p \in Peers, LoopStop(Running(p), p, Waits(p)) PROVE StartedWanted' /\ TimesFit'
    <3>1. /\ \A o \in Operations : loop'[o] = IF o \in Running(p) THEN "stopped" ELSE loop[o]
          /\ \A t \in Timers : timer'[t] = IF t \in Stopping(Running(p), p, Waits(p)) THEN Off ELSE timer[t]
      BY <1>1, <2>2, LoopsStopped
    <3>2. \A o \in Running(p) : loop[o] # "none"
      BY DEF Running
    <3> QED
      BY <1>4, <3>1, <3>2
  <2> QED
    BY <1>1, <1>7, <2>1, <2>2, TornDown, Zenon
<1>8. CASE Destroys
  <2>1. PICK p \in Peers : Destroy(p)
    BY <1>8 DEF Destroys
  <2>2. /\ \A t \in Timers : timer'[t] = IF t \in {Recv(p), Delay(p)} THEN Off ELSE timer[t]
        /\ \A o \in Operations : loop'[o] = IF Peer(o) = p /\ loop[o] = "running" THEN "stopped" ELSE loop[o]
    BY <1>1, <2>1, Destroyed
  <2> QED
    BY <1>4, <2>2
<1>9. CASE Receiving
  <2>1. PICK p \in Peers : ReceivePacket(p)
    BY <1>9 DEF Receiving
  <2> DEFINE o == receiver[p]
  <2>2. o \in Of(p)
    BY <1>1, <2>1, ReceiverKnown
  <2>3. /\ UNCHANGED ops
        /\ \A t \in Timers :
             timer'[t] = IF Rearmed(p) /\ t = Recv(p) THEN Wait(o, SilenceOf(o))
                         ELSE IF Suppressed(p) /\ t = Delay(p) THEN Off ELSE timer[t]
    BY <1>1, <2>1, <2>2, Received
  <2>4. Rearmed(p) => o \in Wanted
    BY <2>2 DEF Rearmed, Heard, StartedWanted, Of
  <2>5. Rearmed(p) => SilenceOf(o) < H
    BY <2>4 DEF WaitsFit
  <2> HIDE DEF o
  <2>6. TimesFit'
    <3>1. ASSUME NEW t \in Timers PROVE timer'[t].left < H
      <4> HIDE DEF H
      <4> QED
        BY <1>3, <2>3, <2>5 DEF TimesFit, H
    <3> QED
      BY <3>1 DEF TimesFit
  <2> QED
    BY <2>3, <2>6 DEF StartedWanted, ops
<1>10. CASE SilenceFires
  <2>1. PICK t \in Timers, o \in Operations :
          /\ timer[t].wait = o
          /\ \/ /\ o[2] = "observe" /\ timer' = [timer EXCEPT ![t] = Off]
                /\ UNCHANGED <<m_sockets, m_timers, open, loop, handler, calls>>
             \/ /\ o[2] # "observe" /\ LoopStop({o}, Peer(o), {t}) /\ Complete({o})
    BY <1>1, <1>10, SilenceFired, Zenon
  <2>2. CASE loop' = loop /\ timer' = [timer EXCEPT ![t] = Off]
    BY <1>2, <1>4, <2>2
  <2>3. CASE LoopStop({o}, Peer(o), {t})
    <3>1. Peer(o) \in Peers /\ o # NoWait
      BY Names
    <3>2. /\ \A q \in Operations : loop'[q] = IF q \in {o} THEN "stopped" ELSE loop[q]
          /\ \A u \in Timers : timer'[u] = IF u \in Stopping({o}, Peer(o), {t}) THEN Off ELSE timer[u]
      BY <1>1, <2>3, <3>1, LoopsStopped
    <3>3. loop[o] # "none"
      BY <2>1, <3>1 DEF Inv, WaitsForStarted, HasPending
    <3> QED
      BY <1>4, <3>2, <3>3
  <2> QED
    BY <2>1, <2>2, <2>3
<1>11. CASE DelayFires
  <2>1. PICK p \in Peers : Delay(p) \in Timers /\ timer' = [timer EXCEPT ![Delay(p)] = Off] /\ UNCHANGED ops
    BY <1>1, <1>11, DelayFired
  <2> QED
    BY <1>2, <1>4, <2>1 DEF ops
<1>12. CASE Elapse
  <2>1. /\ \A t \in Timers : timer'[t].left = IF HasPending(t) THEN timer[t].left - 1 ELSE timer[t].left
        /\ UNCHANGED ops
    BY <1>1, <1>12, Elapsed
  <2>2. \A t \in Timers : timer[t].left \in Int
    BY <1>2 DEF TimerStates
  <2>3. TimesFit'
    <3>1. ASSUME NEW t \in Timers PROVE timer'[t].left < H
      <4>1. timer[t].left < H /\ timer[t].left \in Int
        BY <2>2 DEF TimesFit
      <4> HIDE DEF H
      <4> QED
        BY <1>3, <2>1, <4>1
    <3> QED
      BY <3>1 DEF TimesFit
  <2> QED
    BY <2>1, <2>3 DEF StartedWanted, ops
<1> QED
  BY <1>5, <1>6, <1>7, <1>8, <1>9, <1>10, <1>11, <1>12, TableSteps

\* Nothing but time changes what poll() waits for.
LEMMA BlockedSteps ==
    ASSUME Next, phase' = "blocked"
    PROVE  \/ DoPoll \/ Elapse
           \/ phase = "blocked" /\ UNCHANGED <<timer, m_timers, timeout>>
<1>1. CASE Polls
  BY <1>1 DEF Polls, PollReturns
<1>2. CASE Iterate
  BY <1>2 DEF Iterate, Interrupted, SkipReceive, StartFiring, EndIteration
<1>3. CASE LoopStep
  <2>1. ASSUME NEW p \in Peers, ReceivePacket(p) PROVE FALSE
    BY <2>1, Zenon DEF ReceivePacket, Receives
  <2>2. CASE DrainWorkQueue \/ RunTeardown \/ WorkDone
    BY <2>2 DEF DrainWorkQueue, RunTeardown, Working, WorkDone
  <2>3. CASE HandlerReturns
    BY <2>3 DEF HandlerReturns, tables, pollVars
  <2>4. CASE SkipTimer \/ SilenceFires \/ DelayFires
    BY <2>4 DEF SkipTimer, SilenceFires, DelayFires, FiresNext
  <2> QED
    BY <1>3, <2>1, <2>2, <2>3, <2>4 DEF LoopStep
<1>4. CASE Application
  <2>1. ASSUME NEW o \in Wanted, NEW m \in Modes, NEW d \in Delays, StartOperation(o, m, d) PROVE FALSE
    BY <2>1, Zenon DEF StartOperation, Working
  <2>2. ASSUME NEW p \in Peers, AppDestroys(p) \/ HandlerDestroys(p) PROVE FALSE
    BY <2>2, PeerKinds DEF AppDestroys, HandlerDestroys, Working
  <2>3. ASSUME NEW p \in Peers, Stop(p) PROVE phase = "blocked" /\ UNCHANGED <<timer, m_timers, timeout>>
    BY <2>3 DEF Stop, tables, pollVars
  <2> QED
    BY <1>4, <2>1, <2>2, <2>3 DEF Application
<1>5. CASE Arrives
  BY <1>5 DEF Arrives, Arrive, tables, pollVars
<1> QED
  BY <1>1, <1>2, <1>3, <1>4, <1>5 DEF Next

\* poll() is given the time to the first deadline, and waits that long.
LEMMA SleepsExactlyKept ==
    ASSUME Inv, TimesFit, SleepsExactly, Next
    PROVE  SleepsExactly'
<1> SUFFICES ASSUME phase' = "blocked" PROVE Earliest(timeout, Lefts(DOMAIN m_timers))'
  BY DEF SleepsExactly
<1>1. m_timers \in Seq(Timers) /\ timer \in [Timers -> TimerStates] /\ TimersTyped /\ timeout \in Nat \cup {Forever}
  BY TypeParts DEF Inv, TypeOK
<1>2. CASE phase = "blocked" /\ UNCHANGED <<timer, m_timers, timeout>>
  BY <1>2, Zenon DEF SleepsExactly, Earliest, Lefts, HasPending
<1>3. CASE DoPoll
  <2>1. timeout' = (IF ComputeNextTimeout < 0 THEN Forever ELSE ComputeNextTimeout) /\ UNCHANGED <<timer, m_timers>>
    BY <1>3 DEF DoPoll, tables
  <2>2. Earliest(ComputeNextTimeout, Lefts(DOMAIN m_timers))
    BY <1>1, NextTimeoutIsEarliest
  <2>3. ComputeNextTimeout < 0 => ComputeNextTimeout = Forever
    <3>1. \A n \in Int : Clamp(n) >= 0
      BY DEF Clamp
    <3>2. Lefts(DOMAIN m_timers) \subseteq Int
      BY <1>1 DEF Lefts, TimerStates
    <3>3. \A n \in Int : Clamp(n) \in Int
      BY DEF Clamp
    <3> QED
      BY <2>2, <3>1, <3>2, <3>3 DEF Earliest
  <2>4. timeout' = ComputeNextTimeout
    BY <2>1, <2>3
  <2>5. Lefts(DOMAIN m_timers)' = Lefts(DOMAIN m_timers)
    BY <2>1 DEF Lefts, HasPending
  <2> QED
    BY <2>2, <2>4, <2>5 DEF Earliest
<1>4. CASE Elapse
  <2> DEFINE L == Lefts(DOMAIN m_timers)
             I == {k \in DOMAIN m_timers : HasPending(m_timers[k])}
  <2>1. /\ phase = "blocked" /\ m_timers' = m_timers
        /\ \A t \in Timers : /\ timer'[t].wait = timer[t].wait
                             /\ timer'[t].left = IF HasPending(t) THEN timer[t].left - 1 ELSE timer[t].left
    BY <1>1, <1>4, Elapsed
  <2>2. timeout' = IF timeout > 0 THEN timeout - 1 ELSE timeout
    BY <1>4 DEF Elapse
  <2>3. \A k \in DOMAIN m_timers : m_timers[k] \in Timers
    BY <1>1
  <2>4. \A k \in DOMAIN m_timers : HasPending(m_timers[k])' <=> HasPending(m_timers[k])
    BY <2>1, <2>3 DEF HasPending
  <2>5. L' = {timer'[m_timers[k]].left : k \in I}
    BY <2>1, <2>4 DEF Lefts
  <2>6. \A k \in I : timer'[m_timers[k]].left = timer[m_timers[k]].left - 1
    BY <2>1, <2>3
  <2>7. L = {timer[m_timers[k]].left : k \in I}
    BY DEF Lefts
  <2>8. \A k \in I : timer[m_timers[k]].left \in Int
    BY <1>1, <2>3 DEF TimerStates
  <2> HIDE DEF I
  <2>9. L' = {n - 1 : n \in L}
    BY <2>5, <2>6, <2>7
  <2>10. L \subseteq Int
    BY <2>7, <2>8
  <2>11. Earliest(timeout, L)
    BY <2>1 DEF SleepsExactly
  <2>12. \A n \in Int : Clamp(n - 1) = IF Clamp(n) > 0 THEN Clamp(n) - 1 ELSE Clamp(n)
    BY DEF Clamp
  <2> HIDE DEF L
  <2>13. Earliest(timeout', L')
    <3>1. CASE L = {}
      <4>1. timeout = Forever /\ L' = {}
        BY <2>9, <2>11, <3>1 DEF Earliest
      <4> QED
        BY <2>2, <4>1 DEF Earliest, Forever
    <3>2. CASE L # {}
      <4>1. PICK n \in L : (\A m \in L : n <= m) /\ timeout = Clamp(n)
        BY <2>11, <3>2 DEF Earliest
      <4>2. n \in Int /\ n - 1 \in L' /\ \A m \in L' : n - 1 <= m
        BY <2>9, <2>10, <4>1
      <4>3. timeout' = Clamp(n - 1)
        BY <2>2, <2>12, <4>1, <4>2
      <4> QED
        BY <4>2, <4>3 DEF Earliest
    <3> QED
      BY <3>1, <3>2
  <2> QED
    BY <2>13 DEF L, Earliest
<1> QED
  BY <1>2, <1>3, <1>4, BlockedSteps

\* compute_next_timeout_ms() and run(): poll() sleeps until the first deadline of the
\* timers that are waited on, neither longer nor shorter, and for ever when there is none;
\* so long as the waits that are asked for fit into poll()'s int.
THEOREM SleepsUntilFirstDeadline ==
    ASSUME WaitsFit
    PROVE  Spec => []WakesForTimers
<1> DEFINE J == Inv /\ StartedWanted /\ TimesFit /\ SleepsExactly
<1>1. Init => J
  <2> SUFFICES ASSUME Init PROVE StartedWanted /\ TimesFit /\ SleepsExactly
    BY InvAtFirst
  <2>1. loop = [o \in Operations |-> "none"] /\ timer = [t \in Timers |-> Off] /\ phase = "top"
    BY DEF Init, ContextInit
  <2>2. 0 < 2^(IntBits - 1)
    BY ContextBits
  <2> QED
    BY <2>1, <2>2 DEF StartedWanted, TimesFit, SleepsExactly, Off
<1>2. J /\ [Next]_vars => J'
  <2> SUFFICES ASSUME J, [Next]_vars PROVE (StartedWanted /\ TimesFit /\ SleepsExactly)'
    BY InvKept
  <2>1. CASE Next
    BY <2>1, TimesKept, SleepsExactlyKept
  <2>2. CASE UNCHANGED vars
    BY <2>2, Zenon DEF vars, ops, tables, pollVars, StartedWanted, TimesFit, SleepsExactly, Earliest, Lefts, HasPending
  <2> QED
    BY <2>1, <2>2
<1>3. J => WakesForTimers
  <2> SUFFICES ASSUME J, phase = "blocked" PROVE WakesForTimers
    BY Zenon DEF WakesForTimers
  <2> DEFINE left == {timer[t].left : t \in {u \in Range(m_timers) : HasPending(u)}}
             L == Lefts(DOMAIN m_timers)
  <2>1. m_timers \in Seq(Timers) /\ timer \in [Timers -> TimerStates]
    BY DEF Inv, TypeOK
  <2>2. L \subseteq Int
    BY <2>1 DEF Lefts, TimerStates
  <2>3. left = L
    BY <2>1 DEF Lefts, Range
  <2>4. Earliest(timeout, L)
    BY DEF SleepsExactly
  <2> DEFINE Answer(S) == IF S = {} THEN timeout = Forever
                          ELSE LET first == CHOOSE n \in S : \A m \in S : n <= m
                               IN  timeout = IF first > 0 THEN first ELSE 0
  <2>5. Answer(L)
    <3> HIDE DEF L
    <3>1. CASE L = {}
      BY <2>4, <3>1 DEF Earliest
    <3>2. CASE L # {}
      <4> DEFINE first == CHOOSE n \in L : \A m \in L : n <= m
      <4>1. PICK n \in L : (\A m \in L : n <= m) /\ timeout = Clamp(n)
        BY <2>4, <3>2 DEF Earliest
      <4>2. first \in L /\ \A m \in L : first <= m
        BY <4>1
      <4> HIDE DEF first
      <4>3. first = n
        BY <2>2, <4>1, <4>2
      <4>4. timeout = IF first > 0 THEN first ELSE 0
        BY <4>1, <4>3 DEF Clamp
      <4> QED
        BY <3>2, <4>4 DEF first
    <3> QED
      BY <3>1, <3>2
  <2> HIDE DEF L
  <2>6. Answer(left)
    BY <2>3, <2>5, Zenon
  <2> QED
    BY <2>6, Zenon DEF WakesForTimers
<1> HIDE DEF J
<1> QED
  BY <1>1, <1>2, <1>3, PTL DEF Spec

=============================================================================
