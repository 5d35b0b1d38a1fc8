--------------------------- MODULE OnePerPeerProofs ---------------------------
(***************************************************************************)
(* The safety properties of Peers that run one operation each, as the      *)
(* documentation has them: the tables follow the operations, and a delayed *)
(* query goes out in its time.                                             *)
(***************************************************************************)
EXTENDS PeersInvariant

-----------------------------------------------------------------------------
(***************************************************************************)
(* Peers that run one operation each: what the tables hold for them.       *)
(***************************************************************************)
\* Every peer is used for one operation.
OneEach == \A o, q \in Wanted : Peer(o) = Peer(q) => o = q

\* The delay of a query ends before its silence timeout, however late the loop is.
DelaysShort == \A d \in Delays : d + Lateness < Silence

Pair(p) == [fd |-> p, owner |-> p]

\* An entry is of a peer whose operation is running.
EntriesLive == \A e \in Range(m_sockets) : e.fd = e.owner /\ \E o \in Of(e.owner) : loop[o] = "running"

\* A running operation has its peer's receive handler, socket, entry and silence timer.
RunningArmed ==
    \A o \in Operations : loop[o] = "running" =>
      /\ receiver[Peer(o)] = o /\ open[Peer(o)] /\ Pair(Peer(o)) \in Range(m_sockets)
      /\ o[2] = "observe" \/ timer[Recv(Peer(o))].wait = o

\* A socket is closed by the end of an operation, or by the destructor.
OpenUntilStopped == \A p \in Peers : alive[p] /\ (\A o \in Of(p) : loop[o] # "stopped") => open[p]

\* A timer is waited on for a running operation of its owner.
WaitsForRunning ==
    \A t \in Timers : timer[t].wait # NoWait =>
      loop[timer[t].wait] = "running" /\ Peer(timer[t].wait) = Owner(t)

\* A delayed query is asked before silence.
DelayFirst ==
    \A p \in Peers : timer[Delay(p)].wait # NoWait =>
      /\ timer[Delay(p)].wait[2] = "query"
      /\ timer[Delay(p)].left + Lateness < timer[Recv(p)].left
      /\ timer[Delay(p)].left + Lateness < Silence

Alone == /\ StartedWanted /\ EntriesLive /\ RunningArmed
         /\ OpenUntilStopped /\ WaitsForRunning /\ DelayFirst

\* A silence that comes after the delay is not over while the delay is waited for: the
\* loop is not that late.
LEMMA NotPastDelay ==
    ASSUME NEW delay \in Int, NEW silence \in Int,
           delay + Lateness < silence, delay >= -Lateness, silence <= 0
    PROVE  FALSE
BY PeerTimes

\* An operation's own entry is added once.
LEMMA OwnEntryRegistered ==
    ASSUME NEW S \in Seq(SocketEntries), \A e \in Range(S) : e.fd = e.owner, NEW p \in Peers
    PROVE  Range(RegisterSocket(S, p, p)) = Range(S) \cup {Pair(p)}
<1> DEFINE same == {i \in DOMAIN S : S[i].fd = p}
           k == CHOOSE i \in same : \A j \in same : i <= j
           taken == [S EXCEPT ![k].owner = p]
<1>1. CASE same = {}
  <2>1. RegisterSocket(S, p, p) = Append(S, Pair(p))
    BY <1>1 DEF RegisterSocket, Pair
  <2>2. Pair(p) \in SocketEntries
    BY DEF SocketEntries, Pair
  <2> QED
    BY <2>1, <2>2, Appended
<1>2. CASE same # {}
  <2>1. RegisterSocket(S, p, p) = taken
    BY <1>2 DEF RegisterSocket
  <2>2. k \in same
    <3>1. DOMAIN S \subseteq Nat
      OBVIOUS
    <3>2. same \subseteq Nat
      BY <3>1
    <3> HIDE DEF same
    <3> QED
      BY <1>2, <3>2, FirstIndex, Zenon
  <2> HIDE DEF k
  <2>3. k \in DOMAIN S /\ S[k].fd = p /\ S[k] \in SocketEntries /\ S[k] \in Range(S)
    BY <2>2, InRange
  <2>4. S[k].owner = p
    BY <2>3
  <2>5. S[k] = Pair(p)
    BY <2>3, <2>4 DEF SocketEntries, Pair
  <2>6. [S[k] EXCEPT !.owner = p] = S[k]
    BY <2>5 DEF Pair
  <2>7. taken = S
    BY <2>3, <2>6
  <2> QED
    BY <2>1, <2>3, <2>5, <2>7, Zenon
<1> QED
  BY <1>1, <1>2

\* A peer runs one operation at most.
LEMMA OnlyOne ==
    ASSUME OneEach, StartedWanted, NEW o \in Operations, NEW q \in Operations,
           loop[o] # "none", loop[q] # "none", Peer(o) = Peer(q)
    PROVE  o = q
BY DEF OneEach, StartedWanted

\* What the end of peer p's operation does, if it has one: the loop stops, the socket's
\* entries go, and so does every timer that is waited on.
Ends(p) ==
    /\ \A o \in Operations : loop'[o] = IF Peer(o) = p /\ loop[o] = "running" THEN "stopped" ELSE loop[o]
    /\ \A t \in Timers : /\ Owner(t) # p => timer'[t] = timer[t]
                         /\ Owner(t) = p => timer'[t].wait = NoWait
    /\ \A e : e \in Range(m_sockets') <=> e \in Range(m_sockets) /\ e.fd # p
    /\ \A q \in Peers : q # p => open'[q] = open[q] /\ alive'[q] = alive[q]
    /\ alive'[p] /\ (\A o \in Of(p) : loop'[o] # "stopped") => open'[p]
    /\ receiver' = receiver

\* The other peers do not notice.
LEMMA AloneWhenEnds ==
    ASSUME Inv, Alone, NEW p \in Peers, Ends(p)
    PROVE  Alone'
<1>1. loop \in [Operations -> {"none", "running", "stopped"}] /\ timer \in [Timers -> TimerStates]
      /\ m_sockets \in Seq(SocketEntries)
  BY DEF Inv, TypeOK
<1>2. /\ StartedWanted /\ EntriesLive /\ RunningArmed
      /\ OpenUntilStopped /\ WaitsForRunning /\ DelayFirst
  BY DEF Alone
<1>3. \A o \in Operations : loop'[o] = IF Peer(o) = p /\ loop[o] = "running" THEN "stopped" ELSE loop[o]
  BY DEF Ends
<1>4. \A t \in Timers : /\ Owner(t) # p => timer'[t] = timer[t]
                        /\ Owner(t) = p => timer'[t].wait = NoWait
  BY DEF Ends
<1>5. \A e : e \in Range(m_sockets') <=> e \in Range(m_sockets) /\ e.fd # p
  BY DEF Ends
<1>6. \A t \in Timers : timer[t].wait # NoWait => timer[t].wait \in Operations
  BY <1>1 DEF TimerStates
<1>7. StartedWanted'
  BY <1>2, <1>3 DEF StartedWanted
<1>8. EntriesLive'
  <2>1. ASSUME NEW e \in Range(m_sockets') PROVE e.fd = e.owner /\ \E o \in Of(e.owner) : loop'[o] = "running"
    <3>1. e \in Range(m_sockets) /\ e.fd # p
      BY <1>5
    <3>2. PICK o \in Of(e.owner) : e.fd = e.owner /\ loop[o] = "running"
      BY <1>2, <3>1 DEF EntriesLive
    <3>3. o \in Operations /\ Peer(o) # p
      BY <3>1, <3>2 DEF Of
    <3> QED
      BY <1>3, <3>2, <3>3
  <2> QED
    BY <2>1 DEF EntriesLive, Of
<1>9. RunningArmed'
  <2>1. ASSUME NEW o \in Operations, loop'[o] = "running"
        PROVE  /\ receiver'[Peer(o)] = o /\ open'[Peer(o)] /\ Pair(Peer(o)) \in Range(m_sockets')
               /\ o[2] = "observe" \/ timer'[Recv(Peer(o))].wait = o
    <3>1. loop[o] = "running" /\ Peer(o) # p
      BY <1>3, <2>1
    <3>2. /\ receiver[Peer(o)] = o /\ open[Peer(o)] /\ Pair(Peer(o)) \in Range(m_sockets)
          /\ o[2] = "observe" \/ timer[Recv(Peer(o))].wait = o
      BY <1>2, <3>1 DEF RunningArmed
    <3>3. Peer(o) \in Peers /\ Recv(Peer(o)) \in Timers /\ Owner(Recv(Peer(o))) = Peer(o)
      BY Names
    <3>4. Pair(Peer(o)).fd # p
      BY <3>1 DEF Pair
    <3>5. receiver' = receiver /\ open'[Peer(o)] = open[Peer(o)]
      BY <3>1, <3>3 DEF Ends
    <3>6. Pair(Peer(o)) \in Range(m_sockets')
      BY <1>5, <3>2, <3>4
    <3>7. timer'[Recv(Peer(o))] = timer[Recv(Peer(o))]
      BY <1>4, <3>1, <3>3
    <3> QED
      BY <3>2, <3>5, <3>6, <3>7
  <2> QED
    BY <2>1 DEF RunningArmed
<1>10. OpenUntilStopped'
  <2>1. ASSUME NEW q \in Peers, alive'[q], \A o \in Of(q) : loop'[o] # "stopped" PROVE open'[q]
    <3>1. CASE q = p
      BY <2>1, <3>1 DEF Ends
    <3>2. CASE q # p
      <4>1. \A o \in Of(q) : o \in Operations /\ loop'[o] = loop[o]
        BY <1>3, <3>2 DEF Of
      <4>2. open'[q] = open[q] /\ alive'[q] = alive[q]
        BY <3>2 DEF Ends
      <4> QED
        BY <1>2, <2>1, <4>1, <4>2 DEF OpenUntilStopped
    <3> QED
      BY <3>1, <3>2
  <2> QED
    BY <2>1 DEF OpenUntilStopped, Of
<1>11. WaitsForRunning'
  <2>1. ASSUME NEW t \in Timers, timer'[t].wait # NoWait
        PROVE  loop'[timer'[t].wait] = "running" /\ Peer(timer'[t].wait) = Owner(t)
    <3>1. Owner(t) # p /\ timer'[t] = timer[t]
      BY <1>4, <2>1
    <3>2. loop[timer[t].wait] = "running" /\ Peer(timer[t].wait) = Owner(t) /\ timer[t].wait \in Operations
      BY <1>2, <1>6, <2>1, <3>1 DEF WaitsForRunning
    <3> QED
      BY <1>3, <3>1, <3>2
  <2> QED
    BY <2>1 DEF WaitsForRunning
<1>12. DelayFirst'
  <2>1. ASSUME NEW q \in Peers, timer'[Delay(q)].wait # NoWait
        PROVE  /\ timer'[Delay(q)].wait[2] = "query"
               /\ timer'[Delay(q)].left + Lateness < timer'[Recv(q)].left
               /\ timer'[Delay(q)].left + Lateness < Silence
    <3>1. /\ Recv(q) \in Timers /\ Delay(q) \in Timers
          /\ Owner(Recv(q)) = q /\ Owner(Delay(q)) = q
      BY Names
    <3>2. q # p
      BY <1>4, <2>1, <3>1
    <3>3. timer'[Delay(q)] = timer[Delay(q)] /\ timer'[Recv(q)] = timer[Recv(q)]
      BY <1>4, <3>1, <3>2
    <3> QED
      BY <1>2, <2>1, <3>3 DEF DelayFirst
  <2> QED
    BY <2>1 DEF DelayFirst
<1> QED
  BY <1>7, <1>8, <1>9, <1>10, <1>11, <1>12 DEF Alone

\* The entries of a peer whose socket is closed, or stays as it is with nothing running.
LEMMA NoEntryUnlessRunning ==
    ASSUME Inv, Alone, NEW p \in Peers, \/ ~open[p] \/ Running(p) = {}
    PROVE  \A e \in Range(m_sockets) : e.fd # p
<1> SUFFICES ASSUME NEW e \in Range(m_sockets), e.fd = p PROVE FALSE
  OBVIOUS
<1>1. PICK o \in Of(p) : loop[o] = "running"
  BY DEF Alone, EntriesLive
<1>2. o \in Operations /\ Peer(o) = p /\ o \in Running(p)
  BY <1>1 DEF Of, Running
<1>3. open[p]
  BY <1>1, <1>2 DEF Alone, RunningArmed
<1> QED
  BY <1>2, <1>3

\* recv_loop::stop() with the timers of the peer ends its operation.
LEMMA StopEnds ==
    ASSUME Inv, Alone, NEW p \in Peers, NEW C, LoopStop(Running(p), p, C),
           receiver' = receiver, alive' = alive,
           \A t \in Timers : t \in C => Owner(t) = p,
           \A t \in Timers : Owner(t) = p /\ timer[t].wait # NoWait => t \in Stopping(Running(p), p, C)
    PROVE  Ends(p)
<1> DEFINE S == Running(p)
           D == Stopping(S, p, C)
<1>1. SocketsTyped /\ TimersTyped /\ OpsTyped
  BY TypeParts DEF Inv
<1>2. /\ \A o \in Operations : loop'[o] = IF o \in S THEN "stopped" ELSE loop[o]
      /\ \A t \in Timers : timer'[t] = IF t \in D THEN Off ELSE timer[t]
      /\ S = {} => UNCHANGED <<m_sockets, open>>
      /\ S # {} => Close(p)
  BY <1>1, LoopsStopped
<1>3. \A o \in Operations : o \in S <=> Peer(o) = p /\ loop[o] = "running"
  BY DEF Running, Of
<1>4. \A o \in Operations : loop'[o] = IF Peer(o) = p /\ loop[o] = "running" THEN "stopped" ELSE loop[o]
  BY <1>2, <1>3
<1>5. \A t \in Timers : t \in D => Owner(t) = p
  BY Names DEF Stopping
<1>6. Off.wait = NoWait
  BY DEF Off
<1>7. \A t \in Timers : Owner(t) = p /\ timer[t].wait # NoWait => t \in D
  OBVIOUS
<1> HIDE DEF D
<1>8. \A t \in Timers : /\ Owner(t) # p => timer'[t] = timer[t]
                        /\ Owner(t) = p => timer'[t].wait = NoWait
  BY <1>2, <1>5, <1>6, <1>7
<1>9. CASE S = {}
  <2>1. \A e \in Range(m_sockets) : e.fd # p
    BY <1>9, NoEntryUnlessRunning
  <2>2. alive[p] /\ (\A o \in Of(p) : loop[o] # "stopped") => open[p]
    BY DEF Alone, OpenUntilStopped
  <2>3. \A o \in Of(p) : loop'[o] = loop[o]
    BY <1>2, <1>9 DEF Of
  <2> QED
    BY <1>2, <1>4, <1>8, <1>9, <2>1, <2>2, <2>3 DEF Ends
<1>10. CASE S # {}
  <2>1. PICK q \in Of(p) : loop[q] = "running"
    BY <1>10 DEF Running
  <2>2. q \in Operations /\ Peer(q) = p
    BY DEF Of
  <2>3. open[p] /\ loop'[q] = "stopped"
    BY <1>4, <2>1, <2>2 DEF Alone, RunningArmed
  <2>4. /\ open' = [open EXCEPT ![p] = FALSE]
        /\ Range(m_sockets') \subseteq Range(m_sockets)
        /\ \A e \in Range(m_sockets') : e.fd # p
        /\ \A e \in Range(m_sockets) : e.fd # p => e \in Range(m_sockets')
    BY <1>1, <1>2, <1>10, <2>3, SocketClosed
  <2>5. \A r \in Peers : r # p => open'[r] = open[r]
    BY <1>1, <2>4 DEF SocketsTyped
  <2> QED
    BY <1>4, <1>8, <2>3, <2>4, <2>5 DEF Ends
<1> QED
  BY <1>9, <1>10

\* So does the destructor.
LEMMA DestroyEnds ==
    ASSUME Inv, Alone, NEW p \in Peers, Destroy(p)
    PROVE  Ends(p)
<1>1. SocketsTyped /\ TimersTyped /\ OpsTyped /\ alive \in [Peers -> BOOLEAN] /\ open \in [Peers -> BOOLEAN]
  BY TypeParts DEF Inv, TypeOK
<1>2. /\ alive' = [alive EXCEPT ![p] = FALSE] /\ Close(p) /\ receiver' = receiver
      /\ \A t \in Timers : timer'[t] = IF t \in {Recv(p), Delay(p)} THEN Off ELSE timer[t]
      /\ \A o \in Operations : loop'[o] = IF Peer(o) = p /\ loop[o] = "running" THEN "stopped" ELSE loop[o]
  BY <1>1, Destroyed
<1>3. Off.wait = NoWait
  BY DEF Off
<1>4. \A t \in Timers : t \in {Recv(p), Delay(p)} <=> Owner(t) = p
  BY Names
<1>5. /\ open' = [open EXCEPT ![p] = FALSE]
      /\ Range(m_sockets') \subseteq Range(m_sockets)
      /\ open[p] => \A e \in Range(m_sockets') : e.fd # p
      /\ \A e \in Range(m_sockets) : e.fd # p => e \in Range(m_sockets')
  BY <1>1, <1>2, SocketClosed
<1>6. ~open[p] => \A e \in Range(m_sockets) : e.fd # p
  BY NoEntryUnlessRunning
<1>7. \A e : e \in Range(m_sockets') <=> e \in Range(m_sockets) /\ e.fd # p
  BY <1>5, <1>6
<1>8. (\A q \in Peers : q # p => open'[q] = open[q] /\ alive'[q] = alive[q]) /\ ~alive'[p]
  BY <1>1, <1>2, <1>5
<1>9. \A t \in Timers : /\ Owner(t) # p => timer'[t] = timer[t]
                        /\ Owner(t) = p => timer'[t].wait = NoWait
  BY <1>2, <1>3, <1>4
<1> QED
  BY <1>2, <1>7, <1>8, <1>9 DEF Ends

\* Starting the one operation of a peer.
LEMMA AloneWhenStarts ==
    ASSUME OneEach, DelaysShort, Inv, Alone, Starting
    PROVE  Alone'
<1>1. PICK o \in Wanted, m \in Modes, d \in Delays : StartOperation(o, m, d)
  BY DEF Starting
<1> DEFINE p == Peer(o)
<1>2. o \in Operations /\ p \in Peers /\ o \in Of(p) /\ o # NoWait
  BY PeerKinds, Names
<1>3. SocketsTyped /\ TimersTyped /\ OpsTyped
  BY TypeParts DEF Inv
<1>4. /\ open' = open /\ alive' = alive /\ alive[p] /\ loop[o] = "none"
      /\ m_sockets' = RegisterSocket(m_sockets, Fd(p), p)
      /\ \A t \in Timers : timer'[t] = IF t = Recv(p) THEN Wait(o, SilenceOf(o))
                                       ELSE IF Delayed(o, m) /\ t = Delay(p) THEN Wait(o, d)
                                       ELSE timer[t]
      /\ loop' = [loop EXCEPT ![o] = "running"]
      /\ receiver' = [receiver EXCEPT ![p] = o]
  BY <1>1, <1>2, <1>3, Started
<1>5. /\ loop \in [Operations -> {"none", "running", "stopped"}] /\ timer \in [Timers -> TimerStates]
      /\ m_sockets \in Seq(SocketEntries) /\ open \in [Peers -> BOOLEAN]
      /\ receiver \in [Peers -> Operations \cup {NoWait}]
  BY DEF Inv, TypeOK
<1>6. /\ StartedWanted /\ EntriesLive /\ RunningArmed
      /\ OpenUntilStopped /\ WaitsForRunning /\ DelayFirst
  BY DEF Alone
<1>7. \A q \in Operations : Peer(q) = p => loop[q] = "none"
  BY <1>4, <1>6 DEF OneEach, StartedWanted
<1> HIDE DEF p
<1>8. open[p]
  BY <1>2, <1>4, <1>6, <1>7 DEF OpenUntilStopped, Of
<1>9. Range(m_sockets') = Range(m_sockets) \cup {Pair(p)}
  BY <1>2, <1>4, <1>5, <1>6, <1>8, OwnEntryRegistered DEF Fd, EntriesLive
<1>10. \A q \in Operations : loop'[q] = IF q = o THEN "running" ELSE loop[q]
  BY <1>4, <1>5
<1>11. /\ \A l : Wait(o, l).wait = o /\ Wait(o, l).left = l
       /\ \A t \in Timers : timer[t].wait # NoWait => timer[t].wait \in Operations
  BY <1>5 DEF Wait, TimerStates
<1>12. StartedWanted'
  BY <1>6, <1>10 DEF StartedWanted
<1>13. EntriesLive'
  <2>1. ASSUME NEW e \in Range(m_sockets') PROVE e.fd = e.owner /\ \E q \in Of(e.owner) : loop'[q] = "running"
    <3>1. CASE e \in Range(m_sockets)
      <4>1. e.fd = e.owner /\ \E q \in Of(e.owner) : loop[q] = "running"
        BY <1>6, <3>1 DEF EntriesLive
      <4>2. \A q \in Of(e.owner) : q \in Operations
        BY DEF Of
      <4> QED
        BY <1>10, <4>1, <4>2
    <3>2. CASE e = Pair(p)
      <4>1. e.fd = p /\ e.owner = p
        BY <3>2 DEF Pair
      <4> QED
        BY <1>2, <1>10, <4>1 DEF p
    <3> QED
      BY <1>9, <3>1, <3>2
  <2> QED
    BY <2>1 DEF EntriesLive, Of
<1>14. RunningArmed'
  <2>1. ASSUME NEW q \in Operations, loop'[q] = "running"
        PROVE  /\ receiver'[Peer(q)] = q /\ open'[Peer(q)] /\ Pair(Peer(q)) \in Range(m_sockets')
               /\ q[2] = "observe" \/ timer'[Recv(Peer(q))].wait = q
    <3>1. CASE q = o
      <4>1. Recv(p) \in Timers
        BY <1>2, Names
      <4>2. Peer(q) = p /\ timer'[Recv(p)].wait = o
        BY <1>4, <1>11, <3>1, <4>1 DEF p
      <4>3. receiver'[p] = o
        BY <1>2, <1>4, <1>5
      <4> QED
        BY <1>4, <1>8, <1>9, <3>1, <4>2, <4>3
    <3>2. CASE q # o
      <4>1. loop[q] = "running" /\ Peer(q) # p /\ Peer(q) \in Peers
        BY <1>7, <1>10, <2>1, <3>2, Names
      <4>2. /\ receiver[Peer(q)] = q /\ open[Peer(q)] /\ Pair(Peer(q)) \in Range(m_sockets)
            /\ q[2] = "observe" \/ timer[Recv(Peer(q))].wait = q
        BY <1>6, <4>1 DEF RunningArmed
      <4>3. Recv(Peer(q)) \in Timers /\ Recv(Peer(q)) # Recv(p) /\ Recv(Peer(q)) # Delay(p)
        BY <1>2, <4>1, Names
      <4>4. timer'[Recv(Peer(q))] = timer[Recv(Peer(q))]
        BY <1>4, <4>3
      <4>5. receiver'[Peer(q)] = receiver[Peer(q)]
        BY <1>4, <1>5, <4>1
      <4> QED
        BY <1>4, <1>9, <4>2, <4>4, <4>5
    <3> QED
      BY <3>1, <3>2
  <2> QED
    BY <2>1 DEF RunningArmed
<1>15. OpenUntilStopped'
  <2>1. ASSUME NEW q \in Peers, alive'[q], \A x \in Of(q) : loop'[x] # "stopped" PROVE open'[q]
    <3>1. CASE q = p
      BY <1>4, <1>8, <3>1
    <3>2. CASE q # p
      <4>1. \A x \in Of(q) : x \in Operations /\ x # o
        BY <3>2 DEF Of, p
      <4> QED
        BY <1>4, <1>6, <1>10, <2>1, <4>1 DEF OpenUntilStopped
    <3> QED
      BY <3>1, <3>2
  <2> QED
    BY <2>1 DEF OpenUntilStopped, Of
<1>16. WaitsForRunning'
  <2>1. ASSUME NEW t \in Timers, timer'[t].wait # NoWait
        PROVE  loop'[timer'[t].wait] = "running" /\ Peer(timer'[t].wait) = Owner(t)
    <3>1. CASE t = Recv(p) \/ (Delayed(o, m) /\ t = Delay(p))
      <4>1. timer'[t].wait = o
        BY <1>4, <1>11, <3>1
      <4>2. Owner(t) = p
        BY <1>2, <3>1, Names
      <4> QED
        BY <1>2, <1>10, <4>1, <4>2 DEF p
    <3>2. CASE ~(t = Recv(p) \/ (Delayed(o, m) /\ t = Delay(p)))
      <4>1. timer'[t] = timer[t]
        BY <1>4, <3>2
      <4>2. loop[timer[t].wait] = "running" /\ Peer(timer[t].wait) = Owner(t) /\ timer[t].wait \in Operations
        BY <1>6, <1>11, <2>1, <4>1 DEF WaitsForRunning
      <4> QED
        BY <1>10, <4>1, <4>2
    <3> QED
      BY <3>1, <3>2
  <2> QED
    BY <2>1 DEF WaitsForRunning
<1>17. DelayFirst'
  <2>1. ASSUME NEW q \in Peers, timer'[Delay(q)].wait # NoWait
        PROVE  /\ timer'[Delay(q)].wait[2] = "query"
               /\ timer'[Delay(q)].left + Lateness < timer'[Recv(q)].left
               /\ timer'[Delay(q)].left + Lateness < Silence
    <3>1. Delay(q) \in Timers /\ Recv(q) \in Timers /\ Owner(Delay(q)) = q
          /\ Delay(q) # Recv(p) /\ Recv(q) # Delay(p)
      BY <1>2, Names
    <3>2. CASE q = p
      <4>1. Delayed(o, m)
        <5> SUFFICES ASSUME ~Delayed(o, m) PROVE FALSE
          OBVIOUS
        <5>1. timer'[Delay(q)] = timer[Delay(q)]
          BY <1>4, <3>1
        <5>2. loop[timer[Delay(q)].wait] = "running" /\ Peer(timer[Delay(q)].wait) = p
              /\ timer[Delay(q)].wait \in Operations
          BY <1>6, <1>11, <2>1, <3>1, <3>2, <5>1 DEF WaitsForRunning
        <5> QED
          BY <1>7, <5>2
      <4>2. o[2] = "query"
        BY <4>1 DEF Delayed
      <4>3. timer'[Delay(q)] = Wait(o, d) /\ timer'[Recv(q)] = Wait(o, SilenceOf(o))
        BY <1>4, <3>1, <3>2, <4>1
      <4>4. SilenceOf(o) = Silence
        BY <4>2 DEF SilenceOf
      <4>5. d + Lateness < Silence
        BY DEF DelaysShort
      <4> QED
        BY <1>11, <4>2, <4>3, <4>4, <4>5
    <3>3. CASE q # p
      <4>1. Delay(q) # Delay(p) /\ Recv(q) # Recv(p)
        BY <1>2, <3>3, Names
      <4>2. timer'[Delay(q)] = timer[Delay(q)] /\ timer'[Recv(q)] = timer[Recv(q)]
        BY <1>4, <3>1, <4>1
      <4> QED
        BY <1>6, <2>1, <4>2 DEF DelayFirst
    <3> QED
      BY <3>2, <3>3
  <2> QED
    BY <2>1 DEF DelayFirst
<1> QED
  BY <1>12, <1>13, <1>14, <1>15, <1>16, <1>17 DEF Alone

\* The teardown that stop() posted ends the operation of its peer.
LEMMA AloneWhenTornDown ==
    ASSUME Inv, Alone, RunTeardown
    PROVE  Alone'
<1>1. TypeOK /\ UsersTyped
  BY TypeParts DEF Inv
<1>2. UNCHANGED <<alive, receiver>>
  BY <1>1, TornDown
<1>3. CASE UNCHANGED <<tables, loop, handler, calls>>
  BY <1>2, <1>3, Zenon DEF tables, Alone, StartedWanted, EntriesLive, RunningArmed, OpenUntilStopped,
                    WaitsForRunning, DelayFirst, Of
<1>4. ASSUME NEW p \in Peers, LoopStop(Running(p), p, Waits(p)) PROVE Alone'
  <2>1. \A t \in Timers : t \in Waits(p) => Owner(t) = p
    BY Names DEF Waits
  <2>2. ASSUME NEW t \in Timers, Owner(t) = p, timer[t].wait # NoWait
        PROVE  t \in Stopping(Running(p), p, Waits(p))
    <3> DEFINE q == timer[t].wait
    <3>1. q \in Operations
      BY <1>1, <2>2 DEF TypeOK, TimerStates
    <3>2. loop[q] = "running" /\ Peer(q) = p
      BY <2>2 DEF Alone, WaitsForRunning
    <3>3. Running(p) # {}
      BY <3>1, <3>2 DEF Running, Of
    <3>4. t \in {Recv(p), Delay(p)}
      BY <2>2, Names
    <3>5. t = Delay(p) => q[2] = "query"
      BY <2>2 DEF Alone, DelayFirst
    <3>6. q[2] = "query" => Kind[p] = "querier"
      <4>1. q[2] \in OpsOf(Kind[p]) /\ Kind[p] \in {"querier", "observer", "discovery"}
        BY <3>1, <3>2, PeerKinds DEF Operations, Peer
      <4> QED
        BY <4>1 DEF OpsOf
    <3> HIDE DEF q
    <3> QED
      BY <3>3, <3>4, <3>5, <3>6 DEF Stopping, Waits
  <2>3. Ends(p)
    BY <1>2, <1>4, <2>1, <2>2, StopEnds
  <2> QED
    BY <2>3, AloneWhenEnds
<1> QED
  BY <1>1, <1>3, <1>4, TornDown, Zenon

\* The destructor, by the application or in another peer's completion handler.
LEMMA AloneWhenDestroyed ==
    ASSUME Inv, Alone, Destroys
    PROVE  Alone'
<1>1. PICK p \in Peers : Destroy(p)
  BY DEF Destroys
<1> QED
  BY <1>1, DestroyEnds, AloneWhenEnds

\* A packet goes to the operation that runs, and leaves the sockets as they were.
LEMMA AloneWhenReceives ==
    ASSUME OneEach, Inv, Alone, Receiving
    PROVE  Alone'
<1>1. PICK p \in Peers : ReceivePacket(p)
  BY DEF Receiving
<1>2. SocketsTyped /\ TimersTyped /\ OpsTyped
  BY TypeParts DEF Inv
<1>3. PICK e \in Range(m_sockets) : receiver[p] \in Of(p) /\ e.owner = p
  BY <1>1, ReceiverKnown DEF Inv
<1>4. /\ StartedWanted /\ EntriesLive /\ RunningArmed
      /\ OpenUntilStopped /\ WaitsForRunning /\ DelayFirst
  BY DEF Alone
<1>5. PICK o \in Of(p) : loop[o] = "running"
  BY <1>3, <1>4 DEF EntriesLive
<1>6. o \in Operations /\ Peer(o) = p /\ o # NoWait
  BY <1>5, Names DEF Of
<1>7. receiver[p] = o /\ open[p] /\ Pair(p) \in Range(m_sockets)
  BY <1>4, <1>5, <1>6 DEF RunningArmed
<1>8. /\ open' = open /\ UNCHANGED ops /\ alive' = alive
      /\ m_sockets' = RegisterSocket(m_sockets, Fd(p), p)
      /\ \A t \in Timers :
           timer'[t] = IF Rearmed(p) /\ t = Recv(p) THEN Wait(o, SilenceOf(o))
                       ELSE IF Suppressed(p) /\ t = Delay(p) THEN Off ELSE timer[t]
  BY <1>1, <1>2, <1>3, <1>5, <1>7, Received, Zenon
<1>9. m_sockets \in Seq(SocketEntries) /\ timer \in [Timers -> TimerStates]
  BY DEF Inv, TypeOK
<1>10. Range(m_sockets') = Range(m_sockets)
  <2>1. m_sockets' = RegisterSocket(m_sockets, p, p)
    BY <1>7, <1>8 DEF Fd
  <2>2. \A x \in Range(m_sockets) : x.fd = x.owner
    BY <1>4 DEF EntriesLive
  <2>3. Range(m_sockets') = Range(m_sockets) \cup {Pair(p)}
    BY <1>9, <2>1, <2>2, OwnEntryRegistered
  <2> QED
    BY <1>7, <2>3
<1>11. /\ Wait(o, SilenceOf(o)).wait = o /\ Wait(o, SilenceOf(o)).left = SilenceOf(o) /\ Off.wait = NoWait
       /\ \A t \in Timers : timer[t].wait # NoWait => timer[t].wait \in Operations
  BY <1>9 DEF Wait, Off, TimerStates
<1>12. loop' = loop /\ receiver' = receiver
  BY <1>8 DEF ops
<1>13. Recv(p) \in Timers /\ Delay(p) \in Timers /\ Owner(Recv(p)) = p
  BY Names
<1>14. StartedWanted' /\ EntriesLive' /\ OpenUntilStopped'
  BY <1>4, <1>8, <1>10, <1>12, Zenon DEF StartedWanted, EntriesLive, OpenUntilStopped, Of
<1>15. RunningArmed'
  <2>1. ASSUME NEW q \in Operations, loop[q] = "running"
        PROVE  q[2] = "observe" \/ timer'[Recv(Peer(q))].wait = q
    <3>1. q[2] = "observe" \/ timer[Recv(Peer(q))].wait = q
      BY <1>4, <2>1 DEF RunningArmed
    <3>2. Peer(q) = p => q = o
      BY <1>4, <1>5, <1>6, <2>1, OnlyOne
    <3>3. Peer(q) \in Peers /\ Recv(Peer(q)) \in Timers /\ Recv(Peer(q)) # Delay(p)
          /\ (Peer(q) # p => Recv(Peer(q)) # Recv(p))
      BY Names
    <3> QED
      BY <1>8, <1>11, <3>1, <3>2, <3>3, Zenon
  <2> QED
    BY <1>4, <1>8, <1>10, <1>12, <2>1, Zenon DEF RunningArmed
<1>16. WaitsForRunning'
  <2>1. ASSUME NEW t \in Timers, timer'[t].wait # NoWait
        PROVE  loop[timer'[t].wait] = "running" /\ Peer(timer'[t].wait) = Owner(t)
    <3>1. CASE timer'[t] = timer[t]
      BY <1>4, <2>1, <3>1 DEF WaitsForRunning
    <3>2. CASE t = Recv(p) /\ timer'[t].wait = o
      BY <1>5, <1>6, <1>13, <3>2
    <3> QED
      BY <1>8, <1>11, <2>1, <3>1, <3>2, Zenon
  <2> QED
    BY <1>12, <2>1 DEF WaitsForRunning
<1>17. DelayFirst'
  <2>1. ASSUME NEW q \in Peers, timer'[Delay(q)].wait # NoWait
        PROVE  /\ timer'[Delay(q)].wait[2] = "query"
               /\ timer'[Delay(q)].left + Lateness < timer'[Recv(q)].left
               /\ timer'[Delay(q)].left + Lateness < Silence
    <3>1. Delay(q) \in Timers /\ Recv(q) \in Timers /\ Owner(Delay(q)) = q
          /\ Delay(q) # Recv(p) /\ Recv(q) # Delay(p) /\ (q # p => Recv(q) # Recv(p))
      BY Names
    <3>2. timer'[Delay(q)] = timer[Delay(q)]
      BY <1>8, <1>11, <2>1, <3>1, Zenon
    <3>3. /\ timer[Delay(q)].wait[2] = "query"
          /\ timer[Delay(q)].left + Lateness < timer[Recv(q)].left
          /\ timer[Delay(q)].left + Lateness < Silence
      BY <1>4, <2>1, <3>2 DEF DelayFirst
    <3>4. CASE timer'[Recv(q)] = timer[Recv(q)]
      BY <3>2, <3>3, <3>4
    <3>5. CASE q = p /\ timer'[Recv(q)] = Wait(o, SilenceOf(o))
      <4> DEFINE w == timer[Delay(q)].wait
      <4>1. w \in Operations /\ loop[w] = "running" /\ Peer(w) = p
        BY <1>4, <1>11, <2>1, <3>1, <3>2, <3>5 DEF WaitsForRunning
      <4>2. w = o
        BY <1>4, <1>5, <1>6, <4>1, OnlyOne
      <4>3. SilenceOf(o) = Silence
        BY <3>3, <4>2 DEF SilenceOf
      <4> QED
        BY <1>11, <3>2, <3>3, <3>5, <4>3
    <3> QED
      BY <1>8, <3>1, <3>4, <3>5, Zenon
  <2> QED
    BY <2>1 DEF DelayFirst
<1> QED
  BY <1>14, <1>15, <1>16, <1>17 DEF Alone

\* A timer that is dropped leaves the rest of the invariant alone, unless a running
\* operation counts on it.
LEMMA AloneWhenDropped ==
    ASSUME Inv, Alone, NEW t \in Timers, timer' = [timer EXCEPT ![t] = Off],
           UNCHANGED <<m_sockets, open, loop, receiver, alive>>,
           \A o \in Operations : loop[o] = "running" /\ o[2] # "observe" => t # Recv(Peer(o)),
           \A p \in Peers : t = Recv(p) => timer[Delay(p)].wait = NoWait
    PROVE  Alone'
<1>1. /\ StartedWanted /\ EntriesLive /\ RunningArmed
      /\ OpenUntilStopped /\ WaitsForRunning /\ DelayFirst
  BY DEF Alone
<1>2. timer \in [Timers -> TimerStates]
  BY DEF Inv, TypeOK
<1>3. \A u \in Timers : timer'[u] = IF u = t THEN Off ELSE timer[u]
  BY <1>2
<1>4. Off.wait = NoWait
  BY DEF Off
<1>5. StartedWanted' /\ EntriesLive' /\ OpenUntilStopped'
  BY <1>1 DEF StartedWanted, EntriesLive, OpenUntilStopped, Of
<1>6. RunningArmed'
  <2>1. ASSUME NEW q \in Operations, loop[q] = "running"
        PROVE  q[2] = "observe" \/ timer'[Recv(Peer(q))].wait = q
    <3>1. Recv(Peer(q)) \in Timers
      BY Names
    <3> QED
      BY <1>1, <1>3, <2>1, <3>1 DEF RunningArmed
  <2> QED
    BY <1>1, <2>1 DEF RunningArmed
<1>7. WaitsForRunning'
  BY <1>1, <1>3, <1>4 DEF WaitsForRunning
<1>8. DelayFirst'
  <2>1. \A q \in Peers : Delay(q) \in Timers /\ Recv(q) \in Timers
    BY Names
  <2> QED
    BY <1>1, <1>3, <1>4, <2>1 DEF DelayFirst
<1> QED
  BY <1>5, <1>6, <1>7, <1>8 DEF Alone

\* Silence ends the operation, or drops an observer's timer.
LEMMA AloneWhenSilent ==
    ASSUME OneEach, Inv, Alone, SilenceFires
    PROVE  Alone'
<1>1. TimersTyped /\ PollTyped /\ timer \in [Timers -> TimerStates]
  BY TypeParts DEF Inv, TypeOK
<1>2. PICK t \in Timers, o \in Operations :
        /\ timer[t].wait = o /\ timer[t].left <= 0
        /\ t = Recv(Owner(t)) /\ receiver' = receiver /\ alive' = alive
        /\ \/ /\ o[2] = "observe" /\ timer' = [timer EXCEPT ![t] = Off]
              /\ UNCHANGED <<m_sockets, m_timers, open, loop, handler, calls>>
           \/ /\ o[2] # "observe" /\ LoopStop({o}, Peer(o), {t}) /\ Complete({o})
  BY <1>1, SilenceFired, Zenon
<1>3. o # NoWait /\ Peer(o) \in Peers /\ Owner(t) \in Peers
  BY Names
<1>4. StartedWanted /\ WaitsForRunning /\ DelayFirst
  BY DEF Alone
<1>5. loop[o] = "running" /\ Peer(o) = Owner(t)
  BY <1>2, <1>3, <1>4 DEF WaitsForRunning
<1>6. \A q \in Operations : loop[q] # "none" /\ Peer(q) = Peer(o) => q = o
  BY <1>4, <1>5, OnlyOne
<1>7. timer[Delay(Peer(o))].wait = NoWait
  <2> SUFFICES ASSUME timer[Delay(Peer(o))].wait # NoWait PROVE FALSE
    OBVIOUS
  <2>1. timer[Delay(Peer(o))].left + Lateness < timer[t].left
    BY <1>2, <1>3, <1>4, <1>5 DEF DelayFirst
  <2>2. Delay(Peer(o)) \in Timers
    BY <1>3, Names
  <2>3. timer[Delay(Peer(o))].left >= -Lateness /\ timer[Delay(Peer(o))].left \in Int /\ timer[t].left \in Int
    BY <1>1, <2>2 DEF TimersTyped, TimerStates
  <2>4. timer[t].left <= 0
    BY <1>2, Zenon
  <2> QED
    BY <2>1, <2>3, <2>4, NotPastDelay, Zenon
<1>8. CASE o[2] = "observe"
  <2>1. timer' = [timer EXCEPT ![t] = Off] /\ UNCHANGED <<m_sockets, open, loop, receiver, alive>>
    BY <1>2, <1>8, Zenon
  <2>2. ASSUME NEW q \in Operations, loop[q] = "running", q[2] # "observe" PROVE t # Recv(Peer(q))
    <3> SUFFICES ASSUME t = Recv(Peer(q)) PROVE FALSE
      OBVIOUS
    <3>1. Peer(q) \in Peers /\ Owner(Recv(Peer(q))) = Peer(q)
      BY Names
    <3> QED
      BY <1>5, <1>6, <1>8, <2>2, <3>1
  <2>3. ASSUME NEW p \in Peers, t = Recv(p) PROVE timer[Delay(p)].wait = NoWait
    <3>1. Owner(Recv(p)) = p
      BY Names
    <3> QED
      BY <1>5, <1>7, <2>3, <3>1
  <2> QED
    BY <2>1, <2>2, <2>3, AloneWhenDropped, Zenon
<1>9. CASE o[2] # "observe"
  <2> DEFINE p == Peer(o)
  <2>1. LoopStop({o}, p, {t})
    BY <1>2, <1>9
  <2>2. Running(p) = {o}
    BY <1>5, <1>6 DEF Running, Of
  <2>3. \A u \in Timers : u \in {t} => Owner(u) = p
    BY <1>5
  <2>4. ASSUME NEW u \in Timers, Owner(u) = p, timer[u].wait # NoWait
        PROVE  u \in Stopping(Running(p), p, {t})
    <3>1. u \in {Recv(p), Delay(p)}
      BY <2>4, Names
    <3> QED
      BY <1>7, <2>2, <2>4, <3>1 DEF Stopping
  <2>5. Ends(p)
    BY <1>2, <1>3, <2>1, <2>2, <2>3, <2>4, StopEnds, Zenon
  <2> QED
    BY <1>3, <2>5, AloneWhenEnds
<1> QED
  BY <1>8, <1>9

\* The delayed query's timer is not one that an operation ends by.
LEMMA AloneWhenDelayEnds ==
    ASSUME Inv, Alone, DelayFires
    PROVE  Alone'
<1>1. TimersTyped /\ PollTyped
  BY TypeParts DEF Inv
<1>2. PICK p \in Peers :
        /\ Delay(p) \in Timers /\ timer' = [timer EXCEPT ![Delay(p)] = Off]
        /\ UNCHANGED <<m_sockets, m_timers, open, ops, mode, m_duplicate_seen, alive, m_stopped>>
  BY <1>1, DelayFired
<1>3. \A q \in Peers : Delay(p) # Recv(q)
  BY Names
<1>4. \A o \in Operations : Peer(o) \in Peers
  BY Names
<1>5. UNCHANGED <<m_sockets, open, loop, receiver, alive>>
  BY <1>2 DEF ops
<1> QED
  BY <1>2, <1>3, <1>4, <1>5, AloneWhenDropped, Zenon

\* As time passes the delay stays ahead of the silence.
LEMMA AloneWhenTimePasses ==
    ASSUME Inv, Alone, Elapse
    PROVE  Alone'
<1>1. TimersTyped /\ timer \in [Timers -> TimerStates]
  BY TypeParts DEF Inv, TypeOK
<1>2. /\ \A t \in Timers : /\ timer'[t].wait = timer[t].wait
                           /\ timer'[t].left = IF HasPending(t) THEN timer[t].left - 1 ELSE timer[t].left
      /\ UNCHANGED <<m_sockets, m_timers, open, ops, query, alive, work, users>>
  BY <1>1, Elapsed
<1>3. /\ StartedWanted /\ EntriesLive /\ RunningArmed
      /\ OpenUntilStopped /\ WaitsForRunning /\ DelayFirst
  BY DEF Alone
<1>4. UNCHANGED <<m_sockets, open, loop, receiver, alive>>
  BY <1>2 DEF ops
<1>5. StartedWanted' /\ EntriesLive' /\ OpenUntilStopped'
  BY <1>3, <1>4 DEF StartedWanted, EntriesLive, OpenUntilStopped, Of
<1>6. RunningArmed'
  <2>1. \A q \in Operations : Recv(Peer(q)) \in Timers
    BY Names
  <2>2. \A q \in Operations : timer'[Recv(Peer(q))].wait = timer[Recv(Peer(q))].wait
    BY <1>2, <2>1, Zenon
  <2> QED
    BY <1>3, <1>4, <2>2 DEF RunningArmed
<1>7. WaitsForRunning'
  BY <1>2, <1>3, <1>4, Zenon DEF WaitsForRunning
<1>8. DelayFirst'
  <2>1. ASSUME NEW q \in Peers, timer'[Delay(q)].wait # NoWait
        PROVE  /\ timer'[Delay(q)].wait[2] = "query"
               /\ timer'[Delay(q)].left + Lateness < timer'[Recv(q)].left
               /\ timer'[Delay(q)].left + Lateness < Silence
    <3>1. Delay(q) \in Timers /\ Recv(q) \in Timers
      BY Names
    <3>2. HasPending(Delay(q)) /\ timer'[Delay(q)].wait = timer[Delay(q)].wait
      BY <1>2, <2>1, <3>1, Zenon DEF HasPending
    <3>3. /\ timer[Delay(q)].wait[2] = "query"
          /\ timer[Delay(q)].left + Lateness < timer[Recv(q)].left
          /\ timer[Delay(q)].left + Lateness < Silence
      BY <1>3, <3>2 DEF DelayFirst, HasPending
    <3>4. timer[Delay(q)].left \in Int /\ timer[Recv(q)].left \in Int /\ Lateness \in Int /\ Silence \in Int
      BY <1>1, <3>1, PeerTimes DEF TimerStates
    <3>5. timer'[Delay(q)].left = timer[Delay(q)].left - 1
      BY <1>2, <3>1, <3>2
    <3>6. timer'[Recv(q)].left \in {timer[Recv(q)].left, timer[Recv(q)].left - 1}
      BY <1>2, <3>1
    <3> QED
      BY <3>2, <3>3, <3>4, <3>5, <3>6
  <2> QED
    BY <2>1 DEF DelayFirst
<1> QED
  BY <1>5, <1>6, <1>7, <1>8 DEF Alone

\* Alone is inductive, together with Inv.
LEMMA AloneKept ==
    ASSUME OneEach, DelaysShort
    PROVE  Inv /\ Alone /\ [Next]_vars => Alone'
<1> SUFFICES ASSUME Inv, Alone, [Next]_vars PROVE Alone'
  OBVIOUS
<1>1. CASE UNCHANGED <<tables, ops, query, alive>>
  BY <1>1, Zenon DEF tables, ops, Alone, StartedWanted, EntriesLive, RunningArmed, OpenUntilStopped,
              WaitsForRunning, DelayFirst, Of
<1>2. vars' = vars => UNCHANGED <<tables, ops, query, alive>>
  BY DEF vars
<1>3. CASE Starting
  BY <1>3, AloneWhenStarts
<1>4. CASE RunTeardown
  BY <1>4, AloneWhenTornDown
<1>5. CASE Destroys
  BY <1>5, AloneWhenDestroyed
<1>6. CASE Receiving
  BY <1>6, AloneWhenReceives
<1>7. CASE SilenceFires
  BY <1>7, AloneWhenSilent
<1>8. CASE DelayFires
  BY <1>8, AloneWhenDelayEnds
<1>9. CASE Elapse
  BY <1>9, AloneWhenTimePasses
<1> QED
  BY <1>1, <1>2, <1>3, <1>4, <1>5, <1>6, <1>7, <1>8, <1>9, TableSteps

\* Nothing runs at first.
LEMMA AloneAtFirst == Init => Alone
<1> SUFFICES ASSUME Init PROVE Alone
  OBVIOUS
<1>1. /\ m_sockets = <<>> /\ timer = [t \in Timers |-> Off] /\ open = [p \in Peers |-> TRUE]
      /\ loop = [o \in Operations |-> "none"]
  BY DEF Init, ContextInit
<1>2. Range(m_sockets) = {}
  BY <1>1 DEF Range
<1>3. \A p \in Peers : Delay(p) \in Timers
  BY Names
<1>4. \A t \in Timers : timer[t].wait = NoWait
  BY <1>1 DEF Off
<1> QED
  BY <1>1, <1>2, <1>3, <1>4, Zenon DEF Alone, StartedWanted, EntriesLive, RunningArmed, OpenUntilStopped,
                                WaitsForRunning, DelayFirst

\* For peers that run one operation each, the tables hold what it needs and no more.
LEMMA TablesAgreeFrom ==
    ASSUME OneEach PROVE Inv /\ Alone => TablesAgree
<1> SUFFICES ASSUME Inv, Alone PROVE TablesAgree
  OBVIOUS
<1>1. /\ StartedWanted /\ EntriesLive /\ RunningArmed
      /\ OpenUntilStopped /\ WaitsForRunning /\ DelayFirst
  BY DEF Alone
<1>2. TypeOK /\ TimersTyped /\ HandlerPerLoop /\ m_sockets \in Seq(SocketEntries)
  BY TypeParts DEF Inv, TypeOK
<1>3. \A o \in Operations : Status(o) = Stage(o)
  BY StatusIsStage
<1>4. ArmedWhilePending
  <2>1. ASSUME NEW o \in Operations, Status(o) = "pending"
        PROVE  /\ receiver[Peer(o)] = o /\ \E i \in DOMAIN m_sockets : m_sockets[i].fd = Peer(o)
               /\ o[2] = "observe" \/ (timer[Recv(Peer(o))].wait = o /\ Recv(Peer(o)) \in Range(m_timers))
    <3>1. loop[o] = "running"
      BY <1>3, <2>1, Zenon DEF Stage
    <3>2. /\ receiver[Peer(o)] = o /\ Pair(Peer(o)) \in Range(m_sockets)
          /\ o[2] = "observe" \/ timer[Recv(Peer(o))].wait = o
      BY <1>1, <3>1 DEF RunningArmed
    <3>3. \E i \in DOMAIN m_sockets : m_sockets[i].fd = Peer(o)
      BY <3>2 DEF Pair, Range
    <3>4. Recv(Peer(o)) \in Timers /\ o # NoWait
      BY Names
    <3>5. timer[Recv(Peer(o))].wait = o => Recv(Peer(o)) \in Range(m_timers)
      BY <1>2, <3>4 DEF TimersTyped, HasPending
    <3> QED
      BY <3>2, <3>3, <3>5, Zenon
  <2> QED
    BY <2>1, Zenon DEF ArmedWhilePending
<1>5. QuietAfterwards
  <2>1. ASSUME NEW o \in Operations, Status(o) \in {"completed", "abandoned"}
        PROVE  /\ \A i \in DOMAIN m_sockets : m_sockets[i].owner # Peer(o)
               /\ \A t \in Timers : Owner(t) = Peer(o) => ~HasPending(t)
    <3>1. loop[o] \notin {"none", "running"}
      BY <1>3, <2>1 DEF Stage
    <3>2. \A q \in Of(Peer(o)) : loop[q] # "running"
      BY <1>1, <3>1, OnlyOne DEF Of
    <3>3. ASSUME NEW i \in DOMAIN m_sockets PROVE m_sockets[i].owner # Peer(o)
      BY <1>1, <1>2, <3>2, InRange DEF EntriesLive
    <3>4. ASSUME NEW t \in Timers, Owner(t) = Peer(o), HasPending(t) PROVE FALSE
      <4>1. timer[t].wait \in Operations
        BY <1>2, <3>4 DEF TimersTyped, TimerStates, HasPending
      <4>2. loop[timer[t].wait] = "running" /\ Peer(timer[t].wait) = Peer(o)
        BY <1>1, <3>4 DEF WaitsForRunning, HasPending
      <4> QED
        BY <3>2, <4>1, <4>2 DEF Of
    <3> QED
      BY <3>3, <3>4
  <2> QED
    BY <2>1 DEF QuietAfterwards
<1> QED
  BY <1>2, <1>4, <1>5 DEF TablesAgree

\* register_socket(), register_timer(), deregister_timer() and close(), as recv_loop,
\* querier, observer and discovery call them: whatever the order of starts, packets,
\* timers, stop() and destructions, an operation that is pending has its receive handler
\* and its silence timer in the context, and one that has ended has left nothing there.
\* It holds for peers that are asked to do one thing each, with a response delay that is
\* over before the silence timeout, as the defaults are.
THEOREM TablesFollowOperations ==
    ASSUME OneEach, DelaysShort
    PROVE  Spec => []TablesAgree
<1>1. Init => Inv /\ Alone
  BY InvAtFirst, AloneAtFirst
<1>2. Inv /\ Alone /\ [Next]_vars => (Inv /\ Alone)'
  BY InvKept, AloneKept
<1>3. Inv /\ Alone => TablesAgree
  BY TablesAgreeFrom
<1> QED
  BY <1>1, <1>2, <1>3, PTL DEF Spec

-----------------------------------------------------------------------------
(***************************************************************************)
(* A delayed query goes out in its time.                                   *)
(***************************************************************************)
\* Teardowns are posted for peers that were told to stop.
PostedStopped == \A p \in Range(m_work_queue) \cup Range(local) : m_stopped[p]

Asked(p) == m_query_sent[p] \/ m_duplicate_seen[p]

\* A query that is running was asked, or waits for its delay.
AskedOrWaiting ==
    \A o \in Operations : o[2] = "query" /\ loop[o] = "running" =>
      timer[Delay(Peer(o))].wait = o \/ Asked(Peer(o))

\* AskedBeforeSilence, in terms of the loop.
AskedAtEnd ==
    \A o \in Operations : o[2] = "query" /\ loop[o] = "stopped" /\ calls[o] = 1 /\ ~m_stopped[Peer(o)] =>
      Asked(Peer(o))

\* stop() is not taken back, and only it and the destructor post a teardown.
LEMMA PostedStoppedKept ==
    ASSUME TypeOK, PostedStopped, Next
    PROVE  PostedStopped' /\ \A p \in Peers : m_stopped[p] => m_stopped'[p]
<1> DEFINE Goal == PostedStopped' /\ \A p \in Peers : m_stopped[p] => m_stopped'[p]
<1> SUFFICES Goal
  OBVIOUS
<1>1. m_work_queue \in Seq(Peers) /\ local \in Seq(Peers) /\ m_stopped \in [Peers -> BOOLEAN]
  BY DEF TypeOK
<1>2. ASSUME m_stopped' = m_stopped,
             Range(m_work_queue') \cup Range(local') \subseteq Range(m_work_queue) \cup Range(local)
      PROVE  Goal
  BY <1>2 DEF PostedStopped
<1>3. ASSUME UNCHANGED <<m_work_queue, local, m_stopped>> PROVE Goal
  BY <1>2, <1>3
<1>4. ASSUME NEW p \in Peers, m_stopped' = [m_stopped EXCEPT ![p] = TRUE], local' = local,
             m_work_queue' \in {m_work_queue, Append(m_work_queue, p)}
      PROVE  Goal
  <2>1. Range(Append(m_work_queue, p)) = Range(m_work_queue) \cup {p}
    BY <1>1, Appended
  <2>2. Range(m_work_queue') \cup Range(local') \subseteq Range(m_work_queue) \cup Range(local) \cup {p}
    BY <1>4, <2>1, Zenon
  <2>3. \A q \in Peers : m_stopped'[q] = (q = p \/ m_stopped[q])
    BY <1>1, <1>4, Zenon
  <2>4. Range(m_work_queue) \subseteq Peers /\ Range(local) \subseteq Peers
    BY <1>1, InRange
  <2> QED
    BY <2>2, <2>3, <2>4, Zenon DEF PostedStopped
<1> HIDE DEF Goal
<1>5. CASE Polls \/ Iterate \/ Elapse \/ Arrives
  BY <1>3, <1>5, Zenon DEF Polls, Iterate, Elapse, Arrives, Arrive, work, users
<1>6. CASE LoopStep
  <2>1. CASE DrainWorkQueue
    <3>1. local' = m_work_queue /\ m_work_queue' = <<>> /\ m_stopped' = m_stopped
      BY <2>1 DEF DrainWorkQueue, users
    <3>2. Range(m_work_queue') = {}
      BY <3>1 DEF Range
    <3> QED
      BY <1>2, <3>1, <3>2
  <2>2. CASE RunTeardown
    <3>1. local # <<>> /\ local' = Tail(local) /\ UNCHANGED <<m_work_queue, m_stopped>>
      BY <2>2 DEF RunTeardown, users
    <3>2. Range(local') \subseteq Range(local)
      BY <1>1, <3>1, HeadAndTail
    <3> QED
      BY <1>2, <3>1, <3>2
  <2>3. CASE WorkDone \/ HandlerReturns \/ SkipTimer \/ SilenceFires \/ DelayFires
    BY <1>3, <2>3, Zenon DEF WorkDone, HandlerReturns, SkipTimer, SilenceFires, DelayFires, work, users
  <2>4. ASSUME NEW p \in Peers, ReceivePacket(p) PROVE Goal
    BY <1>3, <2>4, Zenon DEF ReceivePacket, work, users
  <2> QED
    BY <1>6, <2>1, <2>2, <2>3, <2>4 DEF LoopStep
<1>7. CASE Application
  <2>1. ASSUME NEW o \in Wanted, NEW m \in Modes, NEW d \in Delays, StartOperation(o, m, d) PROVE Goal
    BY <1>3, <2>1, Zenon DEF StartOperation, work, users
  <2>2. ASSUME NEW p \in Peers, Destroy(p) PROVE Goal
    BY <1>4, <2>2, Zenon DEF Destroy, Post
  <2>3. ASSUME NEW p \in Peers, Stop(p) PROVE Goal
    BY <1>4, <2>3, Zenon DEF Stop, Post
  <2> QED
    BY <1>7, <2>1, <2>2, <2>3 DEF Application, AppDestroys, HandlerDestroys
<1> QED
  BY <1>5, <1>6, <1>7 DEF Next

\* What may happen to a query in a step that leaves its peer's flags alone, or raises one.
LEMMA AskedStays ==
    ASSUME AskedOrWaiting, AskedAtEnd, OpsTyped,
           \A p \in Peers : m_stopped[p] => m_stopped'[p],
           \A p \in Peers : Asked(p) => Asked(p)',
           \A o \in Operations : o[2] = "query" /\ loop'[o] = "running" =>
             /\ loop[o] = "running"
             /\ timer'[Delay(Peer(o))].wait = timer[Delay(Peer(o))].wait \/ Asked(Peer(o))',
           \A o \in Operations : loop'[o] = "stopped" /\ calls'[o] = 1 =>
             \/ loop[o] = "stopped" /\ calls[o] = 1
             \/ m_stopped'[Peer(o)] \/ Asked(Peer(o))'
    PROVE  AskedOrWaiting' /\ AskedAtEnd'
<1>1. \A o \in Operations : Peer(o) \in Peers
  BY Names, Zenon
<1>2. AskedOrWaiting'
  <2>1. ASSUME NEW o \in Operations, o[2] = "query", loop'[o] = "running"
        PROVE  timer'[Delay(Peer(o))].wait = o \/ Asked(Peer(o))'
    BY <1>1, <2>1, Zenon DEF AskedOrWaiting
  <2> QED
    BY <2>1, Zenon DEF AskedOrWaiting
<1>3. AskedAtEnd'
  <2>1. ASSUME NEW o \in Operations, o[2] = "query", loop'[o] = "stopped", calls'[o] = 1, ~m_stopped'[Peer(o)]
        PROVE  Asked(Peer(o))'
    BY <1>1, <2>1, Zenon DEF AskedAtEnd
  <2> QED
    BY <2>1, Zenon DEF AskedAtEnd
<1> QED
  BY <1>2, <1>3

\* The start of a query asks it, or arms its delay.
LEMMA AskedWhenStarts ==
    ASSUME OneEach, Inv, Alone, AskedOrWaiting, AskedAtEnd, Starting, m_stopped' = m_stopped
    PROVE  AskedOrWaiting' /\ AskedAtEnd'
<1>1. PICK o \in Wanted, m \in Modes, d \in Delays : StartOperation(o, m, d)
  BY DEF Starting
<1> DEFINE p == Peer(o)
<1>2. o \in Operations /\ p \in Peers /\ Delay(p) \in Timers /\ Delay(p) # Recv(p)
  BY PeerKinds, Names
<1>3. SocketsTyped /\ TimersTyped /\ OpsTyped
  BY TypeParts DEF Inv
<1>4. /\ calls' = calls /\ loop[o] = "none"
      /\ \A t \in Timers : timer'[t] = IF t = Recv(p) THEN Wait(o, SilenceOf(o))
                                       ELSE IF Delayed(o, m) /\ t = Delay(p) THEN Wait(o, d)
                                       ELSE timer[t]
      /\ loop' = [loop EXCEPT ![o] = "running"]
  BY <1>1, <1>2, <1>3, Started, Zenon
<1>5. \A q \in Operations : Peer(q) = p => loop[q] = "none"
  BY <1>4, Zenon DEF Alone, OneEach, StartedWanted
<1>6. /\ loop \in [Operations -> {"none", "running", "stopped"}]
      /\ m_query_sent \in [Peers -> BOOLEAN] /\ m_duplicate_seen \in [Peers -> BOOLEAN]
  BY DEF Inv, TypeOK
<1>7. /\ m_query_sent' = [m_query_sent EXCEPT ![p] = o[2] = "query" /\ ~Delayed(o, m)]
      /\ m_duplicate_seen' = [m_duplicate_seen EXCEPT ![p] = FALSE]
  BY <1>1, Zenon DEF StartOperation, InitQueryState
<1> HIDE DEF p
<1>8. \A q \in Operations : loop'[q] = IF q = o THEN "running" ELSE loop[q]
  BY <1>4, <1>6, Zenon
<1>9. \A r \in Peers : r # p => m_query_sent'[r] = m_query_sent[r] /\ m_duplicate_seen'[r] = m_duplicate_seen[r]
  BY <1>6, <1>7
<1>10. AskedOrWaiting'
  <2>1. ASSUME NEW q \in Operations, q[2] = "query", loop'[q] = "running"
        PROVE  timer'[Delay(Peer(q))].wait = q \/ Asked(Peer(q))'
    <3>1. CASE q = o
      <4>1. CASE Delayed(o, m)
        <5>1. timer'[Delay(p)] = Wait(o, d)
          BY <1>2, <1>4, <4>1, Zenon
        <5>2. Wait(o, d).wait = o
          BY DEF Wait
        <5> QED
          BY <3>1, <5>1, <5>2 DEF p
      <4>2. CASE ~Delayed(o, m)
        <5>1. m_query_sent'[p]
          BY <1>2, <1>6, <1>7, <2>1, <3>1, <4>2, Zenon
        <5> QED
          BY <3>1, <5>1 DEF Asked, p
      <4> QED
        BY <4>1, <4>2
    <3>2. CASE q # o
      <4>1. loop[q] = "running" /\ Peer(q) # p /\ Peer(q) \in Peers
        BY <1>5, <1>8, <2>1, <3>2, Names, Zenon
      <4>2. Delay(Peer(q)) \in Timers /\ Delay(Peer(q)) # Recv(p) /\ Delay(Peer(q)) # Delay(p)
        BY <1>2, <4>1, Names
      <4>3. timer'[Delay(Peer(q))] = timer[Delay(Peer(q))]
        BY <1>4, <4>2, Zenon
      <4>4. Asked(Peer(q))' = Asked(Peer(q))
        BY <1>9, <4>1, Zenon DEF Asked
      <4> QED
        BY <2>1, <4>1, <4>3, <4>4, Zenon DEF AskedOrWaiting
    <3> QED
      BY <3>1, <3>2
  <2> QED
    BY <2>1 DEF AskedOrWaiting
<1>11. AskedAtEnd'
  <2>1. ASSUME NEW q \in Operations, q[2] = "query", loop'[q] = "stopped", calls'[q] = 1, ~m_stopped'[Peer(q)]
        PROVE  Asked(Peer(q))'
    <3>1. loop[q] = "stopped" /\ calls[q] = 1 /\ ~m_stopped[Peer(q)] /\ Peer(q) # p /\ Peer(q) \in Peers
      <4>1. loop[q] = "stopped"
        BY <1>8, <2>1
      <4>2. calls[q] = 1
        BY <1>4, <2>1, Zenon
      <4>3. ~m_stopped[Peer(q)]
        BY <2>1
      <4>4. Peer(q) # p
        BY <1>5, <4>1
      <4> QED
        BY <4>1, <4>2, <4>3, <4>4, Names
    <3>2. Asked(Peer(q))' = Asked(Peer(q))
      BY <1>9, <3>1, Zenon DEF Asked
    <3> QED
      BY <2>1, <3>1, <3>2, Zenon DEF AskedAtEnd
  <2> QED
    BY <2>1, Zenon DEF AskedAtEnd
<1> QED
  BY <1>10, <1>11

\* A query is asked, or waits for its delay, until it ends; and it ends by stop(), or by
\* a silence that comes after the delay.
LEMMA AskedKept ==
    ASSUME OneEach, Inv, Alone, PostedStopped, AskedOrWaiting, AskedAtEnd, Next
    PROVE  AskedOrWaiting' /\ AskedAtEnd'
<1>1. SocketsTyped /\ TimersTyped /\ OpsTyped /\ UsersTyped /\ PollTyped /\ TypeOK /\ Listening /\ Rewound
  BY TypeParts DEF Inv
<1>2. /\ loop \in [Operations -> {"none", "running", "stopped"}] /\ calls \in [Operations -> Nat]
      /\ timer \in [Timers -> TimerStates]
      /\ m_query_sent \in [Peers -> BOOLEAN] /\ m_duplicate_seen \in [Peers -> BOOLEAN]
      /\ m_stopped \in [Peers -> BOOLEAN]
  BY <1>1 DEF TypeOK
<1>3. \A p \in Peers : m_stopped[p] => m_stopped'[p]
  BY <1>1, PostedStoppedKept
<1>4. \A o \in Operations : Peer(o) \in Peers /\ Delay(Peer(o)) \in Timers /\ o \in Of(Peer(o))
  BY Names
<1>5. \A o \in Operations : loop[o] # "stopped" => calls[o] = 0
  BY DEF Inv, HandlerPerLoop
<1>6. ASSUME m_query_sent' = m_query_sent, m_duplicate_seen' = m_duplicate_seen
      PROVE  \A p \in Peers : Asked(p)' = Asked(p)
  BY <1>6 DEF Asked
<1>7. CASE UNCHANGED <<tables, ops, query, alive>>
  BY <1>1, <1>3, <1>6, <1>7, AskedStays, Zenon DEF tables, ops, query
<1>8. CASE Starting
  <2>1. m_stopped' = m_stopped
    BY <1>8, Zenon DEF Starting, StartOperation, users
  <2> QED
    BY <1>8, <2>1, AskedWhenStarts
<1>9. CASE RunTeardown
  <2>1. UNCHANGED query
    BY <1>1, <1>9, TornDown
  <2>2. \A p \in Peers : Asked(p)' = Asked(p)
    BY <1>6, <2>1 DEF query
  <2>3. CASE UNCHANGED <<tables, loop, handler, calls>>
    BY <1>1, <1>3, <2>2, <2>3, AskedStays, Zenon DEF tables
  <2>4. ASSUME NEW p \in Peers, p \in Range(local), LoopStop(Running(p), p, Waits(p)),
               Complete({o \in Of(p) : loop[o] # "none"})
        PROVE  AskedOrWaiting' /\ AskedAtEnd'
    <3>1. m_stopped[p]
      BY <2>4 DEF PostedStopped
    <3>2. /\ \A o \in Operations : loop'[o] = IF o \in Running(p) THEN "stopped" ELSE loop[o]
          /\ \A t \in Timers : timer'[t] = IF t \in Stopping(Running(p), p, Waits(p)) THEN Off ELSE timer[t]
      <4>1. SocketsTyped /\ TimersTyped /\ OpsTyped
        BY <1>1
      <4>2. LoopStop(Running(p), p, Waits(p))
        BY <2>4, Zenon
      <4>3. LoopsEnd(Running(p)) /\ WaitsEnd(Stopping(Running(p), p, Waits(p)))
        BY <4>1, <4>2, StopEffect, Zenon
      <4> QED
        BY <4>3 DEF LoopsEnd, WaitsEnd
    <3>3. \A o \in Operations : o \notin {q \in Of(p) : loop[q] # "none"} => calls'[o] = calls[o]
      BY <1>1, <2>4, Completed, Zenon
    <3>4. \A t \in Timers : t \in Stopping(Running(p), p, Waits(p)) => Owner(t) = p
      BY Names DEF Stopping, Waits
    <3>5. ASSUME NEW o \in Operations, loop'[o] = "running"
          PROVE  loop[o] = "running" /\ timer'[Delay(Peer(o))] = timer[Delay(Peer(o))]
      <4>1. loop[o] = "running" /\ o \notin Running(p)
        BY <3>2, <3>5, Zenon
      <4>2. Peer(o) # p
        BY <4>1 DEF Running, Of
      <4>3. Owner(Delay(Peer(o))) # p
        BY <1>4, <4>2, Names
      <4> QED
        BY <1>4, <3>2, <3>4, <4>1, <4>3, Zenon
    <3>6. ASSUME NEW o \in Operations, loop'[o] = "stopped", calls'[o] = 1
          PROVE  \/ loop[o] = "stopped" /\ calls[o] = 1
                 \/ m_stopped'[Peer(o)]
      <4>1. CASE Peer(o) = p
        BY <1>3, <3>1, <4>1, Zenon
      <4>2. CASE Peer(o) # p
        <5>1. o \notin Of(p) /\ o \notin Running(p)
          BY <4>2 DEF Of, Running
        <5> QED
          BY <3>2, <3>3, <3>6, <5>1
      <4> QED
        BY <4>1, <4>2
    <3> QED
      BY <1>1, <1>3, <2>2, <3>5, <3>6, AskedStays, Zenon
  <2> QED
    BY <1>1, <1>9, <2>3, <2>4, TornDown, Zenon
<1>10. CASE Destroys
  <2>1. PICK p \in Peers : Destroy(p)
    BY <1>10 DEF Destroys
  <2>2. /\ \A t \in Timers : timer'[t] = IF t \in {Recv(p), Delay(p)} THEN Off ELSE timer[t]
        /\ \A o \in Operations : loop'[o] = IF Peer(o) = p /\ loop[o] = "running" THEN "stopped" ELSE loop[o]
        /\ UNCHANGED <<receiver, calls, query>>
    BY <1>1, <2>1, Destroyed, Zenon
  <2>3. \A q \in Peers : Asked(q)' = Asked(q)
    BY <1>6, <2>2, Zenon DEF query
  <2>4. ASSUME NEW o \in Operations, loop'[o] = "running"
        PROVE  loop[o] = "running" /\ timer'[Delay(Peer(o))] = timer[Delay(Peer(o))]
    <3>1. loop[o] = "running" /\ Peer(o) # p
      BY <2>2, <2>4, Zenon
    <3>2. Delay(Peer(o)) \notin {Recv(p), Delay(p)}
      BY <1>4, <3>1, Names
    <3> QED
      BY <1>4, <2>2, <3>1, <3>2, Zenon
  <2>5. ASSUME NEW o \in Operations, loop'[o] = "stopped", calls'[o] = 1
        PROVE  loop[o] = "stopped" /\ calls[o] = 1
    <3>1. calls[o] = 1
      BY <2>2, <2>5, Zenon
    <3> QED
      BY <1>5, <3>1
  <2> QED
    BY <1>1, <1>3, <2>3, <2>4, <2>5, AskedStays, Zenon
<1>11. CASE Receiving
  <2>1. PICK p \in Peers : ReceivePacket(p)
    BY <1>11 DEF Receiving
  <2>2. receiver[p] \in Of(p)
    BY <1>1, <2>1, ReceiverKnown
  <2>3. /\ UNCHANGED ops
        /\ \A t \in Timers :
             timer'[t] = IF Rearmed(p) /\ t = Recv(p) THEN Wait(receiver[p], SilenceOf(receiver[p]))
                         ELSE IF Suppressed(p) /\ t = Delay(p) THEN Off ELSE timer[t]
    BY <1>1, <2>1, <2>2, Received, Zenon
  <2>4. /\ m_query_sent' = m_query_sent
        /\ m_duplicate_seen' = [m_duplicate_seen EXCEPT ![p] = @ \/ Suppressed(p)]
    BY <2>1, Zenon DEF ReceivePacket, Suppressed, Heard
  <2>5. \A q \in Peers : Asked(q)' = (Asked(q) \/ (q = p /\ Suppressed(p)))
    BY <1>2, <2>4, Zenon DEF Asked
  <2>6. ASSUME NEW o \in Operations
        PROVE  timer'[Delay(Peer(o))].wait = timer[Delay(Peer(o))].wait \/ Asked(Peer(o))'
    <3>1. Delay(Peer(o)) \in Timers /\ Delay(Peer(o)) # Recv(p) /\ (Peer(o) # p => Delay(Peer(o)) # Delay(p))
      BY <1>4, Names
    <3> QED
      BY <1>4, <2>3, <2>5, <3>1, Zenon
  <2>7. loop' = loop /\ calls' = calls
    BY <2>3, Zenon DEF ops
  <2> QED
    BY <1>1, <1>3, <2>5, <2>6, <2>7, AskedStays, Zenon
<1>12. CASE SilenceFires
  <2>1. PICK t \in Timers, o \in Operations :
          /\ timer[t].wait = o /\ timer[t].left <= 0 /\ t = Recv(Owner(t))
          /\ \/ /\ o[2] = "observe" /\ timer' = [timer EXCEPT ![t] = Off]
                /\ UNCHANGED <<m_sockets, m_timers, open, loop, handler, calls>>
             \/ /\ o[2] # "observe" /\ LoopStop({o}, Peer(o), {t}) /\ Complete({o})
    BY <1>1, <1>12, SilenceFired, Zenon
  <2>2. \A p \in Peers : Asked(p)' = Asked(p)
    BY <1>6, <1>12, Zenon DEF SilenceFires, query
  <2>3. \A p \in Peers : Delay(p) # t
    BY <2>1, Names, Zenon
  <2>4. CASE UNCHANGED <<m_sockets, m_timers, open, loop, handler, calls>> /\ timer' = [timer EXCEPT ![t] = Off]
    <3>1. \A q \in Operations : timer'[Delay(Peer(q))] = timer[Delay(Peer(q))]
      BY <1>2, <1>4, <2>3, <2>4
    <3> QED
      BY <1>1, <1>3, <2>2, <2>4, <3>1, AskedStays, Zenon
  <2>5. CASE LoopStop({o}, Peer(o), {t}) /\ Complete({o}) /\ o[2] # "observe"
    <3>1. Peer(o) \in Peers /\ o # NoWait /\ LoopStop({o}, Peer(o), {t}) /\ Complete({o})
      BY <2>5, Names
    <3>2. /\ \A q \in Operations : loop'[q] = IF q \in {o} THEN "stopped" ELSE loop[q]
          /\ \A u \in Timers : timer'[u] = IF u \in Stopping({o}, Peer(o), {t}) THEN Off ELSE timer[u]
      BY <1>1, <3>1, LoopsStopped, Zenon
    <3>3. \A q \in Operations : q \notin {o} => calls'[q] = calls[q]
      BY <1>1, <3>1, Completed, Zenon
    <3>4. \A p \in Peers : Delay(p) \notin Stopping({o}, Peer(o), {t})
      BY <2>3, <3>1, Names DEF Stopping
    <3>5. \A q \in Operations : timer'[Delay(Peer(q))] = timer[Delay(Peer(q))]
      BY <1>4, <3>2, <3>4, Zenon
    <3>6. loop[o] = "running" /\ Peer(o) = Owner(t)
      BY <2>1, <3>1, Zenon DEF Alone, WaitsForRunning
    <3>7. o[2] = "query" => Asked(Peer(o))
      <4> SUFFICES ASSUME o[2] = "query", ~Asked(Peer(o)) PROVE FALSE
        OBVIOUS
      <4>1. timer[Delay(Peer(o))].wait = o
        BY <3>6 DEF AskedOrWaiting
      <4>2. timer[Delay(Peer(o))].left + Lateness < timer[t].left
        BY <2>1, <3>1, <3>6, <4>1, Zenon DEF Alone, DelayFirst
      <4>3. timer[Delay(Peer(o))].left >= -Lateness /\ timer[Delay(Peer(o))].left \in Int /\ timer[t].left \in Int
        BY <1>1, <1>4 DEF TimersTyped, TimerStates
      <4> QED
        <5>1. timer[t].left <= 0
          BY <2>1, Zenon
        <5> QED
          BY <4>2, <4>3, <5>1, NotPastDelay, Zenon
    <3>8. AskedOrWaiting'
      <4>1. ASSUME NEW q \in Operations, q[2] = "query", loop'[q] = "running"
            PROVE  timer'[Delay(Peer(q))].wait = q \/ Asked(Peer(q))'
        BY <1>4, <2>2, <3>2, <3>5, <4>1, Zenon DEF AskedOrWaiting
      <4> QED
        BY <4>1 DEF AskedOrWaiting
    <3>9. AskedAtEnd'
      <4>1. ASSUME NEW q \in Operations, q[2] = "query", loop'[q] = "stopped", calls'[q] = 1, ~m_stopped'[Peer(q)]
            PROVE  Asked(Peer(q))'
        BY <1>3, <1>4, <2>2, <3>2, <3>3, <3>7, <4>1, Zenon DEF AskedAtEnd
      <4> QED
        BY <4>1 DEF AskedAtEnd
    <3> QED
      BY <3>8, <3>9
  <2> QED
    BY <2>1, <2>4, <2>5, Zenon
<1>13. CASE DelayFires
  <2>1. PICK p \in Peers :
          /\ Delay(p) \in Timers /\ timer' = [timer EXCEPT ![Delay(p)] = Off]
          /\ m_query_sent' = [m_query_sent EXCEPT ![p] = @ \/ Sends(p)]
          /\ UNCHANGED <<m_sockets, m_timers, open, ops, mode, m_duplicate_seen, alive, m_stopped>>
    BY <1>1, <1>13, DelayFired
  <2>2. \A q \in Peers : Asked(q)' = (Asked(q) \/ q = p)
    BY <1>2, <2>1, Zenon DEF Asked, Sends
  <2>3. ASSUME NEW o \in Operations
        PROVE  timer'[Delay(Peer(o))].wait = timer[Delay(Peer(o))].wait \/ Asked(Peer(o))'
    <3>1. Peer(o) # p => Delay(Peer(o)) # Delay(p)
      BY <1>4, Names
    <3> QED
      BY <1>2, <1>4, <2>1, <2>2, <3>1, Zenon
  <2>4. loop' = loop /\ calls' = calls
    BY <2>1 DEF ops
  <2> QED
    BY <1>1, <1>3, <2>2, <2>3, <2>4, AskedStays, Zenon
<1>14. CASE Elapse
  <2>1. /\ \A t \in Timers : timer'[t].wait = timer[t].wait
        /\ UNCHANGED <<m_sockets, m_timers, open, ops, query, alive, work, users>>
    BY <1>1, <1>14, Elapsed, Zenon
  <2>2. \A p \in Peers : Asked(p)' = Asked(p)
    BY <1>6, <2>1, Zenon DEF query
  <2>3. loop' = loop /\ calls' = calls
    BY <2>1 DEF ops
  <2> QED
    BY <1>1, <1>3, <1>4, <2>1, <2>2, <2>3, AskedStays, Zenon
<1> QED
  BY <1>7, <1>8, <1>9, <1>10, <1>11, <1>12, <1>13, <1>14, TableSteps

\* A query goes out at the start of its operation or when its delay fires, and the
\* operation is pending then.
LEMMA SentOnlyWhilePending ==
    ASSUME Inv, Inv', Alone, Next
    PROVE  SentWhilePending
<1>1. SocketsTyped /\ TimersTyped /\ OpsTyped /\ UsersTyped /\ PollTyped /\ TypeOK
  BY TypeParts DEF Inv
<1>2. m_query_sent \in [Peers -> BOOLEAN] /\ timer \in [Timers -> TimerStates]
      /\ loop \in [Operations -> {"none", "running", "stopped"}]
  BY <1>1 DEF TypeOK
<1>3. \A o \in Operations : Status(o)' = Stage(o)'
  <2>1. (\A o \in Operations : Status(o) = Stage(o))'
    BY StatusIsStage, PTL
  <2> QED
    BY <2>1
<1>4. ASSUME m_query_sent' = m_query_sent PROVE SentWhilePending
  BY <1>4 DEF SentWhilePending
<1>5. ASSUME NEW o \in Operations, o[2] = "query", loop'[o] = "running",
             \A q \in Peers : q # Peer(o) /\ m_query_sent'[q] => m_query_sent[q]
      PROVE  SentWhilePending
  <2>1. Status(o)' = "pending"
    BY <1>3, <1>5 DEF Stage
  <2>2. o = <<Peer(o), "query">>
    BY <1>5 DEF Operations, Peer
  <2>3. ASSUME NEW q \in Peers, m_query_sent'[q], ~m_query_sent[q] PROVE Status(<<q, "query">>)' = "pending"
    <3>1. o = <<q, "query">>
      BY <1>5, <2>2, <2>3
    <3> QED
      BY <2>1, <3>1
  <2> QED
    BY <2>3 DEF SentWhilePending
<1>6. CASE UNCHANGED <<tables, ops, query, alive>>
  BY <1>4, <1>6 DEF query
<1>7. CASE Starting
  <2>1. PICK o \in Wanted, m \in Modes, d \in Delays : StartOperation(o, m, d)
    BY <1>7 DEF Starting
  <2>2. o \in Operations /\ Peer(o) \in Peers
    BY PeerKinds, Names
  <2>3. /\ m_query_sent' = [m_query_sent EXCEPT ![Peer(o)] = o[2] = "query" /\ ~Delayed(o, m)]
        /\ loop' = [loop EXCEPT ![o] = "running"]
    BY <2>1 DEF StartOperation, InitQueryState, StartLoop
  <2>4. \A q \in Peers : q # Peer(o) /\ m_query_sent'[q] => m_query_sent[q]
    BY <1>2, <2>3
  <2>5. CASE o[2] = "query"
    BY <1>2, <1>5, <2>2, <2>3, <2>4, <2>5
  <2>6. CASE o[2] # "query"
    <3>1. \A q \in Peers : m_query_sent'[q] => m_query_sent[q]
      BY <1>2, <2>3, <2>6
    <3> QED
      BY <3>1 DEF SentWhilePending
  <2> QED
    BY <2>5, <2>6
<1>8. CASE DelayFires
  <2>1. PICK p \in Peers :
          /\ Delay(p) \in Timers /\ HasPending(Delay(p))
          /\ m_query_sent' = [m_query_sent EXCEPT ![p] = @ \/ Sends(p)]
          /\ UNCHANGED <<m_sockets, m_timers, open, ops, mode, m_duplicate_seen, alive, m_stopped>>
    BY <1>1, <1>8, DelayFired
  <2> DEFINE o == timer[Delay(p)].wait
  <2>2. o \in Operations
    BY <1>2, <2>1 DEF HasPending, TimerStates
  <2>3. loop[o] = "running" /\ Peer(o) = p /\ o[2] = "query"
    <3>1. Owner(Delay(p)) = p
      BY Names
    <3> QED
      BY <2>1, <3>1, Zenon DEF HasPending, Alone, WaitsForRunning, DelayFirst
  <2>4. loop' = loop
    BY <2>1 DEF ops
  <2>5. \A q \in Peers : q # p /\ m_query_sent'[q] => m_query_sent[q]
    BY <1>2, <2>1
  <2> HIDE DEF o
  <2> QED
    BY <1>5, <2>2, <2>3, <2>4, <2>5
<1>9. CASE RunTeardown \/ Receiving \/ SilenceFires \/ Elapse \/ Destroys
  BY <1>4, <1>9, Zenon DEF RunTeardown, Receiving, ReceivePacket, SilenceFires, Elapse, Destroys, Destroy, query
<1> QED
  BY <1>6, <1>7, <1>8, <1>9, TableSteps

\* start_multicast_query() beside the silence timer of recv_loop: for peers that are asked
\* to do one thing each, and a response delay that is over before the silence timeout, a
\* query that ends in silence was asked by this querier or another, and none is sent once
\* its operation has ended.
THEOREM DelayedQueriesInTime ==
    ASSUME OneEach, DelaysShort
    PROVE  Spec => QueriesInTime
<1> DEFINE J == Inv /\ Alone /\ PostedStopped /\ AskedOrWaiting /\ AskedAtEnd
<1>1. Init => J
  <2> SUFFICES ASSUME Init PROVE PostedStopped /\ AskedOrWaiting /\ AskedAtEnd
    BY InvAtFirst, AloneAtFirst
  <2>1. m_work_queue = <<>> /\ local = <<>> /\ loop = [o \in Operations |-> "none"]
    BY DEF Init
  <2>2. Range(m_work_queue) = {} /\ Range(local) = {}
    BY <2>1 DEF Range
  <2> QED
    BY <2>1, <2>2 DEF PostedStopped, AskedOrWaiting, AskedAtEnd
<1>2. J /\ [Next]_vars => J'
  <2> SUFFICES ASSUME J, [Next]_vars PROVE (PostedStopped /\ AskedOrWaiting /\ AskedAtEnd)'
    BY InvKept, AloneKept
  <2>1. CASE Next
    <3>1. TypeOK
      BY DEF Inv
    <3> QED
      BY <2>1, <3>1, PostedStoppedKept, AskedKept
  <2>2. CASE UNCHANGED vars
    BY <2>2, Zenon DEF vars, work, users, ops, query, tables, PostedStopped, AskedOrWaiting, AskedAtEnd, Asked
  <2> QED
    BY <2>1, <2>2
<1>3. J => AskedBeforeSilence
  <2> SUFFICES ASSUME J PROVE AskedBeforeSilence
    OBVIOUS
  <2>1. \A o \in Operations : Status(o) = Stage(o)
    BY StatusIsStage
  <2>2. loop \in [Operations -> {"none", "running", "stopped"}]
    BY DEF Inv, TypeOK
  <2> QED
    BY <2>1, <2>2 DEF AskedAtEnd, Asked, Stage, AskedBeforeSilence
<1>4. J /\ J' /\ Next => SentWhilePending
  BY SentOnlyWhilePending
<1> HIDE DEF J
<1>5. J /\ J' /\ [Next]_vars => [AskedBeforeSilence' /\ SentWhilePending]_vars
  <2>1. (J => AskedBeforeSilence)'
    BY <1>3, PTL
  <2> QED
    BY <1>4, <2>1
<1> QED
  BY <1>1, <1>2, <1>5, PTL DEF Spec, QueriesInTime

=============================================================================
