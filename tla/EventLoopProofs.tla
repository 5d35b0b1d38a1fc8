--------------------------- MODULE EventLoopProofs ---------------------------
(***************************************************************************)
(* Proofs about DefaultContext for any number of threads, functions and    *)
(* restarts.                                                               *)
(***************************************************************************)
EXTENDS EventLoop, SequenceTheorems, TLAPS

\* An empty deque is a deque of functions.
LEMMA EmptyQueue == <<>> \in Seq(Jobs)
OBVIOUS

(***************************************************************************)
(* Every member of DefaultContext keeps its type, and every thread is at a *)
(* control point of the code.                                              *)
(***************************************************************************)
THEOREM TypeCorrect == Spec => []TypeOK
<1>1. Init => TypeOK
  <2> SUFFICES ASSUME Init PROVE TypeOK
    OBVIOUS
  <2>1. restarts \in 0..MaxRestarts
    BY RestartBound DEF Init
  <2> QED
    BY <2>1, EmptyQueue DEF Init, TypeOK
<1>2. TypeOK /\ [Next]_vars => TypeOK'
  <2> SUFFICES ASSUME TypeOK, [Next]_vars PROVE TypeOK'
    OBVIOUS
  <2> USE DEF TypeOK, InRun, InRestart
  <2>1. ASSUME NEW t \in Threads, NEW fn \in Jobs, PostPush(t, fn) PROVE TypeOK'
    BY <2>1 DEF PostPush
  <2>2. ASSUME NEW t \in Threads, PostExchange(t) PROVE TypeOK'
    BY <2>2 DEF PostExchange
  <2>3. ASSUME NEW t \in Threads, StopStore(t) PROVE TypeOK'
    BY <2>3 DEF StopStore
  <2>4. ASSUME NEW t \in Threads, WriteWakeupFd(t) PROVE TypeOK'
    BY <2>4 DEF WriteWakeupFd
  <2>5. CASE RunEnter \/ PollOneEnter
    BY <2>5 DEF RunEnter, PollOneEnter
  <2>6. CASE RunTest \/ StopTest \/ ExecuteDone \/ HandlersDone
    BY <2>6 DEF RunTest, StopTest, ExecuteDone, HandlersDone, Goto
  <2>7. ASSUME NEW b \in BOOLEAN, DoPoll(b) \/ PollFails(b) PROVE TypeOK'
    BY <2>7 DEF DoPoll, PollFails
  <2>8. CASE DrainWakeupFd \/ SwapQueue \/ ClearPending
    BY <2>8, EmptyQueue DEF DrainWakeupFd, SwapQueue, ClearPending
  <2>9. CASE Execute
    BY <2>9 DEF Execute
  <2>10. CASE RestartStep
    <3>1. CASE RestartStore
      <4>1. restarts' \in 0..MaxRestarts
        BY <3>1, RestartBound DEF RestartStore
      <4> QED
        BY <3>1, <4>1 DEF RestartStore
    <3>2. CASE RestartDrain \/ RestartPending
      BY <3>2 DEF RestartDrain, RestartPending
    <3>3. CASE RestartClear
      BY <3>3, EmptyQueue DEF RestartClear
    <3> QED
      BY <2>10, <3>1, <3>2, <3>3 DEF RestartStep
  <2>11. CASE UNCHANGED vars
    BY <2>11 DEF vars
  <2> QED
    BY <2>1, <2>2, <2>3, <2>4, <2>5, <2>6, <2>7, <2>8, <2>9, <2>10, <2>11
       DEF Next, ThreadStep, RunStep
<1> QED
  BY <1>1, <1>2, PTL DEF Spec

-----------------------------------------------------------------------------
\* The steps of Loop that leave the wakeup protocol's flags alone.
QuietStep == RunEnter \/ PollOneEnter \/ RunTest \/ StopTest \/ Execute \/ ExecuteDone
             \/ HandlersDone \/ \E b \in BOOLEAN : DoPoll(b) \/ PollFails(b)

\* Next with the steps of Loop grouped as the proofs below use them.
LEMMA NextCases ==
  ASSUME [Next]_vars
  PROVE  \/ \E t \in Threads : \E fn \in Jobs : PostPush(t, fn)
         \/ \E t \in Threads : PostExchange(t)
         \/ \E t \in Threads : StopStore(t)
         \/ \E t \in Threads : WriteWakeupFd(t)
         \/ QuietStep
         \/ DrainWakeupFd \/ SwapQueue \/ ClearPending
         \/ RestartStore \/ RestartDrain \/ RestartClear \/ RestartPending
         \/ UNCHANGED vars
BY DEF Next, ThreadStep, RunStep, RestartStep, QuietStep

(***************************************************************************)
(* stop() is never missed by run(), whatever the number of threads that    *)
(* call post() and stop(): the invariant is inductive given the types.     *)
(***************************************************************************)
THEOREM StopIsNotMissed == Spec => []StopNotMissed
<1>1. Init => StopNotMissed
  BY DEF Init, StopNotMissed
<1>2. TypeOK /\ StopNotMissed /\ [Next]_vars => StopNotMissed'
  <2> SUFFICES ASSUME TypeOK, StopNotMissed, [Next]_vars PROVE StopNotMissed'
    OBVIOUS
  <2> USE DEF StopNotMissed, TypeOK
  <2>1. ASSUME NEW t \in Threads, NEW fn \in Jobs, PostPush(t, fn) PROVE StopNotMissed'
    BY <2>1 DEF PostPush, MayCall
  <2>2. ASSUME NEW t \in Threads, PostExchange(t) PROVE StopNotMissed'
    BY <2>2 DEF PostExchange
  <2>3. ASSUME NEW t \in Threads, StopStore(t) PROVE StopNotMissed'
    BY <2>3 DEF StopStore
  <2>4. ASSUME NEW t \in Threads, WriteWakeupFd(t) PROVE StopNotMissed'
    BY <2>4 DEF WriteWakeupFd
  <2>5. CASE QuietStep
    BY <2>5 DEF QuietStep, RunEnter, PollOneEnter, RunTest, StopTest, Execute, ExecuteDone,
                HandlersDone, DoPoll, PollFails, Goto
  <2>6. CASE DrainWakeupFd \/ SwapQueue \/ ClearPending
    BY <2>6 DEF DrainWakeupFd, SwapQueue, ClearPending
  <2>7. CASE RestartStore \/ RestartDrain \/ RestartClear \/ RestartPending
    BY <2>7 DEF RestartStore, RestartDrain, RestartClear, RestartPending
  <2>8. CASE UNCHANGED vars
    BY <2>8 DEF vars
  <2> QED
    BY <2>1, <2>2, <2>3, <2>4, <2>5, <2>6, <2>7, <2>8, NextCases
<1> QED
  BY <1>1, <1>2, TypeCorrect, PTL DEF Spec

(***************************************************************************)
(* A set m_post_pending always has its wakeup on the way: coalescing in    *)
(* post() never relies on a wakeup nobody will write.                      *)
(***************************************************************************)
THEOREM PendingCovered == Spec => []PendingIsCovered
<1>1. Init => PendingIsCovered
  BY DEF Init, PendingIsCovered
<1>2. TypeOK /\ PendingIsCovered /\ [Next]_vars => PendingIsCovered'
  <2> SUFFICES ASSUME TypeOK, PendingIsCovered, [Next]_vars PROVE PendingIsCovered'
    OBVIOUS
  <2> USE DEF PendingIsCovered, TypeOK, InRestart
  <2>1. ASSUME NEW t \in Threads, NEW fn \in Jobs, PostPush(t, fn) PROVE PendingIsCovered'
    BY <2>1 DEF PostPush, MayCall
  <2>2. ASSUME NEW t \in Threads, PostExchange(t) PROVE PendingIsCovered'
    BY <2>2 DEF PostExchange
  <2>3. ASSUME NEW t \in Threads, StopStore(t) PROVE PendingIsCovered'
    BY <2>3 DEF StopStore
  <2>4. ASSUME NEW t \in Threads, WriteWakeupFd(t) PROVE PendingIsCovered'
    BY <2>4 DEF WriteWakeupFd
  <2>5. CASE QuietStep
    BY <2>5 DEF QuietStep, RunEnter, PollOneEnter, RunTest, StopTest, Execute, ExecuteDone,
                HandlersDone, DoPoll, PollFails, Goto
  <2>6. CASE DrainWakeupFd \/ SwapQueue \/ ClearPending
    BY <2>6 DEF DrainWakeupFd, SwapQueue, ClearPending
  <2>7. CASE RestartStore \/ RestartDrain \/ RestartClear \/ RestartPending
    BY <2>7 DEF RestartStore, RestartDrain, RestartClear, RestartPending
  <2>8. CASE UNCHANGED vars
    BY <2>8 DEF vars
  <2> QED
    BY <2>1, <2>2, <2>3, <2>4, <2>5, <2>6, <2>7, <2>8, NextCases
<1> QED
  BY <1>1, <1>2, TypeCorrect, PTL DEF Spec

-----------------------------------------------------------------------------
(***************************************************************************)
(* When only Loop posts, a queued function has its flag set or its post()  *)
(* still under way, and nothing is queued where the flag is cleared.       *)
(***************************************************************************)
LoopPosts ==
    /\ \A t \in Threads : pc[t] = "pushed" => t = Loop
    /\ pc[Loop] # "idle" => loop \in {"executing", "handlers"}
    /\ loop \in {"swapped", "cleared_queue"} => m_work_queue = <<>>
    /\ m_work_queue # <<>> => m_post_pending \/ pc[Loop] = "pushed"

\* Loop is one of the threads.
LEMMA LoopIsThread == Loop \in Threads
BY DEF Threads

\* LoopPosts holds of every behaviour in which no other thread posts.
LEMMA LoopPostsInvariant == ASSUME Posters \subseteq {Loop} PROVE Spec => []LoopPosts
<1>1. Init => LoopPosts
  BY LoopIsThread DEF Init, LoopPosts
<1>2. TypeOK /\ LoopPosts /\ [Next]_vars => LoopPosts'
  <2> SUFFICES ASSUME TypeOK, LoopPosts, [Next]_vars PROVE LoopPosts'
    OBVIOUS
  <2> USE LoopIsThread DEF LoopPosts, TypeOK
  <2>1. ASSUME NEW t \in Threads, NEW fn \in Jobs, PostPush(t, fn) PROVE LoopPosts'
    <3>1. t = Loop
      BY <2>1 DEF PostPush
    <3> QED
      BY <2>1, <3>1 DEF PostPush, MayCall
  <2>2. ASSUME NEW t \in Threads, PostExchange(t) PROVE LoopPosts'
    BY <2>2 DEF PostExchange
  <2>3. ASSUME NEW t \in Threads, StopStore(t) PROVE LoopPosts'
    BY <2>3 DEF StopStore, MayCall
  <2>4. ASSUME NEW t \in Threads, WriteWakeupFd(t) PROVE LoopPosts'
    BY <2>4 DEF WriteWakeupFd
  <2>5. CASE QuietStep
    BY <2>5 DEF QuietStep, RunEnter, PollOneEnter, RunTest, StopTest, Execute, ExecuteDone,
                HandlersDone, DoPoll, PollFails, Goto
  <2>6. CASE DrainWakeupFd \/ SwapQueue \/ ClearPending
    BY <2>6 DEF DrainWakeupFd, SwapQueue, ClearPending
  <2>7. CASE RestartStore \/ RestartDrain \/ RestartClear \/ RestartPending
    BY <2>7 DEF RestartStore, RestartDrain, RestartClear, RestartPending
  <2>8. CASE UNCHANGED vars
    BY <2>8 DEF vars
  <2> QED
    BY <2>1, <2>2, <2>3, <2>4, <2>5, <2>6, <2>7, <2>8, NextCases
<1> QED
  BY <1>1, <1>2, TypeCorrect, PTL DEF Spec

(***************************************************************************)
(* The promise of post(), for work posted by handlers and posted functions *)
(* themselves: the loop never blocks over it.  For work posted by another  *)
(* thread the statement is false, which is why the assumption is there:    *)
(* the flag can be cleared after that thread has seen it set.              *)
(***************************************************************************)
THEOREM LoopNeverStrandsItsOwnWork ==
  ASSUME Posters \subseteq {Loop} PROVE Spec => []NoStrandedWork
<1>1. TypeOK /\ LoopPosts /\ PendingIsCovered => NoStrandedWork
  BY LoopIsThread DEF TypeOK, LoopPosts, PendingIsCovered, NoStrandedWork, InRestart
<1> QED
  BY <1>1, TypeCorrect, LoopPostsInvariant, PendingCovered, PTL

-----------------------------------------------------------------------------
\* Posting to a queue behind other work posts behind all of it.
LEMMA AppendBehind ==
  ASSUME NEW s \in Seq(Jobs), NEW t \in Seq(Jobs), NEW e \in Jobs
  PROVE  s \o Append(t, e) = Append(s \o t, e)
<1>1. /\ s \o Append(t, e) \in Seq(Jobs)
      /\ Append(s \o t, e) \in Seq(Jobs)
  BY ConcatProperties
<1>2. Len(s \o Append(t, e)) = Len(Append(s \o t, e))
  BY ConcatProperties
<1>3. \A i \in 1..Len(s \o Append(t, e)) : (s \o Append(t, e))[i] = Append(s \o t, e)[i]
  <2> TAKE i \in 1..Len(s \o Append(t, e))
  <2>1. /\ Append(t, e) \in Seq(Jobs) /\ Len(Append(t, e)) = Len(t) + 1
        /\ s \o t \in Seq(Jobs) /\ Len(s \o t) = Len(s) + Len(t)
        /\ i \in 1..(Len(s) + Len(t) + 1)
    BY ConcatProperties
  <2>2. CASE i <= Len(s)
    <3>1. (s \o Append(t, e))[i] = s[i] /\ (s \o t)[i] = s[i]
      BY <2>1, <2>2, ConcatProperties
    <3> QED
      BY <2>1, <2>2, <3>1
  <2>3. CASE Len(s) < i
    <3>1. (s \o Append(t, e))[i] = Append(t, e)[i - Len(s)]
      BY <2>1, <2>3, ConcatProperties
    <3>2. ASSUME i <= Len(s) + Len(t) PROVE (s \o t)[i] = t[i - Len(s)]
      BY <2>1, <2>3, <3>2, ConcatProperties
    <3> QED
      BY <2>1, <2>3, <3>1, <3>2
  <2> QED
    BY <2>1, <2>2, <2>3
<1> QED
  BY <1>1, <1>2, <1>3, SeqEqual

\* The front of two deques in a row is the front of the first.
LEMMA FrontOfTwo ==
  ASSUME NEW s \in Seq(Jobs), NEW t \in Seq(Jobs), s # <<>>
  PROVE  /\ s \o t # <<>>
         /\ Head(s \o t) = Head(s)
         /\ Tail(s \o t) = Tail(s) \o t
<1>1. s \o t \in Seq(Jobs) /\ Len(s \o t) = Len(s) + Len(t) /\ Len(s) \in Nat \ {0}
  BY ConcatProperties
<1>2. s \o t # <<>> /\ Head(s \o t) = Head(s)
  BY <1>1, ConcatProperties
<1>3. Tail(s \o t) \in Seq(Jobs) /\ Tail(s) \o t \in Seq(Jobs)
  BY <1>1, <1>2, HeadTailProperties, ConcatProperties
<1>4. Len(Tail(s \o t)) = Len(Tail(s) \o t)
  BY <1>1, <1>2, HeadTailProperties, ConcatProperties
<1>5. \A i \in 1..Len(Tail(s \o t)) : Tail(s \o t)[i] = (Tail(s) \o t)[i]
  BY <1>1, <1>2, HeadTailProperties, ConcatProperties
<1> QED
  BY <1>2, <1>3, <1>4, <1>5, SeqEqual

\* drain_work_queue() leaves nothing behind: its local deque is empty elsewhere.
LocalInDrain == loop \notin {"swapped", "executing"} => local = <<>>

\* LocalInDrain is inductive given the types.
LEMMA LocalInDrainInvariant == Spec => []LocalInDrain
<1>1. Init => LocalInDrain
  BY DEF Init, LocalInDrain
<1>2. TypeOK /\ LocalInDrain /\ [Next]_vars => LocalInDrain'
  <2> SUFFICES ASSUME TypeOK, LocalInDrain, [Next]_vars PROVE LocalInDrain'
    OBVIOUS
  <2> USE DEF LocalInDrain
  <2>1. CASE \E t \in Threads : (\E fn \in Jobs : PostPush(t, fn)) \/ PostExchange(t)
                               \/ StopStore(t) \/ WriteWakeupFd(t)
    BY <2>1 DEF PostPush, PostExchange, StopStore, WriteWakeupFd
  <2>2. CASE QuietStep
    BY <2>2 DEF QuietStep, RunEnter, PollOneEnter, RunTest, StopTest, Execute, ExecuteDone,
                HandlersDone, DoPoll, PollFails, Goto
  <2>3. CASE DrainWakeupFd \/ SwapQueue \/ ClearPending
    BY <2>3 DEF DrainWakeupFd, SwapQueue, ClearPending
  <2>4. CASE RestartStore \/ RestartDrain \/ RestartClear \/ RestartPending
    BY <2>4 DEF RestartStore, RestartDrain, RestartClear, RestartPending
  <2>5. CASE UNCHANGED vars
    BY <2>5 DEF vars
  <2> QED
    BY <2>1, <2>2, <2>3, <2>4, <2>5, NextCases
<1> QED
  BY <1>1, <1>2, TypeCorrect, PTL DEF Spec

(***************************************************************************)
(* DefaultContext implements the abstract work queue: every step appends   *)
(* to it, runs its front, discards it (restart()) or leaves it alone.      *)
(***************************************************************************)
THEOREM Refinement == Spec => ImplementsWorkQueue
<1>1. Init => WQ!Init
  BY EmptyQueue, ConcatEmptySeq DEF Init, WQ!Init
<1>2. TypeOK /\ LocalInDrain /\ [Next]_vars => [WQ!Next]_<<local \o m_work_queue, executed>>
  <2> DEFINE Goal == [WQ!Next]_<<local \o m_work_queue, executed>>
             Idle == UNCHANGED <<local, m_work_queue, executed>>
  <2> SUFFICES ASSUME TypeOK, LocalInDrain, [Next]_vars PROVE Goal
    OBVIOUS
  <2>0. ASSUME Idle PROVE Goal
    BY <2>0
  <2>1. ASSUME NEW t \in Threads, NEW fn \in Jobs, PostPush(t, fn) PROVE Goal
    <3>1. (local \o m_work_queue)' = Append(local \o m_work_queue, fn)
      BY <2>1, AppendBehind DEF PostPush, TypeOK
    <3>2. WQ!Post(fn)
      BY <2>1, <3>1 DEF WQ!Post, PostPush
    <3> QED
      BY <3>2 DEF WQ!Next
  <2>2. CASE \E t \in Threads : PostExchange(t) \/ StopStore(t) \/ WriteWakeupFd(t)
    <3>1. Idle
      BY <2>2 DEF PostExchange, StopStore, WriteWakeupFd
    <3> QED
      BY <3>1, <2>0
  <2>3. CASE Execute
    <3>1. WQ!Run
      BY <2>3, FrontOfTwo DEF Execute, WQ!Run, TypeOK
    <3> QED
      BY <3>1 DEF WQ!Next
  <2>4. CASE QuietStep /\ ~Execute
    <3>1. Idle
      BY <2>4 DEF QuietStep, RunEnter, PollOneEnter, RunTest, StopTest, ExecuteDone,
                  HandlersDone, DoPoll, PollFails, Goto
    <3> QED
      BY <3>1, <2>0
  <2>5. CASE SwapQueue
    <3>1. local = <<>>
      BY <2>5 DEF SwapQueue, LocalInDrain
    <3>2. (local \o m_work_queue)' = local \o m_work_queue
      BY <2>5, <3>1, ConcatEmptySeq DEF SwapQueue, TypeOK
    <3> QED
      BY <2>5, <3>2 DEF SwapQueue
  <2>6. CASE DrainWakeupFd \/ ClearPending \/ RestartStore \/ RestartDrain \/ RestartPending
    <3>1. Idle
      BY <2>6 DEF DrainWakeupFd, ClearPending, RestartStore, RestartDrain, RestartPending
    <3> QED
      BY <3>1, <2>0
  <2>7. CASE RestartClear
    <3>1. local' = <<>> /\ m_work_queue' = <<>>
      BY <2>7 DEF RestartClear, LocalInDrain
    <3>2. (local \o m_work_queue)' = <<>>
      BY <3>1, EmptyQueue, ConcatEmptySeq
    <3>3. WQ!Discard
      BY <2>7, <3>2 DEF WQ!Discard, RestartClear
    <3> QED
      BY <3>3 DEF WQ!Next
  <2>8. CASE UNCHANGED vars
    <3>1. Idle
      BY <2>8 DEF vars
    <3> QED
      BY <3>1, <2>0
  <2> QED
    BY <2>1, <2>2, <2>3, <2>4, <2>5, <2>6, <2>7, <2>8, NextCases
<1> QED
  BY <1>1, <1>2, TypeCorrect, LocalInDrainInvariant, PTL DEF Spec, ImplementsWorkQueue, WQ!Spec

=============================================================================
