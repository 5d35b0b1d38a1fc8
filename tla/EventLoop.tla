------------------------------ MODULE EventLoop ------------------------------
(***************************************************************************)
(* DefaultContext: the poll()-based executor behind DefaultPolicy.         *)
(*                                                                         *)
(* One thread (Loop) is inside run() or poll_one(); user threads call      *)
(* post() and stop() concurrently with it.  Every atomic access, every     *)
(* critical section of m_work_mutex and every system call on the wakeup    *)
(* descriptor is a step of its own, because the protocol between post()    *)
(* and drain_work_queue() is about the order of exactly those.             *)
(*                                                                         *)
(* Timer and receive handlers are abstracted to what they do to the loop:  *)
(* they may call post() and stop() themselves.                             *)
(***************************************************************************)
EXTENDS Naturals, Sequences, FiniteSets

CONSTANTS
    Loop,         \* the thread that calls run(), poll_one() and restart()
    Posters,      \* the threads that call post()
    Stoppers,     \* the threads that call stop()
    Jobs,         \* the functions handed to post(), each at most once
    MaxRestarts   \* bound on the calls of restart()

ASSUME RestartBound == MaxRestarts \in Nat

VARIABLES
    m_stopped,       \* std::atomic<bool>
    m_work_queue,    \* the deque guarded by m_work_mutex
    m_post_pending,  \* std::atomic<bool>: a wakeup is already on its way
    wakeup,          \* the wakeup descriptor is readable
    pc,              \* where each thread is inside post() or stop()
    loop,            \* where Loop is inside run(), poll_one() or restart()
    once,            \* Loop is in poll_one()
    local,           \* the deque drain_work_queue() swapped out
    executed,        \* the functions run so far, in order
    restarts         \* how often restart() was called

vars == <<m_stopped, m_work_queue, m_post_pending, wakeup, pc,
          loop, once, local, executed, restarts>>

Threads == Posters \cup Stoppers \cup {Loop}

InRun == {"top", "poll", "woken", "drained", "draining", "swapped", "executing",
          "handlers"}
InRestart == {"restarted", "cleared_fd", "cleared_queue"}

-----------------------------------------------------------------------------
Init ==
    /\ m_stopped = FALSE
    /\ m_work_queue = <<>>
    /\ m_post_pending = FALSE
    /\ wakeup = FALSE
    /\ pc = [t \in Threads |-> "idle"]
    /\ loop = "outside"
    /\ once = FALSE
    /\ local = <<>>
    /\ executed = <<>>
    /\ restarts = 0

(***************************************************************************)
(* A user thread may call post() or stop() at any time; Loop only while it *)
(* runs a posted function or a handler.                                    *)
(***************************************************************************)
MayCall(t) == /\ pc[t] = "idle"
              /\ t = Loop => loop \in {"executing", "handlers"}

Held == executed \o local \o m_work_queue
Used == {Held[i] : i \in DOMAIN Held}

(***************************************************************************)
(* post(fn): push under the lock, exchange m_post_pending, and write the   *)
(* wakeup descriptor only when nobody had set it.                          *)
(***************************************************************************)
PostPush(t, fn) ==
    /\ t \in Posters
    /\ MayCall(t)
    /\ fn \notin Used
    /\ m_work_queue' = Append(m_work_queue, fn)
    /\ pc' = [pc EXCEPT ![t] = "pushed"]
    /\ UNCHANGED <<m_stopped, m_post_pending, wakeup, loop, once,
                   local, executed, restarts>>

PostExchange(t) ==
    /\ pc[t] = "pushed"
    /\ m_post_pending' = TRUE
    /\ pc' = [pc EXCEPT ![t] = IF m_post_pending THEN "idle" ELSE "write"]
    /\ UNCHANGED <<m_stopped, m_work_queue, wakeup, loop, once,
                   local, executed, restarts>>

\* Mutant: stop() stores the flag and does not wake the loop.
StopStore_NoWakeup(t) ==
    /\ t \in Stoppers
    /\ MayCall(t)
    /\ m_stopped' = TRUE
    /\ UNCHANGED <<m_work_queue, m_post_pending, wakeup, pc, loop, once, local, executed, restarts>>

\* stop(): store m_stopped, then write the wakeup descriptor unconditionally.
StopStore(t) ==
    /\ t \in Stoppers
    /\ MayCall(t)
    /\ m_stopped' = TRUE
    /\ pc' = [pc EXCEPT ![t] = "write"]
    /\ UNCHANGED <<m_work_queue, m_post_pending, wakeup, loop, once,
                   local, executed, restarts>>

WriteWakeupFd(t) ==
    /\ pc[t] = "write"
    /\ wakeup' = TRUE
    /\ pc' = [pc EXCEPT ![t] = "idle"]
    /\ UNCHANGED <<m_stopped, m_work_queue, m_post_pending, loop,
                   once, local, executed, restarts>>

-----------------------------------------------------------------------------
\* The control point of Loop moves; nothing else does.
Goto(l) ==
    /\ loop' = l
    /\ UNCHANGED <<m_stopped, m_work_queue, m_post_pending, wakeup,
                   pc, once, local, executed, restarts>>

RunEnter ==
    /\ loop = "outside"
    /\ loop' = "top"
    /\ once' = FALSE
    /\ UNCHANGED <<m_stopped, m_work_queue, m_post_pending, wakeup,
                   pc, local, executed, restarts>>

\* while(!m_stopped): the test at the head of run()'s loop.
RunTest ==
    /\ loop = "top"
    /\ Goto(IF m_stopped THEN "outside" ELSE "poll")

\* poll_one() polls at once, without looking at m_stopped.
PollOneEnter ==
    /\ loop = "outside"
    /\ loop' = "poll"
    /\ once' = TRUE
    /\ UNCHANGED <<m_stopped, m_work_queue, m_post_pending, wakeup,
                   pc, local, executed, restarts>>

(***************************************************************************)
(* do_poll() returns because a descriptor is readable or because a timer   *)
(* is due (poll_one() polls with timeout 0 and always returns).  Only the  *)
(* first of these needs the wakeup descriptor: `due' is any other reason.  *)
(***************************************************************************)
DoPoll(due) ==
    /\ loop = "poll"
    /\ wakeup \/ due \/ once
    /\ loop' = IF wakeup THEN "woken" ELSE "handlers"
    /\ UNCHANGED <<m_stopped, m_work_queue, m_post_pending, wakeup, pc, once, local,
                   executed, restarts>>

\* poll() fails: EINTR goes round the loop again, anything else leaves it.
PollFails(interrupted) ==
    /\ loop = "poll"
    /\ loop' = IF interrupted /\ ~once THEN "top" ELSE "outside"
    /\ UNCHANGED <<m_stopped, m_work_queue, m_post_pending, wakeup, pc, once, local,
                   executed, restarts>>

DrainWakeupFd ==
    /\ loop = "woken"
    /\ wakeup' = FALSE
    /\ loop' = "drained"
    /\ UNCHANGED <<m_stopped, m_work_queue, m_post_pending, pc, once,
                   local, executed, restarts>>

\* The second test of m_stopped, between the drain and the work queue.
StopTest ==
    /\ loop = "drained"
    /\ Goto(IF m_stopped THEN "outside" ELSE "draining")

\* Mutant: the queue is copied, not swapped.
SwapQueue_Copied ==
    /\ loop = "draining"
    /\ local' = m_work_queue
    /\ loop' = "swapped"
    /\ UNCHANGED <<m_stopped, m_work_queue, m_post_pending, wakeup, pc, once, executed, restarts>>

\* drain_work_queue(): swap under the lock ...
SwapQueue ==
    /\ loop = "draining"
    /\ local' = m_work_queue
    /\ m_work_queue' = <<>>
    /\ loop' = "swapped"
    /\ UNCHANGED <<m_stopped, m_post_pending, wakeup, pc, once,
                   executed, restarts>>

\* Mutant: the coalescing flag is not cleared.
ClearPending_Forgotten ==
    /\ loop = "swapped"
    /\ Goto("executing")

\* ... then, after the lock was released, clear the coalescing flag ...
ClearPending ==
    /\ loop = "swapped"
    /\ m_post_pending' = FALSE
    /\ loop' = "executing"
    /\ UNCHANGED <<m_stopped, m_work_queue, wakeup, pc, once, local,
                   executed, restarts>>

\* ... and run what was swapped out.
Execute ==
    /\ loop = "executing"
    /\ pc[Loop] = "idle"
    /\ local # <<>>
    /\ executed' = Append(executed, Head(local))
    /\ local' = Tail(local)
    /\ UNCHANGED <<m_stopped, m_work_queue, m_post_pending, wakeup,
                   pc, loop, once, restarts>>

\* poll_one() returns after the work queue; run() goes on to the handlers.
ExecuteDone ==
    /\ loop = "executing"
    /\ pc[Loop] = "idle"
    /\ local = <<>>
    /\ Goto(IF once THEN "outside" ELSE "handlers")

\* dispatch_receives() and fire_expired_timers() have run their handlers.
HandlersDone ==
    /\ loop = "handlers"
    /\ pc[Loop] = "idle"
    /\ Goto(IF once THEN "outside" ELSE "top")

-----------------------------------------------------------------------------
(***************************************************************************)
(* restart(): the flag, the descriptor, the queue and the coalescing flag, *)
(* one after the other.                                                    *)
(***************************************************************************)
RestartStore ==
    /\ loop = "outside"
    /\ m_stopped
    /\ restarts < MaxRestarts
    /\ restarts' = restarts + 1
    /\ m_stopped' = FALSE
    /\ loop' = "restarted"
    /\ UNCHANGED <<m_work_queue, m_post_pending, wakeup, pc, once,
                   local, executed>>

RestartDrain ==
    /\ loop = "restarted"
    /\ wakeup' = FALSE
    /\ loop' = "cleared_fd"
    /\ UNCHANGED <<m_stopped, m_work_queue, m_post_pending, pc, once,
                   local, executed, restarts>>

\* What the queue held is dropped.
RestartClear ==
    /\ loop = "cleared_fd"
    /\ m_work_queue' = <<>>
    /\ loop' = "cleared_queue"
    /\ UNCHANGED <<m_stopped, m_post_pending, wakeup, pc, once, local,
                   executed, restarts>>

RestartPending ==
    /\ loop = "cleared_queue"
    /\ m_post_pending' = FALSE
    /\ loop' = "outside"
    /\ UNCHANGED <<m_stopped, m_work_queue, wakeup, pc, once, local,
                   executed, restarts>>

-----------------------------------------------------------------------------
ThreadStep(t) ==
    \/ \E fn \in Jobs : PostPush(t, fn)
    \/ PostExchange(t)
    \/ StopStore(t)
    \/ WriteWakeupFd(t)

RunStep ==
    \/ RunTest
    \/ \E due \in BOOLEAN : DoPoll(due)
    \/ \E interrupted \in BOOLEAN : PollFails(interrupted)
    \/ DrainWakeupFd
    \/ StopTest
    \/ SwapQueue
    \/ ClearPending
    \/ Execute
    \/ ExecuteDone
    \/ HandlersDone

RestartStep ==
    \/ RestartStore
    \/ RestartDrain
    \/ RestartClear
    \/ RestartPending

Next ==
    \/ \E t \in Threads : ThreadStep(t)
    \/ RunEnter
    \/ PollOneEnter
    \/ RunStep
    \/ RestartStep

Spec == Init /\ [][Next]_vars

(***************************************************************************)
(* Fairness.  A thread inside post() or stop() finishes the call, and Loop *)
(* finishes the run(), poll_one() or restart() it is in.  Nothing else is  *)
(* assumed: not that a timer or a packet ever ends a poll() (`due'), nor   *)
(* that anyone posts, stops or restarts.  Strong fairness says that poll() *)
(* is not interrupted for ever over a readable descriptor, and that a      *)
(* handler returns even if it calls post() or stop() on its way.           *)
(***************************************************************************)
CallStep(t) == PostExchange(t) \/ WriteWakeupFd(t)

LoopStep ==
    \/ RunTest
    \/ DrainWakeupFd
    \/ StopTest
    \/ SwapQueue
    \/ ClearPending
    \/ RestartDrain
    \/ RestartClear
    \/ RestartPending

HandlerReturns == Execute \/ ExecuteDone \/ HandlersDone

FairSpec ==
    /\ Spec
    /\ \A t \in Threads : WF_vars(CallStep(t))
    /\ WF_vars(LoopStep)
    /\ SF_vars(DoPoll(FALSE))
    /\ SF_vars(HandlerReturns)

-----------------------------------------------------------------------------
(***************************************************************************)
(* DefaultContext implements the promise of Policy::post(): what waits is  *)
(* what drain_work_queue() holds followed by what is queued.               *)
(***************************************************************************)
WQ == INSTANCE WorkQueue WITH todo <- local \o m_work_queue, done <- executed

(***************************************************************************)
(* Every step of the threads and the loop is a step of the abstract work   *)
(* queue or changes nothing of it: post() appends, the drain runs from the *)
(* front, and only restart() discards.                                     *)
(***************************************************************************)
ImplementsWorkQueue == WQ!Spec

\* The type invariant of DefaultContext's members and of the control points.
TypeOK ==
    /\ m_stopped \in BOOLEAN
    /\ m_work_queue \in Seq(Jobs)
    /\ m_post_pending \in BOOLEAN
    /\ wakeup \in BOOLEAN
    /\ pc \in [Threads -> {"idle", "pushed", "write"}]
    /\ loop \in {"outside"} \cup InRun \cup InRestart
    /\ once \in BOOLEAN
    /\ local \in Seq(Jobs)
    /\ executed \in Seq(Jobs)
    /\ restarts \in 0..MaxRestarts

(***************************************************************************)
(* stop() is never missed: run() does not sit in poll() after stop() has   *)
(* stored m_stopped unless the wakeup that ends the poll is there or is    *)
(* about to be written.  It is what the two tests of m_stopped, one before *)
(* the poll and one after the drain, have to ensure together.              *)
(***************************************************************************)
StopNotMissed ==
    m_stopped /\ loop = "poll" /\ ~once => wakeup \/ \E t \in Threads : pc[t] = "write"

(***************************************************************************)
(* The coalescing of wakeups is sound in one direction: while              *)
(* m_post_pending is set, a wakeup is readable or about to be written, or  *)
(* Loop has consumed it and has not yet cleared the flag, or the context   *)
(* is stopped or restarting.                                               *)
(***************************************************************************)
PendingIsCovered ==
    m_post_pending =>
        \/ wakeup
        \/ \E t \in Threads : pc[t] = "write"
        \/ loop \in {"drained", "draining", "swapped"} \cup InRestart
        \/ m_stopped

(***************************************************************************)
(* What the comment on post() promises, "The function will be executed     *)
(* during the next run()/poll_one() iteration", needs this: run() never    *)
(* blocks in poll() over queued work once every call of post() has         *)
(* returned, unless the wakeup is readable.                                *)
(***************************************************************************)
NoStrandedWork ==
    /\ loop = "poll"
    /\ ~m_stopped
    /\ \A t \in Threads : pc[t] = "idle"
    /\ m_work_queue # <<>>
    => wakeup

(***************************************************************************)
(* stop() ends run(): once m_stopped is stored, Loop leaves run() or       *)
(* poll_one(), unless the flag is cleared again by restart().              *)
(***************************************************************************)
StopReturns == m_stopped ~> (loop = "outside" \/ ~m_stopped)

(***************************************************************************)
(* Queued work runs: a function in the queue is run by the loop, unless    *)
(* the context is stopped or Loop leaves run().                            *)
(***************************************************************************)
QueuedWorkRuns ==
    \A fn \in Jobs :
        (\E i \in DOMAIN m_work_queue : m_work_queue[i] = fn) ~>
            \/ \E i \in DOMAIN executed : executed[i] = fn
            \/ m_stopped
            \/ loop \notin InRun
=============================================================================
