----------------------------- MODULE EventLoop -----------------------------
(***************************************************************************)
(* One EventLoop of netlib and the threads that use it: the loop thread of *)
(* EventLoopThread, which polls, handles events and runs the functors of   *)
(* pendingFunctors_, and other threads that call queueInLoop and quit.     *)
(*                                                                         *)
(* The loop is blocked in poll until its eventfd is readable or another    *)
(* descriptor has an event.  A call from another thread writes the eventfd *)
(* in a step of its own, after the step that changed the loop's state.     *)
(***************************************************************************)
EXTENDS Sequences

CONSTANTS
    Threads,     \* threads other than the loop's
    Functors     \* bound: the callbacks, each queued at most once

VARIABLES
    pc,                       \* where the loop thread is
    quit_,                    \* EventLoop::quit_
    callingPendingFunctors_,  \* EventLoop::callingPendingFunctors_
    pendingFunctors_,         \* EventLoop::pendingFunctors_
    functors,                 \* the local vector of doPendingFunctors
    wakeupFd_,                \* the eventfd counter is not zero
    active,                   \* activeChannels_ holds wakeupChannel_
    calling,                  \* threads that have yet to call wakeup()
    executed                  \* history: functors run, oldest first

vars == <<pc, quit_, callingPendingFunctors_, pendingFunctors_, functors,
          wakeupFd_, active, calling, executed>>

\* "new": constructed and published by threadFunc, loop() not entered;
\* "ended": loop() has returned and the EventLoop is destroyed.
Locations == {"new", "test", "poll", "handle", "swap", "run", "functor",
              "ended"}

Elements(s) == {s[i] : i \in DOMAIN s}
Queued == Elements(pendingFunctors_) \cup Elements(functors)
             \cup Elements(executed)

\* The constructor does not initialise callingPendingFunctors_.
Init ==
    /\ pc = "new"
    /\ quit_ = FALSE
    /\ callingPendingFunctors_ \in BOOLEAN
    /\ pendingFunctors_ = <<>>
    /\ functors = <<>>
    /\ wakeupFd_ = FALSE
    /\ active = FALSE
    /\ calling = {}
    /\ executed = <<>>

----------------------------------------------------------------------------
(***************************************************************************)
(* Other threads.  They hold the loop until it has ended.                  *)
(***************************************************************************)

\* queueInLoop up to the unlock; a thread other than the loop's must wake it.
Queue(p, f) ==
    /\ pc # "ended"
    /\ p \notin calling
    /\ f \notin Queued
    /\ pendingFunctors_' = Append(pendingFunctors_, f)
    /\ calling' = calling \cup {p}
    /\ UNCHANGED <<pc, quit_, callingPendingFunctors_, functors, wakeupFd_,
                   active, executed>>

\* Mutant: the caller is not counted as another thread.
QuitNoWakeup(p) ==
    /\ pc # "ended"
    /\ p \notin calling
    /\ ~quit_
    /\ quit_' = TRUE
    /\ UNCHANGED <<pc, callingPendingFunctors_, pendingFunctors_, functors,
                   wakeupFd_, active, calling, executed>>

\* ~EventLoopThread calls quit().
Quit(p) ==
    /\ pc # "ended"
    /\ p \notin calling
    /\ ~quit_
    /\ quit_' = TRUE
    /\ calling' = calling \cup {p}
    /\ UNCHANGED <<pc, callingPendingFunctors_, pendingFunctors_, functors,
                   wakeupFd_, active, executed>>

wakeup(p) ==
    /\ p \in calling
    /\ calling' = calling \ {p}
    /\ wakeupFd_' = TRUE
    /\ UNCHANGED <<pc, quit_, callingPendingFunctors_, pendingFunctors_,
                   functors, active, executed>>

----------------------------------------------------------------------------
(***************************************************************************)
(* The loop thread.                                                        *)
(***************************************************************************)

\* loop() begins by clearing quit_.
Enter ==
    /\ pc = "new"
    /\ pc' = "test"
    /\ quit_' = FALSE
    /\ UNCHANGED <<callingPendingFunctors_, pendingFunctors_, functors,
                   wakeupFd_, active, calling, executed>>

Test ==
    /\ pc = "test"
    /\ pc' = IF quit_ THEN "ended" ELSE "poll"
    /\ UNCHANGED <<quit_, callingPendingFunctors_, pendingFunctors_, functors,
                   wakeupFd_, active, calling, executed>>

\* poll returns for the eventfd ...
PollWakeup ==
    /\ pc = "poll"
    /\ wakeupFd_
    /\ active' = TRUE
    /\ pc' = "handle"
    /\ UNCHANGED <<quit_, callingPendingFunctors_, pendingFunctors_, functors,
                   wakeupFd_, calling, executed>>

\* ... or for a connection only.
PollEvent ==
    /\ pc = "poll"
    /\ ~wakeupFd_
    /\ active' = FALSE
    /\ pc' = "handle"
    /\ UNCHANGED <<quit_, callingPendingFunctors_, pendingFunctors_, functors,
                   wakeupFd_, calling, executed>>

\* Mutant: the loop thread never wakes itself.
LoopQueueNoWakeup(f) ==
    /\ pc \in {"handle", "functor"}
    /\ f \notin Queued
    /\ pendingFunctors_' = Append(pendingFunctors_, f)
    /\ UNCHANGED <<pc, quit_, callingPendingFunctors_, functors, wakeupFd_,
                   active, calling, executed>>

\* A callback of an event or a running functor calls queueInLoop.
LoopQueue(f) ==
    /\ pc \in {"handle", "functor"}
    /\ f \notin Queued
    /\ pendingFunctors_' = Append(pendingFunctors_, f)
    /\ wakeupFd_' = (wakeupFd_ \/ callingPendingFunctors_)
    /\ UNCHANGED <<pc, quit_, callingPendingFunctors_, functors, active,
                   calling, executed>>

\* The event callbacks have run; that of the eventfd has emptied it.
HandleEvents ==
    /\ pc = "handle"
    /\ wakeupFd_' = (wakeupFd_ /\ ~active)
    /\ pc' = "swap"
    /\ UNCHANGED <<quit_, callingPendingFunctors_, pendingFunctors_, functors,
                   active, calling, executed>>

\* Mutant: the pending functors are copied, not swapped out.
CopyPending ==
    /\ pc = "swap"
    /\ callingPendingFunctors_' = TRUE
    /\ functors' = pendingFunctors_
    /\ pc' = "run"
    /\ UNCHANGED <<quit_, pendingFunctors_, wakeupFd_, active, calling,
                   executed>>

\* doPendingFunctors takes the whole vector under the lock.
SwapPending ==
    /\ pc = "swap"
    /\ callingPendingFunctors_' = TRUE
    /\ functors' = pendingFunctors_
    /\ pendingFunctors_' = <<>>
    /\ pc' = "run"
    /\ UNCHANGED <<quit_, wakeupFd_, active, calling, executed>>

RunFunctor ==
    /\ pc = "run"
    /\ functors # <<>>
    /\ executed' = Append(executed, Head(functors))
    /\ functors' = Tail(functors)
    /\ pc' = "functor"
    /\ UNCHANGED <<quit_, callingPendingFunctors_, pendingFunctors_,
                   wakeupFd_, active, calling>>

FunctorReturns ==
    /\ pc = "functor"
    /\ pc' = "run"
    /\ UNCHANGED <<quit_, callingPendingFunctors_, pendingFunctors_, functors,
                   wakeupFd_, active, calling, executed>>

AllRun ==
    /\ pc = "run"
    /\ functors = <<>>
    /\ callingPendingFunctors_' = FALSE
    /\ pc' = "test"
    /\ UNCHANGED <<quit_, pendingFunctors_, functors, wakeupFd_, active,
                   calling, executed>>

----------------------------------------------------------------------------
\* The loop thread goes on by itself, except for the arrival of an event.
LoopStep ==
    \/ Enter \/ Test \/ PollWakeup \/ HandleEvents \/ SwapPending
    \/ RunFunctor \/ FunctorReturns \/ AllRun

Next ==
    \/ LoopStep \/ PollEvent
    \/ \E f \in Functors : LoopQueue(f)
    \/ \E p \in Threads :
          wakeup(p) \/ Quit(p) \/ \E f \in Functors : Queue(p, f)

\* Threads keep running; no event ever has to arrive.
Fairness == WF_vars(LoopStep) /\ \A p \in Threads : WF_vars(wakeup(p))

Spec == Init /\ [][Next]_vars
FairSpec == Spec /\ Fairness

----------------------------------------------------------------------------
TypeOK ==
    /\ pc \in Locations
    /\ quit_ \in BOOLEAN
    /\ callingPendingFunctors_ \in BOOLEAN
    /\ pendingFunctors_ \in Seq(Functors)
    /\ functors \in Seq(Functors)
    /\ wakeupFd_ \in BOOLEAN
    /\ active \in BOOLEAN
    /\ calling \subseteq Threads
    /\ executed \in Seq(Functors)

\* The loop never blocks over work: when it is in poll with functors pending,
\* the eventfd is readable or a thread is about to write it, whoever queued
\* them (another thread, an event callback, a running functor) and whatever
\* the uninitialised callingPendingFunctors_ was.
NoSleepOverWork ==
    pc = "poll" /\ pendingFunctors_ # <<>> => wakeupFd_ \/ calling # {}

\* Functors run in the order in which they were queued, each once.
Order == INSTANCE TaskQueue WITH
            Tasks <- Functors, queue <- functors \o pendingFunctors_,
            started <- executed
FifoOnce == Order!Spec

\* A queued functor is run, unless the loop ends first.
QueuedRuns ==
    \A f \in Functors :
        f \in Elements(pendingFunctors_)
            ~> f \in Elements(executed) \/ pc = "ended"

\* A quit that comes after loop() was entered ends the loop, even one blocked
\* in poll.
QuitEndsLoop == quit_ /\ pc # "new" ~> pc = "ended"
============================================================================
