----------------------------- MODULE ThreadPool -----------------------------
(***************************************************************************)
(* ThreadPool of base/threadPool.h: workers that wait on a condition       *)
(* variable for works, callers that enqueue and notify in two steps, tasks *)
(* that enqueue further tasks, and the destructor that drains and joins.   *)
(*                                                                         *)
(* A critical section of mtx is one step.  The wait set of cv is the set   *)
(* of waiting workers; a wait may end without a notification.              *)
(***************************************************************************)
EXTENDS Sequences, Naturals, FiniteSets

CONSTANTS
    Workers,     \* the threads of thd
    Callers,     \* other threads that call enqueue
    Tasks        \* bound: the tasks, each enqueued at most once

ASSUME ThreadsAssumption ==
    /\ IsFiniteSet(Workers) /\ Workers # {}
    /\ IsFiniteSet(Callers)

VARIABLES
    works,       \* ThreadPool::works
    runflag,     \* ThreadPool::runflag
    worker,      \* each worker: where it is
    notifying,   \* threads in enqueue, past the unlock, before notify_one
    owner,       \* the thread that destroys the pool
    started      \* history: tasks taken by workers, oldest first

poolVars == <<works, runflag, worker, notifying, owner, started>>

\* "lock": about to test the predicate under mtx; "waiting": in cv.wait.
WorkerLocations == {"lock", "waiting", "run", "exited"}

TasksIn(s) == {s[i] : i \in DOMAIN s}
At(location) == {w \in Workers : worker[w] = location}

PoolInit ==
    /\ works = <<>>
    /\ runflag = TRUE
    /\ worker = [w \in Workers |-> "lock"]
    /\ notifying = {}
    /\ owner = "uses"
    /\ started = <<>>

----------------------------------------------------------------------------
\* Mutant: a caller notifies only when the queue was empty.
PushNotifyFirst(p, t) ==
    /\ p \notin notifying
    /\ t \notin TasksIn(works) \cup TasksIn(started)
    /\ works' = Append(works, t)
    /\ notifying' = IF works = <<>> THEN notifying \cup {p} ELSE notifying

\* enqueue up to the unlock.
Push(p, t) ==
    /\ p \notin notifying
    /\ t \notin TasksIn(works) \cup TasksIn(started)
    /\ works' = Append(works, t)
    /\ notifying' = notifying \cup {p}

\* Nobody else may use a pool that is being destroyed ...
CallerEnqueue(p, t) ==
    /\ owner = "uses"
    /\ Push(p, t)
    /\ UNCHANGED <<runflag, worker, owner, started>>

\* ... but a task still running in it may.
TaskEnqueue(w, t) ==
    /\ worker[w] = "run"
    /\ Push(w, t)
    /\ UNCHANGED <<runflag, worker, owner, started>>

\* cv.notify_one wakes some waiting worker, if there is one.
notify_one(p) ==
    /\ p \in notifying
    /\ notifying' = notifying \ {p}
    /\ IF At("waiting") = {} THEN UNCHANGED worker
       ELSE \E w \in At("waiting") : worker' = [worker EXCEPT ![w] = "lock"]
    /\ UNCHANGED <<works, runflag, owner, started>>

----------------------------------------------------------------------------
\* Mutant: the newest task is taken.
TakeNewest(w) ==
    /\ worker[w] = "lock"
    /\ works # <<>>
    /\ started' = Append(started, works[Len(works)])
    /\ works' = SubSeq(works, 1, Len(works) - 1)
    /\ worker' = [worker EXCEPT ![w] = "run"]
    /\ UNCHANGED <<runflag, notifying, owner>>

Take(w) ==
    /\ worker[w] = "lock"
    /\ works # <<>>
    /\ started' = Append(started, Head(works))
    /\ works' = Tail(works)
    /\ worker' = [worker EXCEPT ![w] = "run"]
    /\ UNCHANGED <<runflag, notifying, owner>>

TaskReturns(w) ==
    /\ worker[w] = "run"
    /\ w \notin notifying
    /\ worker' = [worker EXCEPT ![w] = "lock"]
    /\ UNCHANGED <<works, runflag, notifying, owner, started>>

Wait(w) ==
    /\ worker[w] = "lock"
    /\ works = <<>> /\ runflag
    /\ worker' = [worker EXCEPT ![w] = "waiting"]
    /\ UNCHANGED <<works, runflag, notifying, owner, started>>

WakeSpuriously(w) ==
    /\ worker[w] = "waiting"
    /\ worker' = [worker EXCEPT ![w] = "lock"]
    /\ UNCHANGED <<works, runflag, notifying, owner, started>>

\* Mutant: a worker leaves as soon as the pool is being destroyed.
ExitAtOnce(w) ==
    /\ worker[w] = "lock"
    /\ ~runflag
    /\ worker' = [worker EXCEPT ![w] = "exited"]
    /\ UNCHANGED <<works, runflag, notifying, owner, started>>

Exit(w) ==
    /\ worker[w] = "lock"
    /\ works = <<>> /\ ~runflag
    /\ worker' = [worker EXCEPT ![w] = "exited"]
    /\ UNCHANGED <<works, runflag, notifying, owner, started>>

----------------------------------------------------------------------------
\* ~ThreadPool, once no caller is in enqueue: the flag, under mtx ...
Destroy ==
    /\ owner = "uses"
    /\ notifying \cap Callers = {}
    /\ runflag' = FALSE
    /\ owner' = "notifies"
    /\ UNCHANGED <<works, worker, notifying, started>>

\* Mutant: the destructor wakes one worker only.
NotifyOneAtEnd ==
    /\ owner = "notifies"
    /\ owner' = "joins"
    /\ IF At("waiting") = {} THEN UNCHANGED worker
       ELSE \E w \in At("waiting") : worker' = [worker EXCEPT ![w] = "lock"]
    /\ UNCHANGED <<works, runflag, notifying, started>>

\* ... then notify_all ...
notify_all ==
    /\ owner = "notifies"
    /\ owner' = "joins"
    /\ worker' = [w \in Workers |->
                    IF worker[w] = "waiting" THEN "lock" ELSE worker[w]]
    /\ UNCHANGED <<works, runflag, notifying, started>>

\* ... then the joins.
Join ==
    /\ owner = "joins"
    /\ \A w \in Workers : worker[w] = "exited"
    /\ owner' = "done"
    /\ UNCHANGED <<works, runflag, worker, notifying, started>>

----------------------------------------------------------------------------
WorkerStep(w) ==
    notify_one(w) \/ Take(w) \/ TaskReturns(w) \/ Wait(w) \/ Exit(w)

PoolNext ==
    \/ \E w \in Workers : WorkerStep(w) \/ WakeSpuriously(w)
    \/ \E w \in Workers, t \in Tasks : TaskEnqueue(w, t)
    \/ \E p \in Callers, t \in Tasks : CallerEnqueue(p, t)
    \/ \E p \in Callers : notify_one(p)
    \/ Destroy \/ notify_all \/ Join

\* Threads keep running and tasks return; nobody has to enqueue or destroy,
\* and no wait has to end without a notification.
PoolFairness ==
    /\ \A w \in Workers : WF_poolVars(WorkerStep(w))
    /\ \A p \in Callers : WF_poolVars(notify_one(p))
    /\ WF_poolVars(notify_all \/ Join)

PoolSpec == PoolInit /\ [][PoolNext]_poolVars
PoolFairSpec == PoolSpec /\ PoolFairness

----------------------------------------------------------------------------
PoolTypeOK ==
    /\ works \in Seq(Tasks)
    /\ runflag \in BOOLEAN
    /\ worker \in [Workers -> WorkerLocations]
    /\ notifying \subseteq Workers \cup Callers
    /\ owner \in {"uses", "notifies", "joins", "done"}
    /\ started \in Seq(Tasks)

\* No task is left waiting beside a sleeping worker: while a worker sleeps,
\* every task in works has a worker of its own on the way to the lock, or a
\* caller about to notify one.
NoTaskBesideSleeper ==
    At("waiting") # {} =>
        Len(works) <= Cardinality(At("lock")) + Cardinality(notifying)

\* The destructor returns only when every task has been run, those that
\* running tasks enqueued meanwhile included.
DrainedWhenDone == owner = "done" => works = <<>> /\ At("run") = {}

\* Tasks start in the order of the enqueues, each once, and every one of them
\* starts in the end, destroyed pool or not.
PoolOrder == INSTANCE TaskQueue WITH queue <- works
StartsInOrder == PoolOrder!FairSpec

\* The destructor returns: no worker sleeps through it.
DestructorReturns == owner = "notifies" ~> owner = "done"
============================================================================
