----------------------------- MODULE TaskQueue -----------------------------
(***************************************************************************)
(* What a queue of callbacks promises to those who put into it: callbacks  *)
(* start in the order they were put, each at most once, and each of them   *)
(* starts in the end.  EventLoop (queueInLoop) and ThreadPool (enqueue)    *)
(* are shown to implement it.                                              *)
(***************************************************************************)
EXTENDS Sequences

CONSTANT Tasks          \* the callbacks; each is put at most once

VARIABLES
    queue,              \* put and not started, oldest first
    started             \* started, oldest first

vars == <<queue, started>>

Elements(s) == {s[i] : i \in DOMAIN s}

Init == queue = <<>> /\ started = <<>>

Put(t) ==
    /\ t \notin Elements(queue) \cup Elements(started)
    /\ queue' = Append(queue, t)
    /\ UNCHANGED started

Start ==
    /\ queue # <<>>
    /\ started' = Append(started, Head(queue))
    /\ queue' = Tail(queue)

Next == Start \/ \E t \in Tasks : Put(t)

Spec == Init /\ [][Next]_vars
FairSpec == Spec /\ WF_vars(Start)
============================================================================
