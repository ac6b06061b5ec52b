----------------------------- MODULE Connection -----------------------------
(***************************************************************************)
(* The life of a TcpConnection of the chat server: TcpServer creates it on *)
(* the main loop, its IO loop establishes it, reads and writes its socket  *)
(* and closes it, pool workers send on it, and the idle monitors that the  *)
(* connection callback of server.cc starts have it closed by force.        *)
(*                                                                         *)
(* state_ is read and written by all of these threads without a lock.  The *)
(* object is shared: TcpServer, functors, pool tasks, lastActiveTime and   *)
(* the monitors hold references, and so do the maps of the handlers, two   *)
(* of which are never erased; but the functor that shutdown() queues and   *)
(* the poller hold plain pointers.                                         *)
(*                                                                         *)
(* An action is what a thread does between two reads or writes of state_   *)
(* or two queue operations.  ioQueue[c] is the part of the pending         *)
(* functors of c's IO loop that belongs to c; loops run them in order (see *)
(* EventLoop).  The build has assertions on, so a failed one ends the      *)
(* process.                                                                *)
(***************************************************************************)
EXTENDS Naturals, Sequences

CONSTANTS
    Conns,       \* TcpConnection objects
    Monitors,    \* bound: the detached threads connection callbacks start
    NoConn,      \* no connection
    MaxTasks     \* bound: the requests each client sends, heartbeats included

ASSUME ConstantsAssumption ==
    /\ NoConn \notin Conns
    /\ MaxTasks \in Nat

VARIABLES
    state_,          \* TcpConnection::state_, or "none" before its creation
    connections_,    \* TcpServer::connections_
    lastActiveTime,  \* connections with an entry (handleData.cc)
    mainQueue,       \* the main loop's functors: <<"remove" or "idle", c>>
    idle,            \* where the main loop is in an idle functor: <<at, c>>
    ioQueue,         \* each connection: functors queued on its IO loop
    closing,         \* each connection: how far handleClose is
    inPoller,        \* each connection: its channel is in the epoll set
    reading,         \* each connection: its channel waits for POLLIN
    writing,         \* ... and for POLLOUT
    peerOpen,        \* each connection: the client has not closed it
    requests,        \* requests each client has sent
    tasks,           \* each connection: pool tasks holding it, not begun
    senders,         \* each connection: pool tasks past the test in send()
    maps,            \* each connection: the handlers' maps that hold it
    monitor,         \* each monitor: where it is, as <<at, c>>
    downs,           \* each connection: disconnect callbacks run
    destroyed,       \* connections whose connectDestroyed has run
    failed,          \* the function whose assertion failed, or "none"
    forced           \* history: connections an idle functor has run on

vars == <<state_, connections_, lastActiveTime, mainQueue, idle, ioQueue,
          closing, inPoller, reading, writing, peerOpen, requests, tasks,
          senders, maps, monitor, downs, destroyed, failed, forced>>

io == <<closing, inPoller, reading, writing, downs, destroyed>>
main == <<connections_, mainQueue, idle, forced>>
clients == <<peerOpen, requests>>
pool == <<tasks, senders, lastActiveTime, maps>>

Functors == {"connectEstablished", "shutdownInLoop", "sendInLoop",
             "handleClose", "connectDestroyed"}
Maps == {"userConnMap_", "connUserMap_", "findAllConn_", "codes_"}
NotIdle == <<"none", NoConn>>
NotStarted == <<"none", NoConn>>
Scanning == <<"scan", NoConn>>

Init ==
    /\ state_ = [c \in Conns |-> "none"]
    /\ connections_ = {}
    /\ lastActiveTime = {}
    /\ mainQueue = <<>>
    /\ idle = NotIdle
    /\ ioQueue = [c \in Conns |-> <<>>]
    /\ closing = [c \in Conns |-> "no"]
    /\ inPoller = [c \in Conns |-> FALSE]
    /\ reading = [c \in Conns |-> FALSE]
    /\ writing = [c \in Conns |-> FALSE]
    /\ peerOpen = [c \in Conns |-> FALSE]
    /\ requests = [c \in Conns |-> 0]
    /\ tasks = [c \in Conns |-> 0]
    /\ senders = [c \in Conns |-> 0]
    /\ maps = [c \in Conns |-> {}]
    /\ monitor = [m \in Monitors |-> NotStarted]
    /\ downs = [c \in Conns |-> 0]
    /\ destroyed = {}
    /\ failed = "none"
    /\ forced = {}

queueInLoop(c, f) == ioQueue' = [ioQueue EXCEPT ![c] = Append(@, f)]
setState(c, s) == state_' = [state_ EXCEPT ![c] = s]
Fail(f) == failed' = f

\* The IO loop takes the next functor of c; it is not inside a callback.
NextFunctor(c, f) ==
    /\ closing[c] = "no"
    /\ ioQueue[c] # <<>> /\ Head(ioQueue[c]) = f
    /\ ioQueue' = [ioQueue EXCEPT ![c] = Tail(@)]

\* The connection callback starts a monitor on every call.
StartMonitor ==
    \/ \E m \in Monitors : /\ monitor[m] = NotStarted
                           /\ monitor' = [monitor EXCEPT ![m] = Scanning]
    \/ /\ \A m \in Monitors : monitor[m] # NotStarted
       /\ UNCHANGED monitor

----------------------------------------------------------------------------
(***************************************************************************)
(* The maps of the handlers.  Which account an entry is of is Session's    *)
(* subject; here an account has an entry for some connection d or none.    *)
(***************************************************************************)
NoLonger(d, map) == [c \in Conns |-> IF c = d THEN maps[c] \ {map} ELSE maps[c]]

\* The account's entry in findAllConn_ may have been e's.
addUserConn(c) ==
    \E d, e \in Conns \cup {NoConn} :
        maps' = [x \in Conns |->
                    IF x = c
                    THEN maps[x] \cup {"userConnMap_", "connUserMap_", "findAllConn_"}
                    ELSE NoLonger(d, "userConnMap_")[x] \cap NoLonger(e, "findAllConn_")[x]]

removeUserConn(c) ==
    \E d \in Conns \cup {NoConn} :
        maps' = [x \in Conns |->
                    NoLonger(d, "userConnMap_")[x] \cap NoLonger(c, "connUserMap_")[x]]

----------------------------------------------------------------------------
(***************************************************************************)
(* The main loop.                                                          *)
(***************************************************************************)

newConnection(c) ==
    /\ state_[c] = "none" /\ idle = NotIdle
    /\ setState(c, "kConnecting")
    /\ connections_' = connections_ \cup {c}
    /\ queueInLoop(c, "connectEstablished")
    /\ peerOpen' = [peerOpen EXCEPT ![c] = TRUE]
    /\ UNCHANGED <<mainQueue, idle, forced, io, requests, pool, monitor,
                   failed>>

NextMain(f, c) ==
    /\ idle = NotIdle
    /\ mainQueue # <<>> /\ Head(mainQueue) = <<f, c>>

\* Mutant: connectDestroyed is not queued.
RemoveOnly(c) ==
    /\ NextMain("remove", c)
    /\ c \in connections_
    /\ mainQueue' = Tail(mainQueue)
    /\ connections_' = connections_ \ {c}
    /\ UNCHANGED <<state_, ioQueue, idle, forced, io, clients, pool, monitor,
                   failed>>

removeConnectionInLoop(c) ==
    /\ NextMain("remove", c)
    /\ IF c \in connections_
       THEN /\ mainQueue' = Tail(mainQueue)
            /\ connections_' = connections_ \ {c}
            /\ queueInLoop(c, "connectDestroyed")
            /\ UNCHANGED failed
       ELSE /\ Fail("removeConnectionInLoop")
            /\ UNCHANGED <<mainQueue, connections_, ioQueue>>
    /\ UNCHANGED <<state_, idle, forced, io, clients, pool, monitor>>

\* The functor of a monitor: shutdown() reads state_ ...
ShutdownTest(c) ==
    /\ NextMain("idle", c)
    /\ mainQueue' = Tail(mainQueue)
    /\ idle' = <<IF state_[c] = "kConnected" THEN "shutdown" ELSE "between", c>>
    /\ forced' = forced \cup {c}
    /\ UNCHANGED <<state_, connections_, ioQueue, io, clients, pool, monitor,
                   failed>>

\* ... and then writes it and queues shutdownInLoop with a plain pointer ...
ShutdownSet(c) ==
    /\ idle = <<"shutdown", c>>
    /\ setState(c, "kDisconnecting")
    /\ queueInLoop(c, "shutdownInLoop")
    /\ idle' = <<"between", c>>
    /\ UNCHANGED <<connections_, mainQueue, forced, io, clients, pool, monitor,
                   failed>>

\* ... and forceClose() does the same with a reference.
ForceCloseTest(c) ==
    /\ idle = <<"between", c>>
    /\ idle' = IF state_[c] \in {"kConnected", "kDisconnecting"}
               THEN <<"forceClose", c>> ELSE NotIdle
    /\ UNCHANGED <<state_, connections_, mainQueue, forced, ioQueue, io,
                   clients, pool, monitor, failed>>

ForceCloseSet(c) ==
    /\ idle = <<"forceClose", c>>
    /\ setState(c, "kDisconnecting")
    /\ queueInLoop(c, "handleClose")
    /\ idle' = NotIdle
    /\ UNCHANGED <<connections_, mainQueue, forced, io, clients, pool, monitor,
                   failed>>

----------------------------------------------------------------------------
(***************************************************************************)
(* The IO loop of c.                                                       *)
(***************************************************************************)

connectEstablished(c) ==
    /\ NextFunctor(c, "connectEstablished")
    /\ setState(c, "kConnected")
    /\ inPoller' = [inPoller EXCEPT ![c] = TRUE]
    /\ reading' = [reading EXCEPT ![c] = TRUE]
    /\ StartMonitor
    /\ UNCHANGED <<main, closing, writing, downs, destroyed, clients, pool,
                   failed>>

\* A request arrives and becomes a pool task.
HandleReadMessage(c) ==
    /\ inPoller[c] /\ reading[c] /\ closing[c] = "no" /\ peerOpen[c]
    /\ requests[c] < MaxTasks
    /\ requests' = [requests EXCEPT ![c] = @ + 1]
    /\ tasks' = [tasks EXCEPT ![c] = @ + 1]
    /\ UNCHANGED <<state_, main, ioQueue, io, peerOpen, senders,
                   lastActiveTime, maps, monitor, failed>>

\* Mutant: handleClose goes straight to the callbacks.
EnterCallbacksOnly(c) ==
    IF state_[c] \in {"kConnected", "kDisconnecting"}
    THEN /\ closing' = [closing EXCEPT ![c] = "callback"]
         /\ UNCHANGED <<state_, inPoller, reading, writing, failed>>
    ELSE /\ Fail("handleClose")
         /\ UNCHANGED <<state_, closing, inPoller, reading, writing>>

\* handleClose: the assertion, then kDisconnected and disableAll ...
EnterHandleClose(c) ==
    IF state_[c] \in {"kConnected", "kDisconnecting"}
    THEN /\ setState(c, "kDisconnected")
         /\ inPoller' = [inPoller EXCEPT ![c] = FALSE]
         /\ reading' = [reading EXCEPT ![c] = FALSE]
         /\ writing' = [writing EXCEPT ![c] = FALSE]
         /\ closing' = [closing EXCEPT ![c] = "callback"]
         /\ UNCHANGED failed
    ELSE /\ Fail("handleClose")
         /\ UNCHANGED <<state_, closing, inPoller, reading, writing>>

\* ... entered for an end of file ...
HandleReadEof(c) ==
    /\ inPoller[c] /\ reading[c] /\ closing[c] = "no" /\ ~peerOpen[c]
    /\ EnterHandleClose(c)
    /\ UNCHANGED <<main, ioQueue, downs, destroyed, clients, pool, monitor>>

\* ... or for the functor of forceClose ...
ForcedHandleClose(c) ==
    /\ NextFunctor(c, "handleClose")
    /\ EnterHandleClose(c)
    /\ UNCHANGED <<main, downs, destroyed, clients, pool, monitor>>

\* ... the connection callback, which also erases the heartbeat and, if getName
\* finds one, the route ...
CloseCallback(c) ==
    /\ closing[c] = "callback"
    /\ downs' = [downs EXCEPT ![c] = @ + 1]
    /\ lastActiveTime' = lastActiveTime \ {c}
    /\ IF "connUserMap_" \in maps[c] THEN removeUserConn(c) ELSE UNCHANGED maps
    /\ StartMonitor
    /\ closing' = [closing EXCEPT ![c] = "remove"]
    /\ UNCHANGED <<state_, main, ioQueue, inPoller, reading, writing, destroyed,
                   clients, tasks, senders, failed>>

\* Mutant: no close callback is set.
RemoveUnnoticed(c) ==
    /\ closing[c] = "remove"
    /\ closing' = [closing EXCEPT ![c] = "no"]
    /\ inPoller' = [inPoller EXCEPT ![c] = FALSE]
    /\ UNCHANGED <<state_, main, ioQueue, reading, writing, downs, destroyed,
                   clients, pool, monitor, failed>>

\* ... and the close callback, TcpServer::removeConnection.
removeConnection(c) ==
    /\ closing[c] = "remove"
    /\ mainQueue' = Append(mainQueue, <<"remove", c>>)
    /\ closing' = [closing EXCEPT ![c] = "no"]
    /\ inPoller' = [inPoller EXCEPT ![c] = FALSE]
    /\ UNCHANGED <<state_, connections_, idle, forced, ioQueue, reading,
                   writing, downs, destroyed, clients, pool, monitor, failed>>

\* Nothing in this model depends on the write side being shut.
shutdownInLoop(c) ==
    /\ NextFunctor(c, "shutdownInLoop")
    /\ UNCHANGED <<state_, main, io, clients, pool, monitor, failed>>

\* Mutant: a closed connection is written to.
SendInLoopClosed(c) ==
    /\ NextFunctor(c, "sendInLoop")
    /\ \/ UNCHANGED <<inPoller, writing>>
       \/ /\ inPoller' = [inPoller EXCEPT ![c] = TRUE]
          /\ writing' = [writing EXCEPT ![c] = TRUE]
    /\ UNCHANGED <<state_, main, closing, reading, downs, destroyed, clients,
                   pool, monitor, failed>>

\* What the socket does not take at once waits for POLLOUT, and update()
\* puts the channel into the epoll set whether or not it was there.
sendInLoop(c) ==
    /\ NextFunctor(c, "sendInLoop")
    /\ \/ UNCHANGED <<inPoller, writing>>
       \/ /\ state_[c] # "kDisconnected"
          /\ inPoller' = [inPoller EXCEPT ![c] = TRUE]
          /\ writing' = [writing EXCEPT ![c] = TRUE]
    /\ UNCHANGED <<state_, main, closing, reading, downs, destroyed, clients,
                   pool, monitor, failed>>

handleWrite(c) ==
    /\ inPoller[c] /\ writing[c] /\ closing[c] = "no"
    /\ writing' = [writing EXCEPT ![c] = FALSE]
    /\ UNCHANGED <<state_, main, ioQueue, closing, inPoller, reading, downs,
                   destroyed, clients, pool, monitor, failed>>

\* The branch for kConnected is not reachable: only ~TcpServer takes it.
connectDestroyed(c) ==
    /\ NextFunctor(c, "connectDestroyed")
    /\ inPoller' = [inPoller EXCEPT ![c] = FALSE]
    /\ destroyed' = destroyed \cup {c}
    /\ UNCHANGED <<state_, main, closing, reading, writing, downs, clients,
                   pool, monitor, failed>>

----------------------------------------------------------------------------
(***************************************************************************)
(* Clients and pool workers.                                               *)
(***************************************************************************)
PeerCloses(c) ==
    /\ peerOpen[c]
    /\ peerOpen' = [peerOpen EXCEPT ![c] = FALSE]
    /\ UNCHANGED <<state_, main, ioQueue, io, requests, pool, monitor, failed>>

\* A task is a heartbeat ...
heartTcp(c) ==
    /\ tasks[c] > 0
    /\ tasks' = [tasks EXCEPT ![c] = @ - 1]
    /\ lastActiveTime' = lastActiveTime \cup {c}
    /\ UNCHANGED <<state_, main, ioQueue, io, clients, senders, maps, monitor,
                   failed>>

\* ... or a ship "online" or "offline" ...
updataShip(c) ==
    /\ tasks[c] > 0
    /\ tasks' = [tasks EXCEPT ![c] = @ - 1]
    /\ addUserConn(c) \/ removeUserConn(c)
    /\ UNCHANGED <<state_, main, ioQueue, io, clients, senders, lastActiveTime,
                   monitor, failed>>

\* ... or sends or tests a mail code, and then answers except to "register" ...
returnPwd(c) ==
    /\ tasks[c] > 0
    /\ tasks' = [tasks EXCEPT ![c] = @ - 1] \/ UNCHANGED tasks
    /\ maps' = [maps EXCEPT ![c] = @ \cup {"codes_"}]
    /\ UNCHANGED <<state_, main, ioQueue, io, clients, senders, lastActiveTime,
                   monitor, failed>>

\* ... or answers: send() reads state_ ...
SendTest(c) ==
    /\ tasks[c] > 0
    /\ tasks' = [tasks EXCEPT ![c] = @ - 1]
    /\ senders' = IF state_[c] = "kConnected"
                  THEN [senders EXCEPT ![c] = @ + 1] ELSE senders
    /\ UNCHANGED <<state_, main, ioQueue, io, clients, lastActiveTime, maps,
                   monitor, failed>>

\* ... and queues sendInLoop.
SendQueue(c) ==
    /\ senders[c] > 0
    /\ senders' = [senders EXCEPT ![c] = @ - 1]
    /\ queueInLoop(c, "sendInLoop")
    /\ UNCHANGED <<state_, main, io, clients, tasks, lastActiveTime, maps,
                   monitor, failed>>

----------------------------------------------------------------------------
(***************************************************************************)
(* The monitors: every 60 s, without a lock, they copy the connections     *)
(* whose last heartbeat is more than 60 s old and erase their entries,     *)
(* then queue a functor for each on the main loop.  Time is left out: any  *)
(* entry may be old.                                                       *)
(***************************************************************************)
FindOld(m, c) ==
    /\ monitor[m] = Scanning
    /\ c \in lastActiveTime
    /\ monitor' = [monitor EXCEPT ![m] = <<"erase", c>>]
    /\ UNCHANGED <<state_, main, ioQueue, io, clients, pool, failed>>

EraseOld(m, c) ==
    /\ monitor[m] = <<"erase", c>>
    /\ lastActiveTime' = lastActiveTime \ {c}
    /\ monitor' = [monitor EXCEPT ![m] = <<"queue", c>>]
    /\ UNCHANGED <<state_, main, ioQueue, io, clients, tasks, senders, maps,
                   failed>>

QueueIdle(m, c) ==
    /\ monitor[m] = <<"queue", c>>
    /\ mainQueue' = Append(mainQueue, <<"idle", c>>)
    /\ monitor' = [monitor EXCEPT ![m] = Scanning]
    /\ UNCHANGED <<state_, connections_, idle, forced, ioQueue, io, clients,
                   pool, failed>>

----------------------------------------------------------------------------
MainStep(c) ==
    \/ removeConnectionInLoop(c) \/ ShutdownTest(c) \/ ShutdownSet(c)
    \/ ForceCloseTest(c) \/ ForceCloseSet(c)

IoStep(c) ==
    \/ connectEstablished(c) \/ HandleReadEof(c) \/ ForcedHandleClose(c)
    \/ CloseCallback(c) \/ removeConnection(c) \/ shutdownInLoop(c)
    \/ sendInLoop(c) \/ handleWrite(c) \/ connectDestroyed(c)

PoolStep(c) ==
    heartTcp(c) \/ updataShip(c) \/ returnPwd(c) \/ SendTest(c) \/ SendQueue(c)

MonitorStep(m) ==
    \E c \in Conns : FindOld(m, c) \/ EraseOld(m, c) \/ QueueIdle(m, c)

Next ==
    /\ failed = "none"
    /\ \/ \E c \in Conns :
             \/ newConnection(c) \/ HandleReadMessage(c) \/ PeerCloses(c)
             \/ MainStep(c) \/ IoStep(c) \/ PoolStep(c)
       \/ \E m \in Monitors : MonitorStep(m)

\* Every thread of the server keeps running, and an old entry is found by
\* some monitor; no client ever has to connect, send or close.
Fairness ==
    /\ WF_vars(failed = "none" /\ \E c \in Conns : MainStep(c))
    /\ \A c \in Conns : /\ WF_vars(failed = "none" /\ IoStep(c))
                        /\ WF_vars(failed = "none" /\ PoolStep(c))
    /\ \A m \in Monitors : WF_vars(failed = "none" /\ MonitorStep(m))

Spec == Init /\ [][Next]_vars
FairSpec == Spec /\ Fairness

----------------------------------------------------------------------------
InSeq(x, s) == \E i \in DOMAIN s : s[i] = x

\* A table of TcpServer or of the heartbeats, a functor, a pool task, a thread or
\* a monitor refers to c.  The functor shutdownInLoop does not.
Held(c) ==
    \/ c \in connections_ \cup lastActiveTime
    \/ \E f \in {"remove", "idle"} : InSeq(<<f, c>>, mainQueue)
    \/ idle[2] = c
    \/ closing[c] # "no"
    \/ \E f \in Functors \ {"shutdownInLoop"} : InSeq(f, ioQueue[c])
    \/ tasks[c] + senders[c] > 0
    \/ \E m \in Monitors : monitor[m] \in {"erase", "queue"} \X {c}

\* All of these have let go of c; its object goes when no map keeps it either.
LetGo(c) == state_[c] # "none" /\ ~Held(c)
Released(c) == LetGo(c) /\ maps[c] = {}

\* The plain pointers never outlive the object: as long as the functor of
\* shutdown() is queued or the channel is in the epoll set, somebody holds
\* the connection, whatever the monitors and the peer do to it.
PlainPointersValid ==
    \A c \in Conns :
        InSeq("shutdownInLoop", ioQueue[c]) \/ inPoller[c] => Held(c)

\* A connection is let go only when it is closed (the destructor's assertion),
\* after connectDestroyed, and after exactly one disconnect callback: this is
\* what the clean-up of sessions in Session relies on.
ReleasedAfterOneDown ==
    \A c \in Conns :
        LetGo(c) =>
            state_[c] = "kDisconnected" /\ c \in destroyed /\ downs[c] = 1

\* An assertion fails only if an idle functor has run on some connection:
\* reading, writing and closing by the client never lead to one.
AssertsHoldUnlessForced == failed # "none" => forced # {}

\* A connection that the client has closed is let go in the end by every thread,
\* queue and table, unless an assertion fails.  Its object and its socket go
\* with it only if no map of the handlers keeps it: findAllConn_ does from the
\* login on, codes_ from the first mail code on, and neither is ever erased.
ClosedIsReleased ==
    \A c \in Conns :
        state_[c] # "none" /\ ~peerOpen[c] ~>
            Released(c) \/ (LetGo(c) /\ maps[c] # {}) \/ failed # "none"

============================================================================
