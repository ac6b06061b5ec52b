-------------------------- MODULE ConnectionProofs --------------------------
(***************************************************************************)
(* Proofs about Connection, for every set of connections and monitors and  *)
(* every number of requests.                                               *)
(***************************************************************************)
EXTENDS Connection, TLAPS

----------------------------------------------------------------------------
(***************************************************************************)
(* Queues: what appending a functor and taking the first one do to what is *)
(* queued, what is queued twice, and a shutdownInLoop that no functor with *)
(* a reference stands behind.                                              *)
(***************************************************************************)
Twice(x, s) == \E i, j \in DOMAIN s : i < j /\ s[i] = x /\ s[j] = x

Loose(s) ==
    \E i \in DOMAIN s :
        /\ s[i] = "shutdownInLoop"
        /\ \A j \in DOMAIN s : i < j => s[j] \notin {"handleClose", "connectDestroyed"}

\* What is in a queue after an append.
LEMMA AfterAppend ==
    ASSUME NEW S, NEW s \in Seq(S), NEW y \in S
    PROVE  /\ \A x : InSeq(x, Append(s, y)) <=> InSeq(x, s) \/ x = y
           /\ \A x : Twice(x, Append(s, y)) <=> Twice(x, s) \/ (x = y /\ InSeq(x, s))
           /\ Loose(Append(s, y)) <=>
                 \/ y = "shutdownInLoop"
                 \/ Loose(s) /\ y \notin {"handleClose", "connectDestroyed"}
<1> DEFINE a == Append(s, y)
<1>1. /\ Len(s) \in Nat /\ DOMAIN s = 1 .. Len(s)
      /\ DOMAIN a = 1 .. Len(s) + 1
      /\ a[Len(s) + 1] = y
      /\ \A i \in DOMAIN s : a[i] = s[i]
  OBVIOUS
<1> HIDE DEF a
<1>2. ASSUME NEW x PROVE InSeq(x, a) <=> InSeq(x, s) \/ x = y
  BY <1>1 DEF InSeq
<1>3. ASSUME NEW x PROVE Twice(x, a) <=> Twice(x, s) \/ (x = y /\ InSeq(x, s))
  BY <1>1 DEF InSeq, Twice
<1>4. Loose(a) <=> \/ y = "shutdownInLoop"
                   \/ Loose(s) /\ y \notin {"handleClose", "connectDestroyed"}
  BY <1>1 DEF Loose
<1> QED BY <1>2, <1>3, <1>4 DEF a

\* What is in a queue before its first element is taken.
LEMMA BeforeTail ==
    ASSUME NEW S, NEW s \in Seq(S), s # <<>>
    PROVE  /\ \A x : InSeq(x, s) <=> x = Head(s) \/ InSeq(x, Tail(s))
           /\ \A x : Twice(x, s) <=>
                 Twice(x, Tail(s)) \/ (x = Head(s) /\ InSeq(x, Tail(s)))
           /\ Loose(Tail(s)) => Loose(s)
           /\ Tail(s) \in Seq(S) /\ Head(s) \in S
<1> DEFINE a == Tail(s)
<1>1. /\ Len(s) \in Nat \ {0} /\ DOMAIN s = 1 .. Len(s)
      /\ DOMAIN a = 1 .. Len(s) - 1
      /\ \A i \in DOMAIN a : a[i] = s[i + 1]
      /\ Head(s) = s[1]
      /\ a \in Seq(S) /\ Head(s) \in S
  OBVIOUS
<1> HIDE DEF a
<1>0. \A i \in DOMAIN s : i # 1 => i - 1 \in DOMAIN a /\ a[i - 1] = s[i]
  BY <1>1
<1>2. ASSUME NEW x PROVE InSeq(x, s) <=> x = Head(s) \/ InSeq(x, a)
  BY <1>1, <1>0 DEF InSeq
<1>3. ASSUME NEW x PROVE Twice(x, s) <=> Twice(x, a) \/ (x = Head(s) /\ InSeq(x, a))
  <2>1. Twice(x, s) => Twice(x, a) \/ (x = Head(s) /\ InSeq(x, a))
    BY <1>1, <1>0 DEF InSeq, Twice
  <2>2. Twice(x, a) => Twice(x, s)
    BY <1>1 DEF Twice
  <2>3. x = Head(s) /\ InSeq(x, a) => Twice(x, s)
    BY <1>1 DEF InSeq, Twice
  <2> QED BY <2>1, <2>2, <2>3
<1>4. ASSUME Loose(a) PROVE Loose(s)
  <2>1. PICK i \in DOMAIN a :
           /\ a[i] = "shutdownInLoop"
           /\ \A j \in DOMAIN a : i < j => a[j] \notin {"handleClose", "connectDestroyed"}
    BY <1>4 DEF Loose
  <2>2. i \in Nat /\ i + 1 \in DOMAIN s /\ s[i + 1] = "shutdownInLoop"
    BY <1>1, <2>1
  <2>3. ASSUME NEW j \in DOMAIN s, i + 1 < j
        PROVE  s[j] \notin {"handleClose", "connectDestroyed"}
    <3>1. j - 1 \in DOMAIN a /\ i < j - 1 /\ a[j - 1] = s[j]
      BY <1>0, <1>1, <2>2, <2>3
    <3> QED BY <2>1, <3>1
  <2> QED BY <2>2, <2>3 DEF Loose
<1> QED BY <1>1, <1>2, <1>3, <1>4 DEF a

----------------------------------------------------------------------------
(***************************************************************************)
(* Types of what the proofs speak of.                                      *)
(***************************************************************************)
ConnStates == {"none", "kConnecting", "kConnected", "kDisconnecting", "kDisconnected"}
MainFunctors == {"remove", "idle"} \X Conns

TypeOK ==
    /\ state_ \in [Conns -> ConnStates]
    /\ connections_ \subseteq Conns
    /\ mainQueue \in Seq(MainFunctors)
    /\ idle \in {NotIdle} \cup ({"shutdown", "between", "forceClose"} \X Conns)
    /\ ioQueue \in [Conns -> Seq(Functors)]
    /\ closing \in [Conns -> {"no", "callback", "remove"}]
    /\ inPoller \in [Conns -> BOOLEAN]
    /\ downs \in [Conns -> Nat]
    /\ senders \in [Conns -> Nat]
    /\ forced \subseteq Conns

\* The main loop takes a functor.
LEMMA MainTaken ==
    ASSUME TypeOK, NEW c, NEW f, NextMain(f, c), mainQueue' = Tail(mainQueue)
    PROVE  /\ idle = NotIdle
           /\ \A x : InSeq(x, mainQueue) <=> x = <<f, c>> \/ InSeq(x, mainQueue')
           /\ \A x : Twice(x, mainQueue) <=>
                 Twice(x, mainQueue') \/ (x = <<f, c>> /\ InSeq(x, mainQueue'))
<1>1. mainQueue \in Seq(MainFunctors) /\ mainQueue # <<>> /\ <<f, c>> = Head(mainQueue)
  BY DEF NextMain, TypeOK
<1>2. idle = NotIdle
  BY DEF NextMain
<1> QED BY <1>1, <1>2, BeforeTail

\* A functor is queued on the main loop.
LEMMA MainQueued ==
    ASSUME TypeOK, NEW y \in MainFunctors, mainQueue' = Append(mainQueue, y)
    PROVE  /\ \A x : InSeq(x, mainQueue') <=> InSeq(x, mainQueue) \/ x = y
           /\ \A x : Twice(x, mainQueue') <=>
                 Twice(x, mainQueue) \/ (x = y /\ InSeq(x, mainQueue))
BY AfterAppend DEF TypeOK

\* The IO loop of c takes a functor.
LEMMA Taken ==
    ASSUME TypeOK, NEW c \in Conns, NEW f \in Functors, NextFunctor(c, f)
    PROVE  /\ closing[c] = "no" /\ ioQueue[c] # <<>> /\ InSeq(f, ioQueue[c])
           /\ ioQueue' \in [Conns -> Seq(Functors)]
           /\ \A d \in Conns : d # c => ioQueue'[d] = ioQueue[d]
           /\ \A x : InSeq(x, ioQueue'[c]) => InSeq(x, ioQueue[c])
           /\ \A x : InSeq(x, ioQueue[c]) => x = f \/ InSeq(x, ioQueue'[c])
           /\ Loose(ioQueue'[c]) => Loose(ioQueue[c])
           /\ \A x : ioQueue[c] = <<x>> => f = x /\ ioQueue'[c] = <<>>
<1> DEFINE s == ioQueue[c]
<1>1. s \in Seq(Functors) /\ s # <<>> /\ f = Head(s)
  BY DEF NextFunctor, TypeOK
<1>2. ioQueue'[c] = Tail(s)
  BY DEF NextFunctor, TypeOK
<1>3. \A d \in Conns : d # c => ioQueue'[d] = ioQueue[d]
  BY DEF NextFunctor, TypeOK
<1>4. closing[c] = "no"
  BY DEF NextFunctor
<1>5. ioQueue' \in [Conns -> Seq(Functors)]
  BY <1>1, BeforeTail DEF NextFunctor, TypeOK
<1>6. \A x : s = <<x>> => f = x /\ ioQueue'[c] = <<>>
  BY <1>1, <1>2
<1>7. /\ \A x : InSeq(x, s) <=> x = f \/ InSeq(x, Tail(s))
      /\ Loose(Tail(s)) => Loose(s)
  BY <1>1, BeforeTail
<1> QED BY <1>1, <1>2, <1>3, <1>4, <1>5, <1>6, <1>7

\* A functor is queued on the IO loop of c.
LEMMA Queued ==
    ASSUME TypeOK, NEW c \in Conns, NEW f \in Functors, queueInLoop(c, f)
    PROVE  /\ ioQueue' \in [Conns -> Seq(Functors)]
           /\ \A d \in Conns : d # c => ioQueue'[d] = ioQueue[d]
           /\ \A x : InSeq(x, ioQueue'[c]) <=> InSeq(x, ioQueue[c]) \/ x = f
           /\ Loose(ioQueue'[c]) <=>
                 \/ f = "shutdownInLoop"
                 \/ Loose(ioQueue[c]) /\ f \notin {"handleClose", "connectDestroyed"}
           /\ ioQueue[c] = <<>> => ioQueue'[c] = <<f>>
<1> DEFINE s == ioQueue[c]
<1>1. s \in Seq(Functors)
  BY DEF TypeOK
<1>2. ioQueue'[c] = Append(s, f) /\ \A d \in Conns : d # c => ioQueue'[d] = ioQueue[d]
  BY DEF queueInLoop, TypeOK
<1>3. ioQueue' \in [Conns -> Seq(Functors)]
  BY <1>1 DEF queueInLoop, TypeOK
<1>4. s = <<>> => Append(s, f) = <<f>>
  BY <1>1
<1>5. /\ \A x : InSeq(x, Append(s, f)) <=> InSeq(x, s) \/ x = f
      /\ Loose(Append(s, f)) <=>
            \/ f = "shutdownInLoop"
            \/ Loose(s) /\ f \notin {"handleClose", "connectDestroyed"}
  BY <1>1, AfterAppend
<1> QED BY <1>2, <1>3, <1>4, <1>5

\* Every variable that the proofs speak of keeps its type.
LEMMA TypeStep ==
    ASSUME TypeOK, [Next]_vars
    PROVE  TypeOK'
<1> USE DEF ConnStates
<1>f. {"connectEstablished", "shutdownInLoop", "sendInLoop", "handleClose",
       "connectDestroyed"} \subseteq Functors
  BY DEF Functors
<1>0. ASSUME NEW c \in Conns, EnterHandleClose(c)
      PROVE  /\ state_' \in [Conns -> ConnStates]
             /\ closing' \in [Conns -> {"no", "callback", "remove"}]
             /\ inPoller' \in [Conns -> BOOLEAN]
  BY <1>0 DEF EnterHandleClose, setState, TypeOK
<1>1. ASSUME NEW c \in Conns, newConnection(c) PROVE TypeOK'
  <2>1. ioQueue' \in [Conns -> Seq(Functors)]
    BY <1>1, <1>f, Queued DEF newConnection
  <2> QED BY <1>1, <2>1 DEF newConnection, setState, TypeOK, io, pool
<1>2. ASSUME NEW c \in Conns, HandleReadMessage(c) PROVE TypeOK'
  BY <1>2 DEF HandleReadMessage, TypeOK, main, io
<1>3. ASSUME NEW c \in Conns, PeerCloses(c) PROVE TypeOK'
  BY <1>3 DEF PeerCloses, TypeOK, main, io, pool
<1>4. ASSUME NEW c \in Conns, removeConnectionInLoop(c) PROVE TypeOK'
  <2>1. ioQueue' \in [Conns -> Seq(Functors)]
    BY <1>4, <1>f, Queued DEF removeConnectionInLoop, TypeOK
  <2>2. mainQueue' \in Seq(MainFunctors)
    <3>1. mainQueue # <<>> /\ mainQueue' \in {mainQueue, Tail(mainQueue)}
      BY <1>4 DEF removeConnectionInLoop, NextMain
    <3>2. mainQueue \in Seq(MainFunctors)
      BY DEF TypeOK
    <3>3. Tail(mainQueue) \in Seq(MainFunctors)
      BY <3>1, <3>2, BeforeTail
    <3> QED BY <3>1, <3>2, <3>3
  <2> QED BY <1>4, <2>1, <2>2 DEF removeConnectionInLoop, TypeOK, io, pool
<1>5. ASSUME NEW c \in Conns, ShutdownTest(c) PROVE TypeOK'
  <2>2. mainQueue' \in Seq(MainFunctors)
    BY <1>5, BeforeTail DEF ShutdownTest, NextMain, TypeOK
  <2> QED BY <1>5, <2>2 DEF ShutdownTest, TypeOK, io, pool
<1>6. ASSUME NEW c \in Conns, ShutdownSet(c) PROVE TypeOK'
  <2>1. ioQueue' \in [Conns -> Seq(Functors)]
    BY <1>6, <1>f, Queued DEF ShutdownSet
  <2> QED BY <1>6, <2>1 DEF ShutdownSet, setState, TypeOK, io, pool
<1>7. ASSUME NEW c \in Conns, ForceCloseTest(c) PROVE TypeOK'
  BY <1>7 DEF ForceCloseTest, TypeOK, io, pool
<1>8. ASSUME NEW c \in Conns, ForceCloseSet(c) PROVE TypeOK'
  <2>1. ioQueue' \in [Conns -> Seq(Functors)]
    BY <1>8, <1>f, Queued DEF ForceCloseSet
  <2> QED BY <1>8, <2>1 DEF ForceCloseSet, setState, TypeOK, io, pool
<1>9. ASSUME NEW c \in Conns, connectEstablished(c) PROVE TypeOK'
  <2>1. ioQueue' \in [Conns -> Seq(Functors)]
    BY <1>9, <1>f, Taken DEF connectEstablished
  <2> QED BY <1>9, <2>1 DEF connectEstablished, setState, TypeOK, main, pool
<1>10. ASSUME NEW c \in Conns, HandleReadEof(c) PROVE TypeOK'
  BY <1>10, <1>0 DEF HandleReadEof, TypeOK, main, pool
<1>11. ASSUME NEW c \in Conns, ForcedHandleClose(c) PROVE TypeOK'
  <2>1. ioQueue' \in [Conns -> Seq(Functors)]
    BY <1>11, <1>f, Taken DEF ForcedHandleClose
  <2> QED BY <1>11, <1>0, <2>1 DEF ForcedHandleClose, TypeOK, main, pool
<1>12. ASSUME NEW c \in Conns, CloseCallback(c) PROVE TypeOK'
  BY <1>12 DEF CloseCallback, TypeOK, main
<1>13. ASSUME NEW c \in Conns, removeConnection(c) PROVE TypeOK'
  <2>1. <<"remove", c>> \in MainFunctors
    BY DEF MainFunctors
  <2> QED BY <1>13, <2>1 DEF removeConnection, TypeOK, pool
<1>14. ASSUME NEW c \in Conns, shutdownInLoop(c) PROVE TypeOK'
  <2>1. ioQueue' \in [Conns -> Seq(Functors)]
    BY <1>14, <1>f, Taken DEF shutdownInLoop
  <2> QED BY <1>14, <2>1 DEF shutdownInLoop, TypeOK, main, io, pool
<1>15. ASSUME NEW c \in Conns, sendInLoop(c) PROVE TypeOK'
  <2>1. ioQueue' \in [Conns -> Seq(Functors)]
    BY <1>15, <1>f, Taken DEF sendInLoop
  <2> QED BY <1>15, <2>1 DEF sendInLoop, TypeOK, main, pool
<1>16. ASSUME NEW c \in Conns, handleWrite(c) PROVE TypeOK'
  BY <1>16 DEF handleWrite, TypeOK, main, pool
<1>17. ASSUME NEW c \in Conns, connectDestroyed(c) PROVE TypeOK'
  <2>1. ioQueue' \in [Conns -> Seq(Functors)]
    BY <1>17, <1>f, Taken DEF connectDestroyed
  <2> QED BY <1>17, <2>1 DEF connectDestroyed, TypeOK, main, pool
<1>18. ASSUME NEW c \in Conns, heartTcp(c) \/ updataShip(c) \/ returnPwd(c) \/ SendTest(c)
       PROVE  TypeOK'
  <2>1. CASE heartTcp(c) \/ updataShip(c) \/ returnPwd(c)
    BY <2>1 DEF heartTcp, updataShip, returnPwd, TypeOK, main, io
  <2>2. CASE SendTest(c)
    BY <2>2 DEF SendTest, TypeOK, main, io
  <2> QED BY <1>18, <2>1, <2>2
<1>19. ASSUME NEW c \in Conns, SendQueue(c) PROVE TypeOK'
  <2>1. ioQueue' \in [Conns -> Seq(Functors)]
    BY <1>19, <1>f, Queued DEF SendQueue
  <2>2. senders' \in [Conns -> Nat]
    BY <1>19 DEF SendQueue, TypeOK
  <2> QED BY <1>19, <2>1, <2>2 DEF SendQueue, TypeOK, main, io
<1>20. ASSUME NEW m \in Monitors, NEW c \in Conns, FindOld(m, c) \/ EraseOld(m, c)
       PROVE  TypeOK'
  BY <1>20 DEF FindOld, EraseOld, TypeOK, main, io, pool
<1>21. ASSUME NEW m \in Monitors, NEW c \in Conns, QueueIdle(m, c) PROVE TypeOK'
  <2>1. <<"idle", c>> \in MainFunctors
    BY DEF MainFunctors
  <2> QED BY <1>21, <2>1 DEF QueueIdle, TypeOK, io, pool
<1>22. CASE UNCHANGED vars
  BY <1>22 DEF vars, TypeOK
<1> QED
  BY <1>1, <1>2, <1>3, <1>4, <1>5, <1>6, <1>7, <1>8, <1>9, <1>10, <1>11, <1>12, <1>13,
     <1>14, <1>15, <1>16, <1>17, <1>18, <1>19, <1>20, <1>21, <1>22
     DEF Next, MainStep, IoStep, PoolStep, MonitorStep

----------------------------------------------------------------------------
(***************************************************************************)
(* The inductive invariant, one connection at a time.                      *)
(***************************************************************************)

\* The functors of the main loop that remove c: some, or more than one, still
\* to come.
RemovePending(c) == closing[c] = "remove" \/ InSeq(<<"remove", c>>, mainQueue)
RemovesPending(c) ==
    \/ closing[c] = "remove" /\ InSeq(<<"remove", c>>, mainQueue)
    \/ Twice(<<"remove", c>>, mainQueue)

\* Nothing happens to a connection before connectEstablished.
BeforeEstablished(c) ==
    /\ state_[c] = "none" => ioQueue[c] = <<>> /\ c \notin connections_
    /\ state_[c] = "kConnecting" => ioQueue[c] = <<"connectEstablished">>
    /\ state_[c] \in {"none", "kConnecting"} =>
          /\ senders[c] = 0 /\ downs[c] = 0
          /\ idle \notin {<<"shutdown", c>>, <<"forceClose", c>>}
    /\ InSeq("connectEstablished", ioQueue[c]) => state_[c] = "kConnecting"

\* What state_ says of the callbacks and of who is still to close c.
StateHolds(c) ==
    /\ state_[c] = "kConnected" => closing[c] = "no" /\ downs[c] = 0
    /\ state_[c] = "kDisconnecting" =>
          \/ idle \in {<<"between", c>>, <<"forceClose", c>>}
          \/ InSeq("handleClose", ioQueue[c])
    /\ closing[c] # "no" => state_[c] \in {"kDisconnecting", "kDisconnected"}
    /\ inPoller[c] => state_[c] \in {"kConnected", "kDisconnecting"}

\* Every disconnect callback is followed by one removal: as many have run as
\* removals are pending, and one more when c has been removed.
DownsCount(c) ==
    IF state_[c] = "none" THEN ~RemovePending(c) /\ ~RemovesPending(c)
    ELSE /\ downs[c] >= 1 <=> c \notin connections_ \/ RemovePending(c)
         /\ downs[c] >= 2 <=> \/ c \notin connections_ /\ RemovePending(c)
                              \/ RemovesPending(c)

\* A removed connection has been destroyed, or is going to be.
DestroyedLast(c) ==
    state_[c] # "none" /\ c \notin connections_ =>
        c \in destroyed \/ InSeq("connectDestroyed", ioQueue[c])

\* A queued shutdownInLoop that no functor with a reference stands behind
\* concerns a connection that is held until such a functor is queued.
ShutdownHeld(c) ==
    Loose(ioQueue[c]) =>
        \/ c \in connections_ \/ RemovePending(c) \/ closing[c] # "no"
        \/ idle = <<"between", c>> /\ state_[c] = "kDisconnecting"
        \/ idle = <<"forceClose", c>>

\* Without an idle functor there is at most one disconnect callback.
ForcedFirst(c) ==
    c \notin forced =>
        /\ \A at \in {"shutdown", "between", "forceClose"} : idle # <<at, c>>
        /\ ~InSeq("handleClose", ioQueue[c])
        /\ closing[c] = "callback" => downs[c] = 0
        /\ downs[c] <= 1

Sound(c) ==
    /\ BeforeEstablished(c) /\ StateHolds(c) /\ DownsCount(c)
    /\ DestroyedLast(c) /\ ShutdownHeld(c) /\ ForcedFirst(c)

ConnInv == \A c \in Conns : Sound(c)

\* What concerns another connection leaves d sound.
LEMMA SoundFrame ==
    ASSUME NEW d \in Conns, Sound(d),
           state_'[d] = state_[d], ioQueue'[d] = ioQueue[d],
           closing'[d] = closing[d], inPoller'[d] = inPoller[d],
           downs'[d] = downs[d], senders'[d] = senders[d],
           d \in connections_' <=> d \in connections_,
           d \in destroyed' <=> d \in destroyed,
           d \in forced' <=> d \in forced,
           InSeq(<<"remove", d>>, mainQueue') <=> InSeq(<<"remove", d>>, mainQueue),
           Twice(<<"remove", d>>, mainQueue') <=> Twice(<<"remove", d>>, mainQueue),
           \A at \in {"shutdown", "between", "forceClose"} :
              idle' = <<at, d>> <=> idle = <<at, d>>
    PROVE  Sound(d)'
<1> USE DEF Sound, RemovePending, RemovesPending
<1>1. BeforeEstablished(d)'
  BY DEF BeforeEstablished
<1>2. StateHolds(d)'
  BY DEF StateHolds
<1>3. DownsCount(d)' /\ DestroyedLast(d)'
  BY DEF DownsCount, DestroyedLast
<1>4. ShutdownHeld(d)'
  BY DEF ShutdownHeld
<1>5. ForcedFirst(d)'
  BY DEF ForcedFirst
<1> QED BY <1>1, <1>2, <1>3, <1>4, <1>5

\* The steps of other threads than the main and the IO loop of a connection.
LEMMA SoundOutside ==
    ASSUME TypeOK, NEW c \in Conns, NEW d \in Conns, Sound(d),
           \/ HandleReadMessage(c) \/ PeerCloses(c) \/ PoolStep(c)
           \/ \E m \in Monitors : FindOld(m, c) \/ EraseOld(m, c) \/ QueueIdle(m, c)
    PROVE  Sound(d)'
<1>1. CASE \/ HandleReadMessage(c) \/ PeerCloses(c)
           \/ heartTcp(c) \/ updataShip(c) \/ returnPwd(c)
  <2>1. UNCHANGED <<state_, connections_, mainQueue, idle, ioQueue, closing, inPoller,
                    downs, destroyed, senders, forced>>
    BY <1>1 DEF HandleReadMessage, PeerCloses, heartTcp, updataShip, returnPwd, main, io,
       pool
  <2> QED BY <2>1, SoundFrame
<1>2. ASSUME NEW m \in Monitors, FindOld(m, c) \/ EraseOld(m, c) PROVE Sound(d)'
  <2>1. UNCHANGED <<state_, connections_, mainQueue, idle, ioQueue, closing, inPoller,
                    downs, destroyed, senders, forced>>
    BY <1>2 DEF FindOld, EraseOld, main, io, pool
  <2> QED BY <2>1, SoundFrame
<1>3. ASSUME NEW m \in Monitors, QueueIdle(m, c) PROVE Sound(d)'
  <2>1. UNCHANGED <<state_, connections_, idle, ioQueue, closing, inPoller, downs,
                    destroyed, senders, forced>>
    BY <1>3 DEF QueueIdle, io, pool
  <2> DEFINE x == <<"remove", d>>
             y == <<"idle", c>>
  <2>2. mainQueue' = Append(mainQueue, y) /\ y \in MainFunctors
    BY <1>3 DEF QueueIdle, MainFunctors
  <2>3. x # y
    OBVIOUS
  <2> HIDE DEF x, y
  <2>4. /\ InSeq(x, mainQueue') <=> InSeq(x, mainQueue)
        /\ Twice(x, mainQueue') <=> Twice(x, mainQueue)
    BY <2>2, <2>3, MainQueued
  <2> QED BY <2>1, <2>4, SoundFrame DEF x
<1>4. CASE SendTest(c)
  <2>1. UNCHANGED <<state_, connections_, mainQueue, idle, ioQueue, closing, inPoller,
                    downs, destroyed, forced>>
    BY <1>4 DEF SendTest, main, io
  <2>2. senders'[d] = senders[d] \/ state_[d] = "kConnected"
    BY <1>4 DEF SendTest, TypeOK
  <2> QED
    BY <2>1, <2>2 DEF Sound, BeforeEstablished, StateHolds, DownsCount, DestroyedLast,
       ShutdownHeld, ForcedFirst, RemovePending, RemovesPending
<1>5. CASE SendQueue(c)
  <2>1. UNCHANGED <<state_, connections_, mainQueue, idle, closing, inPoller, downs,
                    destroyed, forced>>
    BY <1>5 DEF SendQueue, main, io
  <2>2. queueInLoop(c, "sendInLoop") /\ "sendInLoop" \in Functors
    BY <1>5 DEF SendQueue, Functors
  <2>3. CASE c # d
    <3>1. ioQueue'[d] = ioQueue[d] /\ senders'[d] = senders[d]
      BY <1>5, <2>2, <2>3, Queued DEF SendQueue, TypeOK
    <3> QED BY <2>1, <3>1, SoundFrame
  <2>4. CASE c = d
    <3>1. \A x : InSeq(x, ioQueue'[d]) <=> InSeq(x, ioQueue[d]) \/ x = "sendInLoop"
      BY <2>2, <2>4, Queued
    <3>2. Loose(ioQueue'[d]) => Loose(ioQueue[d])
      BY <2>2, <2>4, Queued
    <3>3. state_[d] \notin {"none", "kConnecting"}
      BY <1>5, <2>4 DEF SendQueue, Sound, BeforeEstablished
    <3>4. BeforeEstablished(d)'
      BY <2>1, <3>1, <3>3 DEF Sound, BeforeEstablished
    <3>5. StateHolds(d)' /\ DownsCount(d)' /\ DestroyedLast(d)'
      BY <2>1, <3>1, <3>3 DEF Sound, StateHolds, DownsCount, DestroyedLast, RemovePending,
         RemovesPending
    <3>6. ShutdownHeld(d)' /\ ForcedFirst(d)'
      BY <2>1, <3>1, <3>2, <3>3 DEF Sound, ShutdownHeld, ForcedFirst, RemovePending
    <3> QED BY <3>4, <3>5, <3>6 DEF Sound
  <2> QED BY <2>3, <2>4
<1> QED BY <1>1, <1>2, <1>3, <1>4, <1>5 DEF PoolStep

\* The steps of the main loop.
LEMMA SoundMain ==
    ASSUME TypeOK, NEW c \in Conns, NEW d \in Conns, Sound(d),
           newConnection(c) \/ MainStep(c)
    PROVE  Sound(d)'
<1>f. {"connectEstablished", "shutdownInLoop", "sendInLoop", "handleClose",
       "connectDestroyed"} \subseteq Functors
  BY DEF Functors
<1> DEFINE x == <<"remove", d>>
<1>1. CASE newConnection(c)
  <2>1. UNCHANGED <<mainQueue, idle, closing, inPoller, downs, destroyed, senders, forced>>
    BY <1>1 DEF newConnection, io, pool
  <2>2. queueInLoop(c, "connectEstablished")
    BY <1>1 DEF newConnection
  <2>3. CASE c # d
    <3>1. ioQueue'[d] = ioQueue[d]
      BY <1>f, <2>2, <2>3, Queued
    <3>2. state_'[d] = state_[d] /\ (d \in connections_' <=> d \in connections_)
      BY <1>1, <2>3 DEF newConnection, setState, TypeOK
    <3> QED BY <2>1, <3>1, <3>2, SoundFrame
  <2>4. CASE c = d
    <3>1. /\ state_[d] = "none" /\ state_'[d] = "kConnecting"
          /\ d \in connections_' /\ idle' = NotIdle
      BY <1>1, <2>1, <2>4 DEF newConnection, setState, TypeOK
    <3>2. ioQueue[d] = <<>> /\ senders[d] = 0 /\ downs[d] = 0 /\ closing[d] = "no"
          /\ ~RemovePending(d) /\ ~RemovesPending(d) /\ ~inPoller[d]
      BY <3>1 DEF Sound, BeforeEstablished, StateHolds, DownsCount, TypeOK
    <3>3. ioQueue'[d] = <<"connectEstablished">>
      BY <1>f, <2>2, <2>4, <3>2, Queued
    <3>4. BeforeEstablished(d)'
      BY <2>1, <3>1, <3>2, <3>3 DEF BeforeEstablished, NotIdle
    <3>5. StateHolds(d)' /\ DownsCount(d)' /\ DestroyedLast(d)'
      BY <2>1, <3>1, <3>2 DEF StateHolds, DownsCount, DestroyedLast, RemovePending,
         RemovesPending
    <3>6. ShutdownHeld(d)'
      BY <3>1 DEF ShutdownHeld
    <3>7. ~InSeq("handleClose", ioQueue'[d])
      BY <3>3 DEF InSeq
    <3>8. ForcedFirst(d)'
      BY <2>1, <3>1, <3>2, <3>7 DEF ForcedFirst, NotIdle
    <3> QED BY <3>4, <3>5, <3>6, <3>8 DEF Sound
  <2> QED BY <2>3, <2>4
<1>2. CASE removeConnectionInLoop(c)
  <2>1. UNCHANGED <<state_, idle, closing, inPoller, downs, destroyed, senders, forced>>
    BY <1>2 DEF removeConnectionInLoop, io, pool
  <2>2. CASE c \notin connections_
    <3>1. UNCHANGED <<mainQueue, connections_, ioQueue>>
      BY <1>2, <2>2 DEF removeConnectionInLoop
    <3> QED BY <2>1, <3>1, SoundFrame
  <2>3. CASE c \in connections_
    <3> DEFINE y == <<"remove", c>>
    <3>1. /\ idle = NotIdle
          /\ \A z : InSeq(z, mainQueue) <=> z = y \/ InSeq(z, mainQueue')
          /\ \A z : Twice(z, mainQueue) <=>
                Twice(z, mainQueue') \/ (z = y /\ InSeq(z, mainQueue'))
      BY <1>2, <2>3, MainTaken DEF removeConnectionInLoop
    <3>2. queueInLoop(c, "connectDestroyed") /\ connections_' = connections_ \ {c}
      BY <1>2, <2>3 DEF removeConnectionInLoop
    <3>3. CASE c # d
      <4>1. ioQueue'[d] = ioQueue[d] /\ (d \in connections_' <=> d \in connections_)
        BY <1>f, <3>2, <3>3, Queued
      <4>2. x # y
        BY <3>3
      <4> HIDE DEF x, y
      <4>3. /\ InSeq(x, mainQueue') <=> InSeq(x, mainQueue)
            /\ Twice(x, mainQueue') <=> Twice(x, mainQueue)
        BY <3>1, <4>2
      <4> QED BY <2>1, <4>1, <4>3, SoundFrame DEF x
    <3>4. CASE c = d
      <4>1. \A z : InSeq(z, ioQueue'[d]) <=> InSeq(z, ioQueue[d]) \/ z = "connectDestroyed"
        BY <1>f, <3>2, <3>4, Queued
      <4>2. ~Loose(ioQueue'[d])
        BY <1>f, <3>2, <3>4, Queued
      <4>3. /\ InSeq(x, mainQueue)
            /\ InSeq(x, mainQueue') <=> Twice(x, mainQueue)
            /\ Twice(x, mainQueue') => InSeq(x, mainQueue') /\ Twice(x, mainQueue)
        <5>1. Twice(x, mainQueue') => InSeq(x, mainQueue')
          BY DEF Twice, InSeq
        <5>2. x = y
          BY <3>4
        <5> HIDE DEF x, y
        <5> QED BY <3>1, <5>1, <5>2
      <4>4. d \in connections_ /\ d \notin connections_'
        BY <2>3, <3>2, <3>4
      <4>5. state_[d] \notin {"none", "kConnecting"}
        BY <4>3, <4>4 DEF Sound, BeforeEstablished, DownsCount, RemovePending, TypeOK
      <4>6. BeforeEstablished(d)'
        BY <2>1, <4>1, <4>5 DEF Sound, BeforeEstablished
      <4>7. StateHolds(d)' /\ DestroyedLast(d)'
        BY <2>1, <4>1, <4>5 DEF Sound, StateHolds, DestroyedLast
      <4>8. DownsCount(d)'
        BY <2>1, <4>3, <4>4, <4>5 DEF Sound, DownsCount, RemovePending, RemovesPending
      <4>9. ShutdownHeld(d)' /\ ForcedFirst(d)'
        BY <2>1, <4>1, <4>2 DEF Sound, ShutdownHeld, ForcedFirst
      <4> QED BY <4>6, <4>7, <4>8, <4>9 DEF Sound
    <3> QED BY <3>3, <3>4
  <2> QED BY <2>2, <2>3
<1>3. CASE ShutdownTest(c)
  <2>1. UNCHANGED <<state_, connections_, ioQueue, closing, inPoller, downs, destroyed,
                    senders>>
    BY <1>3 DEF ShutdownTest, io, pool
  <2>2. /\ InSeq(x, mainQueue') <=> InSeq(x, mainQueue)
        /\ Twice(x, mainQueue') <=> Twice(x, mainQueue)
    <3> DEFINE y == <<"idle", c>>
    <3>1. x # y
      OBVIOUS
    <3>2. /\ \A z : InSeq(z, mainQueue) <=> z = y \/ InSeq(z, mainQueue')
          /\ \A z : Twice(z, mainQueue) <=>
                Twice(z, mainQueue') \/ (z = y /\ InSeq(z, mainQueue'))
      BY <1>3, MainTaken DEF ShutdownTest
    <3> HIDE DEF x, y
    <3> QED BY <3>1, <3>2
  <2>3. /\ idle = NotIdle /\ forced' = forced \cup {c}
        /\ idle' = <<IF state_[c] = "kConnected" THEN "shutdown" ELSE "between", c>>
    BY <1>3 DEF ShutdownTest, NextMain
  <2>4. CASE c # d
    BY <2>1, <2>2, <2>3, <2>4, SoundFrame DEF NotIdle
  <2>5. CASE c = d
    <3>1. d \in forced' /\ idle' # <<"forceClose", d>>
          /\ (idle' = <<"shutdown", d>> => state_[d] = "kConnected")
      BY <2>3, <2>5
    <3>2. idle \notin {<<"between", d>>, <<"forceClose", d>>}
      BY <2>3 DEF NotIdle
    <3>3. BeforeEstablished(d)'
      BY <2>1, <3>1 DEF Sound, BeforeEstablished
    <3>4. StateHolds(d)' /\ DownsCount(d)' /\ DestroyedLast(d)'
      BY <2>1, <2>2, <3>2 DEF Sound, StateHolds, DownsCount, DestroyedLast, RemovePending,
         RemovesPending
    <3>5. ShutdownHeld(d)' /\ ForcedFirst(d)'
      BY <2>1, <2>2, <3>1, <3>2 DEF Sound, ShutdownHeld, ForcedFirst, RemovePending
    <3> QED BY <3>3, <3>4, <3>5 DEF Sound
  <2> QED BY <2>4, <2>5
<1>4. CASE ShutdownSet(c)
  <2>1. UNCHANGED <<connections_, mainQueue, closing, inPoller, downs, destroyed, senders,
                    forced>>
    BY <1>4 DEF ShutdownSet, io, pool
  <2>2. /\ idle = <<"shutdown", c>> /\ idle' = <<"between", c>>
        /\ queueInLoop(c, "shutdownInLoop")
        /\ state_' = [state_ EXCEPT ![c] = "kDisconnecting"]
    BY <1>4 DEF ShutdownSet, setState
  <2>3. CASE c # d
    <3>1. ioQueue'[d] = ioQueue[d] /\ state_'[d] = state_[d]
      BY <1>f, <2>2, <2>3, Queued DEF TypeOK
    <3> QED BY <2>1, <2>2, <2>3, <3>1, SoundFrame
  <2>4. CASE c = d
    <3>1. \A z : InSeq(z, ioQueue'[d]) <=> InSeq(z, ioQueue[d]) \/ z = "shutdownInLoop"
      BY <1>f, <2>2, <2>4, Queued
    <3>2. state_'[d] = "kDisconnecting" /\ idle' = <<"between", d>>
          /\ state_[d] \notin {"none", "kConnecting"} /\ d \in forced
      BY <2>2, <2>4 DEF TypeOK, Sound, BeforeEstablished, ForcedFirst
    <3>3. BeforeEstablished(d)'
      BY <2>1, <3>1, <3>2 DEF Sound, BeforeEstablished
    <3>4. StateHolds(d)'
      BY <3>2 DEF StateHolds
    <3>5. DownsCount(d)' /\ DestroyedLast(d)'
      BY <2>1, <3>1, <3>2 DEF Sound, DownsCount, DestroyedLast, RemovePending, RemovesPending
    <3>6. ShutdownHeld(d)' /\ ForcedFirst(d)'
      BY <2>1, <3>2 DEF ShutdownHeld, ForcedFirst
    <3> QED BY <3>3, <3>4, <3>5, <3>6 DEF Sound
  <2> QED BY <2>3, <2>4
<1>5. CASE ForceCloseTest(c)
  <2>1. UNCHANGED <<state_, connections_, mainQueue, ioQueue, closing, inPoller, downs,
                    destroyed, senders, forced>>
    BY <1>5 DEF ForceCloseTest, io, pool
  <2>2. /\ idle = <<"between", c>>
        /\ idle' = IF state_[c] \in {"kConnected", "kDisconnecting"}
                   THEN <<"forceClose", c>> ELSE NotIdle
    BY <1>5 DEF ForceCloseTest
  <2>3. CASE c # d
    BY <2>1, <2>2, <2>3, SoundFrame DEF NotIdle
  <2>4. CASE c = d
    <3>1. d \in forced
      BY <2>2, <2>4 DEF Sound, ForcedFirst
    <3>2. \/ idle' = <<"forceClose", d>> /\ state_[d] \in {"kConnected", "kDisconnecting"}
          \/ idle' = NotIdle /\ state_[d] \notin {"kConnected", "kDisconnecting"}
      BY <2>2, <2>4
    <3>3. BeforeEstablished(d)' /\ StateHolds(d)'
      BY <2>1, <3>2 DEF Sound, BeforeEstablished, StateHolds, NotIdle
    <3>4. DownsCount(d)' /\ DestroyedLast(d)'
      BY <2>1 DEF Sound, DownsCount, DestroyedLast, RemovePending, RemovesPending
    <3>5. ShutdownHeld(d)' /\ ForcedFirst(d)'
      BY <2>1, <2>2, <2>4, <3>1, <3>2 DEF Sound, ShutdownHeld, ForcedFirst, RemovePending
    <3> QED BY <3>3, <3>4, <3>5 DEF Sound
  <2> QED BY <2>3, <2>4
<1>6. CASE ForceCloseSet(c)
  <2>1. UNCHANGED <<connections_, mainQueue, closing, inPoller, downs, destroyed, senders,
                    forced>>
    BY <1>6 DEF ForceCloseSet, io, pool
  <2>2. /\ idle = <<"forceClose", c>> /\ idle' = NotIdle
        /\ queueInLoop(c, "handleClose")
        /\ state_' = [state_ EXCEPT ![c] = "kDisconnecting"]
    BY <1>6 DEF ForceCloseSet, setState
  <2>3. CASE c # d
    <3>1. ioQueue'[d] = ioQueue[d] /\ state_'[d] = state_[d]
      BY <1>f, <2>2, <2>3, Queued DEF TypeOK
    <3> QED BY <2>1, <2>2, <2>3, <3>1, SoundFrame DEF NotIdle
  <2>4. CASE c = d
    <3>1. \A z : InSeq(z, ioQueue'[d]) <=> InSeq(z, ioQueue[d]) \/ z = "handleClose"
      BY <1>f, <2>2, <2>4, Queued
    <3>2. ~Loose(ioQueue'[d])
      BY <1>f, <2>2, <2>4, Queued
    <3>3. state_'[d] = "kDisconnecting"
          /\ state_[d] \notin {"none", "kConnecting"} /\ d \in forced
      BY <2>2, <2>4 DEF TypeOK, Sound, BeforeEstablished, ForcedFirst
    <3>4. BeforeEstablished(d)' /\ StateHolds(d)'
      BY <2>1, <3>1, <3>3 DEF Sound, BeforeEstablished, StateHolds
    <3>5. DownsCount(d)' /\ DestroyedLast(d)'
      BY <2>1, <3>1, <3>3 DEF Sound, DownsCount, DestroyedLast, RemovePending, RemovesPending
    <3>6. ShutdownHeld(d)' /\ ForcedFirst(d)'
      BY <2>1, <3>2, <3>3 DEF ShutdownHeld, ForcedFirst
    <3> QED BY <3>4, <3>5, <3>6 DEF Sound
  <2> QED BY <2>3, <2>4
<1> QED BY <1>1, <1>2, <1>3, <1>4, <1>5, <1>6 DEF MainStep

\* Taking a functor other than connectEstablished and handleClose, and what
\* the IO loop may do to the epoll set then.
LEMMA SoundTaken ==
    ASSUME TypeOK, NEW d \in Conns, Sound(d),
           NEW f \in Functors \ {"connectEstablished", "handleClose"}, NextFunctor(d, f),
           UNCHANGED <<state_, connections_, mainQueue, idle, closing, downs, senders,
                       forced>>,
           destroyed \subseteq destroyed',
           f = "connectDestroyed" => d \in destroyed',
           inPoller'[d] => inPoller[d] \/ state_[d] # "kDisconnected"
    PROVE  Sound(d)'
<1>1. /\ \A x : InSeq(x, ioQueue'[d]) => InSeq(x, ioQueue[d])
      /\ \A x : InSeq(x, ioQueue[d]) => x = f \/ InSeq(x, ioQueue'[d])
      /\ Loose(ioQueue'[d]) => Loose(ioQueue[d])
  BY Taken
<1>2. ioQueue[d] # <<>> /\ ioQueue[d] # <<"connectEstablished">>
  BY Taken
<1>3. state_[d] \in {"kConnected", "kDisconnecting", "kDisconnected"}
  BY <1>2 DEF Sound, BeforeEstablished, TypeOK, ConnStates
<1>4. BeforeEstablished(d)'
  BY <1>1, <1>3 DEF Sound, BeforeEstablished
<1>5. StateHolds(d)'
  BY <1>1, <1>3 DEF Sound, StateHolds
<1>6. DownsCount(d)' /\ DestroyedLast(d)'
  BY <1>1, <1>3 DEF Sound, DownsCount, DestroyedLast, RemovePending, RemovesPending
<1>7. ShutdownHeld(d)' /\ ForcedFirst(d)'
  BY <1>1 DEF Sound, ShutdownHeld, ForcedFirst, RemovePending
<1> QED BY <1>4, <1>5, <1>6, <1>7 DEF Sound

\* handleClose, called for an end of file or by the functor of forceClose.
LEMMA SoundClose ==
    ASSUME TypeOK, NEW d \in Conns, Sound(d), EnterHandleClose(d), closing[d] = "no",
           UNCHANGED <<connections_, mainQueue, idle, downs, senders, destroyed, forced>>,
           \/ ioQueue' = ioQueue /\ inPoller[d]
           \/ NextFunctor(d, "handleClose")
    PROVE  Sound(d)'
<1>1. /\ \A x : InSeq(x, ioQueue'[d]) => InSeq(x, ioQueue[d])
      /\ \A x : InSeq(x, ioQueue[d]) => x = "handleClose" \/ InSeq(x, ioQueue'[d])
      /\ Loose(ioQueue'[d]) => Loose(ioQueue[d])
  BY Taken DEF Functors
<1>2. state_[d] \in {"kConnected", "kDisconnecting", "kDisconnected"}
  <2>1. CASE inPoller[d]
    BY <2>1 DEF Sound, StateHolds
  <2>2. CASE NextFunctor(d, "handleClose")
    <3>1. ioQueue[d] # <<>> /\ ioQueue[d] # <<"connectEstablished">>
      BY <2>2, Taken DEF Functors
    <3> QED BY <3>1 DEF Sound, BeforeEstablished, TypeOK, ConnStates
  <2> QED BY <2>1, <2>2
<1>3. CASE state_[d] \in {"kConnected", "kDisconnecting"}
  <2>1. /\ state_'[d] = "kDisconnected" /\ inPoller'[d] = FALSE
        /\ closing'[d] = "callback"
    BY <1>3 DEF EnterHandleClose, setState, TypeOK
  <2>2. BeforeEstablished(d)' /\ StateHolds(d)'
    BY <1>1, <1>3, <2>1 DEF Sound, BeforeEstablished, StateHolds
  <2>3. DownsCount(d)' /\ DestroyedLast(d)'
    BY <1>1, <1>3, <2>1 DEF Sound, DownsCount, DestroyedLast, RemovePending, RemovesPending
  <2>4. ShutdownHeld(d)'
    BY <2>1 DEF ShutdownHeld
  <2>5. ASSUME d \notin forced PROVE downs[d] = 0 /\ ~InSeq("handleClose", ioQueue[d])
    <3>1. ~InSeq("handleClose", ioQueue[d])
      BY <2>5 DEF Sound, ForcedFirst
    <3>2. state_[d] = "kConnected"
      BY <1>3, <2>5, <3>1 DEF Sound, ForcedFirst, StateHolds
    <3> QED BY <3>1, <3>2 DEF Sound, StateHolds
  <2>6. ForcedFirst(d)'
    BY <1>1, <2>5 DEF Sound, ForcedFirst
  <2> QED BY <2>2, <2>3, <2>4, <2>6 DEF Sound
<1>4. CASE state_[d] = "kDisconnected"
  <2>1. UNCHANGED <<state_, closing, inPoller>>
    BY <1>4 DEF EnterHandleClose
  <2>2. BeforeEstablished(d)' /\ StateHolds(d)'
    BY <1>1, <1>4, <2>1 DEF Sound, BeforeEstablished, StateHolds
  <2>3. DownsCount(d)' /\ DestroyedLast(d)'
    BY <1>1, <2>1 DEF Sound, DownsCount, DestroyedLast, RemovePending, RemovesPending
  <2>4. ShutdownHeld(d)' /\ ForcedFirst(d)'
    BY <1>1, <1>4, <2>1 DEF Sound, ShutdownHeld, ForcedFirst, RemovePending
  <2> QED BY <2>2, <2>3, <2>4 DEF Sound
<1> QED BY <1>2, <1>3, <1>4

\* The steps of the IO loop of another connection.
LEMMA SoundOtherIo ==
    ASSUME TypeOK, NEW c \in Conns, NEW d \in Conns, c # d, Sound(d), IoStep(c)
    PROVE  Sound(d)'
<1>1. /\ state_'[d] = state_[d] /\ closing'[d] = closing[d] /\ inPoller'[d] = inPoller[d]
      /\ downs'[d] = downs[d] /\ ioQueue'[d] = ioQueue[d]
      /\ d \in destroyed' <=> d \in destroyed
      /\ UNCHANGED <<connections_, idle, forced, senders>>
      /\ mainQueue' \in {mainQueue, Append(mainQueue, <<"remove", c>>)}
  <2> USE DEF main, pool, io
  <2>1. CASE connectEstablished(c)
    BY <2>1 DEF connectEstablished, NextFunctor, setState, TypeOK
  <2>2. CASE HandleReadEof(c) \/ ForcedHandleClose(c)
    <3>1. EnterHandleClose(c) /\ UNCHANGED <<main, downs, destroyed, pool>>
          /\ (UNCHANGED ioQueue \/ NextFunctor(c, "handleClose"))
      BY <2>2 DEF HandleReadEof, ForcedHandleClose
    <3> QED BY <3>1 DEF EnterHandleClose, NextFunctor, setState, TypeOK
  <2>3. CASE CloseCallback(c) \/ removeConnection(c)
    BY <2>3 DEF CloseCallback, removeConnection, TypeOK
  <2>4. CASE shutdownInLoop(c) \/ connectDestroyed(c)
    BY <2>4 DEF shutdownInLoop, connectDestroyed, NextFunctor, TypeOK
  <2>5. CASE sendInLoop(c) \/ handleWrite(c)
    BY <2>5 DEF sendInLoop, handleWrite, NextFunctor, TypeOK
  <2> QED BY <2>1, <2>2, <2>3, <2>4, <2>5 DEF IoStep
<1>2. /\ InSeq(<<"remove", d>>, mainQueue') <=> InSeq(<<"remove", d>>, mainQueue)
      /\ Twice(<<"remove", d>>, mainQueue') <=> Twice(<<"remove", d>>, mainQueue)
  <2> DEFINE x == <<"remove", d>>
             y == <<"remove", c>>
  <2>1. x # y /\ y \in MainFunctors /\ mainQueue' \in {mainQueue, Append(mainQueue, y)}
    BY <1>1 DEF MainFunctors
  <2> HIDE DEF x, y
  <2>2. /\ InSeq(x, mainQueue') <=> InSeq(x, mainQueue)
        /\ Twice(x, mainQueue') <=> Twice(x, mainQueue)
    BY <2>1, MainQueued
  <2> QED BY <2>2 DEF x
<1> QED BY <1>1, <1>2, SoundFrame

\* The steps of the IO loop of the connection itself.
LEMMA SoundOwnIo ==
    ASSUME TypeOK, NEW d \in Conns, Sound(d), IoStep(d)
    PROVE  Sound(d)'
<1>1. CASE connectEstablished(d)
  <2>1. NextFunctor(d, "connectEstablished")
        /\ UNCHANGED <<connections_, mainQueue, idle, forced, closing, downs, destroyed,
                       senders>>
    BY <1>1 DEF connectEstablished, main, pool
  <2>2. InSeq("connectEstablished", ioQueue[d]) /\ closing[d] = "no"
    BY <2>1, Taken DEF Functors
  <2>3. state_[d] = "kConnecting" /\ ioQueue[d] = <<"connectEstablished">> /\ downs[d] = 0
    BY <2>2 DEF Sound, BeforeEstablished
  <2>4. ioQueue'[d] = <<>>
    BY <2>1, <2>3, Taken DEF Functors
  <2>5. \A x : ~InSeq(x, ioQueue'[d])
    BY <2>4 DEF InSeq
  <2>6. ~Loose(ioQueue'[d])
    BY <2>4 DEF Loose
  <2>7. state_'[d] = "kConnected"
    BY <1>1 DEF connectEstablished, setState, TypeOK
  <2>8. BeforeEstablished(d)' /\ StateHolds(d)'
    BY <2>1, <2>2, <2>3, <2>5, <2>7 DEF BeforeEstablished, StateHolds
  <2>9. d \in connections_
    BY <2>3 DEF Sound, DownsCount
  <2>10. DownsCount(d)' /\ DestroyedLast(d)'
    BY <2>1, <2>3, <2>7, <2>9 DEF Sound, DownsCount, DestroyedLast, RemovePending,
       RemovesPending
  <2>11. ShutdownHeld(d)' /\ ForcedFirst(d)'
    BY <2>1, <2>5, <2>6 DEF Sound, ShutdownHeld, ForcedFirst
  <2> QED BY <2>8, <2>10, <2>11 DEF Sound
<1>2. CASE HandleReadEof(d)
  BY <1>2, SoundClose DEF HandleReadEof, main, pool
<1>3. CASE ForcedHandleClose(d)
  BY <1>3, SoundClose DEF ForcedHandleClose, NextFunctor, main, pool
<1>4. CASE CloseCallback(d)
  <2>1. /\ closing[d] = "callback" /\ closing'[d] = "remove" /\ downs'[d] = downs[d] + 1
        /\ UNCHANGED <<state_, connections_, mainQueue, idle, forced, ioQueue, inPoller,
                       destroyed, senders>>
    BY <1>4 DEF CloseCallback, main, TypeOK
  <2>2. downs[d] \in Nat
    BY DEF TypeOK
  <2>3. state_[d] \in {"kDisconnecting", "kDisconnected"}
    BY <2>1 DEF Sound, StateHolds
  <2>4. BeforeEstablished(d)' /\ StateHolds(d)'
    BY <2>1, <2>3 DEF Sound, BeforeEstablished, StateHolds
  <2>5. DownsCount(d)'
    <3>1. downs[d] >= 1 <=> d \notin connections_ \/ InSeq(<<"remove", d>>, mainQueue)
      BY <2>1, <2>3 DEF Sound, DownsCount, RemovePending
    <3>2. Twice(<<"remove", d>>, mainQueue) => InSeq(<<"remove", d>>, mainQueue)
      BY DEF Twice, InSeq
    <3>3. downs'[d] >= 1 /\ (downs'[d] >= 2 <=> downs[d] >= 1)
      BY <2>1, <2>2
    <3> QED
      BY <2>1, <2>3, <3>1, <3>2, <3>3 DEF DownsCount, RemovePending, RemovesPending
  <2>6. DestroyedLast(d)' /\ ShutdownHeld(d)'
    BY <2>1 DEF Sound, DestroyedLast, ShutdownHeld, RemovePending
  <2>7. ForcedFirst(d)'
    BY <2>1 DEF Sound, ForcedFirst
  <2> QED BY <2>4, <2>5, <2>6, <2>7 DEF Sound
<1>5. CASE removeConnection(d)
  <2> DEFINE y == <<"remove", d>>
  <2>1. /\ closing[d] = "remove" /\ closing'[d] = "no" /\ inPoller'[d] = FALSE
        /\ UNCHANGED <<state_, connections_, idle, forced, ioQueue, downs, destroyed,
                       senders>>
    BY <1>5 DEF removeConnection, pool, TypeOK
  <2>2. /\ InSeq(y, mainQueue')
        /\ Twice(y, mainQueue') <=> Twice(y, mainQueue) \/ InSeq(y, mainQueue)
    <3>1. mainQueue' = Append(mainQueue, y) /\ y \in MainFunctors
      BY <1>5 DEF removeConnection, MainFunctors
    <3> HIDE DEF y
    <3> QED BY <3>1, MainQueued
  <2>3. state_[d] \in {"kDisconnecting", "kDisconnected"}
    BY <2>1 DEF Sound, StateHolds
  <2>4. BeforeEstablished(d)' /\ StateHolds(d)'
    BY <2>1, <2>3 DEF Sound, BeforeEstablished, StateHolds
  <2>5. DownsCount(d)'
    BY <2>1, <2>2, <2>3 DEF Sound, DownsCount, RemovePending, RemovesPending
  <2>6. DestroyedLast(d)' /\ ShutdownHeld(d)'
    BY <2>1, <2>2 DEF Sound, DestroyedLast, ShutdownHeld, RemovePending
  <2>7. ForcedFirst(d)'
    BY <2>1 DEF Sound, ForcedFirst
  <2> QED BY <2>4, <2>5, <2>6, <2>7 DEF Sound
<1>6. CASE shutdownInLoop(d)
  BY <1>6, SoundTaken DEF shutdownInLoop, Functors, main, io, pool
<1>7. CASE sendInLoop(d)
  <2>1. inPoller'[d] => inPoller[d] \/ state_[d] # "kDisconnected"
    BY <1>7 DEF sendInLoop, TypeOK
  <2> QED BY <1>7, <2>1, SoundTaken DEF sendInLoop, Functors, main, pool
<1>8. CASE handleWrite(d)
  BY <1>8, SoundFrame DEF handleWrite, main, pool
<1>9. CASE connectDestroyed(d)
  <2>1. inPoller'[d] = FALSE
    BY <1>9 DEF connectDestroyed, TypeOK
  <2> QED BY <1>9, <2>1, SoundTaken DEF connectDestroyed, Functors, main, pool
<1> QED BY <1>1, <1>2, <1>3, <1>4, <1>5, <1>6, <1>7, <1>8, <1>9 DEF IoStep

----------------------------------------------------------------------------
\* The types and the invariant, in every state.
LEMMA SoundAlways == Spec => [](TypeOK /\ ConnInv)
<1>1. Init => TypeOK /\ ConnInv
  <2> SUFFICES ASSUME Init PROVE TypeOK /\ ConnInv
    OBVIOUS
  <2>1. TypeOK
    BY DEF Init, TypeOK, ConnStates
  <2>2. ASSUME NEW c \in Conns PROVE Sound(c)
    <3>1. /\ \A x : ~InSeq(x, ioQueue[c]) /\ ~InSeq(x, mainQueue) /\ ~Twice(x, mainQueue)
          /\ ~Loose(ioQueue[c])
      BY DEF Init, InSeq, Twice, Loose
    <3> QED
      BY <3>1 DEF Init, NotIdle, Sound, BeforeEstablished, StateHolds, DownsCount,
         DestroyedLast, ShutdownHeld, ForcedFirst, RemovePending, RemovesPending
  <2> QED BY <2>1, <2>2 DEF ConnInv
<1>2. TypeOK /\ ConnInv /\ [Next]_vars => (TypeOK /\ ConnInv)'
  <2> SUFFICES ASSUME TypeOK, [Next]_vars, NEW d \in Conns, Sound(d) PROVE Sound(d)'
    BY TypeStep DEF ConnInv
  <2>1. ASSUME NEW c \in Conns, newConnection(c) \/ MainStep(c) PROVE Sound(d)'
    BY <2>1, SoundMain
  <2>2. ASSUME NEW c \in Conns, IoStep(c) PROVE Sound(d)'
    BY <2>2, SoundOtherIo, SoundOwnIo
  <2>3. ASSUME NEW c \in Conns,
               \/ HandleReadMessage(c) \/ PeerCloses(c) \/ PoolStep(c)
               \/ \E m \in Monitors : FindOld(m, c) \/ EraseOld(m, c) \/ QueueIdle(m, c)
        PROVE  Sound(d)'
    BY <2>3, SoundOutside
  <2>4. CASE UNCHANGED vars
    BY <2>4, SoundFrame DEF vars
  <2> QED BY <2>1, <2>2, <2>3, <2>4 DEF Next, MonitorStep
<1> QED BY <1>1, <1>2, PTL DEF Spec

\* Who holds a connection that is not yet, or no longer, in connections_.
LEMMA Holders ==
    ASSUME TypeOK, NEW c \in Conns, Sound(c), ~Held(c)
    PROVE  /\ c \notin connections_ /\ ~RemovePending(c) /\ closing[c] = "no"
           /\ \A at : idle # <<at, c>>
           /\ \A f \in Functors : InSeq(f, ioQueue[c]) => f = "shutdownInLoop"
           /\ state_[c] \in {"none", "kDisconnected"}
<1>1. /\ c \notin connections_ /\ closing[c] = "no" /\ idle[2] # c
      /\ ~InSeq(<<"remove", c>>, mainQueue)
      /\ \A f \in Functors \ {"shutdownInLoop"} : ~InSeq(f, ioQueue[c])
  BY DEF Held
<1>2. ~RemovePending(c)
  BY <1>1 DEF RemovePending
<1>3. \A at : idle # <<at, c>>
  BY <1>1
<1>4. state_[c] # "kConnecting"
  <2>1. state_[c] = "kConnecting" => InSeq("connectEstablished", ioQueue[c])
    BY DEF Sound, BeforeEstablished, InSeq
  <2> QED BY <1>1, <2>1 DEF Functors
<1>5. state_[c] # "kConnected"
  BY <1>1, <1>2 DEF Sound, StateHolds, DownsCount
<1>6. state_[c] # "kDisconnecting"
  BY <1>1, <1>3 DEF Sound, StateHolds, Functors
<1> QED BY <1>1, <1>2, <1>3, <1>4, <1>5, <1>6 DEF TypeOK, ConnStates

\* The functor of shutdown() and the epoll set name only objects that somebody
\* holds, however the idle functors race with the close of the connection.
THEOREM PointersValid == Spec => []PlainPointersValid
<1>1. TypeOK /\ ConnInv => PlainPointersValid
  <2> SUFFICES ASSUME TypeOK, NEW c \in Conns, Sound(c), ~Held(c)
               PROVE  ~InSeq("shutdownInLoop", ioQueue[c]) /\ ~inPoller[c]
    BY DEF ConnInv, PlainPointersValid
  <2>1. /\ c \notin connections_ /\ ~RemovePending(c) /\ closing[c] = "no"
        /\ \A at : idle # <<at, c>>
        /\ \A f \in Functors : InSeq(f, ioQueue[c]) => f = "shutdownInLoop"
        /\ state_[c] \in {"none", "kDisconnected"}
    BY Holders
  <2>2. ~Loose(ioQueue[c])
    BY <2>1 DEF Sound, ShutdownHeld
  <2>3. InSeq("shutdownInLoop", ioQueue[c]) => Loose(ioQueue[c])
    <3>1. ~InSeq("handleClose", ioQueue[c]) /\ ~InSeq("connectDestroyed", ioQueue[c])
      BY <2>1 DEF Functors
    <3> QED BY <3>1 DEF InSeq, Loose
  <2>4. ~inPoller[c]
    BY <2>1 DEF Sound, StateHolds
  <2> QED BY <2>2, <2>3, <2>4
<1> QED BY <1>1, SoundAlways, PTL

\* A connection that nobody holds is closed and destroyed, and its disconnect
\* callback has run exactly once.
THEOREM ReleasedOnce == Spec => []ReleasedAfterOneDown
<1>1. TypeOK /\ ConnInv => ReleasedAfterOneDown
  <2> SUFFICES ASSUME TypeOK, NEW c \in Conns, Sound(c), LetGo(c)
               PROVE  state_[c] = "kDisconnected" /\ c \in destroyed /\ downs[c] = 1
    BY DEF ConnInv, ReleasedAfterOneDown
  <2>1. /\ c \notin connections_ /\ ~RemovePending(c) /\ closing[c] = "no"
        /\ \A f \in Functors : InSeq(f, ioQueue[c]) => f = "shutdownInLoop"
        /\ state_[c] = "kDisconnected"
    BY Holders DEF LetGo
  <2>2. c \in destroyed
    BY <2>1 DEF Sound, DestroyedLast, Functors
  <2>3. ~RemovesPending(c)
    <3>1. ~InSeq(<<"remove", c>>, mainQueue) /\ closing[c] # "remove"
      BY <2>1 DEF RemovePending
    <3>2. ~Twice(<<"remove", c>>, mainQueue)
      BY <3>1 DEF InSeq, Twice
    <3> QED BY <3>1, <3>2 DEF RemovesPending
  <2>4. downs[c] >= 1 /\ ~(downs[c] >= 2) /\ downs[c] \in Nat
    BY <2>1, <2>3 DEF Sound, DownsCount, TypeOK
  <2> QED BY <2>1, <2>2, <2>4
<1> QED BY <1>1, SoundAlways, PTL

\* No assertion of the library fails as long as no idle functor has run:
\* connecting, sending and closing alone lead to none.
THEOREM AssertsHold == Spec => []AssertsHoldUnlessForced
<1> USE DEF AssertsHoldUnlessForced
<1>1. Init => AssertsHoldUnlessForced
  BY DEF Init
<1>2. TypeOK /\ ConnInv /\ AssertsHoldUnlessForced /\ [Next]_vars
        => AssertsHoldUnlessForced'
  <2> SUFFICES ASSUME TypeOK, ConnInv, AssertsHoldUnlessForced, [Next]_vars
               PROVE  AssertsHoldUnlessForced'
    OBVIOUS
  <2>1. ASSUME NEW c \in Conns, removeConnectionInLoop(c) PROVE AssertsHoldUnlessForced'
    <3>1. UNCHANGED forced /\ InSeq(<<"remove", c>>, mainQueue)
      <4>1. mainQueue # <<>> /\ Head(mainQueue) = <<"remove", c>> /\ UNCHANGED forced
        BY <2>1 DEF removeConnectionInLoop, NextMain
      <4>2. mainQueue \in Seq(MainFunctors)
        BY DEF TypeOK
      <4> QED BY <4>1, <4>2, BeforeTail
    <3>2. CASE c \in connections_
      BY <2>1, <3>1, <3>2 DEF removeConnectionInLoop
    <3>3. CASE c \notin connections_
      <4>1. downs[c] >= 2 /\ downs[c] \in Nat
        BY <3>1, <3>3 DEF ConnInv, Sound, DownsCount, RemovePending, TypeOK
      <4>2. c \in forced
        BY <4>1 DEF ConnInv, Sound, ForcedFirst
      <4> QED BY <3>1, <4>2
    <3> QED BY <3>2, <3>3
  <2>2. ASSUME NEW c \in Conns, HandleReadEof(c) PROVE AssertsHoldUnlessForced'
    <3>1. state_[c] \in {"kConnected", "kDisconnecting"}
      BY <2>2 DEF HandleReadEof, ConnInv, Sound, StateHolds
    <3> QED BY <2>2, <3>1 DEF HandleReadEof, EnterHandleClose, main
  <2>3. ASSUME NEW c \in Conns, ForcedHandleClose(c) PROVE AssertsHoldUnlessForced'
    <3>1. InSeq("handleClose", ioQueue[c])
      BY <2>3, Taken DEF ForcedHandleClose, Functors
    <3>2. c \in forced /\ UNCHANGED forced
      BY <2>3, <3>1 DEF ForcedHandleClose, main, ConnInv, Sound, ForcedFirst
    <3> QED BY <3>2
  <2>4. CASE UNCHANGED failed /\ forced \subseteq forced'
    BY <2>4
  <2>5. ASSUME NEW c \in Conns,
               \/ newConnection(c) \/ HandleReadMessage(c) \/ PeerCloses(c) \/ PoolStep(c)
               \/ ShutdownTest(c) \/ ShutdownSet(c) \/ ForceCloseTest(c) \/ ForceCloseSet(c)
        PROVE  UNCHANGED failed /\ forced \subseteq forced'
    BY <2>5 DEF newConnection, HandleReadMessage, PeerCloses, PoolStep, heartTcp, updataShip,
       returnPwd, SendTest, SendQueue, ShutdownTest, ShutdownSet, ForceCloseTest, ForceCloseSet, main
  <2>6. ASSUME NEW c \in Conns,
               \/ connectEstablished(c) \/ CloseCallback(c) \/ removeConnection(c)
               \/ shutdownInLoop(c) \/ sendInLoop(c) \/ handleWrite(c) \/ connectDestroyed(c)
        PROVE  UNCHANGED failed /\ forced \subseteq forced'
    BY <2>6 DEF connectEstablished, CloseCallback, removeConnection, shutdownInLoop,
       sendInLoop, handleWrite, connectDestroyed, main
  <2>7. ASSUME NEW m \in Monitors, MonitorStep(m)
        PROVE  UNCHANGED failed /\ forced \subseteq forced'
    BY <2>7 DEF MonitorStep, FindOld, EraseOld, QueueIdle, main
  <2>8. CASE UNCHANGED vars
    BY <2>8 DEF vars
  <2> QED
    BY <2>1, <2>2, <2>3, <2>4, <2>5, <2>6, <2>7, <2>8 DEF Next, MainStep, IoStep
<1> QED BY <1>1, <1>2, SoundAlways, PTL DEF Spec
============================================================================
