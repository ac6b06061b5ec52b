---------------------------- MODULE RuntimeProofs ---------------------------
(***************************************************************************)
(* Theorems about what the rest of the program runs on: EventLoop, for any *)
(* number of threads and functors; ThreadPool, for any number of workers,  *)
(* callers and tasks; Buffer, for every buffer, every size and every value *)
(* of the constants; and Stream, for any messages whose lengths fit into   *)
(* the header and however the socket cuts the bytes: they come out whole   *)
(* and in order.                                                           *)
(***************************************************************************)
EXTENDS EventLoop, ThreadPool, Stream, Integers, SequenceTheorems,
        FiniteSetTheorems, TLAPS

----------------------------------------------------------------------------
(***************************************************************************)
(* EventLoop.                                                              *)
(***************************************************************************)
\* The functors of two queues, one after the other.
LEMMA ElementsOfConcat ==
    ASSUME NEW S, NEW s \in Seq(S), NEW t \in Seq(S)
    PROVE  Elements(s \o t) = Elements(s) \cup Elements(t)
<1>1. ASSUME NEW x \in Elements(s \o t) PROVE x \in Elements(s) \cup Elements(t)
  <2>1. PICK i \in 1 .. Len(s) + Len(t) : x = (s \o t)[i]
    BY <1>1 DEF Elements
  <2>2. CASE i <= Len(s)
    BY <2>1, <2>2 DEF Elements
  <2>3. CASE i > Len(s)
    <3>1. i - Len(s) \in DOMAIN t /\ x = t[i - Len(s)]
      BY <2>1, <2>3
    <3> QED BY <3>1 DEF Elements
  <2> QED BY <2>1, <2>2, <2>3
<1>2. ASSUME NEW x \in Elements(s) PROVE x \in Elements(s \o t)
  <2>1. PICK i \in 1 .. Len(s) : x = s[i]
    BY <1>2 DEF Elements
  <2>2. i \in DOMAIN (s \o t) /\ x = (s \o t)[i]
    BY <2>1
  <2> QED BY <2>2 DEF Elements
<1>3. ASSUME NEW x \in Elements(t) PROVE x \in Elements(s \o t)
  <2>1. PICK i \in 1 .. Len(t) : x = t[i]
    BY <1>3 DEF Elements
  <2>2. i + Len(s) \in DOMAIN (s \o t) /\ x = (s \o t)[i + Len(s)]
    BY <2>1
  <2> QED BY <2>2 DEF Elements
<1> QED BY <1>1, <1>2, <1>3

----------------------------------------------------------------------------
\* Every variable keeps its type, whatever the interleaving of the loop with
\* any number of threads that queue and quit.
THEOREM TypeCorrect == Spec => []TypeOK
<1>1. Init => TypeOK
  <2>1. <<>> \in Seq(Functors)
    OBVIOUS
  <2> QED BY <2>1, Zenon DEF Init, TypeOK, Locations
<1>2. TypeOK /\ [Next]_vars => TypeOK'
  <2> SUFFICES ASSUME TypeOK, [Next]_vars PROVE TypeOK'
    OBVIOUS
  <2> USE DEF TypeOK, Locations
  <2>1. CASE LoopStep
    <3>1. <<>> \in Seq(Functors)
      OBVIOUS
    <3>2. CASE Enter \/ Test \/ PollWakeup \/ FunctorReturns \/ AllRun
      BY <3>2, Zenon DEF Enter, Test, PollWakeup, FunctorReturns, AllRun
    <3>3. CASE HandleEvents
      BY <3>3, Zenon DEF HandleEvents
    <3>4. CASE SwapPending
      BY <3>1, <3>4, Zenon DEF SwapPending
    <3>5. CASE RunFunctor
      <4>1. executed' \in Seq(Functors) /\ functors' \in Seq(Functors)
        BY <3>5 DEF RunFunctor
      <4> QED BY <3>5, <4>1, Zenon DEF RunFunctor
    <3> QED BY <2>1, <3>2, <3>3, <3>4, <3>5 DEF LoopStep
  <2>2. CASE PollEvent
    BY <2>2 DEF PollEvent
  <2>3. ASSUME NEW f \in Functors, LoopQueue(f) PROVE TypeOK'
    BY <2>3 DEF LoopQueue
  <2>4. ASSUME NEW p \in Threads, wakeup(p) PROVE TypeOK'
    BY <2>4 DEF wakeup
  <2>5. ASSUME NEW p \in Threads, Quit(p) PROVE TypeOK'
    BY <2>5 DEF Quit
  <2>6. ASSUME NEW p \in Threads, NEW f \in Functors, Queue(p, f) PROVE TypeOK'
    BY <2>6 DEF Queue
  <2>7. CASE UNCHANGED vars
    BY <2>7 DEF vars
  <2> QED BY <2>1, <2>2, <2>3, <2>4, <2>5, <2>6, <2>7 DEF Next
<1> QED BY <1>1, <1>2, PTL DEF Spec

----------------------------------------------------------------------------
\* Why no pending functor is slept over: from the moment it is queued until
\* it is swapped out, somebody is on the way to the next poll or the eventfd
\* is written.  callingPendingFunctors_ is right where LoopQueue reads it with
\* no swap ahead, although the constructor leaves it uninitialised.
LoopInv ==
    /\ pendingFunctors_ # <<>> =>
          wakeupFd_ \/ calling # {} \/ pc \in {"handle", "swap"}
    /\ pc \in {"run", "functor"} => callingPendingFunctors_
    /\ functors # <<>> => pc \in {"run", "functor"}

\* Every step of the loop and of the other threads keeps LoopInv.
LEMMA LoopInvStep == TypeOK /\ LoopInv /\ [Next]_vars => LoopInv'
<1> SUFFICES ASSUME TypeOK, LoopInv, [Next]_vars PROVE LoopInv'
  OBVIOUS
<1> USE DEF TypeOK, LoopInv
<1>1. CASE Enter \/ Test \/ PollWakeup \/ PollEvent
  BY <1>1 DEF Enter, Test, PollWakeup, PollEvent
<1>2. CASE HandleEvents \/ SwapPending
  BY <1>2 DEF HandleEvents, SwapPending
<1>3. CASE RunFunctor \/ FunctorReturns \/ AllRun
  BY <1>3 DEF RunFunctor, FunctorReturns, AllRun
<1>4. ASSUME NEW f \in Functors, LoopQueue(f) PROVE LoopInv'
  BY <1>4 DEF LoopQueue
<1>5. ASSUME NEW p \in Threads, wakeup(p) PROVE LoopInv'
  BY <1>5 DEF wakeup
<1>6. ASSUME NEW p \in Threads, Quit(p) PROVE LoopInv'
  BY <1>6 DEF Quit
<1>7. ASSUME NEW p \in Threads, NEW f \in Functors, Queue(p, f) PROVE LoopInv'
  BY <1>7 DEF Queue
<1>8. CASE UNCHANGED vars
  BY <1>8 DEF vars
<1> QED BY <1>1, <1>2, <1>3, <1>4, <1>5, <1>6, <1>7, <1>8 DEF Next, LoopStep

\* LoopInv holds in every reachable state.
LEMMA LoopInvHolds == Spec => []LoopInv
<1>1. Init => LoopInv
  BY DEF Init, LoopInv
<1> QED BY <1>1, LoopInvStep, TypeCorrect, PTL DEF Spec

\* The loop is never blocked in poll over pending functors that nobody is
\* going to wake it for: for any number of threads and functors.
THEOREM NeverSleepsOverWork == Spec => []NoSleepOverWork
<1>1. LoopInv => NoSleepOverWork
  BY DEF LoopInv, NoSleepOverWork
<1> QED BY <1>1, LoopInvHolds, PTL

----------------------------------------------------------------------------
\* The eventfd, the double vector and the two threads implement a plain queue:
\* functors run in the order they were queued, each at most once.
THEOREM ImplementsTaskQueue == Spec => FifoOnce
<1> DEFINE queue == functors \o pendingFunctors_
<1> USE DEF Order!Elements
<1>1. Init => Order!Init
  BY DEF Init, Order!Init
<1>2. TypeOK /\ LoopInv /\ [Next]_vars => [Order!Next]_(Order!vars)
  <2> SUFFICES ASSUME TypeOK, LoopInv, [Next]_vars PROVE [Order!Next]_(Order!vars)
    OBVIOUS
  <2>0. /\ pendingFunctors_ \in Seq(Functors)
        /\ functors \in Seq(Functors)
        /\ executed \in Seq(Functors)
    BY DEF TypeOK
  <2>1. CASE UNCHANGED <<pendingFunctors_, functors, executed>>
    BY <2>1 DEF Order!vars
  <2>2. ASSUME NEW f \in Functors, f \notin Queued,
               pendingFunctors_' = Append(pendingFunctors_, f),
               UNCHANGED <<functors, executed>>
        PROVE  Order!Put(f)
    <3>1. queue' = Append(queue, f)
      BY <2>0, <2>2
    <3>2. f \notin Elements(queue) \cup Elements(executed)
      BY <2>0, <2>2, ElementsOfConcat DEF Queued
    <3> QED BY <2>2, <3>1, <3>2 DEF Order!Put, Elements
  <2>3. ASSUME NEW f \in Functors,
               LoopQueue(f) \/ \E p \in Threads : Queue(p, f)
        PROVE  Order!Put(f)
    BY <2>2, <2>3 DEF LoopQueue, Queue
  <2>4. CASE SwapPending
    <3>1. functors = <<>>
      BY <2>4 DEF SwapPending, LoopInv
    <3>2. queue' = queue
      BY <2>0, <2>4, <3>1 DEF SwapPending
    <3> QED BY <2>4, <3>2 DEF SwapPending, Order!vars
  <2>5. CASE RunFunctor
    <3>1. queue # <<>> /\ Head(queue) = Head(functors) /\ Tail(queue) = queue'
      BY <2>0, <2>5 DEF RunFunctor
    <3> QED BY <2>5, <3>1 DEF RunFunctor, Order!Start, Order!Next
  <2>6. CASE Enter \/ Test \/ PollWakeup \/ PollEvent \/ HandleEvents
             \/ FunctorReturns \/ AllRun
    BY <2>1, <2>6 DEF Enter, Test, PollWakeup, PollEvent, HandleEvents,
                      FunctorReturns, AllRun
  <2>7. ASSUME NEW p \in Threads, wakeup(p) \/ Quit(p)
        PROVE  [Order!Next]_(Order!vars)
    BY <2>1, <2>7 DEF wakeup, Quit
  <2>8. CASE UNCHANGED vars
    BY <2>1, <2>8 DEF vars
  <2> QED BY <2>3, <2>4, <2>5, <2>6, <2>7, <2>8 DEF Next, LoopStep, Order!Next
<1> QED BY <1>1, <1>2, TypeCorrect, LoopInvHolds, PTL DEF Spec, FifoOnce, Order!Spec

----------------------------------------------------------------------------
(***************************************************************************)
(* Buffer: what its operations do to the readable bytes.                   *)
(***************************************************************************)
\* Facts about sequences that the operations come down to.
LEMMA ThreePieces ==
    ASSUME NEW f \in Seq(Bytes), NEW s \in Seq(Bytes), NEW k \in Seq(Bytes)
    PROVE  /\ (f \o s) \o k \in Seq(Bytes)
           /\ Len((f \o s) \o k) = Len(f) + Len(s) + Len(k)
           /\ \A i \in 1 .. Len(f) + Len(s) + Len(k) :
                 ((f \o s) \o k)[i] =
                    IF i <= Len(f) THEN f[i]
                    ELSE IF i <= Len(f) + Len(s) THEN s[i - Len(f)]
                    ELSE k[i - (Len(f) + Len(s))]
<1>1. /\ f \o s \in Seq(Bytes) /\ Len(f \o s) = Len(f) + Len(s)
      /\ \A i \in 1 .. Len(f) + Len(s) :
            (f \o s)[i] = IF i <= Len(f) THEN f[i] ELSE s[i - Len(f)]
  BY ConcatProperties, Zenon
<1> DEFINE g == f \o s
<1>2. g \in Seq(Bytes) /\ Len(g) = Len(f) + Len(s)
      /\ \A i \in 1 .. Len(f) + Len(s) :
            g[i] = IF i <= Len(f) THEN f[i] ELSE s[i - Len(f)]
  BY <1>1
<1> HIDE DEF g
<1>3. /\ g \o k \in Seq(Bytes) /\ Len(g \o k) = Len(g) + Len(k)
      /\ \A i \in 1 .. Len(g) + Len(k) :
            (g \o k)[i] = IF i <= Len(g) THEN g[i] ELSE k[i - Len(g)]
  <2>1. g \in Seq(Bytes)
    BY <1>2
  <2> QED BY <2>1
<1>4. Len(f) \in Nat /\ Len(s) \in Nat /\ Len(k) \in Nat
  OBVIOUS
<1>5. ASSUME NEW i \in 1 .. Len(f) + Len(s) + Len(k)
      PROVE  (g \o k)[i] =
                IF i <= Len(f) THEN f[i]
                ELSE IF i <= Len(f) + Len(s) THEN s[i - Len(f)]
                ELSE k[i - (Len(f) + Len(s))]
  <2>1. (g \o k)[i] = IF i <= Len(f) + Len(s) THEN g[i]
                      ELSE k[i - (Len(f) + Len(s))]
    BY <1>2, <1>3, <1>4
  <2>2. i <= Len(f) + Len(s) =>
           g[i] = IF i <= Len(f) THEN f[i] ELSE s[i - Len(f)]
    BY <1>2, <1>4
  <2>3. i <= Len(f) => i <= Len(f) + Len(s)
    BY <1>4
  <2> QED BY <2>1, <2>2, <2>3
<1>6. g \o k \in Seq(Bytes) /\ Len(g \o k) = Len(f) + Len(s) + Len(k)
  BY <1>2, <1>3, <1>4
<1> QED BY <1>5, <1>6 DEF g

\* Concatenation is associative.
LEMMA Associative ==
    ASSUME NEW f \in Seq(Bytes), NEW s \in Seq(Bytes), NEW k \in Seq(Bytes)
    PROVE  (f \o s) \o k = f \o (s \o k)
BY ConcatAssociative

\* A vector into which a sequence was copied, element by element.
LEMMA CopiedIsSeq ==
    ASSUME NEW store \in Seq(Bytes), NEW s \in Seq(Bytes), NEW at \in Nat,
           at + Len(s) <= Len(store)
    PROVE  /\ Copied(store, s, at) \in Seq(Bytes)
           /\ Len(Copied(store, s, at)) = Len(store)
           /\ \A i \in 1 .. Len(store) :
                Copied(store, s, at)[i] =
                   IF at < i /\ i <= at + Len(s) THEN s[i - at] ELSE store[i]
<1> DEFINE front == SubSeq(store, 1, at)
           back == SubSeq(store, at + Len(s) + 1, Len(store))
<1>1. Len(s) \in Nat /\ Len(store) \in Nat
  OBVIOUS
<1>2. front \in Seq(Bytes) /\ Len(front) = at
      /\ \A i \in 1 .. at : front[i] = store[i]
  OBVIOUS
<1>3. back \in Seq(Bytes) /\ Len(back) = Len(store) - (at + Len(s))
      /\ \A i \in 1 .. Len(store) - (at + Len(s)) :
            back[i] = store[at + Len(s) + i]
  OBVIOUS
<1>4. Copied(store, s, at) = (front \o s) \o back
  BY DEF Copied
<1> HIDE DEF front, back
<1>5. Len(front) + Len(s) + Len(back) = Len(store)
  BY <1>1, <1>2, <1>3
<1>6. ASSUME NEW i \in 1 .. Len(store)
      PROVE  ((front \o s) \o back)[i] =
                IF at < i /\ i <= at + Len(s) THEN s[i - at] ELSE store[i]
  <2>1. ((front \o s) \o back)[i] =
           IF i <= at THEN front[i]
           ELSE IF i <= at + Len(s) THEN s[i - at]
           ELSE back[i - (at + Len(s))]
    <3>1. i \in 1 .. Len(front) + Len(s) + Len(back)
      BY <1>5
    <3>2. ((front \o s) \o back)[i] =
             IF i <= Len(front) THEN front[i]
             ELSE IF i <= Len(front) + Len(s) THEN s[i - Len(front)]
             ELSE back[i - (Len(front) + Len(s))]
      <4>1. front \in Seq(Bytes) /\ s \in Seq(Bytes) /\ back \in Seq(Bytes)
        BY <1>2, <1>3, Zenon
      <4>2. \A j \in 1 .. Len(front) + Len(s) + Len(back) :
               ((front \o s) \o back)[j] =
                  IF j <= Len(front) THEN front[j]
                  ELSE IF j <= Len(front) + Len(s) THEN s[j - Len(front)]
                  ELSE back[j - (Len(front) + Len(s))]
        BY <4>1, ThreePieces, Zenon
      <4> QED BY <3>1, <4>2, Zenon
    <3> QED BY <1>2, <3>2, Zenon
  <2>2. CASE at + Len(s) < i
    <3>1. i - (at + Len(s)) \in 1 .. Len(store) - (at + Len(s))
      BY <1>1, <2>2
    <3>2. back[i - (at + Len(s))] = store[i]
      BY <1>1, <1>3, <3>1
    <3> QED BY <1>1, <2>1, <2>2, <3>2
  <2>3. CASE i <= at
    <3>1. front[i] = store[i] /\ ~(at < i)
      BY <1>2, <2>3
    <3> QED BY <2>1, <2>3, <3>1
  <2>4. CASE at < i /\ i <= at + Len(s)
    <3>1. ~(i <= at)
      BY <2>4
    <3> QED BY <2>1, <2>4, <3>1
  <2>5. i <= at \/ (at < i /\ i <= at + Len(s)) \/ at + Len(s) < i
    BY <1>1
  <2> QED BY <2>2, <2>3, <2>4, <2>5, Zenon
<1>7. /\ (front \o s) \o back \in Seq(Bytes)
      /\ Len((front \o s) \o back) = Len(store)
  BY <1>2, <1>3, <1>5, ThreePieces
<1> QED BY <1>4, <1>6, <1>7

\* What IsBuffer says of the fields of a buffer.
LEMMA BufferFacts ==
    ASSUME NEW b, IsBuffer(b)
    PROVE  /\ b.store \in Seq(Bytes) /\ Len(b.store) \in Nat
           /\ b.readerIndex_ \in Nat /\ b.writerIndex_ \in Nat
           /\ kCheapPrepend \in Nat /\ kCheapPrepend <= b.readerIndex_
           /\ b.readerIndex_ <= b.writerIndex_
           /\ b.writerIndex_ <= Len(b.store)
           /\ b = [store |-> b.store, readerIndex_ |-> b.readerIndex_,
                   writerIndex_ |-> b.writerIndex_]
<1>1. b.store \in Seq(Bytes)
  BY DEF IsBuffer
<1> QED BY <1>1, BufferAssumption DEF IsBuffer

\* The readable bytes are a sequence, found from readerIndex_ on.
LEMMA ContentIsSeq ==
    ASSUME NEW b, IsBuffer(b)
    PROVE  /\ Content(b) \in Seq(Bytes)
           /\ Len(Content(b)) = readableBytes(b)
           /\ readableBytes(b) \in Nat
           /\ \A i \in 1 .. readableBytes(b) :
                 Content(b)[i] = b.store[b.readerIndex_ + i]
BY DEF IsBuffer, Content, readableBytes

\* A sequence with the same bytes from readerIndex_ on is the content.
LEMMA ContentByElements ==
    ASSUME NEW b, IsBuffer(b), NEW t \in Seq(Bytes), Len(t) = readableBytes(b),
           \A i \in 1 .. readableBytes(b) : b.store[b.readerIndex_ + i] = t[i]
    PROVE  Content(b) = t
<1>1. \A i \in 1 .. Len(Content(b)) : Content(b)[i] = t[i]
  BY ContentIsSeq
<1>2. Content(b) \in Seq(Bytes) /\ Len(Content(b)) = Len(t)
  BY ContentIsSeq
<1> QED BY <1>1, <1>2, SeqEqual, Zenon

\* A vector that has grown keeps what it had.
LEMMA ResizedIsSeq ==
    ASSUME NEW store \in Seq(Bytes), NEW n \in Nat, Len(store) <= n
    PROVE  /\ Resized(store, n) \in Seq(Bytes)
           /\ Len(Resized(store, n)) = n
           /\ \A i \in 1 .. Len(store) : Resized(store, n)[i] = store[i]
<1> DEFINE zeros == [i \in 1 .. n - Len(store) |-> 0]
<1>1. n - Len(store) \in Nat
  OBVIOUS
<1>2. zeros \in Seq(Bytes) /\ Len(zeros) = n - Len(store)
  BY <1>1, BufferAssumption
<1> HIDE DEF zeros
<1> QED BY <1>2 DEF Resized, zeros

----------------------------------------------------------------------------
\* Buffer.cc:122: when makeSpace moves the readable bytes there is room in
\* front of them, so the assertion cannot fail.
THEOREM MoveHasRoom ==
    ASSUME NEW b, IsBuffer(b), NEW len \in Nat, writableBytes(b) < len,
           ~MustGrow(b, len)
    PROVE  kCheapPrepend < b.readerIndex_
BY BufferAssumption
   DEF IsBuffer, writableBytes, MustGrow, prependableBytes

\* makeSpace keeps the readable bytes and leaves room for len more
\* (Buffer.cc:68), whether it grows the vector or moves the bytes.
THEOREM MakeSpaceKeepsContent ==
    ASSUME NEW b, IsBuffer(b), NEW len \in Nat, writableBytes(b) < len
    PROVE  /\ IsBuffer(makeSpace(b, len))
           /\ Content(makeSpace(b, len)) = Content(b)
           /\ writableBytes(makeSpace(b, len)) >= len
<1> DEFINE c == makeSpace(b, len)
<1> USE BufferAssumption
<1>1. CASE MustGrow(b, len)
  <2>1. b.writerIndex_ + len \in Nat /\ Len(b.store) <= b.writerIndex_ + len
    BY DEF IsBuffer, writableBytes
  <2>2. /\ c.store \in Seq(Bytes) /\ Len(c.store) = b.writerIndex_ + len
        /\ \A i \in 1 .. Len(b.store) : c.store[i] = b.store[i]
        /\ c.readerIndex_ = b.readerIndex_ /\ c.writerIndex_ = b.writerIndex_
        /\ c \in [store : Seq(Bytes), readerIndex_ : Nat, writerIndex_ : Nat]
    BY <1>1, <2>1, ResizedIsSeq DEF makeSpace, IsBuffer
  <2> HIDE DEF c
  <2>3. IsBuffer(c) /\ writableBytes(c) >= len
    BY <2>2 DEF IsBuffer, writableBytes
  <2>4. readableBytes(c) = readableBytes(b)
    BY <2>2 DEF readableBytes
  <2>5. \A i \in 1 .. readableBytes(b) :
           b.readerIndex_ + i \in 1 .. Len(b.store)
    BY BufferFacts DEF readableBytes
  <2>6. \A i \in 1 .. readableBytes(b) :
           c.store[c.readerIndex_ + i] = Content(b)[i]
    BY <2>2, <2>5, ContentIsSeq
  <2>7. Content(c) = Content(b)
    BY <2>3, <2>4, <2>6, ContentIsSeq, ContentByElements
  <2> QED BY <2>3, <2>7 DEF c
<1>2. CASE ~MustGrow(b, len)
  <2>1. kCheapPrepend < b.readerIndex_
    BY <1>2, MoveHasRoom
  <2>2. kCheapPrepend + Len(Content(b)) <= Len(b.store)
    BY <2>1, ContentIsSeq, BufferFacts DEF IsBuffer, readableBytes
  <2>3. /\ c.store \in Seq(Bytes) /\ Len(c.store) = Len(b.store)
        /\ \A i \in 1 .. readableBytes(b) :
              c.store[kCheapPrepend + i] = Content(b)[i]
        /\ c.readerIndex_ = kCheapPrepend
        /\ c.writerIndex_ = kCheapPrepend + readableBytes(b)
        /\ c \in [store : Seq(Bytes), readerIndex_ : Nat, writerIndex_ : Nat]
    <3>1. c = [store |-> Copied(b.store, Content(b), kCheapPrepend),
               readerIndex_ |-> kCheapPrepend,
               writerIndex_ |-> kCheapPrepend + readableBytes(b)]
      BY <1>2 DEF makeSpace
    <3>2. /\ Copied(b.store, Content(b), kCheapPrepend) \in Seq(Bytes)
          /\ Len(Copied(b.store, Content(b), kCheapPrepend)) = Len(b.store)
          /\ \A i \in 1 .. Len(b.store) :
                Copied(b.store, Content(b), kCheapPrepend)[i] =
                   IF /\ kCheapPrepend < i
                      /\ i <= kCheapPrepend + Len(Content(b))
                   THEN Content(b)[i - kCheapPrepend] ELSE b.store[i]
      BY <2>2, BufferFacts, ContentIsSeq, CopiedIsSeq
    <3>3. /\ Len(Content(b)) = readableBytes(b) /\ readableBytes(b) \in Nat
          /\ Len(b.store) \in Nat /\ kCheapPrepend \in Nat
      BY BufferFacts, ContentIsSeq
    <3>4. \A i \in 1 .. readableBytes(b) :
             Copied(b.store, Content(b), kCheapPrepend)[kCheapPrepend + i]
                = Content(b)[i]
      <4>1. TAKE i \in 1 .. readableBytes(b)
      <4>2. /\ kCheapPrepend + i \in 1 .. Len(b.store)
            /\ kCheapPrepend < kCheapPrepend + i
            /\ kCheapPrepend + i <= kCheapPrepend + Len(Content(b))
            /\ (kCheapPrepend + i) - kCheapPrepend = i
        BY <2>2, <3>3
      <4> QED BY <3>2, <4>2
    <3>5. kCheapPrepend + readableBytes(b) \in Nat
      BY <3>3
    <3> QED BY <3>1, <3>2, <3>3, <3>4, <3>5
  <2> HIDE DEF c
  <2>4. IsBuffer(c) /\ readableBytes(c) = readableBytes(b)
    BY <2>2, <2>3, ContentIsSeq, BufferFacts DEF IsBuffer, readableBytes
  <2>5. writableBytes(c) >= len
    BY <1>2, <2>3 DEF writableBytes, readableBytes, MustGrow,
                      prependableBytes, IsBuffer
  <2>6. Content(c) = Content(b)
    BY <2>3, <2>4, ContentIsSeq, ContentByElements
  <2> QED BY <2>4, <2>5, <2>6 DEF c
<1> QED BY <1>1, <1>2

\* Copying behind writerIndex_ what there is room for appends it.
LEMMA WrittenAppends ==
    ASSUME NEW b, IsBuffer(b), NEW s \in Seq(Bytes),
           Len(s) <= writableBytes(b)
    PROVE  /\ IsBuffer(Written(b, s))
           /\ Content(Written(b, s)) = Content(b) \o s
           /\ writableBytes(Written(b, s)) = writableBytes(b) - Len(s)
<1> DEFINE c == Written(b, s)
<1>1. b.writerIndex_ \in Nat /\ b.writerIndex_ + Len(s) <= Len(b.store)
  BY DEF IsBuffer, writableBytes
<1>2. /\ c.store \in Seq(Bytes) /\ Len(c.store) = Len(b.store)
      /\ \A i \in 1 .. Len(b.store) :
            c.store[i] = IF b.writerIndex_ < i /\ i <= b.writerIndex_ + Len(s)
                         THEN s[i - b.writerIndex_] ELSE b.store[i]
      /\ c.readerIndex_ = b.readerIndex_
      /\ c.writerIndex_ = b.writerIndex_ + Len(s)
      /\ c \in [store : Seq(Bytes), readerIndex_ : Nat, writerIndex_ : Nat]
  <2>1. /\ Copied(b.store, s, b.writerIndex_) \in Seq(Bytes)
        /\ Len(Copied(b.store, s, b.writerIndex_)) = Len(b.store)
        /\ \A i \in 1 .. Len(b.store) :
              Copied(b.store, s, b.writerIndex_)[i] =
                 IF b.writerIndex_ < i /\ i <= b.writerIndex_ + Len(s)
                 THEN s[i - b.writerIndex_] ELSE b.store[i]
    BY <1>1, BufferFacts, CopiedIsSeq
  <2>2. b.readerIndex_ \in Nat /\ b.writerIndex_ + Len(s) \in Nat
    BY <1>1, BufferFacts
  <2>3. b \in [store : Seq(Bytes), readerIndex_ : Nat, writerIndex_ : Nat]
    BY DEF IsBuffer
  <2>4. /\ c.store = Copied(b.store, s, b.writerIndex_)
        /\ c.readerIndex_ = b.readerIndex_
        /\ c.writerIndex_ = b.writerIndex_ + Len(s)
    BY <2>3 DEF Written
  <2>5. c \in [store : Seq(Bytes), readerIndex_ : Nat, writerIndex_ : Nat]
    BY <2>1, <2>2, <2>3 DEF Written
  <2> QED BY <2>1, <2>4, <2>5
<1> HIDE DEF c
<1>3. IsBuffer(c) /\ readableBytes(c) = readableBytes(b) + Len(s)
      /\ writableBytes(c) = writableBytes(b) - Len(s)
  BY <1>1, <1>2 DEF IsBuffer, readableBytes, writableBytes
<1>4. ASSUME NEW i \in 1 .. readableBytes(b) + Len(s)
      PROVE  c.store[c.readerIndex_ + i] = (Content(b) \o s)[i]
  <2> DEFINE j == b.readerIndex_ + i
  <2>1. /\ i \in Nat /\ Len(s) \in Nat /\ j \in 1 .. Len(b.store)
        /\ j - b.writerIndex_ = i - readableBytes(b)
        /\ (b.writerIndex_ < j) = (readableBytes(b) < i)
        /\ j <= b.writerIndex_ + Len(s)
        /\ readableBytes(b) \in Nat
    BY <1>1, BufferFacts DEF readableBytes
  <2>2. c.store[j] = IF readableBytes(b) < i THEN s[i - readableBytes(b)]
                     ELSE b.store[j]
    BY <1>2, <2>1
  <2>3. (Content(b) \o s)[i] = IF i <= readableBytes(b) THEN Content(b)[i]
                               ELSE s[i - readableBytes(b)]
    BY ContentIsSeq
  <2>4. i <= readableBytes(b) => b.store[j] = Content(b)[i]
    BY <2>1, ContentIsSeq
  <2>5. (readableBytes(b) < i) = ~(i <= readableBytes(b))
    BY <2>1
  <2>6. c.store[j] = (Content(b) \o s)[i]
    BY <2>2, <2>3, <2>4, <2>5
  <2> QED BY <1>2, <2>6
<1>5. Content(c) = Content(b) \o s
  <2>1. /\ Content(b) \o s \in Seq(Bytes)
        /\ Len(Content(b) \o s) = readableBytes(c)
    <3>1. Content(b) \in Seq(Bytes) /\ Len(Content(b)) = readableBytes(b)
      BY ContentIsSeq
    <3> HIDE DEF c
    <3> QED BY <1>3, <3>1
  <2>2. \A i \in 1 .. readableBytes(c) :
           c.store[c.readerIndex_ + i] = (Content(b) \o s)[i]
    BY <1>3, <1>4
  <2> QED BY <1>3, <2>1, <2>2, ContentByElements
<1> QED BY <1>3, <1>5 DEF c

\* append adds exactly the bytes given, behind the readable ones, and keeps
\* the indices in order.
THEOREM AppendAppends ==
    ASSUME NEW b, IsBuffer(b), NEW s \in Seq(Bytes)
    PROVE  /\ IsBuffer(append(b, s))
           /\ Content(append(b, s)) = Content(b) \o s
<1> DEFINE e == ensureWritableBytes(b, Len(s))
<1>1. /\ IsBuffer(e) /\ Content(e) = Content(b) /\ writableBytes(e) >= Len(s)
  <2>1. CASE writableBytes(b) < Len(s)
    BY <2>1, MakeSpaceKeepsContent DEF ensureWritableBytes
  <2>2. CASE ~(writableBytes(b) < Len(s))
    BY <2>2 DEF ensureWritableBytes, writableBytes, IsBuffer
  <2> QED BY <2>1, <2>2
<1>2. Len(s) <= writableBytes(e)
  BY <1>1 DEF writableBytes, IsBuffer
<1> QED BY <1>1, <1>2, WrittenAppends DEF append

\* readFd adds exactly the bytes that readv returned, in order, whether or
\* not they spilled into the second piece.
THEOREM ReadFdAppends ==
    ASSUME NEW b, IsBuffer(b), NEW s \in Seq(Bytes)
    PROVE  /\ IsBuffer(readFd(b, s))
           /\ Content(readFd(b, s)) = Content(b) \o s
<1> DEFINE w == writableBytes(b)
           first == SubSeq(s, 1, w)
           rest == SubSeq(s, w + 1, Len(s))
<1>1. w \in Nat
  BY DEF writableBytes, IsBuffer
<1>2. CASE Len(s) <= w
  BY <1>2, WrittenAppends DEF readFd
<1>3. CASE ~(Len(s) <= w)
  <2>1. /\ first \in Seq(Bytes) /\ Len(first) = w
        /\ rest \in Seq(Bytes) /\ first \o rest = s
    <3>1. /\ first \in Seq(Bytes) /\ Len(first) = w
          /\ rest \in Seq(Bytes)
      BY <1>1, <1>3
    <3>2. /\ 1 \in 1 .. Len(s) + 1 /\ w \in 1 - 1 .. Len(s)
          /\ Len(s) \in w .. Len(s)
      BY <1>1, <1>3
    <3>3. SubSeq(s, 1, w) \o SubSeq(s, w + 1, Len(s)) = SubSeq(s, 1, Len(s))
      BY <3>2, ConcatAdjacentSubSeq, Zenon
    <3>4. SubSeq(s, 1, Len(s)) = s
      OBVIOUS
    <3> QED BY <3>1, <3>3, <3>4
  <2> HIDE DEF first, rest
  <2>2. /\ IsBuffer(Written(b, first))
        /\ Content(Written(b, first)) = Content(b) \o first
    BY <2>1, WrittenAppends, <1>1
  <2>3. /\ IsBuffer(append(Written(b, first), rest))
        /\ Content(append(Written(b, first), rest))
              = (Content(b) \o first) \o rest
    BY <2>1, <2>2, AppendAppends
  <2>4. (Content(b) \o first) \o rest = Content(b) \o (first \o rest)
    <3>1. Content(b) \in Seq(Bytes)
      BY ContentIsSeq
    <3> QED BY <2>1, <3>1, Associative
  <2>5. readFd(b, s) = append(Written(b, first), rest)
    BY <1>3 DEF readFd, first, rest
  <2>6. Content(readFd(b, s)) = Content(b) \o s
    BY <2>1, <2>3, <2>4, <2>5, Zenon
  <2> QED BY <2>3, <2>5, <2>6
<1> QED BY <1>2, <1>3

\* retrieve removes the first len readable bytes.
THEOREM RetrieveDrops ==
    ASSUME NEW b, IsBuffer(b), NEW len \in 0 .. readableBytes(b)
    PROVE  /\ IsBuffer(retrieve(b, len))
           /\ Content(retrieve(b, len))
                 = SubSeq(Content(b), len + 1, readableBytes(b))
<1> DEFINE c == retrieve(b, len)
<1>1. /\ c.store = b.store /\ c.readerIndex_ = b.readerIndex_ + len
      /\ c.writerIndex_ = b.writerIndex_
      /\ c \in [store : Seq(Bytes), readerIndex_ : Nat, writerIndex_ : Nat]
  BY ContentIsSeq DEF retrieve, IsBuffer
<1> HIDE DEF c
<1>2. IsBuffer(c) /\ readableBytes(c) = readableBytes(b) - len
  BY <1>1, ContentIsSeq, BufferFacts DEF IsBuffer, readableBytes
<1>3. Content(c) = SubSeq(Content(b), len + 1, readableBytes(b))
  <2> DEFINE t == SubSeq(Content(b), len + 1, readableBytes(b))
  <2>1. /\ t \in Seq(Bytes) /\ Len(t) = readableBytes(b) - len
        /\ \A i \in 1 .. readableBytes(b) - len : t[i] = Content(b)[len + i]
    BY ContentIsSeq
  <2> HIDE DEF t
  <2>2. ASSUME NEW i \in 1 .. readableBytes(b) - len
        PROVE  c.store[c.readerIndex_ + i] = Content(b)[len + i]
    <3>1. /\ len + i \in 1 .. readableBytes(b)
          /\ c.readerIndex_ + i = b.readerIndex_ + (len + i)
      <4>1. /\ len \in Nat /\ i \in Nat /\ b.readerIndex_ \in Nat
            /\ readableBytes(b) \in Nat
        BY BufferFacts, ContentIsSeq
      <4>2. c.readerIndex_ = b.readerIndex_ + len
        BY <1>1
      <4> QED BY <4>1, <4>2
    <3>2. Content(b)[len + i] = b.store[b.readerIndex_ + (len + i)]
      BY <3>1, ContentIsSeq
    <3> QED BY <1>1, <3>1, <3>2
  <2>3. Content(c) = t
    BY <1>2, <2>1, <2>2, ContentByElements
  <2> QED BY <2>3 DEF t
<1> QED BY <1>2, <1>3 DEF c

----------------------------------------------------------------------------
(***************************************************************************)
(* ThreadPool.                                                             *)
(***************************************************************************)
\* Every variable keeps its type.
THEOREM PoolTypeCorrect == PoolSpec => []PoolTypeOK
<1>1. PoolInit => PoolTypeOK
  <2>1. <<>> \in Seq(Tasks)
    OBVIOUS
  <2> QED BY <2>1, Zenon DEF PoolInit, PoolTypeOK, WorkerLocations
<1>2. PoolTypeOK /\ [PoolNext]_poolVars => PoolTypeOK'
  <2> SUFFICES ASSUME PoolTypeOK, [PoolNext]_poolVars PROVE PoolTypeOK'
    OBVIOUS
  <2> USE DEF PoolTypeOK, WorkerLocations
  <2>1. ASSUME NEW p \in Workers \cup Callers, notify_one(p) PROVE PoolTypeOK'
    BY <2>1 DEF notify_one, At
  <2>2. ASSUME NEW w \in Workers, Take(w) PROVE PoolTypeOK'
    <3>1. works' \in Seq(Tasks) /\ started' \in Seq(Tasks)
      BY <2>2 DEF Take
    <3> QED BY <2>2, <3>1 DEF Take
  <2>3. ASSUME NEW w \in Workers,
               TaskReturns(w) \/ Wait(w) \/ Exit(w) \/ WakeSpuriously(w)
        PROVE  PoolTypeOK'
    BY <2>3 DEF TaskReturns, Wait, Exit, WakeSpuriously
  <2>4. ASSUME NEW w \in Workers, NEW t \in Tasks, TaskEnqueue(w, t)
        PROVE  PoolTypeOK'
    BY <2>4 DEF TaskEnqueue, Push
  <2>5. ASSUME NEW p \in Callers, NEW t \in Tasks, CallerEnqueue(p, t)
        PROVE  PoolTypeOK'
    BY <2>5 DEF CallerEnqueue, Push
  <2>6. CASE Destroy
    BY <2>6 DEF Destroy
  <2>7. CASE notify_all
    BY <2>7 DEF notify_all
  <2>8. CASE Join
    BY <2>8 DEF Join
  <2>9. CASE UNCHANGED poolVars
    BY <2>9 DEF poolVars
  <2> QED BY <2>1, <2>2, <2>3, <2>4, <2>5, <2>6, <2>7, <2>8, <2>9
          DEF PoolNext, WorkerStep
<1> QED BY <1>1, <1>2, PTL DEF PoolSpec

----------------------------------------------------------------------------
(***************************************************************************)
(* The destructor.                                                         *)
(***************************************************************************)

\* A worker leaves an empty queue only, and a queue is refilled only by a
\* caller before the destruction or by a worker that has not left.
PoolInv ==
    /\ owner = "uses" => runflag
    /\ runflag => \A w \in Workers : worker[w] # "exited"
    /\ works # <<>> => \E w \in Workers : worker[w] # "exited"
    /\ owner = "done" => \A w \in Workers : worker[w] = "exited"

\* Every step of workers, callers and the destructor keeps PoolInv.
LEMMA PoolInvStep == PoolTypeOK /\ PoolInv /\ [PoolNext]_poolVars => PoolInv'
<1> SUFFICES ASSUME PoolTypeOK, PoolInv, [PoolNext]_poolVars PROVE PoolInv'
  OBVIOUS
<1> USE ThreadsAssumption DEF PoolTypeOK, PoolInv
<1>1. ASSUME NEW p \in Workers \cup Callers, notify_one(p) PROVE PoolInv'
  BY <1>1 DEF notify_one, At
<1>2. ASSUME NEW w \in Workers, Take(w) PROVE PoolInv'
  BY <1>2 DEF Take
<1>3. ASSUME NEW w \in Workers, TaskReturns(w) \/ Wait(w) \/ WakeSpuriously(w)
      PROVE  PoolInv'
  BY <1>3 DEF TaskReturns, Wait, WakeSpuriously
<1>4. ASSUME NEW w \in Workers, Exit(w) PROVE PoolInv'
  BY <1>4 DEF Exit
<1>5. ASSUME NEW w \in Workers, NEW t \in Tasks, TaskEnqueue(w, t)
      PROVE  PoolInv'
  BY <1>5 DEF TaskEnqueue, Push
<1>6. ASSUME NEW p \in Callers, NEW t \in Tasks, CallerEnqueue(p, t)
      PROVE  PoolInv'
  BY <1>6 DEF CallerEnqueue, Push
<1>7. CASE Destroy
  BY <1>7 DEF Destroy
<1>8. CASE notify_all
  BY <1>8 DEF notify_all
<1>9. CASE Join
  BY <1>9 DEF Join
<1>10. CASE UNCHANGED poolVars
  BY <1>10 DEF poolVars
<1> QED BY <1>1, <1>2, <1>3, <1>4, <1>5, <1>6, <1>7, <1>8, <1>9, <1>10
        DEF PoolNext, WorkerStep

\* When the destructor returns no task is left, not even one that a task
\* enqueued while the pool was being destroyed.
THEOREM NothingLeft == PoolSpec => []DrainedWhenDone
<1>1. PoolInit => PoolInv
  BY DEF PoolInit, PoolInv
<1>2. PoolInv => DrainedWhenDone
  BY DEF PoolInv, DrainedWhenDone, At
<1> QED BY <1>1, <1>2, PoolInvStep, PoolTypeCorrect, PTL DEF PoolSpec

----------------------------------------------------------------------------
(***************************************************************************)
(* No lost wakeup.                                                         *)
(***************************************************************************)

\* The sets of threads that are counted are finite.
LEMMA FiniteThreads ==
    ASSUME PoolTypeOK
    PROVE  /\ IsFiniteSet(notifying) /\ Cardinality(notifying) \in Nat
           /\ \A l \in WorkerLocations : /\ IsFiniteSet(At(l))
                                   /\ Cardinality(At(l)) \in Nat
<1>1. IsFiniteSet(notifying)
  <2>1. IsFiniteSet(Workers \cup Callers)
    BY FS_Union, ThreadsAssumption
  <2> QED BY <2>1, FS_Subset DEF PoolTypeOK
<1>2. ASSUME NEW l \in WorkerLocations PROVE IsFiniteSet(At(l))
  <2>1. At(l) \in SUBSET Workers
    BY DEF At
  <2> QED BY <2>1, FS_Subset, ThreadsAssumption
<1> QED BY <1>1, <1>2, FS_CardinalityType

\* One worker more is on the way to the lock.
LEMMA OneMoreAtLock ==
    ASSUME PoolTypeOK, NEW w \in Workers, worker[w] # "lock",
           worker' = [worker EXCEPT ![w] = "lock"]
    PROVE  Cardinality(At("lock")') = Cardinality(At("lock")) + 1
<1>1. At("lock")' = At("lock") \cup {w} /\ w \notin At("lock")
  BY DEF PoolTypeOK, At
<1>2. IsFiniteSet(At("lock"))
  BY FiniteThreads DEF WorkerLocations
<1> QED BY <1>1, <1>2, FS_AddElement, Zenon

\* While a worker sleeps, no task waits in the queue without a worker on the
\* way to it or a notification to come, for any number of threads.
THEOREM NoLostWakeup == PoolSpec => []NoTaskBesideSleeper
<1>1. PoolInit => NoTaskBesideSleeper
  BY DEF PoolInit, NoTaskBesideSleeper, At
<1>2. PoolTypeOK /\ PoolTypeOK' /\ NoTaskBesideSleeper /\ [PoolNext]_poolVars
         => NoTaskBesideSleeper'
  <2> SUFFICES ASSUME PoolTypeOK, PoolTypeOK', NoTaskBesideSleeper, [PoolNext]_poolVars,
                      At("waiting")' # {}
               PROVE  Len(works') <= Cardinality(At("lock")')
                                       + Cardinality(notifying')
    BY DEF NoTaskBesideSleeper
  <2> DEFINE L == Cardinality(At("lock"))
             N == Cardinality(notifying)
  <2>0. /\ L \in Nat /\ N \in Nat /\ L' \in Nat /\ N' \in Nat
        /\ IsFiniteSet(notifying) /\ IsFiniteSet(At("lock"))
        /\ works \in Seq(Tasks) /\ works' \in Seq(Tasks)
    <3>1. L \in Nat /\ N \in Nat /\ IsFiniteSet(notifying)
          /\ IsFiniteSet(At("lock"))
      BY FiniteThreads DEF WorkerLocations
    <3>2. IsFiniteSet(notifying') /\ IsFiniteSet(At("lock")')
      <4>1. IsFiniteSet(Workers \cup Callers)
        BY FS_Union, ThreadsAssumption
      <4>2. At("lock")' \in SUBSET Workers /\ notifying' \in SUBSET (Workers \cup Callers)
        BY DEF At, PoolTypeOK
      <4> QED BY <4>1, <4>2, FS_Subset, ThreadsAssumption
    <3>3. L' \in Nat /\ N' \in Nat
      BY <3>2, FS_CardinalityType
    <3> QED BY <3>1, <3>3 DEF PoolTypeOK
  <2>1. ASSUME NEW p \in Workers \cup Callers, notify_one(p)
        PROVE  Len(works') <= L' + N'
    <3>1. notifying' = notifying \ {p} /\ p \in notifying /\ works' = works
      BY <2>1 DEF notify_one
    <3>2. N' = N - 1
      BY <2>0, <3>1, FS_RemoveElement, Zenon
    <3>3. PICK w \in At("waiting") : worker' = [worker EXCEPT ![w] = "lock"]
      BY <2>1 DEF notify_one, At
    <3>4. L' = L + 1
      BY <3>3, OneMoreAtLock DEF At
    <3>5. Len(works) <= L + N
      BY <3>3 DEF NoTaskBesideSleeper
    <3> QED BY <2>0, <3>1, <3>2, <3>4, <3>5
  <2>2. ASSUME NEW w \in Workers, Take(w)
        PROVE  Len(works') <= L' + N'
    <3>1. At("lock")' = At("lock") \ {w} /\ w \in At("lock")
          /\ At("waiting")' = At("waiting") /\ notifying' = notifying
      BY <2>2 DEF Take, At, PoolTypeOK
    <3>2. L' = L - 1
      BY <2>0, <3>1, FS_RemoveElement, Zenon
    <3>3. Len(works') = Len(works) - 1
      BY <2>0, <2>2 DEF Take
    <3>4. Len(works) <= L + N
      BY <3>1 DEF NoTaskBesideSleeper
    <3> QED BY <2>0, <3>1, <3>2, <3>3, <3>4
  <2>3. ASSUME NEW w \in Workers, TaskReturns(w) \/ WakeSpuriously(w)
        PROVE  Len(works') <= L' + N'
    <3>1. L' = L + 1
      BY <2>3, OneMoreAtLock DEF TaskReturns, WakeSpuriously
    <3>2. At("waiting") # {}
      BY <2>3 DEF TaskReturns, WakeSpuriously, At, PoolTypeOK
    <3>3. works' = works /\ notifying' = notifying
      BY <2>3 DEF TaskReturns, WakeSpuriously
    <3> QED BY <2>0, <3>1, <3>2, <3>3 DEF NoTaskBesideSleeper
  <2>4. ASSUME NEW w \in Workers, Wait(w) \/ Exit(w)
        PROVE  Len(works') <= L' + N'
    <3>1. Len(works') = 0
      BY <2>4 DEF Wait, Exit
    <3> QED BY <2>0, <3>1
  <2>5. ASSUME NEW p, NEW t \in Tasks, Push(p, t), worker' = worker
        PROVE  Len(works') <= L' + N'
    <3>1. N' = N + 1
      BY <2>0, <2>5, FS_AddElement, Zenon DEF Push
    <3>2. Len(works') = Len(works) + 1
      BY <2>0, <2>5 DEF Push
    <3>3. L' = L /\ At("waiting")' = At("waiting")
      BY <2>5 DEF At
    <3> QED BY <2>0, <3>1, <3>2, <3>3 DEF NoTaskBesideSleeper
  <2>6. CASE notify_all
    <3>1. At("waiting")' = {}
      BY <2>6 DEF notify_all, At, PoolTypeOK
    <3> QED BY <3>1
  <2>7. CASE UNCHANGED <<works, worker, notifying>>
    <3>1. L' = L /\ N' = N /\ works' = works /\ At("waiting")' = At("waiting")
      BY <2>7 DEF At
    <3> QED BY <3>1 DEF NoTaskBesideSleeper
  <2>8. CASE Destroy \/ Join \/ UNCHANGED poolVars
    BY <2>7, <2>8 DEF Destroy, Join, poolVars
  <2>9. CASE \/ \E w \in Workers, t \in Tasks : TaskEnqueue(w, t)
             \/ \E p \in Callers, t \in Tasks : CallerEnqueue(p, t)
    BY <2>5, <2>9 DEF TaskEnqueue, CallerEnqueue
  <2> QED BY <2>1, <2>2, <2>3, <2>4, <2>6, <2>8, <2>9 DEF PoolNext, WorkerStep
<1> QED BY <1>1, <1>2, PoolTypeCorrect, PTL DEF PoolSpec

----------------------------------------------------------------------------
\* The pool implements a plain queue: tasks start in the order in which they
\* were enqueued, each at most once.
THEOREM PoolImplementsTaskQueue == PoolSpec => PoolOrder!Spec
<1>1. PoolInit => PoolOrder!Init
  BY DEF PoolInit, PoolOrder!Init
<1>2. PoolTypeOK /\ [PoolNext]_poolVars => [PoolOrder!Next]_(PoolOrder!vars)
  <2> SUFFICES ASSUME PoolTypeOK, [PoolNext]_poolVars PROVE [PoolOrder!Next]_(PoolOrder!vars)
    OBVIOUS
  <2>1. ASSUME NEW w \in Workers, Take(w) PROVE PoolOrder!Start
    BY <2>1 DEF Take, PoolOrder!Start
  <2>2. ASSUME NEW p, NEW t \in Tasks, Push(p, t), started' = started
        PROVE  PoolOrder!Put(t)
    BY <2>2 DEF Push, PoolOrder!Put, PoolOrder!Elements, TasksIn
  <2>3. CASE \/ \E w \in Workers, t \in Tasks : TaskEnqueue(w, t)
             \/ \E p \in Callers, t \in Tasks : CallerEnqueue(p, t)
    BY <2>2, <2>3 DEF TaskEnqueue, CallerEnqueue, PoolOrder!Next
  <2>4. CASE UNCHANGED <<works, started>>
    BY <2>4 DEF PoolOrder!vars
  <2>5. ASSUME NEW p \in Workers \cup Callers, notify_one(p)
        PROVE  UNCHANGED <<works, started>>
    BY <2>5 DEF notify_one
  <2>6. ASSUME NEW w \in Workers,
               TaskReturns(w) \/ Wait(w) \/ Exit(w) \/ WakeSpuriously(w)
        PROVE  UNCHANGED <<works, started>>
    BY <2>6 DEF TaskReturns, Wait, Exit, WakeSpuriously
  <2>7. CASE Destroy \/ notify_all \/ Join \/ UNCHANGED poolVars
    BY <2>4, <2>7 DEF Destroy, notify_all, Join, poolVars
  <2> QED BY <2>1, <2>3, <2>4, <2>5, <2>6, <2>7
          DEF PoolNext, WorkerStep, PoolOrder!Next
<1> QED BY <1>1, <1>2, PoolTypeCorrect, PTL DEF PoolSpec, PoolOrder!Spec

----------------------------------------------------------------------------
(***************************************************************************)
(* Stream.  Its functions are recursive over numbers, so first induction.  *)
(***************************************************************************)
\* Induction: a set of numbers with 0 and each successor has all of them.  If
\* m is missing, adding 1 maps the members below m into those other than 0,
\* which are one fewer.
LEMMA Induction ==
    ASSUME NEW I, 0 \in I, \A n \in Nat : n \in I => n + 1 \in I
    PROVE  \A n \in Nat : n \in I
<1> SUFFICES ASSUME NEW m \in Nat, m \notin I PROVE FALSE
  OBVIOUS
<1> DEFINE B == {n \in 0 .. m : n \in I}
           next == [n \in B |-> n + 1]
<1>1. IsFiniteSet(B) /\ 0 \in B
  <2>1. IsFiniteSet(0 .. m)
    BY FS_Interval
  <2>2. B \in SUBSET (0 .. m)
    OBVIOUS
  <2> QED BY <2>1, <2>2, FS_Subset
<1>2. IsFiniteSet(B \ {0}) /\ Cardinality(B \ {0}) = Cardinality(B) - 1
      /\ Cardinality(B) \in Nat
  BY <1>1, FS_RemoveElement, FS_CardinalityType
<1>3. next \in [B -> B \ {0}]
  <2>1. ASSUME NEW n \in B PROVE n + 1 \in B \ {0}
    BY <2>1
  <2> QED BY <2>1
<1>4. next \in Injection(B, B \ {0})
  BY <1>3 DEF Injection, IsInjective
<1>5. Cardinality(B) <= Cardinality(B \ {0})
  BY <1>2, <1>4, FS_Injection
<1> QED BY <1>2, <1>5

----------------------------------------------------------------------------
\* The equation of Power, up to n.
IsPower(f, n) == \A i \in 0 .. n : f[i] = IF i = 0 THEN 1 ELSE Base * f[i - 1]

LEMMA PowersAgree ==
    ASSUME NEW m \in Nat, NEW n \in Nat, NEW f, NEW g, IsPower(f, m), IsPower(g, n)
    PROVE  \A i \in Nat : i <= m /\ i <= n => f[i] = g[i]
<1> DEFINE I == {i \in Nat : i <= m /\ i <= n => f[i] = g[i]}
<1>1. 0 \in I
  BY DEF IsPower
<1>2. ASSUME NEW i \in Nat, i \in I PROVE i + 1 \in I
  <2> SUFFICES ASSUME i + 1 <= m, i + 1 <= n PROVE f[i + 1] = g[i + 1]
    OBVIOUS
  <2>1. i + 1 \in 0 .. m /\ i + 1 \in 0 .. n /\ i + 1 # 0 /\ (i + 1) - 1 = i
    OBVIOUS
  <2>2. f[i + 1] = Base * f[i] /\ g[i + 1] = Base * g[i]
    BY <2>1 DEF IsPower
  <2>3. f[i] = g[i]
    BY <1>2
  <2> QED BY <2>2, <2>3
<1> HIDE DEF I
<1>3. \A i \in Nat : i \in I
  BY <1>1, <1>2, Induction
<1> QED BY <1>3 DEF I

LEMMA PowersExist == \A n \in Nat : \E f \in [Nat -> Nat] : IsPower(f, n)
<1> DEFINE I == {n \in Nat : \E f \in [Nat -> Nat] : IsPower(f, n)}
<1>1. 0 \in I
  <2>1. [i \in Nat |-> 1] \in [Nat -> Nat] /\ IsPower([i \in Nat |-> 1], 0)
    BY DEF IsPower
  <2> QED BY <2>1
<1>2. ASSUME NEW n \in Nat, n \in I PROVE n + 1 \in I
  <2>1. PICK f \in [Nat -> Nat] : IsPower(f, n)
    BY <1>2
  <2> DEFINE g == [f EXCEPT ![n + 1] = Base * f[n]]
  <2>2. g \in [Nat -> Nat]
    BY StreamAssumption
  <2>3. \A i \in 0 .. n : g[i] = f[i]
    OBVIOUS
  <2>4. g[n + 1] = Base * g[n]
    OBVIOUS
  <2> HIDE DEF g
  <2>5. IsPower(g, n + 1)
    <3> SUFFICES ASSUME NEW i \in 0 .. n + 1
                 PROVE  g[i] = IF i = 0 THEN 1 ELSE Base * g[i - 1]
      BY DEF IsPower
    <3>1. CASE i = n + 1
      BY <2>4, <3>1
    <3>2. CASE i # n + 1
      <4>1. i \in 0 .. n /\ (i # 0 => i - 1 \in 0 .. n)
        BY <3>2
      <4>2. f[i] = IF i = 0 THEN 1 ELSE Base * f[i - 1]
        BY <2>1, <4>1 DEF IsPower
      <4> QED BY <2>3, <4>1, <4>2
    <3> QED BY <3>1, <3>2
  <2> QED BY <2>2, <2>5
<1> HIDE DEF I
<1>3. \A n \in Nat : n \in I
  BY <1>1, <1>2, Induction
<1> QED BY <1>3 DEF I

\* The values of the digits of a header.
LEMMA PowerFacts ==
    /\ Power[0] = 1
    /\ \A i \in Nat : /\ Power[i + 1] = Base * Power[i]
                      /\ Power[i] \in Nat \ {0}
<1> DEFINE step(f) == [i \in Nat |-> IF i = 0 THEN 1 ELSE Base * f[i - 1]]
           upTo(n) == CHOOSE f : f \in [Nat -> Nat] /\ IsPower(f, n)
           p == [n \in Nat |-> upTo(n)[n]]
<1>1. \A n \in Nat : upTo(n) \in [Nat -> Nat] /\ IsPower(upTo(n), n)
  BY PowersExist
<1> HIDE DEF upTo
<1>2. p \in [Nat -> Nat]
  BY <1>1
<1>3. p = step(p)
  <2> SUFFICES ASSUME NEW i \in Nat PROVE p[i] = IF i = 0 THEN 1 ELSE Base * p[i - 1]
    BY Zenon
  <2>1. upTo(i)[i] = IF i = 0 THEN 1 ELSE Base * upTo(i)[i - 1]
    BY <1>1 DEF IsPower
  <2>2. CASE i = 0
    BY <2>1, <2>2
  <2>3. CASE i # 0
    <3>1. i - 1 \in Nat /\ i - 1 <= i
      BY <2>3
    <3>2. upTo(i)[i - 1] = upTo(i - 1)[i - 1]
      BY <1>1, <3>1, PowersAgree
    <3> QED BY <2>1, <2>3, <3>1, <3>2
  <2> QED BY <2>2, <2>3
<1> HIDE DEF p
<1>4. Power = step(Power)
  <2>1. Power = CHOOSE f : f = step(f)
    BY DEF Power
  <2> HIDE DEF step
  <2> QED BY <1>3, <2>1
<1>5. \A i \in Nat : Power[i] = IF i = 0 THEN 1 ELSE Base * Power[i - 1]
  BY <1>4, Zenon
<1> HIDE DEF step
<1>6. \A i \in Nat : Power[i + 1] = Base * Power[i]
  <2> SUFFICES ASSUME NEW i \in Nat PROVE Power[i + 1] = Base * Power[i]
    OBVIOUS
  <2>1. i + 1 \in Nat /\ i + 1 # 0 /\ (i + 1) - 1 = i
    OBVIOUS
  <2> QED BY <1>5, <2>1
<1> DEFINE I == {i \in Nat : Power[i] \in Nat \ {0}}
<1>7. 0 \in I
  BY <1>5
<1>8. ASSUME NEW i \in Nat, i \in I PROVE i + 1 \in I
  <2>1. Power[i] \in Nat /\ Power[i] > 0 /\ Base \in Nat /\ Base > 1
    BY <1>8, StreamAssumption
  <2>2. Base * Power[i] \in Nat /\ Base * Power[i] > 0
    BY <2>1
  <2> QED BY <1>6, <2>2
<1> HIDE DEF I
<1>9. \A i \in Nat : i \in I
  BY <1>7, <1>8, Induction
<1> QED BY <1>5, <1>6, <1>9 DEF I

----------------------------------------------------------------------------
\* The quotient by a product.
LEMMA Quotients ==
    ASSUME NEW n \in Nat, NEW d \in Nat \ {0}, NEW b \in Nat \ {0}
    PROVE  /\ n \div (b * d) = (n \div d) \div b
           /\ n \div d \in Nat
           /\ n \div d = (b * ((n \div d) \div b)) + ((n \div d) % b)
<1> DEFINE q == n \div d
           r == n % d
           u == q \div b
           v == q % b
<1>1. q \in Nat /\ r \in 0 .. d - 1 /\ n = d * q + r
  OBVIOUS
<1> HIDE DEF q, r
<1>2. u \in Nat /\ v \in 0 .. b - 1 /\ q = b * u + v
  BY <1>1
<1> HIDE DEF u, v
<1> DEFINE e == b * d
           w == d * v + r
<1>3. n = e * u + w
  <2>1. d * (b * u + v) = (b * d) * u + d * v
    BY <1>1, <1>2
  <2> QED BY <1>1, <1>2, <2>1
<1>4. e \in Nat /\ w \in Nat /\ w < e
  <2>1. d * v \in Nat /\ d * v <= d * (b - 1)
    <3>1. d \in Nat /\ v \in Nat /\ b - 1 \in Nat /\ v <= b - 1
      BY <1>2
    <3> HIDE DEF w, e
    <3> QED BY <3>1, SMTT(30)
  <2>2. d * (b - 1) = b * d - d
    OBVIOUS
  <2> QED BY <1>1, <2>1, <2>2
<1> HIDE DEF e, w
<1>5. n \div e = u
  BY <1>2, <1>3, <1>4
<1> QED BY <1>1, <1>2, <1>5 DEF e, q, u, v

\* The equation of a number's first digits, for i digits.
IsValue(v, s, n) == \A i \in 0 .. n : v[i] = IF i = 0 THEN 0 ELSE Base * v[i - 1] + s[i]

\* The bytes a header is read from.
Digits(s) == s \in Seq(Bytes) /\ Len(s) >= HeaderSize

LEMMA DigitsAreNumbers ==
    ASSUME NEW s, Digits(s), NEW i \in 1 .. HeaderSize
    PROVE  s[i] \in Nat
<1>1. i \in 1 .. Len(s)
  BY StreamAssumption DEF Digits
<1> QED BY <1>1, StreamAssumption DEF Digits

LEMMA ValuesExist ==
    ASSUME NEW s, Digits(s)
    PROVE  \E v \in [0 .. HeaderSize -> Nat] : IsValue(v, s, HeaderSize)
<1> DEFINE P(n) == \E v \in [0 .. HeaderSize -> Nat] : IsValue(v, s, n)
           I == {n \in Nat : n <= HeaderSize => P(n)}
<1>1. 0 \in I
  <2>1. [i \in 0 .. HeaderSize |-> 0] \in [0 .. HeaderSize -> Nat]
        /\ IsValue([i \in 0 .. HeaderSize |-> 0], s, 0)
    BY StreamAssumption DEF IsValue
  <2> QED BY <2>1
<1>2. ASSUME NEW n \in Nat, n \in I PROVE n + 1 \in I
  <2> SUFFICES ASSUME n + 1 <= HeaderSize PROVE P(n + 1)
    OBVIOUS
  <2>0. HeaderSize \in Nat /\ n + 1 \in 1 .. HeaderSize /\ n \in 0 .. HeaderSize
    BY StreamAssumption
  <2>1. PICK f \in [0 .. HeaderSize -> Nat] : IsValue(f, s, n)
    BY <1>2, <2>0
  <2> DEFINE g == [f EXCEPT ![n + 1] = Base * f[n] + s[n + 1]]
  <2>2. g \in [0 .. HeaderSize -> Nat]
    <3>1. f[n] \in Nat /\ s[n + 1] \in Nat
      BY <2>0, DigitsAreNumbers
    <3>2. Base \in Nat
      BY StreamAssumption
    <3>3. Base * f[n] \in Nat
      BY <3>1, <3>2
    <3>4. Base * f[n] + s[n + 1] \in Nat
      BY <3>1, <3>3
    <3> QED BY <3>4
  <2>3. \A i \in 0 .. n : g[i] = f[i]
    BY <2>0
  <2>4. g[n + 1] = Base * g[n] + s[n + 1]
    BY <2>0
  <2> HIDE DEF g
  <2>5. IsValue(g, s, n + 1)
    <3> SUFFICES ASSUME NEW i \in 0 .. n + 1
                 PROVE  g[i] = IF i = 0 THEN 0 ELSE Base * g[i - 1] + s[i]
      BY DEF IsValue
    <3>1. CASE i = n + 1
      BY <2>4, <3>1
    <3>2. CASE i # n + 1
      <4>1. i \in 0 .. n /\ (i # 0 => i - 1 \in 0 .. n)
        BY <3>2
      <4>2. f[i] = IF i = 0 THEN 0 ELSE Base * f[i - 1] + s[i]
        BY <2>1, <4>1 DEF IsValue
      <4> QED BY <2>3, <4>1, <4>2
    <3> QED BY <3>1, <3>2
  <2> QED BY <2>2, <2>5
<1> HIDE DEF I
<1>3. \A n \in Nat : n \in I
  BY <1>1, <1>2, Induction
<1>4. HeaderSize \in Nat /\ HeaderSize \in I
  BY <1>3, StreamAssumption
<1>5. P(HeaderSize)
  BY <1>4 DEF I
<1> QED BY <1>5

\* Length reads the value of the header's digits.
LEMMA LengthOf ==
    ASSUME NEW s, Digits(s)
    PROVE  \E v : /\ IsValue(v, s, HeaderSize)
                  /\ Length(s) = IF 2 * v[HeaderSize] < Power[HeaderSize]
                                 THEN v[HeaderSize]
                                 ELSE v[HeaderSize] - Power[HeaderSize]
<1> DEFINE step(f) == [i \in 0 .. HeaderSize |-> IF i = 0 THEN 0 ELSE Base * f[i - 1] + s[i]]
           value == CHOOSE f : f = step(f)
<1>1. Length(s) = IF 2 * value[HeaderSize] < Power[HeaderSize]
                  THEN value[HeaderSize] ELSE value[HeaderSize] - Power[HeaderSize]
  BY DEF Length
<1>2. PICK v \in [0 .. HeaderSize -> Nat] : IsValue(v, s, HeaderSize)
  BY ValuesExist
<1>3. v = step(v)
  BY <1>2, Zenon DEF IsValue
<1>4. value = step(value)
  <2> HIDE DEF step
  <2> QED BY <1>3
<1> HIDE DEF value
<1>5. \A i \in 0 .. HeaderSize : value[i] = IF i = 0 THEN 0 ELSE Base * value[i - 1] + s[i]
  BY <1>4, Zenon
<1>6. IsValue(value, s, HeaderSize)
  BY <1>5 DEF IsValue
<1> QED BY <1>1, <1>6

LEMMA ValueIsNumber ==
    ASSUME NEW s, Digits(s), NEW v, IsValue(v, s, HeaderSize)
    PROVE  v[HeaderSize] \in Nat
<1> DEFINE I == {n \in Nat : n <= HeaderSize => v[n] \in Nat}
<1>1. 0 \in I
  BY StreamAssumption DEF IsValue
<1>2. ASSUME NEW n \in Nat, n \in I PROVE n + 1 \in I
  <2> SUFFICES ASSUME n + 1 <= HeaderSize PROVE v[n + 1] \in Nat
    OBVIOUS
  <2>1. /\ HeaderSize \in Nat /\ n + 1 \in 1 .. HeaderSize /\ n + 1 \in 0 .. HeaderSize
        /\ n <= HeaderSize /\ n + 1 # 0 /\ (n + 1) - 1 = n
    BY StreamAssumption
  <2>2. v[n] \in Nat /\ s[n + 1] \in Nat
    BY <1>2, <2>1, DigitsAreNumbers
  <2>3. v[n + 1] = Base * v[n] + s[n + 1]
    BY <2>1 DEF IsValue
  <2>4. Base * v[n] \in Nat
    BY <2>2, StreamAssumption
  <2> QED BY <2>2, <2>3, <2>4
<1> HIDE DEF I
<1>3. \A n \in Nat : n \in I
  BY <1>1, <1>2, Induction
<1>4. HeaderSize \in Nat /\ HeaderSize \in I
  BY <1>3, StreamAssumption
<1> QED BY <1>4 DEF I

LEMMA LengthIsNumber ==
    ASSUME NEW s, Digits(s)
    PROVE  Length(s) \in Int
<1>1. PICK v : /\ IsValue(v, s, HeaderSize)
               /\ Length(s) = IF 2 * v[HeaderSize] < Power[HeaderSize]
                              THEN v[HeaderSize]
                              ELSE v[HeaderSize] - Power[HeaderSize]
  BY LengthOf
<1>2. v[HeaderSize] \in Nat
  BY <1>1, ValueIsNumber
<1>3. Power[HeaderSize] \in Nat
  BY PowerFacts, StreamAssumption
<1> QED BY <1>1, <1>2, <1>3

LEMMA HeaderIsSeq ==
    ASSUME NEW n \in Nat
    PROVE  /\ Header(n) \in Seq(Bytes) /\ Len(Header(n)) = HeaderSize
           /\ \A i \in 1 .. HeaderSize :
                 Header(n)[i] = (n \div Power[HeaderSize - i]) % Base
<1>1. HeaderSize \in Nat /\ Base \in Nat \ {0} /\ Bytes = 0 .. Base - 1
  BY StreamAssumption
<1>2. ASSUME NEW i \in 1 .. HeaderSize
      PROVE  (n \div Power[HeaderSize - i]) % Base \in Bytes
  <2>1. HeaderSize - i \in Nat
    BY <1>1
  <2>2. Power[HeaderSize - i] \in Nat \ {0}
    BY <2>1, PowerFacts
  <2>3. n \div Power[HeaderSize - i] \in Nat
    BY <2>2
  <2> QED BY <1>1, <2>3
<1>3. Header(n) = [i \in 1 .. HeaderSize |-> (n \div Power[HeaderSize - i]) % Base]
  BY DEF Header
<1>4. Header(n) \in [1 .. HeaderSize -> Bytes]
  BY <1>2, <1>3
<1> QED BY <1>1, <1>3, <1>4

\* The length that is read from a header is the one that was written.
LEMMA LengthOfHeader ==
    ASSUME NEW s, Digits(s), NEW n \in Nat, 2 * n < Power[HeaderSize],
           \A i \in 1 .. HeaderSize : s[i] = Header(n)[i]
    PROVE  Length(s) = n
<1>1. PICK v : /\ IsValue(v, s, HeaderSize)
               /\ Length(s) = IF 2 * v[HeaderSize] < Power[HeaderSize]
                              THEN v[HeaderSize]
                              ELSE v[HeaderSize] - Power[HeaderSize]
  BY LengthOf
<1> DEFINE I == {i \in Nat : i <= HeaderSize => v[i] = n \div Power[HeaderSize - i]}
<1>2. HeaderSize \in Nat /\ Base \in Nat \ {0}
  BY StreamAssumption
<1>3. 0 \in I
  <2>1. Power[HeaderSize] \in Nat \ {0} /\ n < Power[HeaderSize]
    BY <1>2, PowerFacts
  <2>2. n \div Power[HeaderSize] = 0
    BY <2>1
  <2>3. v[0] = 0 /\ HeaderSize - 0 = HeaderSize
    BY <1>1, <1>2 DEF IsValue
  <2> QED BY <2>2, <2>3
<1>4. ASSUME NEW i \in Nat, i \in I PROVE i + 1 \in I
  <2> SUFFICES ASSUME i + 1 <= HeaderSize PROVE v[i + 1] = n \div Power[HeaderSize - (i + 1)]
    OBVIOUS
  <2> DEFINE d == Power[HeaderSize - (i + 1)]
  <2>1. /\ i + 1 \in 1 .. HeaderSize /\ i + 1 \in 0 .. HeaderSize /\ i <= HeaderSize
        /\ i + 1 # 0 /\ (i + 1) - 1 = i /\ HeaderSize - (i + 1) \in Nat
        /\ (HeaderSize - (i + 1)) + 1 = HeaderSize - i
    BY <1>2
  <2>2. d \in Nat \ {0} /\ Power[HeaderSize - i] = Base * d
    BY <2>1, PowerFacts
  <2>3. v[i + 1] = Base * v[i] + s[i + 1]
    BY <1>1, <2>1 DEF IsValue
  <2>4. v[i] = n \div (Base * d)
    BY <1>4, <2>1, <2>2
  <2>5. s[i + 1] = (n \div d) % Base
    BY <2>1, HeaderIsSeq
  <2> HIDE DEF d
  <2>6. v[i] = (n \div d) \div Base
        /\ n \div d = (Base * ((n \div d) \div Base)) + ((n \div d) % Base)
    BY <1>2, <2>2, <2>4, Quotients
  <2>7. v[i + 1] = n \div d
    BY <2>3, <2>5, <2>6, Zenon
  <2> QED BY <2>7 DEF d
<1> HIDE DEF I
<1>5. \A i \in Nat : i \in I
  BY <1>3, <1>4, Induction
<1>6. v[HeaderSize] = n \div Power[HeaderSize - HeaderSize]
  BY <1>2, <1>5 DEF I
<1>7. n \div Power[HeaderSize - HeaderSize] = n
  <2>1. HeaderSize - HeaderSize = 0 /\ n \div 1 = n
    BY <1>2
  <2> QED BY <2>1, PowerFacts
<1> QED BY <1>1, <1>6, <1>7

----------------------------------------------------------------------------
LEMMA EncodedIsSeq ==
    ASSUME NEW m \in Seq(Bytes)
    PROVE  /\ encodeMessage(m) \in Seq(Bytes)
           /\ Len(encodeMessage(m)) = HeaderSize + Len(m)
           /\ \A i \in 1 .. HeaderSize : encodeMessage(m)[i] = Header(Len(m))[i]
           /\ \A i \in 1 .. Len(m) : encodeMessage(m)[HeaderSize + i] = m[i]
<1> DEFINE h == Header(Len(m))
<1>1. h \in Seq(Bytes) /\ Len(h) = HeaderSize /\ HeaderSize \in Nat
  BY HeaderIsSeq, StreamAssumption
<1>2. encodeMessage(m) = h \o m
  BY DEF encodeMessage
<1>3. \A i \in 1 .. HeaderSize : h[i] = Header(Len(m))[i]
  OBVIOUS
<1> HIDE DEF h
<1>4. /\ h \o m \in Seq(Bytes) /\ Len(h \o m) = HeaderSize + Len(m)
      /\ \A i \in 1 .. HeaderSize + Len(m) :
            (h \o m)[i] = IF i <= HeaderSize THEN h[i] ELSE m[i - HeaderSize]
  BY <1>1
<1>5. ASSUME NEW i \in 1 .. HeaderSize PROVE (h \o m)[i] = h[i]
  BY <1>1, <1>4
<1>6. ASSUME NEW i \in 1 .. Len(m) PROVE (h \o m)[HeaderSize + i] = m[i]
  <2>1. /\ HeaderSize + i \in 1 .. HeaderSize + Len(m) /\ ~(HeaderSize + i <= HeaderSize)
        /\ (HeaderSize + i) - HeaderSize = i
    BY <1>1
  <2> QED BY <1>4, <2>1
<1> QED BY <1>2, <1>3, <1>4, <1>5, <1>6

\* The bytes of the messages ms from the (i+1)st on.
Rest(f, ms) ==
    [i \in Nat |-> IF i >= Len(ms) THEN <<>> ELSE encodeMessage(ms[i + 1]) \o f[i + 1]]
Flight(ms) == CHOOSE f : f = Rest(f, ms)

LEMMA FlightExists ==
    ASSUME NEW ms \in Seq(Seq(Bytes))
    PROVE  Flight(ms) = Rest(Flight(ms), ms)
<1> DEFINE eq(f, i) == f[i] = IF i >= Len(ms) THEN <<>>
                              ELSE encodeMessage(ms[i + 1]) \o f[i + 1]
           P(k) == \E f : /\ f = [i \in Nat |-> f[i]]
                          /\ \A i \in Nat : i + k >= Len(ms) => eq(f, i)
           I == {k \in Nat : k <= Len(ms) => P(k)}
<1>1. Len(ms) \in Nat
  OBVIOUS
<1>2. 0 \in I
  <2> DEFINE f == [i \in Nat |-> <<>>]
  <2>1. f = [i \in Nat |-> f[i]] /\ \A i \in Nat : i + 0 >= Len(ms) => eq(f, i)
    BY <1>1
  <2> QED BY <2>1
<1>3. ASSUME NEW k \in Nat, k \in I PROVE k + 1 \in I
  <2> SUFFICES ASSUME k + 1 <= Len(ms) PROVE P(k + 1)
    OBVIOUS
  <2>1. k <= Len(ms)
    BY <1>1
  <2>2. PICK f : /\ f = [i \in Nat |-> f[i]]
                 /\ \A i \in Nat : i + k >= Len(ms) => eq(f, i)
    BY <1>3, <2>1
  <2> DEFINE j == Len(ms) - (k + 1)
             x == encodeMessage(ms[j + 1]) \o f[j + 1]
             g == [i \in Nat |-> IF i = j THEN x ELSE f[i]]
  <2>3. j \in Nat /\ j + k < Len(ms) /\ j < Len(ms)
    BY <1>1
  <2>4. g = [i \in Nat |-> g[i]]
    OBVIOUS
  <2>5. ASSUME NEW i \in Nat, i + (k + 1) >= Len(ms) PROVE eq(g, i)
    <3>1. CASE i = j
      BY <2>3, <3>1
    <3>2. CASE i # j
      <4>1. i + k >= Len(ms) /\ i + 1 # j /\ i + 1 \in Nat
        BY <1>1, <2>5, <3>2
      <4>2. eq(f, i) /\ g[i] = f[i] /\ g[i + 1] = f[i + 1]
        BY <2>2, <3>2, <4>1
      <4> HIDE DEF g
      <4> QED BY <4>2
    <3> QED BY <3>1, <3>2
  <2> HIDE DEF g, eq
  <2> QED BY <2>4, <2>5
<1> HIDE DEF I
<1>4. \A k \in Nat : k \in I
  BY <1>2, <1>3, Induction
<1>5. P(Len(ms))
  BY <1>1, <1>4 DEF I
<1>6. PICK f : /\ f = [i \in Nat |-> f[i]]
               /\ \A i \in Nat : i + Len(ms) >= Len(ms) => eq(f, i)
  BY <1>5
<1>7. \A i \in Nat : eq(f, i)
  <2>1. \A i \in Nat : i + Len(ms) >= Len(ms)
    BY <1>1
  <2> HIDE DEF eq
  <2> QED BY <1>6, <2>1
<1>8. f = Rest(f, ms)
  BY <1>6, <1>7, Zenon DEF Rest
<1> QED BY <1>8 DEF Flight

LEMMA FlightFacts ==
    ASSUME NEW ms \in Seq(Seq(Bytes)), NEW i \in Nat
    PROVE  /\ Flight(ms)[i] \in Seq(Bytes)
           /\ i >= Len(ms) => Flight(ms)[i] = <<>>
           /\ i < Len(ms) => Flight(ms)[i] = encodeMessage(ms[i + 1]) \o Flight(ms)[i + 1]
<1> DEFINE F == Flight(ms)
<1>1. \A n \in Nat : F[n] = IF n >= Len(ms) THEN <<>>
                            ELSE encodeMessage(ms[n + 1]) \o F[n + 1]
  <2>1. F = Rest(F, ms)
    BY FlightExists
  <2> HIDE DEF F
  <2>2. \A n \in Nat : Rest(F, ms)[n] = IF n >= Len(ms) THEN <<>>
                                        ELSE encodeMessage(ms[n + 1]) \o F[n + 1]
    BY DEF Rest
  <2> QED BY <2>1, <2>2, Zenon
<1> HIDE DEF F
<1>2. Len(ms) \in Nat
  OBVIOUS
<1> DEFINE I == {k \in Nat : \A n \in Nat : n + k >= Len(ms) => F[n] \in Seq(Bytes)}
<1>0. ASSUME NEW n \in Nat, n >= Len(ms) PROVE F[n] = <<>> /\ F[n] \in Seq(Bytes)
  <2>1. <<>> \in Seq(Bytes)
    OBVIOUS
  <2>2. F[n] = <<>>
    BY <1>0, <1>1, Zenon
  <2> QED BY <2>1, <2>2
<1>3. 0 \in I
  BY <1>0, <1>2
<1>4. ASSUME NEW k \in Nat, k \in I PROVE k + 1 \in I
  <2> SUFFICES ASSUME NEW n \in Nat, n + (k + 1) >= Len(ms) PROVE F[n] \in Seq(Bytes)
    OBVIOUS
  <2>1. CASE n >= Len(ms)
    BY <1>0, <2>1
  <2>2. CASE ~(n >= Len(ms))
    <3>1. n + 1 \in 1 .. Len(ms) /\ n + 1 \in Nat /\ (n + 1) + k >= Len(ms)
      BY <1>2, <2>2
    <3>2. F[n + 1] \in Seq(Bytes)
      BY <1>4, <3>1
    <3>3. ms[n + 1] \in Seq(Bytes)
      BY <3>1
    <3>4. encodeMessage(ms[n + 1]) \in Seq(Bytes)
      BY <3>3, EncodedIsSeq
    <3> DEFINE e == encodeMessage(ms[n + 1])
    <3>5. F[n] = e \o F[n + 1]
      BY <1>1, <2>2
    <3>6. e \in Seq(Bytes)
      BY <3>4
    <3> HIDE DEF e, I
    <3> QED BY <3>2, <3>5, <3>6
  <2> QED BY <2>1, <2>2
<1> HIDE DEF I
<1>5. \A k \in Nat : k \in I
  BY <1>3, <1>4, Induction
<1>6. Len(ms) \in I /\ i + Len(ms) >= Len(ms)
  BY <1>2, <1>5
<1>7. F[i] \in Seq(Bytes)
  BY <1>6 DEF I
<1>8. i < Len(ms) => ~(i >= Len(ms))
  BY <1>2
<1> QED BY <1>1, <1>7, <1>8 DEF F

\* A message more lies behind the others.
LEMMA FlightLonger ==
    ASSUME NEW ms \in Seq(Seq(Bytes)), NEW m \in Seq(Bytes), NEW r \in 0 .. Len(ms)
    PROVE  Flight(Append(ms, m))[r] = Flight(ms)[r] \o encodeMessage(m)
<1> DEFINE ns == Append(ms, m)
           N == Len(ms)
           e == encodeMessage(m)
           F == Flight(ms)
           G == Flight(ns)
           I == {k \in Nat : \A i \in Nat : i <= N /\ i + k >= N => G[i] = F[i] \o e}
<1>1. /\ ns \in Seq(Seq(Bytes)) /\ Len(ns) = N + 1 /\ N \in Nat
      /\ ns[N + 1] = m /\ \A i \in 1 .. N : ns[i] = ms[i] /\ ms[i] \in Seq(Bytes)
  OBVIOUS
<1>2. e \in Seq(Bytes)
  BY EncodedIsSeq
<1> HIDE DEF ns
<1>3. G[N] = F[N] \o e
  <2>0. /\ N \in Nat /\ N + 1 \in Nat /\ N < Len(ns) /\ N + 1 >= Len(ns)
        /\ N >= Len(ms) /\ ns \in Seq(Seq(Bytes))
    BY <1>1
  <2>1. G[N] = encodeMessage(ns[N + 1]) \o G[N + 1]
    BY <2>0, FlightFacts, Zenon
  <2>2. G[N + 1] = <<>>
    BY <2>0, FlightFacts, Zenon
  <2>3. F[N] = <<>>
    BY <2>0, FlightFacts, Zenon
  <2> HIDE DEF e, F, G
  <2>4. e \o <<>> = e /\ <<>> \o e = e
    BY <1>2
  <2>5. encodeMessage(ns[N + 1]) = e
    BY <1>1 DEF e
  <2> QED BY <2>1, <2>2, <2>3, <2>4, <2>5
<1>4. 0 \in I
  <2>1. \A i \in Nat : i <= N /\ i + 0 >= N => i = N
    BY <1>1
  <2> HIDE DEF N, F, G
  <2> QED BY <1>3, <2>1
<1>5. ASSUME NEW k \in Nat, k \in I PROVE k + 1 \in I
  <2> SUFFICES ASSUME NEW i \in Nat, i <= N, i + (k + 1) >= N PROVE G[i] = F[i] \o e
    OBVIOUS
  <2>1. CASE i = N
    BY <1>3, <2>1
  <2>2. CASE i # N
    <3> DEFINE d == encodeMessage(ms[i + 1])
    <3>1. /\ i + 1 \in 1 .. N /\ i + 1 \in Nat /\ i + 1 <= N /\ (i + 1) + k >= N
          /\ i < N /\ i < N + 1
      BY <1>1, <2>2
    <3>2. G[i + 1] = F[i + 1] \o e
      BY <1>5, <3>1
    <3>3. G[i] = encodeMessage(ns[i + 1]) \o G[i + 1] /\ ns[i + 1] = ms[i + 1]
      BY <1>1, <3>1, FlightFacts
    <3>4. F[i] = d \o F[i + 1]
      BY <3>1, FlightFacts
    <3>5. d \in Seq(Bytes) /\ F[i + 1] \in Seq(Bytes)
      BY <1>1, <3>1, EncodedIsSeq, FlightFacts
    <3> HIDE DEF d, e, F, G
    <3>6. (d \o F[i + 1]) \o e = d \o (F[i + 1] \o e)
      BY <1>2, <3>5, Associative
    <3> QED BY <3>2, <3>3, <3>4, <3>6, Zenon DEF d
  <2> QED BY <2>1, <2>2
<1> HIDE DEF I
<1>6. \A k \in Nat : k \in I
  BY <1>4, <1>5, Induction
<1>7. N \in I /\ r \in Nat /\ r <= N /\ r + N >= N
  BY <1>1, <1>6
<1>8. G[r] = F[r] \o e
  BY <1>7, Zenon DEF I
<1> QED BY <1>8 DEF e, F, G, ns

----------------------------------------------------------------------------
LEMMA DropFacts ==
    ASSUME NEW s \in Seq(Bytes), NEW p \in 0 .. Len(s)
    PROVE  /\ Drop(s, p) \in Seq(Bytes) /\ Len(Drop(s, p)) = Len(s) - p
           /\ \A i \in 1 .. Len(s) - p : Drop(s, p)[i] = s[p + i]
BY DEF Drop

LEMMA MessageFacts ==
    ASSUME NEW s \in Seq(Bytes), HasMessage(s)
    PROVE  Digits(s) /\ Length(s) \in Nat /\ HeaderSize + Length(s) <= Len(s)
<1>1. Digits(s)
  BY DEF HasMessage, Digits
<1>2. Length(s) \in Int /\ HeaderSize \in Nat /\ Len(s) \in Nat
  BY <1>1, LengthIsNumber, StreamAssumption
<1> QED BY <1>1, <1>2 DEF HasMessage

\* The positions from p on, for all p.
Following(s, p) == p + HeaderSize + Length(Drop(s, p))
Cutting(f, s) ==
    [p \in 0 .. Len(s) |-> IF HasMessage(Drop(s, p)) THEN <<p>> \o f[Following(s, p)]
                                                     ELSE <<p>>]
CutsFrom(s) == CHOOSE f : f = Cutting(f, s)

LEMMA FollowingIsLater ==
    ASSUME NEW s \in Seq(Bytes), NEW p \in 0 .. Len(s), HasMessage(Drop(s, p))
    PROVE  Following(s, p) \in p + 1 .. Len(s)
<1>1. Drop(s, p) \in Seq(Bytes) /\ Len(Drop(s, p)) = Len(s) - p
  BY DropFacts
<1>2. Length(Drop(s, p)) \in Nat /\ HeaderSize + Length(Drop(s, p)) <= Len(s) - p
  BY <1>1, MessageFacts
<1>3. HeaderSize \in Nat \ {0} /\ Len(s) \in Nat
  BY StreamAssumption
<1> QED BY <1>2, <1>3 DEF Following

LEMMA CutsExist ==
    ASSUME NEW s \in Seq(Bytes)
    PROVE  CutsFrom(s) = Cutting(CutsFrom(s), s)
<1> DEFINE N == Len(s)
           eq(f, p) == f[p] = IF HasMessage(Drop(s, p)) THEN <<p>> \o f[Following(s, p)]
                                                        ELSE <<p>>
           P(k) == \E f : /\ f = [p \in 0 .. N |-> f[p]]
                          /\ \A p \in 0 .. N : p + k >= N => eq(f, p)
           I == {k \in Nat : k <= N => P(k)}
<1>1. N \in Nat
  OBVIOUS
<1>2. 0 \in I
  <2> DEFINE f == [p \in 0 .. N |-> <<p>>]
  <2>1. ASSUME NEW p \in 0 .. N, p + 0 >= N PROVE eq(f, p)
    <3>1. p = N
      BY <1>1, <2>1
    <3>2. ~HasMessage(Drop(s, p))
      <4> SUFFICES ASSUME HasMessage(Drop(s, p)) PROVE FALSE
        OBVIOUS
      <4>1. Following(s, p) \in p + 1 .. N
        BY FollowingIsLater
      <4> QED BY <1>1, <3>1, <4>1
    <3> QED BY <3>2
  <2>2. f = [p \in 0 .. N |-> f[p]]
    OBVIOUS
  <2> HIDE DEF f, eq
  <2> QED BY <2>1, <2>2
<1>3. ASSUME NEW k \in Nat, k \in I PROVE k + 1 \in I
  <2> SUFFICES ASSUME k + 1 <= N PROVE P(k + 1)
    OBVIOUS
  <2>1. k <= N
    BY <1>1
  <2>2. PICK f : /\ f = [p \in 0 .. N |-> f[p]]
                 /\ \A p \in 0 .. N : p + k >= N => eq(f, p)
    BY <1>3, <2>1
  <2> DEFINE j == N - (k + 1)
             x == IF HasMessage(Drop(s, j)) THEN <<j>> \o f[Following(s, j)] ELSE <<j>>
             g == [p \in 0 .. N |-> IF p = j THEN x ELSE f[p]]
  <2>3. j \in 0 .. N /\ j + (k + 1) = N
    BY <1>1
  <2>4. g = [p \in 0 .. N |-> g[p]]
    OBVIOUS
  <2>5. ASSUME NEW p \in 0 .. N, p + (k + 1) >= N PROVE eq(g, p)
    <3>1. p >= j
      BY <1>1, <2>3, <2>5
    <3>2. HasMessage(Drop(s, p)) =>
             Following(s, p) \in 0 .. N /\ g[Following(s, p)] = f[Following(s, p)]
      <4> SUFFICES ASSUME HasMessage(Drop(s, p))
                   PROVE  Following(s, p) \in 0 .. N /\ g[Following(s, p)] = f[Following(s, p)]
        OBVIOUS
      <4>1. Following(s, p) \in p + 1 .. N
        BY FollowingIsLater
      <4>2. Following(s, p) \in 0 .. N /\ Following(s, p) # j
        BY <1>1, <2>3, <3>1, <4>1
      <4> QED BY <4>2
    <3>3. CASE p = j
      <4>1. g[p] = x
        BY <2>3, <3>3
      <4> HIDE DEF g
      <4> QED BY <3>2, <3>3, <4>1
    <3>4. CASE p # j
      <4>1. p + k >= N
        BY <1>1, <2>3, <2>5, <3>4
      <4>2. eq(f, p) /\ g[p] = f[p]
        BY <2>2, <3>4, <4>1
      <4> HIDE DEF g
      <4> QED BY <3>2, <4>2
    <3> QED BY <3>3, <3>4
  <2> HIDE DEF g, eq
  <2> QED BY <2>4, <2>5
<1> HIDE DEF I
<1>4. \A k \in Nat : k \in I
  BY <1>2, <1>3, Induction
<1>5. P(N)
  BY <1>1, <1>4 DEF I
<1>6. PICK f : /\ f = [p \in 0 .. N |-> f[p]]
               /\ \A p \in 0 .. N : p + N >= N => eq(f, p)
  BY <1>5
<1>7. \A p \in 0 .. N : eq(f, p)
  <2>1. \A p \in 0 .. N : p + N >= N
    BY <1>1
  <2> HIDE DEF eq
  <2> QED BY <1>6, <2>1
<1>8. f = Cutting(f, s)
  BY <1>6, <1>7, Zenon DEF Cutting
<1> QED BY <1>8 DEF CutsFrom

LEMMA CutsStep ==
    ASSUME NEW s \in Seq(Bytes), NEW p \in 0 .. Len(s)
    PROVE  CutsFrom(s)[p] = IF HasMessage(Drop(s, p))
                            THEN <<p>> \o CutsFrom(s)[Following(s, p)]
                            ELSE <<p>>
<1> DEFINE C == CutsFrom(s)
<1>1. C = Cutting(C, s)
  BY CutsExist
<1> HIDE DEF C
<1>2. Cutting(C, s)[p] = IF HasMessage(Drop(s, p)) THEN <<p>> \o C[Following(s, p)] ELSE <<p>>
  BY DEF Cutting
<1>3. C[p] = IF HasMessage(Drop(s, p)) THEN <<p>> \o C[Following(s, p)] ELSE <<p>>
  BY <1>1, <1>2, Zenon
<1> QED BY <1>3 DEF C

\* Two ways to cut one sequence: the pieces agree as far as both go.
LEMMA SameStart ==
    ASSUME NEW x \in Seq(Bytes), NEW y \in Seq(Bytes), NEW e \in Seq(Bytes),
           NEW g \in Seq(Bytes), x \o y = e \o g, NEW i \in Nat, i > 0,
           i <= Len(x), i <= Len(e)
    PROVE  x[i] = e[i]
<1>1. (x \o y)[i] = x[i]
  BY ConcatProperties
<1>2. (e \o g)[i] = e[i]
  BY ConcatProperties
<1> QED BY <1>1, <1>2

LEMMA CutAway ==
    ASSUME NEW x \in Seq(Bytes), NEW y \in Seq(Bytes), NEW e \in Seq(Bytes),
           NEW g \in Seq(Bytes), x \o y = e \o g, Len(e) <= Len(x)
    PROVE  Drop(x, Len(e)) \o y = g
<1> DEFINE n == Len(e)
           d == Drop(x, n)
<1>1. n \in Nat /\ n \in 0 .. Len(x) /\ Len(x) \in Nat /\ Len(y) \in Nat /\ Len(g) \in Nat
  OBVIOUS
<1>2. d \in Seq(Bytes) /\ Len(d) = Len(x) - n /\ \A i \in 1 .. Len(x) - n : d[i] = x[n + i]
  BY <1>1, DropFacts
<1> HIDE DEF d
<1>3. /\ Len(x \o y) = Len(x) + Len(y) /\ Len(e \o g) = n + Len(g)
      /\ \A i \in 1 .. Len(x) + Len(y) :
            (x \o y)[i] = IF i <= Len(x) THEN x[i] ELSE y[i - Len(x)]
      /\ \A i \in 1 .. n + Len(g) :
            (e \o g)[i] = IF i <= n THEN e[i] ELSE g[i - n]
  BY ConcatProperties
<1>4. /\ d \o y \in Seq(Bytes) /\ Len(d \o y) = Len(d) + Len(y)
      /\ \A i \in 1 .. Len(d) + Len(y) :
            (d \o y)[i] = IF i <= Len(d) THEN d[i] ELSE y[i - Len(d)]
  BY <1>2, ConcatProperties
<1>5. Len(g) = Len(d) + Len(y)
  BY <1>1, <1>2, <1>3
<1>6. ASSUME NEW i \in 1 .. Len(g) PROVE (d \o y)[i] = g[i]
  <2>1. /\ n + i \in 1 .. n + Len(g) /\ n + i \in 1 .. Len(x) + Len(y)
        /\ ~(n + i <= n) /\ (n + i) - n = i
        /\ (n + i <= Len(x)) = (i <= Len(d)) /\ (n + i) - Len(x) = i - Len(d)
        /\ i <= Len(d) => i \in 1 .. Len(x) - n
    BY <1>1, <1>2, <1>3, <1>5
  <2>2. g[i] = (x \o y)[n + i]
    BY <1>3, <2>1
  <2>3. (x \o y)[n + i] = IF i <= Len(d) THEN x[n + i] ELSE y[i - Len(d)]
    BY <1>3, <2>1
  <2>4. (d \o y)[i] = IF i <= Len(d) THEN x[n + i] ELSE y[i - Len(d)]
    BY <1>2, <1>4, <1>5, <2>1
  <2> QED BY <2>2, <2>3, <2>4
<1>7. Len(d \o y) = Len(g) /\ d \o y \in Seq(Bytes)
  BY <1>4, <1>5
<1>8. d \o y = g
  BY <1>6, <1>7, SeqEqual
<1> QED BY <1>8 DEF d

\* The messages fit into their headers.
Fitting(ms) ==
    /\ ms \in Seq(Seq(Bytes))
    /\ \A i \in 1 .. Len(ms) : 2 * Len(ms[i]) < Power[HeaderSize]

\* When bytes from the flight begin with a whole message, it is the first one
\* sent, with its length and its bytes, and the others follow.
LEMMA FirstMessage ==
    ASSUME NEW ms, Fitting(ms), NEW r \in 0 .. Len(ms),
           NEW x \in Seq(Bytes), NEW rest \in Seq(Bytes),
           HasMessage(x), x \o rest = Flight(ms)[r]
    PROVE  /\ r + 1 \in 1 .. Len(ms) /\ Length(x) \in Nat
           /\ HeaderSize + Length(x) <= Len(x)
           /\ SubSeq(x, HeaderSize + 1, HeaderSize + Length(x)) = ms[r + 1]
           /\ Drop(x, HeaderSize + Length(x)) \o rest = Flight(ms)[r + 1]
<1> DEFINE m == ms[r + 1]
           e == encodeMessage(m)
           G == Flight(ms)[r + 1]
<1>1. /\ ms \in Seq(Seq(Bytes)) /\ Len(ms) \in Nat /\ r \in Nat
      /\ HeaderSize \in Nat \ {0}
  BY StreamAssumption DEF Fitting
<1>2. Digits(x) /\ Length(x) \in Nat /\ HeaderSize + Length(x) <= Len(x)
  BY MessageFacts
<1>3. r + 1 \in 1 .. Len(ms)
  <2> SUFFICES ASSUME r >= Len(ms) PROVE FALSE
    BY <1>1
  <2>1. x \o rest = <<>>
    BY <1>1, FlightFacts, Zenon
  <2>2. Len(x \o rest) = Len(x) + Len(rest)
    BY ConcatProperties, Zenon
  <2>3. Len(<<>>) = 0 /\ Len(x) \in Nat /\ Len(rest) \in Nat
    OBVIOUS
  <2>4. Len(x) + Len(rest) = 0
    BY <2>1, <2>2, <2>3
  <2> QED BY <1>1, <1>2, <2>3, <2>4
<1>4. m \in Seq(Bytes) /\ Len(m) \in Nat /\ 2 * Len(m) < Power[HeaderSize]
  BY <1>1, <1>3 DEF Fitting
<1>5. x \o rest = e \o G /\ G \in Seq(Bytes)
  <2>1. r < Len(ms) /\ r + 1 \in Nat
    BY <1>1, <1>3
  <2> QED BY <1>1, <2>1, FlightFacts
<1> HIDE DEF m
<1>6. /\ e \in Seq(Bytes) /\ Len(e) = HeaderSize + Len(m)
      /\ \A i \in 1 .. HeaderSize : e[i] = Header(Len(m))[i]
      /\ \A i \in 1 .. Len(m) : e[HeaderSize + i] = m[i]
  BY <1>4, EncodedIsSeq
<1> HIDE DEF e, G
<1>7. \A i \in 1 .. HeaderSize : x[i] = Header(Len(m))[i]
  <2> SUFFICES ASSUME NEW i \in 1 .. HeaderSize PROVE x[i] = e[i]
    BY <1>6
  <2>1. i \in Nat /\ i > 0 /\ i <= Len(x) /\ i <= Len(e)
    BY <1>1, <1>2, <1>4, <1>6 DEF Digits
  <2> QED BY <1>5, <1>6, <2>1, SameStart
<1>8. Length(x) = Len(m)
  BY <1>2, <1>4, <1>7, LengthOfHeader
<1>9. SubSeq(x, HeaderSize + 1, HeaderSize + Length(x)) = m
  <2> DEFINE t == SubSeq(x, HeaderSize + 1, HeaderSize + Len(m))
  <2>0. HeaderSize + 1 \in 1 .. Len(x) + 1 /\ HeaderSize + Len(m) \in 0 .. Len(x)
    BY <1>1, <1>2, <1>4, <1>8
  <2>1. /\ t \in Seq(Bytes) /\ Len(t) = Len(m)
        /\ \A i \in 1 .. Len(m) : t[i] = x[HeaderSize + i]
    BY <1>1, <1>2, <1>4, <1>8
  <2> HIDE DEF t
  <2>2. ASSUME NEW i \in 1 .. Len(m) PROVE t[i] = m[i]
    <3>1. /\ HeaderSize + i \in Nat /\ HeaderSize + i > 0
          /\ HeaderSize + i <= Len(x) /\ HeaderSize + i <= Len(e)
      BY <1>1, <1>2, <1>4, <1>6, <1>8
    <3>2. x[HeaderSize + i] = e[HeaderSize + i]
      BY <1>5, <1>6, <3>1, SameStart
    <3> QED BY <1>6, <2>1, <3>2
  <2>3. t = m
    BY <1>4, <2>1, <2>2, SeqEqual
  <2> QED BY <1>8, <2>3 DEF t
<1>10. Drop(x, HeaderSize + Length(x)) \o rest = G
  <2>1. Len(e) <= Len(x) /\ Len(e) = HeaderSize + Length(x)
    BY <1>2, <1>6, <1>8
  <2>2. Drop(x, Len(e)) \o rest = G
    BY <1>5, <1>6, <2>1, CutAway
  <2> QED BY <2>1, <2>2
<1> QED BY <1>2, <1>3, <1>9, <1>10 DEF m, G

LEMMA DropTwice ==
    ASSUME NEW s \in Seq(Bytes), NEW p \in 0 .. Len(s), NEW n \in 0 .. Len(s) - p
    PROVE  /\ Drop(Drop(s, p), n) = Drop(s, p + n)
           /\ \A j \in 0 .. n : SubSeq(Drop(s, p), j + 1, n) = SubSeq(s, p + j + 1, p + n)
<1> DEFINE d == Drop(s, p)
<1>1. /\ p \in Nat /\ n \in Nat /\ Len(s) \in Nat /\ p + n \in 0 .. Len(s)
  OBVIOUS
<1>2. d \in Seq(Bytes) /\ Len(d) = Len(s) - p /\ \A i \in 1 .. Len(s) - p : d[i] = s[p + i]
  BY DropFacts
<1> HIDE DEF d
<1>3. ASSUME NEW j \in Nat, NEW k \in Nat, j <= k, p + k <= Len(s)
      PROVE  SubSeq(d, j + 1, k) = SubSeq(s, p + j + 1, p + k)
  <2> DEFINE t == SubSeq(d, j + 1, k)
             u == SubSeq(s, p + j + 1, p + k)
  <2>1. t \in Seq(Bytes) /\ Len(t) = k - j /\ \A i \in 1 .. k - j : t[i] = d[j + i]
    BY <1>1, <1>2, <1>3
  <2>2. u \in Seq(Bytes) /\ Len(u) = k - j /\ \A i \in 1 .. k - j : u[i] = s[(p + j) + i]
    BY <1>1, <1>3
  <2> HIDE DEF t, u
  <2>3. ASSUME NEW i \in 1 .. k - j PROVE t[i] = u[i]
    <3>1. j + i \in 1 .. Len(s) - p /\ p + (j + i) = (p + j) + i
      BY <1>1, <1>3
    <3> QED BY <1>2, <2>1, <2>2, <3>1
  <2>4. t = u
    BY <1>3, <2>1, <2>2, <2>3, SeqEqual
  <2> QED BY <2>4 DEF t, u
<1>4. Drop(d, n) = SubSeq(d, n + 1, Len(s) - p) /\ Drop(s, p + n) = SubSeq(s, p + n + 1, Len(s))
  BY <1>2 DEF Drop
<1>5. SubSeq(d, n + 1, Len(s) - p) = SubSeq(s, p + n + 1, p + (Len(s) - p))
  <2> DEFINE k == Len(s) - p
  <2>1. k \in Nat /\ n <= k /\ p + k <= Len(s)
    BY <1>1
  <2> HIDE DEF k
  <2>2. SubSeq(d, n + 1, k) = SubSeq(s, p + n + 1, p + k)
    BY <1>1, <1>3, <2>1
  <2> QED BY <2>2 DEF k
<1>6. p + (Len(s) - p) = Len(s)
  BY <1>1
<1>7. Drop(d, n) = Drop(s, p + n)
  BY <1>4, <1>5, <1>6
<1>8. \A j \in 0 .. n : SubSeq(d, j + 1, n) = SubSeq(s, p + j + 1, p + n)
  BY <1>1, <1>3
<1> QED BY <1>7, <1>8 DEF d

\* The cuts c of b from p on separate messages of ms from the (r+1)st on, and
\* what is behind the last cut is the flight of the others.
Found(c, p, r, ms, b, rest) ==
    /\ c \in Seq(0 .. Len(b)) /\ Len(c) >= 1 /\ c[1] = p
    /\ r + (Len(c) - 1) <= Len(ms)
    /\ \A i \in 1 .. Len(c) - 1 : SubSeq(b, c[i] + HeaderSize + 1, c[i + 1]) = ms[r + i]
    /\ Drop(b, c[Len(c)]) \o rest = Flight(ms)[r + (Len(c) - 1)]

LEMMA FoundNone ==
    ASSUME NEW ms, NEW r \in 0 .. Len(ms), Len(ms) \in Nat, NEW b \in Seq(Bytes), NEW rest,
           NEW p \in 0 .. Len(b), Drop(b, p) \o rest = Flight(ms)[r]
    PROVE  Found(<<p>>, p, r, ms, b, rest)
<1>1. <<p>> \in Seq(0 .. Len(b)) /\ Len(<<p>>) = 1 /\ <<p>>[1] = p /\ r + (1 - 1) = r
  OBVIOUS
<1> DEFINE c == <<p>>
<1>2. c \in Seq(0 .. Len(b)) /\ Len(c) = 1 /\ c[1] = p /\ r + (Len(c) - 1) = r
  BY <1>1
<1> HIDE DEF c
<1>3. Found(c, p, r, ms, b, rest)
  BY <1>2 DEF Found
<1> QED BY <1>3 DEF c

LEMMA FoundOne ==
    ASSUME NEW ms, NEW r \in Nat, Len(ms) \in Nat, NEW b \in Seq(Bytes), NEW rest,
           NEW p \in 0 .. Len(b), NEW q, NEW d, Found(d, q, r + 1, ms, b, rest),
           SubSeq(b, p + HeaderSize + 1, q) = ms[r + 1]
    PROVE  Found(<<p>> \o d, p, r, ms, b, rest)
<1> DEFINE o == <<p>>
           c == o \o d
           N == Len(d)
<1>1. o \in Seq(0 .. Len(b)) /\ Len(o) = 1 /\ o[1] = p
  OBVIOUS
<1> HIDE DEF o
<1>2. /\ d \in Seq(0 .. Len(b)) /\ N \in Nat /\ N >= 1 /\ d[1] = q
      /\ (r + 1) + (N - 1) <= Len(ms)
      /\ \A i \in 1 .. N - 1 : SubSeq(b, d[i] + HeaderSize + 1, d[i + 1]) = ms[(r + 1) + i]
      /\ Drop(b, d[N]) \o rest = Flight(ms)[(r + 1) + (N - 1)]
  <2>1. d \in Seq(0 .. Len(b))
    BY DEF Found
  <2>2. N \in Nat
    BY <2>1
  <2> QED BY <2>1, <2>2, Zenon DEF Found
<1>3. /\ c \in Seq(0 .. Len(b)) /\ Len(c) = 1 + N
      /\ \A i \in 1 .. 1 + N : c[i] = IF i <= 1 THEN o[i] ELSE d[i - 1]
  <2>1. o \in Seq(0 .. Len(b)) /\ d \in Seq(0 .. Len(b)) /\ Len(o) = 1
    BY <1>1, <1>2
  <2>2. /\ c \in Seq(0 .. Len(b)) /\ Len(c) = Len(o) + N
        /\ \A i \in 1 .. Len(o) + N : c[i] = IF i <= Len(o) THEN o[i] ELSE d[i - Len(o)]
    BY <2>1, ConcatProperties, Zenon
  <2> HIDE DEF c, N
  <2> QED BY <2>1, <2>2
<1> HIDE DEF c
<1>4. c[1] = p /\ \A i \in 1 .. N : c[i + 1] = d[i]
  <2>1. 1 \in 1 .. 1 + N /\ \A i \in 1 .. N :
            i + 1 \in 1 .. 1 + N /\ ~(i + 1 <= 1) /\ (i + 1) - 1 = i
    BY <1>2
  <2> QED BY <1>1, <1>3, <2>1
<1>5. ASSUME NEW i \in 1 .. Len(c) - 1
      PROVE  SubSeq(b, c[i] + HeaderSize + 1, c[i + 1]) = ms[r + i]
  <2>1. i \in 1 .. N
    BY <1>2, <1>3
  <2>2. CASE i = 1
    BY <1>2, <1>4, <2>1, <2>2
  <2>3. CASE i # 1
    <3>1. i - 1 \in 1 .. N - 1 /\ i - 1 \in 1 .. N /\ (i - 1) + 1 = i /\ (r + 1) + (i - 1) = r + i
      BY <1>2, <2>1, <2>3
    <3>2. c[i] = d[i - 1] /\ c[i + 1] = d[(i - 1) + 1]
      BY <1>4, <2>1, <3>1
    <3> QED BY <1>2, <3>1, <3>2
  <2> QED BY <2>2, <2>3
<1>6. r + (Len(c) - 1) = (r + 1) + (N - 1) /\ Len(c) = N + 1 /\ N \in 1 .. N /\ Len(c) >= 1
  BY <1>2, <1>3
<1>7. c[Len(c)] = d[N]
  BY <1>4, <1>6
<1>8. r + (Len(c) - 1) <= Len(ms) /\ Drop(b, c[Len(c)]) \o rest = Flight(ms)[r + (Len(c) - 1)]
  BY <1>2, <1>6, <1>7
<1>9. Found(c, p, r, ms, b, rest)
  BY <1>3, <1>4, <1>5, <1>6, <1>8 DEF Found
<1> QED BY <1>9 DEF c, o

\* What the splitter cuts out of bytes from the flight are the messages sent.
LEMMA CutsFindMessages ==
    ASSUME NEW ms, Fitting(ms), NEW b \in Seq(Bytes), NEW rest \in Seq(Bytes),
           NEW p \in 0 .. Len(b), NEW r \in 0 .. Len(ms), Drop(b, p) \o rest = Flight(ms)[r]
    PROVE  Found(CutsFrom(b)[p], p, r, ms, b, rest)
<1> DEFINE C == CutsFrom(b)
           P(k) == \A n \in 0 .. Len(b), l \in 0 .. Len(ms) :
                       n + k >= Len(b) /\ Drop(b, n) \o rest = Flight(ms)[l]
                          => Found(C[n], n, l, ms, b, rest)
           I == {k \in Nat : P(k)}
<1>1. Len(b) \in Nat /\ Len(ms) \in Nat /\ HeaderSize \in Nat
  BY StreamAssumption DEF Fitting
<1>2. ASSUME NEW n \in 0 .. Len(b), NEW l \in 0 .. Len(ms), ~HasMessage(Drop(b, n)),
             Drop(b, n) \o rest = Flight(ms)[l]
      PROVE  Found(C[n], n, l, ms, b, rest)
  <2>1. C[n] = <<n>>
    BY <1>2, CutsStep
  <2> HIDE DEF C
  <2> QED BY <1>1, <1>2, <2>1, FoundNone
<1>3. P(0)
  <2> SUFFICES ASSUME NEW n \in 0 .. Len(b), NEW l \in 0 .. Len(ms), n + 0 >= Len(b),
                      Drop(b, n) \o rest = Flight(ms)[l]
               PROVE  Found(C[n], n, l, ms, b, rest)
    OBVIOUS
  <2>1. ~HasMessage(Drop(b, n))
    <3> SUFFICES ASSUME HasMessage(Drop(b, n)) PROVE FALSE
      OBVIOUS
    <3>1. Following(b, n) \in n + 1 .. Len(b)
      BY FollowingIsLater
    <3> QED BY <1>1, <3>1
  <2> QED BY <1>2, <2>1
<1>4. ASSUME NEW k \in Nat, P(k) PROVE P(k + 1)
  <2> SUFFICES ASSUME NEW n \in 0 .. Len(b), NEW l \in 0 .. Len(ms), n + (k + 1) >= Len(b),
                      Drop(b, n) \o rest = Flight(ms)[l]
               PROVE  Found(C[n], n, l, ms, b, rest)
    OBVIOUS
  <2>1. CASE ~HasMessage(Drop(b, n))
    BY <1>2, <2>1
  <2>2. CASE HasMessage(Drop(b, n))
    <3> DEFINE x == Drop(b, n)
               q == Following(b, n)
               h == HeaderSize + Length(x)
    <3>1. x \in Seq(Bytes) /\ Len(x) = Len(b) - n
      BY DropFacts
    <3>2. /\ l + 1 \in 1 .. Len(ms) /\ Length(x) \in Nat /\ h <= Len(x)
          /\ SubSeq(x, HeaderSize + 1, h) = ms[l + 1]
          /\ Drop(x, h) \o rest = Flight(ms)[l + 1]
      <4> HIDE DEF x
      <4>1. HasMessage(x) /\ x \o rest = Flight(ms)[l]
        BY <2>2 DEF x
      <4> QED BY <3>1, <4>1, FirstMessage
    <3>0. l + 1 \in 1 .. Len(ms) /\ Length(x) \in Nat /\ h <= Len(x)
      BY <3>2
    <3>3. q = n + h /\ q \in n + 1 .. Len(b)
      <4>1. q = (n + HeaderSize) + Length(x)
        BY DEF Following
      <4>2. q \in n + 1 .. Len(b)
        BY <2>2, FollowingIsLater
      <4>3. HeaderSize \in Nat /\ Length(x) \in Nat /\ n \in Nat
        BY <1>1, <3>0
      <4> HIDE DEF x, q
      <4>4. q = n + h
        <5> DEFINE y == Length(x)
        <5> HIDE DEF y
        <5>1. (n + HeaderSize) + y = n + (HeaderSize + y)
          BY <4>3 DEF y
        <5> QED BY <4>1, <5>1, Zenon DEF y
      <4> QED BY <4>2, <4>4, Zenon
    <3>4. h \in 0 .. Len(b) - n /\ HeaderSize \in 0 .. h
      <4> DEFINE y == Length(x)
                 j == Len(x)
      <4> HIDE DEF x
      <4>1. /\ HeaderSize \in Nat /\ y \in Nat /\ Len(b) \in Nat /\ j = Len(b) - n
            /\ HeaderSize + y <= j
        BY <1>1, <3>0, <3>1, Zenon
      <4> HIDE DEF y, j
      <4>2. HeaderSize + y \in 0 .. Len(b) - n /\ HeaderSize \in 0 .. HeaderSize + y
        BY <4>1
      <4> QED BY <4>2, Zenon DEF y
    <3>5. Drop(x, h) = Drop(b, n + h)
          /\ SubSeq(x, HeaderSize + 1, h) = SubSeq(b, n + HeaderSize + 1, n + h)
      <4>1. /\ Drop(Drop(b, n), h) = Drop(b, n + h)
            /\ \A j \in 0 .. h : SubSeq(Drop(b, n), j + 1, h) = SubSeq(b, n + j + 1, n + h)
        <5> HIDE DEF x, h
        <5> QED BY <3>4, DropTwice
      <4> HIDE DEF h
      <4> QED BY <3>4, <4>1
    <3> HIDE DEF x, h, C
    <3>6. Drop(b, q) \o rest = Flight(ms)[l + 1] /\ SubSeq(b, n + HeaderSize + 1, q) = ms[l + 1]
      BY <3>2, <3>3, <3>5
    <3>7. C[n] = <<n>> \o C[q]
      BY <2>2, CutsStep DEF C, q
    <3> HIDE DEF q
    <3>8. q \in 0 .. Len(b) /\ q + k >= Len(b) /\ l + 1 \in 0 .. Len(ms) /\ l \in Nat
      <4>1. q \in n + 1 .. Len(b) /\ n + (k + 1) >= Len(b)
        BY <3>3, Zenon
      <4>2. q \in 0 .. Len(b) /\ q + k >= Len(b)
        BY <1>1, <4>1
      <4>3. l + 1 \in 0 .. Len(ms) /\ l \in Nat
        BY <1>1, <3>0
      <4> QED BY <4>2, <4>3, Zenon
    <3>9. Found(C[q], q, l + 1, ms, b, rest)
      BY <1>4, <3>6, <3>8
    <3>10. Found(<<n>> \o C[q], n, l, ms, b, rest)
      BY <1>1, <3>6, <3>8, <3>9, FoundOne
    <3> QED BY <3>7, <3>10
  <2> QED BY <2>1, <2>2
<1>5. \A k \in Nat : k \in I
  <2> HIDE DEF P
  <2>1. 0 \in I /\ \A k \in Nat : k \in I => k + 1 \in I
    BY <1>3, <1>4
  <2> HIDE DEF I
  <2> QED BY <2>1, Induction
<1>6. P(Len(b))
  <2> HIDE DEF P
  <2> QED BY <1>1, <1>5
<1>7. p + Len(b) >= Len(b)
  BY <1>1
<1> HIDE DEF C
<1>8. Found(C[p], p, r, ms, b, rest)
  BY <1>6, <1>7
<1> QED BY <1>8 DEF C

----------------------------------------------------------------------------
\* Besides the two properties, that every part holds bytes and that the input
\* buffer is empty between two reads.
StreamInv ==
    /\ sent \in Seq(Messages) /\ received \in Seq(Seq(Bytes))
    /\ wire \in Seq(Bytes) /\ buffer_ \in Seq(Bytes)
    /\ IsBuffer(outputBuffer_)
    /\ IsBuffer(inputBuffer_) /\ readableBytes(inputBuffer_) = 0
    /\ ReceivedIsPrefixOfSent
    /\ RestInFlight

InFlight(s, r, b, w, c) == Flight(s)[r] = b \o w \o c

LEMMA RestInFlightIs ==
    RestInFlight <=> /\ readableBytes(outputBuffer_) > 0 => writing
                     /\ InFlight(sent, Len(received), buffer_, wire, Content(outputBuffer_))
BY DEF RestInFlight, InFlight, Flight, Rest

LEMMA RestInFlightNext ==
    RestInFlight' <=>
        /\ readableBytes(outputBuffer_') > 0 => writing'
        /\ InFlight(sent', Len(received'), buffer_', wire', Content(outputBuffer_'))
BY DEF RestInFlight, InFlight, Flight, Rest, readableBytes, Content

LEMMA SentFits ==
    ASSUME NEW s \in Seq(Messages)
    PROVE  Fitting(s) /\ s \in Seq(Seq(Bytes))
<1>1. Messages \subseteq Seq(Bytes)
  BY StreamAssumption
<1>2. s \in Seq(Seq(Bytes)) /\ \A i \in 1 .. Len(s) : s[i] \in Messages
  BY <1>1
<1> QED BY <1>2, LengthsFit DEF Fitting

LEMMA EmptyParts == \A s \in Seq(Bytes) : <<>> \o s = s /\ s \o <<>> = s
OBVIOUS

LEMMA NewBufferIsEmpty ==
    IsBuffer(NewBuffer) /\ readableBytes(NewBuffer) = 0 /\ Content(NewBuffer) = <<>>
<1>1. kCheapPrepend \in Nat /\ kInitialSize \in Nat /\ 0 \in Bytes
  BY BufferAssumption
<1> DEFINE z == [i \in 1 .. kCheapPrepend + kInitialSize |-> 0]
<1>2. z \in Seq(Bytes) /\ Len(z) = kCheapPrepend + kInitialSize
  BY <1>1
<1>3. NewBuffer = [store |-> z, readerIndex_ |-> kCheapPrepend, writerIndex_ |-> kCheapPrepend]
  BY DEF NewBuffer
<1> HIDE DEF z
<1>4. IsBuffer(NewBuffer) /\ readableBytes(NewBuffer) = 0
  BY <1>1, <1>2, <1>3 DEF IsBuffer, readableBytes
<1>5. Content(NewBuffer) \in Seq(Bytes) /\ Len(Content(NewBuffer)) = 0
  BY <1>4, ContentIsSeq
<1> QED BY <1>4, <1>5

LEMMA NothingReadable ==
    ASSUME NEW b, IsBuffer(b), ~(readableBytes(b) > 0)
    PROVE  Content(b) = <<>>
<1>1. Content(b) \in Seq(Bytes) /\ Len(Content(b)) = 0
  BY ContentIsSeq
<1> QED BY <1>1

LEMMA StreamInitInv == StreamInit => StreamInv
<1> SUFFICES ASSUME StreamInit PROVE StreamInv
  OBVIOUS
<1>1. /\ sent = <<>> /\ received = <<>> /\ wire = <<>> /\ buffer_ = <<>>
      /\ outputBuffer_ = NewBuffer /\ inputBuffer_ = NewBuffer /\ Len(received) = 0
  BY DEF StreamInit
<1>2. /\ <<>> \in Seq(Messages) /\ <<>> \in Seq(Bytes) /\ <<>> \in Seq(Seq(Bytes))
      /\ Len(<<>>) = 0
  OBVIOUS
<1>3. ReceivedIsPrefixOfSent
  BY <1>1, <1>2 DEF ReceivedIsPrefixOfSent
<1>4. Flight(<<>>)[0] = <<>>
  <2>1. 0 >= Len(<<>>) /\ 0 \in Nat
    OBVIOUS
  <2> QED BY <1>2, <2>1, FlightFacts, Zenon
<1>5. <<>> \o <<>> = <<>>
  BY <1>2, EmptyParts
<1>6. RestInFlight
  <2>1. InFlight(sent, Len(received), buffer_, wire, Content(outputBuffer_))
    BY <1>1, <1>4, <1>5, NewBufferIsEmpty DEF InFlight
  <2>2. ~(readableBytes(outputBuffer_) > 0)
    BY <1>1, NewBufferIsEmpty
  <2> QED BY <2>1, <2>2, RestInFlightIs
<1> QED BY <1>1, <1>2, <1>3, <1>6, NewBufferIsEmpty DEF StreamInv

LEMMA Halves ==
    ASSUME NEW s \in Seq(Bytes), NEW n \in 0 .. Len(s)
    PROVE  /\ SubSeq(s, 1, n) \in Seq(Bytes) /\ Len(SubSeq(s, 1, n)) = n
           /\ Drop(s, n) \in Seq(Bytes) /\ Len(Drop(s, n)) = Len(s) - n
           /\ SubSeq(s, 1, n) \o Drop(s, n) = s
<1>1. /\ SubSeq(s, 1, n) \in Seq(Bytes) /\ Len(SubSeq(s, 1, n)) = n
      /\ Drop(s, n) \in Seq(Bytes) /\ Len(Drop(s, n)) = Len(s) - n
  BY DropFacts
<1>2. 1 \in 1 .. Len(s) + 1 /\ n \in 1 - 1 .. Len(s) /\ Len(s) \in n .. Len(s)
  OBVIOUS
<1>3. SubSeq(s, 1, n) \o SubSeq(s, n + 1, Len(s)) = SubSeq(s, 1, Len(s))
  BY <1>2, ConcatAdjacentSubSeq, Zenon
<1>4. SubSeq(s, 1, Len(s)) = s
  OBVIOUS
<1> QED BY <1>1, <1>3, <1>4 DEF Drop

LEMMA SendKeeps ==
    ASSUME StreamInv, NEW m \in Messages, NEW n, sendInLoop(m, n)
    PROVE  StreamInv'
<1> DEFINE data == encodeMessage(m)
           first == SubSeq(data, 1, n)
           rest == Drop(data, n)
           c == Content(outputBuffer_)
           r == Len(received)
<1>1. /\ n \in 0 .. Len(data) /\ sent' = Append(sent, m) /\ wire' = wire \o first
      /\ writing \/ readableBytes(outputBuffer_) > 0 => n = 0
      /\ outputBuffer_' = IF n = Len(data) THEN outputBuffer_ ELSE append(outputBuffer_, rest)
      /\ writing' = (writing \/ n < Len(data))
      /\ UNCHANGED <<inputBuffer_, buffer_, received>>
  BY DEF sendInLoop
<1>2. /\ sent \in Seq(Messages) /\ received \in Seq(Seq(Bytes))
      /\ wire \in Seq(Bytes) /\ buffer_ \in Seq(Bytes)
      /\ IsBuffer(outputBuffer_) /\ IsBuffer(inputBuffer_) /\ readableBytes(inputBuffer_) = 0
      /\ ReceivedIsPrefixOfSent /\ RestInFlight
  BY DEF StreamInv
<1>3. m \in Seq(Bytes)
  BY StreamAssumption
<1>4. data \in Seq(Bytes) /\ Len(data) = HeaderSize + Len(m) /\ Len(m) \in Nat
      /\ HeaderSize \in Nat \ {0}
  BY <1>3, EncodedIsSeq, StreamAssumption
<1>5. sent \in Seq(Seq(Bytes)) /\ Len(sent) \in Nat /\ r \in Nat
  BY <1>2, SentFits
<1> HIDE DEF data
<1>6. /\ first \in Seq(Bytes) /\ Len(first) = n /\ rest \in Seq(Bytes)
      /\ Len(rest) = Len(data) - n /\ first \o rest = data
  BY <1>1, <1>4, Halves
<1>7. c \in Seq(Bytes) /\ (n # 0 => c = <<>>)
  BY <1>1, <1>2, ContentIsSeq, NothingReadable
<1>8. r \in 0 .. Len(sent) /\ \A i \in 1 .. r : received[i] = sent[i]
  BY <1>2, <1>5 DEF ReceivedIsPrefixOfSent
<1>9. Flight(sent)[r] = buffer_ \o wire \o c
  BY <1>2, RestInFlightIs DEF InFlight
<1>10. Flight(sent')[r] = (buffer_ \o wire \o c) \o data
  BY <1>1, <1>3, <1>5, <1>8, <1>9, FlightLonger, Zenon DEF data
<1> HIDE DEF first, rest, c
<1>11. IsBuffer(outputBuffer_') /\ Content(outputBuffer_') = c \o rest
  <2>1. CASE n = Len(data)
    <3>1. rest = <<>>
      BY <1>4, <1>6, <2>1
    <3> QED BY <1>1, <1>2, <1>7, <2>1, <3>1, EmptyParts DEF c
  <2>2. CASE n # Len(data)
    BY <1>1, <1>2, <1>6, <2>2, AppendAppends DEF c
  <2> QED BY <2>1, <2>2
<1>12. (buffer_ \o wire \o c) \o (first \o rest) = buffer_ \o (wire \o first) \o (c \o rest)
  <2>1. CASE n = 0
    <3>1. first = <<>>
      BY <1>6, <2>1
    <3>2. first \o rest = rest /\ wire \o first = wire
      BY <1>2, <1>6, <3>1, EmptyParts
    <3>3. buffer_ \o wire \in Seq(Bytes)
      BY <1>2
    <3>4. ((buffer_ \o wire) \o c) \o rest = (buffer_ \o wire) \o (c \o rest)
      BY <1>6, <1>7, <3>3, Associative
    <3> QED BY <3>2, <3>4
  <2>2. CASE n # 0
    <3>1. c = <<>>
      BY <1>7, <2>2
    <3>2. buffer_ \o wire \in Seq(Bytes)
      BY <1>2
    <3>3. (buffer_ \o wire) \o c = buffer_ \o wire /\ c \o rest = rest
      BY <1>6, <3>1, <3>2, EmptyParts
    <3>4. (buffer_ \o wire) \o (first \o rest) = ((buffer_ \o wire) \o first) \o rest
      BY <1>6, <3>2, Associative
    <3>5. (buffer_ \o wire) \o first = buffer_ \o (wire \o first)
      BY <1>2, <1>6, Associative
    <3> QED BY <3>3, <3>4, <3>5
  <2> QED BY <2>1, <2>2
<1>13. InFlight(sent', Len(received'), buffer_', wire', Content(outputBuffer_'))
  BY <1>1, <1>6, <1>10, <1>11, <1>12 DEF InFlight, first
<1>14. readableBytes(outputBuffer_') > 0 => writing'
  <2>1. CASE n = Len(data)
    <3>1. outputBuffer_' = outputBuffer_ /\ (writing => writing')
      BY <1>1, <2>1, Zenon
    <3>2. readableBytes(outputBuffer_) > 0 => writing
      BY <1>2, RestInFlightIs
    <3> QED BY <3>1, <3>2
  <2>2. CASE n # Len(data)
    <3>0. Len(data) \in Nat /\ n \in 0 .. Len(data)
      <4>1. n \in 0 .. Len(data)
        BY <1>1, Zenon
      <4> QED BY <1>4, <4>1
    <3>1. n < Len(data)
      BY <2>2, <3>0
    <3> QED BY <1>1, <3>1, Zenon
  <2> QED BY <2>1, <2>2
<1>15. ReceivedIsPrefixOfSent'
  <2>1. received' = received /\ sent' \in Seq(Seq(Bytes)) /\ Len(sent') = Len(sent) + 1
        /\ \A i \in 1 .. Len(sent) : sent'[i] = sent[i]
    BY <1>1, <1>3, <1>5
  <2>2. r <= Len(sent') /\ \A i \in 1 .. r : received[i] = sent'[i]
    BY <1>5, <1>8, <2>1
  <2> QED BY <2>1, <2>2 DEF ReceivedIsPrefixOfSent
<1>16. sent' \in Seq(Messages) /\ wire' \in Seq(Bytes)
  BY <1>1, <1>2, <1>6 DEF first
<1>17. RestInFlight'
  BY <1>13, <1>14, RestInFlightNext
<1> QED BY <1>1, <1>2, <1>11, <1>15, <1>16, <1>17 DEF StreamInv, IsBuffer, readableBytes

LEMMA WriteKeeps ==
    ASSUME StreamInv, NEW n, handleWrite(n)
    PROVE  StreamInv'
<1> DEFINE c == Content(outputBuffer_)
           first == SubSeq(c, 1, n)
           rest == Drop(c, n)
           r == Len(received)
<1>1. /\ n \in 1 .. readableBytes(outputBuffer_)
      /\ wire' = wire \o first /\ outputBuffer_' = retrieve(outputBuffer_, n)
      /\ writing' = (n < readableBytes(outputBuffer_))
      /\ UNCHANGED <<sent, inputBuffer_, buffer_, received>>
  BY DEF handleWrite
<1>2. /\ sent \in Seq(Messages) /\ received \in Seq(Seq(Bytes))
      /\ wire \in Seq(Bytes) /\ buffer_ \in Seq(Bytes)
      /\ IsBuffer(outputBuffer_) /\ IsBuffer(inputBuffer_) /\ readableBytes(inputBuffer_) = 0
      /\ ReceivedIsPrefixOfSent /\ RestInFlight
  BY DEF StreamInv
<1>3. c \in Seq(Bytes) /\ Len(c) = readableBytes(outputBuffer_)
      /\ readableBytes(outputBuffer_) \in Nat
  BY <1>2, ContentIsSeq
<1>4. n \in 0 .. Len(c) /\ n \in 0 .. readableBytes(outputBuffer_)
  BY <1>1, <1>3
<1>5. IsBuffer(outputBuffer_') /\ Content(outputBuffer_') = rest
  BY <1>1, <1>2, <1>3, <1>4, RetrieveDrops DEF Drop
<1>6. Flight(sent)[r] = buffer_ \o wire \o c
  BY <1>2, RestInFlightIs DEF InFlight
<1> HIDE DEF c
<1>7. /\ first \in Seq(Bytes) /\ Len(first) = n /\ rest \in Seq(Bytes)
      /\ Len(rest) = Len(c) - n /\ first \o rest = c
  BY <1>3, <1>4, Halves
<1> HIDE DEF first, rest
<1>8. (buffer_ \o wire) \o c = buffer_ \o (wire \o first) \o rest
  <2>1. buffer_ \o wire \in Seq(Bytes)
    BY <1>2
  <2>2. (buffer_ \o wire) \o (first \o rest) = ((buffer_ \o wire) \o first) \o rest
    BY <1>7, <2>1, Associative
  <2>3. (buffer_ \o wire) \o first = buffer_ \o (wire \o first)
    BY <1>2, <1>7, Associative
  <2> QED BY <1>7, <2>2, <2>3
<1>9. InFlight(sent', Len(received'), buffer_', wire', Content(outputBuffer_'))
  BY <1>1, <1>5, <1>6, <1>8 DEF InFlight
<1>10. readableBytes(outputBuffer_') > 0 => writing'
  <2>1. readableBytes(outputBuffer_') = Len(rest)
    BY <1>5, ContentIsSeq
  <2>2. Len(rest) > 0 => n < readableBytes(outputBuffer_)
    BY <1>3, <1>4, <1>7
  <2> QED BY <1>1, <2>1, <2>2, Zenon
<1>11. RestInFlight'
  BY <1>9, <1>10, RestInFlightNext
<1>12. ReceivedIsPrefixOfSent'
  BY <1>1, <1>2 DEF ReceivedIsPrefixOfSent
<1>13. wire' \in Seq(Bytes)
  BY <1>1, <1>2, <1>7
<1> QED BY <1>1, <1>2, <1>5, <1>11, <1>12, <1>13 DEF StreamInv, IsBuffer, readableBytes

\* A function from 1 .. n is a sequence of length n (the pieces the splitter
\* hands to its callback are such a function).
LEMMA FunctionIsSeq ==
    ASSUME NEW S, NEW n \in Nat, NEW f \in [1 .. n -> S]
    PROVE  f \in Seq(S) /\ Len(f) = n
<1>1. f \in Seq(S)
  OBVIOUS
<1>2. DOMAIN f = 1 .. n
  OBVIOUS
<1> QED BY <1>1, <1>2, LenProperties

LEMMA PiecesFacts ==
    ASSUME NEW b \in Seq(Bytes), NEW c \in Seq(0 .. Len(b)), Len(c) >= 1
    PROVE  /\ Pieces(b, c) \in Seq(Seq(Bytes)) /\ Len(Pieces(b, c)) = Len(c) - 1
           /\ \A i \in 1 .. Len(c) - 1 :
                 Pieces(b, c)[i] = SubSeq(b, c[i] + HeaderSize + 1, c[i + 1])
<1>1. HeaderSize \in Nat /\ Len(b) \in Nat /\ Len(c) - 1 \in Nat
  BY StreamAssumption
<1>2. ASSUME NEW i \in 1 .. Len(c) - 1
      PROVE  SubSeq(b, c[i] + HeaderSize + 1, c[i + 1]) \in Seq(Bytes)
  <2> DEFINE x == c[i] + HeaderSize + 1
             y == c[i + 1]
  <2>1. x \in Nat /\ x >= 1 /\ y \in 0 .. Len(b)
    <3>1. i \in 1 .. Len(c) /\ i + 1 \in 1 .. Len(c)
      BY <1>1
    <3>2. c[i] \in 0 .. Len(b) /\ c[i + 1] \in 0 .. Len(b)
      BY <3>1
    <3> DEFINE u == c[i]
    <3> HIDE DEF u
    <3>3. u \in 0 .. Len(b)
      BY <3>2, Zenon DEF u
    <3>4. \A v \in 0 .. Len(b) : v + HeaderSize + 1 \in Nat /\ v + HeaderSize + 1 >= 1
      BY <1>1
    <3>5. u + HeaderSize + 1 \in Nat /\ u + HeaderSize + 1 >= 1
      BY <3>3, <3>4, Zenon
    <3> QED BY <3>2, <3>5, Zenon DEF u
  <2> HIDE DEF x, y
  <2>2. SubSeq(b, x, y) \in Seq(Bytes)
    BY <1>1, <2>1
  <2> QED BY <2>2 DEF x, y
<1> DEFINE t == Pieces(b, c)
<1>3. t = [i \in 1 .. Len(c) - 1 |-> SubSeq(b, c[i] + HeaderSize + 1, c[i + 1])]
  BY DEF Pieces
<1> HIDE DEF t
<1>4. \A i \in 1 .. Len(c) - 1 : t[i] = SubSeq(b, c[i] + HeaderSize + 1, c[i + 1])
  BY <1>3
<1>5. t \in [1 .. Len(c) - 1 -> Seq(Bytes)]
  <2>1. \A i \in 1 .. Len(c) - 1 : t[i] \in Seq(Bytes)
    BY <1>2, <1>4, Zenon
  <2>2. t = [i \in 1 .. Len(c) - 1 |-> t[i]]
    BY <1>3, <1>4, Zenon
  <2> QED BY <2>1, <2>2, Zenon
<1>6. t \in Seq(Seq(Bytes)) /\ Len(t) = Len(c) - 1
  <2> DEFINE S == Seq(Bytes)
             k == Len(c) - 1
  <2>1. k \in Nat /\ t \in [1 .. k -> S]
    BY <1>1, <1>5, Zenon
  <2> HIDE DEF S, k
  <2>2. t \in Seq(S) /\ Len(t) = k
    BY <2>1, FunctionIsSeq, Zenon
  <2> QED BY <2>2, Zenon DEF S, k
<1> QED BY <1>4, <1>6 DEF t

LEMMA ReadKeeps ==
    ASSUME StreamInv, NEW n, handleRead(n)
    PROVE  StreamInv'
<1> DEFINE first == SubSeq(wire, 1, n)
           rest == Drop(wire, n)
           filled == readFd(inputBuffer_, first)
           b == buffer_ \o first
           o == Content(outputBuffer_)
           r == Len(received)
           cuts == Cuts(b)
           d == Drop(b, cuts[Len(cuts)])
           pieces == Pieces(b, cuts)
<1>1. /\ n \in 1 .. Len(wire) /\ wire' = rest
      /\ inputBuffer_' = retrieve(filled, readableBytes(filled))
      /\ Split(buffer_ \o Content(filled))
      /\ UNCHANGED <<sent, outputBuffer_, writing>>
  BY DEF handleRead
<1>2. /\ sent \in Seq(Messages) /\ received \in Seq(Seq(Bytes))
      /\ wire \in Seq(Bytes) /\ buffer_ \in Seq(Bytes)
      /\ IsBuffer(outputBuffer_) /\ IsBuffer(inputBuffer_) /\ readableBytes(inputBuffer_) = 0
      /\ ReceivedIsPrefixOfSent /\ RestInFlight
  BY DEF StreamInv
<1>3. /\ first \in Seq(Bytes) /\ rest \in Seq(Bytes) /\ first \o rest = wire
  <2>1. n \in 0 .. Len(wire)
    BY <1>1, <1>2
  <2> QED BY <1>2, <2>1, Halves
<1> HIDE DEF first, rest
<1>4. IsBuffer(filled) /\ Content(filled) = first
  <2>1. Content(inputBuffer_) = <<>>
    BY <1>2, NothingReadable
  <2>2. IsBuffer(filled) /\ Content(filled) = Content(inputBuffer_) \o first
    BY <1>2, <1>3, ReadFdAppends
  <2> QED BY <1>3, <2>1, <2>2, EmptyParts
<1>5. buffer_' = d /\ received' = received \o pieces
  BY <1>1, <1>4, Zenon DEF Split
<1> HIDE DEF filled
<1>6. IsBuffer(inputBuffer_') /\ readableBytes(inputBuffer_') = 0
  <2>1. readableBytes(filled) \in Nat
    BY <1>4, ContentIsSeq
  <2>2. readableBytes(filled) \in 0 .. readableBytes(filled)
    BY <2>1
  <2>3. IsBuffer(inputBuffer_')
    BY <1>1, <1>4, <2>2, RetrieveDrops
  <2>4. inputBuffer_'.readerIndex_ = filled.writerIndex_
        /\ inputBuffer_'.writerIndex_ = filled.writerIndex_
    BY <1>1, <1>4 DEF retrieve, readableBytes, IsBuffer
  <2>5. filled.writerIndex_ \in Nat
    BY <1>4, BufferFacts
  <2> QED BY <2>3, <2>4, <2>5 DEF readableBytes
<1>7. b \in Seq(Bytes) /\ o \in Seq(Bytes) /\ rest \o o \in Seq(Bytes)
  <2>1. o \in Seq(Bytes)
    BY <1>2, ContentIsSeq
  <2> HIDE DEF o
  <2> QED BY <1>2, <1>3, <2>1
<1>8. Fitting(sent) /\ sent \in Seq(Seq(Bytes)) /\ Len(sent) \in Nat /\ r \in 0 .. Len(sent)
      /\ \A i \in 1 .. r : received[i] = sent[i]
  <2>1. Fitting(sent) /\ sent \in Seq(Seq(Bytes))
    BY <1>2, SentFits
  <2> QED BY <1>2, <2>1 DEF ReceivedIsPrefixOfSent
<1>9. b \o (rest \o o) = Flight(sent)[r]
  <2>1. Flight(sent)[r] = (buffer_ \o wire) \o o
    BY <1>2, RestInFlightIs DEF InFlight
  <2> HIDE DEF b, o
  <2>2. (b \o rest) \o o = b \o (rest \o o)
    BY <1>3, <1>7, Associative
  <2>3. (buffer_ \o first) \o rest = buffer_ \o (first \o rest)
    BY <1>2, <1>3, Associative
  <2> QED BY <1>3, <2>1, <2>2, <2>3 DEF b
<1>10. Found(cuts, 0, r, sent, b, rest \o o)
  <2> HIDE DEF b, o
  <2>1. 0 \in 0 .. Len(b) /\ Drop(b, 0) = b
    BY <1>7 DEF Drop
  <2>2. Found(CutsFrom(b)[0], 0, r, sent, b, rest \o o)
    BY <1>7, <1>8, <1>9, <2>1, CutsFindMessages
  <2>3. Cuts(b) = CutsFrom(b)[0]
    BY DEF Cuts, CutsFrom, Cutting, Following
  <2> QED BY <2>2, <2>3
<1> HIDE DEF b, o, cuts
<1>11. /\ cuts \in Seq(0 .. Len(b)) /\ Len(cuts) >= 1 /\ r + (Len(cuts) - 1) <= Len(sent)
       /\ \A i \in 1 .. Len(cuts) - 1 :
             SubSeq(b, cuts[i] + HeaderSize + 1, cuts[i + 1]) = sent[r + i]
       /\ d \o (rest \o o) = Flight(sent)[r + (Len(cuts) - 1)]
  BY <1>10 DEF Found
<1>12. /\ pieces \in Seq(Seq(Bytes)) /\ Len(pieces) = Len(cuts) - 1
       /\ \A i \in 1 .. Len(cuts) - 1 : pieces[i] = sent[r + i]
  BY <1>7, <1>11, PiecesFacts
<1>13. d \in Seq(Bytes)
  <2>1. Len(cuts) \in 1 .. Len(cuts)
    BY <1>11
  <2>2. cuts[Len(cuts)] \in 0 .. Len(b)
    BY <1>11, <2>1
  <2> QED BY <1>7, <2>2, DropFacts
<1> HIDE DEF pieces, d
<1>14. /\ received' \in Seq(Seq(Bytes)) /\ Len(received') = r + Len(pieces)
       /\ \A i \in 1 .. r + Len(pieces) :
             received'[i] = IF i <= r THEN received[i] ELSE pieces[i - r]
  BY <1>2, <1>5, <1>12, ConcatProperties
<1>15. ReceivedIsPrefixOfSent'
  <2>1. Len(received') <= Len(sent)
    BY <1>11, <1>12, <1>14
  <2>2. ASSUME NEW i \in 1 .. Len(received') PROVE received'[i] = sent[i]
    <3>1. Len(pieces) \in Nat /\ r \in Nat /\ i \in 1 .. r + Len(pieces)
      BY <1>8, <1>12, <1>14
    <3>2. CASE i <= r
      <4>1. i \in 1 .. r
        BY <3>1, <3>2
      <4>2. received'[i] = received[i]
        BY <1>14, <3>1, <3>2, Zenon
      <4> QED BY <1>8, <4>1, <4>2, Zenon
    <3>3. CASE ~(i <= r)
      <4>1. i - r \in 1 .. Len(cuts) - 1 /\ r + (i - r) = i
        BY <1>12, <3>1, <3>3
      <4>2. pieces[i - r] = sent[i]
        BY <1>12, <4>1
      <4> QED BY <1>14, <3>1, <3>3, <4>2
    <3> QED BY <3>2, <3>3
  <2> QED BY <1>1, <2>1, <2>2 DEF ReceivedIsPrefixOfSent
<1>16. (d \o rest) \o o = d \o (rest \o o)
  BY <1>3, <1>7, <1>13, Associative
<1>17. Len(received') = r + (Len(cuts) - 1)
  BY <1>12, <1>14
<1>18. InFlight(sent', Len(received'), buffer_', wire', Content(outputBuffer_'))
  BY <1>1, <1>5, <1>11, <1>16, <1>17 DEF InFlight, o
<1>19. RestInFlight'
  BY <1>1, <1>2, <1>18, RestInFlightIs, RestInFlightNext
<1> QED BY <1>1, <1>2, <1>3, <1>5, <1>6, <1>13, <1>14, <1>15, <1>19
        DEF StreamInv, IsBuffer, readableBytes

LEMMA StreamInvStep == StreamInv /\ [StreamNext]_streamVars => StreamInv'
<1> SUFFICES ASSUME StreamInv, [StreamNext]_streamVars PROVE StreamInv'
  OBVIOUS
<1>1. ASSUME NEW m \in Messages, NEW n \in 0 .. Len(m) + HeaderSize, sendInLoop(m, n)
      PROVE  StreamInv'
  BY <1>1, SendKeeps
<1>2. ASSUME NEW n \in 1 .. Room, handleWrite(n) PROVE StreamInv'
  BY <1>2, WriteKeeps
<1>3. ASSUME NEW n \in 1 .. Room, handleRead(n) PROVE StreamInv'
  BY <1>3, ReadKeeps
<1>4. CASE UNCHANGED streamVars
  <2>1. UNCHANGED <<sent, outputBuffer_, writing, wire, inputBuffer_, buffer_, received>>
    BY <1>4 DEF streamVars
  <2>2. RestInFlight'
    BY <2>1, RestInFlightIs, RestInFlightNext DEF StreamInv
  <2> QED BY <2>1, <2>2 DEF StreamInv, ReceivedIsPrefixOfSent, IsBuffer, readableBytes
<1> QED BY <1>1, <1>2, <1>3, <1>4 DEF StreamNext

LEMMA StreamInvHolds == StreamSpec => []StreamInv
BY StreamInitInv, StreamInvStep, PTL DEF StreamSpec

\* However the bytes are cut up by the sockets, the buffers and the splitter,
\* the messages come out whole, as they went in and in order (TcpConnection.cc,
\* Buffer.cc and MessageSplitter).
THEOREM MessagesComeOut == StreamSpec => []ReceivedIsPrefixOfSent
<1>1. StreamInv => ReceivedIsPrefixOfSent
  BY DEF StreamInv
<1> QED BY <1>1, StreamInvHolds, PTL

\* No byte is lost, doubled or overtaken between encodeMessage and the
\* splitter's rest, and bytes that are queued wait for POLLOUT.
THEOREM NothingLost == StreamSpec => []RestInFlight
<1>1. StreamInv => RestInFlight
  BY DEF StreamInv
<1> QED BY <1>1, StreamInvHolds, PTL
============================================================================
